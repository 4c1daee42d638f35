-------------------------------- MODULE EvmV --------------------------------
(***************************************************************************)
(* _computeV of evm/parser_impl_evm.c: the byte v of a signature, from     *)
(* which the host recovers the key.  A chain id is the sequence of its     *)
(* bytes, tx the parsed transaction.                                       *)
(***************************************************************************)
EXTENDS Integers, Sequences

(* saturating_add_u32 of evm_utils.c: whether small + 2 * x goes beyond 32 *)
(* bits, for x below 2^31.                                                 *)
Saturates(small, x) == x > 2147483647 - (small \div 2)

(* The lower 31 bits of a number: its double has 32. *)
Low31(n) ==
    LET digit(k) == IF Len(n) >= k THEN n[Len(n) + 1 - k] ELSE 0
    IN  (digit(4) % 128) * 16777216 + digit(3) * 65536 + digit(2) * 256 + digit(1)

ETHEREUM_RECOVERY_OFFSET == 27
EIP155_V_BASE == 35

(* mutant: the parity is lost *)
VWithoutParity(tx, parity, is_personal_message) ==
    LET chainId == Low31(tx.chain_id_decoded)
    IN  IF is_personal_message THEN ETHEREUM_RECOVERY_OFFSET + parity
        ELSE IF tx.tx_type \in {"eip2930", "eip1559"} THEN parity
        ELSE (EIP155_V_BASE + (chainId % 128) * 2) % 256

(* _computeV: for a transaction of the old type, the saturated sum of 35   *)
(* or 36 and twice the chain id, in its lowest byte.                       *)
_computeV(tx, parity, is_personal_message) ==
    LET chainId == Low31(tx.chain_id_decoded)
    IN  IF is_personal_message THEN ETHEREUM_RECOVERY_OFFSET + parity
        ELSE IF tx.tx_type \in {"eip2930", "eip1559"} THEN parity
        ELSE IF Saturates(EIP155_V_BASE + parity, chainId) THEN 255
        ELSE (EIP155_V_BASE + parity + (chainId % 128) * 2) % 256

=============================================================================
