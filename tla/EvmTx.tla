------------------------------- MODULE EvmTx -------------------------------
(***************************************************************************)
(* The parser of EVM transactions: evm/parser_impl_evm.c with              *)
(* evm_erc20.c, parser_evm.c, tx_evm.c and the second half of              *)
(* handleSignEth, which receives a whole transaction.  What is read is     *)
(* kept in one global, eth_tx_obj, from one transaction to the next; the   *)
(* review and the signature use it later.                                  *)
(*                                                                         *)
(* A number is the sequence of its bytes without the leading zeros.        *)
(***************************************************************************)
EXTENDS Rlp, EvmV

CONSTANTS
    Requests,      (* the byte sequences the host sends to be signed         *)
    Networks,      (* supported_networks_evm, of the application             *)
    Tokens         (* the addresses of supportedTokens, of the application   *)

Number(bytes) ==
    LET digits == {k \in DOMAIN bytes : bytes[k] # 0}
    IN  IF digits = {} THEN << >> ELSE SubSeq(bytes, CHOOSE k \in digits : \A j \in digits : k <= j, Len(bytes))

ASSUME TransactionsAssumption ==
    /\ \A b \in Requests : b \in Seq(Byte)
    /\ \A n \in Networks : n \in Seq(Byte) /\ n = Number(n)
    /\ \A t \in Tokens : t \in [1 .. 20 -> Byte]

VARIABLES
    sent,                (* the transaction buffer                           *)
    eth_tx_obj,          (* eth_tx_t                                         *)
    verdict,             (* the state of the request, or its parser error    *)
    blindsign,           (* the setting: N_appmode.blindsign                 *)
    blindsign_required,  (* the next review carries the warning              *)
    signed               (* the last signature: its parity and its v         *)

vars == <<sent, eth_tx_obj, verdict, blindsign, blindsign_required, signed>>

Fields == {"nonce", "gasPrice", "max_priority_fee_per_gas", "max_fee_per_gas", "gasLimit",
           "to", "value", "data", "access_list", "chainId", "sig_r", "sig_s"}

(* MEMZERO of the object. *)
NoTx == [tx_type |-> "none", fields |-> [f \in Fields |-> NoItem], chain_id_decoded |-> << >>,
         is_erc20_transfer |-> FALSE, is_blindsign |-> FALSE]

-----------------------------------------------------------------------------
(* evm_utils.c *)
be_bytes_to_u64(bytes, len) ==
    IF len = 0 \/ len > 8 THEN [err |-> "unexpected_error", num |-> << >>]
    ELSE [err |-> "ok", num |-> Number(SubSeq(bytes, 1, len))]

(* The chain id of an item.  Its length is passed on in one byte. *)
ChainIdOf(bytes, item) ==
    IF item.rlpLen > 1 THEN be_bytes_to_u64(Content(bytes, item), item.rlpLen % 256)
    ELSE IF item.kind = "BYTE" THEN [err |-> "ok", num |-> Number(Content(bytes, item))]
    ELSE [err |-> "unexpected_error", num |-> << >>]

(* "Check allowed values for chain id using external configuration". *)
CheckedChainId(r, c) ==
    [err |-> IF r.err # "ok" THEN r.err
             ELSE IF c.err # "ok" THEN c.err
             ELSE IF c.num \in {<< >>, <<1>>} \/ c.num \notin Networks THEN "invalid_chain_id"
             ELSE "ok",
     ctx |-> r.ctx, item |-> r.item, num |-> c.num]

ChainIdRead(bytes, r) == CheckedChainId(r, ChainIdOf(bytes, r.item))

readChainID(ctx) == ChainIdRead(ctx.bytes, rlp_read(ctx))

(* The state of reading: the payload's context, and the object so far. *)
Stored(at, name, r) == [err |-> r.err, ctx |-> r.ctx, tx |-> [at.tx EXCEPT !.fields[name] = r.item]]

StoredChainId(at, r) == [Stored(at, "chainId", r) EXCEPT !.tx.chain_id_decoded = r.num]

ReadField(at, name) ==
    IF at.err # "ok" THEN at
    ELSE IF name = "chainId" THEN StoredChainId(at, readChainID(at.ctx))
    ELSE Stored(at, name, rlp_read(at.ctx))

ReadFields(at, names) ==
    LET read[k \in 0 .. Len(names)] == IF k = 0 THEN at ELSE ReadField(read[k - 1], names[k])
    IN  read[Len(names)]

(* The errors after the fields are read. *)
Refuse(at, wrong, err) == IF at.err = "ok" /\ wrong THEN [at EXCEPT !.err = err] ELSE at

AtEnd(at) == at.ctx.offset = at.ctx.bufferLen

legacyFields == <<"nonce", "gasPrice", "gasLimit", "to", "value", "data">>
signatureFields == <<"chainId", "sig_r", "sig_s">>

(* R and S have to be empty, or 0 of one byte each. *)
NoSignature(at) ==
    LET r == Content(at.ctx.bytes, at.tx.fields["sig_r"])
        s == Content(at.ctx.bytes, at.tx.fields["sig_s"])
    IN  <<r, s>> \in {<< << >>, << >> >>, << <<0>>, <<0>> >>}

RefuseRest(at, err) == Refuse(at, ~AtEnd(at), err)

SignatureChecked(at) == RefuseRest(Refuse(at, ~NoSignature(at), "invalid_rs_values"), "unexpected_characters")

(* Without more to read, a transaction from before EIP-155. *)
parse_signature(plain) ==
    IF plain.err = "ok" /\ AtEnd(plain) THEN plain ELSE SignatureChecked(ReadFields(plain, signatureFields))

parse_legacy_tx(at) == parse_signature(ReadFields(at, legacyFields))

parse_2930(at) ==
    RefuseRest(ReadFields(at, <<"chainId", "nonce", "gasPrice", "gasLimit", "to", "value", "data", "access_list">>),
               "unsupported_tx")

parse_1559(at) ==
    RefuseRest(ReadFields(at, <<"chainId", "nonce", "max_priority_fee_per_gas", "max_fee_per_gas", "gasLimit",
                                "to", "value", "data", "access_list">>),
               "unsupported_tx")

(* readTxnType: the type, and how many bytes it takes. *)
readTxnType(bytes) ==
    CASE bytes = << >>            -> [err |-> "unexpected_error", type |-> "none", size |-> 0]
      [] bytes # << >> /\ bytes[1] = 1 -> [err |-> "ok", type |-> "eip2930", size |-> 1]
      [] bytes # << >> /\ bytes[1] = 2 -> [err |-> "ok", type |-> "eip1559", size |-> 1]
      [] bytes # << >> /\ bytes[1] >= 192 -> [err |-> "ok", type |-> "legacy", size |-> 0]
      [] OTHER                    -> [err |-> "unsupported_tx", type |-> "none", size |-> 0]

(* mutant: the object is not cleared *)
KeepObject(tx) == tx

Cleared(tx) == NoTx

(* _readEth: the error, and the object after it.  The fields of a          *)
(* transaction that is refused are of no more use: the next one clears     *)
(* them.                                                                   *)
ReadList(bytes, tx, marker, list) ==
    LET at == [err |-> "ok", ctx |-> Context(bytes, list.item.ptr, list.item.rlpLen),
               tx |-> [Cleared(tx) EXCEPT !.tx_type = marker.type]]
    IN  IF marker.err # "ok" THEN [at EXCEPT !.err = marker.err]
        ELSE IF list.err # "ok" THEN [at EXCEPT !.err = list.err]
        ELSE IF list.item.kind # "LIST" THEN [at EXCEPT !.err = "unexpected_value"]
        ELSE IF list.ctx.offset # list.ctx.bufferLen THEN [at EXCEPT !.err = "unsupported_tx"]
        ELSE CASE marker.type = "eip1559" -> parse_1559(at)
               [] marker.type = "eip2930" -> parse_2930(at)
               [] marker.type = "legacy"  -> parse_legacy_tx(at)

_readEth(bytes, tx) ==
    LET marker == readTxnType(bytes)
    IN  ReadList(bytes, tx, marker, rlp_read(Advance(Whole(bytes), marker.size)))

-----------------------------------------------------------------------------
(* evm_erc20.c *)
ERC20_TRANSFER_PREFIX == <<169, 5, 156, 187>>
ERC20_DATA_LENGTH == 68
ETH_ADDRESS_LEN == 20

StartsWith(data, prefix) == SubSeq(data, 1, Len(prefix)) = prefix

(* mutant: the padding is not checked *)
AnyPadding(bytes, tx) ==
    LET data == Content(bytes, tx.fields["data"])
    IN  /\ tx.fields["to"].rlpLen = ETH_ADDRESS_LEN
        /\ Len(data) = ERC20_DATA_LENGTH
        /\ StartsWith(data, ERC20_TRANSFER_PREFIX)

(* validateERC20: a call of transfer, its address behind twelve zeros. *)
validateERC20(bytes, tx) ==
    LET data == Content(bytes, tx.fields["data"])
    IN  /\ tx.fields["to"].rlpLen = ETH_ADDRESS_LEN
        /\ Len(data) = ERC20_DATA_LENGTH
        /\ StartsWith(data, ERC20_TRANSFER_PREFIX)
        /\ SubSeq(data, 5, 16) = [k \in 1 .. 12 |-> 0]

(* getERC20Token: the token the amount is shown in, or that it is unknown. *)
getERC20Token(bytes, tx) ==
    LET data == Content(bytes, tx.fields["data"])
        at   == tx.fields["to"].ptr
        to   == SubSeq(bytes, at + 1, at + ETH_ADDRESS_LEN)
    IN  IF \/ Len(data) # ERC20_DATA_LENGTH
           \/ ~StartsWith(data, ERC20_TRANSFER_PREFIX)
           \/ \E k \in 5 .. 16 : data[k] # 0
        THEN [err |-> "unexpected_value", token |-> << >>]
        ELSE [err |-> "ok", token |-> IF to \in Tokens THEN to ELSE <<"?? ">>]

-----------------------------------------------------------------------------
(* _validateTxEth: is_blindsign, blindsign_required and the error after it *)
(* for an object, and blindsign_required before it.                        *)
Validation(erc20, blind, required, err) ==
    [erc20 |-> erc20, blind |-> blind, required |-> required, err |-> err]

_validateTxEth(bytes, tx, required) ==
    LET erc20 == tx.fields["data"].rlpLen # 0 /\ validateERC20(bytes, tx)
    IN  IF tx.fields["data"].rlpLen = 0 \/ erc20
        THEN Validation(erc20, FALSE, FALSE, "ok")
        ELSE Validation(FALSE, TRUE, required \/ blindsign, IF blindsign THEN "ok" ELSE "blindsign_mode_required")

(* handleSignEth on a whole transaction, with tx_parse_eth and             *)
(* parser_validate_eth.  The items are shown by the application; all of    *)
(* them are tried once, and any of them may fail.                          *)
Parsed(bytes, read) ==
    LET v == _validateTxEth(bytes, read.tx, FALSE)
    IN  IF read.err # "ok"
        THEN /\ eth_tx_obj' = read.tx
             /\ verdict' = read.err
             /\ blindsign_required' = FALSE
        ELSE /\ eth_tx_obj' = [read.tx EXCEPT !.is_erc20_transfer = v.erc20, !.is_blindsign = v.blind]
             /\ blindsign_required' = v.required
             /\ verdict' \in IF v.err # "ok" THEN {v.err} ELSE {"review", "not_shown"}

handleSignEth(bytes) ==
    /\ verdict # "review"
    /\ sent' = bytes
    /\ \E read \in {_readEth(bytes, eth_tx_obj)} : Parsed(bytes, read)
    /\ UNCHANGED <<blindsign, signed>>

-----------------------------------------------------------------------------
(* The review's answer: app_sign_eth with crypto_sign_eth, or app_reject. *)
Approve(parity) ==
    /\ verdict = "review"
    /\ signed' = [parity |-> parity, v |-> _computeV(eth_tx_obj, parity, FALSE)]
    /\ verdict' = "signed"
    /\ UNCHANGED <<sent, eth_tx_obj, blindsign, blindsign_required>>

Reject ==
    /\ verdict = "review"
    /\ verdict' = "rejected"
    /\ UNCHANGED <<sent, eth_tx_obj, blindsign, blindsign_required, signed>>

(* The blind signing entry of the idle menu: h_blindsign_toggle. *)
h_blindsign_toggle ==
    /\ verdict # "review"
    /\ blindsign' = ~blindsign
    /\ blindsign_required' = blindsign'
    /\ UNCHANGED <<sent, eth_tx_obj, verdict, signed>>

Init ==
    /\ sent = << >>
    /\ eth_tx_obj = NoTx
    /\ verdict = "none"
    /\ blindsign \in BOOLEAN
    /\ blindsign_required = FALSE
    /\ signed = [parity |-> 0, v |-> 0]

Next ==
    \/ \E bytes \in Requests : handleSignEth(bytes)
    \/ \E parity \in {0, 1} : Approve(parity)
    \/ Reject
    \/ h_blindsign_toggle

Spec == Init /\ [][Next]_vars

-----------------------------------------------------------------------------
Accepted == verdict \in {"review", "signed"}

(* The fields of a transaction in the order of its type. *)
Protocols ==
    [legacy  |-> {<<"nonce", "gasPrice", "gasLimit", "to", "value", "data">>,
                  <<"nonce", "gasPrice", "gasLimit", "to", "value", "data", "chainId", "sig_r", "sig_s">>},
     eip2930 |-> {<<"chainId", "nonce", "gasPrice", "gasLimit", "to", "value", "data", "access_list">>},
     eip1559 |-> {<<"chainId", "nonce", "max_priority_fee_per_gas", "max_fee_per_gas", "gasLimit", "to",
                    "value", "data", "access_list">>}]

Payload ==
    LET marker == IF eth_tx_obj.tx_type = "legacy" THEN 0 ELSE 1
    IN  rlp_read(Advance(Whole(sent), marker)).item

(* A transaction under review is the request and nothing else: the items   *)
(* of one list are the fields of the type in their order, and no byte of   *)
(* the list or of the request is left over ("All bytes must be read",      *)
(* "Reject any trailing bytes inside the signed RLP list").                *)
FieldsAreTheItems ==
    Accepted =>
      \E names \in Protocols[eth_tx_obj.tx_type] :
        LET payload == Context(sent, Payload.ptr, Payload.rlpLen)
            read[k \in 0 .. Len(names)] ==
              IF k = 0 THEN [err |-> "ok", ctx |-> payload, item |-> NoItem] ELSE rlp_read(read[k - 1].ctx)
        IN  /\ \A k \in DOMAIN names : eth_tx_obj.fields[names[k]] = read[k].item
            /\ read[Len(names)].ctx.offset = payload.bufferLen
            /\ Payload.kind = "LIST" /\ Payload.ptr + Payload.rlpLen = Len(sent)

(* Nothing of an earlier transaction is left in the object: fields that    *)
(* this one has not are empty, and so is the chain id if it comes without. *)
NothingStale ==
    Accepted =>
      /\ \E names \in Protocols[eth_tx_obj.tx_type] :
           \A f \in Fields : eth_tx_obj.fields[f] # NoItem <=> \E k \in DOMAIN names : names[k] = f
      /\ eth_tx_obj.fields["chainId"] = NoItem => eth_tx_obj.chain_id_decoded = << >>

(* The chain id that enters the signature is the one signed, and one the   *)
(* application supports, other than 1, for chain ids of up to 255 bytes.   *)
ChainIdAllowed ==
    LET item == eth_tx_obj.fields["chainId"]
        id   == Number(Content(sent, item))
    IN  Accepted /\ item # NoItem /\ item.rlpLen < 256 =>
          /\ id = eth_tx_obj.chain_id_decoded
          /\ id \in Networks \ {<< >>, <<1>>}

(* What is reviewed is what was sent, all of it and nothing else.          *)
ReviewedAsSent == FieldsAreTheItems /\ NothingStale /\ ChainIdAllowed

(* What is shown as a transfer is all that is signed: the recipient and    *)
(* the amount encode to the same call data bit by bit ("so the displayed   *)
(* recipient matches the signed calldata bit-for-bit"), of the token       *)
(* called.  Other calls are signed blindly.                                *)
ClearSignedIsTransfer ==
    LET data  == Content(sent, eth_tx_obj.fields["data"])
        recipient == SubSeq(data, 17, 36)
        amount    == SubSeq(data, 37, 68)
        token     == getERC20Token(sent, eth_tx_obj)
    IN  Accepted /\ ~eth_tx_obj.is_blindsign =>
          \/ data = << >>
          \/ /\ data = <<169, 5, 156, 187>> \o [k \in 1 .. 12 |-> 0] \o recipient \o amount
             /\ token.err = "ok"
             /\ token.token \in {Content(sent, eth_tx_obj.fields["to"]), <<"?? ">>}

(* A blind signature is asked for only with the setting on, and its review *)
(* carries the warning; no other review does, whatever was reviewed or     *)
(* set before.                                                             *)
BlindSigningAllowedAndShown ==
    verdict = "review" =>
      /\ eth_tx_obj.is_blindsign => blindsign
      /\ blindsign_required = eth_tx_obj.is_blindsign

(* A user knows what she signs, or that she does not. *)
ShownOrWarned == ClearSignedIsTransfer /\ BlindSigningAllowedAndShown

(* The host finds the parity of the signature in v: alone, or over 35 and  *)
(* twice the chain id.  The last 18 chain ids below a multiple of 2^31     *)
(* are excepted: their sum saturates.                                      *)
VTellsParity ==
    LET id   == eth_tx_obj.chain_id_decoded
        last == IF id = << >> THEN 0 ELSE Last(id)
    IN  verdict = "signed" /\ Low31(id) < 2147483630 =>
          signed.parity = IF eth_tx_obj.tx_type = "legacy" THEN (signed.v - 35 - 2 * last) % 256 ELSE signed.v

=============================================================================
