------------------------------ MODULE EvmKeys ------------------------------
(***************************************************************************)
(* evm/crypto_evm.c: signatures and addresses, from keys that are derived  *)
(* for each and wiped after it.  A step is one call of the operating       *)
(* system, which may fail, or what lies between two of them.               *)
(***************************************************************************)
EXTENDS Sigutils, EvmV

CONSTANTS
    Signatures,   (* [r, s, der]: the numbers the operating system signs     *)
                  (* with, and the bytes it answers with                     *)
    Transaction   (* eth_tx_obj: the transaction that is signed              *)

(* The operating system answers in DER, or with a wrong marker or length   *)
(* in what it answers, which are all within 39 bytes.                      *)
ASSUME SignaturesAssumption ==
    \A sig \in Signatures :
        /\ sig.r \in Seq(0 .. 255) /\ Len(sig.r) <= 32
        /\ sig.s \in Seq(0 .. 255) /\ Len(sig.s) <= 32
        /\ sig.der \in Seq(0 .. 255) /\ Len(sig.der) <= 73
        /\ \/ sig.der = DerSignature(sig.r, sig.s)
           \/ Len(sig.der) >= 39 /\ Markers(sig.der) # "no_error"

VARIABLES
    pc,              (* the next step                                        *)
    op,              (* the operation, and what was asked                    *)
    privateKeyData,  (* "zero" or "secret"                                   *)
    cx_privateKey,   (* "unset", "zero" or "secret"                          *)
    buffer,          (* of a signature: r, s, v and der_signature            *)
    answer,          (* answer_eth_t: what its parts hold                    *)
    signature,       (* what the operating system has signed, and info       *)
    result           (* of the operation: "ok" or "error", and a length      *)

keys == <<privateKeyData, cx_privateKey>>
keyVars == <<pc, op, privateKeyData, cx_privateKey, buffer, answer, signature, result>>

None == [op |-> "none"]
Unsigned == [r |-> << >>, s |-> << >>, der |-> << >>, info |-> 0]
Running == [err |-> "running", len |-> 0]
Failure == [err |-> "error", len |-> 0]

EmptyAnswer == [publicKey |-> "zero", address |-> "zero", chainCode |-> "zero"]

BUFFER == 32 + 32 + 1 + 73

(* The buffer is the one of the APDU: it holds the command before. *)
Old == [k \in 1 .. BUFFER |-> 255]
OldAnswer == [publicKey |-> "old", address |-> "old", chainCode |-> "old"]

KeyInit ==
    /\ pc = "idle" /\ op = None
    /\ privateKeyData = "zero" /\ cx_privateKey = "unset"
    /\ buffer = Old /\ answer = OldAnswer
    /\ signature = Unsigned
    /\ result = Running

(* What is done after a step fails: to leave with an error. *)
Fail(to) ==
    /\ pc' = to
    /\ IF to = "idle" THEN result' = Failure ELSE UNCHANGED result

Goto(to) == pc' = to /\ UNCHANGED result

-----------------------------------------------------------------------------
(* crypto_sign_eth: the digest is the message, of a personal message, or   *)
(* its hash.                                                               *)
crypto_sign_eth(is_personal_message) ==
    /\ pc = "idle"
    /\ op' = [op |-> "sign", personal |-> is_personal_message]
    /\ buffer' = Old /\ signature' = Unsigned
    /\ \/ result' = Running /\ pc' = "derive"
       \/ ~is_personal_message /\ result' = Failure /\ pc' = "idle"
    /\ UNCHANGED <<keys, answer>>

(* mutant: a failure returns at once *)
DeriveReturning ==
    /\ pc = "derive"
    /\ privateKeyData' = "secret"
    /\ cx_privateKey' = "unset"
    /\ answer' = IF op.op = "address" /\ op.chainCode THEN [answer EXCEPT !.chainCode = "derived"] ELSE answer
    /\ Goto("init_private") \/ Fail("idle")
    /\ UNCHANGED <<op, buffer, signature>>

(* os_derive_bip32_with_seed, of both operations; when it fails it may     *)
(* have written some of the key, and of the chain code.                    *)
Derive ==
    /\ pc = "derive"
    /\ privateKeyData' = "secret"
    /\ cx_privateKey' = "unset"
    /\ answer' = IF op.op = "address" /\ op.chainCode THEN [answer EXCEPT !.chainCode = "derived"] ELSE answer
    /\ Goto("init_private") \/ Fail("wipe")
    /\ UNCHANGED <<op, buffer, signature>>

InitPrivate ==
    /\ pc = "init_private"
    /\ cx_privateKey' = "secret"
    /\ Goto(IF op.op = "sign" THEN "sign" ELSE "init_public") \/ Fail("wipe")
    /\ UNCHANGED <<op, privateKeyData, buffer, answer, signature>>

(* cx_ecdsa_sign, into der_signature. *)
Sign ==
    /\ pc = "sign"
    /\ \/ \E sig \in Signatures, info \in 0 .. 3 :
            /\ signature' = [r |-> sig.r, s |-> sig.s, der |-> sig.der, info |-> info]
            /\ buffer' = SubSeq(buffer, 1, 65) \o sig.der \o SubSeq(buffer, 66 + Len(sig.der), BUFFER)
            /\ Goto("convert")
       \/ Fail("wipe") /\ UNCHANGED <<buffer, signature>>
    /\ UNCHANGED <<op, keys, answer>>

(* convertDERtoRSV: into r, s and v of the buffer. *)
Convert ==
    /\ pc = "convert"
    /\ LET rsv == convertDERtoRSV(SubSeq(buffer, 66, BUFFER), signature.info)
       IN  /\ buffer' = rsv.r \o rsv.s \o <<rsv.v>> \o SubSeq(buffer, 66, BUFFER)
           /\ result' = IF rsv.err = "no_error" THEN [err |-> "ok", len |-> 65 + Len(signature.der)] ELSE result
    /\ pc' = "wipe"
    /\ UNCHANGED <<op, keys, answer, signature>>

(* catch_cx_error, of both operations; on an error the output is cleared,  *)
(* and the caller leaves.                                                  *)
Wipe ==
    /\ pc = "wipe"
    /\ privateKeyData' = "zero" /\ cx_privateKey' = "zero"
    /\ IF result.err = "ok"
       THEN /\ Goto(IF op.op = "sign" THEN "fix_v" ELSE "address")
            /\ UNCHANGED <<buffer, answer>>
       ELSE /\ Fail("idle")
            /\ buffer' = IF op.op = "sign" THEN Zeros(BUFFER) ELSE buffer
            /\ answer' = IF op.op = "sign" THEN answer
                         ELSE [answer EXCEPT !.publicKey = "zero", !.chainCode = "zero"]
    /\ UNCHANGED <<op, signature>>

(* tx_compute_eth_v; r and s move up by a byte to let v come first. *)
FixV ==
    /\ pc = "fix_v"
    /\ buffer' = <<_computeV(Transaction, Parity(signature.info), op.personal)>>
                   \o SubSeq(buffer, 1, 64) \o SubSeq(buffer, 66, BUFFER)
    /\ Goto("idle")
    /\ UNCHANGED <<op, keys, answer, signature>>

-----------------------------------------------------------------------------
(* crypto_fillEthAddress, which clears the answer first, and asks for the  *)
(* chain code if the command did.                                          *)
crypto_fillEthAddress(evm_chain_code) ==
    /\ pc = "idle"
    /\ op' = [op |-> "address", asked |-> evm_chain_code, chainCode |-> evm_chain_code]
    /\ answer' = EmptyAnswer
    /\ signature' = Unsigned
    /\ result' = Running
    /\ pc' = "derive"
    /\ UNCHANGED <<keys, buffer>>

InitPublic ==
    /\ pc = "init_public"
    /\ Goto("generate") \/ Fail("wipe")
    /\ UNCHANGED <<op, keys, buffer, answer, signature>>

Generate ==
    /\ pc = "generate"
    /\ \/ /\ answer' = [answer EXCEPT !.publicKey = "derived"]
          /\ result' = [err |-> "ok", len |-> 0]
          /\ pc' = "wipe"
       \/ Fail("wipe") /\ UNCHANGED answer
    /\ UNCHANGED <<op, keys, buffer, signature>>

(* The hash of the key, and the address; the length of the answer is that  *)
(* of the parts asked for.                                                 *)
Address ==
    /\ pc = "address"
    /\ pc' = "idle"
    /\ \/ /\ answer' = [answer EXCEPT !.address = "derived"]
          /\ result' = [err |-> "ok", len |-> 66 + 41 + IF op.asked THEN 32 ELSE 0]
       \/ result' = Failure /\ UNCHANGED answer
    /\ UNCHANGED <<op, keys, buffer, signature>>

KeyNext ==
    \/ \E personal \in BOOLEAN : crypto_sign_eth(personal)
    \/ \E code \in BOOLEAN : crypto_fillEthAddress(code)
    \/ Derive \/ InitPrivate \/ Sign \/ Convert \/ Wipe \/ FixV
    \/ InitPublic \/ Generate \/ Address

KeySpec == KeyInit /\ [][KeyNext]_keyVars

-----------------------------------------------------------------------------
Done(operation) == pc = "idle" /\ op.op = operation

(* No secret outlives its operation, whichever call has failed. *)
NoKeyLeft ==
    pc \in {"idle", "fix_v", "address"} => privateKeyData = "zero" /\ cx_privateKey # "secret"

(* The host gets v, r and s, of 32 bytes each: the numbers signed with,    *)
(* for every length they have in DER, and the v of the parity that the     *)
(* operating system told.                                                  *)
SignatureAsSigned ==
    Done("sign") /\ result.err = "ok" =>
      /\ SubSeq(buffer, 2, 33)  = Zeros(32 - Len(signature.r)) \o signature.r
      /\ SubSeq(buffer, 34, 65) = Zeros(32 - Len(signature.s)) \o signature.s
      /\ buffer[1] = _computeV(Transaction, Parity(signature.info), op.personal)

(* An operation that fails answers nothing of the signature, and nothing   *)
(* of a key that could not be derived; and the answer to a command without *)
(* chain code has none.                                                    *)
FailureAnswersNothing ==
    /\ Done("sign") /\ result.err = "error" => buffer \in {Old, Zeros(BUFFER)}
    /\ Done("address") /\ result.err = "error" => answer.address = "zero"
    /\ Done("address") /\ answer.publicKey = "zero" => answer.chainCode = "zero"
    /\ Done("address") /\ result.err = "ok" =>
         /\ answer.publicKey = "derived" /\ answer.address = "derived"
         /\ result.len = 66 + 41 + IF answer.chainCode = "derived" THEN 32 ELSE 0

(* The conversion stays within the 73 bytes of the signature, whatever     *)
(* their markers and lengths say: nothing checks the lengths together.     *)
ReadsTheSignatureOnly ==
    LET der == SubSeq(buffer, 66, BUFFER)
    IN  pc = "convert" /\ Markers(der) = "no_error" => Extent(der) <= 73

(* Whatever fails, nothing of a key or of an unfinished answer is left.    *)
NothingLeftOver == NoKeyLeft /\ FailureAnswersNothing

(* An answer is made of the signature and of nothing else. *)
AnswersTheSignature == SignatureAsSigned /\ ReadsTheSignatureOnly

=============================================================================
