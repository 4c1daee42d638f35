------------------------------ MODULE Sigutils ------------------------------
(***************************************************************************)
(* src/sigutils.c: convertDERtoRSV takes r and s, 32 bytes each, and v     *)
(* from the signature of the operating system, in DER.                     *)
(*                                                                         *)
(* A byte outside of what the signature was given is Junk.                 *)
(***************************************************************************)
EXTENDS Integers, Sequences

MINPAYLOADLEN == 1
PAYLOADLEN    == 32
MAXPAYLOADLEN == 33

Zeros(n) == [k \in 1 .. n |-> 0]

(* The markers and lengths of 0x30 len 0x02 rLen r 0x02 sLen s. *)
Markers(der) ==
    IF der[1] # 48 THEN "invalid_derPrefix"
    ELSE IF der[2] \notin 2 + MINPAYLOADLEN + 2 + MINPAYLOADLEN .. 2 + MAXPAYLOADLEN + 2 + MAXPAYLOADLEN
      THEN "invalid_payloadLen"
    ELSE IF der[3] # 2 THEN "invalid_rmaker"
    ELSE IF der[4] \notin MINPAYLOADLEN .. MAXPAYLOADLEN THEN "invalid_rLen"
    ELSE IF der[5 + der[4]] # 2 THEN "invalid_smarker"
    ELSE IF der[6 + der[4]] \notin MINPAYLOADLEN .. MAXPAYLOADLEN THEN "invalid_sLen"
    ELSE "no_error"

(* mutant: a short number is put at the front *)
LeftAligned(der, first, len) ==
    IF len > PAYLOADLEN THEN SubSeq(der, first + len - PAYLOADLEN, first + len - 1)
    ELSE SubSeq(der, first, first + len - 1) \o Zeros(PAYLOADLEN - len)

(* The 32 bytes of a number of len bytes: its last ones behind zeros. *)
Aligned(der, first, len) ==
    IF len > PAYLOADLEN THEN SubSeq(der, first + len - PAYLOADLEN, first + len - 1)
    ELSE Zeros(PAYLOADLEN - len) \o SubSeq(der, first, first + len - 1)

(* The bits of info, of the operating system. *)
Parity(info) == info % 2
XGTn(info)   == (info \div 2) % 2

convertDERtoRSV(der, info) ==
    IF Markers(der) # "no_error"
    THEN [err |-> Markers(der), r |-> Zeros(32), s |-> Zeros(32), v |-> 0]
    ELSE [err |-> "no_error",
          r   |-> Aligned(der, 5, der[4]),
          s   |-> Aligned(der, 7 + der[4], der[6 + der[4]]),
          v   |-> Parity(info) + 2 * XGTn(info)]

(* How many bytes of the signature the conversion reads, if it succeeds. *)
Extent(der) == 6 + der[4] + der[6 + der[4]]

-----------------------------------------------------------------------------
(* How DER encodes a number of up to 32 bytes, without leading zeros: with *)
(* a zero before a first byte that would make it negative.                 *)
DerNumber(n) == IF n = << >> THEN <<0>> ELSE IF n[1] >= 128 THEN <<0>> \o n ELSE n

DerSignature(r, s) ==
    LET body == <<2, Len(DerNumber(r))>> \o DerNumber(r) \o <<2, Len(DerNumber(s))>> \o DerNumber(s)
    IN  <<48, Len(body)>> \o body

=============================================================================
