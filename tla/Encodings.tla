----------------------------- MODULE Encodings -----------------------------
(***************************************************************************)
(* src/base58.c, src/base64.c, src/hexutils.c: bytes as text and back.  A  *)
(* character of base 58 or 64 is its value in the alphabet, NotADigit any  *)
(* character that is not in it.  Arrays count from one here, so that the   *)
(* index j of the code is j + 1.                                           *)
(***************************************************************************)
EXTENDS Integers, SequencesExt

Byte == 0 .. 255
NotADigit == 255
Refused == [ok |-> FALSE, out |-> << >>, outlen |-> 0]

(* How many zeros a sequence starts with. *)
Leading0(s) ==
    LET others == {k \in DOMAIN s : s[k] # 0}
    IN  IF others = {} THEN Len(s) ELSE (CHOOSE k \in others : \A i \in others : k <= i) - 1

Zeros(n) == [k \in 1 .. n |-> 0]
Without0(s) == SubSeq(s, Leading0(s) + 1, Len(s))

-----------------------------------------------------------------------------
(* decode_base58: long division by 256 in place, the remainder of each     *)
(* round is a byte from the end on; the quotient starts one further on as  *)
(* soon as its first digit is zero.                                        *)
Round(tmp, startAt) ==
    FoldLeft(LAMBDA r, k : LET d == r.remainder * 58 + r.tmp[k]
                           IN  [tmp |-> [r.tmp EXCEPT ![k] = d \div 256], remainder |-> d % 256],
             [tmp |-> tmp, remainder |-> 0], [k \in 1 .. Len(tmp) - startAt |-> startAt + k])

RECURSIVE DivLoop(_, _, _)
DivLoop(tmp, startAt, bytes) ==
    IF startAt >= Len(tmp) \/ Len(bytes) = Len(tmp) THEN bytes
    ELSE LET r == Round(tmp, startAt)
         IN  DivLoop(r.tmp, IF r.tmp[startAt + 1] = 0 THEN startAt + 1 ELSE startAt, <<r.remainder>> \o bytes)

MAX_DEC_INPUT_SIZE == 164
decode_base58(text, outlen) ==
    LET out == Zeros(Leading0(text)) \o Without0(DivLoop(text, Leading0(text), << >>))
    IN  IF \/ Len(text) > MAX_DEC_INPUT_SIZE
           \/ NotADigit \in {text[k] : k \in DOMAIN text}
           \/ outlen < Len(out)
        THEN Refused
        ELSE [ok |-> TRUE, out |-> out, outlen |-> Len(out)]

(* One byte into the digits from the end on: it stops in front of where    *)
(* the byte before stopped, once nothing is carried.  A stop of -1 is the  *)
(* index that wrapped around, which lets the next byte stop anywhere.      *)
RECURSIVE MulAdd(_, _, _, _)

MulAdd(buffer, j, carry, stopAt) ==
    IF j < 0 THEN [buffer |-> buffer, stopAt |-> -1]
    ELSE LET n    == carry + 256 * buffer[j + 1]
             next == [buffer EXCEPT ![j + 1] = n % 58]
         IN  IF (j < stopAt \/ stopAt <= 0) /\ n \div 58 = 0 THEN [buffer |-> next, stopAt |-> j]
             ELSE MulAdd(next, j - 1, n \div 58, stopAt)

(* encode_base58: a zero byte in front is a zero digit in front, and the   *)
(* digits have room for 138 in a hundred bytes.                            *)
MAX_ENC_INPUT_SIZE == 120
encode_base58(bytes, outlen) ==
    LET zeroCount  == Leading0(bytes)
        outputSize == ((Len(bytes) - zeroCount) * 138) \div 100 + 1
        digits     == FoldLeft(LAMBDA r, b : MulAdd(r.buffer, outputSize - 1, b, r.stopAt),
                               [buffer |-> Zeros(outputSize), stopAt |-> outputSize - 1],
                               SubSeq(bytes, zeroCount + 1, Len(bytes))).buffer
        out        == Zeros(zeroCount) \o Without0(digits)
    IN  IF Len(bytes) > MAX_ENC_INPUT_SIZE THEN [Refused EXCEPT !.outlen = outlen]
        ELSE IF outlen < Len(out) THEN [Refused EXCEPT !.outlen = Len(out)]
        ELSE [ok |-> TRUE, out |-> out, outlen |-> Len(out)]

-----------------------------------------------------------------------------
Pad == 64

(* The bits left over, and the padding. *)
Close(r) ==
    IF r.count = 0 THEN r.out
    ELSE Append(r.out, r.carry * 2 ^ (6 - r.count)) \o [k \in 1 .. (6 - r.count) \div 2 |-> Pad]

(* base64_encode: the characters written, none when the space looked for   *)
(* is not there.  Three bytes give four characters: the bits of a byte     *)
(* that do not fill a character are carried.                               *)
base64_encode(outlen, in) ==
    LET minspace == (Len(in) + 5) \div 6 + 1
        Encode(r, c) ==
            LET idx   == r.carry * 2 ^ (6 - r.count) + c \div 2 ^ (r.count + 2)
                carry == c % 2 ^ (r.count + 2)
            IN  IF r.count + 2 = 6 THEN [out |-> r.out \o <<idx, carry>>, count |-> 0, carry |-> 0]
                ELSE [out |-> Append(r.out, idx), count |-> r.count + 2, carry |-> carry]
    IN  IF outlen < minspace THEN << >>
        ELSE Close(FoldLeft(Encode, [out |-> << >>, count |-> 0, carry |-> 0], in))

-----------------------------------------------------------------------------
(* hex2dec, of a character. *)
IsHex(c) == c \in 48 .. 57 \/ c \in 65 .. 70 \/ c \in 97 .. 102
hex2dec(c) == CASE c \in 48 .. 57 -> c - 48 [] c \in 65 .. 70 -> c - 55 [] c \in 97 .. 102 -> c - 87

(* parseHexString: it looks at one character more than the output has      *)
(* room for.                                                               *)
parseHexString(outLen, input) ==
    LET len == IF Len(input) > 2 * outLen + 1 THEN 2 * outLen + 1 ELSE Len(input)
    IN  IF len \div 2 > outLen \/ len % 2 = 1 \/ \E k \in 1 .. len : ~IsHex(input[k]) THEN Refused
        ELSE [ok |-> TRUE, outlen |-> len \div 2,
              out |-> [k \in 1 .. len \div 2 |-> hex2dec(input[2 * k - 1]) * 16 + hex2dec(input[2 * k])]]

=============================================================================
