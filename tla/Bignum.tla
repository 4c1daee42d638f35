------------------------------- MODULE Bignum -------------------------------
(***************************************************************************)
(* src/bignum.c: a number of bytes becomes binary coded decimal, one bit   *)
(* at a time (double dabble), and the decimal text.  Both byte orders are  *)
(* modelled: of a big endian number the decimal is stored lowest byte      *)
(* first, of a little endian one highest byte first.                       *)
(***************************************************************************)
EXTENDS Integers, SequencesExt

(* "Fix bcd": 3 more in each half of a byte that is more than 4. *)
Fix(b) ==
    LET low  == IF b % 16 > 4 THEN 3 ELSE 0
        high == IF b \div 16 > 4 THEN 48 ELSE 0
    IN  (b + low + high) % 256

(* "get bit": a bit of the number, from the highest. *)
NextBit(bigEndian, binValue, bitIdx) ==
    LET byteIdx == bitIdx \div 8
        byte == IF bigEndian THEN binValue[byteIdx + 1] ELSE binValue[Len(binValue) - byteIdx]
    IN  (byte \div 2 ^ (7 - (bitIdx % 8))) % 2

(* "Shift bcd": one to the left, the bit goes in, and each byte hands its  *)
(* highest bit to the next: the one above in a big endian number, the one  *)
(* below in a little endian one.                                           *)
Shifted(bigEndian, bcd, bit) ==
    LET before(j) == IF bigEndian THEN j - 1 ELSE j + 1
    IN  [j \in DOMAIN bcd |->
            (2 * bcd[j] + (IF before(j) \in DOMAIN bcd THEN bcd[before(j)] \div 128 ELSE bit)) % 256]

(* A turn of the loop. *)
Turn(bigEndian, bcd, bit) == Shifted(bigEndian, [j \in DOMAIN bcd |-> Fix(bcd[j])], bit)

(* bignumBigEndian_to_bcd and bignumLittleEndian_to_bcd: the decimal after *)
(* each number of bits, after all of them in the end.                      *)
to_bcd(bigEndian, binValue, bcdOutLen) ==
    LET after[n \in 0 .. 8 * Len(binValue)] ==
            IF n = 0 THEN [j \in 1 .. bcdOutLen |-> 0]
            ELSE Turn(bigEndian, after[n - 1], NextBit(bigEndian, binValue, n - 1))
    IN  after

(* The digits of a decimal, highest first. *)
AllDigits(bigEndian, bcd) ==
    LET highFirst == IF bigEndian THEN Reverse(bcd) ELSE bcd
    IN  [k \in 1 .. 2 * Len(bcd) |->
            LET b == highFirst[(k + 1) \div 2] IN IF k % 2 = 1 THEN b \div 16 ELSE b % 16]

(* From the first digit that is not zero on; one zero at least. *)
Significant(digits) ==
    LET nonzero == {k \in DOMAIN digits : digits[k] # 0}
    IN  IF nonzero = {} THEN <<0>>
        ELSE SubSeq(digits, CHOOSE k \in nonzero : \A j \in nonzero : k <= j, Len(digits))

(* bignumBigEndian_bcdprint and bignumLittleEndian_bcdprint, into          *)
(* outBufferLen bytes: the digits, and the bytes with the terminator.      *)
bcdprint(bigEndian, bcd, outBufferLen) ==
    LET digits == Significant(AllDigits(bigEndian, bcd))
    IN  IF outBufferLen < 4 THEN [ret |-> "failed", digits |-> << >>, bytes |-> 0]
        ELSE IF 2 * Len(bcd) > outBufferLen THEN [ret |-> "ERR", digits |-> << >>, bytes |-> 4]
        ELSE [ret |-> "ok", digits |-> digits,
              bytes |-> Len(digits) + (IF Len(digits) < outBufferLen THEN 1 ELSE 0)]

-----------------------------------------------------------------------------
(* Calls of these operations with the numbers of an instance, and what the *)
(* decimal says.                                                           *)
CONSTANTS Numbers,   \* the numbers, as sequences of bytes
          BcdLens,   \* the lengths of the decimal
          OutLens    \* the lengths of the text buffer

VARIABLE call        \* the last call: its name, its inputs and its results

Call ==
    \E bigEndian \in BOOLEAN, binValue \in Numbers, bcdLen \in BcdLens, outLen \in OutLens :
        LET after == to_bcd(bigEndian, binValue, bcdLen)
        IN  call' = [fn |-> "bignum", bigEndian |-> bigEndian, binValue |-> binValue, outLen |-> outLen,
                     after |-> after, printed |-> bcdprint(bigEndian, after[8 * Len(binValue)], outLen)]

-----------------------------------------------------------------------------
(* The value of the first bits of the number, and of decimal digits. *)
ValueOfBits(bits) ==
    LET stored == IF call.bigEndian THEN call.binValue ELSE Reverse(call.binValue)
        whole  == FoldLeft(LAMBDA v, b : 256 * v + b, 0, SubSeq(stored, 1, bits \div 8))
    IN  IF bits % 8 = 0 THEN whole
        ELSE whole * 2 ^ (bits % 8) + stored[bits \div 8 + 1] \div 2 ^ (8 - (bits % 8))

ValueOfDigits(digits) == FoldLeft(LAMBDA v, d : 10 * v + d, 0, digits)

(* After every bit each half of a byte is a decimal digit, and together    *)
(* they are the number the bits make, modulo what the decimal can hold.    *)
DecimalOfBits ==
    call.fn = "bignum" =>
        \A bits \in DOMAIN call.after :
            LET digits == AllDigits(call.bigEndian, call.after[bits])
            IN  /\ \A k \in DOMAIN digits : digits[k] \in 0 .. 9
                /\ ValueOfDigits(digits) = ValueOfBits(bits) % 10 ^ Len(digits)

(* What is printed is the number, without zeros in front; with room for    *)
(* the digits of the decimal and one byte it ends in the buffer.           *)
PrintedExact ==
    call.fn = "bignum" /\ call.printed.ret = "ok" =>
        LET bits  == 8 * Len(call.binValue)
            shown == call.printed.digits
            room  == 2 * Len(call.after[bits])
        IN  /\ ValueOfDigits(shown) = ValueOfBits(bits) % 10 ^ room
            /\ Len(shown) > 1 => shown[1] # 0
            /\ room < call.outLen \/ Len(shown) < room => call.printed.bytes = Len(shown) + 1
            /\ call.printed.bytes <= call.outLen

=============================================================================
