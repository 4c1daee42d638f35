------------------------------ MODULE Zxformat ------------------------------
(***************************************************************************)
(* src/zxformat.c and include/zxformat.h: numbers, paths and pages as      *)
(* text.  A buffer is a sequence of bytes, a text the bytes before the     *)
(* first zero byte.  An offset in a buffer is the number of bytes before.  *)
(***************************************************************************)
EXTENDS Integers, SequencesExt

Byte == 0 .. 255

Nul   == 0
Quote == 39
Minus == 45
Dot   == 46
Slash == 47
Digit == 48 .. 57
Zero  == 48
Upper == 65 .. 90
Lower == 97 .. 122

ERR   == <<69, 82, 82>>
ERROR == <<69, 82, 82, 79, 82>>

Fill(b, n) == [k \in 1 .. n |-> b]

Least(a, b) == IF a <= b THEN a ELSE b
Larger(a, b) == IF a >= b THEN a ELSE b

(* strnlen, and the text of a buffer. *)
strnlen(b, size) ==
    LET ends == {k \in 1 .. size : b[k] = Nul}
    IN  IF ends = {} THEN size ELSE (CHOOSE k \in ends : \A j \in ends : k <= j) - 1

Text(b) == SubSeq(b, 1, strnlen(b, Len(b)))

(* The buffer with bytes written at an offset, and with some of it moved.  *)
Put(b, at, bytes) ==
    [k \in DOMAIN b |-> IF k - at \in DOMAIN bytes THEN bytes[k - at] ELSE b[k]]

MEMMOVE(b, to, from, n) == Put(b, to, SubSeq(b, from + 1, from + n))

(* snprintf of a text into size bytes from an offset: what fits, and the   *)
(* zero byte.                                                              *)
snprintf(b, at, size, text) ==
    IF size = 0 THEN b
    ELSE Put(b, at, SubSeq(text, 1, Least(Len(text), size - 1)) \o <<Nul>>)

(* The text of a number. *)
Decimal[n \in Nat] == IF n < 10 THEN <<Zero + n>> ELSE Append(Decimal[n \div 10], Zero + (n % 10))

-----------------------------------------------------------------------------
(* NUM_TO_STR, into the first dataLen bytes of a memory.  The digits are   *)
(* counted from behind the sign.                                           *)
NUM_TO_STR(data, dataLen, number) ==
    LET digits == Decimal[IF number < 0 THEN -number ELSE number]
        clear  == Put(data, 0, Fill(Nul, dataLen))
        sign   == IF number < 0 THEN <<Minus>> ELSE << >>
    IN  IF dataLen < 2 THEN [err |-> "Buffer too small", data |-> data]
        ELSE IF Len(digits) > dataLen - 1
          THEN [err |-> "Buffer too small", data |-> Put(clear, 0, sign \o SubSeq(Reverse(digits), 1, dataLen - 1))]
        ELSE [err |-> "ok", data |-> Put(clear, 0, sign \o digits)]

(* parse_digits_to_uint64: fails beyond the limit, at a character that is  *)
(* not a digit, and without digits.                                        *)
ParseFailed == [err |-> 1, value |-> 0]

parse_digits_to_uint64(text, limit) ==
    IF text = << >> THEN ParseFailed
    ELSE FoldLeft(LAMBDA r, c : IF r.err = 1 \/ c \notin Digit THEN ParseFailed
                                ELSE IF r.value > (limit - (c - Zero)) \div 10 THEN ParseFailed
                                ELSE [err |-> 0, value |-> r.value * 10 + (c - Zero)],
                  [err |-> 0, value |-> 0], text)

(* str_to_int64, of numbers up to max, and str_to_int8 on top of it. *)
str_to_int64(text, max) ==
    LET negative == text # << >> /\ text[1] = Minus
        parsed   == IF negative THEN parse_digits_to_uint64(Tail(text), max + 1)
                                ELSE parse_digits_to_uint64(text, max)
    IN  IF parsed.err = 1 THEN ParseFailed
        ELSE [err |-> 0, value |-> IF negative THEN -parsed.value ELSE parsed.value]

str_to_int8(text, max) ==
    LET parsed == str_to_int64(text, max)
    IN  IF parsed.value \in -128 .. 127 THEN parsed ELSE ParseFailed

-----------------------------------------------------------------------------
(* bip32_to_str: the steps of a path, of which one may be hardened, into   *)
(* max bytes.  A piece of text is refused when nothing of it fits.         *)
Written(s, offset, max) ==
    LET written == strnlen(SubSeq(s, offset + 1, max), max - offset)
    IN  IF written = 0 \/ written >= max - offset
        THEN [err |-> 1, s |-> snprintf(s, 0, max, ERROR), offset |-> 0]
        ELSE [err |-> 0, s |-> s, offset |-> offset + written]

Piece(at, max, text) ==
    IF at.err = 1 THEN at ELSE Written(snprintf(at.s, at.offset, max - at.offset, text), at.offset, max)

EMPTY_PATH == <<69, 77, 80, 84, 89, 32, 80, 65, 84, 72>>

bip32_to_str(max, path) ==
    LET start == [err |-> 0, s |-> Fill(Nul, max), offset |-> 0]
        step(at, k) ==
          LET quote(number) == IF path[k].hardened THEN Piece(number, max, <<Quote>>) ELSE number
              slash(quoted) == IF k # Len(path) THEN Piece(quoted, max, <<Slash>>) ELSE quoted
          IN  slash(quote(Piece(at, max, Decimal[path[k].index])))
    IN  IF path = << >> THEN Text(snprintf(start.s, 0, max, EMPTY_PATH))
        ELSE IF Len(path) > 5 THEN Text(snprintf(start.s, 0, max, ERROR))
        ELSE Text(FoldLeft(step, start, [k \in DOMAIN path |-> k]).s)

-----------------------------------------------------------------------------
(* A number at the front of a buffer, of n characters: without leading     *)
(* zeros, followed by zero bytes.  Both functions below begin so.          *)
NotDigits(b, n) == \E k \in 1 .. n : b[k] \notin Digit

FirstDigit(b, n) ==
    LET nonzero == {k \in 1 .. n : b[k] # Zero}
    IN  IF nonzero = {} THEN n ELSE (CHOOSE k \in nonzero : \A j \in nonzero : k <= j) - 1

TrimLeading(b, size, n) ==
    LET first == FirstDigit(b, n)
    IN  IF first = n THEN [b |-> snprintf(b, 0, size, <<Zero>>), n |-> 1]
        ELSE [b |-> Put(MEMMOVE(b, 0, first, n - first), n - first, Fill(Nul, first)), n |-> n]

(* Zeros in front, when there are no more digits than decimal places. *)
Pad(b, size, n, places) ==
    LET pad == places - n + 1
        padded == Put(MEMMOVE(b, pad, 0, n), 0, Fill(Zero, pad))
    IN  IF n < places + 1 THEN [b |-> padded, n |-> strnlen(padded, size)] ELSE [b |-> b, n |-> n]

(* The point before the last places digits. *)
Point(b, n, places) == Put(MEMMOVE(b, n - places + 1, n - places, places), n - places, <<Dot>>)

(* The number in text or "0", with zero bytes behind. *)
Normal(b, size, n) ==
    LET clear == Put(b, n, Fill(Nul, size - n))
    IN  IF n = 0 THEN [b |-> snprintf(clear, 0, size, <<Zero>>), n |-> 1] ELSE [b |-> clear, n |-> n]

(* What both functions do to the text of n characters at the front of a    *)
(* memory: the error, the memory and the number of characters after it.    *)
Pointed(padded, places) ==
    IF padded.n < places THEN [err |-> "padding", b |-> padded.b, n |-> padded.n]
    ELSE [err |-> "ok", b |-> Point(padded.b, padded.n, places), n |-> padded.n + 1]

Placed(trimmed, size, places) ==
    IF places = 0 THEN [err |-> "ok", b |-> trimmed.b, n |-> trimmed.n]
    ELSE Pointed(Pad(trimmed.b, size, trimmed.n, places), places)

Formatted(start, size, places) ==
    IF NotDigits(start.b, start.n) THEN [err |-> "digits", b |-> snprintf(start.b, 0, size, ERR), n |-> 0]
    ELSE Placed(TrimLeading(start.b, size, start.n), size, places)

(* intstr_to_fpstr_inplace: a number of decimals decimal places, in the    *)
(* first size bytes of a memory; it returns how many characters it has.    *)
Counted(r, size, decimals) ==
    LET length == strnlen(r.b, size)
    IN  [ret |-> IF r.err # "ok" \/ (decimals > 0 /\ length > 255) THEN 0
                 ELSE IF decimals = 0 THEN r.n % 256 ELSE length,
         b |-> r.b]

intstr_to_fpstr_inplace(b, size, decimals) ==
    LET n == strnlen(b, size)
    IN  IF size < 1 \/ size <= n THEN [ret |-> 0, b |-> b]
        ELSE Counted(Formatted(Normal(b, size, n), size, decimals), size, decimals)

(* insertDecimalPoint: the same, but for its result. *)
insertDecimalPoint(b, size, places) ==
    LET n == strnlen(b, size)
        told(r) == [err |-> IF r.err = "ok" THEN "ok" ELSE "encoding_failed", b |-> r.b]
    IN  IF size = 0 \/ places > size \/ places = 65535 \/ size <= n THEN [err |-> "buffer_too_small", b |-> b]
        ELSE told(Formatted(Normal(b, size, n), size, places))

(* fpstr_to_str: of a number in text, into outLen bytes. *)
fpstr_to_str(outLen, number, decimals) ==
    LET out    == Fill(Nul, outLen)
        digits == Len(number)
        put(text, ret) == [ret |-> ret, out |-> Text(snprintf(out, 0, outLen, text))]
        shift  == digits - decimals
    IN  IF decimals = 0
        THEN IF digits = 0 THEN put(<<Zero>>, 0)
             ELSE IF outLen < digits THEN put(ERR, 1) ELSE put(number, 0)
        ELSE IF outLen < decimals + 2 \/ outLen < digits + 2 THEN put(ERR, 1)
        ELSE IF digits <= decimals
        THEN IF outLen <= decimals + 2 THEN put(ERR, 1)
             ELSE put(<<Zero, Dot>> \o Fill(Zero, decimals - digits) \o number, 0)
        ELSE put(SubSeq(number, 1, shift) \o <<Dot>> \o SubSeq(number, shift + 1, digits), 0)

(* fpuint64_to_str: of a number; it returns the length of the text. *)
fpuint64_to_str(outLen, number, decimals) ==
    Len(fpstr_to_str(outLen, Text(NUM_TO_STR(Fill(Nul, 30), 30, number).data), decimals).out)

(* uint64_from_BEarray. *)
uint64_from_BEarray(data) == FoldLeft(LAMBDA result, b : 256 * result + b, 0, data)

(* mutant: one place too few is left *)
TrimOneMore(text, non_trimmed) ==
    LET points == {k \in DOMAIN text : text[k] = Dot}
        limit  == (CHOOSE k \in points : \A j \in points : k <= j) + non_trimmed
        kept   == {k \in DOMAIN text : k < limit \/ text[k] # Zero}
    IN  IF points = {} \/ Len(text) \notin 2 .. 1024 THEN text
        ELSE SubSeq(text, 1, CHOOSE k \in kept : \A j \in kept : j <= k)

(* number_inplace_trimming: zeros at the end, but for some behind the      *)
(* point.                                                                  *)
number_inplace_trimming(text, non_trimmed) ==
    LET points == {k \in DOMAIN text : text[k] = Dot}
        limit  == (CHOOSE k \in points : \A j \in points : k <= j) + non_trimmed
        kept   == {k \in DOMAIN text : k <= limit \/ text[k] # Zero}
    IN  IF points = {} \/ Len(text) \notin 2 .. 1024 THEN text
        ELSE SubSeq(text, 1, CHOOSE k \in kept : \A j \in kept : j <= k)

(* z_str3join: prefix, text and suffix, into size bytes. *)
ERR3 == ERR \o <<63, 63, 63>>

z_str3join(b, size, prefix, suffix) ==
    LET n == strnlen(b, size)
        behind == Put(b, n, IF suffix = << >> THEN << >> ELSE Append(suffix, Nul))
        joined == Put(MEMMOVE(behind, Len(prefix), 0, n + Len(suffix) + 1), 0, prefix)
    IN  IF size < 1 + n + Len(prefix) + Len(suffix) THEN [err |-> "buffer_too_small", b |-> snprintf(b, 0, size, ERR3)]
        ELSE [err |-> "ok", b |-> IF prefix = << >> THEN behind ELSE joined]

-----------------------------------------------------------------------------
(* Pages of a text: their number in eight bits, and what page pageIdx      *)
(* shows, of perPage units each.                                           *)
Pages(len, perPage) == (len \div perPage + IF len % perPage > 0 THEN 1 ELSE 0) % 256

Page(bytes, perPage, pageIdx, pageCount) ==
    LET last == Len(bytes) % perPage
        size == IF last > 0 /\ pageIdx = pageCount - 1 THEN last ELSE perPage
    IN  IF pageIdx >= pageCount THEN << >> ELSE SubSeq(bytes, pageIdx * perPage + 1, pageIdx * perPage + size)

NoPages == [pageCount |-> 0, out |-> << >>]

(* pageStringExt and pageString, into outLen bytes. *)
pageStringExt(outLen, bytes, pageIdx) ==
    LET pageCount == Pages(Len(bytes), outLen - 1)
    IN  IF outLen = 1 \/ bytes = << >> THEN NoPages
        ELSE [pageCount |-> pageCount, out |-> Page(bytes, outLen - 1, pageIdx, pageCount)]

HexDigit(n) == IF n < 10 THEN Zero + n ELSE 87 + n

(* array_to_hexstr. *)
Hex(bytes) == [k \in 1 .. 2 * Len(bytes) |->
                 LET b == bytes[(k + 1) \div 2] IN HexDigit(IF k % 2 = 1 THEN b \div 16 ELSE b % 16)]

array_to_hexstr(dstLen, bytes) == IF dstLen < 2 * Len(bytes) + 1 THEN << >> ELSE Hex(bytes)

(* hexstr_to_array, of hexadecimal digits: the low bits, and for a letter   *)
(* bit 6 of its code added, and bit 3 set when that bit is.                *)
Nibble(ch) ==
    LET low == (ch % 16) + (ch \div 64)
    IN  IF (ch \div 64) % 2 = 1 /\ (low \div 8) % 2 = 0 THEN low + 8 ELSE low

hexstr_to_array(dstLen, text) ==
    IF Len(text) % 2 # 0 \/ dstLen < Len(text) \div 2 THEN << >>
    ELSE [k \in 1 .. Len(text) \div 2 |-> (16 * Nibble(text[2 * k - 1]) + Nibble(text[2 * k])) % 256]

(* array_to_uppercase and array_to_lowercase. *)
array_to_uppercase(text) == [k \in DOMAIN text |-> IF text[k] \in Lower THEN text[k] - 32 ELSE text[k]]
array_to_lowercase(text) == [k \in DOMAIN text |-> IF text[k] \in Upper THEN text[k] + 32 ELSE text[k]]

(* array_to_hexstr_uppercase: with capital letters. *)
array_to_hexstr_uppercase(dstLen, bytes) == array_to_uppercase(array_to_hexstr(dstLen, bytes))

(* pageStringHex, of two characters a byte. *)
pageStringHex(outLen, bytes, pageIdx) ==
    LET perPage   == (outLen - 1) \div 2
        pageCount == Pages(Len(bytes), perPage)
    IN  IF outLen < 2 \/ bytes = << >> THEN NoPages
        ELSE [pageCount |-> pageCount, out |-> array_to_hexstr(outLen, Page(bytes, perPage, pageIdx, pageCount))]

(* formatBufferData: as text or in hex, if it fits bufferUI. *)
formatBufferData(bytes, bufferUI, outLen, pageIdx) ==
    LET text   == IF \A k \in DOMAIN bytes : bytes[k] \in 32 .. 127 THEN bytes
                  ELSE <<Zero, 120>> \o array_to_hexstr(bufferUI - 2, bytes)
        paged  == pageStringExt(outLen, text, pageIdx)
    IN  IF Len(bytes) >= bufferUI \/ (Len(text) = 2 /\ text # bytes)
        THEN [err |-> "buffer_too_small", pageCount |-> 0, out |-> << >>]
        ELSE [err |-> "ok", pageCount |-> paged.pageCount, out |-> paged.out]

=============================================================================
