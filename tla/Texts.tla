------------------------------- MODULE Texts -------------------------------
(***************************************************************************)
(* asciify of src/zxformat.c with what it uses of include/utf8.h, and      *)
(* extractTime of src/timeutils.c.                                         *)
(***************************************************************************)
EXTENDS Integers, SequencesExt

(* The byte of a text at a position, 0 behind its end. *)
At(text, k) == IF k \in DOMAIN text THEN text[k] ELSE 0

Continues(b) == b \in 128 .. 191

(* How many bytes a code point takes, by its first byte. *)
Size(b) == CASE b \in 240 .. 247 -> 4 [] b \in 224 .. 239 -> 3 [] b \in 192 .. 223 -> 2 [] b \in 0 .. 127 -> 1 [] OTHER -> 0

(* A code point that one byte less could hold. *)
Overlong(b, next) == \/ b = 240 /\ next % 64 < 16
                     \/ b = 224 /\ next % 64 < 32
                     \/ b \in 192 .. 193

(* The code point at a position is well formed. *)
WellFormed(text, k) ==
    LET n == Size(At(text, k))
    IN  /\ n > 0
        /\ \A i \in 1 .. n - 1 : Continues(At(text, k + i))
        /\ n > 1 => ~Continues(At(text, k + n)) /\ ~Overlong(At(text, k), At(text, k + 1))

(* utf8valid: zero exactly when all that is left of the text is valid. *)
RECURSIVE utf8valid(_, _)
utf8valid(text, k) ==
    At(text, k) = 0 \/ (WellFormed(text, k) /\ utf8valid(text, k + Size(At(text, k))))

(* utf8codepoint, of a code point that is well formed: the bits of its    *)
(* first byte and six of each other.                                       *)
utf8codepoint(text, k) ==
    LET n == Size(At(text, k))
        first == IF n = 1 THEN At(text, k) ELSE At(text, k) % 2 ^ (7 - n)
    IN  FoldLeft(LAMBDA c, i : c * 64 + (At(text, k + i) % 64), first, [i \in 1 .. n - 1 |-> i])

Ascii(codepoint) == IF codepoint \in 32 .. 127 THEN codepoint ELSE 46

Store(text, q, c) == [k \in 1 .. (IF q > Len(text) THEN q ELSE Len(text)) |-> IF k = q THEN c ELSE text[k]]

(* asciify_ext: p reads the text, q writes to it when it is done in place, *)
(* and to another buffer when it is not.                                   *)
RECURSIVE Asciify(_, _, _, _, _)
Asciify(text, out, p, q, inplace) ==
    IF At(text, p) # 0 /\ utf8valid(text, p)
    THEN LET c == Ascii(utf8codepoint(text, p))
             next == p + Size(At(text, p))
         IN  IF inplace THEN Asciify(Store(text, q, c), << >>, next, q + 1, TRUE)
             ELSE Asciify(text, Append(out, c), next, q + 1, FALSE)
    ELSE IF inplace THEN SubSeq(text, 1, q - 1) ELSE out

asciify_ext(text) == Asciify(text, << >>, 1, 1, FALSE)
asciify(text) == Asciify(text, << >>, 1, 1, TRUE)

-----------------------------------------------------------------------------
(* The days before each year from 1970 on, the table of the code. *)
Lookups == 631
LeapsUntil(year) == year \div 4 - year \div 100 + year \div 400
yearLookup == [y \in 0 .. Lookups - 1 |-> 365 * y + LeapsUntil(1969 + y) - LeapsUntil(1969)]

monthDays == <<31, 28, 31, 30, 31, 30, 31, 31, 30, 31, 30, 31>>

Leap(year) == year % 4 = 0 /\ (year % 100 # 0 \/ year % 400 = 0)

MonthLength(year, month) == monthDays[month] + (IF month = 2 /\ Leap(year) THEN 1 ELSE 0)

(* The days are taken off month by month. *)
RECURSIVE Month(_, _, _)
Month(year, month, day) ==
    IF month > 12 \/ day <= MonthLength(year, month) THEN [mon |-> month, day |-> day]
    ELSE Month(year, month + 1, day - MonthLength(year, month))

(* extractTime, of a time as whole days and the seconds of the day. *)
extractTime(days, seconds) ==
    LET later == {y \in 0 .. Lookups - 1 : yearLookup[y] > days}
        y     == (CHOOSE n \in later : \A m \in later : n <= m) - 1
        date  == Month(1970 + y, 1, days - yearLookup[y] + 1)
    IN  IF later = {} THEN [err |-> "out_of_bounds"]
        ELSE [err |-> "ok", year |-> 1970 + y, mon |-> date.mon, day |-> date.day,
              sec |-> seconds % 60, min |-> (seconds \div 60) % 60, hour |-> ((seconds \div 60) \div 60) % 24]

=============================================================================
