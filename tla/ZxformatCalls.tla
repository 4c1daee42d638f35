--------------------------- MODULE ZxformatCalls ---------------------------
(***************************************************************************)
(* Calls of the conversions of Zxformat, each with all the inputs of an    *)
(* instance, and what their callers rely on.  The memory behind a buffer   *)
(* is filled with Mark, so that a write behind it shows.                   *)
(***************************************************************************)
EXTENDS Zxformat, TLC

CONSTANTS Room,      \* the largest size of a buffer
          Numbers,   \* the numbers converted
          Texts,     \* the texts parsed as numbers
          Limit,       \* the largest number of the parser, INT64_MAX in the code
          Paths,     \* the derivation paths
          Places,    \* the numbers of decimal places
          Affixes,   \* the texts put in front and behind
          Contents   \* the texts and bytes shown in pages

VARIABLE call     \* the last call: its name, its inputs and its results

Unsigned == {n \in Numbers : n >= 0}
Mark  == 255
Guard == 12

(* A buffer of some size that holds a text, with the memory behind it. *)
Holding(text, size) == [k \in 1 .. size + Guard |->
                          CASE k <= Len(text) -> text[k] [] k > size -> Mark [] OTHER -> Nul]

-----------------------------------------------------------------------------
ToStr ==
    \E size \in 0 .. Room, n \in Numbers :
        call' = [fn |-> "to_str", size |-> size, number |-> n,
                 result |-> NUM_TO_STR(Holding(<< >>, size), size, n)]

Parse ==
    \E text \in Texts :
        call' = [fn |-> "parse", text |-> text,
                 int64 |-> str_to_int64(text, Limit), int8 |-> str_to_int8(text, Limit)]

BipPath ==
    \E size \in 1 .. Room, path \in Paths :
        call' = [fn |-> "path", size |-> size, path |-> path, text |-> bip32_to_str(size, path)]

(* A number shown with decimal places, by each of the four functions. *)
Decimals ==
    \E size \in 1 .. Room, n \in Unsigned, places \in Places, zeros \in 0 .. 2 :
        LET text == Fill(Zero, zeros) \o Decimal[n]
        IN  /\ Len(text) < size
            /\ call' = [fn |-> "decimals", size |-> size, number |-> n, places |-> places, zeros |-> zeros,
                        intstr |-> intstr_to_fpstr_inplace(Holding(text, size), size, places),
                        insert |-> insertDecimalPoint(Holding(text, size), size, places),
                        fpstr  |-> fpstr_to_str(size, text, places),
                        length |-> fpuint64_to_str(size, n, places)]

FpStr ==
    \E size \in 1 .. Room, n \in Unsigned, places \in Places :
        call' = [fn |-> "fpstr", size |-> size, number |-> n, places |-> places,
                 result |-> fpstr_to_str(size, Decimal[n], places)]

Trim ==
    \E n \in Unsigned, places \in Places, non_trimmed \in 0 .. 2 :
        LET text == fpstr_to_str(Room, Decimal[n], places).out
        IN  call' = [fn |-> "trim", non_trimmed |-> non_trimmed, text |-> text,
                     out |-> number_inplace_trimming(text, non_trimmed)]

Join ==
    \E size \in 1 .. Room, text, prefix, suffix \in Affixes :
        /\ Len(text) < size
        /\ call' = [fn |-> "join", size |-> size, text |-> prefix \o text \o suffix,
                    result |-> z_str3join(Holding(text, size), size, prefix, suffix)]

Paged ==
    \E size \in 3 .. Room, bytes \in Contents :
        LET count(f(_)) == f(0).pageCount
            text(k) == pageStringExt(size, bytes, k)
            hex(k)  == pageStringHex(size, bytes, k)
            auto(k) == formatBufferData(bytes, Room, size, k)
        IN  call' = [fn |-> "pages", size |-> size, bytes |-> bytes,
                     text |-> [k \in 0 .. count(text) |-> text(k).out],
                     hex  |-> [k \in 0 .. count(hex) |-> hex(k).out],
                     auto |-> [k \in 0 .. count(auto) |-> auto(k).out],
                     err  |-> auto(0).err]

HexBack ==
    \E bytes \in Contents, size \in 1 .. Room :
        call' = [fn |-> "hex", bytes |-> bytes, size |-> size,
                 lower |-> hexstr_to_array(size, array_to_hexstr(2 * size + 1, bytes)),
                 upper |-> hexstr_to_array(size, array_to_hexstr_uppercase(2 * size + 1, bytes)),
                 folded |-> array_to_lowercase(array_to_hexstr_uppercase(2 * size + 1, bytes)),
                 hex    |-> array_to_hexstr(2 * size + 1, bytes)]

Read64 ==
    \E b \in [1 .. 3 -> {0, 1, 255}] : call' = [fn |-> "be", data |-> b, value |-> uint64_from_BEarray(b)]

Call == ToStr \/ Parse \/ BipPath \/ Decimals \/ FpStr \/ Trim \/ Join \/ Paged \/ HexBack \/ Read64

-----------------------------------------------------------------------------
(* The references: what a text says, by its characters. *)

(* A text of digits is the number n. *)
Says(text, n) ==
    /\ text # << >> /\ Len(text) <= 9
    /\ n < 10 ^ Len(text)
    /\ \A k \in DOMAIN text : text[k] = Zero + ((n \div 10 ^ (Len(text) - k)) % 10)

Plain(text, n) == Says(text, n) /\ (text[1] = Zero => Len(text) = 1)

SaysInt(text, n) == IF n < 0 THEN text # << >> /\ text[1] = Minus /\ Plain(Tail(text), -n) ELSE Plain(text, n)

(* A text is the number n with some decimal places: one digit at least in  *)
(* front of the point, and no zero there that need not be.                 *)
SaysDecimal(text, n, places) ==
    IF places = 0 THEN Plain(text, n)
    ELSE LET point == Len(text) - places
         IN  /\ point > 1
             /\ text[point] = Dot
             /\ Says(RemoveAt(text, point), n)
             /\ text[1] = Zero => point = 2

(* The text of a path, step by step. *)
PathText(path) ==
    FoldLeft(LAMBDA text, k : text \o (IF k > 1 THEN <<Slash>> ELSE << >>)
                                   \o Decimal[path[k].index]
                                   \o (IF path[k].hardened THEN <<Quote>> ELSE << >>),
             << >>, [k \in DOMAIN path |-> k])

(* All pages one behind the other, none empty. *)
Together(pages) == FoldLeft(LAMBDA all, k : all \o pages[k - 1], << >>, [k \in 1 .. Cardinality(DOMAIN pages) |-> k])

Untouched(b, size) == \A k \in DOMAIN b : k > size => b[k] = Mark

-----------------------------------------------------------------------------
(* A number is written whole, and ends in the buffer, or is refused; a     *)
(* parser accepts exactly the numbers of its width and reads what the      *)
(* writer wrote.                                                           *)
NumbersReadBack ==
    /\ call.fn = "to_str" /\ call.number >= 0 =>
         /\ call.result.err = "ok" <=> Len(Decimal[call.number]) < call.size /\ call.size > 1
         /\ call.result.err = "ok" => Plain(Text(call.result.data), call.number)
         /\ Untouched(call.result.data, call.size)
    /\ call.fn = "to_str" /\ call.result.err = "ok" => SaysInt(Text(SubSeq(call.result.data, 1, call.size)), call.number)
    /\ call.fn = "parse" =>
         /\ \A n \in Numbers : SaysInt(call.text, n) =>
              /\ call.int64 = IF n \in -Limit - 1 .. Limit THEN [err |-> 0, value |-> n] ELSE ParseFailed
              /\ call.int8 = IF n \in -128 .. 127 THEN [err |-> 0, value |-> n] ELSE ParseFailed
         /\ call.int64.err = 0 => \A k \in DOMAIN call.text : call.text[k] \in Digit \/ (k = 1 /\ call.text[k] = Minus)
    /\ call.fn = "be" => call.value = (call.data[1] * 256 + call.data[2]) * 256 + call.data[3]

(* A path that fits is shown whole; one that does not is refused, or its   *)
(* last step is the one that is cut.                                       *)
PathShown ==
    call.fn = "path" /\ Len(call.path) \in 1 .. 5 =>
        LET whole == PathText(call.path)
        IN  IF Len(whole) < call.size THEN call.text = whole
            ELSE IsPrefix(call.text, ERROR) \/ IsPrefix(PathText(Front(call.path)), call.text)

(* The functions that put a decimal point show the same number, its value  *)
(* kept, and write nothing outside the buffer, when it has room.           *)
DecimalsKeepValue ==
    /\ call.fn = "decimals" /\ call.zeros = 0
       /\ call.size >= Larger(Len(Decimal[call.number]), call.places + 1) + 2 =>
         /\ SaysDecimal(Text(call.intstr.b), call.number, call.places)
         /\ call.intstr.ret = Len(Text(call.intstr.b))
         /\ call.insert.err = "ok" /\ Text(call.insert.b) = Text(call.intstr.b)
         /\ call.fpstr.ret = 0 /\ call.fpstr.out = Text(call.intstr.b)
         /\ call.length = Len(call.fpstr.out)
         /\ Untouched(call.intstr.b, call.size) /\ Untouched(call.insert.b, call.size)
    /\ call.fn = "fpstr" =>
         /\ call.result.ret = 1 => IsPrefix(call.result.out, ERR)
         /\ call.result.ret = 0 /\ call.places > 0 => SaysDecimal(call.result.out, call.number, call.places)

(* Trimming takes zeros from the end and nothing else, and leaves the      *)
(* places asked for where there were so many.                              *)
TrimKeepsValue ==
    call.fn = "trim" =>
        LET cut == Len(call.text) - Len(call.out)
            places(text) == IF Contains(text, Dot) THEN Len(text) - SelectInSeq(text, LAMBDA c : c = Dot) ELSE 0
        IN  /\ call.text = call.out \o Fill(Zero, cut)
            /\ Contains(call.text, Dot) => Contains(call.out, Dot)
            /\ cut > 0 => places(call.out) >= call.non_trimmed
            /\ call.out # << >> /\ places(call.out) > call.non_trimmed => Last(call.out) # Zero

(* A joined text is whole and ends in the buffer, or is refused.           *)
JoinWholeOrRefused ==
    call.fn = "join" =>
        /\ call.result.err = "ok" <=> Len(call.text) < call.size
        /\ call.result.err = "ok" => Text(call.result.b) = call.text
        /\ call.result.err # "ok" => IsPrefix(Text(call.result.b), ERR3)
        /\ Untouched(call.result.b, call.size)

(* The pages of a text, one behind the other, are the text, and so are     *)
(* those of its bytes in hex; no page overfills its buffer and the page    *)
(* after the last one is empty.                                            *)
PagesShowEverything ==
    call.fn = "pages" =>
        LET printable == \A k \in DOMAIN call.bytes : call.bytes[k] \in 32 .. 127
            fits(pages) == \A k \in DOMAIN pages : Len(pages[k]) < call.size
        IN  /\ Len(call.bytes) <= 255 * (call.size - 1) => Together(call.text) = call.bytes
            /\ Len(call.bytes) <= 255 * ((call.size - 1) \div 2) => Together(call.hex) = Hex(call.bytes)
            /\ call.err = "ok" => Together(call.auto) = IF printable THEN call.bytes ELSE <<Zero, 120>> \o Hex(call.bytes)
            /\ fits(call.text) /\ fits(call.hex) /\ fits(call.auto)
            /\ \A pages \in {call.text, call.hex, call.auto} : pages[Cardinality(DOMAIN pages) - 1] = << >>

(* Bytes come back from hex, in small letters or capitals.                 *)
HexReadsBack ==
    call.fn = "hex" /\ Len(call.bytes) <= call.size =>
        /\ call.lower = call.bytes /\ call.upper = call.bytes
        /\ call.folded = call.hex

=============================================================================
