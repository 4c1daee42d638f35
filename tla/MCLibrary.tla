----------------------------- MODULE MCLibrary -----------------------------
(***************************************************************************)
(* The operations without a state of their own, for TLC: a step is one     *)
(* call, with one of the inputs of the instance.  Words are of four bits;  *)
(* buffers and numbers are at the borders of words, digits and limits.     *)
(***************************************************************************)
EXTENDS Uint256

-----------------------------------------------------------------------------
(* Formatting: numbers around the powers of ten and the limits, texts that *)
(* are and are not numbers, texts of some pages and of 255.                *)
Z == INSTANCE Zxformat

FormatNumbers == {-1024, -1023, -129, -128, -10, -9, -1, 0, 1, 7, 9, 10, 100, 127, 128, 999, 1000, 1023, 1024}

FormatTexts ==
    {Z!Decimal[n] : n \in {m \in FormatNumbers : m >= 0}}
    \cup {<<Z!Minus>> \o Z!Decimal[-n] : n \in {m \in FormatNumbers : m < 0}}
    \cup {<< >>, <<45>>, <<45, 45, 49>>, <<49, 46, 48>>, <<43, 49>>, <<49, 58>>, <<47>>, <<49, 50, 51, 52, 53>>}

Step(n, h) == [index |-> n, hardened |-> h]
FormatPaths ==
    UNION {[1 .. n -> {Step(0, TRUE), Step(44, TRUE), Step(123, FALSE)}] : n \in 0 .. 3}
    \cup {[k \in 1 .. 6 |-> Step(1, FALSE)], [k \in 1 .. 5 |-> Step(1, FALSE)], <<Step(1, FALSE), Step(123, FALSE)>>}

FormatContents ==
    {[k \in 1 .. n |-> 64 + k] : n \in 0 .. 7}
    \cup {<<0, 160, 171>>, <<205, 239, 18, 52>>, <<32, 127>>, <<31, 65>>, [k \in 1 .. 255 |-> 65 + (k % 7)]}

F == INSTANCE ZxformatCalls WITH
        Room <- 12, Numbers <- FormatNumbers, Texts <- FormatTexts, Limit <- 1023, Paths <- FormatPaths,
        Places <- {0, 1, 2, 3, 5}, Affixes <- {<< >>, <<65>>, <<66, 67, 68>>}, Contents <- FormatContents

(* Decimals of numbers up to two bytes, into one to three bytes: 255       *)
(* overflows the first and 65535 the second.                               *)
NumberBytes == {0, 1, 9, 10, 16, 99, 100, 128, 160, 170, 255}

B == INSTANCE Bignum WITH
        Numbers <- UNION {[1 .. n -> NumberBytes] : n \in 0 .. 2}, BcdLens <- {1, 2, 3}, OutLens <- {3, 4, 6, 9}

-----------------------------------------------------------------------------
(* Encodings: all short sequences of bytes at the edges of a byte and of a *)
(* digit, and some longer ones; the days around the ends of months.        *)
T == INSTANCE Texts

Contents ==
    UNION {[1 .. n -> {0, 1, 57, 58, 255}] : n \in 0 .. 3}
    \cup {[k \in 1 .. n |-> 255] : n \in {4, 5, 6, 9, 12, 18}}
    \cup {[k \in 1 .. n |-> (k * 77) % 256] : n \in {4, 5, 7, 8, 12}}
    \cup {<<0, 0, 0, 0, 1>>, <<1, 0, 0, 0, 0, 0>>, <<0, 128, 0, 7>>}

Program(n) == [k \in 1 .. n |-> (k * 89 + n) % 256]

EncodePrograms == {[version |-> v, bytes |-> Program(n)] : v \in {0, 1, 16, 17}, n \in {1, 2, 19, 20, 32, 40, 41}}

BrokenTexts ==
    {<<128>>, <<192, 128>>, <<193, 191>>, <<224, 159, 191>>, <<240, 143, 191, 191>>, <<248, 128, 128, 128, 128>>,
     <<195>>, <<226, 130>>, <<240, 159, 152>>, <<195, 161, 161>>, <<226, 130, 172, 128>>, <<240, 159, 152, 128, 128>>, <<255>>}

DaysAround ==
    {T!yearLookup[y - 1970] + d :
        y \in {1970, 1971, 1972, 1999, 2000, 2024, 2099, 2100, 2400, 2599},
        d \in {0, 30, 31, 57, 58, 59, 60, 89, 90, 119, 120, 150, 151, 152, 180, 181, 182, 211, 212, 213,
               242, 243, 244, 272, 273, 274, 303, 304, 333, 334, 335, 364, 365, 366}}

E == INSTANCE EncodingsCalls WITH
        Room <- 24, Hrps <- {<<122, 120>>, <<98, 99>>},
        Typings <- {<<0>>, <<255>>, <<57, 58>>, <<1, 0, 128>>, <<72, 105, 33, 9, 9>>},
        Slips <- {33, 48, 49, 50, 98, 108, 112, 113, 81, 122, 90, 120, 127},
        Programs <- EncodePrograms, Broken <- BrokenTexts, Days <- DaysAround,
        CodePoints <- {1, 31, 32, 65, 126, 127, 128, 161, 321, 2047, 2048, 8364, 65535, 65536, 128512, 1114111}

-----------------------------------------------------------------------------
(* RLP: encoded streams around the lengths where the encoding changes, and *)
(* all short sequences of bytes around the prefixes.                       *)
R == INSTANCE Rlp

Run(n) == [k \in 1 .. n |-> k % 7]

Strings  == {<<0>>, <<127>>, <<128>>} \cup {Run(n) : n \in {0, 2, 55, 56, 255, 256}}
Payloads == {<<1, 2>>, Run(55), Run(56), << >>}

PrefixBytes == {0, 1, 127, 128, 129, 130, 183, 184, 191, 192, 193, 194, 247, 248, 249, 255}

AllStreams ==
    {[bytes |-> R!EncodeString(s) \o R!EncodeString(t), values |-> <<s, t>>] : s \in Strings, t \in Strings}
    \cup {[bytes |-> R!EncodeList(p) \o R!EncodeString(s), values |-> <<p, s>>] : p \in Payloads, s \in Strings}
    \cup {[bytes |-> R!EncodeString(s) \o <<5>> \o R!EncodeList(p), values |-> <<s, <<5>>, p>>] :
             p \in Payloads, s \in {<<7>>, Run(3)}}
    \cup {[bytes |-> b, values |-> <<"unknown">>] : b \in UNION {[1 .. n -> PrefixBytes] : n \in 0 .. 3}}

L == INSTANCE RlpCalls WITH Streams <- AllStreams, FieldCounts <- {1, 2}

-----------------------------------------------------------------------------
Init == call = [fn |-> "none"]

Next ==
    \/ call.fn = "none" /\ (Call \/ F!Call \/ B!Call \/ E!Call \/ L!ParseStream)
    \/ call.fn = "rlp" /\ L!ReadList
    \/ call.fn # "none" /\ call' = [fn |-> "none"]

Spec == Init /\ [][Next]_call

-----------------------------------------------------------------------------
(* The four words of a number work as one, its text is its digits          *)
(* (evm/uint256.c), and the decimal of a number of any length is the       *)
(* number after every bit (bignum.c).                                      *)
BigNumbersExact ==
    /\ SumsCarry /\ ShiftsCross /\ DivisionExact /\ TextExact
    /\ B!DecimalOfBits /\ B!PrintedExact

(* What a user reads of a number, a path or a text is the whole of it, its *)
(* value kept, or an error (zxformat.c, zxformat.h).                       *)
FormattingExact ==
    /\ F!NumbersReadBack /\ F!DecimalsKeepValue /\ F!TrimKeepsValue /\ F!PathShown
    /\ F!JoinWholeOrRefused /\ F!PagesShowEverything /\ F!HexReadsBack

(* An encoding reads back as what was encoded, and nothing else does       *)
(* (base58.c, base64.c, hexutils.c, bech32.c, segwit_addr.c); UTF-8 and    *)
(* times are shown character by character and day by day (utf8.c,          *)
(* timeutils.c).                                                           *)
EncodingsReadBack ==
    /\ E!Base58ReadsBack /\ E!Base58IsUnique /\ E!Base64Whole /\ E!HexWholeOrRefused
    /\ E!WordsGiveBytes /\ E!Bech32ReadsBack /\ E!SlipRefused /\ E!SegwitReadsBack
    /\ E!OneCharacterEach /\ E!DateFollowsDate

(* What was encoded is what is read, and nothing is read that was not      *)
(* received (evm/rlp.c).                                                   *)
RlpExact == L!InsideWindow /\ L!ReadsWhatWasEncoded /\ L!NumbersKeepValue

=============================================================================
