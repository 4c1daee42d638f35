--------------------------- MODULE EncodingsCalls ---------------------------
(***************************************************************************)
(* Calls of the encodings, of asciify and of extractTime, each with all    *)
(* the inputs of an instance, and what their callers rely on.              *)
(***************************************************************************)
EXTENDS Encodings, Bech32, Texts

CONSTANTS Contents,   \* the bytes that are encoded
          Room,       \* the largest size of an output
          Hrps,       \* the human readable parts
          Typings,    \* the bytes whose texts are typed
          Slips,      \* the characters typed in place of others
          Programs,   \* the witness programs, with their versions
          CodePoints, \* the code points of texts
          Broken,     \* texts that are not UTF-8
          Days        \* days since the epoch

VARIABLE call     \* the last call: its name, its inputs and its results

Encoding == {BECH32, BECH32M}

(* The reference of UTF-8, and of hexadecimal text. *)
SixBits(n) == 128 + (n % 64)
Utf8(c) ==
    CASE c < 128             -> <<c>>
      [] c \in 128 .. 2047   -> <<192 + c \div 64, SixBits(c)>>
      [] c \in 2048 .. 65535 -> <<224 + c \div 4096, SixBits(c \div 64), SixBits(c)>>
      [] OTHER -> <<240 + c \div 262144, SixBits(c \div 4096), SixBits(c \div 64), SixBits(c)>>

HexChar(n, ten) == IF n < 10 THEN 48 + n ELSE ten + n - 10
HexText(bytes, ten) ==
    [k \in 1 .. 2 * Len(bytes) |->
        LET b == bytes[(k + 1) \div 2] IN HexChar(IF k % 2 = 1 THEN b \div 16 ELSE b % 16, ten)]

-----------------------------------------------------------------------------
Base58 ==
    \E bytes \in Contents, outlen \in 0 .. Room :
        LET text == encode_base58(bytes, outlen)
        IN  call' = [fn |-> "base58", bytes |-> bytes, outlen |-> outlen, text |-> text,
                     back |-> decode_base58(text.out, Len(bytes)),
                     short |-> decode_base58(text.out, Len(bytes) - 1)]

(* A text of base 58 as it comes: the bytes of an instance that are digits. *)
Base58Text ==
    \E text \in Contents :
        LET bytes == decode_base58(text, Room)
        IN  /\ \A k \in DOMAIN text : text[k] \in 0 .. 57 \cup {NotADigit}
            /\ call' = [fn |-> "base58_text", text |-> text, bytes |-> bytes, again |-> encode_base58(bytes.out, 2 * Room)]

Base64 ==
    \E bytes \in Contents, outlen \in 0 .. Room :
        call' = [fn |-> "base64", bytes |-> bytes, outlen |-> outlen, text |-> base64_encode(outlen, bytes)]

Hex ==
    \E bytes \in Contents, outLen \in 0 .. Room, ten \in {65, 97} :
        call' = [fn |-> "unhex", bytes |-> bytes, outLen |-> outLen,
                 result |-> parseHexString(outLen, HexText(bytes, ten)),
                 odd    |-> parseHexString(outLen, Append(HexText(bytes, ten), 48))]

Convert ==
    \E bytes \in Contents :
        LET words == convert_bits(5, bytes, 8, TRUE)
        IN  call' = [fn |-> "convert", bytes |-> bytes, words |-> words.out,
                     back |-> convert_bits(8, words.out, 5, FALSE),
                     unpadded |-> convert_bits(5, bytes, 8, FALSE),
                     extra |-> convert_bits(8, Append(words.out, 0), 5, FALSE)]

FromBytes ==
    \E bytes \in Contents, hrp \in Hrps, more \in 0 .. 3, pad \in BOOLEAN, enc \in Encoding :
        LET out_len == Len(hrp) + 2 * Len(bytes) + 5 + more
        IN  \E text \in {bech32EncodeFromBytes(out_len, hrp, bytes, pad, enc)} :
              call' = [fn |-> "from_bytes", bytes |-> bytes, hrp |-> hrp, out_len |-> out_len, pad |-> pad, enc |-> enc,
                       text |-> text, back |-> bech32_decode(text.out)]

(* A text of Bech32 with one character changed, or all in capitals. *)
Typed ==
    \E bytes \in Typings, hrp \in Hrps, enc \in Encoding :
        \E text \in {bech32EncodeFromBytes(90, hrp, bytes, TRUE, enc).out} :
            /\ text # << >>
            /\ \E k \in DOMAIN text, c \in Slips :
                 call' = [fn |-> "typed", text |-> text, typed |-> [text EXCEPT ![k] = c],
                          loud |-> bech32_decode([i \in DOMAIN text |-> IF IsLower(text[i]) THEN text[i] - 32 ELSE text[i]]),
                          right |-> bech32_decode(text), back |-> bech32_decode([text EXCEPT ![k] = c])]

Segwit ==
    \E program \in Programs, hrp \in Hrps, other \in Hrps, enc \in Encoding :
        LET \* what another encoder may have made of the program
            twin == bech32_encode(hrp, <<program.version>> \o convert_bits(5, program.bytes, 8, TRUE).out, enc)
        IN  \E addr \in {segwit_addr_encode(hrp, program.version, program.bytes)} :
              call' = [fn |-> "segwit", program |-> program, addr |-> addr, hrp |-> hrp, other |-> other, enc |-> enc,
                       back |-> segwit_addr_decode(other, addr.out), twin |-> segwit_addr_decode(hrp, twin.out)]

AsciifyValid ==
    \E n \in 0 .. 3 : \E points \in [1 .. n -> CodePoints] :
        LET text == FoldLeft(LAMBDA t, c : t \o Utf8(c), << >>, points)
        IN  call' = [fn |-> "asciify", points |-> points, text |-> text,
                     out |-> asciify_ext(text), inplace |-> asciify(text)]

AsciifyBroken ==
    \E n \in 0 .. 2 : \E points \in [1 .. n -> CodePoints], broken \in Broken, m \in 0 .. n :
        LET text(s) == FoldLeft(LAMBDA t, c : t \o Utf8(c), << >>, s)
            all == text(SubSeq(points, 1, m)) \o broken \o text(SubSeq(points, m + 1, n))
        IN  call' = [fn |-> "broken", text |-> all, out |-> asciify_ext(all), inplace |-> asciify(all)]

Time ==
    \E days \in Days, seconds \in {0, 1, 59, 60, 3599, 3600, 43200, 86399} :
        call' = [fn |-> "time", days |-> days, seconds |-> seconds,
                 date |-> extractTime(days, seconds), tomorrow |-> extractTime(days + 1, seconds)]

Call == Base58 \/ Base58Text \/ Base64 \/ Hex \/ Convert \/ FromBytes \/ Typed \/ Segwit
        \/ AsciifyValid \/ AsciifyBroken \/ Time

-----------------------------------------------------------------------------
(* The digits of a number in a base. *)
ValueIn(digits, base) == FoldLeft(LAMBDA n, d : n * base + d, 0, digits)

(* Base 58 is the number of the bytes with their zeros in front, and reads *)
(* back as the bytes; a space too small is told with the space needed, and *)
(* neither direction writes behind its output.                             *)
Base58ReadsBack ==
    call.fn = "base58" =>
        IF call.text.ok
        THEN /\ call.text.outlen = Len(call.text.out) /\ call.text.outlen <= call.outlen
             /\ call.back.ok /\ call.back.out = call.bytes
             /\ ~call.short.ok
             /\ Len(call.bytes) <= 3 => ValueIn(call.text.out, 58) = ValueIn(call.bytes, 256)
             /\ Leading0(call.text.out) = Leading0(call.bytes)
        ELSE call.text.outlen > call.outlen

(* Two texts of base 58 are never the same bytes. *)
Base58IsUnique ==
    call.fn = "base58_text" /\ call.bytes.ok => call.again.out = call.text

(* Base 64 says the bytes six bits a character, and its padding how many   *)
(* of the last characters' bits count.                                     *)
Base64Whole ==
    call.fn = "base64" /\ call.text # << >> =>
        LET n     == Len(call.text)
            pads  == Cardinality({k \in 1 .. n : call.text[k] = Pad})
            chars == SubSeq(call.text, 1, n - pads)
            bits(s, size) == [k \in 1 .. size * Len(s) |->
                                (s[(k + size - 1) \div size] \div 2 ^ (size - 1 - ((k - 1) % size))) % 2]
        IN  /\ n % 4 = 0 /\ pads <= 2
            /\ \A k \in n - pads + 1 .. n : call.text[k] = Pad
            /\ SubSeq(bits(chars, 6), 1, 8 * Len(call.bytes)) = bits(call.bytes, 8)
            /\ n = 4 * ((Len(call.bytes) + 2) \div 3)

(* Hexadecimal text in either case reads back whole or is refused, when it *)
(* is longer than the output or has half a byte.                           *)
HexWholeOrRefused ==
    call.fn = "unhex" =>
        /\ ~call.odd.ok
        /\ call.result.ok <=> Len(call.bytes) <= call.outLen
        /\ call.result.ok => call.result.out = call.bytes

(* Words of five bits give back the bytes and nothing else: a word more is *)
(* refused, and without padding nothing is lost unnoticed.                 *)
WordsGiveBytes ==
    call.fn = "convert" =>
        /\ call.back = [ok |-> TRUE, out |-> call.bytes]
        /\ call.extra.ok => call.extra.out # call.bytes /\ Len(call.bytes) % 5 # 0
        /\ call.unpadded.ok =>
             /\ call.unpadded.out = SubSeq(call.words, 1, Len(call.unpadded.out))
             /\ \A k \in Len(call.unpadded.out) + 1 .. Len(call.words) : call.words[k] = 0

(* A text of Bech32 reads back as its parts and its encoding, in small     *)
(* letters or capitals, and with its zero byte has room in the output once *)
(* three bytes are encoded.                                                *)
Bech32ReadsBack ==
    /\ call.fn = "from_bytes" /\ call.text.err = "ok" =>
         /\ call.back.enc = call.enc /\ call.back.hrp = call.hrp
         /\ call.back.data = convert_bits(5, call.bytes, 8, call.pad).out
         /\ Len(call.bytes) >= 3 => Len(call.text.out) + 1 <= call.out_len
    /\ call.fn = "typed" => call.loud = call.right /\ call.right.enc # NONE

(* One character typed wrong is noticed, one in the other case too. *)
SlipRefused ==
    call.fn = "typed" /\ call.typed # call.text => call.back.enc = NONE

(* A segwit address reads back as its version and program under its own    *)
(* human readable part only, and only with the checksum of its version.    *)
SegwitReadsBack ==
    call.fn = "segwit" =>
        /\ call.addr.ok =>
             /\ call.back.ok <=> call.other = call.hrp
             /\ call.back.ok => call.back.witver = call.program.version /\ call.back.witprog = call.program.bytes
        /\ call.twin.ok <=> call.addr.ok /\ call.enc = Version(call.program.version)

(* A text of UTF-8 becomes one character for each of its code points, the  *)
(* same in place as to another buffer; a text with a wrong byte anywhere   *)
(* becomes nothing, never its first part.                                  *)
OneCharacterEach ==
    /\ call.fn = "asciify" =>
         /\ call.out = [k \in DOMAIN call.points |-> IF call.points[k] \in 32 .. 127 THEN call.points[k] ELSE 46]
         /\ call.inplace = call.out
    /\ call.fn = "broken" => call.out = << >> /\ call.inplace = << >>

(* The day after a date is the next date of the calendar, the first day is *)
(* the first of January 1970 and the last the end of 2599; the time of day *)
(* is that of the seconds.                                                 *)
DateFollowsDate ==
    call.fn = "time" =>
        LET d == call.date
            t == call.tomorrow
            Last28 == d.mon = 2 /\ (d.year % 4 # 0 \/ (d.year % 100 = 0 /\ d.year % 400 # 0))
            last == CASE d.mon \in {4, 6, 9, 11} -> 30 [] d.mon = 2 -> (IF Last28 THEN 28 ELSE 29) [] OTHER -> 31
        IN  IF d.err # "ok" THEN t.err # "ok"
            ELSE /\ call.days = 0 => <<d.year, d.mon, d.day>> = <<1970, 1, 1>>
                 /\ t.err # "ok" <=> <<d.year, d.mon, d.day>> = <<2599, 12, 31>>
                 /\ t.err = "ok" => <<t.year, t.mon, t.day>> =
                       IF d.day < last THEN <<d.year, d.mon, d.day + 1>>
                       ELSE IF d.mon < 12 THEN <<d.year, d.mon + 1, 1>>
                       ELSE <<d.year + 1, 1, 1>>
                 /\ (d.hour * 60 + d.min) * 60 + d.sec = call.seconds

=============================================================================
