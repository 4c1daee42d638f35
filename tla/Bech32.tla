------------------------------- MODULE Bech32 -------------------------------
(***************************************************************************)
(* src/bech32.c and src/segwit_addr.c: bytes as words of five bits, with a *)
(* checksum of thirty bits behind a human readable part.  The checksum is  *)
(* six words of five bits here, the highest first: shifting it by five     *)
(* moves its words.                                                        *)
(***************************************************************************)
EXTENDS Integers, SequencesExt

Word == 0 .. 31

(* Five bits, exclusive or. *)
Bit(n, k) == (n \div 2 ^ k) % 2
Xor5 == [a \in Word, b \in Word |->
           FoldLeft(LAMBDA n, k : n + (IF Bit(a, k) # Bit(b, k) THEN 2 ^ k ELSE 0), 0, <<0, 1, 2, 3, 4>>)]
XorAll(a, b) == [k \in 1 .. 6 |-> Xor5[a[k], b[k]]]
Low(n) == <<0, 0, 0, 0, 0, n>>

(* bech32_polymod_step: the words move one place, and for every bit of the *)
(* word that falls out its constant of the code is added; a word is added  *)
(* at the end of the same step.                                            *)
Generator == << <<29, 22, 20, 21, 29, 18>>, <<19, 5, 1, 3, 19, 13>>, <<15, 10, 2, 6, 15, 26>>,
                <<30, 20, 4, 12, 30, 29>>, <<21, 1, 8, 24, 21, 19>> >>
Feedback == [b \in Word |-> FoldLeft(LAMBDA c, k : IF Bit(b, k - 1) = 1 THEN XorAll(c, Generator[k]) ELSE c,
                                     <<0, 0, 0, 0, 0, 0>>, <<1, 2, 3, 4, 5>>)]
Into(chk, n) ==
    LET f == Feedback[chk[1]]
    IN  <<Xor5[chk[2], f[1]], Xor5[chk[3], f[2]], Xor5[chk[4], f[3]], Xor5[chk[5], f[4]], Xor5[chk[6], f[5]], Xor5[n, f[6]]>>

bech32_polymod_step(chk) == Into(chk, 0)

NONE == "NONE"
BECH32 == "BECH32"
BECH32M == "BECH32M"
bech32_final_constant(enc) == IF enc = BECH32 THEN Low(1) ELSE IF enc = BECH32M THEN <<21, 28, 16, 12, 5, 3>> ELSE Low(0)

(* "qpzry9x8gf2tvdw0s3jn54khce6mua7l", and back in either case: -1 for a   *)
(* character that is not in it.                                            *)
charset == <<113, 112, 122, 114, 121, 57, 120, 56, 103, 102, 50, 116, 118, 100, 119, 48,
             115, 51, 106, 110, 53, 52, 107, 104, 99, 101, 54, 109, 117, 97, 55, 108>>
IsUpper(c) == c \in 65 .. 90
IsLower(c) == c \in 97 .. 122

ToLower(c) == IF IsUpper(c) THEN c + 32 ELSE c
charset_rev[c \in 0 .. 255] ==
    LET found == {k \in 1 .. 32 : charset[k] = ToLower(c)}
    IN  IF found = {} THEN -1 ELSE (CHOOSE k \in found : TRUE) - 1

Separator == 49

(* The checksum of a human readable part, in lower case: its high bits, a  *)
(* zero, its low bits.                                                     *)
HrpSum(hrp) ==
    FoldLeft(LAMBDA c, ch : Into(c, ch % 32),
             bech32_polymod_step(FoldLeft(LAMBDA c, ch : Into(c, ch \div 32), <<0, 0, 0, 0, 0, 1>>, hrp)), hrp)

Sum(hrp, words) == FoldLeft(Into, HrpSum(hrp), words)

Unencoded == [ok |-> FALSE, out |-> << >>]

(* bech32_encode. *)
Checksum(hrp, data, enc) == XorAll(Sum(hrp, data \o <<0, 0, 0, 0, 0, 0>>), bech32_final_constant(enc))

Characters(words) == [k \in DOMAIN words |-> charset[words[k] + 1]]

bech32_encode(hrp, data, enc) ==
    IF \/ \E k \in DOMAIN hrp : hrp[k] \notin 33 .. 126 \/ IsUpper(hrp[k])
       \/ Len(hrp) + 7 + Len(data) > 90
       \/ \E k \in DOMAIN data : data[k] \notin Word
    THEN Unencoded
    ELSE [ok |-> TRUE, out |-> Append(hrp, Separator) \o Characters(data \o Checksum(hrp, data, enc))]

Undecoded == [enc |-> NONE, hrp |-> << >>, data |-> << >>]

Mixed(input) == (\E k \in DOMAIN input : IsUpper(input[k])) /\ (\E k \in DOMAIN input : IsLower(input[k]))

(* bech32_decode: the last '1' separates, six words are the checksum, and  *)
(* the checksum tells the encoding.                                        *)
Told(chk) == {enc \in {BECH32, BECH32M} : chk = bech32_final_constant(enc)}

Decoded(found, hrp, words) ==
    IF found = {} THEN Undecoded
    ELSE [enc |-> CHOOSE enc \in found : TRUE, hrp |-> hrp, data |-> SubSeq(words, 1, Len(words) - 6)]

Parts(hrp, words) ==
    IF \/ hrp = << >> \/ Len(words) < 6
       \/ \E k \in DOMAIN hrp : hrp[k] \notin 33 .. 126
       \/ -1 \in {words[k] : k \in DOMAIN words}
    THEN Undecoded
    ELSE Decoded(Told(Sum(hrp, words)), hrp, words)

bech32_decode(input) ==
    LET points  == {k \in DOMAIN input : input[k] = Separator}
        hrp_len == (CHOOSE k \in points : \A j \in points : j <= k) - 1
    IN  IF Len(input) \notin 8 .. 90 \/ points = {} \/ Mixed(input) THEN Undecoded
        ELSE Parts([k \in 1 .. hrp_len |-> ToLower(input[k])],
                   [k \in 1 .. Len(input) - hrp_len - 1 |-> charset_rev[input[hrp_len + 1 + k]]])

-----------------------------------------------------------------------------
(* The bits of in, inBits of each, taken by outBits; what is left of them. *)
Regroup(outBits, in, inBits) ==
    LET Take(r) == (r.val \div 2 ^ (r.bits - outBits)) % 2 ^ outBits
        RECURSIVE Emit(_)
        Emit(r) == IF r.bits < outBits THEN r
                   ELSE Emit([r EXCEPT !.out = Append(@, Take(r)), !.bits = @ - outBits])
    IN  FoldLeft(LAMBDA r, v : Emit([r EXCEPT !.val = (@ * 2 ^ inBits + v) % 2 ^ (inBits + outBits - 1),
                                              !.bits = @ + inBits]),
                 [out |-> << >>, val |-> 0, bits |-> 0], in)

(* convert_bits: with padding the bits left over are a word of their own,  *)
(* without it they must be few and zero.                                   *)
LeftOver(outBits, r, inBits, pad) ==
    LET rest == (r.val * 2 ^ (outBits - r.bits)) % 2 ^ outBits
    IN  IF pad THEN [ok |-> TRUE, out |-> IF r.bits > 0 THEN Append(r.out, rest) ELSE r.out]
        ELSE IF rest # 0 \/ r.bits >= inBits THEN Unencoded
        ELSE [ok |-> TRUE, out |-> r.out]

convert_bits(outBits, in, inBits, pad) ==
    IF \E k \in DOMAIN in : in[k] >= 2 ^ inBits THEN Unencoded
    ELSE LeftOver(outBits, Regroup(outBits, in, inBits), inBits, pad)

(* bech32EncodeFromBytes, into out_len bytes. *)
MAX_INPUT_SIZE == 64
NoBech32(err) == [err |-> err, out |-> << >>]

Checked(text) == IF ~text.ok THEN NoBech32("encoding_failed") ELSE [err |-> "ok", out |-> text.out]

EncodeWords(out_len, hrp, words, enc) ==
    IF ~words.ok THEN NoBech32("encoding_failed")
    ELSE IF Len(words.out) >= out_len THEN NoBech32("out_of_bounds")
    ELSE Checked(bech32_encode(hrp, words.out, enc))

bech32EncodeFromBytes(out_len, hrp, in, pad, enc) ==
    IF Len(in) > MAX_INPUT_SIZE THEN NoBech32("out_of_bounds")
    ELSE IF out_len < Len(hrp) + 2 * Len(in) + 7 THEN NoBech32("buffer_too_small")
    ELSE EncodeWords(out_len, hrp, convert_bits(5, in, 8, pad), enc)

(* segwit_addr_encode and segwit_addr_decode. *)
ProgramFits(version, len) == len \in 2 .. 40 /\ (version = 0 => len \in {20, 32})
Version(version) == IF version > 0 THEN BECH32M ELSE BECH32

segwit_addr_encode(hrp, witver, witprog) ==
    IF witver > 16 \/ ~ProgramFits(witver, Len(witprog)) THEN Unencoded
    ELSE bech32_encode(hrp, <<witver>> \o convert_bits(5, witprog, 8, TRUE).out, Version(witver))

NoAddress == [ok |-> FALSE, witver |-> 0, witprog |-> << >>]

(* mutant: either checksum does for every version *)
AnyEncoding(witver, enc) == TRUE

RightEncoding(witver, enc) == enc = Version(witver)

Address(witver, program) ==
    IF ~program.ok \/ ~ProgramFits(witver, Len(program.out)) THEN NoAddress
    ELSE [ok |-> TRUE, witver |-> witver, witprog |-> program.out]

AddressOf(hrp, d) ==
    IF d.enc = NONE \/ Len(d.data) \notin 1 .. 65 \/ d.hrp # hrp THEN NoAddress
    ELSE IF d.data[1] > 16 \/ ~RightEncoding(d.data[1], d.enc) THEN NoAddress
    ELSE Address(d.data[1], convert_bits(8, Tail(d.data), 5, FALSE))

segwit_addr_decode(hrp, addr) == AddressOf(hrp, bech32_decode(addr))

=============================================================================
