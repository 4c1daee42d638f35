-------------------------- MODULE EvmSessionProofs --------------------------
(***************************************************************************)
(* Theorems about EvmSession, for every capacity, every size of a byte and *)
(* of an integer, every set of commands and every length of a session,     *)
(* whether the dispatcher resets sessions or not unless a theorem says so, *)
(* and about the buffer under it.                                          *)
(*                                                                         *)
(* From the bottom up: induction over the naturals; the number in a        *)
(* sequence of bytes; RLP headers; what is stored of a stream; counting    *)
(* modulo 2^w; one step of a session; the theorems.  The buffer, whose     *)
(* content EvmSession keeps in one variable, has its own section at the    *)
(* end.                                                                    *)
(***************************************************************************)
EXTENDS EvmSession, Buffering, SequenceTheorems, WellFoundedInduction, TLAPS

-----------------------------------------------------------------------------
(* Induction, and the number in a sequence of bytes.                        *)

Smaller == {p \in Nat \X Nat : p[1] < p[2]}

(* The order of the naturals as a relation; every set of naturals has a     *)
(* least element for it.                                                    *)
LEMMA SmallerIsWellFounded == IsWellFoundedOn(Smaller, Nat)
BY NatLessThanWellFounded, SMT DEF Smaller, OpToRel

(* Induction over the naturals, for a set of them: a least element outside  *)
(* of the set cannot exist.                                                 *)
LEMMA SetInduction ==
    ASSUME NEW S, 0 \in S, \A n \in Nat : n \in S => n + 1 \in S
    PROVE  \A n \in Nat : n \in S
<1> DEFINE T == Nat \ S
<1>1. SUFFICES ASSUME T # {} PROVE FALSE
  OBVIOUS
<1>2. T \subseteq Nat
  OBVIOUS
<1> HIDE DEF T
<1>3. PICK x \in T : \A y \in T : ~(<<y, x>> \in Smaller)
  BY <1>1, <1>2, SmallerIsWellFounded, WFMin
<1>4. x \in Nat /\ x \notin S /\ x # 0
  BY DEF T
<1>5. x - 1 \in Nat /\ <<x - 1, x>> \in Smaller
  BY <1>4 DEF Smaller
<1>6. x - 1 \in S
  BY <1>3, <1>5 DEF T
<1>7. x - 1 + 1 = x
  BY <1>4
<1> QED
  BY <1>4, <1>5, <1>6, <1>7

(* Places as its equation: it recurs to the number before.                  *)
LEMMA PlacesStep == \A n \in Nat : Places[n] = IF n = 0 THEN 1 ELSE Base * Places[n - 1]
<1>1. Places = [n \in Nat |-> IF n = 0 THEN 1 ELSE Base * Places[n - 1]]
  BY DEF Places
<1> QED
  BY <1>1

(* n bytes write at least one number.                                       *)
LEMMA PlacesPositive == \A n \in Nat : Places[n] \in Nat \ {0}
<1> DEFINE S == {n \in Nat : Places[n] \in Nat \ {0}}
<1>1. 0 \in S
  BY PlacesStep
<1>2. ASSUME NEW n \in Nat, n \in S PROVE n + 1 \in S
  <2>1. Places[n + 1] = Base * Places[n]
    BY PlacesStep, n + 1 # 0, (n + 1) - 1 = n
  <2>2. Base \in Nat \ {0} /\ Places[n] \in Nat \ {0}
    BY <1>2, SizesAssumption
  <2>3. Base * Places[n] \in Nat \ {0}
    BY <2>2
  <2> QED BY <2>1, <2>3
<1> HIDE DEF S
<1>3. \A n \in Nat : n \in S
  BY <1>1, <1>2, SetInduction
<1> QED
  BY <1>3 DEF S

(* The fold takes the elements from the end: the greatest of 1 .. n + 1.    *)
LEMMA MaxWith ==
    ASSUME NEW n \in Nat, NEW s \in SUBSET (1 .. n + 1), n + 1 \in s
    PROVE  Max(s) = n + 1 /\ s \ {Max(s)} \in SUBSET (1 .. n)
<1>1. n + 1 \in s /\ \A y \in s : n + 1 >= y
  OBVIOUS
<1>2. ASSUME NEW x \in s, \A y \in s : x >= y PROVE x = n + 1
  <2>1. x \in 1 .. n + 1 /\ x >= n + 1
    BY <1>2
  <2> QED BY <2>1
<1>3. Max(s) = n + 1
  BY <1>1, <1>2, Zenon DEF Max
<1> QED
  BY <1>3

(* The function that the fold of be_bytes_to_u64 stands for exists: it is   *)
(* built one byte at a time.                                                *)
LEMMA FoldDefined ==
    ASSUME NEW L \in Nat, NEW bytes
    PROVE  \E num : num = [s \in SUBSET (1 .. L) |->
                             IF s = {} THEN 0 ELSE num[s \ {Max(s)}] * Base + bytes[Max(s)]]
<1> DEFINE Solves(num, n) == num = [s \in SUBSET (1 .. n) |->
                           IF s = {} THEN 0 ELSE num[s \ {Max(s)}] * Base + bytes[Max(s)]]
<1> DEFINE S == {n \in Nat : \E num : Solves(num, n)}
<1>1. 0 \in S
  <2> DEFINE num == [s \in SUBSET (1 .. 0) |-> 0]
  <2>1. \A s \in SUBSET (1 .. 0) : s = {}
    OBVIOUS
  <2>2. Solves(num, 0)
    BY <2>1
  <2> QED BY <2>2
<1>2. ASSUME NEW n \in Nat, n \in S PROVE n + 1 \in S
  <2>1. PICK num : Solves(num, n)
    BY <1>2
  <2> DEFINE more == [s \in SUBSET (1 .. n + 1) |->
                        IF n + 1 \in s THEN num[s \ {n + 1}] * Base + bytes[n + 1] ELSE num[s]]
  <2> DEFINE Step(s) == IF s = {} THEN 0 ELSE more[s \ {Max(s)}] * Base + bytes[Max(s)]
  <2>2. ASSUME NEW s \in SUBSET (1 .. n) PROVE more[s] = num[s]
    BY n + 1 \notin s, s \in SUBSET (1 .. n + 1)
  <2>3. ASSUME NEW s \in SUBSET (1 .. n + 1) PROVE more[s] = Step(s)
    <3>1. CASE n + 1 \in s
      <4>1. Max(s) = n + 1 /\ s \ {Max(s)} \in SUBSET (1 .. n)
        BY <3>1, MaxWith
      <4>2. more[s \ {n + 1}] = num[s \ {n + 1}]
        BY <2>2, <4>1
      <4>3. more[s] = num[s \ {n + 1}] * Base + bytes[n + 1]
        BY <3>1
      <4> HIDE DEF more
      <4> QED BY <3>1, <4>1, <4>2, <4>3
    <3>2. CASE n + 1 \notin s
      <4>1. \A k \in s : k \in 1 .. n
        <5>1. \A k \in s : k \in 1 .. n + 1 /\ k # n + 1
          BY <3>2
        <5> QED BY <5>1
      <4>1a. s \in SUBSET (1 .. n) /\ s \ {Max(s)} \in SUBSET (1 .. n)
        BY <4>1
      <4>2. more[s] = num[s] /\ more[s \ {Max(s)}] = num[s \ {Max(s)}]
        BY <2>2, <4>1a
      <4>3. num[s] = IF s = {} THEN 0 ELSE num[s \ {Max(s)}] * Base + bytes[Max(s)]
        BY <2>1, <4>1a
      <4> HIDE DEF more
      <4> QED BY <4>2, <4>3
    <3> QED BY <3>1, <3>2
  <2>4. more = [s \in SUBSET (1 .. n + 1) |-> more[s]]
    OBVIOUS
  <2> HIDE DEF more
  <2>5. Solves(more, n + 1)
    BY <2>3, <2>4
  <2> QED BY <2>5
<1> HIDE DEF S
<1>3. \A n \in Nat : n \in S
  BY <1>1, <1>2, SetInduction
<1> QED
  BY <1>3 DEF S

(* be_bytes_to_u64 returns one of the numbers that as many bytes can write. *)
LEMMA FoldOfBytes ==
    ASSUME NEW bytes \in Seq(Byte)
    PROVE be_bytes_to_u64(bytes) \in 0 .. Places[Len(bytes)] - 1
<1> DEFINE num[s \in SUBSET DOMAIN bytes] ==
             IF s = {} THEN 0 ELSE num[s \ {Max(s)}] * Base + bytes[Max(s)]
<1> DEFINE S == {n \in Nat : n <= Len(bytes) => num[1 .. n] \in 0 .. Places[n] - 1}
<1>0. Len(bytes) \in Nat /\ DOMAIN bytes = 1 .. Len(bytes)
  BY LenProperties
<1>1. be_bytes_to_u64(bytes) = num[1 .. Len(bytes)]
  BY <1>0 DEF be_bytes_to_u64, FoldLeft, MapThenFoldSet
<1>2. num = [s \in SUBSET DOMAIN bytes |->
               IF s = {} THEN 0 ELSE num[s \ {Max(s)}] * Base + bytes[Max(s)]]
  <2>1. \E f : f = [s \in SUBSET DOMAIN bytes |->
               IF s = {} THEN 0 ELSE f[s \ {Max(s)}] * Base + bytes[Max(s)]]
    <3> HIDE DEF num
    <3>1. PICK f : f = [s \in SUBSET (1 .. Len(bytes)) |->
               IF s = {} THEN 0 ELSE f[s \ {Max(s)}] * Base + bytes[Max(s)]]
      BY <1>0, FoldDefined, Zenon
    <3> QED BY <1>0, <3>1, Zenon
  <2> QED BY <2>1, Zenon
<1> HIDE DEF num
<1>3. 0 \in S
  <2>1. 1 .. 0 = {} /\ 1 .. 0 \in SUBSET DOMAIN bytes
    OBVIOUS
  <2> QED BY <1>2, <2>1, PlacesStep
<1>4. ASSUME NEW n \in Nat, n \in S PROVE n + 1 \in S
  <2> SUFFICES ASSUME n + 1 <= Len(bytes)
               PROVE  num[1 .. n + 1] \in 0 .. Places[n + 1] - 1
    OBVIOUS
  <2>1. num[1 .. n] \in 0 .. Places[n] - 1
    BY <1>0, <1>4
  <2>2. 1 .. n + 1 \in SUBSET DOMAIN bytes /\ n + 1 \in 1 .. n + 1
    <3>1. \A k \in 1 .. n + 1 : k \in 1 .. Len(bytes)
      BY <1>0
    <3> QED BY <1>0, <3>1
  <2>3. Max(1 .. n + 1) = n + 1 /\ (1 .. n + 1) \ {n + 1} = 1 .. n
    <3> DEFINE s == 1 .. n + 1
    <3>1. s \in SUBSET (1 .. n + 1) /\ n + 1 \in s
      BY <2>2
    <3> HIDE DEF s
    <3>2. Max(s) = n + 1
      BY <3>1, MaxWith
    <3> QED BY <3>2 DEF s
  <2>4. num[1 .. n + 1] = num[1 .. n] * Base + bytes[n + 1]
    BY <1>2, <2>2, <2>3
  <2>5. bytes[n + 1] \in 0 .. Base - 1 /\ Base \in Nat
    BY <1>0, ElementOfSeq, SizesAssumption DEF Byte
  <2>6. Places[n + 1] = Base * Places[n] /\ Places[n] \in Nat
    BY PlacesStep, PlacesPositive, n + 1 # 0, (n + 1) - 1 = n
  <2>7. ASSUME NEW a \in Nat, NEW p \in Nat, NEW b \in Nat, NEW d \in 0 .. b - 1, a <= p - 1
        PROVE  a * b + d <= b * p - 1 /\ a * b + d \in Nat
    <3>1. a * b <= (p - 1) * b
      BY <2>7
    <3>2. (p - 1) * b = b * p - b
      BY <2>7
    <3>3. a * b \in Nat /\ b * p \in Nat
      BY <2>7
    <3> QED BY <2>7, <3>1, <3>2, <3>3
  <2> DEFINE value == num[1 .. n]
             places == Places[n]
             digit == bytes[n + 1]
  <2>8. value \in Nat /\ places \in Nat /\ value <= places - 1 /\ digit \in 0 .. Base - 1
    BY <2>1, <2>5, <2>6
  <2> HIDE DEF value, places, digit
  <2>9. value * Base + digit <= Base * places - 1 /\ value * Base + digit \in Nat
    BY <2>5, <2>7, <2>8
  <2>10. Base * places \in Nat
    BY <2>5, <2>8
  <2> QED BY <2>4, <2>6, <2>9, <2>10 DEF value, places, digit
<1> HIDE DEF S
<1>5. \A n \in Nat : n \in S
  BY <1>3, <1>4, SetInduction
<1> QED
  BY <1>0, <1>1, <1>5 DEF S

-----------------------------------------------------------------------------
(* RLP headers and length prefixes.                                         *)

HeaderSize == Base - 1 - ListLong

(* More bytes write at least as many numbers.                               *)
LEMMA PlacesGrow == \A n \in Nat, k \in Nat : Places[n] <= Places[n + k]
<1> SUFFICES ASSUME NEW n \in Nat PROVE \A k \in Nat : Places[n] <= Places[n + k]
  OBVIOUS
<1> DEFINE S == {k \in Nat : Places[n] <= Places[n + k]}
<1>1. 0 \in S
  BY PlacesPositive
<1>2. ASSUME NEW k \in Nat, k \in S PROVE k + 1 \in S
  <2>1. Places[n + (k + 1)] = Base * Places[n + k]
    BY PlacesStep, n + (k + 1) # 0, (n + (k + 1)) - 1 = n + k
  <2>2. Base \in Nat \ {0} /\ Places[n + k] \in Nat /\ Places[n] \in Nat
    BY SizesAssumption, PlacesPositive
  <2>3. ASSUME NEW b \in Nat \ {0}, NEW p \in Nat PROVE p <= b * p
    OBVIOUS
  <2>4. Places[n] <= Places[n + k] /\ Places[n + k] <= Base * Places[n + k] /\ Base * Places[n + k] \in Nat
    BY <1>2, <2>2, <2>3
  <2>5. Places[n] <= Places[n + (k + 1)]
    BY <2>1, <2>2, <2>4
  <2> QED BY <2>5
<1> HIDE DEF S
<1>3. \A k \in Nat : k \in S
  BY <1>1, <1>2, SetInduction
<1> QED
  BY <1>3 DEF S

(* The same for two lengths.                                                *)
LEMMA PlacesMonotonic == \A n \in Nat, m \in Nat : n <= m => Places[n] <= Places[m]
<1> SUFFICES ASSUME NEW n \in Nat, NEW m \in Nat, n <= m PROVE Places[n] <= Places[m]
  OBVIOUS
<1>1. m - n \in Nat /\ n + (m - n) = m
  OBVIOUS
<1> QED
  BY <1>1, PlacesGrow

(* A part of a sequence of bytes.                                           *)
LEMMA PartOfBytes ==
    ASSUME NEW bytes \in Seq(Byte), NEW at \in Nat, NEW n \in Nat, at + n <= Len(bytes)
    PROVE  /\ SubSeq(bytes, at + 1, at + n) \in Seq(Byte)
           /\ Len(SubSeq(bytes, at + 1, at + n)) = n
<1>1. Len(bytes) \in Nat /\ \A i \in at + 1 .. at + n : bytes[i] \in Byte
  BY LenProperties, ElementOfSeq
<1> QED
  BY <1>1, SubSeqProperties

(* A length prefix is a uint32_t.                                           *)
LEMMA U4BETyped ==
    ASSUME NEW bytes \in Seq(Byte), Len(bytes) >= PrefixLen
    PROVE  U4BE(bytes) \in 0 .. U32 - 1
<1>1. PrefixLen \in Nat /\ U32 \in Nat /\ Places[PrefixLen] \in Nat /\ Places[PrefixLen] <= U32
  BY SizesAssumption, WidthsAssumption, PlacesPositive
<1> DEFINE part == SubSeq(bytes, 1, PrefixLen)
<1>2. part \in Seq(Byte) /\ Len(part) = PrefixLen
  BY <1>1, PartOfBytes, 0 + 1 = 1, 0 + PrefixLen = PrefixLen
<1> HIDE DEF part
<1>3. be_bytes_to_u64(part) \in 0 .. Places[PrefixLen] - 1
  BY <1>2, FoldOfBytes
<1> QED
  BY <1>1, <1>3 DEF U4BE, part

(* The length an RLP header announces is a uint64_t.                        *)
LEMMA LengthTyped ==
    ASSUME NEW bytes \in Seq(Byte), NEW at \in Nat, NEW n \in 0 .. HeaderSize, at + n <= Len(bytes)
    PROVE  be_bytes_to_u64(SubSeq(bytes, at + 1, at + n)) \in 0 .. U64 - 1
<1>1. /\ HeaderSize \in Nat /\ n \in Nat /\ U64 \in Nat
      /\ Places[n] \in Nat /\ Places[HeaderSize] \in Nat /\ Places[HeaderSize] <= U64
  BY SizesAssumption, WidthsAssumption, PlacesPositive, SMTT(30) DEF HeaderSize
<1>2. Places[n] <= Places[HeaderSize]
  BY <1>1, PlacesMonotonic
<1> DEFINE part == SubSeq(bytes, at + 1, at + n)
<1>3. part \in Seq(Byte) /\ Len(part) = n
  BY <1>1, PartOfBytes
<1> HIDE DEF part
<1>4. be_bytes_to_u64(part) \in 0 .. Places[n] - 1
  BY <1>3, FoldOfBytes
<1> QED
  BY <1>1, <1>2, <1>4 DEF part

(* The marker of a header, and how many bytes its length takes. *)
Offset(bytes) == IF bytes # << >> /\ bytes[1] \in {1, 2} THEN 2 ELSE 1
Marker(bytes) == bytes[Offset(bytes)]
Extra(bytes)  == Marker(bytes) - ListLong

(* A header that is accepted has a list marker inside the bytes.            *)
LEMMA MarkerRead ==
    ASSUME NEW bytes \in Seq(Byte), get_tx_rlp_len(bytes).ok
    PROVE  /\ Offset(bytes) \in {1, 2} /\ Offset(bytes) <= Len(bytes)
           /\ Marker(bytes) \in ListShort .. Base - 1
<1>0. Len(bytes) \in Nat
  BY LenProperties
<1>1. /\ Offset(bytes) \in {1, 2} /\ Offset(bytes) <= Len(bytes)
      /\ ~(Marker(bytes) < ListShort)
  BY <1>0 DEF get_tx_rlp_len, NoRlp, Offset, Marker
<1> DEFINE at == Offset(bytes)
<1>2. at \in 1 .. Len(bytes)
  BY <1>0, <1>1
<1> HIDE DEF at
<1>3. bytes[at] \in Byte
  BY <1>2, ElementOfSeq
<1>4. Marker(bytes) \in 0 .. Base - 1
  BY <1>3 DEF Byte, Marker, at
<1> QED
  BY <1>1, <1>4, SizesAssumption

(* The header of a short list is the marker alone.                          *)
LEMMA ShortHeader ==
    ASSUME NEW bytes \in Seq(Byte), Offset(bytes) <= Len(bytes), Marker(bytes) \in ListShort .. ListLong
    PROVE  get_tx_rlp_len(bytes) =
             [ok |-> TRUE, read |-> Offset(bytes), to_read |-> Marker(bytes) - ListShort]
<1>1. Len(bytes) \in Nat /\ Offset(bytes) \in {1, 2}
  BY LenProperties DEF Offset
<1> QED
  BY <1>1, SizesAssumption DEF get_tx_rlp_len, Offset, Marker

(* The marker of a long list says how many bytes its length takes.          *)
LEMMA LongHeaderRead ==
    ASSUME NEW bytes \in Seq(Byte), Offset(bytes) <= Len(bytes), Marker(bytes) \in ListLong + 1 .. Base - 1
    PROVE  get_tx_rlp_len(bytes) = LongHeader(bytes, Offset(bytes), Extra(bytes))
<1>1. Len(bytes) \in Nat /\ Offset(bytes) \in {1, 2}
  BY LenProperties DEF Offset
<1>2. ~(Marker(bytes) < ListShort) /\ ~(Marker(bytes) <= ListLong)
  BY SizesAssumption
<1> QED
  BY <1>1, <1>2 DEF get_tx_rlp_len, Offset, Marker, Extra

(* A long list has at least one byte of length, and as many as a marker can *)
(* say.                                                                     *)
LEMMA ExtraTyped ==
    ASSUME NEW bytes \in Seq(Byte), Marker(bytes) \in ListLong + 1 .. Base - 1
    PROVE  Extra(bytes) \in 1 .. HeaderSize
BY SizesAssumption DEF Extra, HeaderSize

(* An accepted header lies within the bytes it was read from.               *)
LEMMA HeaderTyped ==
    ASSUME NEW bytes \in Seq(Byte), get_tx_rlp_len(bytes).ok
    PROVE  /\ get_tx_rlp_len(bytes).read \in 1 .. Len(bytes)
           /\ get_tx_rlp_len(bytes).read <= HeaderSize + 2
           /\ get_tx_rlp_len(bytes).to_read \in 0 .. U64 - 1
<1> DEFINE rlp == get_tx_rlp_len(bytes)
<1>0. Len(bytes) \in Nat /\ HeaderSize \in Nat /\ ListShort \in Nat /\ U64 \in Nat /\ Base < U64 /\ ListLong \in Nat
  BY LenProperties, SizesAssumption DEF HeaderSize
<1>1. Offset(bytes) \in {1, 2} /\ Offset(bytes) <= Len(bytes) /\ Marker(bytes) \in ListShort .. Base - 1
  BY MarkerRead
<1>2. CASE Marker(bytes) <= ListLong
  <2>1. rlp = [ok |-> TRUE, read |-> Offset(bytes), to_read |-> Marker(bytes) - ListShort]
    BY <1>0, <1>1, <1>2, ShortHeader
  <2>2. Marker(bytes) - ListShort \in 0 .. U64 - 1
    BY <1>0, <1>1, SizesAssumption
  <2> QED
    BY <1>0, <1>1, <2>1, <2>2
<1>3. CASE ~(Marker(bytes) <= ListLong)
  <2>1. Marker(bytes) \in ListLong + 1 .. Base - 1
    BY <1>0, <1>1, <1>3, SizesAssumption
  <2>2. rlp = LongHeader(bytes, Offset(bytes), Extra(bytes)) /\ Extra(bytes) \in 1 .. HeaderSize
    BY <1>1, <2>1, LongHeaderRead, ExtraTyped
  <2>3. Offset(bytes) + Extra(bytes) <= Len(bytes)
    BY <1>0, <1>1, <2>2 DEF LongHeader, NoRlp
  <2>4. /\ rlp.read = Offset(bytes) + Extra(bytes)
        /\ rlp.to_read = be_bytes_to_u64(SubSeq(bytes, Offset(bytes) + 1, Offset(bytes) + Extra(bytes)))
    BY <1>0, <1>1, <2>2, <2>3 DEF LongHeader
  <2> HIDE DEF rlp
  <2>5. rlp.to_read \in 0 .. U64 - 1
    <3> DEFINE at == Offset(bytes)
               n  == Extra(bytes)
    <3>1. at \in Nat /\ n \in 0 .. HeaderSize /\ at + n <= Len(bytes)
      BY <1>0, <1>1, <2>2, <2>3
    <3> HIDE DEF at, n
    <3>2. be_bytes_to_u64(SubSeq(bytes, at + 1, at + n)) \in 0 .. U64 - 1
      BY <3>1, LengthTyped
    <3> QED
      BY <2>4, <3>2 DEF at, n
  <2> QED
    BY <1>0, <1>1, <2>2, <2>3, <2>4, <2>5 DEF rlp
<1> QED
  BY <1>2, <1>3

(* A header depends on its own bytes only.                                  *)
LEMMA HeaderOfPrefix ==
    ASSUME NEW bytes \in Seq(Byte), NEW longer \in Seq(Byte), get_tx_rlp_len(bytes).ok,
           get_tx_rlp_len(bytes).read <= Len(longer),
           \A i \in 1 .. get_tx_rlp_len(bytes).read : longer[i] = bytes[i]
    PROVE  get_tx_rlp_len(longer) = get_tx_rlp_len(bytes)
<1> DEFINE rlp == get_tx_rlp_len(bytes)
<1>0. /\ Len(bytes) \in Nat /\ Len(longer) \in Nat /\ HeaderSize \in Nat
      /\ {ListShort, ListLong, Base} \subseteq Nat
  BY LenProperties, SizesAssumption DEF HeaderSize
<1>1. /\ Offset(bytes) \in {1, 2} /\ Offset(bytes) <= Len(bytes)
      /\ Marker(bytes) \in ListShort .. Base - 1
  BY MarkerRead
<1>2. rlp.read \in 1 .. Len(bytes)
  BY HeaderTyped
<1>3. CASE Marker(bytes) <= ListLong
  <2>1. rlp = [ok |-> TRUE, read |-> Offset(bytes), to_read |-> Marker(bytes) - ListShort]
    BY <1>0, <1>1, <1>3, ShortHeader
  <2>2. Offset(longer) = Offset(bytes) /\ Marker(longer) = Marker(bytes) /\ Offset(bytes) <= Len(longer)
    BY <1>0, <1>1, <1>2, <2>1, EmptySeq DEF Offset, Marker
  <2> QED
    BY <1>0, <1>1, <1>3, <2>1, <2>2, ShortHeader
<1>4. CASE ~(Marker(bytes) <= ListLong)
  <2>1. Marker(bytes) \in ListLong + 1 .. Base - 1
    BY <1>0, <1>1, <1>4
  <2>2. rlp = LongHeader(bytes, Offset(bytes), Extra(bytes)) /\ Extra(bytes) \in 1 .. HeaderSize
    BY <1>1, <2>1, LongHeaderRead, ExtraTyped
  <2>3. Offset(bytes) + Extra(bytes) <= Len(bytes)
    BY <1>0, <1>1, <2>2 DEF LongHeader, NoRlp
  <2>4. rlp.read = Offset(bytes) + Extra(bytes)
    BY <1>0, <1>1, <2>2, <2>3 DEF LongHeader
  <2>5. Offset(longer) = Offset(bytes) /\ Marker(longer) = Marker(bytes) /\ Offset(bytes) <= Len(longer)
    <3> DEFINE o == Offset(bytes)
               e == Extra(bytes)
               m == rlp.read
    <3>1. o \in {1, 2} /\ e \in Nat /\ m \in Nat /\ m = o + e /\ m <= Len(longer)
      BY <1>0, <1>1, <1>2, <2>2, <2>4
    <3>2. \A i \in 1 .. m : longer[i] = bytes[i]
      OBVIOUS
    <3>3. Len(bytes) # 0 /\ Len(longer) # 0
      <4> HIDE DEF o, e, m
      <4> QED BY <1>0, <1>2, <3>1 DEF m
    <3>4. bytes # << >> /\ longer # << >>
      BY <3>3, EmptySeq
    <3> HIDE DEF e, m
    <3>5. 1 \in 1 .. m /\ o \in 1 .. m /\ o <= Len(longer)
      <4> HIDE DEF o
      <4> QED BY <1>0, <3>1
    <3>6. longer[1] = bytes[1] /\ longer[o] = bytes[o]
      <4> HIDE DEF o
      <4> QED BY <3>2, <3>5, Zenon
    <3>7. Offset(longer) = o
      BY <3>4, <3>6 DEF Offset
    <3> HIDE DEF o
    <3> QED BY <3>5, <3>6, <3>7 DEF Marker, o
  <2>6. Extra(longer) = Extra(bytes)
    BY <2>5 DEF Extra
  <2>7. get_tx_rlp_len(longer) = LongHeader(longer, Offset(bytes), Extra(bytes))
    BY <2>1, <2>5, <2>6, LongHeaderRead
  <2> DEFINE a == Offset(bytes) + 1
             z == Offset(bytes) + Extra(bytes)
  <2>8. SubSeq(longer, a, z) = SubSeq(bytes, a, z)
    <3>1. a \in Int /\ z \in Int /\ z <= Len(longer) /\ z <= Len(bytes) /\ a >= 1 /\ z = rlp.read
      BY <1>0, <1>1, <2>2, <2>3, <2>4
    <3>2. \A i \in a .. z : longer[i] = bytes[i] /\ longer[i] \in Byte /\ bytes[i] \in Byte
      BY <1>0, <3>1, ElementOfSeq
    <3> HIDE DEF a, z
    <3> DEFINE s == SubSeq(longer, a, z)
               t == SubSeq(bytes, a, z)
    <3>3. /\ s \in Seq(Byte) /\ t \in Seq(Byte) /\ Len(s) = Len(t)
          /\ Len(s) = IF a <= z THEN z - a + 1 ELSE 0
          /\ \A i \in 1 .. z - a + 1 : s[i] = longer[a + i - 1] /\ t[i] = bytes[a + i - 1]
      BY <3>1, <3>2, SubSeqProperties
    <3>4. \A i \in 1 .. Len(s) : s[i] = t[i]
      BY <3>1, <3>2, <3>3
    <3> QED
      BY <3>3, <3>4, SeqEqual
  <2>9. ~(Len(longer) - Offset(bytes) < Extra(bytes)) /\ ~(Len(bytes) - Offset(bytes) < Extra(bytes))
    BY <1>0, <1>1, <2>2, <2>3, <2>4
  <2> QED
    BY <2>2, <2>7, <2>8, <2>9 DEF LongHeader
<1> QED
  BY <1>3, <1>4

(* Parts with the same bytes are equal.                                     *)
SameBytes(s, a, t, b, n) == SubSeq(s, a + 1, a + n) = SubSeq(t, b + 1, b + n)

LEMMA SamePart ==
    ASSUME NEW s \in Seq(Byte), NEW t \in Seq(Byte),
           NEW a \in Nat, NEW b \in Nat, NEW n \in Nat,
           a + n <= Len(s), b + n <= Len(t),
           \A i \in 1 .. n : s[a + i] = t[b + i]
    PROVE  SameBytes(s, a, t, b, n)
<1> DEFINE x == SubSeq(s, a + 1, a + n)
           y == SubSeq(t, b + 1, b + n)
<1>0. Len(s) \in Nat /\ Len(t) \in Nat
BY LenProperties
<1>1. /\ \A i \in a + 1 .. a + n : s[i] \in Byte
      /\ \A i \in b + 1 .. b + n : t[i] \in Byte
BY <1>0, ElementOfSeq
<1>2. x \in Seq(Byte) /\ Len(x) = n /\ \A i \in 1 .. n : x[i] = s[a + i]
<2>1. \A i \in 1 .. (a + n) - (a + 1) + 1 : x[i] = s[a + 1 + i - 1]
  BY <1>0, <1>1, SubSeqProperties
<2> QED
  BY <2>1, PartOfBytes
<1>3. y \in Seq(Byte) /\ Len(y) = n /\ \A i \in 1 .. n : y[i] = t[b + i]
<2>1. \A i \in 1 .. (b + n) - (b + 1) + 1 : y[i] = t[b + 1 + i - 1]
  BY <1>0, <1>1, SubSeqProperties
<2> QED
  BY <2>1, PartOfBytes
<1> HIDE DEF x, y
<1>4. \A i \in 1 .. Len(x) : x[i] = y[i]
BY <1>2, <1>3
<1>5. x = y
BY <1>2, <1>3, <1>4, SeqEqual
<1> QED
BY <1>5 DEF SameBytes, x, y

(* What get_tx_rlp_len announces is what the definition of an RLP list says *)
(* of the bytes from the marker on.                                         *)
LEMMA ListAnnounced ==
    ASSUME NEW bytes \in Seq(Byte), NEW list \in Seq(Byte), NEW skipped \in {0, 1},
           Offset(bytes) = skipped + 1, Offset(bytes) <= Len(bytes),
           Len(list) = Len(bytes) - skipped,
           \A i \in 1 .. Len(list) : list[i] = bytes[skipped + i]
    PROVE  IsRlpList(list) <=>
             LET rlp == get_tx_rlp_len(bytes)
             IN  rlp.ok /\ Len(bytes) = rlp.read + rlp.to_read
<1> DEFINE rlp == get_tx_rlp_len(bytes)
           m   == Marker(bytes)
           at  == Offset(bytes)
<1>0. /\ Len(bytes) \in Nat \ {0} /\ Len(list) \in Nat \ {0}
      /\ {ListShort, ListLong, Base, HeaderSize} \subseteq Nat
      /\ ListShort < ListLong /\ ListLong < Base
      /\ skipped \in {0, 1} /\ at = skipped + 1 /\ at <= Len(bytes)
      /\ Len(list) = Len(bytes) - skipped
BY LenProperties, SizesAssumption, SMTT(30) DEF HeaderSize
<1>1. list[1] = m /\ m \in 0 .. Base - 1
<2>1. 1 \in 1 .. Len(list) /\ skipped + 1 = at
  BY <1>0
<2>2. list[1] = m
  BY <2>1 DEF Marker
<2>3. list[1] \in Byte
  BY <2>1, ElementOfSeq
<2> QED
  BY <2>2, <2>3 DEF Byte
<1>2. CASE m < ListShort
<2>1. ~rlp.ok
  BY <1>2 DEF get_tx_rlp_len, NoRlp, Offset, Marker
<2> HIDE DEF m, rlp, at
<2>2. ~IsRlpList(list)
  BY <1>0, <1>1, <1>2 DEF IsRlpList
<2> QED
  BY <2>1, <2>2 DEF rlp
<1>3. CASE m \in ListShort .. ListLong
<2>1. rlp = [ok |-> TRUE, read |-> at, to_read |-> m - ListShort]
  BY <1>3, ShortHeader
<2> HIDE DEF m, rlp, at
<2>2. IsRlpList(list) <=> Len(list) = 1 + (m - ListShort)
  BY <1>0, <1>1, <1>3 DEF IsRlpList
<2>3. rlp.ok /\ rlp.read + rlp.to_read = at + (m - ListShort)
  BY <2>1
<2>4. m \in Nat
  BY <1>1
<2> QED
  BY <1>0, <2>2, <2>3, <2>4 DEF rlp
<1>4. CASE m \in ListLong + 1 .. Base - 1
<2> DEFINE n == Extra(bytes)
<2>1. rlp = LongHeader(bytes, at, n) /\ n \in 1 .. HeaderSize /\ n = m - ListLong
  BY <1>4, LongHeaderRead, ExtraTyped DEF Extra
<2> HIDE DEF n, m, at, rlp
<2>2. n \in Nat /\ n \in 0 .. HeaderSize
  BY <1>0, <2>1
<2>3. IsRlpList(list) <=> /\ Len(list) > n
                          /\ Len(list) = 1 + n + be_bytes_to_u64(SubSeq(list, 2, n + 1))
  <3>1. list[1] > ListLong /\ ~(list[1] \in ListShort .. ListLong)
    BY <1>0, <1>1, <1>4
  <3> QED
    BY <1>1, <2>1, <3>1 DEF IsRlpList
<2>4. Len(list) > n <=> ~(Len(bytes) - at < n)
  BY <1>0, <2>2
<2>5. CASE Len(bytes) - at < n
  <3>1. rlp = NoRlp
    BY <2>1, <2>5 DEF LongHeader
  <3> QED
    BY <2>3, <2>4, <2>5, <3>1 DEF NoRlp, rlp
<2>6. CASE ~(Len(bytes) - at < n)
  <3>1. at \in Nat /\ at + n <= Len(bytes) /\ 1 + n <= Len(list)
    BY <1>0, <2>2, <2>4, <2>6
  <3>2. \A i \in 1 .. n : list[1 + i] = bytes[at + i]
    <4> SUFFICES ASSUME NEW i \in 1 .. n PROVE list[1 + i] = bytes[at + i]
      OBVIOUS
    <4>1. 1 + i \in 1 .. Len(list) /\ skipped + (1 + i) = at + i
      BY <1>0, <2>2, <3>1
    <4> QED
      BY <4>1
  <3>3. SubSeq(list, 1 + 1, 1 + n) = SubSeq(bytes, at + 1, at + n)
    <4> DEFINE one == 1
    <4>1. one \in Nat /\ one + n <= Len(list) /\ \A i \in 1 .. n : list[one + i] = bytes[at + i]
      BY <3>1, <3>2
    <4>0. n \in Nat /\ at \in Nat /\ at + n <= Len(bytes)
      BY <2>2, <3>1
    <4> HIDE DEF one, at, n
    <4>2. SubSeq(list, one + 1, one + n) = SubSeq(bytes, at + 1, at + n)
      <5>1. SameBytes(list, one, bytes, at, n)
        BY <4>0, <4>1, SamePart, Zenon
      <5> QED BY <5>1 DEF SameBytes
    <4> QED
      BY <4>2 DEF one
  <3> DEFINE num == be_bytes_to_u64(SubSeq(bytes, at + 1, at + n))
  <3>4. num \in 0 .. U64 - 1
    BY <2>2, <3>1, LengthTyped
  <3>5. be_bytes_to_u64(SubSeq(list, 2, n + 1)) = num
    BY <2>2, <3>3, n + 1 = 1 + n, 1 + 1 = 2
  <3>6. rlp.ok /\ rlp.read = at + n /\ rlp.to_read = num
    BY <2>1, <2>6 DEF LongHeader
  <3> HIDE DEF num
  <3>7. num \in Int
    BY <3>4, SizesAssumption
  <3>8. IsRlpList(list) <=> Len(list) = 1 + n + num
    BY <2>3, <2>4, <2>6, <3>5
  <3> QED
    <4> DEFINE len == Len(bytes)
               all == Len(list)
    <4>1. /\ len \in Int /\ all \in Int /\ at \in Int /\ skipped \in Int
          /\ at = skipped + 1 /\ all = len - skipped
      BY <1>0
    <4> HIDE DEF len, all, at
    <4>2. all = 1 + n + num <=> len = at + n + num
      BY <2>2, <3>7, <4>1
    <4> QED BY <3>6, <3>8, <4>2, Zenon DEF len, all, rlp
<2> QED
  BY <2>5, <2>6
<1>5. m < ListShort \/ m \in ListShort .. ListLong \/ m \in ListLong + 1 .. Base - 1
<2> HIDE DEF m, at
<2> QED
  BY <1>0, <1>1
<1> QED
BY <1>2, <1>3, <1>4, <1>5

(* A transaction is whole exactly when it has the length of its header and  *)
(* of the list the header announces.                                        *)
LEMMA WholeTx ==
    ASSUME NEW bytes \in Seq(Byte)
    PROVE  IsWholeTx(bytes) <=>
             LET rlp == get_tx_rlp_len(bytes)
             IN  rlp.ok /\ Len(bytes) = rlp.read + rlp.to_read
<1>0. Len(bytes) \in Nat
BY LenProperties
<1>1. CASE Offset(bytes) > Len(bytes)
<2>1. ~get_tx_rlp_len(bytes).ok
  BY <1>1 DEF get_tx_rlp_len, NoRlp, Offset
<2>2. ~IsWholeTx(bytes)
  BY <1>0, <1>1, EmptySeq DEF IsWholeTx, Offset
<2> QED
  BY <2>1, <2>2
<1>2. CASE Offset(bytes) <= Len(bytes) /\ Offset(bytes) = 1
<2>1. bytes # << >> /\ bytes[1] \notin {1, 2}
  BY <1>0, <1>2, EmptySeq DEF Offset
<2>2. IsRlpList(bytes) <=>
        LET rlp == get_tx_rlp_len(bytes) IN rlp.ok /\ Len(bytes) = rlp.read + rlp.to_read
  <3>1. \A i \in 1 .. Len(bytes) : bytes[i] = bytes[0 + i]
    OBVIOUS
  <3> QED
    BY <1>0, <1>2, <3>1, ListAnnounced, 0 + 1 = 1
<2> QED
  BY <2>1, <2>2 DEF IsWholeTx
<1>3. CASE Offset(bytes) <= Len(bytes) /\ Offset(bytes) = 2
<2>1. bytes # << >> /\ bytes[1] \in {1, 2} /\ Len(bytes) > 1
  BY <1>0, <1>3, EmptySeq DEF Offset
<2> DEFINE list == Tail(bytes)
<2>2. list \in Seq(Byte) /\ Len(list) = Len(bytes) - 1
      /\ \A i \in 1 .. Len(list) : list[i] = bytes[1 + i]
  BY <1>0, <2>1, HeadTailProperties, SMT
<2> HIDE DEF list
<2>3. IsRlpList(list) <=>
        LET rlp == get_tx_rlp_len(bytes) IN rlp.ok /\ Len(bytes) = rlp.read + rlp.to_read
  BY <1>3, <2>2, ListAnnounced, 1 + 1 = 2
<2> QED
  BY <2>1, <2>3 DEF IsWholeTx, list
<1>4. Offset(bytes) \in {1, 2}
BY DEF Offset
<1> QED
BY <1>0, <1>1, <1>2, <1>3, <1>4

-----------------------------------------------------------------------------
(* What is stored of a stream.                                              *)

(* part is the beginning of whole. *)
Begins(part, whole) ==
    /\ Len(part) <= Len(whole)
    /\ \A i \in 1 .. Len(part) : part[i] = whole[i]

(* What an unmixed transaction session has stored of the bytes the host    *)
(* sent: all of them, or as many as its header announces, and both only    *)
(* when no chunk is awaited.                                               *)
EthPart(stored, stream, open) ==
    LET rlp   == get_tx_rlp_len(stored)
        whole == rlp.read + rlp.to_read
    IN  /\ rlp.ok
        /\ Begins(stored, stream)
        /\ Len(stored) <= whole
        /\ Len(stored) = Len(stream) \/ Len(stored) = whole
        /\ open => Len(stored) # Len(stream) \/ Len(stored) # whole

(* What an unmixed message session has stored: all bytes sent, and the     *)
(* count of those that are missing is 0 exactly when no chunk is awaited.  *)
MessagePart(stored, stream, remaining, open) ==
    /\ stored = stream
    /\ Len(stored) >= PrefixLen
    /\ (remaining + Len(stored) - PrefixLen) % U32 = U4BE(stored)
    /\ open <=> remaining # 0

-----------------------------------------------------------------------------

(* The beginning of a beginning.                                            *)
LEMMA BeginsTrans ==
    ASSUME NEW s \in Seq(Byte), NEW t \in Seq(Byte), NEW u \in Seq(Byte),
           Begins(s, t), Begins(t, u)
    PROVE  Begins(s, u)
<1>1. Len(s) \in Nat /\ Len(t) \in Nat /\ Len(u) \in Nat
BY LenProperties
<1> QED
BY <1>1 DEF Begins

(* A beginning of the same length is the whole.                             *)
LEMMA BeginsEqual ==
    ASSUME NEW s \in Seq(Byte), NEW t \in Seq(Byte), Begins(s, t), Len(s) = Len(t)
    PROVE  s = t
BY SeqEqual DEF Begins

(* The library's prefix.                                                    *)
LEMMA BeginsIsPrefix ==
    ASSUME NEW s \in Seq(Byte), NEW t \in Seq(Byte), Begins(s, t)
    PROVE  IsPrefix(s, t)
<1>1. Len(s) \in Nat /\ Len(t) \in Nat /\ Len(s) <= Len(t)
BY LenProperties DEF Begins
<1> DEFINE n == Len(s)
<1>2. n \in Nat /\ 0 + n <= Len(s) /\ 0 + n <= Len(t) /\ \A i \in 1 .. n : s[0 + i] = t[0 + i]
BY <1>1 DEF Begins
<1> HIDE DEF n
<1>3. SubSeq(s, 0 + 1, 0 + n) = SubSeq(t, 0 + 1, 0 + n)
<2>1. SameBytes(s, 0, t, 0, n)
  BY <1>2, SamePart, 0 \in Nat, Zenon
<2> QED
  BY <2>1 DEF SameBytes
<1>4. 0 + 1 = 1 /\ 0 + n = n
BY <1>2
<1> QED
BY <1>1, <1>3, <1>4 DEF IsPrefix, n

(* What is taken of a chunk is its beginning.                               *)
LEMMA TakenPart ==
    ASSUME NEW bytes \in Seq(Byte), NEW n \in Nat
    PROVE  /\ Taken(bytes, n) \in Seq(Byte)
           /\ Len(Taken(bytes, n)) = Least(n, Len(bytes))
           /\ Begins(Taken(bytes, n), bytes)
           /\ n >= Len(bytes) => Taken(bytes, n) = bytes
<1>1. Len(bytes) \in Nat
BY LenProperties
<1> DEFINE k == Least(n, Len(bytes))
<1>2. k \in Nat /\ k <= Len(bytes) /\ (n >= Len(bytes) => k = Len(bytes))
BY <1>1 DEF Least
<1>3. Taken(bytes, n) = SubSeq(bytes, 1, k)
BY DEF Taken
<1> HIDE DEF k
<1>4. \A i \in 1 .. k : bytes[i] \in Byte
BY <1>1, <1>2, ElementOfSeq
<1>5. /\ SubSeq(bytes, 1, k) \in Seq(Byte)
      /\ Len(SubSeq(bytes, 1, k)) = k
      /\ \A i \in 1 .. k : SubSeq(bytes, 1, k)[i] = bytes[i]
<2>1. /\ SubSeq(bytes, 1, k) \in Seq(Byte)
      /\ Len(SubSeq(bytes, 1, k)) = IF 1 <= k THEN k - 1 + 1 ELSE 0
      /\ \A i \in 1 .. k - 1 + 1 : SubSeq(bytes, 1, k)[i] = bytes[1 + i - 1]
  BY <1>1, <1>2, <1>4, SubSeqProperties
<2> QED
  BY <1>2, <2>1
<1>6. Begins(Taken(bytes, n), bytes)
BY <1>2, <1>3, <1>5 DEF Begins
<1>7. n >= Len(bytes) => Taken(bytes, n) = bytes
BY <1>2, <1>3, <1>5, <1>6, BeginsEqual
<1> QED
BY <1>3, <1>5, <1>6, <1>7 DEF k

(* What is stored stays when a chunk is appended.                           *)
LEMMA Appended ==
    ASSUME NEW s \in Seq(Byte), NEW t \in Seq(Byte)
    PROVE  /\ s \o t \in Seq(Byte)
           /\ Len(s \o t) = Len(s) + Len(t)
           /\ Begins(s, s \o t)
<1>1. Len(s) \in Nat /\ Len(t) \in Nat
BY LenProperties
<1>2. /\ s \o t \in Seq(Byte) /\ Len(s \o t) = Len(s) + Len(t)
      /\ \A i \in 1 .. Len(s) + Len(t) :
           (s \o t)[i] = IF i <= Len(s) THEN s[i] ELSE t[i - Len(s)]
BY ConcatProperties
<1>3. \A i \in 1 .. Len(s) : i \in 1 .. Len(s) + Len(t) /\ i <= Len(s)
BY <1>1
<1> QED
BY <1>1, <1>2, <1>3 DEF Begins

(* Appending the beginning of a chunk gives a beginning.                    *)
LEMMA AppendedBegins ==
    ASSUME NEW s \in Seq(Byte), NEW t \in Seq(Byte), NEW u \in Seq(Byte), Begins(t, u)
    PROVE  Begins(s \o t, s \o u)
<1>1. Len(s) \in Nat /\ Len(t) \in Nat /\ Len(u) \in Nat /\ Len(t) <= Len(u)
      /\ \A i \in 1 .. Len(t) : t[i] = u[i]
BY LenProperties DEF Begins
<1>2. /\ Len(s \o t) = Len(s) + Len(t)
      /\ \A i \in 1 .. Len(s) + Len(t) :
           (s \o t)[i] = IF i <= Len(s) THEN s[i] ELSE t[i - Len(s)]
BY ConcatProperties
<1>3. /\ Len(s \o u) = Len(s) + Len(u)
      /\ \A i \in 1 .. Len(s) + Len(u) :
           (s \o u)[i] = IF i <= Len(s) THEN s[i] ELSE u[i - Len(s)]
BY ConcatProperties
<1>4. ASSUME NEW i \in 1 .. Len(s) + Len(t)
      PROVE  (s \o t)[i] = (s \o u)[i]
<2>1. i \in 1 .. Len(s) + Len(u) /\ i \in Nat
  BY <1>1
<2>2. CASE i <= Len(s)
  BY <1>2, <1>3, <2>1, <2>2
<2>3. CASE ~(i <= Len(s))
  <3>1. i - Len(s) \in 1 .. Len(t)
    BY <1>1, <2>3
  <3> QED
    BY <1>1, <1>2, <1>3, <2>1, <2>3, <3>1
<2> QED
  BY <2>2, <2>3
<1> QED
BY <1>1, <1>2, <1>3, <1>4 DEF Begins

(* The header that was read from the first bytes is the header of all.      *)
LEMMA HeaderBegins ==
    ASSUME NEW s \in Seq(Byte), NEW t \in Seq(Byte), Begins(s, t), get_tx_rlp_len(s).ok
    PROVE  get_tx_rlp_len(t) = get_tx_rlp_len(s)
<1> DEFINE read == get_tx_rlp_len(s).read
<1>1. read \in 1 .. Len(s) /\ Len(s) \in Nat /\ Len(t) \in Nat /\ Len(s) <= Len(t)
BY HeaderTyped, LenProperties DEF Begins
<1>2. \A i \in 1 .. read : t[i] = s[i]
BY <1>1 DEF Begins
<1>3. read <= Len(t)
BY <1>1
<1> QED
BY <1>2, <1>3, HeaderOfPrefix

(* So is the length prefix of a message.                                    *)
LEMMA PrefixBegins ==
    ASSUME NEW s \in Seq(Byte), NEW t \in Seq(Byte), Begins(s, t), Len(s) >= PrefixLen
    PROVE  U4BE(t) = U4BE(s)
<1> DEFINE n == PrefixLen
<1>1. n \in Nat /\ 0 + n <= Len(s) /\ 0 + n <= Len(t)
BY LenProperties, SizesAssumption DEF Begins
<1>2. \A i \in 1 .. n : t[0 + i] = s[0 + i]
<2>1. Len(s) \in Nat /\ n <= Len(s)
  BY LenProperties
<2> QED
  BY <1>1, <2>1 DEF Begins
<1> HIDE DEF n
<1>3. SubSeq(t, 0 + 1, 0 + n) = SubSeq(s, 0 + 1, 0 + n)
<2>1. SameBytes(t, 0, s, 0, n)
  BY <1>1, <1>2, SamePart, 0 \in Nat, Zenon
<2> QED
  BY <2>1 DEF SameBytes
<1>4. 0 + 1 = 1 /\ 0 + n = n
BY <1>1
<1> QED
BY <1>3, <1>4 DEF U4BE, n

-----------------------------------------------------------------------------
(* Counting modulo 2^w, and the two ways to reassemble.                     *)

(* Unsigned arithmetic: what wraps and what does not.                       *)
LEMMA Modulo ==
    ASSUME NEW m \in Nat \ {0}, NEW x \in Int
    PROVE  /\ x \in 0 .. m - 1 => x % m = x
           /\ x \in m .. 2 * m - 1 => x % m = x - m
           /\ x \in -m .. -1 => x % m = x + m
           /\ x % m \in 0 .. m - 1
OBVIOUS

(* Unsigned subtraction.                                                    *)
LEMMA Difference ==
    ASSUME NEW m \in Nat \ {0}, NEW x \in Nat, NEW y \in Nat, x < m, y <= m
    PROVE  /\ (x - y) % m \in 0 .. m - 1
           /\ x >= y => (x - y) % m = x - y
           /\ x < y => (x - y) % m = x - y + m
<1> DEFINE z == x - y
<1>1. /\ z \in Int
      /\ x >= y => z \in 0 .. m - 1
      /\ x < y => z \in -m .. -1
OBVIOUS
<1> HIDE DEF z
<1> QED
BY <1>1, Modulo DEF z

(* One wrap around is no difference.                                        *)
LEMMA Wrapped ==
    ASSUME NEW m \in Nat \ {0}, NEW x \in Nat, x < m
    PROVE  x % m = x /\ (x + m) % m = x
<1> DEFINE z == x + m
<1>1. z \in m .. 2 * m - 1 /\ z - m = x
OBVIOUS
<1> HIDE DEF z
<1>2. z % m = x
BY <1>1, Modulo
<1>3. x % m = x
BY Modulo
<1> QED
BY <1>2, <1>3 DEF z

(* A count that has wrapped still counts: the first chunk.                  *)
LEMMA CountedFirst ==
    ASSUME NEW m \in Nat \ {0}, NEW x \in Nat, NEW k \in Nat, x < m, k < m
    PROVE  (((x - k) % m) + k) % m = x
<1> DEFINE d == (x - k) % m
<1>1. /\ x >= k => d = x - k
      /\ x < k => d = x - k + m
BY Difference
<1> HIDE DEF d
<1>2. d + k = x \/ d + k = x + m
BY <1>1
<1>3. (d + k) % m = x
BY <1>2, Wrapped
<1> QED
BY <1>3 DEF d

(* A count that has wrapped still counts: a further chunk.                  *)
LEMMA CountedMore ==
    ASSUME NEW m \in Nat \ {0}, NEW b \in Nat, NEW k \in Nat, NEW n \in Nat,
           b < m, k + n < m
    PROVE  (((b - n) % m) + (k + n)) % m = (b + k) % m
<1> DEFINE d == (b - n) % m
           s == b + k
<1>1. /\ b >= n => d = b - n
      /\ b < n => d = b - n + m
BY Difference
<1> HIDE DEF d
<1>2. b >= n => d + (k + n) = s
BY <1>1
<1>3. b < n => d + (k + n) = s + m /\ s < m /\ s \in Nat
BY <1>1
<1> HIDE DEF s
<1>4. b < n => (s + m) % m = s /\ s % m = s
BY <1>3, Wrapped
<1>5. (d + (k + n)) % m = s % m
BY <1>2, <1>3, <1>4
<1> QED
BY <1>5 DEF d, s

(* The numbers of an accepted header, for the provers.                      *)
LEMMA HeaderInts ==
    ASSUME NEW bytes \in Seq(Byte), get_tx_rlp_len(bytes).ok
    PROVE  /\ get_tx_rlp_len(bytes).read \in 1 .. Len(bytes)
           /\ get_tx_rlp_len(bytes).read \in Nat
           /\ get_tx_rlp_len(bytes).to_read \in Nat
           /\ get_tx_rlp_len(bytes).to_read < U64
           /\ Len(bytes) \in Nat /\ U64 \in Nat \ {0} /\ Capacity \in Nat
           /\ Capacity + 1 < U64
<1>1. Len(bytes) \in Nat /\ U64 \in Nat \ {0} /\ Capacity \in Nat /\ Capacity + 1 < U64
BY LenProperties, SizesAssumption
<1> DEFINE read == get_tx_rlp_len(bytes).read
           to_read == get_tx_rlp_len(bytes).to_read
<1>2. read \in 1 .. Len(bytes) /\ to_read \in 0 .. U64 - 1
BY HeaderTyped
<1> HIDE DEF read, to_read
<1>3. read \in Nat /\ to_read \in Nat /\ to_read < U64
BY <1>1, <1>2
<1> QED
BY <1>1, <1>2, <1>3 DEF read, to_read

(* The first chunk of a transaction: what is kept of it is accounted for,   *)
(* and when the chunk has the announced length it is the whole. The         *)
(* saturated sum announces more than the buffer can hold.                   *)
LEMMA EthFirstPart ==
    ASSUME NEW data \in Seq(Byte), get_tx_rlp_len(data).ok,
           NEW whole, whole = saturating_add(get_tx_rlp_len(data).read, get_tx_rlp_len(data).to_read),
           Room(<< >>, Taken(data, whole))
    PROVE  /\ EthPart(Taken(data, whole), data, whole # Len(data))
           /\ whole = Len(data) => IsWholeTx(Taken(data, whole))
           /\ Taken(data, whole) \in Seq(Byte)
           /\ Len(Taken(data, whole)) <= Capacity
<1> DEFINE rlp  == get_tx_rlp_len(data)
           kept == Taken(data, whole)
           read == rlp.read
           to_read == rlp.to_read
<1>1. /\ read \in Nat /\ read <= Len(data) /\ to_read \in Nat /\ to_read < U64 
      /\ Len(data) \in Nat /\ U64 \in Nat \ {0} /\ Capacity \in Nat /\ Capacity + 1 < U64
BY HeaderInts
<1>2. whole = saturating_add(read, to_read)
OBVIOUS
<1> HIDE DEF read, to_read
<1>3. whole \in Nat /\ whole <= read + to_read /\ (whole = read + to_read \/ whole = U64 - 1)
BY <1>1, <1>2 DEF saturating_add
<1>4. /\ kept \in Seq(Byte) /\ Len(kept) = Least(whole, Len(data))
      /\ Begins(kept, data) /\ (whole >= Len(data) => kept = data)
BY <1>3, TakenPart
<1> HIDE DEF kept
<1>5. Len(kept) <= Capacity
BY EmptySeq, Len(<< >>) = 0, <1>1, <1>3, <1>4 DEF Room, kept, Least
<1>6. Len(kept) \in Nat /\ Len(kept) <= read + to_read
BY <1>1, <1>3, <1>4 DEF Least
<1>7. whole <= Len(data) => whole = read + to_read
BY <1>1, <1>3, <1>4, <1>5 DEF Least
<1>8. read <= Len(kept)
BY <1>1, <1>3, <1>4, <1>5, <1>7 DEF Least
<1>9. get_tx_rlp_len(kept) = rlp
<2>1. \A i \in 1 .. read : kept[i] = data[i]
  BY <1>1, <1>4, <1>6, <1>8 DEF Begins
<2> QED
  BY <1>4, <1>8, <2>1, HeaderOfPrefix DEF read
<1>10. EthPart(kept, data, whole # Len(data))
<2>1. Len(kept) = Len(data) \/ Len(kept) = read + to_read
  BY <1>1, <1>3, <1>4, <1>7 DEF Least
<2>2. whole # Len(data) => Len(kept) # Len(data) \/ Len(kept) # read + to_read
  BY <1>1, <1>3, <1>4 DEF Least
<2> QED
  BY <1>4, <1>6, <1>9, <2>1, <2>2 DEF EthPart, read, to_read
<1>11. whole = Len(data) => IsWholeTx(kept)
<2> SUFFICES ASSUME whole = Len(data) PROVE IsWholeTx(kept)
  OBVIOUS
<2>1. Len(kept) = read + to_read
  BY <1>1, <1>4, <1>7 DEF Least
<2> QED
  BY <1>4, <1>9, <2>1, WholeTx DEF read, to_read
<1> QED
BY <1>4, <1>5, <1>10, <1>11 DEF kept

(* A further chunk, whatever the buffer was built from: the difference can  *)
(* only be the length of the chunk when it did not wrap, because the buffer *)
(* is smaller than 2^64 bytes.                                              *)
LEMMA EthMoreWhole ==
    ASSUME NEW stored \in Seq(Byte), NEW data \in Seq(Byte), get_tx_rlp_len(stored).ok,
           NEW missing, missing = Missing(get_tx_rlp_len(stored), stored),
           Len(stored) <= Capacity,
           Room(stored, Taken(data, missing))
    PROVE  /\ missing = Len(data) => IsWholeTx(stored \o Taken(data, missing))
           /\ stored \o Taken(data, missing) \in Seq(Byte)
           /\ Len(stored \o Taken(data, missing)) <= Capacity
           /\ missing \in Nat
<1> DEFINE rlp  == get_tx_rlp_len(stored)
           kept == Taken(data, missing)
           read == rlp.read
           to_read == rlp.to_read
<1>1. /\ read \in Nat /\ read <= Len(stored) /\ to_read \in Nat /\ to_read < U64 
      /\ Len(stored) \in Nat /\ U64 \in Nat \ {0} /\ Capacity \in Nat /\ Capacity + 1 < U64
BY HeaderInts
<1>2. missing = (to_read - (Len(stored) - read)) % U64
BY DEF Missing
<1> HIDE DEF read, to_read
<1> DEFINE behind == Len(stored) - read
<1>2a. behind \in Nat /\ behind <= U64 /\ missing = (to_read - behind) % U64
BY <1>1, <1>2
<1> HIDE DEF behind
<1>3. /\ missing \in 0 .. U64 - 1
      /\ to_read >= behind => missing = to_read - behind
      /\ to_read < behind => missing = to_read - behind + U64
<2>1. to_read \in Nat /\ to_read < U64 /\ U64 \in Nat \ {0}
  BY <1>1
<2>2. /\ (to_read - behind) % U64 \in 0 .. U64 - 1
      /\ to_read >= behind => (to_read - behind) % U64 = to_read - behind
      /\ to_read < behind => (to_read - behind) % U64 = to_read - behind + U64
  BY <1>2a, <2>1, Difference
<2> QED
  BY <1>2a, <2>2
<1>4. /\ kept \in Seq(Byte) /\ Len(kept) = Least(missing, Len(data))
      /\ (missing >= Len(data) => kept = data)
BY <1>1, <1>3, TakenPart
<1>5. Len(stored) + Len(kept) <= Capacity /\ Len(kept) \in Nat
BY <1>4, LenProperties DEF Room, kept
<1>6. /\ stored \o kept \in Seq(Byte) /\ Len(stored \o kept) = Len(stored) + Len(kept)
      /\ Begins(stored, stored \o kept)
BY <1>4, Appended
<1> HIDE DEF kept
<1>7. ASSUME missing = Len(data) PROVE IsWholeTx(stored \o kept)
<2>1. Len(kept) = missing
  BY <1>3, <1>4, <1>7 DEF Least
<2>2. to_read >= behind
  BY <1>1, <1>2a, <1>3, <1>5, <2>1 DEF behind
<2>4. missing = to_read - (Len(stored) - read)
  BY <1>3, <2>2 DEF behind
<2>5. Len(stored \o kept) = read + to_read
  BY <1>1, <1>6, <2>1, <2>4
<2>6. get_tx_rlp_len(stored \o kept) = rlp
  BY <1>6, HeaderBegins
<2> QED
  BY <1>6, <2>5, <2>6, WholeTx DEF read, to_read
<1> QED
BY <1>1, <1>3, <1>5, <1>6, <1>7 DEF kept

(* A further chunk of an unmixed session leaves the session accounted for.  *)
LEMMA EthMorePart ==
    ASSUME NEW stored \in Seq(Byte), NEW stream \in Seq(Byte), NEW data \in Seq(Byte),
           EthPart(stored, stream, TRUE), Len(stored) <= Capacity,
           NEW missing, missing = Missing(get_tx_rlp_len(stored), stored)
    PROVE  EthPart(stored \o Taken(data, missing), stream \o data, missing # Len(data))
<1> DEFINE rlp  == get_tx_rlp_len(stored)
           kept == Taken(data, missing)
           read == rlp.read
           to_read == rlp.to_read
<1>1. rlp.ok /\ Begins(stored, stream) /\ Len(stored) <= read + to_read
      /\ (Len(stored) = Len(stream) \/ Len(stored) = read + to_read)
      /\ (Len(stored) # Len(stream) \/ Len(stored) # read + to_read)
BY DEF EthPart
<1>2. /\ read \in Nat /\ read <= Len(stored) /\ to_read \in Nat /\ to_read < U64 
      /\ Len(stored) \in Nat /\ U64 \in Nat \ {0}
      /\ Len(stream) \in Nat /\ Len(data) \in Nat
BY <1>1, HeaderInts, LenProperties
<1>3. missing = (to_read - (Len(stored) - read)) % U64
BY DEF Missing
<1> HIDE DEF read, to_read
<1>4. missing = read + to_read - Len(stored) /\ missing \in Nat
<2> DEFINE behind == Len(stored) - read
<2>1. behind \in Nat /\ behind <= U64 /\ to_read >= behind
  BY <1>1, <1>2, SizesAssumption
<2>2. missing = (to_read - behind) % U64
  BY <1>3
<2> HIDE DEF behind
<2>3. missing = to_read - behind
  <3>1. /\ U64 \in Nat \ {0} /\ to_read \in Nat /\ behind \in Nat
        /\ to_read < U64 /\ behind <= U64 /\ to_read >= behind
    BY <1>2, <2>1, Zenon
  <3>2. (to_read - behind) % U64 = to_read - behind
    BY <3>1, Difference, ZenonT(30)
  <3> QED BY <2>2, <3>2
<2> QED
  BY <1>2, <2>1, <2>3 DEF behind
<1>5. /\ kept \in Seq(Byte) /\ Len(kept) = Least(missing, Len(data)) /\ Len(kept) \in Nat
      /\ Begins(kept, data)
BY <1>4, TakenPart, LenProperties
<1> HIDE DEF kept
<1>6. /\ stored \o kept \in Seq(Byte) /\ Len(stored \o kept) = Len(stored) + Len(kept)
      /\ Begins(stored, stored \o kept)
      /\ stream \o data \in Seq(Byte) /\ Len(stream \o data) = Len(stream) + Len(data)
      /\ Begins(stream, stream \o data)
BY <1>5, Appended
<1>7. get_tx_rlp_len(stored \o kept) = rlp
BY <1>1, <1>6, HeaderBegins
<1>8. Begins(stored \o kept, stream \o data)
<2>1. CASE Len(stored) = Len(stream)
  <3>1. stored = stream
    BY <1>1, <2>1, BeginsEqual
  <3> QED
    BY <1>5, <3>1, AppendedBegins
<2>2. CASE Len(stored) = read + to_read
  <3>1. Len(kept) = 0
    BY <1>2, <1>4, <1>5, <2>2 DEF Least
  <3>2. Len(stored \o kept) = Len(stored)
    BY <1>2, <1>6, <3>1
  <3>3. stored \o kept = stored
    BY <1>6, <3>2, BeginsEqual
  <3> QED
    BY <1>1, <1>6, <3>3, BeginsTrans
<2> QED
  BY <1>1, <2>1, <2>2
<1>9. Len(stored \o kept) <= read + to_read
BY <1>2, <1>4, <1>5, <1>6 DEF Least
<1>10. Len(stored) <= Len(stream)
BY <1>1 DEF Begins
<1>11. Len(stored \o kept) = Len(stream \o data) \/ Len(stored \o kept) = read + to_read
BY <1>1, <1>2, <1>4, <1>5, <1>6 DEF Least
<1>12. missing # Len(data) =>
         Len(stored \o kept) # Len(stream \o data) \/ Len(stored \o kept) # read + to_read
BY <1>1, <1>2, <1>4, <1>5, <1>6, <1>10 DEF Least
<1> QED
BY <1>1, <1>7, <1>8, <1>9, <1>11, <1>12 DEF EthPart, kept, read, to_read

(* An accounted transaction session has no hole, and is not overdue.        *)
LEMMA EthPartAccounts ==
    ASSUME NEW stored \in Seq(Byte), NEW stream \in Seq(Byte), NEW open \in BOOLEAN,
           EthPart(stored, stream, open)
    PROVE  /\ IsPrefix(stored, stream)
           /\ open => ~IsWholeTx(stream)
<1> DEFINE rlp == get_tx_rlp_len(stored)
<1>1. rlp.ok /\ Begins(stored, stream)
      /\ (Len(stored) = Len(stream) \/ Len(stored) = rlp.read + rlp.to_read)
      /\ (open => Len(stored) # Len(stream) \/ Len(stored) # rlp.read + rlp.to_read)
BY DEF EthPart
<1>2. get_tx_rlp_len(stream) = rlp
BY <1>1, HeaderBegins
<1>3. IsWholeTx(stream) => Len(stream) = rlp.read + rlp.to_read
BY <1>2, WholeTx
<1> QED
BY <1>1, <1>3, BeginsIsPrefix

(* The first chunk of a message sets the count.                             *)
LEMMA MessageFirstPart ==
    ASSUME NEW data \in Seq(Byte), Len(data) >= PrefixLen, Room(<< >>, data)
    PROVE  /\ MessagePart(data, data, Expected(data), Expected(data) # 0)
           /\ Expected(data) \in 0 .. U32 - 1
           /\ Len(data) <= Capacity
<1> DEFINE x == U4BE(data)
           k == Len(data) - PrefixLen
           d == Expected(data)
<1>1. Len(data) <= Capacity /\ Len(data) \in Nat
BY EmptySeq, Len(<< >>) = 0, LenProperties DEF Room
<1>2. /\ U32 \in Nat \ {0} /\ PrefixLen \in Nat
      /\ x \in 0 .. U32 - 1 /\ k \in Nat /\ k < U32
BY <1>1, U4BETyped, SizesAssumption
<1>3. d = (x - k) % U32
BY DEF Expected
<1> HIDE DEF x, d, k
<1>4. x \in Nat /\ x < U32
BY <1>2
<1>5. d \in 0 .. U32 - 1 /\ (d + k) % U32 = x
BY <1>2, <1>3, <1>4, Difference, CountedFirst
<1>6. d + Len(data) - PrefixLen = d + k
BY <1>1, <1>2, <1>5 DEF k
<1>7. (d + Len(data) - PrefixLen) % U32 = x
BY <1>5, <1>6
<1> QED
BY <1>1, <1>5, <1>7 DEF MessagePart, x, d

(* The count after a further chunk. *)
Lowered(remaining, data) == (remaining - Len(data)) % U32

(* Every further chunk lowers the count by what it brings.                  *)
LEMMA MessageMorePart ==
    ASSUME NEW stored \in Seq(Byte), NEW stream, NEW data \in Seq(Byte),
           NEW remaining \in 0 .. U32 - 1, MessagePart(stored, stream, remaining, TRUE),
           Room(stored, data)
    PROVE  MessagePart(stored \o data, stream \o data, Lowered(remaining, data),
                       Lowered(remaining, data) # 0)
<1> DEFINE less == Lowered(remaining, data)
           x == U4BE(stored)
           k == Len(stored) - PrefixLen
           n == Len(data)
<1>1. Len(stored) \in Nat /\ n \in Nat /\ Len(stored) + n <= Capacity
BY LenProperties DEF Room
<1>2. /\ stored = stream /\ Len(stored) >= PrefixLen
      /\ (remaining + Len(stored) - PrefixLen) % U32 = x
BY DEF MessagePart
<1>3. /\ U32 \in Nat \ {0} /\ PrefixLen \in Nat /\ remaining \in Nat /\ remaining < U32
      /\ k \in Nat /\ k + n < U32
      /\ remaining + Len(stored) - PrefixLen = remaining + k
<2>1. U32 \in Nat \ {0} /\ PrefixLen \in Nat /\ Capacity < U32 /\ Capacity \in Nat
  BY SizesAssumption
<2>2. remaining \in Nat /\ remaining < U32
  BY <2>1
<2>3. k \in Nat /\ k <= Len(stored)
  BY <1>1, <1>2, <2>1
<2>4. k + n < U32
  BY <1>1, <2>1, <2>3
<2> QED
  BY <1>1, <2>1, <2>2, <2>3, <2>4
<1>4. /\ stored \o data \in Seq(Byte) /\ Len(stored \o data) = Len(stored) + n
      /\ Begins(stored, stored \o data)
BY Appended
<1>5. U4BE(stored \o data) = x
BY <1>2, <1>4, PrefixBegins
<1> HIDE DEF x, k, n, less
<1>6. less = (remaining - n) % U32
BY DEF n, less, Lowered
<1>7. less \in 0 .. U32 - 1 /\ (less + (k + n)) % U32 = (remaining + k) % U32
<2>1. n <= U32
  BY <1>1, <1>3
<2>2. less \in 0 .. U32 - 1
  BY <1>1, <1>3, <1>6, <2>1, Difference
<2>3. (((remaining - n) % U32) + (k + n)) % U32 = (remaining + k) % U32
  BY <1>1, <1>3, CountedMore
<2> QED
  BY <1>6, <2>2, <2>3
<1>8. less + Len(stored \o data) - PrefixLen = less + (k + n)
BY <1>1, <1>3, <1>4, <1>7 DEF k
<1>9. (less + Len(stored \o data) - PrefixLen) % U32 = x
BY <1>2, <1>3, <1>7, <1>8
<1>10. Len(stored \o data) >= PrefixLen
BY <1>1, <1>2, <1>3, <1>4
<1> QED
BY <1>2, <1>5, <1>9, <1>10 DEF MessagePart, less

(* The count is 0 exactly when the message is whole.                        *)
LEMMA MessagePartAccounts ==
    ASSUME NEW stored \in Seq(Byte), NEW stream, Len(stored) <= Capacity,
           NEW remaining \in 0 .. U32 - 1, NEW open \in BOOLEAN,
           MessagePart(stored, stream, remaining, open)
    PROVE  IsWholeMessage(stored) <=> ~open
<1> DEFINE x == U4BE(stored)
           k == Len(stored) - PrefixLen
<1>1. /\ Len(stored) \in Nat /\ U32 \in Nat \ {0} /\ PrefixLen \in Nat
      /\ Len(stored) >= PrefixLen /\ k \in Nat /\ k < U32
      /\ x \in 0 .. U32 - 1
<2>1. Len(stored) \in Nat /\ Len(stored) >= PrefixLen
  BY LenProperties DEF MessagePart
<2>2. /\ U32 \in Nat \ {0} /\ PrefixLen \in Nat /\ Capacity < U32 /\ Capacity \in Nat
  BY SizesAssumption
<2>3. x \in 0 .. U32 - 1
  BY <2>1, U4BETyped
<2>4. k \in Nat /\ k < U32
  BY <2>1, <2>2
<2> QED
  BY <2>1, <2>2, <2>3, <2>4
<1>2. (remaining + k) % U32 = x
<2>1. remaining + Len(stored) - PrefixLen = remaining + k
  BY <1>1
<2> QED
  BY <2>1 DEF MessagePart
<1>3. IsWholeMessage(stored) <=> k = x
BY <1>1 DEF IsWholeMessage
<1>4. open <=> remaining # 0
BY DEF MessagePart
<1> HIDE DEF x, k
<1>5. CASE remaining = 0
<2>1. k % U32 = k /\ remaining + k = k
  BY <1>1, <1>5, Wrapped
<2> QED
  BY <1>2, <1>3, <1>4, <1>5, <2>1
<1>6. CASE remaining # 0
<2> SUFFICES ASSUME k = x PROVE FALSE
  BY <1>3, <1>4, <1>6
<2> DEFINE s == remaining + k
<2>1. s \in Int /\ s > k /\ s < k + U32 /\ s % U32 = k
      /\ (s \in 0 .. U32 - 1 \/ s \in U32 .. 2 * U32 - 1)
  BY <1>1, <1>2, <1>6
<2> HIDE DEF s
<2>2. s % U32 = s \/ s % U32 = s - U32
  BY <1>1, <2>1, Modulo
<2> QED
  BY <1>1, <2>1, <2>2
<1> QED
BY <1>5, <1>6

-----------------------------------------------------------------------------
(* The path of a session.                                                   *)

Handlers == {"GetAddrEth", "SignEth", "SignEip191"}

History == [kind : {"none", "SignEth", "SignEip191", "mixed"},
            path : Seq(PathElem), stream : Seq(Byte)]

PathTyped ==
    /\ hdPathEth \in [1 .. MaxPath -> PathElem]
    /\ hdPathEth_len \in {0} \cup MinPath .. MaxPath
    /\ session \in History

PathInv == PathTyped /\ PathOfSession

(* What the host sends.                                                     *)
LEMMA RequestTyped ==
    ASSUME NEW req \in Requests
    PROVE  /\ req.path \in WirePath /\ req.data \in Seq(Byte)
           /\ req.ins \in Handlers
BY RequestsAssumption DEF Request, Handlers

(* A path is written element by element, and what is refused may have been *)
(* written in part; an accepted one is there as a whole.                   *)
LEMMA PathWritten ==
    ASSUME PathTyped, NEW path \in WirePath, ExtractPath(path)
    PROVE  /\ hdPathEth' \in [1 .. MaxPath -> PathElem]
           /\ hdPathEth_len' \in {0} \cup MinPath .. MaxPath
           /\ PathAccepted(path) =>
                /\ SigningPath' = SubSeq(path.elems, 1, path.len)
                /\ SubSeq(path.elems, 1, path.len) \in Seq(PathElem)
<1>1. path.len \in Nat /\ path.elems \in Seq(PathElem)
  BY DEF WirePath
<1>2. /\ Len(path.elems) \in Nat
      /\ \A i \in 1 .. Len(path.elems) : path.elems[i] \in PathElem
  BY <1>1, LenProperties, ElementOfSeq
<1>3. hdPathEth' \in [1 .. MaxPath -> PathElem]
  BY <1>1, <1>2 DEF ExtractPath, PathTyped, PathFits
<1>4. hdPathEth_len' \in {0} \cup MinPath .. MaxPath
  BY DEF ExtractPath, PathTyped, PathFits, MinPath, MaxPath
<1>5. ASSUME PathAccepted(path)
      PROVE  /\ SigningPath' = SubSeq(path.elems, 1, path.len)
             /\ SubSeq(path.elems, 1, path.len) \in Seq(PathElem)
  <2>1. /\ hdPathEth_len' = path.len
        /\ path.len \in 1 .. MaxPath /\ path.len <= Len(path.elems)
        /\ \A i \in 1 .. path.len : hdPathEth'[i] = path.elems[i]
    BY <1>1, <1>2, <1>5
       DEF ExtractPath, PathAccepted, PathFits, MinPath, MaxPath
  <2>2. SubSeq(path.elems, 1, path.len) = [i \in 1 .. path.len |-> path.elems[i]]
    BY <1>1, <1>2, <2>1, SubSeqProperties
  <2>3. SigningPath' = [i \in 1 .. path.len |-> hdPathEth'[i]]
    BY <1>3, <2>1 DEF SigningPath, MaxPath
  <2>4. SubSeq(path.elems, 1, path.len) \in Seq(PathElem)
    BY <1>1, <1>2, <2>1, SubSeqProperties
  <2> QED
    BY <2>1, <2>2, <2>3, <2>4
<1> QED
  BY <1>3, <1>4, <1>5

(* FIRST with a valid path: path and history are started together.         *)
LEMMA FirstStarts ==
    ASSUME PathInv, NEW req \in Requests, PathAccepted(req.path),
           req.ins \in {"SignEth", "SignEip191"}, ExtractPath(req.path), Started(req)
    PROVE  PathInv'
BY RequestTyped, PathWritten DEF PathInv, PathTyped, PathOfSession, History, Started

(* MORE: only while a session is open, and it touches no path.             *)
LEMMA MoreContinues ==
    ASSUME PathInv, NEW req \in Requests, tx_initialized, Continued(req),
           UNCHANGED <<hdPathEth, hdPathEth_len>>
    PROVE  PathInv'
<1>1. /\ session' \in History
      /\ session'.path = session.path
  <2>1. session.stream \o req.data \in Seq(Byte)
    BY RequestTyped, ConcatProperties DEF PathInv, PathTyped, History
  <2> QED
    BY <2>1, RequestTyped DEF PathInv, PathTyped, History, Continued
<1>2. SigningPath = session.path
  BY DEF PathInv, PathOfSession, Live
<1> QED
  BY <1>1, <1>2 DEF PathInv, PathTyped, PathOfSession, SigningPath

(* Every other command leaves a session only if it leaves the path.        *)
LEMMA PathWrittenClosed ==
    ASSUME PathInv, NEW req \in Requests, ExtractPath(req.path),
           session' \in History,
           ~Live'
    PROVE  PathInv'
BY RequestTyped, PathWritten DEF PathInv, PathTyped, PathOfSession

LEMMA CommandKeepsPath ==
    ASSUME PathInv, NEW req \in Requests, Command(req)
    PROVE  PathInv'
<1>1. CASE RefuseHeader(req)
  <2>1. Live' => Live
    BY <1>1 DEF RefuseHeader, Throw, Live
  <2> QED
    BY <1>1, <2>1 DEF RefuseHeader, PathInv, PathTyped, PathOfSession, SigningPath
<1>2. CASE RefusePath(req)
  <2>1. ~Live' /\ session' = NoSession
    BY <1>2 DEF RefusePath, Throw, Live
  <2>2. NoSession \in History
    BY EmptySeq DEF NoSession, History
  <2> QED
    BY <1>2, <2>1, <2>2, PathWrittenClosed DEF RefusePath
<1>3. CASE FirstEip191(req)
  BY <1>3, FirstStarts DEF FirstEip191, First
<1>4. CASE FirstEth(req)
  BY <1>4, FirstStarts DEF FirstEth, First
<1>5. CASE MoreEip191(req)
  BY <1>5, MoreContinues DEF MoreEip191, More, HeaderError
<1>6. CASE MoreEth(req)
  BY <1>6, MoreContinues DEF MoreEth, More, HeaderError
<1>7. CASE GetAddrEth(req)
  <2>1. ~Live'
    BY <1>7 DEF GetAddrEth, Throw, AddressReply, Live
  <2>2. UNCHANGED session /\ ExtractPath(req.path)
    BY <1>7 DEF GetAddrEth
  <2> QED
    BY <2>1, <2>2, PathWrittenClosed DEF PathInv, PathTyped
<1> QED
  BY <1>1, <1>2, <1>3, <1>4, <1>5, <1>6, <1>7 DEF Command

LEMMA InitPath == Init => PathInv
<1> SUFFICES ASSUME Init PROVE PathInv
  OBVIOUS
<1>1. session \in History
  BY EmptySeq DEF Init, NoSession, History
<1>2. hdPathEth \in [1 .. MaxPath -> PathElem] /\ hdPathEth_len \in {0} \cup MinPath .. MaxPath
  BY RequestsAssumption DEF Init, MinPath, MaxPath
<1>3. ~Live
  BY DEF Init, Live
<1> QED
  BY <1>1, <1>2, <1>3 DEF PathInv, PathTyped, PathOfSession

LEMMA StepPath == PathInv /\ [Next]_vars => PathInv'
<1> SUFFICES ASSUME PathInv, [Next]_vars PROVE PathInv'
  OBVIOUS
<1>1. CASE \E req \in Requests : Command(req)
  BY <1>1, CommandKeepsPath
<1>2. CASE Answer \/ IoReset \/ UNCHANGED vars
  <2>1. (Live' => Live) /\ UNCHANGED <<hdPathEth, hdPathEth_len, session>>
    BY <1>2 DEF Answer, IoReset, vars, code, Live
  <2> QED
    BY <2>1 DEF PathInv, PathTyped, PathOfSession, SigningPath
<1> QED
  BY <1>1, <1>2 DEF Next

-----------------------------------------------------------------------------
(* The statics, the screen and the reply; the buffer. *)
Statuses == {"none", "OK", "WRONG_LENGTH", "DATA_INVALID", "INVALIDP1P2",
             "TX_NOT_INITIALIZED", "OUTPUT_BUFFER_TOO_SMALL", "COMMAND_NOT_ALLOWED"}

StaticsTyped ==
    /\ tx_initialized \in BOOLEAN
    /\ bytes_to_read \in 0 .. U32 - 1
    /\ review \in {"idle", "address", "txn", "message", "error"}
    /\ reply \in Statuses

ContentTyped == content \in Seq(Byte) /\ Len(content) <= Capacity

EthHeld ==
    ResetOnError /\ Live /\ session.kind = "SignEth" =>
      EthPart(content, session.stream, tx_initialized)

MessageHeld ==
    ResetOnError /\ Live /\ session.kind = "SignEip191" =>
      MessagePart(content, session.stream, bytes_to_read, tx_initialized)

(* No chunk is awaited while something is on the screen. *)
OneAtATime == review # "idle" => ~tx_initialized

(* The inductive invariant. *)
SessionInv ==
    /\ PathInv /\ StaticsTyped /\ ContentTyped /\ OneAtATime
    /\ EthWhole /\ EthHeld /\ MessageHeld

(* A thrown error ends what is on the screen and, when the dispatcher resets*)
(* the session, the session.                                                *)
LEMMA ThrowTyped ==
    ASSUME StaticsTyped, NEW sw \in Statuses, NEW open \in BOOLEAN,
           NEW remaining \in 0 .. U32 - 1, Throw(sw, open, remaining)
    PROVE  /\ StaticsTyped' /\ review' = "idle"
           /\ ~(ResetOnError /\ Live')
<1>1. 0 \in 0 .. U32 - 1 /\ ResetOnError \in BOOLEAN
BY SizesAssumption
<1>2. /\ reply' \in Statuses /\ review' = "idle" /\ tx_initialized' \in BOOLEAN
      /\ bytes_to_read' \in 0 .. U32 - 1
BY <1>1 DEF Throw
<1> QED
BY <1>2 DEF Throw, StaticsTyped, Live

(* The handler asks for more.                                               *)
LEMMA ContinueTyped ==
    ASSUME StaticsTyped, NEW remaining \in 0 .. U32 - 1, Continue(remaining)
    PROVE  /\ StaticsTyped' /\ review' = "idle"
           /\ tx_initialized' = TRUE /\ bytes_to_read' = remaining
BY DEF Continue, StaticsTyped, Statuses

(* The handler has the whole.                                               *)
LEMMA CompleteTyped ==
    ASSUME StaticsTyped, NEW screen \in {"txn", "message"}, Complete(screen)
    PROVE  /\ StaticsTyped' /\ review' \in {screen, "error", "idle"}
           /\ tx_initialized' = FALSE /\ bytes_to_read' = 0
<1>1. 0 \in 0 .. U32 - 1
BY SizesAssumption
<1> QED
BY <1>1 DEF Complete, StaticsTyped, Statuses

(* A step after which no session is open and nothing is under review.       *)
LEMMA ClosedKeeps ==
    ASSUME PathInv', StaticsTyped', ContentTyped', OneAtATime', review' # "txn",
           ~(ResetOnError /\ Live')
    PROVE  SessionInv'
BY DEF SessionInv, EthWhole, EthHeld, MessageHeld

(* The empty buffer.                                                        *)
LEMMA EmptyContent ==
    ASSUME content' = << >> PROVE ContentTyped'
<1>1. << >> \in Seq(Byte) /\ Len(<< >>) = 0 /\ Capacity \in Nat
BY EmptySeq, SizesAssumption
<1> QED
BY <1>1 DEF ContentTyped

(* A command that is refused for its header.                                *)
LEMMA RefuseHeaderKeeps ==
    ASSUME SessionInv, PathInv', NEW req \in Requests, RefuseHeader(req)
    PROVE  SessionInv'
<1>1. HeaderErrorCode(req) \in Statuses
BY DEF HeaderErrorCode, Statuses
<1>2. /\ StaticsTyped' /\ review' = "idle" /\ ~(ResetOnError /\ Live')
      /\ OneAtATime'
BY <1>1, ThrowTyped DEF SessionInv, StaticsTyped, RefuseHeader, OneAtATime
<1>3. ContentTyped'
BY DEF SessionInv, ContentTyped, RefuseHeader
<1> QED
BY <1>2, <1>3, ClosedKeeps

(* Any error.                                                               *)
LEMMA ThrownKeeps ==
    ASSUME SessionInv, PathInv', ContentTyped',
           NEW sw \in Statuses, NEW open \in BOOLEAN,
           NEW remaining \in 0 .. U32 - 1, Throw(sw, open, remaining)
    PROVE  SessionInv'
BY ThrowTyped, ClosedKeeps DEF SessionInv, OneAtATime

(* What MORE finds: an open session.                                        *)
LEMMA MoreFinds ==
    ASSUME SessionInv, NEW req \in Requests, NEW ins, More(req, ins), Continued(req)
    PROVE  /\ tx_initialized /\ Live
           /\ req.ins = ins
           /\ session'.kind = (IF session.kind = req.ins THEN session.kind ELSE "mixed")
           /\ session'.stream = session.stream \o req.data
           /\ content \in Seq(Byte) /\ Len(content) <= Capacity
           /\ session.stream \in Seq(Byte)
           /\ req.data \in Seq(Byte)
           /\ bytes_to_read \in 0 .. U32 - 1 /\ StaticsTyped
<1>1. tx_initialized /\ Live /\ req.ins = ins
BY DEF More, HeaderError, Live
<1>2. session \in History
BY DEF SessionInv, PathInv, PathTyped
<1>3. /\ session'.kind = (IF session.kind = req.ins THEN session.kind ELSE "mixed")
      /\ session'.stream = session.stream \o req.data
      /\ session.stream \in Seq(Byte)
BY <1>2 DEF Continued, History
<1> QED
BY <1>1, <1>3, RequestTyped DEF SessionInv, ContentTyped, StaticsTyped

(* A message whose count is right goes on, or is complete.                  *)
LEMMA MessageGoesOn ==
    ASSUME StaticsTyped, PathInv', ContentTyped',
           session'.kind \in {"SignEip191", "mixed"},
           NEW remaining \in 0 .. U32 - 1,
           IF remaining = 0 THEN Complete("message") ELSE Continue(remaining),
           ResetOnError /\ session'.kind = "SignEip191" =>
             MessagePart(content', session'.stream, remaining, remaining # 0)
    PROVE  SessionInv'
<1>1. /\ StaticsTyped' /\ review' # "txn" /\ OneAtATime'
      /\ tx_initialized' = (remaining # 0) /\ bytes_to_read' = remaining
<2>1. CASE remaining = 0
  <3>1. Complete("message")
    BY <2>1
  <3> QED
    BY <2>1, <3>1, CompleteTyped DEF OneAtATime
<2>2. CASE remaining # 0
  <3>1. Continue(remaining)
    BY <2>2
  <3> QED
    BY <2>2, <3>1, ContinueTyped DEF OneAtATime
<2> QED
  BY <2>1, <2>2
<1> QED
BY <1>1 DEF SessionInv, EthWhole, EthHeld, MessageHeld

(* A transaction that is accounted for goes on, or is complete.             *)
LEMMA EthGoesOn ==
    ASSUME StaticsTyped, PathInv', ContentTyped',
           session'.kind \in {"SignEth", "mixed"},
           NEW last \in BOOLEAN,
           IF last THEN Complete("txn") ELSE Continue(bytes_to_read),
           last => IsWholeTx(content'),
           ResetOnError /\ session'.kind = "SignEth" =>
             EthPart(content', session'.stream, ~last)
    PROVE  SessionInv'
<1>1. /\ StaticsTyped' /\ (review' = "txn" => last) /\ OneAtATime'
      /\ tx_initialized' = ~last
<2>1. CASE last
  <3>1. Complete("txn")
    BY <2>1
  <3> QED
    BY <2>1, <3>1, CompleteTyped DEF OneAtATime
<2>2. CASE ~last
  <3>1. Continue(bytes_to_read) /\ bytes_to_read \in 0 .. U32 - 1
    BY <2>2 DEF StaticsTyped
  <3> QED
    BY <2>2, <3>1, ContinueTyped DEF OneAtATime
<2> QED
  BY <2>1, <2>2
<1> QED
BY <1>1 DEF SessionInv, EthWhole, EthHeld, MessageHeld

(* process_chunk_eip191, FIRST.                                             *)
LEMMA FirstEip191Keeps ==
    ASSUME SessionInv, PathInv', NEW req \in Requests, FirstEip191(req)
    PROVE  SessionInv'
<1> DEFINE expected == Expected(req.data)
<1>1. req.data \in Seq(Byte)
BY RequestTyped
<1>2. bytes_to_read \in 0 .. U32 - 1 /\ StaticsTyped
BY DEF SessionInv, StaticsTyped
<1>3. session'.kind = "SignEip191" /\ session'.stream = req.data
BY DEF FirstEip191, First, Started
<1>4. CASE content' = << >> /\ Throw("WRONG_LENGTH", FALSE, bytes_to_read)
BY <1>2, <1>4, EmptyContent, ThrownKeeps DEF Statuses
<1>5. CASE /\ Len(req.data) >= PrefixLen /\ content' = << >>
           /\ Throw("OUTPUT_BUFFER_TOO_SMALL", FALSE, expected)
<2>1. expected \in 0 .. U32 - 1
  <3> DEFINE y == U4BE(req.data) - (Len(req.data) - PrefixLen)
  <3>1. y \in Int /\ U32 \in Nat \ {0}
    BY <1>1, <1>5, U4BETyped, LenProperties, SizesAssumption
  <3>2. expected = y % U32
    BY DEF Expected
  <3> HIDE DEF y, expected
  <3> QED
    BY <3>1, <3>2, Modulo
<2> HIDE DEF expected
<2> QED
  BY <1>5, <2>1, EmptyContent, ThrownKeeps DEF Statuses
<1>6. CASE /\ Len(req.data) >= PrefixLen /\ Room(<< >>, req.data) /\ content' = req.data
           /\ IF expected = 0 THEN Complete("message") ELSE Continue(expected)
<2>1. /\ MessagePart(req.data, req.data, expected, expected # 0)
      /\ expected \in 0 .. U32 - 1 /\ Len(req.data) <= Capacity
  BY <1>1, <1>6, MessageFirstPart
<2>2. ContentTyped'
  BY <1>1, <1>6, <2>1 DEF ContentTyped
<2> HIDE DEF expected
<2> QED
  BY <1>2, <1>3, <1>6, <2>1, <2>2, MessageGoesOn
<1> QED
BY <1>4, <1>5, <1>6 DEF FirstEip191

(* process_chunk_eip191, MORE.                                              *)
LEMMA MoreEip191Keeps ==
    ASSUME SessionInv, PathInv', NEW req \in Requests, MoreEip191(req)
    PROVE  SessionInv'
<1> DEFINE less == (bytes_to_read - Len(req.data)) % U32
<1>1. /\ tx_initialized /\ Live /\ req.ins = "SignEip191"
      /\ session'.kind = (IF session.kind = req.ins THEN session.kind ELSE "mixed")
      /\ session'.stream = session.stream \o req.data
      /\ content \in Seq(Byte) /\ Len(content) <= Capacity
      /\ session.stream \in Seq(Byte) /\ req.data \in Seq(Byte)
      /\ bytes_to_read \in 0 .. U32 - 1 /\ StaticsTyped
BY MoreFinds DEF MoreEip191
<1>2. less \in 0 .. U32 - 1
<2> DEFINE y == bytes_to_read - Len(req.data)
<2>1. y \in Int /\ U32 \in Nat \ {0}
  BY <1>1, LenProperties, SizesAssumption
<2> HIDE DEF y
<2>2. y % U32 \in 0 .. U32 - 1
  BY <2>1, Modulo
<2> QED
  BY <2>2 DEF y
<1>3. CASE ~Room(content, req.data)
<2>1. Throw("OUTPUT_BUFFER_TOO_SMALL", TRUE, less) /\ ContentTyped'
  BY <1>3 DEF MoreEip191, SessionInv, ContentTyped
<2> HIDE DEF less
<2> QED
  BY <1>2, <2>1, ThrownKeeps DEF Statuses
<1>4. CASE Room(content, req.data)
<2>1. /\ content' = content \o req.data
      /\ IF less = 0 THEN Complete("message") ELSE Continue(less)
  BY <1>4 DEF MoreEip191
<2>2. ContentTyped'
  BY <1>1, <1>4, <2>1, Appended DEF ContentTyped, Room
<2>3. ASSUME ResetOnError, session'.kind = "SignEip191"
      PROVE  MessagePart(content', session'.stream, less, less # 0)
  <3>1. session.kind = "SignEip191"
    BY <1>1, <2>3
  <3>2. MessagePart(content, session.stream, bytes_to_read, TRUE)
    BY <1>1, <2>3, <3>1 DEF SessionInv, MessageHeld
  <3>3. MessagePart(content \o req.data, session.stream \o req.data, less, less # 0)
    <4>1. /\ content \in Seq(Byte) /\ req.data \in Seq(Byte)
          /\ bytes_to_read \in 0 .. U32 - 1 /\ Room(content, req.data)
      BY <1>1, <1>4
    <4>2. MessagePart(content \o req.data, session.stream \o req.data,
                      Lowered(bytes_to_read, req.data), Lowered(bytes_to_read, req.data) # 0)
      BY <3>2, <4>1, MessageMorePart
    <4> QED
      BY <4>2 DEF Lowered
  <3> QED
    BY <1>1, <2>1, <3>3
<2>4. session'.kind \in {"SignEip191", "mixed"}
  BY <1>1
<2> HIDE DEF less
<2> QED
  BY <1>1, <1>2, <2>1, <2>2, <2>3, <2>4, MessageGoesOn
<1> QED
BY <1>3, <1>4

(* process_chunk_eth, FIRST.                                                *)
LEMMA FirstEthKeeps ==
    ASSUME SessionInv, PathInv', NEW req \in Requests, FirstEth(req)
    PROVE  SessionInv'
<1> DEFINE rlp   == get_tx_rlp_len(req.data)
           whole == saturating_add(rlp.read, rlp.to_read)
           kept  == Taken(req.data, whole)
<1>1. req.data \in Seq(Byte)
BY RequestTyped
<1>2. bytes_to_read \in 0 .. U32 - 1 /\ StaticsTyped
BY DEF SessionInv, StaticsTyped
<1>3. session'.kind = "SignEth" /\ session'.stream = req.data
BY DEF FirstEth, First, Started
<1>4. CASE content' = << >> /\ Throw("DATA_INVALID", FALSE, bytes_to_read)
BY <1>2, <1>4, EmptyContent, ThrownKeeps DEF Statuses
<1>5. CASE content' = << >> /\ Throw("OUTPUT_BUFFER_TOO_SMALL", FALSE, bytes_to_read)
BY <1>2, <1>5, EmptyContent, ThrownKeeps DEF Statuses
<1>6. CASE /\ rlp.ok /\ Room(<< >>, kept) /\ content' = kept
           /\ IF whole = Len(req.data) THEN Complete("txn") ELSE Continue(bytes_to_read)
<2>1. /\ EthPart(kept, req.data, whole # Len(req.data))
      /\ whole = Len(req.data) => IsWholeTx(kept)
      /\ kept \in Seq(Byte) /\ Len(kept) <= Capacity
  BY <1>1, <1>6, EthFirstPart
<2>2. ContentTyped'
  BY <1>6, <2>1 DEF ContentTyped
<2> DEFINE last == whole = Len(req.data)
<2>3. /\ last \in BOOLEAN
      /\ IF last THEN Complete("txn") ELSE Continue(bytes_to_read)
      /\ last => IsWholeTx(content')
      /\ EthPart(content', session'.stream, ~last)
  BY <1>3, <1>6, <2>1
<2> HIDE DEF last
<2> QED
  BY <1>2, <1>3, <2>2, <2>3, EthGoesOn
<1> QED
BY <1>4, <1>5, <1>6 DEF FirstEth

(* process_chunk_eth, MORE: the header is read again from the buffer, which *)
(* a mixed session may have filled.                                         *)
LEMMA MoreEthKeeps ==
    ASSUME SessionInv, PathInv', NEW req \in Requests, MoreEth(req)
    PROVE  SessionInv'
<1> DEFINE rlp     == get_tx_rlp_len(content)
           missing == Missing(rlp, content)
           kept    == Taken(req.data, missing)
<1>1. /\ tx_initialized /\ Live /\ req.ins = "SignEth"
      /\ session'.kind = (IF session.kind = req.ins THEN session.kind ELSE "mixed")
      /\ session'.stream = session.stream \o req.data
      /\ content \in Seq(Byte) /\ Len(content) <= Capacity
      /\ session.stream \in Seq(Byte) /\ req.data \in Seq(Byte)
      /\ bytes_to_read \in 0 .. U32 - 1 /\ StaticsTyped
BY MoreFinds DEF MoreEth
<1>2. CASE UNCHANGED content /\ Throw("DATA_INVALID", TRUE, bytes_to_read)
<2>1. ContentTyped'
  BY <1>2 DEF SessionInv, ContentTyped
<2> QED
  BY <1>1, <1>2, <2>1, ThrownKeeps DEF Statuses
<1>3. CASE UNCHANGED content /\ Throw("OUTPUT_BUFFER_TOO_SMALL", TRUE, bytes_to_read)
<2>1. ContentTyped'
  BY <1>3 DEF SessionInv, ContentTyped
<2> QED
  BY <1>1, <1>3, <2>1, ThrownKeeps DEF Statuses
<1>4. CASE /\ rlp.ok /\ Room(content, kept) /\ content' = content \o kept
           /\ IF missing = Len(req.data) THEN Complete("txn") ELSE Continue(bytes_to_read)
<2>1. /\ missing = Len(req.data) => IsWholeTx(content \o kept)
      /\ content \o kept \in Seq(Byte) /\ Len(content \o kept) <= Capacity
  BY <1>1, <1>4, EthMoreWhole
<2>2. ContentTyped'
  BY <1>4, <2>1 DEF ContentTyped
<2>3. ASSUME ResetOnError, session'.kind = "SignEth"
      PROVE  EthPart(content', session'.stream, missing # Len(req.data))
  <3>1. session.kind = "SignEth"
    BY <1>1, <2>3
  <3>2. EthPart(content, session.stream, TRUE)
    BY <1>1, <2>3, <3>1 DEF SessionInv, EthHeld
  <3>3. EthPart(content \o kept, session.stream \o req.data, missing # Len(req.data))
    BY <1>1, <3>2, EthMorePart
  <3> QED
    BY <1>1, <1>4, <3>3
<2> DEFINE last == missing = Len(req.data)
<2>4. /\ last \in BOOLEAN
      /\ IF last THEN Complete("txn") ELSE Continue(bytes_to_read)
      /\ last => IsWholeTx(content')
      /\ ResetOnError /\ session'.kind = "SignEth" =>
           EthPart(content', session'.stream, ~last)
  BY <1>4, <2>1, <2>3
<2>5. session'.kind \in {"SignEth", "mixed"}
  BY <1>1
<2> HIDE DEF last
<2> QED
  BY <1>1, <2>2, <2>4, <2>5, EthGoesOn
<1> QED
BY <1>2, <1>3, <1>4 DEF MoreEth

(* A FIRST command whose path is refused.                                   *)
LEMMA RefusePathKeeps ==
    ASSUME SessionInv, PathInv', NEW req \in Requests, RefusePath(req)
    PROVE  SessionInv'
<1>1. PathError(req.path) \in Statuses
BY DEF PathError, Statuses
<1>2. /\ content' = << >> /\ Throw(PathError(req.path), FALSE, bytes_to_read)
      /\ bytes_to_read \in 0 .. U32 - 1
BY DEF RefusePath, SessionInv, StaticsTyped
<1> QED
BY <1>1, <1>2, EmptyContent, ThrownKeeps

(* An address command.                                                      *)
LEMMA GetAddrEthKeeps ==
    ASSUME SessionInv, PathInv', NEW req \in Requests, GetAddrEth(req)
    PROVE  SessionInv'
<1>1. PathError(req.path) \in Statuses
BY DEF PathError, Statuses
<1>2. bytes_to_read \in 0 .. U32 - 1 /\ StaticsTyped
BY DEF SessionInv, StaticsTyped
<1>3. ContentTyped'
BY DEF GetAddrEth, SessionInv, ContentTyped
<1>4. CASE \E sw \in Statuses : Throw(sw, FALSE, bytes_to_read)
BY <1>2, <1>3, <1>4, ThrownKeeps
<1>5. CASE AddressReply(req)
<2>1. StaticsTyped' /\ review' # "txn" /\ ~Live' /\ OneAtATime'
  BY <1>2, <1>5 DEF AddressReply, OneAtATime, StaticsTyped, Statuses, Live
<2> QED
  BY <1>3, <2>1, ClosedKeeps
<1> QED
BY <1>1, <1>4, <1>5 DEF GetAddrEth, Statuses

(* The user's answer, the reset of the dispatcher, and the steps of others. *)
LEMMA AnswerKeeps ==
    ASSUME SessionInv, PathInv', Answer \/ IoReset \/ UNCHANGED vars
    PROVE  SessionInv'
<1>1. /\ UNCHANGED <<tx_initialized, bytes_to_read, content, session>>
      /\ (Live' => Live)
      /\ (review' = "txn" => review = "txn")
BY DEF Answer, IoReset, vars, code, Live
<1>2. StaticsTyped' /\ OneAtATime'
BY DEF OneAtATime, Answer, IoReset, vars, code, SessionInv, StaticsTyped, Statuses
<1> QED
BY <1>1, <1>2 DEF SessionInv, ContentTyped, EthWhole, EthHeld, MessageHeld

-----------------------------------------------------------------------------
(* The inductive invariant holds at the start,                             *)
LEMMA InitSession == Init => SessionInv
<1> SUFFICES ASSUME Init PROVE SessionInv
  OBVIOUS
<1>1. PathInv
  BY InitPath
<1>2. StaticsTyped /\ ContentTyped
  <2>1. 0 \in 0 .. U32 - 1 /\ << >> \in Seq(Byte) /\ Len(<< >>) = 0 /\ 0 <= Capacity
    BY SizesAssumption, EmptySeq
  <2> QED
    BY <2>1 DEF Init, StaticsTyped, ContentTyped, Statuses
<1>3. ~Live /\ review # "txn"
  BY DEF Init, Live
<1>4. OneAtATime
  BY DEF Init, OneAtATime
<1> QED
  BY <1>1, <1>2, <1>3, <1>4 DEF SessionInv, EthWhole, EthHeld, MessageHeld

(* and every step keeps it.                                                *)
LEMMA StepSession == SessionInv /\ [Next]_vars => SessionInv'
<1> SUFFICES ASSUME SessionInv, [Next]_vars PROVE SessionInv'
  OBVIOUS
<1>1. PathInv'
  BY StepPath DEF SessionInv
<1>2. CASE \E req \in Requests : Command(req)
  <2>1. PICK req \in Requests : Command(req)
    BY <1>2
  <2> QED
    BY <1>1, <2>1, RefuseHeaderKeeps, RefusePathKeeps, FirstEip191Keeps, MoreEip191Keeps,
       FirstEthKeeps, MoreEthKeeps, GetAddrEthKeeps DEF Command
<1>3. CASE Answer \/ IoReset \/ UNCHANGED vars
  BY <1>1, <1>3, AnswerKeeps
<1> QED
  BY <1>2, <1>3 DEF Next

(* The statics, the buffer and the shared path stay within their types: in  *)
(* particular the count of an EIP-191 message, which is computed without a  *)
(* check, is always a uint32_t, and the buffer never holds more than fits.  *)
THEOREM TypeCorrect == Spec => []TypeOK
<1>1. SessionInv => TypeOK
  <2> SUFFICES ASSUME SessionInv PROVE TypeOK
    OBVIOUS
  <2>1. /\ session.kind \in {"none", "SignEth", "SignEip191", "mixed"}
        /\ session.stream \in Seq(Byte)
    BY DEF SessionInv, PathInv, PathTyped, History
  <2> QED
    BY <2>1 DEF SessionInv, PathInv, PathTyped, StaticsTyped, ContentTyped, Statuses, TypeOK
<1> QED
  BY <1>1, InitSession, StepSession, PTL DEF Spec

(* Whatever chunks the host sends, and to whichever handler: the content of *)
(* the buffer that goes under review as a transaction is one whole          *)
(* transaction, no byte short and no byte over.                             *)
THEOREM WholeTransaction == Spec => []EthWhole
<1>1. SessionInv => EthWhole
  BY DEF SessionInv
<1> QED
  BY <1>1, InitSession, StepSession, PTL DEF Spec

(* When the dispatcher closes the session on an error, a message goes under *)
(* review exactly when it is whole, provided its chunks all went to the     *)
(* EIP-191 handler: the count modulo 2^32 reaches 0 neither early nor late. *)
THEOREM WholeMessage ==
    ASSUME ResetOnError
    PROVE  Spec => []Eip191Whole
<1>1. SessionInv => Eip191Whole
  <2> SUFFICES ASSUME SessionInv, review = "message", session.kind = "SignEip191"
               PROVE  IsWholeMessage(content)
    BY DEF Eip191Whole
  <2>1. /\ MessagePart(content, session.stream, bytes_to_read, tx_initialized)
        /\ content \in Seq(Byte) /\ Len(content) <= Capacity
        /\ bytes_to_read \in 0 .. U32 - 1 /\ tx_initialized \in BOOLEAN
    BY DEF SessionInv, MessageHeld, ContentTyped, StaticsTyped, Live
  <2>2. ~tx_initialized
    BY DEF SessionInv, OneAtATime
  <2> QED
    BY <2>1, <2>2, MessagePartAccounts
<1> QED
  BY <1>1, InitSession, StepSession, PTL DEF Spec

(* Under the same proviso no byte of an unmixed session is lost, counted    *)
(* twice or waited for in vain, however the host cuts it into chunks.       *)
THEOREM AllBytesAccounted ==
    ASSUME ResetOnError
    PROVE  Spec => []BytesAccounted
<1>1. SessionInv => BytesAccounted
  <2> SUFFICES ASSUME SessionInv PROVE BytesAccounted
    OBVIOUS
  <2>1. /\ content \in Seq(Byte) /\ Len(content) <= Capacity /\ session.stream \in Seq(Byte)
        /\ bytes_to_read \in 0 .. U32 - 1 /\ tx_initialized \in BOOLEAN
    BY DEF SessionInv, PathInv, PathTyped, History, ContentTyped, StaticsTyped
  <2>2. ASSUME Live, session.kind = "SignEth"
        PROVE  /\ IsPrefix(content, session.stream)
               /\ tx_initialized => ~IsWholeTx(session.stream)
    <3>1. EthPart(content, session.stream, tx_initialized)
      BY <2>2 DEF SessionInv, EthHeld
    <3> QED
      BY <2>1, <3>1, EthPartAccounts
  <2>3. ASSUME Live, session.kind = "SignEip191"
        PROVE  /\ content = session.stream
               /\ Len(content) >= PrefixLen
               /\ (bytes_to_read + Len(content) - PrefixLen) % U32 = U4BE(content)
               /\ tx_initialized => ~IsWholeMessage(session.stream)
    <3>1. MessagePart(content, session.stream, bytes_to_read, tx_initialized)
      BY <2>3 DEF SessionInv, MessageHeld
    <3>2. IsWholeMessage(content) <=> ~tx_initialized
      BY <2>1, <3>1, MessagePartAccounts
    <3> QED
      BY <3>1, <3>2 DEF MessagePart
  <2>4. tx_initialized => Live
    BY DEF Live
  <2> QED
    BY <2>2, <2>3, <2>4 DEF BytesAccounted, NoHole, Countdown, NotOverdue
<1> QED
  BY <1>1, InitSession, StepSession, PTL DEF Spec

(* What is reviewed and signed uses the path that came with its own FIRST   *)
(* command, whatever addresses are asked for and whatever chunks are        *)
(* refused in between.                                                      *)
THEOREM PathKept == Spec => []PathOfSession
<1>1. PathInv => PathOfSession
  BY DEF PathInv
<1> QED
  BY <1>1, InitPath, StepPath, PTL DEF Spec

-----------------------------------------------------------------------------
(* The buffer that holds what the sessions send: for every choice of the   *)
(* sizes and chunks, its two areas are one buffer.  The inductive          *)
(* invariant is BufferInv: the type invariant, the bounds, the exclusive   *)
(* use of the two areas, and that an area is always in use once            *)
(* buffering_init has run (without it an append before the call could      *)
(* leave bytes in an area that is not in use).  From BufferInv, and from a *)
(* flash area that covers the RAM area, follows that the two areas         *)
(* implement one buffer.                                                   *)

(* Appending a chunk to an area that has room for it keeps it an area of   *)
(* the same size within its bounds (the copy of buffering.c:51 and :67).   *)
LEMMA Stored ==
    ASSUME NEW area \in BufferState, NEW chunk \in Seq(BufferByte),
           Len(area.data) <= area.size, Fits(area, chunk)
    PROVE  LET new == [area EXCEPT !.data = @ \o chunk]
           IN  /\ new \in BufferState
               /\ new.size = area.size
               /\ new.in_use = area.in_use
               /\ new.data = area.data \o chunk
               /\ Len(new.data) = Len(area.data) + Len(chunk)
               /\ Len(new.data) <= new.size
  <1>1. /\ area.data \in Seq(BufferByte)
        /\ area.size \in Nat
        /\ area.in_use \in BOOLEAN
        /\ Len(area.data) \in Nat
        /\ Len(chunk) \in Nat
    BY LenProperties DEF BufferState
  <1>2. /\ area.data \o chunk \in Seq(BufferByte)
        /\ Len(area.data \o chunk) = Len(area.data) + Len(chunk)
    BY <1>1, ConcatProperties
  <1>3. Len(area.data) + Len(chunk) <= area.size
    BY <1>1 DEF Fits
  <1> QED
    BY <1>1, <1>2, <1>3 DEF BufferState

(* The flash branch of buffering_append (buffering.c:66-71) keeps a flash  *)
(* area within its bounds, whether or not the chunk fits.                  *)
LEMMA FlashAppendProperties ==
    ASSUME NEW area \in BufferState, NEW chunk \in Seq(BufferByte),
           Len(area.data) <= area.size
    PROVE  /\ FlashAppend(area, chunk) \in BufferState
           /\ FlashAppend(area, chunk).size = area.size
           /\ FlashAppend(area, chunk).in_use = area.in_use
           /\ Len(FlashAppend(area, chunk).data) <= area.size
           /\ FlashReturn(area, chunk) \in Nat
  <1>1. Len(chunk) \in Nat
    BY LenProperties
  <1>2. CASE Fits(area, chunk)
    BY <1>1, <1>2, Stored DEF FlashAppend, FlashReturn
  <1>3. CASE ~Fits(area, chunk)
    BY <1>3 DEF FlashAppend, FlashReturn
  <1> QED
    BY <1>2, <1>3

(* The area the RAM bytes are moved to.                                    *)
LEMMA MovedProperties ==
    ASSUME BufferInv, ram.in_use
    PROVE  /\ MovedToFlash \in BufferState
           /\ MovedToFlash.size = flash.size
           /\ MovedToFlash.in_use
           /\ Len(MovedToFlash.data) <= MovedToFlash.size
  <1> DEFINE opened == [flash EXCEPT !.in_use = TRUE]
  <1>1. /\ opened \in BufferState
        /\ opened.size = flash.size
        /\ opened.in_use = TRUE
        /\ opened.data = flash.data
    BY DEF BufferInv, BufferTypeOK, BufferState
  <1>2. ram.data \in Seq(BufferByte)
    BY DEF BufferInv, BufferTypeOK, BufferState
  <1>3. Len(opened.data) <= opened.size
    BY <1>1 DEF BufferInv, WithinBounds
  <1>4. MovedToFlash = FlashAppend(opened, ram.data)
    BY DEF MovedToFlash
  <1> HIDE DEF opened
  <1> QED
    BY <1>1, <1>2, <1>3, <1>4, FlashAppendProperties

LEMMA EmptyProperties ==
    ASSUME NEW size \in Nat
    PROVE  /\ Opened(size) \in BufferState /\ Closed(size) \in BufferState
           /\ Opened(size).size = size /\ Closed(size).size = size
           /\ Opened(size).in_use /\ ~Closed(size).in_use
           /\ Opened(size).data = << >> /\ Closed(size).data = << >>
           /\ Len(Opened(size).data) = 0 /\ Len(Closed(size).data) = 0
  BY EmptySeq DEF Opened, Closed, BufferState

LEMMA InitBuffer == BufferInit => BufferInv
  BY EmptyProperties DEF BufferInit, BufferInv, BufferTypeOK, WithinBounds, OneActive, Unconfigured

LEMMA StepBuffer == BufferInv /\ [BufferNext]_bufferVars => BufferInv'
  <1> SUFFICES ASSUME BufferInv, [BufferNext]_bufferVars
               PROVE  BufferInv'
    OBVIOUS
  <1>0. /\ ram \in BufferState /\ flash \in BufferState /\ ret \in Nat
        /\ ram.size \in Nat /\ flash.size \in Nat
        /\ ram.in_use \in BOOLEAN /\ flash.in_use \in BOOLEAN
        /\ ram.data \in Seq(BufferByte) /\ flash.data \in Seq(BufferByte)
    BY DEF BufferInv, BufferTypeOK, BufferState
  <1>1. ASSUME NEW c \in Configs, buffering_init(c[1], c[2])
        PROVE  BufferInv'
    <2>1. c[1] \in Nat /\ c[2] \in Nat
      BY ConfigsAssumption
    <2> QED
      BY <1>0, <1>1, <2>1, EmptyProperties
      DEF buffering_init, BufferInv, BufferTypeOK, WithinBounds, OneActive, Unconfigured
  <1>2. CASE buffering_reset
    BY <1>0, <1>2, EmptyProperties
    DEF buffering_reset, BufferInv, BufferTypeOK, WithinBounds, OneActive, Unconfigured
  <1>3. ASSUME NEW chunk \in Chunks, buffering_append(chunk)
        PROVE  BufferInv'
    <2>1. chunk \in Seq(BufferByte) /\ Len(chunk) \in Nat
      BY ChunksAssumption, LenProperties
    <2>2. CASE AppendToRam(chunk)
      <3>1. /\ ram' \in BufferState
            /\ ram'.in_use = ram.in_use
            /\ Len(ram'.data) <= ram'.size
        BY <1>0, <2>1, <2>2, Stored DEF AppendToRam, BufferInv, WithinBounds
      <3> QED
        BY <1>0, <2>1, <2>2, <3>1 DEF AppendToRam, BufferInv, BufferTypeOK, WithinBounds, OneActive, Unconfigured
    <2>3. CASE SpillToFlash(chunk)
      <3>1. /\ MovedToFlash \in BufferState
            /\ MovedToFlash.in_use
            /\ Len(MovedToFlash.data) <= MovedToFlash.size
        BY <2>3, MovedProperties DEF SpillToFlash
      <3>2. /\ flash' \in BufferState
            /\ flash'.in_use
            /\ Len(flash'.data) <= flash'.size
            /\ ret' \in Nat
        BY <2>1, <2>3, <3>1, FlashAppendProperties DEF SpillToFlash
      <3> QED
        BY <1>0, <2>3, <3>2, EmptyProperties
        DEF SpillToFlash, BufferInv, BufferTypeOK, WithinBounds, OneActive, Unconfigured
    <2>4. CASE AppendToFlash(chunk)
      <3>1. /\ flash' \in BufferState
            /\ flash'.size = flash.size
            /\ flash'.in_use = flash.in_use
            /\ Len(flash'.data) <= flash'.size
            /\ ret' \in Nat
        BY <1>0, <2>1, <2>4, FlashAppendProperties DEF AppendToFlash, BufferInv, WithinBounds
      <3>2. ~flash.in_use => flash'.data = << >>
        <4> SUFFICES ASSUME ~flash.in_use
                     PROVE  flash'.data = << >>
          OBVIOUS
        <4>1. flash.data = << >> /\ flash.size = 0
          BY <2>4 DEF AppendToFlash, BufferInv, OneActive, Unconfigured
        <4>2. CASE Fits(flash, chunk)
          <5>1. Len(chunk) = 0
            BY <2>1, <4>1, <4>2, EmptySeq DEF Fits
          <5>2. chunk = << >>
            BY <2>1, <5>1, EmptySeq
          <5> QED
            BY <1>0, <2>4, <4>1, <4>2, <5>2, ConcatEmptySeq
            DEF AppendToFlash, FlashAppend, BufferState
        <4>3. CASE ~Fits(flash, chunk)
          BY <2>4, <4>1, <4>3 DEF AppendToFlash, FlashAppend
        <4> QED
          BY <4>2, <4>3
      <3> QED
        BY <1>0, <2>4, <3>1, <3>2
        DEF AppendToFlash, BufferInv, BufferTypeOK, WithinBounds, OneActive, Unconfigured
    <2> QED
      BY <1>3, <2>2, <2>3, <2>4 DEF buffering_append
  <1>4. CASE UNCHANGED bufferVars
    BY <1>4 DEF bufferVars, BufferInv, BufferTypeOK, WithinBounds, OneActive, Unconfigured
  <1> QED
    BY <1>1, <1>2, <1>3, <1>4 DEF BufferNext

LEMMA BufferInvariance == BufferSpec => []BufferInv
  BY InitBuffer, StepBuffer, PTL DEF BufferSpec

(* Whatever buffer sizes and chunks the callers of src/buffering.c use, and *)
(* whatever the order of their calls, the state stays well typed.           *)
THEOREM BufferTypeCorrect == BufferSpec => []BufferTypeOK
  <1>1. BufferInv => BufferTypeOK
    BY DEF BufferInv
  <1> QED
    BY BufferInvariance, <1>1, PTL

(* No order of calls makes a position pass the size of its area, whatever  *)
(* the sizes: no write of buffering_append leaves its area.                *)
THEOREM BoundsRespected == BufferSpec => []WithinBounds
  <1>1. BufferInv => WithinBounds
    BY DEF BufferInv
  <1> QED
    BY BufferInvariance, <1>1, PTL

(* The two areas are never both in use, and an unused one is empty.        *)
THEOREM ExclusiveAreas == BufferSpec => []OneActive
  <1>1. BufferInv => OneActive
    BY DEF BufferInv
  <1> QED
    BY BufferInvariance, <1>1, PTL

-----------------------------------------------------------------------------
(* The refinement needs one more invariant: the flash area in force is at  *)
(* least as large as the RAM area in force (both are 0 at first).          *)
Covered == flash.size >= ram.size

LEMMA CoveredInvariance == FlashCoversRam => (BufferSpec => []Covered)
  <1> SUFFICES ASSUME FlashCoversRam
               PROVE  BufferSpec => []Covered
    OBVIOUS
  <1>1. BufferInit => Covered
    BY EmptyProperties DEF BufferInit, Covered
  <1>2. BufferInv /\ Covered /\ [BufferNext]_bufferVars => Covered'
    <2> SUFFICES ASSUME BufferInv, Covered, [BufferNext]_bufferVars
                 PROVE  Covered'
      OBVIOUS
    <2>0. /\ ram \in BufferState /\ flash \in BufferState
          /\ ram.size \in Nat /\ flash.size \in Nat
      BY DEF BufferInv, BufferTypeOK, BufferState
    <2>1. ASSUME NEW c \in Configs, buffering_init(c[1], c[2])
          PROVE  Covered'
      <3>1. c[1] \in Nat /\ c[2] \in Nat /\ c[2] >= c[1]
        BY ConfigsAssumption DEF FlashCoversRam
      <3> QED
        BY <2>1, <3>1, EmptyProperties DEF buffering_init, Covered
    <2>2. CASE buffering_reset
      BY <2>0, <2>2, EmptyProperties DEF buffering_reset, Covered
    <2>3. ASSUME NEW chunk \in Chunks, buffering_append(chunk)
          PROVE  Covered'
      <3>1. chunk \in Seq(BufferByte)
        BY ChunksAssumption
      <3>2. CASE AppendToRam(chunk)
        BY <2>0, <3>2 DEF AppendToRam, Covered, BufferState
      <3>3. CASE SpillToFlash(chunk)
        <4>1. flash'.size = flash.size
          BY <3>1, <3>3, MovedProperties, FlashAppendProperties DEF SpillToFlash
        <4> QED
          BY <2>0, <3>3, <4>1, EmptyProperties DEF SpillToFlash, Covered
      <3>4. CASE AppendToFlash(chunk)
        <4>1. flash'.size = flash.size
          BY <2>0, <3>1, <3>4, FlashAppendProperties DEF AppendToFlash, BufferInv, WithinBounds
        <4> QED
          BY <3>4, <4>1 DEF AppendToFlash, Covered
      <3> QED
        BY <2>3, <3>2, <3>3, <3>4 DEF buffering_append
    <2>4. CASE UNCHANGED bufferVars
      BY <2>4 DEF bufferVars, Covered
    <2> QED
      BY <2>1, <2>2, <2>3, <2>4 DEF BufferNext
  <1> QED
    BY <1>1, <1>2, BufferInvariance, PTL DEF BufferSpec

(* One append against the abstract buffer: it is accepted exactly when the *)
(* whole content fits the flash area, also when that takes a move from RAM *)
(* to flash in the middle.                                                 *)
LEMMA AppendRefines ==
    ASSUME BufferInv, Covered, NEW chunk \in Chunks, buffering_append(chunk)
    PROVE  OneBufferSpec!Accept(chunk) \/ OneBufferSpec!Refuse(chunk)
  <1>0. /\ ram.size \in Nat /\ flash.size \in Nat
        /\ ram \in BufferState /\ flash \in BufferState
        /\ ram.data \in Seq(BufferByte) /\ flash.data \in Seq(BufferByte)
        /\ Len(ram.data) \in Nat /\ Len(flash.data) \in Nat
    BY LenProperties DEF BufferInv, BufferTypeOK, BufferState
  <1>1. chunk \in Seq(BufferByte) /\ Len(chunk) \in Nat
    BY ChunksAssumption, LenProperties
  <1>2. CASE AppendToRam(chunk)
    <2>1. /\ ram'.data = ram.data \o chunk
          /\ ram'.in_use = ram.in_use
      BY <1>0, <1>1, <1>2, Stored DEF AppendToRam, BufferInv, WithinBounds
    <2>2. Len(ram.data) + Len(chunk) <= ram.size
      BY <1>0, <1>1, <1>2 DEF AppendToRam, Fits
    <2>3. Content = ram.data /\ Content' = ram.data \o chunk
      BY <1>2, <2>1 DEF AppendToRam, Content, buffering_get_buffer
    <2>4. Len(Content) + Len(chunk) <= flash.size
      BY <1>0, <1>1, <2>2, <2>3 DEF Covered
    <2> QED
      BY <1>2, <2>3, <2>4 DEF AppendToRam, OneBufferSpec!Accept
  <1>3. CASE SpillToFlash(chunk)
    <2> DEFINE opened == [flash EXCEPT !.in_use = TRUE]
    <2>1. /\ opened \in BufferState
          /\ opened.size = flash.size
          /\ opened.data = << >>
      BY <1>0, <1>3 DEF SpillToFlash, BufferInv, OneActive, BufferState
    <2>2. Fits(opened, ram.data)
      BY <1>0, <2>1, EmptySeq DEF Fits, Covered, BufferInv, WithinBounds
    <2>3. MovedToFlash = [opened EXCEPT !.data = @ \o ram.data]
      BY <2>2 DEF MovedToFlash, FlashAppend
    <2>4. /\ MovedToFlash \in BufferState
          /\ MovedToFlash.size = flash.size
          /\ MovedToFlash.data = ram.data
      BY <1>0, <2>1, <2>3, ConcatEmptySeq DEF BufferState
    <2> HIDE DEF opened
    <2>5. Content = ram.data
      BY <1>3 DEF SpillToFlash, Content, buffering_get_buffer
    <2>6. Content' = flash'.data
      BY <1>0, <1>3, EmptyProperties DEF SpillToFlash, Content, buffering_get_buffer
    <2>7. CASE Fits(MovedToFlash, chunk)
      <3>1. /\ flash'.data = ram.data \o chunk
            /\ flash'.size = flash.size
            /\ ret' = Len(chunk)
        BY <1>3, <2>4, <2>7 DEF SpillToFlash, FlashAppend, FlashReturn, BufferState
      <3>2. Len(ram.data) + Len(chunk) <= flash.size
        BY <1>0, <1>1, <2>4, <2>7 DEF Fits
      <3> QED
        BY <2>5, <2>6, <3>1, <3>2 DEF OneBufferSpec!Accept
    <2>8. CASE ~Fits(MovedToFlash, chunk)
      <3>1. /\ flash' = MovedToFlash
            /\ ret' = 0
        BY <1>3, <2>8 DEF SpillToFlash, FlashAppend, FlashReturn
      <3>2. Len(ram.data) + Len(chunk) > flash.size
        BY <1>0, <1>1, <2>4, <2>8 DEF Fits
      <3> QED
        BY <2>4, <2>5, <2>6, <3>1, <3>2 DEF OneBufferSpec!Refuse
    <2> QED
      BY <2>7, <2>8
  <1>4. CASE AppendToFlash(chunk)
    <2>1. Content = flash.data /\ Content' = flash'.data
      BY <1>4 DEF AppendToFlash, Content, buffering_get_buffer
    <2>2. CASE Fits(flash, chunk)
      <3>1. /\ flash'.data = flash.data \o chunk
            /\ flash'.size = flash.size
            /\ ret' = Len(chunk)
        BY <1>0, <1>4, <2>2 DEF AppendToFlash, FlashAppend, FlashReturn, BufferState
      <3>2. Len(flash.data) + Len(chunk) <= flash.size
        BY <1>0, <1>1, <2>2 DEF Fits
      <3> QED
        BY <2>1, <3>1, <3>2 DEF OneBufferSpec!Accept
    <2>3. CASE ~Fits(flash, chunk)
      <3>1. flash' = flash /\ ret' = 0
        BY <1>4, <2>3 DEF AppendToFlash, FlashAppend, FlashReturn
      <3>2. Len(flash.data) + Len(chunk) > flash.size
        BY <1>0, <1>1, <2>3 DEF Fits
      <3> QED
        BY <2>1, <3>1, <3>2 DEF OneBufferSpec!Refuse
    <2> QED
      BY <2>2, <2>3
  <1> QED
    BY <1>2, <1>3, <1>4 DEF buffering_append

(* With flash areas that cover the RAM areas, src/buffering.c implements   *)
(* one buffer of the flash capacity: no sequence of calls makes the move   *)
(* to flash visible in the content, in a refusal or in a return value.     *)
THEOREM OneBuffer == FlashCoversRam => (BufferSpec => ImplementsOneBuffer)
  <1> SUFFICES ASSUME FlashCoversRam
               PROVE  BufferSpec => ImplementsOneBuffer
    OBVIOUS
  <1>1. BufferInit => OneBufferSpec!AbsInit
    BY EmptyProperties DEF BufferInit, OneBufferSpec!AbsInit, Content, buffering_get_buffer
  <1>2. BufferInv /\ Covered /\ [BufferNext]_bufferVars => [OneBufferSpec!AbsNext]_(OneBufferSpec!absVars)
    <2> SUFFICES ASSUME BufferInv, Covered, [BufferNext]_bufferVars
                 PROVE  [OneBufferSpec!AbsNext]_(OneBufferSpec!absVars)
      OBVIOUS
    <2>1. ASSUME NEW c \in Configs, buffering_init(c[1], c[2])
          PROVE  OneBufferSpec!Configure
      <3>1. c[1] \in Nat /\ c[2] \in Nat
        BY ConfigsAssumption
      <3> QED
        BY <2>1, <3>1, EmptyProperties
        DEF buffering_init, OneBufferSpec!Configure, Content, buffering_get_buffer
    <2>2. ASSUME buffering_reset
          PROVE  OneBufferSpec!Clear
      <3>1. ram.size \in Nat /\ flash.size \in Nat
        BY DEF BufferInv, BufferTypeOK, BufferState
      <3> QED
        BY <2>2, <3>1, EmptyProperties
        DEF buffering_reset, OneBufferSpec!Clear, Content, buffering_get_buffer
    <2>3. CASE UNCHANGED bufferVars
      BY <2>3 DEF bufferVars, OneBufferSpec!absVars, Content, buffering_get_buffer
    <2> QED
      BY <2>1, <2>2, <2>3, AppendRefines DEF BufferNext, OneBufferSpec!AbsNext
  <1> QED
    BY <1>1, <1>2, BufferInvariance, CoveredInvariance, PTL
    DEF BufferSpec, ImplementsOneBuffer, OneBufferSpec!AbsSpec

=============================================================================
