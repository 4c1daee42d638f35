-------------------------- MODULE EvmSigningProofs --------------------------
(***************************************************************************)
(* Theorems about EvmTx and EvmKeys, for all requests, networks, tokens    *)
(* and signatures: what is reviewed is the request, field by field; what   *)
(* is shown as a transfer is one; and the host gets v, r and s of the      *)
(* signature, and never a part of a key or of an unfinished answer.        *)
(***************************************************************************)
EXTENDS EvmTx, EvmKeys, SequenceTheorems, WellFoundedInduction, TLAPS

-----------------------------------------------------------------------------
(* Induction up to a bound.                                                *)

Smaller == {p \in Nat \X Nat : p[1] < p[2]}

(* The order of the naturals as a relation; every set of naturals has a    *)
(* least element for it.                                                   *)
LEMMA SmallerIsWellFounded == IsWellFoundedOn(Smaller, Nat)
BY NatLessThanWellFounded, SMT DEF Smaller, OpToRel

(* What holds before the first turn, and after a turn if it held before    *)
(* it, holds after all of them.                                            *)
LEMMA TurnByTurn ==
    ASSUME NEW N \in Nat, NEW T, 0 \in T, \A k \in 1 .. N : k - 1 \in T => k \in T
    PROVE  \A k \in 0 .. N : k \in T
<1> DEFINE U == {k \in Nat : k <= N /\ k \notin T}
<1>1. SUFFICES ASSUME U # {} PROVE FALSE
  OBVIOUS
<1>2. U \subseteq Nat
  OBVIOUS
<1> HIDE DEF U
<1>3. PICK x \in U : \A y \in U : ~(<<y, x>> \in Smaller)
  BY <1>1, <1>2, SmallerIsWellFounded, WFMin
<1>4. x \in Nat /\ x <= N /\ x \notin T /\ x # 0
  BY DEF U
<1>5. x \in 1 .. N /\ x - 1 \in Nat /\ x - 1 <= N /\ <<x - 1, x>> \in Smaller
  BY <1>4 DEF Smaller
<1>6. x - 1 \in T
  BY <1>3, <1>5 DEF U
<1> QED
  BY <1>4, <1>5, <1>6

-----------------------------------------------------------------------------
(* The length of a long item.                                              *)

(* A digit more.                                                           *)
Longer(n, digit) == IF n >= Huge THEN Huge ELSE n * 256 + digit

(* A digit more leaves a number a number.                                  *)
LEMMA LongerIs == \A n \in Nat, b \in Byte : Longer(n, b) \in Nat
BY DEF Longer, Huge, Byte

(* The loop over the digits of a length defines a number.                  *)
LEMMA LengthOfTyped ==
    ASSUME NEW digits \in Seq(Byte)
    PROVE  LengthOf(digits) \in Nat
<1> DEFINE N == Len(digits)
           Val(f, m) == f = [k \in 0 .. m |-> IF k = 0 THEN 0 ELSE Longer(f[k - 1], digits[k])]
           value[k \in 0 .. N] ==
             IF k = 0 THEN 0
             ELSE IF value[k - 1] >= Huge THEN Huge ELSE value[k - 1] * 256 + digits[k]
           T == {m \in 0 .. N : \E f : Val(f, m)}
<1>1. LengthOf(digits) = value[N]
  BY DEF LengthOf
<1>2. N \in Nat
  OBVIOUS
<1>3. 0 \in T
  <2> DEFINE f == [k \in 0 .. 0 |-> 0]
  <2>1. Val(f, 0)
    OBVIOUS
  <2>2. \E g : Val(g, 0)
    BY <2>1, Zenon
  <2>3. 0 \in 0 .. N
    BY <1>2
  <2> HIDE DEF Val, N
  <2> QED BY <2>2, <2>3
<1>4. ASSUME NEW m \in 1 .. N, m - 1 \in T PROVE m \in T
  <2>1. PICK f : Val(f, m - 1)
    BY <1>4
  <2> DEFINE h == [k \in 0 .. m |-> IF k = m THEN Longer(f[m - 1], digits[m]) ELSE f[k]]
  <2>2. ASSUME NEW k \in 0 .. m
        PROVE  h[k] = IF k = 0 THEN 0 ELSE Longer(h[k - 1], digits[k])
    <3>1. CASE k = 0
      <4>1. h[k] = f[k] /\ k \in 0 .. m - 1
        BY <3>1
      <4> QED BY <2>1, <3>1, <4>1
    <3>2. CASE k = m
      <4>1. h[k - 1] = f[m - 1]
        BY <3>2
      <4> QED BY <3>2, <4>1
    <3>3. CASE k \in 1 .. m - 1
      <4>1. h[k] = f[k] /\ h[k - 1] = f[k - 1] /\ k \in 0 .. m - 1 /\ k # 0
        BY <3>3
      <4> HIDE DEF h
      <4> QED BY <2>1, <4>1
    <3> QED BY <3>1, <3>2, <3>3
  <2>3. h = [k \in 0 .. m |-> h[k]]
    OBVIOUS
  <2> HIDE DEF h
  <2>4. Val(h, m)
    BY <2>2, <2>3
  <2> QED BY <2>4
<1>5. N \in T
  <2> HIDE DEF T, N
  <2>1. \A k \in 0 .. N : k \in T
    BY <1>2, <1>3, <1>4, TurnByTurn
  <2> QED BY <1>2, <2>1
<1>6. value = [k \in 0 .. N |-> IF k = 0 THEN 0 ELSE Longer(value[k - 1], digits[k])]
  <2>1. \E f : f = [k \in 0 .. N |-> IF k = 0 THEN 0 ELSE Longer(f[k - 1], digits[k])]
    BY <1>5
  <2> HIDE DEF N
  <2> QED BY <2>1, Zenon DEF Longer
<1> HIDE DEF value
<1> DEFINE V == {k \in 0 .. N : value[k] \in Nat}
<1>7. 0 \in V
  BY <1>2, <1>6
<1>8. ASSUME NEW k \in 1 .. N, k - 1 \in V PROVE k \in V
  <2>1. k \in 0 .. N /\ k # 0 /\ digits[k] \in Byte
    OBVIOUS
  <2>2. value[k] = Longer(value[k - 1], digits[k])
    BY <1>6, <2>1
  <2> QED BY <1>8, <2>1, <2>2, LongerIs
<1>9. N \in V
  <2> HIDE DEF V, N
  <2>1. \A k \in 0 .. N : k \in V
    BY <1>2, <1>7, <1>8, TurnByTurn
  <2> QED BY <1>2, <2>1
<1> QED
  BY <1>1, <1>9

-----------------------------------------------------------------------------
(* rlp_read: one item from a window.                                       *)

IsWindow(c) ==
    /\ c \in [bytes : Seq(Byte), start : Nat, bufferLen : Nat, offset : Nat]
    /\ c.start + c.bufferLen <= Len(c.bytes) /\ c.offset <= c.bufferLen

(* d is the window c, read further. *)
Further(c, d) ==
    /\ IsWindow(d) /\ d.offset >= c.offset
    /\ d.bytes = c.bytes /\ d.start = c.start /\ d.bufferLen = c.bufferLen

Item == [kind : {"BYTE", "STRING", "LIST"}, ptr : Nat, rlpLen : Nat]

(* What a successful read returns: an item between the offsets before and  *)
(* after it.                                                               *)
IsRead(c, r) ==
    /\ Further(c, r.ctx) /\ r.ctx.offset > c.offset
    /\ r.item \in Item
    /\ c.start + c.offset <= r.item.ptr
    /\ r.item.ptr + r.item.rlpLen <= c.start + r.ctx.offset
    /\ r.item.kind = "LIST" => r.item.ptr + r.item.rlpLen = c.start + r.ctx.offset
    /\ r.item.kind = "BYTE" => r.item.rlpLen = 1

(* A window advanced within its bounds is a window.                        *)
LEMMA AdvanceIs ==
    ASSUME NEW c, IsWindow(c), NEW n \in Nat, Available(c, n)
    PROVE  Further(c, Advance(c, n)) /\ Advance(c, n).offset = c.offset + n
<1>1. c.offset + n \in Nat /\ c.offset + n <= c.bufferLen
  BY DEF IsWindow, Available
<1>2. Advance(c, n) = [bytes |-> c.bytes, start |-> c.start, bufferLen |-> c.bufferLen, offset |-> c.offset + n]
  BY DEF Advance, IsWindow
<1> QED
  BY <1>1, <1>2 DEF Further, IsWindow

(* Take returns the bytes from the offset on, or an error.                 *)
LEMMA TakeIs ==
    ASSUME NEW c, IsWindow(c), NEW kind, NEW len \in Nat, NEW r, r = Take(c, kind, len)
    PROVE  /\ r.err \in {"ok", "unexpected_buffer_end"}
           /\ r.err = "ok" =>
                /\ Further(c, r.ctx) /\ r.ctx.offset = c.offset + len
                /\ r.item = [kind |-> kind, ptr |-> c.start + c.offset, rlpLen |-> len]
                /\ r = [err |-> "ok", ctx |-> r.ctx, item |-> r.item]
<1>1. CASE ~Available(c, len)
  BY <1>1 DEF Take, Failed
<1>2. CASE Available(c, len)
  <2>1. r = [err  |-> "ok", ctx |-> Advance(c, len),
             item |-> [kind |-> kind, ptr |-> c.start + c.offset, rlpLen |-> len]]
    BY <1>2 DEF Take
  <2> QED BY <1>2, <2>1, AdvanceIs
<1> QED
  BY <1>1, <1>2

(* An item with its length in the prefix.                                  *)
LEMMA TakeShortIs ==
    ASSUME NEW c, IsWindow(c), Available(c, 1), NEW len \in Nat, NEW r, r = TakeShort(c, "STRING", len)
    PROVE  /\ r.err \in {"ok", "unexpected_buffer_end"}
           /\ r.err = "ok" => IsRead(c, r)
<1> DEFINE d == Advance(c, 1)
           t == Take(d, "STRING", len)
<1>1. Further(c, d) /\ d.offset = c.offset + 1
  BY AdvanceIs
<1>2. IsWindow(d) /\ d.start = c.start /\ d.bytes = c.bytes /\ d.bufferLen = c.bufferLen
  BY <1>1 DEF Further
<1>3. c.start \in Nat /\ c.offset \in Nat
  BY DEF IsWindow
<1> HIDE DEF d
<1>4. /\ t.err \in {"ok", "unexpected_buffer_end"}
      /\ t.err = "ok" =>
           /\ Further(d, t.ctx) /\ t.ctx.offset = d.offset + len
           /\ t.item = [kind |-> "STRING", ptr |-> d.start + d.offset, rlpLen |-> len]
           /\ t = [err |-> "ok", ctx |-> t.ctx, item |-> t.item]
  BY <1>2, TakeIs
<1>5. r = IF len = 0 THEN [t EXCEPT !.item.ptr = c.start + c.offset] ELSE t
  BY DEF TakeShort, d
<1>6. CASE t.err # "ok"
  <2>1. t = Failed("unexpected_buffer_end", d)
    BY <1>6 DEF Take
  <2>2. r.err = t.err
    BY <1>5, <2>1 DEF Failed
  <2> QED BY <1>4, <1>6, <2>2
<1>7. CASE t.err = "ok"
  <2> HIDE DEF t
  <2>1. /\ r.err = "ok" /\ r.ctx = t.ctx
        /\ r.item = [kind |-> "STRING", ptr |-> IF len = 0 THEN c.start + c.offset ELSE d.start + d.offset,
                     rlpLen |-> len]
    BY <1>4, <1>5, <1>7
  <2>2. Further(d, r.ctx) /\ r.ctx.offset = d.offset + len
    BY <1>4, <1>7, <2>1
  <2>3. Further(c, r.ctx)
    BY <1>1, <1>2, <1>3, <2>2 DEF Further, IsWindow
  <2> QED BY <1>1, <1>2, <1>3, <2>1, <2>2, <2>3 DEF IsRead, Item
<1> QED
  BY <1>6, <1>7

(* An item behind a prefix and the bytes of its length.                    *)
LEMMA BehindPrefix ==
    ASSUME NEW c, IsWindow(c), NEW d, Further(c, d), d.offset > c.offset, NEW kind \in {"STRING", "LIST"},
           NEW len \in Nat, NEW r, r = Take(d, kind, len)
    PROVE  /\ r.err \in {"ok", "unexpected_buffer_end"}
           /\ r.err = "ok" => IsRead(c, r)
<1>1. IsWindow(d) /\ d.start = c.start /\ d.bytes = c.bytes /\ d.bufferLen = c.bufferLen
  BY DEF Further
<1>2. c.start \in Nat /\ c.offset \in Nat /\ d.offset \in Nat
  BY <1>1 DEF IsWindow
<1>3. /\ r.err \in {"ok", "unexpected_buffer_end"}
      /\ r.err = "ok" =>
           /\ Further(d, r.ctx) /\ r.ctx.offset = d.offset + len
           /\ r.item = [kind |-> kind, ptr |-> d.start + d.offset, rlpLen |-> len]
  BY <1>1, TakeIs
<1>4. ASSUME r.err = "ok" PROVE IsRead(c, r)
  <2>1. Further(c, r.ctx)
    BY <1>1, <1>2, <1>3, <1>4 DEF Further, IsWindow
  <2>2. r.item \in Item
    BY <1>1, <1>2, <1>3, <1>4 DEF Item
  <2> QED BY <1>1, <1>2, <1>3, <1>4, <2>1, <2>2 DEF IsRead
<1> QED
  BY <1>3, <1>4

(* An item whose length is in bytes of its own.                            *)
LEMMA TakeLongIs ==
    ASSUME NEW c, IsWindow(c), NEW d, Further(c, d), d.offset > c.offset, NEW kind \in {"STRING", "LIST"},
           NEW n \in Nat, NEW r, r = TakeLong(d, kind, n)
    PROVE  /\ r.err \in {"ok", "unexpected_buffer_end"}
           /\ r.err = "ok" => IsRead(c, r)
<1>1. CASE ~Available(d, n)
  BY <1>1 DEF TakeLong, Failed
<1>2. CASE Available(d, n)
  <2> DEFINE e == Advance(d, n)
             first == d.start + d.offset
             digits == SubSeq(d.bytes, first + 1, first + n)
  <2>1. IsWindow(d) /\ Further(d, e) /\ e.offset = d.offset + n
    BY <1>2, AdvanceIs DEF Further
  <2>2. Further(c, e) /\ e.offset > c.offset
    BY <2>1 DEF Further, IsWindow
  <2>3. digits \in Seq(Byte)
    <3>1. /\ d.bytes \in Seq(Byte) /\ first \in Nat /\ first + n <= Len(d.bytes)
      BY <1>2, <2>1 DEF IsWindow, Available
    <3> HIDE DEF first
    <3> QED BY <3>1
  <2>4. LengthOf(digits) \in Nat
    BY <2>3, LengthOfTyped
  <2>5. r = Take(e, kind, LengthOf(digits))
    BY <1>2 DEF TakeLong
  <2> HIDE DEF e, digits
  <2> QED BY <2>2, <2>4, <2>5, BehindPrefix
<1> QED
  BY <1>1, <1>2

(* rlp_read: whatever the bytes, an item inside the window, behind what    *)
(* was read before, or an error.                                           *)
THEOREM ItemsInsideWindow ==
    ASSUME NEW c, IsWindow(c), NEW r, r = rlp_read(c)
    PROVE  /\ r.err \in {"ok", "unexpected_buffer_end"}
           /\ r.err = "ok" => IsRead(c, r)
<1>1. CASE ~Available(c, 1)
  BY <1>1 DEF rlp_read, Failed
<1>2. CASE Available(c, 1)
  <2> DEFINE prefix == Peek(c)
             rest == Advance(c, 1)
  <2>1. prefix \in 0 .. 255
    <3>1. c.bytes \in Seq(Byte) /\ c.start + c.offset + 1 \in 1 .. Len(c.bytes)
      BY <1>2 DEF IsWindow, Available
    <3>2. c.bytes[c.start + c.offset + 1] \in Byte
      BY <3>1
    <3> QED BY <3>2, Zenon DEF Peek, Byte
  <2>2. Further(c, rest) /\ rest.offset > c.offset
    BY <1>2, AdvanceIs DEF IsWindow
  <2>3. r = IF prefix <= 127 THEN Take(c, "BYTE", 1)
            ELSE IF prefix <= 183 THEN TakeShort(c, "STRING", prefix - 128)
            ELSE IF prefix <= 191 THEN TakeLong(rest, "STRING", prefix - 183)
            ELSE IF prefix <= 247 THEN Take(rest, "LIST", prefix - 192)
            ELSE TakeLong(rest, "LIST", prefix - 247)
    BY <1>2, Zenon DEF rlp_read, RLP_KIND_BYTE_PREFIX, RLP_KIND_STRING_SHORT_MAX, RLP_KIND_STRING_SHORT_MIN,
       RLP_KIND_STRING_LONG_MAX, RLP_KIND_LIST_SHORT_MIN, RLP_KIND_LIST_SHORT_MAX
  <2> HIDE DEF prefix, rest
  <2>4. CASE prefix <= 127
    <3>1. r = Take(c, "BYTE", 1)
      BY <2>3, <2>4
    <3>2. /\ r.err \in {"ok", "unexpected_buffer_end"}
          /\ r.err = "ok" => /\ Further(c, r.ctx) /\ r.ctx.offset = c.offset + 1
                             /\ r.item = [kind |-> "BYTE", ptr |-> c.start + c.offset, rlpLen |-> 1]
      BY <3>1, TakeIs
    <3> QED BY <3>2 DEF IsRead, Item, IsWindow
  <2>5. CASE ~(prefix <= 127) /\ prefix <= 183
    <3>1. r = TakeShort(c, "STRING", prefix - 128) /\ prefix - 128 \in Nat
      BY <2>1, <2>3, <2>5
    <3> QED BY <1>2, <3>1, TakeShortIs
  <2>6. CASE ~(prefix <= 183) /\ prefix <= 191
    <3>1. r = TakeLong(rest, "STRING", prefix - 183) /\ prefix - 183 \in Nat
      BY <2>1, <2>3, <2>6
    <3> QED BY <2>2, <3>1, TakeLongIs
  <2>7. CASE ~(prefix <= 191) /\ prefix <= 247
    <3>1. r = Take(rest, "LIST", prefix - 192) /\ prefix - 192 \in Nat
      BY <2>1, <2>3, <2>7
    <3> QED BY <2>2, <3>1, BehindPrefix
  <2>8. CASE ~(prefix <= 247)
    <3>1. r = TakeLong(rest, "LIST", prefix - 247) /\ prefix - 247 \in Nat
      BY <2>1, <2>3, <2>8
    <3> QED BY <2>2, <3>1, TakeLongIs
  <2> QED BY <2>1, <2>4, <2>5, <2>6, <2>7, <2>8
<1> QED
  BY <1>1, <1>2

-----------------------------------------------------------------------------
(* The fields of a transaction: the items of its list, one by one.         *)

(* The first n items that a window is read as.                             *)
Stream(c, n) ==
    LET read[k \in 0 .. n] ==
          IF k = 0 THEN [err |-> "ok", ctx |-> c, item |-> NoItem] ELSE rlp_read(read[k - 1].ctx)
    IN  read

(* It reads one by one.                                                    *)
LEMMA StreamIs ==
    ASSUME NEW c, NEW n \in Nat
    PROVE  /\ Stream(c, n)[0] = [err |-> "ok", ctx |-> c, item |-> NoItem]
           /\ \A k \in 1 .. n : Stream(c, n)[k] = rlp_read(Stream(c, n)[k - 1].ctx)
<1> DEFINE base == [err |-> "ok", ctx |-> c, item |-> NoItem]
           Val(f, m) == f = [k \in 0 .. m |-> IF k = 0 THEN base ELSE rlp_read(f[k - 1].ctx)]
           T == {m \in 0 .. n : \E f : Val(f, m)}
<1>1. 0 \in T
  <2> DEFINE f == [k \in 0 .. 0 |-> base]
  <2>1. Val(f, 0)
    <3> HIDE DEF base
    <3> QED OBVIOUS
  <2>2. \E g : Val(g, 0)
    BY <2>1, Zenon
  <2>3. 0 \in 0 .. n
    OBVIOUS
  <2> HIDE DEF Val
  <2> QED BY <2>2, <2>3
<1>2. ASSUME NEW m \in 1 .. n, m - 1 \in T PROVE m \in T
  <2>1. PICK f : Val(f, m - 1)
    BY <1>2
  <2> DEFINE h == [k \in 0 .. m |-> IF k = m THEN rlp_read(f[m - 1].ctx) ELSE f[k]]
  <2> HIDE DEF base
  <2>2. ASSUME NEW k \in 0 .. m
        PROVE  h[k] = IF k = 0 THEN base ELSE rlp_read(h[k - 1].ctx)
    <3>1. CASE k = 0
      <4>1. h[k] = f[k] /\ k \in 0 .. m - 1
        BY <3>1
      <4> QED BY <2>1, <3>1, <4>1
    <3>2. CASE k = m
      <4>1. h[k - 1] = f[m - 1] /\ k # 0 /\ h[k] = rlp_read(f[m - 1].ctx)
        BY <3>2
      <4> HIDE DEF h
      <4> QED BY <4>1
    <3>3. CASE k \in 1 .. m - 1
      <4>1. h[k] = f[k] /\ h[k - 1] = f[k - 1] /\ k \in 0 .. m - 1 /\ k # 0
        BY <3>3
      <4>2. f[k] = rlp_read(f[k - 1].ctx)
        BY <2>1, <4>1
      <4> HIDE DEF h
      <4> QED BY <4>1, <4>2
    <3> QED BY <3>1, <3>2, <3>3
  <2>3. h = [k \in 0 .. m |-> h[k]]
    OBVIOUS
  <2> HIDE DEF h
  <2>4. Val(h, m)
    BY <2>2, <2>3
  <2> QED BY <2>4
<1>3. \E f : Val(f, n)
  <2>1. \A k \in 0 .. n : k \in T
    <3> HIDE DEF T
    <3> QED BY <1>1, <1>2, TurnByTurn
  <2> QED BY <2>1
<1>4. Stream(c, n) = [k \in 0 .. n |-> IF k = 0 THEN base ELSE rlp_read(Stream(c, n)[k - 1].ctx)]
  <2>1. \E f : f = [k \in 0 .. n |-> IF k = 0 THEN base ELSE rlp_read(f[k - 1].ctx)]
    BY <1>3
  <2> QED BY <2>1, Zenon DEF Stream
<1> HIDE DEF base, T
<1>5. Stream(c, n)[0] = base
  BY <1>4
<1>6. ASSUME NEW k \in 1 .. n PROVE Stream(c, n)[k] = rlp_read(Stream(c, n)[k - 1].ctx)
  <2>1. k \in 0 .. n /\ k # 0
    OBVIOUS
  <2> QED BY <1>4, <2>1
<1> QED
  BY <1>5, <1>6 DEF base

Tx == [tx_type : {"none", "legacy", "eip2930", "eip1559"}, fields : [Fields -> Item],
       chain_id_decoded : Seq(Byte), is_erc20_transfer : BOOLEAN, is_blindsign : BOOLEAN]

Errors == {"ok", "unexpected_buffer_end", "unexpected_error", "unexpected_value", "unexpected_characters",
           "invalid_chain_id", "invalid_rs_values", "unsupported_tx"}

(* The networks that a transaction may be for.                             *)
Selected == Networks \ {<< >>, <<1>>}

(* There is no chain id, or one that the item stands for and that the      *)
(* application supports.                                                   *)
ChainRead(bytes, tx) ==
    LET item == tx.fields["chainId"]
        id   == ChainIdOf(bytes, item)
    IN  \/ item = NoItem /\ tx.chain_id_decoded = << >>
        \/ /\ item # NoItem /\ id.err = "ok"
           /\ tx.chain_id_decoded = id.num /\ id.num \in Selected

(* The object holds the first k items of the window c, under their names,  *)
(* and nothing else.                                                       *)
Holds(c, all, k, tx) ==
    /\ tx \in Tx
    /\ \A j \in 1 .. k : /\ tx.fields[all[j]] = Stream(c, Len(all))[j].item
                         /\ tx.fields[all[j]] # NoItem
    /\ \A f \in Fields : (\A j \in 1 .. k : all[j] # f) => tx.fields[f] = NoItem
    /\ \A f \in Fields : tx.fields[f].ptr + tx.fields[f].rlpLen <= c.start + c.bufferLen
    /\ ChainRead(c.bytes, tx)

(* Reading has come to the k-th item, or failed.                           *)
Progress(c, all, type, k, at) ==
    /\ at = [err |-> at.err, ctx |-> at.ctx, tx |-> at.tx] /\ at.err \in Errors
    /\ at.err = "ok" =>
         /\ Further(c, at.ctx) /\ at.ctx = Stream(c, Len(all))[k].ctx
         /\ Holds(c, all, k, at.tx)
         /\ at.tx.tx_type = type

Distinct(all) ==
    /\ all \in Seq(Fields)
    /\ \A i \in 1 .. Len(all), j \in 1 .. Len(all) : i # j => all[i] # all[j]

(* The object with one field more.                                         *)
LEMMA FieldStored ==
    ASSUME NEW c, IsWindow(c), NEW all, Distinct(all), NEW k \in 1 .. Len(all),
           NEW tx, Holds(c, all, k - 1, tx), all[k] # "chainId",
           NEW r, r.item = Stream(c, Len(all))[k].item, r.item \in Item, r.item # NoItem,
           r.item.ptr + r.item.rlpLen <= c.start + c.bufferLen,
           NEW new, new = [tx EXCEPT !.fields[all[k]] = r.item]
    PROVE  Holds(c, all, k, new) /\ new.tx_type = tx.tx_type
<1> DEFINE name == all[k]
<1>1. name \in Fields /\ tx \in Tx /\ "chainId" \in Fields
  BY DEF Distinct, Holds, Fields
<1>2. /\ new \in Tx /\ new.tx_type = tx.tx_type /\ new.chain_id_decoded = tx.chain_id_decoded
      /\ new.fields = [tx.fields EXCEPT ![name] = r.item]
  BY <1>1 DEF Tx
<1>3. /\ new.fields[name] = r.item
      /\ \A f \in Fields : f # name => new.fields[f] = tx.fields[f]
  BY <1>1, <1>2 DEF Tx
<1>4. ASSUME NEW j \in 1 .. k
      PROVE  new.fields[all[j]] = Stream(c, Len(all))[j].item /\ new.fields[all[j]] # NoItem
  <2>1. CASE j = k
    BY <1>3, <2>1
  <2>2. CASE j # k
    <3>1. j \in 1 .. k - 1 /\ j \in 1 .. Len(all) /\ all[j] \in Fields
      BY <2>2 DEF Distinct
    <3>2. all[j] # name
      BY <2>2, <3>1 DEF Distinct
    <3> QED BY <1>3, <3>1, <3>2 DEF Holds
  <2> QED BY <2>1, <2>2
<1>5. ASSUME NEW f \in Fields, \A j \in 1 .. k : all[j] # f
      PROVE  new.fields[f] = NoItem
  <2>1. f # name
    BY <1>5
  <2>2. \A j \in 1 .. k - 1 : all[j] # f
    BY <1>5
  <2> QED BY <1>3, <2>1, <2>2 DEF Holds
<1>6. \A f \in Fields : new.fields[f].ptr + new.fields[f].rlpLen <= c.start + c.bufferLen
  BY <1>3 DEF Holds
<1>7. ChainRead(c.bytes, new)
  <2>1. new.fields["chainId"] = tx.fields["chainId"]
    BY <1>1, <1>3
  <2>2. ChainRead(c.bytes, tx)
    BY DEF Holds
  <2> QED BY <1>2, <2>1, <2>2 DEF ChainRead
<1> QED
  BY <1>2, <1>4, <1>5, <1>6, <1>7 DEF Holds

(* An item of the stream, as it is read after those before it.             *)
LEMMA NextItem ==
    ASSUME NEW c, IsWindow(c), NEW all, Distinct(all), NEW k \in 1 .. Len(all),
           NEW d, Further(c, d), d = Stream(c, Len(all))[k - 1].ctx,
           NEW r, r = rlp_read(d)
    PROVE  /\ r = Stream(c, Len(all))[k] /\ r.err \in {"ok", "unexpected_buffer_end"}
           /\ r.err = "ok" =>
                /\ Further(c, r.ctx)
                /\ r.item \in Item /\ r.item # NoItem
                /\ r.item.ptr + r.item.rlpLen <= c.start + c.bufferLen
<1>1. r = Stream(c, Len(all))[k]
  <2>1. Len(all) \in Nat
    BY DEF Distinct
  <2> QED BY <2>1, StreamIs
<1>2. IsWindow(d) /\ d.start = c.start /\ d.bufferLen = c.bufferLen /\ d.bytes = c.bytes /\ d.offset >= c.offset
  BY DEF Further
<1>3. r.err \in {"ok", "unexpected_buffer_end"} /\ (r.err = "ok" => IsRead(d, r))
  BY <1>2, ItemsInsideWindow
<1>4. ASSUME r.err = "ok"
      PROVE  /\ Further(c, r.ctx)
             /\ r.item \in Item /\ r.item # NoItem
             /\ r.item.ptr + r.item.rlpLen <= c.start + c.bufferLen
  <2>1. /\ Further(d, r.ctx) /\ r.item \in Item
        /\ r.item.ptr + r.item.rlpLen <= d.start + r.ctx.offset
        /\ r.item.kind = "BYTE" => r.item.rlpLen = 1
    BY <1>3, <1>4 DEF IsRead
  <2>2. Further(c, r.ctx)
    BY <1>2, <2>1 DEF Further, IsWindow
  <2>3. r.item # NoItem
    BY <2>1 DEF NoItem
  <2>4. r.ctx.offset \in Nat /\ r.ctx.offset <= c.bufferLen /\ c.bufferLen \in Nat /\ c.start \in Nat
    BY <2>2 DEF Further, IsWindow
  <2>5. r.item.ptr \in Nat /\ r.item.rlpLen \in Nat
    BY <2>1 DEF Item
  <2>6. r.item.ptr + r.item.rlpLen <= c.start + c.bufferLen
    BY <1>2, <2>1, <2>4, <2>5, SMTT(30)
  <2> QED BY <2>1, <2>2, <2>3, <2>6
<1> QED
  BY <1>1, <1>3, <1>4

WithChainId(tx, item, num) ==
    [[tx EXCEPT !.fields["chainId"] = item] EXCEPT !.chain_id_decoded = num]

(* The object with its chain id.                                           *)
LEMMA ChainIdStored ==
    ASSUME NEW c, IsWindow(c), NEW all, Distinct(all), NEW k \in 1 .. Len(all),
           NEW tx, Holds(c, all, k - 1, tx), all[k] = "chainId",
           NEW item \in Item, item = Stream(c, Len(all))[k].item, item # NoItem,
           item.ptr + item.rlpLen <= c.start + c.bufferLen,
           ChainIdOf(c.bytes, item).err = "ok",
           ChainIdOf(c.bytes, item).num \in Selected
    PROVE  /\ Holds(c, all, k, WithChainId(tx, item, ChainIdOf(c.bytes, item).num))
           /\ WithChainId(tx, item, ChainIdOf(c.bytes, item).num).tx_type = tx.tx_type
<1> DEFINE id == ChainIdOf(c.bytes, item)
           with == [tx EXCEPT !.fields["chainId"] = item]
           new == [with EXCEPT !.chain_id_decoded = id.num]
<1> DEFINE name == "chainId"
<1>1. name \in Fields /\ tx \in Tx /\ name = all[k]
  BY DEF Distinct, Holds, Fields
<1>0. id.num \in Seq(Byte)
  BY TransactionsAssumption DEF Selected
<1> HIDE DEF id
<1>2. /\ new \in Tx /\ new.tx_type = tx.tx_type /\ new.chain_id_decoded = id.num
      /\ new.fields = [tx.fields EXCEPT ![name] = item]
  <2>1. /\ with \in Tx /\ with.tx_type = tx.tx_type
        /\ with.fields = [tx.fields EXCEPT ![name] = item]
    BY <1>1 DEF Tx
  <2>2. new = [with EXCEPT !.chain_id_decoded = id.num]
    BY DEF new
  <2> HIDE DEF with, new
  <2> QED BY <1>0, <2>1, <2>2 DEF Tx
<1> HIDE DEF new, with
<1>3. /\ new.fields[name] = item
      /\ \A f \in Fields : f # name => new.fields[f] = tx.fields[f]
  BY <1>1, <1>2 DEF Tx
<1>4. ASSUME NEW j \in 1 .. k
      PROVE  new.fields[all[j]] = Stream(c, Len(all))[j].item /\ new.fields[all[j]] # NoItem
  <2>1. CASE j = k
    BY <1>1, <1>3, <2>1
  <2>2. CASE j # k
    <3>1. j \in 1 .. k - 1 /\ j \in 1 .. Len(all) /\ all[j] \in Fields
      BY <2>2 DEF Distinct
    <3>2. all[j] # name
      BY <1>1, <2>2, <3>1 DEF Distinct
    <3> QED BY <1>3, <3>1, <3>2 DEF Holds
  <2> QED BY <2>1, <2>2
<1>5. ASSUME NEW f \in Fields, \A j \in 1 .. k : all[j] # f
      PROVE  new.fields[f] = NoItem
  <2>1. f # name
    BY <1>1, <1>5
  <2>2. \A j \in 1 .. k - 1 : all[j] # f
    BY <1>5
  <2> QED BY <1>3, <2>1, <2>2 DEF Holds
<1>6. \A f \in Fields : new.fields[f].ptr + new.fields[f].rlpLen <= c.start + c.bufferLen
  BY <1>3 DEF Holds
<1>7. ChainRead(c.bytes, new)
  BY <1>2, <1>3 DEF ChainRead, id
<1>8. new = WithChainId(tx, item, ChainIdOf(c.bytes, item).num)
  BY DEF WithChainId, new, with, id
<1> QED
  BY <1>2, <1>4, <1>5, <1>6, <1>7, <1>8 DEF Holds

(* One field is read.                                                      *)
LEMMA FieldRead ==
    ASSUME NEW c, IsWindow(c), NEW all, Distinct(all), NEW type, NEW k \in 1 .. Len(all),
           NEW at, Progress(c, all, type, k - 1, at)
    PROVE  Progress(c, all, type, k, ReadField(at, all[k]))
<1>1. CASE at.err # "ok"
  BY <1>1 DEF ReadField, Progress
<1>2. CASE at.err = "ok"
  <2> DEFINE r == rlp_read(at.ctx)
  <2>1. /\ Further(c, at.ctx) /\ at.ctx = Stream(c, Len(all))[k - 1].ctx
        /\ Holds(c, all, k - 1, at.tx) /\ at.tx.tx_type = type
    BY <1>2 DEF Progress
  <2>2. /\ r = Stream(c, Len(all))[k] /\ r.err \in {"ok", "unexpected_buffer_end"}
        /\ r.err = "ok" =>
             /\ Further(c, r.ctx)
             /\ r.item \in Item /\ r.item # NoItem
             /\ r.item.ptr + r.item.rlpLen <= c.start + c.bufferLen
    BY <2>1, NextItem
  <2> HIDE DEF r
  <2>3. CASE all[k] # "chainId"
    <3> DEFINE tx == [at.tx EXCEPT !.fields[all[k]] = r.item]
    <3>1. ReadField(at, all[k]) = [err |-> r.err, ctx |-> r.ctx, tx |-> tx]
      BY <1>2, <2>3 DEF ReadField, Stored, r
    <3>2. ASSUME r.err = "ok" PROVE Holds(c, all, k, tx) /\ tx.tx_type = type
      BY <2>1, <2>2, <2>3, <3>2, FieldStored
    <3> HIDE DEF tx
    <3> QED BY <2>2, <3>1, <3>2 DEF Progress, Errors
  <2>4. CASE all[k] = "chainId"
    <3> DEFINE id == ChainIdOf(at.ctx.bytes, r.item)
               s == CheckedChainId(r, id)
               with == [at.tx EXCEPT !.fields["chainId"] = r.item]
               tx == [with EXCEPT !.chain_id_decoded = id.num]
    <3>2. readChainID(at.ctx) = s
      BY DEF readChainID, ChainIdRead, r
    <3>3. s = [err |-> s.err, ctx |-> r.ctx, item |-> r.item, num |-> id.num]
      BY DEF CheckedChainId
    <3>4. StoredChainId(at, s) = [err |-> s.err, ctx |-> s.ctx, tx |-> tx]
      <4>1. Stored(at, "chainId", s) = [err |-> s.err, ctx |-> s.ctx, tx |-> with]
        BY <3>3 DEF Stored
      <4>2. s.num = id.num
        BY <3>3
      <4> HIDE DEF s, id, with
      <4>3. StoredChainId(at, s) = [[err |-> s.err, ctx |-> s.ctx, tx |-> with] EXCEPT !.tx.chain_id_decoded = id.num]
        BY <4>1, <4>2 DEF StoredChainId
      <4> QED BY <4>3
    <3>5. ReadField(at, all[k]) = [err |-> s.err, ctx |-> r.ctx, tx |-> tx]
      BY <1>2, <2>4, <3>2, <3>3, <3>4 DEF ReadField
    <3>6. id.err \in {"ok", "unexpected_error"}
      BY DEF ChainIdOf, be_bytes_to_u64
    <3> HIDE DEF id
    <3>7. /\ s.err \in Errors
          /\ s.err = "ok" => r.err = "ok" /\ id.err = "ok" /\ id.num \in Selected
      BY <2>2, <3>6 DEF CheckedChainId, Errors, Selected
    <3>8. at.ctx.bytes = c.bytes
      BY <2>1 DEF Further
    <3> HIDE DEF s
    <3>9. ASSUME s.err = "ok" PROVE Holds(c, all, k, tx) /\ tx.tx_type = type
      <4>1. id = ChainIdOf(c.bytes, r.item)
        BY <3>8 DEF id
      <4>2. /\ r.err = "ok" /\ id.err = "ok" /\ id.num \in Selected
            /\ r.item \in Item /\ r.item # NoItem
            /\ r.item.ptr + r.item.rlpLen <= c.start + c.bufferLen
            /\ r.item = Stream(c, Len(all))[k].item
        BY <2>2, <3>7, <3>9
      <4>3. Holds(c, all, k, tx) /\ tx.tx_type = at.tx.tx_type
        <5>1. tx = WithChainId(at.tx, r.item, id.num)
          BY DEF tx, with, WithChainId
        <5> HIDE DEF tx
        <5> QED BY <2>1, <2>4, <4>1, <4>2, <5>1, ChainIdStored
      <4> QED BY <2>1, <4>3
    <3> HIDE DEF tx
    <3> QED BY <2>2, <3>5, <3>7, <3>9 DEF Progress
  <2> QED BY <2>3, <2>4
<1> QED
  BY <1>1, <1>2

(* A list of fields is read: the function of ReadFields exists.            *)
LEMMA ReadFieldsIs ==
    ASSUME NEW at, NEW names, Len(names) \in Nat
    PROVE  \E f : /\ ReadFields(at, names) = f[Len(names)] /\ f[0] = at
                  /\ \A k \in 1 .. Len(names) : f[k] = ReadField(f[k - 1], names[k])
<1> DEFINE n == Len(names)
           Val(f, m) == f = [k \in 0 .. m |-> IF k = 0 THEN at ELSE ReadField(f[k - 1], names[k])]
           T == {m \in 0 .. n : \E f : Val(f, m)}
           read[k \in 0 .. n] == IF k = 0 THEN at ELSE ReadField(read[k - 1], names[k])
<1>0. ReadFields(at, names) = read[n]
  BY DEF ReadFields
<1>1. 0 \in T
  <2> DEFINE f == [k \in 0 .. 0 |-> at]
  <2>1. Val(f, 0)
    OBVIOUS
  <2>2. \E g : Val(g, 0)
    BY <2>1, Zenon
  <2>3. 0 \in 0 .. n
    OBVIOUS
  <2> HIDE DEF Val, n
  <2> QED BY <2>2, <2>3
<1>2. ASSUME NEW m \in 1 .. n, m - 1 \in T PROVE m \in T
  <2>1. PICK f : Val(f, m - 1)
    BY <1>2
  <2> DEFINE h == [k \in 0 .. m |-> IF k = m THEN ReadField(f[m - 1], names[m]) ELSE f[k]]
  <2>2. ASSUME NEW k \in 0 .. m
        PROVE  h[k] = IF k = 0 THEN at ELSE ReadField(h[k - 1], names[k])
    <3>1. CASE k = 0
      <4>1. h[k] = f[k] /\ k \in 0 .. m - 1
        BY <3>1
      <4> HIDE DEF h
      <4> QED BY <2>1, <3>1, <4>1
    <3>2. CASE k = m
      <4>1. h[k - 1] = f[m - 1] /\ k # 0 /\ h[k] = ReadField(f[m - 1], names[m])
        BY <3>2
      <4> HIDE DEF h
      <4> QED BY <3>2, <4>1
    <3>3. CASE k \in 1 .. m - 1
      <4>1. h[k] = f[k] /\ h[k - 1] = f[k - 1] /\ k \in 0 .. m - 1 /\ k # 0
        BY <3>3
      <4>2. f[k] = ReadField(f[k - 1], names[k])
        BY <2>1, <4>1
      <4> HIDE DEF h
      <4> QED BY <4>1, <4>2
    <3> QED BY <3>1, <3>2, <3>3
  <2>3. h = [k \in 0 .. m |-> h[k]]
    OBVIOUS
  <2> HIDE DEF h
  <2>4. Val(h, m)
    BY <2>2, <2>3
  <2> QED BY <2>4
<1>3. \E f : Val(f, n)
  <2>1. \A k \in 0 .. n : k \in T
    <3> HIDE DEF T, n
    <3>1. n \in Nat
      BY DEF n
    <3> QED BY <1>1, <1>2, <3>1, TurnByTurn
  <2>2. n \in 0 .. n
    OBVIOUS
  <2> HIDE DEF n
  <2> QED BY <2>1, <2>2
<1>4. read = [k \in 0 .. n |-> IF k = 0 THEN at ELSE ReadField(read[k - 1], names[k])]
  <2>1. \E f : f = [k \in 0 .. n |-> IF k = 0 THEN at ELSE ReadField(f[k - 1], names[k])]
    BY <1>3
  <2> HIDE DEF n
  <2> QED BY <2>1, Zenon
<1> HIDE DEF read
<1>5. read[0] = at
  BY <1>4
<1>6. ASSUME NEW k \in 1 .. n PROVE read[k] = ReadField(read[k - 1], names[k])
  <2>1. k \in 0 .. n /\ k # 0
    OBVIOUS
  <2> QED BY <1>4, <2>1
<1> QED
  BY <1>0, <1>5, <1>6

(* A list of fields is read, of all that there are those from b + 1 on.    *)
LEMMA FieldsRead ==
    ASSUME NEW c, IsWindow(c), NEW all, Distinct(all), NEW type, NEW b \in Nat,
           NEW names \in Seq(Fields), b + Len(names) <= Len(all),
           \A k \in 1 .. Len(names) : names[k] = all[b + k],
           NEW at, Progress(c, all, type, b, at)
    PROVE  Progress(c, all, type, b + Len(names), ReadFields(at, names))
<1> DEFINE n == Len(names)
<1>0. n \in Nat /\ Len(all) \in Nat
  BY DEF Distinct
<1>1. PICK f : /\ ReadFields(at, names) = f[n] /\ f[0] = at
               /\ \A k \in 1 .. n : f[k] = ReadField(f[k - 1], names[k])
  BY <1>0, ReadFieldsIs
<1> DEFINE T == {k \in 0 .. n : Progress(c, all, type, b + k, f[k])}
<1>2. 0 \in T
  BY <1>0, <1>1
<1>3. ASSUME NEW k \in 1 .. n, k - 1 \in T PROVE k \in T
  <2> DEFINE m == b + k
  <2>1. m \in 1 .. Len(all) /\ b + (k - 1) = m - 1 /\ k \in 0 .. n
    BY <1>0
  <2>2. Progress(c, all, type, m - 1, f[k - 1])
    BY <1>3, <2>1
  <2>3. f[k] = ReadField(f[k - 1], all[m])
    BY <1>1
  <2> HIDE DEF m
  <2>4. Progress(c, all, type, m, f[k])
    BY <2>1, <2>2, <2>3, FieldRead
  <2> QED BY <2>1, <2>4 DEF m
<1>4. n \in T
  <2> HIDE DEF T, n
  <2>1. \A k \in 0 .. n : k \in T
    BY <1>0, <1>2, <1>3, TurnByTurn
  <2> QED BY <1>0, <2>1
<1> QED
  BY <1>1, <1>4

-----------------------------------------------------------------------------
(* The three types of transactions.                                        *)

Names2930 == <<"chainId", "nonce", "gasPrice", "gasLimit", "to", "value", "data", "access_list">>
Names1559 == <<"chainId", "nonce", "max_priority_fee_per_gas", "max_fee_per_gas", "gasLimit", "to",
               "value", "data", "access_list">>
NamesPlain  == <<"nonce", "gasPrice", "gasLimit", "to", "value", "data">>
NamesEip155 == <<"nonce", "gasPrice", "gasLimit", "to", "value", "data", "chainId", "sig_r", "sig_s">>

(* No name comes twice.                                                    *)
LEMMA NamesDistinct ==
    /\ Distinct(Names2930) /\ Len(Names2930) = 8
    /\ Distinct(Names1559) /\ Len(Names1559) = 9
    /\ Distinct(NamesPlain) /\ Len(NamesPlain) = 6
    /\ Distinct(NamesEip155) /\ Len(NamesEip155) = 9
<1>1. Distinct(Names2930) /\ Len(Names2930) = 8
  BY DEF Distinct, Names2930, Fields
<1>2. Distinct(Names1559) /\ Len(Names1559) = 9
  BY DEF Distinct, Names1559, Fields
<1>3. Distinct(NamesPlain) /\ Len(NamesPlain) = 6
  BY DEF Distinct, NamesPlain, Fields
<1>4. Distinct(NamesEip155) /\ Len(NamesEip155) = 9
  BY DEF Distinct, NamesEip155, Fields
<1> QED
  BY <1>1, <1>2, <1>3, <1>4

(* A window has been read to its end, or reading failed.                   *)
Complete(c, all, type, at) ==
    /\ at = [err |-> at.err, ctx |-> at.ctx, tx |-> at.tx] /\ at.err \in Errors
    /\ at.err = "ok" =>
         /\ Holds(c, all, Len(all), at.tx) /\ at.tx.tx_type = type
         /\ Stream(c, Len(all))[Len(all)].ctx.offset = c.bufferLen

(* Before the first field.                                                 *)
Begun(c, type) == [err |-> "ok", ctx |-> c, tx |-> [NoTx EXCEPT !.tx_type = type]]

(* The cleared object holds no field.                                      *)
LEMMA BegunIs ==
    ASSUME NEW c, IsWindow(c), NEW all, Distinct(all), NEW type \in {"legacy", "eip2930", "eip1559"}
    PROVE  Progress(c, all, type, 0, Begun(c, type))
<1> DEFINE at == Begun(c, type)
           tx == [NoTx EXCEPT !.tx_type = type]
<1>1. at = [err |-> "ok", ctx |-> c, tx |-> tx]
  BY DEF Begun
<1>2. NoItem \in Item /\ NoItem.ptr = 0 /\ NoItem.rlpLen = 0
  BY DEF NoItem, Item
<1>3. tx = [tx_type |-> type, fields |-> [f \in Fields |-> NoItem], chain_id_decoded |-> << >>,
            is_erc20_transfer |-> FALSE, is_blindsign |-> FALSE]
  <2> DEFINE empty == [f \in Fields |-> NoItem]
  <2>1. NoTx = [tx_type |-> "none", fields |-> empty, chain_id_decoded |-> << >>,
                is_erc20_transfer |-> FALSE, is_blindsign |-> FALSE]
    BY DEF NoTx
  <2> HIDE DEF empty
  <2>2. tx = [tx_type |-> type, fields |-> empty, chain_id_decoded |-> << >>,
              is_erc20_transfer |-> FALSE, is_blindsign |-> FALSE]
    <3> DEFINE old == [tx_type |-> "none", fields |-> empty, chain_id_decoded |-> << >>,
                       is_erc20_transfer |-> FALSE, is_blindsign |-> FALSE]
    <3>1. tx = [old EXCEPT !.tx_type = type]
      BY <2>1, Zenon
    <3> HIDE DEF tx, at
    <3> QED BY <3>1
  <2> QED BY <2>2 DEF empty
<1> HIDE DEF at, tx
<1>4. tx \in Tx /\ tx.tx_type = type
  BY <1>2, <1>3 DEF Tx
<1>5. \A f \in Fields : tx.fields[f] = NoItem
  BY <1>3
<1>6. c.start + c.bufferLen \in Nat
  BY DEF IsWindow
<1>7. ChainRead(c.bytes, tx)
  <2>1. tx.fields["chainId"] = NoItem /\ tx.chain_id_decoded = << >>
    BY <1>3, <1>5 DEF Fields
  <2> QED BY <2>1 DEF ChainRead
<1>8. Holds(c, all, 0, tx)
  BY <1>2, <1>4, <1>5, <1>6, <1>7 DEF Holds
<1>9. Stream(c, Len(all))[0].ctx = c
  <2>1. Len(all) \in Nat
    BY DEF Distinct
  <2>2. Stream(c, Len(all))[0] = [err |-> "ok", ctx |-> c, item |-> NoItem]
    BY <2>1, StreamIs
  <2> QED BY <2>2
<1>10. Further(c, c)
  BY DEF Further, IsWindow
<1> QED
  BY <1>1, <1>4, <1>8, <1>9, <1>10 DEF Progress, Errors, at

(* What is refused is not read.                                            *)
LEMMA RefuseIs ==
    ASSUME NEW at, at = [err |-> at.err, ctx |-> at.ctx, tx |-> at.tx], at.err \in Errors,
           NEW wrong \in BOOLEAN, NEW err \in Errors \ {"ok"}, NEW new, new = Refuse(at, wrong, err)
    PROVE  /\ new = [err |-> new.err, ctx |-> new.ctx, tx |-> new.tx] /\ new.err \in Errors
           /\ new.err = "ok" => at.err = "ok" /\ ~wrong /\ new = at
<1>1. CASE at.err = "ok" /\ wrong
  <2>1. new = [err |-> err, ctx |-> at.ctx, tx |-> at.tx]
    BY <1>1 DEF Refuse
  <2> QED BY <2>1
<1>2. CASE ~(at.err = "ok" /\ wrong)
  BY <1>2 DEF Refuse
<1> QED
  BY <1>1, <1>2

(* All fields are read, and nothing is behind them.                        *)
LEMMA RestRefused ==
    ASSUME NEW c, NEW all, NEW type, NEW at, Progress(c, all, type, Len(all), at),
           NEW err \in Errors \ {"ok"}
    PROVE  Complete(c, all, type, RefuseRest(at, err))
<1> DEFINE wrong == ~AtEnd(at)
           new == Refuse(at, wrong, err)
<1>1. wrong \in BOOLEAN
  BY DEF AtEnd
<1>2. at = [err |-> at.err, ctx |-> at.ctx, tx |-> at.tx] /\ at.err \in Errors
  BY DEF Progress
<1>3. wrong = ~(at.ctx.offset = at.ctx.bufferLen)
  BY DEF AtEnd
<1> HIDE DEF wrong
<1>4. /\ new = [err |-> new.err, ctx |-> new.ctx, tx |-> new.tx] /\ new.err \in Errors
      /\ new.err = "ok" => at.err = "ok" /\ ~wrong /\ new = at
  BY <1>1, <1>2, RefuseIs
<1>5. RefuseRest(at, err) = new
  BY DEF RefuseRest, wrong
<1> HIDE DEF new
<1>6. ASSUME new.err = "ok"
      PROVE  /\ Holds(c, all, Len(all), new.tx) /\ new.tx.tx_type = type
             /\ Stream(c, Len(all))[Len(all)].ctx.offset = c.bufferLen
  BY <1>3, <1>4, <1>6 DEF Progress, Further
<1> QED
  BY <1>4, <1>5, <1>6 DEF Complete

(* parse_2930 and parse_1559 read all of a list.                           *)
LEMMA TypedRead ==
    ASSUME NEW c, IsWindow(c)
    PROVE  /\ Complete(c, Names2930, "eip2930", parse_2930(Begun(c, "eip2930")))
           /\ Complete(c, Names1559, "eip1559", parse_1559(Begun(c, "eip1559")))
<1>1. ASSUME NEW names, Distinct(names), NEW type \in {"eip2930", "eip1559"}
      PROVE  Complete(c, names, type, RefuseRest(ReadFields(Begun(c, type), names), "unsupported_tx"))
  <2>1. Progress(c, names, type, 0, Begun(c, type))
    BY <1>1, BegunIs
  <2>2. names \in Seq(Fields) /\ Len(names) \in Nat /\ 0 + Len(names) <= Len(names)
    BY <1>1 DEF Distinct
  <2>3. \A k \in 1 .. Len(names) : names[k] = names[0 + k]
    BY <2>2
  <2>4. Progress(c, names, type, 0 + Len(names), ReadFields(Begun(c, type), names))
    BY <1>1, <2>1, <2>2, <2>3, FieldsRead
  <2>5. Progress(c, names, type, Len(names), ReadFields(Begun(c, type), names))
    BY <2>2, <2>4
  <2> QED BY <2>5, RestRefused DEF Errors
<1>2. Complete(c, Names2930, "eip2930", RefuseRest(ReadFields(Begun(c, "eip2930"), Names2930), "unsupported_tx"))
  BY <1>1, NamesDistinct
<1>3. Complete(c, Names1559, "eip1559", RefuseRest(ReadFields(Begun(c, "eip1559"), Names1559), "unsupported_tx"))
  BY <1>1, NamesDistinct
<1> QED
  BY <1>2, <1>3, Zenon DEF parse_2930, parse_1559, Names2930, Names1559

(* parse_legacy_tx reads all of a list, with or without a chain id.        *)
LEMMA LegacyRead ==
    ASSUME NEW c, IsWindow(c), NEW at, at = parse_legacy_tx(Begun(c, "legacy"))
    PROVE  Complete(c, NamesPlain, "legacy", at) \/ Complete(c, NamesEip155, "legacy", at)
<1> DEFINE plain == ReadFields(Begun(c, "legacy"), legacyFields)
           signed155 == ReadFields(plain, signatureFields)
<1>1. /\ legacyFields \in Seq(Fields) /\ Len(legacyFields) = 6 /\ legacyFields = NamesPlain
      /\ \A k \in 1 .. 6 : legacyFields[k] = NamesPlain[0 + k] /\ legacyFields[k] = NamesEip155[0 + k]
  BY DEF legacyFields, NamesPlain, NamesEip155, Fields
<1>2. /\ signatureFields \in Seq(Fields) /\ Len(signatureFields) = 3
      /\ \A k \in 1 .. 3 : signatureFields[k] = NamesEip155[6 + k]
  BY DEF signatureFields, NamesEip155, Fields
<1>0. /\ 0 \in Nat /\ 0 + Len(legacyFields) <= Len(NamesPlain) /\ 0 + Len(legacyFields) <= Len(NamesEip155)
      /\ \A k \in 1 .. Len(legacyFields) : legacyFields[k] = NamesPlain[0 + k]
      /\ \A k \in 1 .. Len(legacyFields) : legacyFields[k] = NamesEip155[0 + k]
      /\ 6 \in Nat /\ 6 + Len(signatureFields) <= Len(NamesEip155)
      /\ \A k \in 1 .. Len(signatureFields) : signatureFields[k] = NamesEip155[6 + k]
  BY <1>1, <1>2, NamesDistinct
<1>3. Progress(c, NamesPlain, "legacy", 6, plain)
  <2>1. Progress(c, NamesPlain, "legacy", 0, Begun(c, "legacy"))
    BY NamesDistinct, BegunIs
  <2>2. Progress(c, NamesPlain, "legacy", 0 + Len(legacyFields), plain)
    BY <1>0, <1>1, <2>1, NamesDistinct, FieldsRead
  <2> QED BY <1>1, <2>2
<1>4. Progress(c, NamesEip155, "legacy", 6, plain)
  <2>1. Progress(c, NamesEip155, "legacy", 0, Begun(c, "legacy"))
    BY NamesDistinct, BegunIs
  <2>2. Progress(c, NamesEip155, "legacy", 0 + Len(legacyFields), plain)
    BY <1>0, <1>1, <2>1, NamesDistinct, FieldsRead
  <2> QED BY <1>1, <2>2
<1>5. at = IF plain.err = "ok" /\ AtEnd(plain) THEN plain ELSE SignatureChecked(signed155)
  BY DEF parse_legacy_tx, parse_signature
<1> HIDE DEF plain
<1>6. CASE plain.err = "ok" /\ AtEnd(plain)
  <2>1. /\ at = plain /\ at.ctx.offset = at.ctx.bufferLen /\ at.err = "ok"
    BY <1>5, <1>6 DEF AtEnd
  <2> QED BY <1>3, <2>1, NamesDistinct DEF Complete, Progress, Further
<1>7. CASE ~(plain.err = "ok" /\ AtEnd(plain))
  <2>1. Progress(c, NamesEip155, "legacy", 6 + Len(signatureFields), signed155)
    BY <1>0, <1>2, <1>4, NamesDistinct, FieldsRead
  <2>2. Progress(c, NamesEip155, "legacy", 9, signed155)
    BY <1>2, <2>1
  <2> HIDE DEF signed155
  <2> DEFINE wrong == ~NoSignature(signed155)
             checked == Refuse(signed155, wrong, "invalid_rs_values")
  <2>3. wrong \in BOOLEAN
    BY DEF NoSignature
  <2>4. at = RefuseRest(checked, "unexpected_characters")
    BY <1>5, <1>7 DEF SignatureChecked
  <2> HIDE DEF wrong
  <2>5. signed155 = [err |-> signed155.err, ctx |-> signed155.ctx, tx |-> signed155.tx] /\ signed155.err \in Errors
    BY <2>2 DEF Progress
  <2>6. /\ checked = [err |-> checked.err, ctx |-> checked.ctx, tx |-> checked.tx] /\ checked.err \in Errors
        /\ checked.err = "ok" => checked = signed155
    BY <2>3, <2>5, RefuseIs DEF Errors
  <2> HIDE DEF checked
  <2>7. Progress(c, NamesEip155, "legacy", 9, checked)
    <3>1. CASE checked.err = "ok"
      BY <2>2, <2>6, <3>1
    <3>2. CASE checked.err # "ok"
      BY <2>6, <3>2 DEF Progress
    <3> QED BY <3>1, <3>2
  <2>8. Complete(c, NamesEip155, "legacy", RefuseRest(checked, "unexpected_characters"))
    <3>1. "unexpected_characters" \in Errors \ {"ok"}
      BY DEF Errors
    <3> QED BY <2>7, <3>1, NamesDistinct, RestRefused
  <2> QED BY <2>4, <2>8
<1> QED
  BY <1>6, <1>7

-----------------------------------------------------------------------------
(* _readEth: an object that is read is the request, and nothing else.      *)

PayloadOf(bytes, type) ==
    rlp_read(Advance(Whole(bytes), IF type = "legacy" THEN 0 ELSE 1)).item

(* tx holds all the items of the one list that the request is, under the   *)
(* names of its type.                                                      *)
IsRequest(bytes, tx) ==
    LET list == PayloadOf(bytes, tx.tx_type)
        c    == Context(bytes, list.ptr, list.rlpLen)
    IN  /\ tx.tx_type \in {"legacy", "eip2930", "eip1559"}
        /\ list.kind = "LIST" /\ list.ptr + list.rlpLen = Len(bytes)
        /\ IsWindow(c)
        /\ \E names \in Protocols[tx.tx_type] :
             /\ Distinct(names) /\ Holds(c, names, Len(names), tx)
             /\ Stream(c, Len(names))[Len(names)].ctx.offset = c.bufferLen

(* The names of each type.                                                 *)
LEMMA ProtocolsAre ==
    /\ NamesPlain \in Protocols["legacy"] /\ NamesEip155 \in Protocols["legacy"]
    /\ Names2930 \in Protocols["eip2930"]
    /\ Names1559 \in Protocols["eip1559"]
<1>1. NamesPlain \in Protocols["legacy"] /\ NamesEip155 \in Protocols["legacy"]
  BY DEF Protocols, NamesPlain, NamesEip155
<1>2. Names2930 \in Protocols["eip2930"]
  BY DEF Protocols, Names2930
<1>3. Names1559 \in Protocols["eip1559"]
  BY DEF Protocols, Names1559
<1> QED
  BY <1>1, <1>2, <1>3

(* A list that has been read whole.                                        *)
LEMMA ListRead ==
    ASSUME NEW bytes \in Seq(Byte), NEW type \in {"legacy", "eip2930", "eip1559"},
           NEW list, list = PayloadOf(bytes, type),
           list.kind = "LIST", list.ptr + list.rlpLen = Len(bytes),
           NEW c, c = Context(bytes, list.ptr, list.rlpLen), IsWindow(c),
           NEW names \in Protocols[type], Distinct(names),
           NEW at, Complete(c, names, type, at)
    PROVE  at.err \in Errors /\ (at.err = "ok" => IsRequest(bytes, at.tx))
BY DEF Complete, IsRequest

(* _readEth fails, or the object is the request.                           *)
LEMMA RequestRead ==
    ASSUME NEW bytes \in Seq(Byte), NEW old, NEW read, read = _readEth(bytes, old)
    PROVE  read.err \in Errors /\ (read.err = "ok" => IsRequest(bytes, read.tx))
<1> DEFINE marker == readTxnType(bytes)
           type == marker.type
           whole == Whole(bytes)
           r == rlp_read(Advance(whole, marker.size))
           c == Context(bytes, r.item.ptr, r.item.rlpLen)
           at == [err |-> "ok", ctx |-> c, tx |-> [NoTx EXCEPT !.tx_type = type]]
<1>1. /\ marker.err \in {"ok", "unexpected_error", "unsupported_tx"}
      /\ marker.err = "ok" => /\ type \in {"legacy", "eip2930", "eip1559"}
                              /\ marker.size = IF type = "legacy" THEN 0 ELSE 1
                              /\ bytes # << >>
  <2>1. CASE bytes = << >>
    <3>1. marker = [err |-> "unexpected_error", type |-> "none", size |-> 0]
      BY <2>1, Zenon DEF readTxnType
    <3> HIDE DEF marker
    <3> QED BY <2>1, <3>1
  <2>2. CASE bytes # << >> /\ bytes[1] = 1
    <3>1. marker = [err |-> "ok", type |-> "eip2930", size |-> 1]
      BY <2>2 DEF readTxnType
    <3> HIDE DEF marker
    <3> QED BY <2>2, <3>1
  <2>3. CASE bytes # << >> /\ bytes[1] = 2
    <3>1. marker = [err |-> "ok", type |-> "eip1559", size |-> 1]
      BY <2>3 DEF readTxnType
    <3> HIDE DEF marker
    <3> QED BY <2>3, <3>1
  <2>4. CASE bytes # << >> /\ bytes[1] # 1 /\ bytes[1] # 2 /\ bytes[1] >= 192
    <3>1. marker = [err |-> "ok", type |-> "legacy", size |-> 0]
      BY <2>4 DEF readTxnType
    <3> HIDE DEF marker
    <3> QED BY <2>4, <3>1
  <2>5. CASE bytes # << >> /\ bytes[1] # 1 /\ bytes[1] # 2 /\ ~(bytes[1] >= 192)
    <3>1. marker = [err |-> "unsupported_tx", type |-> "none", size |-> 0]
      BY <2>5, Zenon DEF readTxnType
    <3> QED BY <3>1
  <2> QED BY <2>1, <2>2, <2>3, <2>4, <2>5
<1>2. read = IF marker.err # "ok" THEN [at EXCEPT !.err = marker.err]
             ELSE IF r.err # "ok" THEN [at EXCEPT !.err = r.err]
             ELSE IF r.item.kind # "LIST" THEN [at EXCEPT !.err = "unexpected_value"]
             ELSE IF r.ctx.offset # r.ctx.bufferLen THEN [at EXCEPT !.err = "unsupported_tx"]
             ELSE CASE type = "eip1559" -> parse_1559(at)
                    [] type = "eip2930" -> parse_2930(at)
                    [] type = "legacy"  -> parse_legacy_tx(at)
  BY Zenon DEF _readEth, ReadList, Cleared
<1>3. \A e \in Errors : [at EXCEPT !.err = e].err = e
  <2> HIDE DEF c, type
  <2> QED OBVIOUS
<1> HIDE DEF marker, r
<1>4. CASE marker.err # "ok"
  <2>1. read = [at EXCEPT !.err = marker.err] /\ marker.err \in Errors
    BY <1>1, <1>2, <1>4 DEF Errors
  <2> QED BY <1>3, <1>4, <2>1
<1>5. CASE marker.err = "ok"
  <2>1. IsWindow(Advance(whole, marker.size)) /\ Advance(whole, marker.size).start = 0
        /\ Advance(whole, marker.size).bytes = bytes /\ Advance(whole, marker.size).bufferLen = Len(bytes)
    <3>1. /\ whole = [bytes |-> bytes, start |-> 0, bufferLen |-> Len(bytes), offset |-> 0]
      BY DEF Whole, Context
    <3>2. IsWindow(whole)
      BY <3>1 DEF IsWindow
    <3>3. marker.size \in Nat /\ marker.size <= Len(bytes)
      <4>1. Len(bytes) >= 1
        BY <1>1, <1>5
      <4> QED BY <1>1, <1>5, <4>1
    <3>4. Available(whole, marker.size)
      BY <3>1, <3>3 DEF Available
    <3> HIDE DEF whole
    <3>5. Further(whole, Advance(whole, marker.size))
      BY <3>2, <3>3, <3>4, AdvanceIs
    <3> QED BY <3>1, <3>5 DEF Further
  <2>2. r.err \in {"ok", "unexpected_buffer_end"} /\ (r.err = "ok" => IsRead(Advance(whole, marker.size), r))
    BY <2>1, ItemsInsideWindow DEF r
  <2>3. CASE r.err # "ok"
    <3>1. read = [at EXCEPT !.err = r.err] /\ r.err \in Errors
      BY <1>2, <1>5, <2>2, <2>3 DEF Errors
    <3> QED BY <1>3, <2>3, <3>1
  <2>4. CASE r.err = "ok" /\ r.item.kind # "LIST"
    <3>1. read = [at EXCEPT !.err = "unexpected_value"] /\ "unexpected_value" \in Errors
      BY <1>2, <1>5, <2>4 DEF Errors
    <3> QED BY <1>3, <3>1
  <2>5. CASE r.err = "ok" /\ r.item.kind = "LIST" /\ r.ctx.offset # r.ctx.bufferLen
    <3>1. read = [at EXCEPT !.err = "unsupported_tx"] /\ "unsupported_tx" \in Errors
      BY <1>2, <1>5, <2>5 DEF Errors
    <3> QED BY <1>3, <3>1
  <2>6. CASE r.err = "ok" /\ r.item.kind = "LIST" /\ r.ctx.offset = r.ctx.bufferLen
    <3>1. /\ r.item \in Item /\ r.ctx.bufferLen = Len(bytes)
          /\ r.item.ptr + r.item.rlpLen = 0 + r.ctx.offset
      BY <2>1, <2>2, <2>6 DEF IsRead, Further
    <3>2. r.item.ptr \in Nat /\ r.item.rlpLen \in Nat /\ r.item.ptr + r.item.rlpLen = Len(bytes)
      BY <2>6, <3>1 DEF Item
    <3>3. c = [bytes |-> bytes, start |-> r.item.ptr, bufferLen |-> r.item.rlpLen, offset |-> 0]
      BY DEF Context
    <3>4. IsWindow(c)
      BY <3>2, <3>3 DEF IsWindow
    <3>5. type \in {"legacy", "eip2930", "eip1559"} /\ r.item = PayloadOf(bytes, type)
      BY <1>1, <1>5, Zenon DEF PayloadOf, r
    <3>6. at = Begun(c, type)
      BY DEF Begun
    <3>7. read = CASE type = "eip1559" -> parse_1559(at)
                   [] type = "eip2930" -> parse_2930(at)
                   [] type = "legacy"  -> parse_legacy_tx(at)
      BY <1>2, <1>5, <2>6
    <3> DEFINE list == r.item
    <3>8. /\ c = Context(bytes, list.ptr, list.rlpLen) /\ list = PayloadOf(bytes, type)
          /\ list.kind = "LIST" /\ list.ptr + list.rlpLen = Len(bytes)
      BY <2>6, <3>2, <3>5
    <3> HIDE DEF at, c, type, list
    <3>9. ASSUME NEW names \in Protocols[type], Distinct(names), Complete(c, names, type, read)
          PROVE  read.err \in Errors /\ (read.err = "ok" => IsRequest(bytes, read.tx))
      BY <3>4, <3>5, <3>8, <3>9, ListRead
    <3>10. CASE type = "eip1559"
      <4>1. read = parse_1559(Begun(c, "eip1559"))
        BY <3>6, <3>7, <3>10
      <4>2. Complete(c, Names1559, "eip1559", read)
        BY <3>4, <4>1, TypedRead
      <4> QED BY <3>9, <3>10, <4>2, NamesDistinct, ProtocolsAre
    <3>11. CASE type = "eip2930"
      <4>1. read = parse_2930(Begun(c, "eip2930"))
        BY <3>6, <3>7, <3>11
      <4>2. Complete(c, Names2930, "eip2930", read)
        BY <3>4, <4>1, TypedRead
      <4> QED BY <3>9, <3>11, <4>2, NamesDistinct, ProtocolsAre
    <3>12. CASE type = "legacy"
      <4>1. read = parse_legacy_tx(Begun(c, "legacy"))
        BY <3>6, <3>7, <3>12
      <4>2. Complete(c, NamesPlain, "legacy", read) \/ Complete(c, NamesEip155, "legacy", read)
        BY <3>4, <4>1, LegacyRead
      <4> QED BY <3>9, <3>12, <4>2, NamesDistinct, ProtocolsAre
    <3> QED BY <3>5, <3>10, <3>11, <3>12
  <2> QED BY <2>3, <2>4, <2>5, <2>6
<1> QED
  BY <1>4, <1>5

-----------------------------------------------------------------------------
(* The invariant.                                                          *)

Validated(bytes, tx) == tx.is_blindsign \/ tx.fields["data"].rlpLen = 0 \/ validateERC20(bytes, tx)

TypeInv == sent \in Seq(Byte) /\ blindsign \in BOOLEAN

(* What the review shows, and what is signed after it, is the request, and *)
(* is a transfer or to be signed blindly.                                  *)
RequestInv == Accepted => IsRequest(sent, eth_tx_obj) /\ Validated(sent, eth_tx_obj)

(* The signature that was given belongs to the object.                     *)
SignedInv ==
    verdict = "signed" =>
      /\ signed.parity \in {0, 1}
      /\ signed.v = _computeV(eth_tx_obj, signed.parity, FALSE)

Inv == TypeInv /\ RequestInv /\ BlindSigningAllowedAndShown /\ SignedInv

Flagged(tx, erc20, blind) == [tx EXCEPT !.is_erc20_transfer = erc20, !.is_blindsign = blind]

(* The flags of an object are no part of the request.                      *)
LEMMA FlaggedIsRequest ==
    ASSUME NEW bytes, NEW tx, IsRequest(bytes, tx), NEW erc20 \in BOOLEAN, NEW blind \in BOOLEAN,
           NEW new, new = Flagged(tx, erc20, blind)
    PROVE  IsRequest(bytes, new) /\ new.fields = tx.fields /\ new.is_blindsign = blind
<1>1. tx \in Tx
  BY DEF IsRequest, Holds
<1>2. /\ new \in Tx /\ new.fields = tx.fields /\ new.is_blindsign = blind
      /\ new.tx_type = tx.tx_type /\ new.chain_id_decoded = tx.chain_id_decoded
  <2> DEFINE with == [tx EXCEPT !.is_erc20_transfer = erc20]
  <2>1. /\ with \in Tx /\ with.fields = tx.fields
        /\ with.tx_type = tx.tx_type /\ with.chain_id_decoded = tx.chain_id_decoded
    BY <1>1 DEF Tx
  <2>2. new = [with EXCEPT !.is_blindsign = blind]
    BY DEF Flagged
  <2> HIDE DEF with
  <2> QED BY <2>1, <2>2 DEF Tx
<1>3. ASSUME NEW c, NEW names, Holds(c, names, Len(names), tx)
      PROVE  Holds(c, names, Len(names), new)
  <2>1. ChainRead(c.bytes, new)
    BY <1>2, <1>3 DEF Holds, ChainRead
  <2> QED BY <1>2, <1>3, <2>1 DEF Holds
<1>4. IsRequest(bytes, new)
  <2> DEFINE list == PayloadOf(bytes, tx.tx_type)
             c    == Context(bytes, list.ptr, list.rlpLen)
  <2>1. /\ tx.tx_type \in {"legacy", "eip2930", "eip1559"}
        /\ list.kind = "LIST" /\ list.ptr + list.rlpLen = Len(bytes) /\ IsWindow(c)
    BY DEF IsRequest
  <2>2. PICK names \in Protocols[tx.tx_type] :
          /\ Distinct(names) /\ Holds(c, names, Len(names), tx)
          /\ Stream(c, Len(names))[Len(names)].ctx.offset = c.bufferLen
    BY DEF IsRequest
  <2>3. Holds(c, names, Len(names), new)
    BY <1>3, <2>2
  <2>4. PayloadOf(bytes, new.tx_type) = list
    BY <1>2
  <2> HIDE DEF list
  <2>5. c = Context(bytes, PayloadOf(bytes, new.tx_type).ptr, PayloadOf(bytes, new.tx_type).rlpLen)
    BY <2>4
  <2> HIDE DEF c
  <2> QED BY <1>2, <2>1, <2>2, <2>3, <2>4, <2>5 DEF IsRequest
<1> QED
  BY <1>2, <1>4

(* Validation lets a call pass that is none, that is a transfer, or that   *)
(* may be signed blindly.                                                  *)
LEMMA ValidationIs ==
    ASSUME TypeInv, NEW bytes, NEW tx
    PROVE  LET v == _validateTxEth(bytes, tx, FALSE)
           IN  /\ v.erc20 \in BOOLEAN /\ v.blind \in BOOLEAN
               /\ v.err \in {"ok", "blindsign_mode_required"}
               /\ v.blind \/ tx.fields["data"].rlpLen = 0 \/ validateERC20(bytes, tx)
               /\ v.err = "ok" => (v.blind => blindsign) /\ v.required = v.blind
<1> DEFINE v == _validateTxEth(bytes, tx, FALSE)
           none == tx.fields["data"].rlpLen = 0
           transfer == validateERC20(bytes, tx)
<1> SUFFICES /\ v.erc20 \in BOOLEAN /\ v.blind \in BOOLEAN
             /\ v.err \in {"ok", "blindsign_mode_required"}
             /\ v.blind \/ tx.fields["data"].rlpLen = 0 \/ validateERC20(bytes, tx)
             /\ v.err = "ok" => (v.blind => blindsign) /\ v.required = v.blind
  BY Zenon
<1>1. v = IF none \/ (~none /\ transfer)
          THEN Validation(~none /\ transfer, FALSE, FALSE, "ok")
          ELSE Validation(FALSE, TRUE, FALSE \/ blindsign, IF blindsign THEN "ok" ELSE "blindsign_mode_required")
  BY Zenon DEF _validateTxEth
<1> HIDE DEF v
<1>2. blindsign \in BOOLEAN
  BY DEF TypeInv
<1>3. CASE none
  <2>1. (~none /\ transfer) = FALSE
    BY <1>3
  <2>2. v = Validation(FALSE, FALSE, FALSE, "ok")
    BY <1>1, <1>3, <2>1, Zenon
  <2>3. v.erc20 = FALSE /\ v.blind = FALSE /\ v.required = FALSE /\ v.err = "ok"
    <3> HIDE DEF none, transfer
    <3> QED BY <2>2 DEF Validation
  <2> QED BY <1>3, <2>3
<1>4. CASE ~none /\ transfer
  <2>1. (~none /\ transfer) = TRUE
    BY <1>4
  <2>2. v = Validation(TRUE, FALSE, FALSE, "ok")
    BY <1>1, <1>4, <2>1, Zenon
  <2>3. v.erc20 = TRUE /\ v.blind = FALSE /\ v.required = FALSE /\ v.err = "ok"
    <3> HIDE DEF none, transfer
    <3> QED BY <2>2 DEF Validation
  <2> QED BY <1>4, <2>3
<1>5. CASE ~none /\ ~transfer /\ blindsign
  <2>1. (FALSE \/ blindsign) = TRUE
    BY <1>5
  <2>2. v = Validation(FALSE, TRUE, TRUE, "ok")
    BY <1>1, <1>5, <2>1, Zenon
  <2>3. v.erc20 = FALSE /\ v.blind = TRUE /\ v.required = TRUE /\ v.err = "ok"
    <3> HIDE DEF none, transfer
    <3> QED BY <2>2 DEF Validation
  <2> QED BY <1>5, <2>3
<1>6. CASE ~none /\ ~transfer /\ ~blindsign
  <2>1. (FALSE \/ blindsign) = FALSE
    BY <1>6
  <2>2. v = Validation(FALSE, TRUE, FALSE, "blindsign_mode_required")
    BY <1>1, <1>6, <2>1, Zenon
  <2>3. v.erc20 = FALSE /\ v.blind = TRUE /\ v.required = FALSE /\ v.err = "blindsign_mode_required"
    <3> HIDE DEF none, transfer
    <3> QED BY <2>2 DEF Validation
  <2> QED BY <1>6, <2>3
<1> QED
  BY <1>3, <1>4, <1>5, <1>6

(* Initially nothing is reviewed.                                          *)
LEMMA InvAtFirst == Init => Inv
<1> SUFFICES ASSUME Init PROVE Inv
  OBVIOUS
<1>1. << >> \in Seq(Byte)
  OBVIOUS
<1> QED
  BY <1>1 DEF Init, Inv, TypeInv, RequestInv, Accepted, BlindSigningAllowedAndShown, SignedInv

(* A transaction comes in.                                                 *)
LEMMA InvThroughRequest ==
    ASSUME Inv, NEW bytes \in Requests, handleSignEth(bytes)
    PROVE  Inv'
<1>1. bytes \in Seq(Byte) /\ sent' = bytes /\ blindsign' = blindsign
  BY TransactionsAssumption DEF handleSignEth
<1>2. PICK read : read = _readEth(bytes, eth_tx_obj) /\ Parsed(bytes, read)
  BY Zenon DEF handleSignEth
<1>3. read.err \in Errors /\ (read.err = "ok" => IsRequest(bytes, read.tx))
  BY <1>1, <1>2, RequestRead
<1>4. TypeInv'
  BY <1>1 DEF Inv, TypeInv
<1>5. CASE read.err # "ok"
  <2>1. verdict' = read.err
    BY <1>2, <1>5 DEF Parsed
  <2>2. verdict' \notin {"review", "signed"}
    BY <1>3, <2>1 DEF Errors
  <2> QED BY <1>4, <2>2 DEF Inv, RequestInv, Accepted, BlindSigningAllowedAndShown, SignedInv
<1>6. CASE read.err = "ok"
  <2> DEFINE v == _validateTxEth(bytes, read.tx, FALSE)
  <2>1. /\ eth_tx_obj' = Flagged(read.tx, v.erc20, v.blind)
        /\ blindsign_required' = v.required
        /\ verdict' \in IF v.err # "ok" THEN {v.err} ELSE {"review", "not_shown"}
    BY <1>2, <1>6, Zenon DEF Parsed, Flagged
  <2>2. /\ v.erc20 \in BOOLEAN /\ v.blind \in BOOLEAN
        /\ v.err \in {"ok", "blindsign_mode_required"}
        /\ v.blind \/ read.tx.fields["data"].rlpLen = 0 \/ validateERC20(bytes, read.tx)
        /\ v.err = "ok" => (v.blind => blindsign) /\ v.required = v.blind
    BY ValidationIs DEF Inv
  <2> HIDE DEF v
  <2>3. /\ IsRequest(bytes, eth_tx_obj') /\ eth_tx_obj'.fields = read.tx.fields
        /\ eth_tx_obj'.is_blindsign = v.blind
    BY <1>3, <1>6, <2>1, <2>2, FlaggedIsRequest
  <2>4. Validated(bytes, eth_tx_obj')
    <3>1. validateERC20(bytes, read.tx) => validateERC20(bytes, eth_tx_obj')
      BY <2>3, Zenon DEF validateERC20
    <3> QED BY <2>2, <2>3, <3>1 DEF Validated
  <2>5. RequestInv'
    BY <1>1, <2>3, <2>4 DEF RequestInv
  <2>6. BlindSigningAllowedAndShown'
    BY <1>1, <2>1, <2>2, <2>3 DEF BlindSigningAllowedAndShown
  <2>7. SignedInv'
    BY <2>1, <2>2 DEF SignedInv
  <2> QED BY <1>4, <2>5, <2>6, <2>7 DEF Inv
<1> QED
  BY <1>5, <1>6

(* Every step keeps the invariant.                                         *)
LEMMA InvThrough == Inv /\ [Next]_vars => Inv'
<1> SUFFICES ASSUME Inv, [Next]_vars PROVE Inv'
  OBVIOUS
<1> USE DEF Inv, TypeInv, RequestInv, Accepted, BlindSigningAllowedAndShown, SignedInv
<1>1. ASSUME NEW bytes \in Requests, handleSignEth(bytes) PROVE Inv'
  BY <1>1, InvThroughRequest
<1>2. ASSUME NEW parity \in {0, 1}, Approve(parity) PROVE Inv'
  BY <1>2 DEF Approve
<1>3. CASE Reject
  BY <1>3 DEF Reject
<1>4. CASE h_blindsign_toggle
  BY <1>4 DEF h_blindsign_toggle
<1>5. CASE UNCHANGED vars
  BY <1>5 DEF vars
<1> QED
  BY <1>1, <1>2, <1>3, <1>4, <1>5 DEF Next

(* What is accepted is the request, validated, and its signature is its.   *)
THEOREM RequestKept == Spec => []Inv
BY InvAtFirst, InvThrough, PTL DEF Spec
-----------------------------------------------------------------------------
(* What is reviewed is what was sent.                                      *)

(* The content of an item within the bytes.                                *)
LEMMA ContentIs ==
    ASSUME NEW bytes \in Seq(Byte), NEW item \in Item, item.ptr + item.rlpLen <= Len(bytes)
    PROVE  Content(bytes, item) \in Seq(Byte) /\ Len(Content(bytes, item)) = item.rlpLen
<1> DEFINE first == item.ptr + 1
           last == item.ptr + item.rlpLen
<1>1. first \in 1 .. Len(bytes) + 1 /\ last \in first - 1 .. Len(bytes) /\ last - first + 1 = item.rlpLen
  BY DEF Item
<1> HIDE DEF first, last
<1>2. SubSeq(bytes, first, last) \in Seq(Byte) /\ Len(SubSeq(bytes, first, last)) = last - first + 1
  BY <1>1, SubSeqProperties
<1> QED
  BY <1>1, <1>2 DEF Content, first, last

(* The items of an accepted object are within the request.                 *)
LEMMA ItemsInside ==
    ASSUME NEW bytes \in Seq(Byte), NEW tx, IsRequest(bytes, tx), NEW f \in Fields
    PROVE  tx.fields[f] \in Item /\ tx.fields[f].ptr + tx.fields[f].rlpLen <= Len(bytes)
<1> DEFINE list == PayloadOf(bytes, tx.tx_type)
           c    == Context(bytes, list.ptr, list.rlpLen)
<1>1. IsWindow(c) /\ list.ptr + list.rlpLen = Len(bytes)
  BY DEF IsRequest
<1>2. PICK names : Holds(c, names, Len(names), tx)
  BY DEF IsRequest
<1>3. c.start = list.ptr /\ c.bufferLen = list.rlpLen
  BY DEF Context
<1> HIDE DEF c, list
<1>4. tx.fields[f] \in Item /\ tx.fields[f].ptr + tx.fields[f].rlpLen <= c.start + c.bufferLen
  BY <1>2 DEF Holds, Tx
<1> QED
  BY <1>1, <1>3, <1>4

(* The fields are the items, in the order of the type.                     *)
LEMMA RequestFields == Inv => FieldsAreTheItems
<1> SUFFICES ASSUME Inv, Accepted PROVE FieldsAreTheItems
  BY DEF FieldsAreTheItems
<1>1. IsRequest(sent, eth_tx_obj)
  BY DEF Inv, RequestInv
<1>2. Payload = PayloadOf(sent, eth_tx_obj.tx_type)
  BY Zenon DEF Payload, PayloadOf
<1> DEFINE c == Context(sent, Payload.ptr, Payload.rlpLen)
<1>3. Payload.kind = "LIST" /\ Payload.ptr + Payload.rlpLen = Len(sent)
  BY <1>1, <1>2, Zenon DEF IsRequest
<1>4. PICK names \in Protocols[eth_tx_obj.tx_type] :
        /\ Distinct(names) /\ Holds(c, names, Len(names), eth_tx_obj)
        /\ Stream(c, Len(names))[Len(names)].ctx.offset = c.bufferLen
  BY <1>1, <1>2, Zenon DEF IsRequest
<1> DEFINE stream == Stream(c, Len(names))
<1>5. \A k \in DOMAIN names : eth_tx_obj.fields[names[k]] = stream[k].item
  BY <1>4 DEF Holds, Distinct
<1>6. /\ \A k \in DOMAIN names : eth_tx_obj.fields[names[k]] = stream[k].item
      /\ stream[Len(names)].ctx.offset = c.bufferLen
      /\ Payload.kind = "LIST" /\ Payload.ptr + Payload.rlpLen = Len(sent)
  BY <1>3, <1>4, <1>5
<1> QED
  BY <1>4, <1>6, Zenon DEF FieldsAreTheItems, Stream

(* Nothing else is in the object.                                          *)
LEMMA RequestOnly == Inv => NothingStale
<1> SUFFICES ASSUME Inv, Accepted PROVE NothingStale
  BY DEF NothingStale
<1>1. IsRequest(sent, eth_tx_obj)
  BY DEF Inv, RequestInv
<1>2. PICK c : \E names \in Protocols[eth_tx_obj.tx_type] :
        Distinct(names) /\ Holds(c, names, Len(names), eth_tx_obj)
  BY <1>1, Zenon DEF IsRequest
<1> PICK names \in Protocols[eth_tx_obj.tx_type] :
      Distinct(names) /\ Holds(c, names, Len(names), eth_tx_obj)
  BY <1>2
<1>3. DOMAIN names = 1 .. Len(names)
  BY DEF Distinct
<1>4. \A f \in Fields : eth_tx_obj.fields[f] # NoItem <=> \E k \in DOMAIN names : names[k] = f
  BY <1>3 DEF Holds
<1>5. eth_tx_obj.fields["chainId"] = NoItem => eth_tx_obj.chain_id_decoded = << >>
  BY DEF Holds, ChainRead
<1> QED
  BY <1>4, <1>5 DEF NothingStale

(* The chain id is the one that was sent.                                  *)
LEMMA RequestChainId == Inv => ChainIdAllowed
<1> DEFINE item == eth_tx_obj.fields["chainId"]
           content == Content(sent, item)
<1> SUFFICES ASSUME Inv, Accepted, item # NoItem, item.rlpLen < 256
             PROVE  /\ Number(content) = eth_tx_obj.chain_id_decoded
                    /\ Number(content) \in Networks \ {<< >>, <<1>>}
  BY Zenon DEF ChainIdAllowed
<1>1. IsRequest(sent, eth_tx_obj) /\ sent \in Seq(Byte)
  BY DEF Inv, RequestInv, TypeInv
<1>2. ChainRead(sent, eth_tx_obj)
  <2>1. \E c : ChainRead(c.bytes, eth_tx_obj) /\ c.bytes = sent
    <3> DEFINE d == Context(sent, PayloadOf(sent, eth_tx_obj.tx_type).ptr,
                            PayloadOf(sent, eth_tx_obj.tx_type).rlpLen)
    <3>1. PICK names : Holds(d, names, Len(names), eth_tx_obj)
      BY <1>1, Zenon DEF IsRequest
    <3>2. d.bytes = sent
      BY DEF Context
    <3> HIDE DEF d
    <3> QED BY <3>1, <3>2 DEF Holds
  <2> QED BY <2>1
<1>3. ChainIdOf(sent, item).err = "ok"
      /\ eth_tx_obj.chain_id_decoded = ChainIdOf(sent, item).num
      /\ ChainIdOf(sent, item).num \in Networks \ {<< >>, <<1>>}
  BY <1>2 DEF ChainRead, Selected
<1>4. item \in Item /\ content \in Seq(Byte) /\ Len(content) = item.rlpLen
  <2>1. "chainId" \in Fields
    BY DEF Fields
  <2> QED BY <1>1, <2>1, ContentIs, ItemsInside
<1> HIDE DEF item
<1>5. ChainIdOf(sent, item).num = Number(content)
  <2>1. CASE item.rlpLen > 1
    <3>1. item.rlpLen % 256 = item.rlpLen
      BY <1>4 DEF Item
    <3>2. SubSeq(content, 1, item.rlpLen) = content
      <4> HIDE DEF content
      <4> QED BY <1>4
    <3>3. ChainIdOf(sent, item) = be_bytes_to_u64(content, item.rlpLen)
      BY <2>1, <3>1 DEF ChainIdOf
    <3> HIDE DEF content
    <3>4. CASE item.rlpLen = 0 \/ item.rlpLen > 8
      <4>1. ChainIdOf(sent, item).err = "unexpected_error"
        BY <3>3, <3>4 DEF be_bytes_to_u64
      <4> QED BY <1>3, <4>1
    <3>5. CASE ~(item.rlpLen = 0 \/ item.rlpLen > 8)
      <4>1. ChainIdOf(sent, item) = [err |-> "ok", num |-> Number(SubSeq(content, 1, item.rlpLen))]
        BY <3>3, <3>5, Zenon DEF be_bytes_to_u64
      <4>2. ChainIdOf(sent, item) = [err |-> "ok", num |-> Number(content)]
        BY <3>2, <4>1, Zenon
      <4> QED BY <4>2
    <3> QED BY <3>4, <3>5
  <2>2. CASE ~(item.rlpLen > 1) /\ item.kind = "BYTE"
    BY <2>2 DEF ChainIdOf
  <2>3. CASE ~(item.rlpLen > 1) /\ item.kind # "BYTE"
    <3>1. ChainIdOf(sent, item).err = "unexpected_error"
      BY <2>3 DEF ChainIdOf
    <3> QED BY <1>3, <3>1
  <2> QED BY <2>1, <2>2, <2>3
<1> QED
  BY <1>3, <1>5

(* What is reviewed is what was sent, all of it and nothing else.          *)
THEOREM RequestReviewed == Spec => []ReviewedAsSent
<1>1. Inv => ReviewedAsSent
  BY RequestFields, RequestOnly, RequestChainId DEF ReviewedAsSent
<1> QED
  BY <1>1, RequestKept, PTL
-----------------------------------------------------------------------------
(* What is shown as a transfer is one.                                     *)

(* Two parts of a sequence that follow each other.                         *)
LEMMA SubSeqJoined ==
    ASSUME NEW S, NEW data \in Seq(S), NEW m \in 0 .. Len(data), NEW n \in m .. Len(data)
    PROVE  SubSeq(data, 1, m) \o SubSeq(data, m + 1, n) = SubSeq(data, 1, n)
<1> DEFINE a == SubSeq(data, 1, m)
           b == SubSeq(data, m + 1, n)
           c == SubSeq(data, 1, n)
           d == a \o b
<1>1. a \in Seq(S) /\ Len(a) = m /\ \A k \in 1 .. m : a[k] = data[k]
  BY SubSeqProperties
<1>2. b \in Seq(S) /\ Len(b) = n - m /\ \A k \in 1 .. n - m : b[k] = data[k + m]
  BY SubSeqProperties
<1>3. c \in Seq(S) /\ Len(c) = n /\ \A k \in 1 .. n : c[k] = data[k]
  BY SubSeqProperties
<1> HIDE DEF a, b, c
<1>4. d \in Seq(S) /\ Len(d) = n /\ \A k \in 1 .. n : d[k] = IF k <= m THEN a[k] ELSE b[k - m]
  BY <1>1, <1>2, ConcatProperties
<1> HIDE DEF d
<1>5. ASSUME NEW k \in 1 .. n PROVE d[k] = c[k]
  <2>1. CASE k <= m
    <3>1. k \in 1 .. m
      BY <2>1
    <3> QED BY <1>1, <1>3, <1>4, <2>1, <3>1
  <2>2. CASE ~(k <= m)
    <3>1. k - m \in 1 .. n - m /\ (k - m) + m = k
      BY <2>2
    <3>2. d[k] = b[k - m]
      BY <1>4, <2>2
    <3>3. b[k - m] = data[k]
      BY <1>2, <3>1, Zenon
    <3> QED BY <1>3, <3>2, <3>3
  <2> QED BY <2>1, <2>2
<1>6. d = c
  BY <1>3, <1>4, <1>5
<1> QED
  BY <1>6 DEF a, b, c, d

(* Four parts that make up all of it.                                      *)
LEMMA FourParts ==
    ASSUME NEW S, NEW data \in Seq(S),
           NEW a \in 0 .. Len(data), NEW b \in a .. Len(data), NEW c \in b .. Len(data)
    PROVE  data = SubSeq(data, 1, a) \o SubSeq(data, a + 1, b)
                  \o SubSeq(data, b + 1, c) \o SubSeq(data, c + 1, Len(data))
<1>1. /\ b \in 0 .. Len(data) /\ c \in 0 .. Len(data) /\ Len(data) \in c .. Len(data)
      /\ SubSeq(data, 1, Len(data)) = data
  OBVIOUS
<1>2. SubSeq(data, 1, a) \o SubSeq(data, a + 1, b) = SubSeq(data, 1, b)
  BY SubSeqJoined
<1>3. SubSeq(data, 1, b) \o SubSeq(data, b + 1, c) = SubSeq(data, 1, c)
  BY <1>1, SubSeqJoined
<1>4. SubSeq(data, 1, c) \o SubSeq(data, c + 1, Len(data)) = data
  BY <1>1, SubSeqJoined
<1> QED
  BY <1>2, <1>3, <1>4, Zenon

(* An element of a part.                                                   *)
LEMMA SubSeqAt ==
    ASSUME NEW S, NEW data \in Seq(S), NEW m \in 1 .. Len(data), NEW n \in m .. Len(data),
           NEW i \in 1 .. n - m + 1
    PROVE  SubSeq(data, m, n)[i] = data[m + i - 1]
BY SubSeqProperties

(* A call that validateERC20 lets pass, put together from its parts.       *)
LEMMA TransferJoined ==
    ASSUME NEW data \in Seq(Byte), Len(data) = 68,
           SubSeq(data, 1, 4) = <<169, 5, 156, 187>>,
           SubSeq(data, 5, 16) = [k \in 1 .. 12 |-> 0]
    PROVE  /\ \A k \in 5 .. 16 : data[k] = 0
           /\ data = <<169, 5, 156, 187>> \o [k \in 1 .. 12 |-> 0]
                       \o SubSeq(data, 17, 36) \o SubSeq(data, 37, 68)
<1> DEFINE zeros == SubSeq(data, 5, 16)
<1>1. ASSUME NEW k \in 5 .. 16 PROVE data[k] = 0
  <2> DEFINE j == k - 4
  <2>1. j \in 1 .. 12 /\ 5 + j - 1 = k
    OBVIOUS
  <2>2. zeros = [i \in 1 .. 12 |-> 0]
    OBVIOUS
  <2> HIDE DEF zeros
  <2>3. zeros[j] = 0
    BY <2>1, <2>2
  <2> HIDE DEF j
  <2>4. zeros[j] = data[5 + j - 1]
    BY <2>1, SubSeqAt DEF zeros
  <2> QED BY <2>1, <2>3, <2>4
<1> HIDE DEF zeros
<1> DEFINE a == 4
           b == 16
           c == 36
<1>2. a \in 0 .. Len(data) /\ b \in a .. Len(data) /\ c \in b .. Len(data)
  OBVIOUS
<1> HIDE DEF a, b, c
<1>3. data = SubSeq(data, 1, a) \o SubSeq(data, a + 1, b)
             \o SubSeq(data, b + 1, c) \o SubSeq(data, c + 1, Len(data))
  <2>1. \A x \in 0 .. Len(data) : \A y \in x .. Len(data) : \A z \in y .. Len(data) :
          data = SubSeq(data, 1, x) \o SubSeq(data, x + 1, y)
                 \o SubSeq(data, y + 1, z) \o SubSeq(data, z + 1, Len(data))
    BY FourParts, Zenon
  <2>2. \A y \in a .. Len(data) : \A z \in y .. Len(data) :
          data = SubSeq(data, 1, a) \o SubSeq(data, a + 1, y)
                 \o SubSeq(data, y + 1, z) \o SubSeq(data, z + 1, Len(data))
    BY <1>2, <2>1, Zenon
  <2>3. \A z \in b .. Len(data) :
          data = SubSeq(data, 1, a) \o SubSeq(data, a + 1, b)
                 \o SubSeq(data, b + 1, z) \o SubSeq(data, z + 1, Len(data))
    BY <1>2, <2>2, Zenon
  <2> QED BY <1>2, <2>3, Zenon
<1>4. a = 4 /\ a + 1 = 5 /\ b = 16 /\ b + 1 = 17 /\ c = 36 /\ c + 1 = 37
  BY DEF a, b, c
<1>6. data = SubSeq(data, 1, 4) \o SubSeq(data, 5, 16) \o SubSeq(data, 17, 36) \o SubSeq(data, 37, 68)
  BY <1>3, <1>4, Zenon
<1>7. data = <<169, 5, 156, 187>> \o [k \in 1 .. 12 |-> 0]
              \o SubSeq(data, 17, 36) \o SubSeq(data, 37, 68)
  BY <1>6, Zenon
<1> QED
  BY <1>1, <1>7, Zenon

(* A call that is not signed blindly is none, or a transfer of the token   *)
(* that it calls.                                                          *)
LEMMA RequestTransfer == Inv => ClearSignedIsTransfer
<1> DEFINE data == Content(sent, eth_tx_obj.fields["data"])
           to == eth_tx_obj.fields["to"]
           address == SubSeq(sent, to.ptr + 1, to.ptr + ETH_ADDRESS_LEN)
           recipient == SubSeq(data, 17, 36)
           amount    == SubSeq(data, 37, 68)
           token     == getERC20Token(sent, eth_tx_obj)
<1> SUFFICES ASSUME Inv, Accepted, ~eth_tx_obj.is_blindsign
             PROVE  \/ data = << >>
                    \/ /\ data = <<169, 5, 156, 187>> \o [k \in 1 .. 12 |-> 0] \o recipient \o amount
                       /\ token.err = "ok"
                       /\ token.token \in {Content(sent, to), <<"?? ">>}
  BY Zenon DEF ClearSignedIsTransfer
<1>1. IsRequest(sent, eth_tx_obj) /\ sent \in Seq(Byte) /\ Validated(sent, eth_tx_obj)
  BY DEF Inv, RequestInv, TypeInv
<1>2. /\ data \in Seq(Byte) /\ Len(data) = eth_tx_obj.fields["data"].rlpLen
  <2>1. "data" \in Fields
    BY DEF Fields
  <2> QED BY <1>1, <2>1, ContentIs, ItemsInside
<1> HIDE DEF data
<1>3. CASE eth_tx_obj.fields["data"].rlpLen = 0
  BY <1>2, <1>3
<1>4. CASE validateERC20(sent, eth_tx_obj)
  <2>1. /\ to.rlpLen = 20 /\ Len(data) = 68
        /\ SubSeq(data, 1, Len(ERC20_TRANSFER_PREFIX)) = ERC20_TRANSFER_PREFIX
        /\ SubSeq(data, 5, 16) = [k \in 1 .. 12 |-> 0]
    BY <1>4, Zenon DEF validateERC20, ETH_ADDRESS_LEN, ERC20_DATA_LENGTH, StartsWith, data
  <2>2. Len(ERC20_TRANSFER_PREFIX) = 4
    BY DEF ERC20_TRANSFER_PREFIX
  <2>3. SubSeq(data, 1, 4) = <<169, 5, 156, 187>>
    BY <2>1, <2>2, Zenon DEF ERC20_TRANSFER_PREFIX
  <2>4. /\ \A k \in 5 .. 16 : data[k] = 0
        /\ data = <<169, 5, 156, 187>> \o [k \in 1 .. 12 |-> 0] \o recipient \o amount
    BY <1>2, <2>1, <2>3, TransferJoined
  <2>5. token = IF \/ Len(data) # ERC20_DATA_LENGTH
                   \/ ~StartsWith(data, ERC20_TRANSFER_PREFIX)
                   \/ \E k \in 5 .. 16 : data[k] # 0
                THEN [err |-> "unexpected_value", token |-> << >>]
                ELSE [err |-> "ok", token |-> IF address \in Tokens THEN address ELSE <<"?? ">>]
    BY Zenon DEF getERC20Token, data
  <2>6. /\ Len(data) = ERC20_DATA_LENGTH /\ StartsWith(data, ERC20_TRANSFER_PREFIX)
        /\ ~\E k \in 5 .. 16 : data[k] # 0
    <3>1. Len(data) = ERC20_DATA_LENGTH
      BY <2>1 DEF ERC20_DATA_LENGTH
    <3>2. StartsWith(data, ERC20_TRANSFER_PREFIX)
      BY <2>1, Zenon DEF StartsWith
    <3> QED BY <2>4, <3>1, <3>2
  <2>7. address = Content(sent, to)
    BY <2>1, Zenon DEF Content, ETH_ADDRESS_LEN
  <2> HIDE DEF address, token
  <2>8. token = [err |-> "ok", token |-> IF address \in Tokens THEN address ELSE <<"?? ">>]
    BY <2>5, <2>6, Zenon
  <2>9. token.err = "ok" /\ token.token = IF address \in Tokens THEN address ELSE <<"?? ">>
    BY <2>8
  <2>10. token.token \in {address, <<"?? ">>}
    BY <2>9, Zenon
  <2> QED BY <2>4, <2>7, <2>9, <2>10, Zenon
<1> QED
  BY <1>1, <1>3, <1>4 DEF Validated

(* A user knows what she signs, or that she does not.                      *)
THEOREM TransfersShown == Spec => []ShownOrWarned
<1>1. Inv => ShownOrWarned
  BY RequestTransfer DEF Inv, ShownOrWarned
<1> QED
  BY <1>1, RequestKept, PTL

-----------------------------------------------------------------------------
(* The parity in v.                                                        *)

(* The lowest digit of a chain id makes it up, in the seven lowest bits.   *)
LEMMA LowestBits ==
    ASSUME NEW d1 \in Byte, NEW d2 \in Byte, NEW d3 \in Byte, NEW d4 \in Byte
    PROVE  LET n == (d4 % 128) * 16777216 + d3 * 65536 + d2 * 256 + d1
           IN  n \in Nat /\ n % 128 = d1 % 128
BY SMT DEF Byte

(* The chain id's lower bits.                                              *)
LEMMA Low31Is ==
    ASSUME NEW id \in Seq(Byte)
    PROVE  /\ Low31(id) \in Nat
           /\ Low31(id) % 128 = (IF id = << >> THEN 0 ELSE Last(id)) % 128
           /\ (IF id = << >> THEN 0 ELSE Last(id)) \in Byte
<1> DEFINE digit(k) == IF Len(id) >= k THEN id[Len(id) + 1 - k] ELSE 0
<1>1. /\ digit(1) \in Byte /\ digit(2) \in Byte /\ digit(3) \in Byte /\ digit(4) \in Byte
  <2>1. ASSUME NEW k \in 1 .. 4 PROVE digit(k) \in Byte
    <3>1. CASE Len(id) >= k
      <4>1. Len(id) + 1 - k \in 1 .. Len(id)
        BY <3>1
      <4> QED BY <3>1, <4>1
    <3>2. CASE ~(Len(id) >= k)
      BY <3>2 DEF Byte
    <3> QED BY <3>1, <3>2
  <2> HIDE DEF digit
  <2> QED BY <2>1
<1>2. digit(1) = IF id = << >> THEN 0 ELSE Last(id)
  BY DEF Last
<1> DEFINE sum == (digit(4) % 128) * 16777216 + digit(3) * 65536 + digit(2) * 256 + digit(1)
<1>3. Low31(id) = sum
  BY SMT DEF Low31
<1> HIDE DEF digit
<1>4. sum \in Nat /\ sum % 128 = digit(1) % 128
  BY <1>1, LowestBits, SMT
<1> HIDE DEF sum
<1> QED
  BY <1>1, <1>2, <1>3, <1>4, Zenon

(* The parity is what is left of v.                                        *)
LEMMA ParityLeft ==
    ASSUME NEW parity \in {0, 1}, NEW n \in Nat, NEW last \in Byte, n % 128 = last % 128
    PROVE  parity = (((35 + parity + (n % 128) * 2) % 256) - 35 - 2 * last) % 256
<1>1. last \in 0 .. 255 /\ n % 128 = IF last < 128 THEN last ELSE last - 128
  BY DEF Byte
<1> QED
  BY <1>1

(* The host finds the parity of the signature in v.                        *)
LEMMA SignedParity == Inv => VTellsParity
<1> DEFINE id == eth_tx_obj.chain_id_decoded
           last == IF id = << >> THEN 0 ELSE Last(id)
           parity == signed.parity
<1>0. SUFFICES ASSUME Inv, verdict = "signed", Low31(id) < 2147483630
               PROVE  parity = IF eth_tx_obj.tx_type = "legacy" THEN (signed.v - 35 - 2 * last) % 256 ELSE signed.v
  BY SMT DEF VTellsParity
<1>7. Inv /\ verdict = "signed"
  BY <1>0, SMT
<1>1. /\ IsRequest(sent, eth_tx_obj)
      /\ parity \in {0, 1} /\ signed.v = _computeV(eth_tx_obj, parity, FALSE)
  BY <1>7 DEF Inv, RequestInv, SignedInv, Accepted
<1>2. eth_tx_obj.tx_type \in {"legacy", "eip2930", "eip1559"} /\ id \in Seq(Byte)
  BY <1>1 DEF IsRequest, Holds, Tx
<1>3. Low31(id) \in Nat /\ Low31(id) % 128 = last % 128 /\ last \in Byte
  BY <1>2, Low31Is
<1> HIDE DEF id, last, parity
<1>4. signed.v = IF eth_tx_obj.tx_type \in {"eip2930", "eip1559"} THEN parity
                 ELSE IF Saturates(EIP155_V_BASE + parity, Low31(id)) THEN 255
                 ELSE (EIP155_V_BASE + parity + (Low31(id) % 128) * 2) % 256
  BY <1>1, Zenon DEF _computeV, id
<1>5. CASE eth_tx_obj.tx_type # "legacy"
  BY <1>2, <1>4, <1>5
<1>6. CASE eth_tx_obj.tx_type = "legacy"
  <2>1. ~Saturates(EIP155_V_BASE + parity, Low31(id))
    BY <1>0, <1>1, <1>3, SMT DEF Saturates, EIP155_V_BASE
  <2>2. signed.v = (35 + parity + (Low31(id) % 128) * 2) % 256
    BY <1>4, <1>6, <2>1 DEF EIP155_V_BASE
  <2>3. parity = (signed.v - 35 - 2 * last) % 256
    <3> DEFINE n == Low31(id)
    <3>1. n \in Nat /\ n % 128 = last % 128 /\ signed.v = (35 + parity + (n % 128) * 2) % 256
      BY <1>3, <2>2
    <3> HIDE DEF n
    <3>2. parity = (((35 + parity + (n % 128) * 2) % 256) - 35 - 2 * last) % 256
      BY <1>1, <1>3, <3>1, ParityLeft
    <3> QED BY <3>1, <3>2, Zenon
  <2> QED BY <1>6, <2>3
<1> QED
  BY <1>5, <1>6

(* Whatever is signed, its parity can be told from v, but for the last 18  *)
(* chain ids below a multiple of 2^31, whose sum saturates.                *)
THEOREM ParityTold == Spec => []VTellsParity
BY SignedParity, RequestKept, PTL

-----------------------------------------------------------------------------
(***************************************************************************)
(* The signature itself: EvmKeys, with the conversion of Sigutils.         *)
(***************************************************************************)

-----------------------------------------------------------------------------
(* From DER to numbers of 32 bytes.                                        *)

Padded(n) == Zeros(32 - Len(n)) \o n

(* A part that is known element by element.                                *)
LEMMA SubSeqIs ==
    ASSUME NEW S, NEW d \in Seq(S), NEW e \in Seq(S), NEW first \in Nat \ {0},
           first + Len(e) - 1 <= Len(d),
           \A k \in 1 .. Len(e) : d[first + k - 1] = e[k]
    PROVE  SubSeq(d, first, first + Len(e) - 1) = e
<1> DEFINE last == first + Len(e) - 1
           part == SubSeq(d, first, last)
<1>1. last \in Nat /\ last - first + 1 = Len(e) /\ first \in Int /\ last \in Int
  OBVIOUS
<1>2. \A i \in first .. last : d[i] \in S
  BY <1>1
<1> HIDE DEF last
<1>3. /\ part \in Seq(S) /\ Len(part) = IF first <= last THEN last - first + 1 ELSE 0
      /\ \A i \in 1 .. last - first + 1 : part[i] = d[first + i - 1]
  BY <1>1, <1>2, SubSeqProperties
<1> HIDE DEF part
<1>4. Len(part) = Len(e) /\ \A i \in 1 .. Len(e) : part[i] = e[i]
  BY <1>1, <1>3
<1>5. part = e
  BY <1>3, <1>4, SeqEqual
<1> QED
  BY <1>5 DEF part, last

(* Zeros, and one more.                                                    *)
LEMMA ZerosAre ==
    ASSUME NEW n \in Nat
    PROVE  /\ Zeros(n) \in Seq(Byte) /\ Len(Zeros(n)) = n
           /\ Zeros(n) \o <<0>> = Zeros(n + 1)
<1>1. \A m \in Nat : Zeros(m) \in Seq(Byte) /\ Len(Zeros(m)) = m
                     /\ \A k \in 1 .. m : Zeros(m)[k] = 0
  BY DEF Zeros, Byte
<1> DEFINE a == Zeros(n) \o <<0>>
           b == Zeros(n + 1)
<1>2. /\ a \in Seq(Byte) /\ Len(a) = n + 1
      /\ \A k \in 1 .. n + 1 : a[k] = IF k <= n THEN Zeros(n)[k] ELSE <<0>>[k - n]
  <2>1. <<0>> \in Seq(Byte) /\ Len(<<0>>) = 1
    BY DEF Byte
  <2> QED BY <1>1, <2>1, ConcatProperties
<1>3. b \in Seq(Byte) /\ Len(b) = n + 1 /\ \A k \in 1 .. n + 1 : b[k] = 0
  BY <1>1
<1> HIDE DEF a, b
<1>4. \A k \in 1 .. n + 1 : a[k] = 0
  <2> TAKE k \in 1 .. n + 1
  <2>1. CASE k <= n
    <3>1. k \in 1 .. n /\ Zeros(n)[k] = 0
      BY <1>1, <2>1
    <3> QED BY <1>2, <2>1, <3>1
  <2>2. CASE ~(k <= n)
    <3>1. k - n = 1
      BY <2>2
    <3> QED BY <1>2, <2>2, <3>1
  <2> QED BY <2>1, <2>2
<1>5. a = b
  BY <1>2, <1>3, <1>4, SeqEqual
<1> QED
  BY <1>1, <1>5 DEF a, b

(* A zero before a number.                                                 *)
PerhapsZero(R, n) == R = n \/ R = <<0>> \o n

(* A number in DER is it, perhaps behind a zero.                           *)
LEMMA DerNumberIs ==
    ASSUME NEW n \in Seq(Byte), Len(n) <= 32
    PROVE  LET R == DerNumber(n)
           IN  /\ R \in Seq(Byte) /\ Len(R) >= 1 /\ Len(R) <= 33
               /\ R = n \/ R = <<0>> \o n
<1> DEFINE R == DerNumber(n)
<1> SUFFICES R \in Seq(Byte) /\ Len(R) >= 1 /\ Len(R) <= 33 /\ (R = n \/ R = <<0>> \o n)
  BY Zenon
<1>1. R = (IF n = << >> THEN <<0>> ELSE IF n[1] >= 128 THEN <<0>> \o n ELSE n)
  BY Zenon DEF DerNumber
<1>2. <<0>> \in Seq(Byte) /\ Len(<<0>>) = 1
  BY DEF Byte
<1>3. <<0>> \o n \in Seq(Byte) /\ Len(<<0>> \o n) = 1 + Len(n)
  BY <1>2, ConcatProperties
<1>7. Len(n) \in Nat /\ (n # << >> => Len(n) # 0)
  BY LenProperties, EmptySeq
<1> HIDE DEF R
<1>4. (R = n /\ n # << >>) \/ R = <<0>> \o n
  <2>1. n = << >> => <<0>> \o n = <<0>>
    BY <1>2, ConcatEmptySeq
  <2> QED BY <1>1, <2>1, Zenon
<1>5. CASE R = <<0>> \o n
  <2>1. R \in Seq(Byte) /\ Len(R) = 1 + Len(n)
    BY <1>3, <1>5, Zenon
  <2> QED BY <1>5, <1>7, <2>1
<1>6. CASE R = n /\ n # << >>
  <2>1. R \in Seq(Byte) /\ Len(R) = Len(n)
    BY <1>6
  <2> QED BY <1>6, <1>7, <2>1
<1> QED
  BY <1>4, <1>5, <1>6

(* Its 32 bytes, wherever it stands and however long it is.                *)
LEMMA AlignedIs ==
    ASSUME NEW n \in Seq(Byte), Len(n) <= 32,
           NEW R \in Seq(Byte), PerhapsZero(R, n),
           NEW d \in Seq(Byte), NEW first \in Nat \ {0}, first + Len(R) - 1 <= Len(d),
           \A k \in 1 .. Len(R) : d[first + k - 1] = R[k]
    PROVE  Aligned(d, first, Len(R)) = Padded(n)
<1> DEFINE len == Len(R)
<1>1. /\ Len(n) \in Nat /\ len \in Nat
      /\ <<0>> \in Seq(Byte) /\ Len(<<0>>) = 1
  <2>1. Len(n) \in Nat /\ len \in Nat
    BY LenProperties
  <2>2. <<0>> \in Seq(Byte) /\ Len(<<0>>) = 1
    BY DEF Byte
  <2> QED BY <2>1, <2>2
<1>2. SubSeq(d, first, first + len - 1) = R
  BY SubSeqIs
<1>3. Aligned(d, first, len) =
        IF len > 32 THEN SubSeq(d, first + len - 32, first + len - 1)
        ELSE Zeros(32 - len) \o SubSeq(d, first, first + len - 1)
  BY DEF Aligned, PAYLOADLEN
<1>4. CASE R = n
  <2>1. ~(len > 32)
    BY <1>1, <1>4
  <2>2. Aligned(d, first, len) = Zeros(32 - len) \o R
    BY <1>2, <1>3, <2>1, Zenon
  <2> QED BY <1>4, <2>2, Zenon DEF Padded
<1>5. CASE R = <<0>> \o n
  <2>1. /\ len = 1 + Len(n)
        /\ \A k \in 1 .. 1 + Len(n) : R[k] = IF k <= 1 THEN <<0>>[k] ELSE n[k - 1]
    BY <1>1, <1>5, ConcatProperties
  <2>2. CASE len > 32
    <3>1. Len(n) = 32 /\ len = 33
      <4>1. \A a \in Nat : a <= 32 /\ 1 + a > 32 => a = 32 /\ 1 + a = 33
        OBVIOUS
      <4>2. Len(n) \in Nat /\ len = 1 + Len(n) /\ len > 32 /\ Len(n) <= 32
        BY <1>1, <2>1, <2>2
      <4> HIDE DEF len
      <4> QED BY <4>1, <4>2, Zenon
    <3> DEFINE second == first + 1
    <3>2. ASSUME NEW k \in 1 .. Len(n) PROVE d[second + k - 1] = n[k]
      <4> DEFINE j == k + 1
      <4>1. j \in 1 .. 1 + Len(n) /\ j \in 1 .. Len(R) /\ first + j - 1 = second + k - 1 /\ ~(j <= 1) /\ j - 1 = k
        BY <2>1
      <4> HIDE DEF j, second
      <4>2. d[first + j - 1] = R[j]
        BY <4>1
      <4>3. R[j] = n[j - 1]
        BY <2>1, <4>1
      <4> QED BY <4>1, <4>2, <4>3
    <3>3. second \in Nat \ {0} /\ second + Len(n) - 1 <= Len(d)
      BY <2>1
    <3>4. first + len - 32 = second /\ first + len - 1 = second + Len(n) - 1
      BY <3>1
    <3> HIDE DEF second
    <3>5. SubSeq(d, second, second + Len(n) - 1) = n
      <4> DEFINE e == n
      <4>1. e \in Seq(Byte) /\ second + Len(e) - 1 <= Len(d)
            /\ \A k \in 1 .. Len(e) : d[second + k - 1] = e[k]
        BY <3>2, <3>3
      <4> HIDE DEF e
      <4>2. SubSeq(d, second, second + Len(e) - 1) = e
        BY <3>3, <4>1, SubSeqIs
      <4> QED BY <4>2 DEF e
    <3>6. Aligned(d, first, len) = n
      BY <1>3, <2>2, <3>4, <3>5, Zenon
    <3>7. Zeros(0) = << >>
      BY DEF Zeros
    <3>8. Padded(n) = << >> \o n
      <4>1. 32 - Len(n) = 0
        BY <3>1
      <4> QED BY <3>7, <4>1, Zenon DEF Padded
    <3>9. << >> \o n = n
      BY ConcatEmptySeq
    <3> QED BY <3>6, <3>8, <3>9, Zenon
  <2>3. CASE ~(len > 32)
    <3> DEFINE m == 32 - len
    <3>1. m \in Nat /\ m + 1 = 32 - Len(n)
      BY <1>1, <2>1, <2>3
    <3>2. Aligned(d, first, len) = Zeros(m) \o (<<0>> \o n)
      BY <1>2, <1>3, <1>5, <2>3
    <3> HIDE DEF m
    <3>3. Zeros(m) \in Seq(Byte) /\ Zeros(m) \o <<0>> = Zeros(m + 1)
      BY <3>1, ZerosAre
    <3>4. (Zeros(m) \o <<0>>) \o n = Zeros(m) \o (<<0>> \o n)
      BY <1>1, <3>3, ConcatAssociative
    <3> QED BY <3>1, <3>2, <3>3, <3>4, Zenon DEF Padded
  <2> QED BY <2>2, <2>3
<1> QED
  BY <1>4, <1>5 DEF PerhapsZero

(* Two sequences of m and n elements, one after the other.                 *)
AreJoined(T, e, s1, s2, m, n) ==
    /\ e \in Seq(T) /\ Len(e) = m + n
    /\ \A k \in 1 .. m : e[k] = s1[k]
    /\ \A k \in 1 .. n : e[m + k] = s2[k]

LEMMA Joined ==
    ASSUME NEW T, NEW s1 \in Seq(T), NEW s2 \in Seq(T), NEW m \in Nat, NEW n \in Nat,
           Len(s1) = m, Len(s2) = n
    PROVE  AreJoined(T, s1 \o s2, s1, s2, m, n)
<1> DEFINE e == s1 \o s2
<1>1. /\ e \in Seq(T) /\ Len(e) = Len(s1) + Len(s2)
      /\ \A i \in 1 .. Len(s1) + Len(s2) : e[i] = IF i <= Len(s1) THEN s1[i] ELSE s2[i - Len(s1)]
  BY ConcatProperties, Zenon
<1> HIDE DEF e
<1>2. \A i \in 1 .. m + n : e[i] = IF i <= m THEN s1[i] ELSE s2[i - m]
  BY <1>1, Zenon
<1>3. Len(e) = m + n
  BY <1>1, Zenon
<1>4. ASSUME NEW k \in 1 .. m PROVE e[k] = s1[k]
  <2>1. k \in 1 .. m + n /\ k <= m
    OBVIOUS
  <2> QED BY <1>2, <2>1, Zenon
<1>5. ASSUME NEW k \in 1 .. n PROVE e[m + k] = s2[k]
  <2>1. m + k \in 1 .. m + n /\ ~(m + k <= m) /\ (m + k) - m = k
    OBVIOUS
  <2>2. e[m + k] = IF m + k <= m THEN s1[m + k] ELSE s2[(m + k) - m]
    BY <1>2, <2>1, Zenon
  <2> QED BY <2>1, <2>2, Zenon
<1>6. AreJoined(T, e, s1, s2, m, n)
  BY <1>1, <1>3, <1>4, <1>5, Zenon DEF AreJoined
<1> QED
  BY <1>6, Zenon DEF e

(* The lengths in DER are bytes, and those that are accepted.              *)
LEMMA LengthsOfDer ==
    ASSUME NEW m \in Nat, NEW n \in Nat, m <= 33, n <= 33
    PROVE  /\ 48 \in Byte /\ 2 \in Byte /\ m \in Byte /\ n \in Byte
           /\ 4 + m + n \in Byte
           /\ m >= 1 /\ n >= 1 =>
                m \in 1 .. 33 /\ n \in 1 .. 33 /\ 4 + m + n \in 2 + 1 + 2 + 1 .. 2 + 33 + 2 + 33
BY DEF Byte

(* Where the parts of a signature in DER lie.                              *)
AreLaidOut(D, R, S, m, n) ==
    /\ D \in Seq(Byte) /\ Len(D) = 6 + m + n
    /\ D[1] = 48 /\ D[2] = 4 + m + n /\ D[3] = 2 /\ D[4] = m
    /\ \A k \in 1 .. m : D[4 + k] = R[k]
    /\ D[5 + m] = 2 /\ D[6 + m] = n
    /\ \A k \in 1 .. n : D[6 + m + k] = S[k]

LEMMA DerIs ==
    ASSUME NEW R \in Seq(Byte), NEW S \in Seq(Byte),
           NEW m \in Nat, NEW n \in Nat, m = Len(R), n = Len(S), m <= 33, n <= 33,
           NEW content, content = <<2, Len(R)>> \o R \o <<2, Len(S)>> \o S
    PROVE  AreLaidOut(<<48, Len(content)>> \o content, R, S, m, n)
<1> DEFINE a == <<2, m>>
           b == a \o R
           c == <<2, n>>
           e == b \o c
           body == e \o S
           h == <<48, 4 + m + n>>
           D == h \o body
<1>1. 48 \in Byte /\ 2 \in Byte /\ m \in Byte /\ n \in Byte /\ 4 + m + n \in Byte
  BY LengthsOfDer
<1>3. /\ a \in Seq(Byte) /\ Len(a) = 2 /\ a[1] = 2 /\ a[2] = m
      /\ c \in Seq(Byte) /\ Len(c) = 2 /\ c[1] = 2 /\ c[2] = n
      /\ h \in Seq(Byte) /\ Len(h) = 2 /\ h[1] = 48 /\ h[2] = 4 + m + n
  <2> DEFINE total == 4 + m + n
  <2>1. total \in Byte
    BY <1>1
  <2> HIDE DEF total
  <2>2. <<48, total>> \in Seq(Byte) /\ Len(<<48, total>>) = 2 /\ <<48, total>>[1] = 48 /\ <<48, total>>[2] = total
    BY <1>1, <2>1
  <2>3. h = <<48, total>>
    BY Zenon DEF total
  <2>4. /\ a \in Seq(Byte) /\ Len(a) = 2 /\ a[1] = 2 /\ a[2] = m
        /\ c \in Seq(Byte) /\ Len(c) = 2 /\ c[1] = 2 /\ c[2] = n
    BY <1>1
  <2> HIDE DEF a, c, h
  <2> QED BY <2>2, <2>3, <2>4, Zenon DEF total
<1> HIDE DEF a, c, h
<1>20. 2 \in Nat /\ 2 + m \in Nat /\ 4 + m \in Nat /\ 4 + m + n \in Nat
  OBVIOUS
<1>4. AreJoined(Byte, b, a, R, 2, m)
  BY <1>3, <1>20, Joined, Zenon
<1> HIDE DEF b
<1>23. b \in Seq(Byte) /\ Len(b) = 2 + m
  BY <1>4 DEF AreJoined
<1>5. AreJoined(Byte, e, b, c, 2 + m, 2)
  BY <1>3, <1>23, <1>20, Joined, Zenon
<1> HIDE DEF e
<1>21. e \in Seq(Byte) /\ Len(e) = 4 + m
  BY <1>5 DEF AreJoined
<1>6. AreJoined(Byte, body, e, S, 4 + m, n)
  BY <1>21, <1>20, Joined, Zenon
<1> HIDE DEF body
<1>22. body \in Seq(Byte) /\ Len(body) = 4 + m + n
  BY <1>6 DEF AreJoined
<1>7. AreJoined(Byte, D, h, body, 2, 4 + m + n)
  BY <1>3, <1>22, <1>20, Joined, Zenon
<1> HIDE DEF D
<1> USE DEF AreJoined
<1>8. D[1] = 48 /\ D[2] = 4 + m + n /\ Len(D) = 6 + m + n
  <2>1. 1 \in 1 .. 2 /\ 2 \in 1 .. 2
    OBVIOUS
  <2> QED BY <1>3, <1>7, <2>1
<1>9. D[3] = 2 /\ D[4] = m
  <2>1. D[3] = body[1] /\ D[4] = body[2]
    <3>1. 3 = 2 + 1 /\ 4 = 2 + 2 /\ 1 \in 1 .. 4 + m + n /\ 2 \in 1 .. 4 + m + n
      OBVIOUS
    <3> QED BY <1>7, <3>1, Zenon
  <2>2. body[1] = e[1] /\ body[2] = e[2]
    BY <1>6
  <2>3. e[1] = b[1] /\ e[2] = b[2]
    BY <1>5
  <2>4. b[1] = a[1] /\ b[2] = a[2]
    BY <1>4
  <2> QED BY <1>3, <2>1, <2>2, <2>3, <2>4
<1>10. ASSUME NEW k \in 1 .. m PROVE D[4 + k] = R[k]
  <2>1. D[2 + (2 + k)] = body[2 + k]
    <3>1. 2 + k \in 1 .. 4 + m + n
      OBVIOUS
    <3> QED BY <1>7, <3>1, Zenon
  <2>2. body[2 + k] = e[2 + k]
    <3>1. 2 + k \in 1 .. 4 + m
      OBVIOUS
    <3> QED BY <1>6, <3>1, Zenon
  <2>3. e[2 + k] = b[2 + k]
    BY <1>5
  <2>4. b[2 + k] = R[k]
    BY <1>4
  <2>5. 2 + (2 + k) = 4 + k
    OBVIOUS
  <2> QED BY <2>1, <2>2, <2>3, <2>4, <2>5, Zenon
<1>11. D[5 + m] = 2 /\ D[6 + m] = n
  <2>1. D[2 + (3 + m)] = body[3 + m] /\ D[2 + (4 + m)] = body[4 + m]
    <3>1. 3 + m \in 1 .. 4 + m + n /\ 4 + m \in 1 .. 4 + m + n
      OBVIOUS
    <3> QED BY <1>7, <3>1, Zenon
  <2>2. body[3 + m] = e[3 + m] /\ body[4 + m] = e[4 + m]
    <3>1. 3 + m \in 1 .. 4 + m /\ 4 + m \in 1 .. 4 + m
      OBVIOUS
    <3> QED BY <1>6, <3>1, Zenon
  <2>3. e[(2 + m) + 1] = c[1] /\ e[(2 + m) + 2] = c[2]
    BY <1>5
  <2>4. 2 + (3 + m) = 5 + m /\ 2 + (4 + m) = 6 + m /\ (2 + m) + 1 = 3 + m /\ (2 + m) + 2 = 4 + m
    OBVIOUS
  <2> QED BY <1>3, <2>1, <2>2, <2>3, <2>4, Zenon
<1>12. ASSUME NEW k \in 1 .. n PROVE D[6 + m + k] = S[k]
  <2>1. D[2 + (4 + m + k)] = body[4 + m + k]
    <3>1. 4 + m + k \in 1 .. 4 + m + n
      OBVIOUS
    <3> QED BY <1>7, <3>1, Zenon
  <2>2. body[(4 + m) + k] = S[k]
    BY <1>6
  <2>3. 2 + (4 + m + k) = 6 + m + k
    OBVIOUS
  <2> QED BY <2>1, <2>2, <2>3, Zenon
<1>13. <<48, Len(content)>> \o content = D
  <2>1. content = body
    BY Zenon DEF body, e, c, b, a
  <2>2. <<48, Len(body)>> \o body = D
    BY <1>22, Zenon DEF D, h
  <2> QED BY <2>1, <2>2, Zenon
<1>14. AreLaidOut(D, R, S, m, n)
  BY <1>7, <1>8, <1>9, <1>10, <1>11, <1>12, Zenon DEF AreLaidOut
<1> QED
  BY <1>13, <1>14, Zenon

(* The two numbers, and the bits of info.                                  *)
IsConverted(rsv, r, s, info) ==
    rsv = [err |-> "no_error", r |-> Padded(r), s |-> Padded(s),
           v |-> Parity(info) + 2 * XGTn(info)]

(* What convertDERtoRSV makes of numbers in DER: they, in 32 bytes, and    *)
(* two bits; what follows the signature in der_signature is not read.      *)
THEOREM NumbersOfDer ==
    ASSUME NEW r \in Seq(Byte), Len(r) <= 32,
           NEW s \in Seq(Byte), Len(s) <= 32,
           NEW d \in Seq(Byte), NEW info,
           Len(DerSignature(r, s)) <= Len(d),
           \A k \in 1 .. Len(DerSignature(r, s)) : d[k] = DerSignature(r, s)[k]
    PROVE  IsConverted(convertDERtoRSV(d, info), r, s, info)
<1> DEFINE R == DerNumber(r)
           S == DerNumber(s)
           D == DerSignature(r, s)
<1>1. /\ R \in Seq(Byte) /\ Len(R) >= 1 /\ Len(R) <= 33 /\ (R = r \/ R = <<0>> \o r)
      /\ S \in Seq(Byte) /\ Len(S) >= 1 /\ Len(S) <= 33 /\ (S = s \/ S = <<0>> \o s)
  BY DerNumberIs, Zenon
<1> HIDE DEF R, S
<1>4. PICK m \in Nat, n \in Nat : m = Len(R) /\ n = Len(S) /\ m >= 1 /\ m <= 33 /\ n >= 1 /\ n <= 33
  BY <1>1, LenProperties
<1>2. /\ D \in Seq(Byte) /\ Len(D) = 6 + m + n
      /\ D[1] = 48 /\ D[2] = 4 + m + n /\ D[3] = 2 /\ D[4] = m
      /\ \A k \in 1 .. m : D[4 + k] = R[k]
      /\ D[5 + m] = 2 /\ D[6 + m] = n
      /\ \A k \in 1 .. n : D[6 + m + k] = S[k]
  <2> DEFINE content == <<2, Len(R)>> \o R \o <<2, Len(S)>> \o S
  <2>1. D = <<48, Len(content)>> \o content
    BY Zenon DEF D, R, S, DerSignature
  <2>2. content = <<2, Len(R)>> \o R \o <<2, Len(S)>> \o S
    OBVIOUS
  <2> HIDE DEF content, D
  <2>3. AreLaidOut(<<48, Len(content)>> \o content, R, S, m, n)
    BY <1>1, <1>4, <2>2, DerIs, Zenon
  <2> QED BY <2>1, <2>3, Zenon DEF AreLaidOut
<1>3. Len(D) <= Len(d) /\ \A k \in 1 .. Len(D) : d[k] = D[k]
  OBVIOUS
<1> HIDE DEF D
<1>5. PICK total \in Nat : total = Len(d) /\ 6 + m + n <= total
  <2>1. Len(d) \in Nat
    BY LenProperties
  <2> QED BY <1>2, <1>3, <2>1
<1>6. \A k \in 1 .. 6 + m + n : d[k] = D[k]
  BY <1>2, <1>3, Zenon
<1>7. /\ d[1] = 48 /\ d[2] = 4 + m + n /\ d[3] = 2 /\ d[4] = m
      /\ d[5 + m] = 2 /\ d[6 + m] = n
  <2>1. {1, 2, 3, 4, 5 + m, 6 + m} \subseteq 1 .. 6 + m + n
    BY <1>4
  <2>2. \A k \in {1, 2, 3, 4, 5 + m, 6 + m} : d[k] = D[k]
    BY <1>6, <2>1, Zenon
  <2> QED BY <1>2, <2>2, Zenon
<1>8. Markers(d) = "no_error"
  <2>1. m \in 1 .. 33 /\ n \in 1 .. 33 /\ 4 + m + n \in 2 + 1 + 2 + 1 .. 2 + 33 + 2 + 33
    BY <1>4, LengthsOfDer, Zenon
  <2>2. d[2] \in 2 + 1 + 2 + 1 .. 2 + 33 + 2 + 33 /\ d[4] \in 1 .. 33 /\ d[6 + d[4]] \in 1 .. 33 /\ d[5 + d[4]] = 2
    BY <1>7, <2>1, Zenon
  <2> QED BY <1>7, <2>2 DEF Markers, MINPAYLOADLEN, MAXPAYLOADLEN
<1>9. Aligned(d, 5, d[4]) = Padded(r)
  <2>1. \A k \in 1 .. Len(R) : d[5 + k - 1] = R[k]
    <3> TAKE k \in 1 .. Len(R)
    <3>1. k \in 1 .. m /\ 5 + k - 1 = 4 + k /\ 4 + k \in 1 .. 6 + m + n
      BY <1>4
    <3> QED BY <1>2, <1>6, <3>1, Zenon
  <2>2. 5 \in Nat \ {0} /\ 5 + Len(R) - 1 <= Len(d)
    BY <1>4, <1>5
  <2>3. Aligned(d, 5, Len(R)) = Padded(r)
    BY <1>1, <2>1, <2>2, AlignedIs DEF PerhapsZero
  <2> QED BY <1>4, <1>7, <2>3
<1>10. Aligned(d, 7 + d[4], d[6 + d[4]]) = Padded(s)
  <2> DEFINE first == 7 + m
  <2>1. \A k \in 1 .. Len(S) : d[first + k - 1] = S[k]
    <3> TAKE k \in 1 .. Len(S)
    <3>1. k \in 1 .. n /\ first + k - 1 = 6 + m + k /\ 6 + m + k \in 1 .. 6 + m + n
      BY <1>4
    <3>2. d[6 + m + k] = D[6 + m + k]
      BY <1>6, <3>1
    <3>3. D[6 + m + k] = S[k]
      BY <1>2, <1>4, <3>1
    <3> QED BY <3>1, <3>2, <3>3
  <2>2. first \in Nat \ {0} /\ first + Len(S) - 1 <= Len(d)
    BY <1>4, <1>5
  <2>4. 7 + d[4] = first /\ d[6 + d[4]] = Len(S)
    BY <1>4, <1>7
  <2> HIDE DEF first
  <2>3. Aligned(d, first, Len(S)) = Padded(s)
    BY <1>1, <2>1, <2>2, AlignedIs DEF PerhapsZero
  <2> QED BY <2>3, <2>4
<1> QED
  BY <1>8, <1>9, <1>10, Zenon DEF convertDERtoRSV, IsConverted

(* A sequence of n elements; sizes are kept apart from the sequences, for  *)
(* the sums to be sums of numbers.                                         *)
IsOf(T, s, n) == n \in Nat /\ s \in Seq(T) /\ Len(s) = n

(* The m elements of e are in d, from a place on.                          *)
IsIn(d, first, e, m) == \A k \in 1 .. m : d[first + k - 1] = e[k]

LEMMA Appended ==
    ASSUME NEW T, NEW s1, NEW s2, NEW m, NEW n, IsOf(T, s1, m), IsOf(T, s2, n)
    PROVE  /\ IsOf(T, s1 \o s2, m + n)
           /\ IsIn(s1 \o s2, 1, s1, m) /\ IsIn(s1 \o s2, m + 1, s2, n)
<1>1. m \in Nat /\ n \in Nat /\ s1 \in Seq(T) /\ s2 \in Seq(T) /\ Len(s1) = m /\ Len(s2) = n
  BY Zenon DEF IsOf
<1>2. AreJoined(T, s1 \o s2, s1, s2, m, n)
  BY <1>1, Joined, Zenon
<1>3. m + n \in Nat /\ (\A k \in 1 .. m : 1 + k - 1 = k) /\ \A k \in 1 .. n : (m + 1) + k - 1 = m + k
  BY <1>1
<1>4. IsIn(s1 \o s2, 1, s1, m) /\ IsIn(s1 \o s2, m + 1, s2, n)
  BY <1>2, <1>3, Zenon DEF AreJoined, IsIn
<1> QED
  BY <1>2, <1>3, <1>4, Zenon DEF AreJoined, IsOf

(* What is in a part is in the whole.                                      *)
LEMMA Within ==
    ASSUME NEW c, NEW d, NEW e, NEW start \in Nat \ {0}, NEW first \in Nat \ {0}, NEW n \in Nat, NEW m \in Nat,
           IsIn(c, start, d, n), IsIn(d, first, e, m), first + m - 1 <= n,
           NEW place \in Nat, place = start + first - 1
    PROVE  IsIn(c, place, e, m)
<1> SUFFICES ASSUME NEW k \in 1 .. m PROVE c[place + k - 1] = e[k]
  BY DEF IsIn
<1>1. first + k - 1 \in 1 .. n /\ start + (first + k - 1) - 1 = place + k - 1
  OBVIOUS
<1>2. c[start + (first + k - 1) - 1] = d[first + k - 1]
  BY <1>1, Zenon DEF IsIn
<1>3. d[first + k - 1] = e[k]
  BY Zenon DEF IsIn
<1> QED
  BY <1>1, <1>2, <1>3, Zenon

(* A part of m elements, from a place on.                                  *)
LEMMA PartIs ==
    ASSUME NEW T, NEW d, NEW n, IsOf(T, d, n), NEW first \in Nat \ {0}, NEW m \in Nat,
           NEW last \in Int, last = first + m - 1, last <= n
    PROVE  IsOf(T, SubSeq(d, first, last), m) /\ IsIn(d, first, SubSeq(d, first, last), m)
<1>1. \A i \in 1 .. n : d[i] \in T
  <2>1. n \in Nat /\ d \in Seq(T) /\ Len(d) = n
    BY DEF IsOf
  <2> QED BY <2>1, ElementOfSeq, Zenon
<1>2. n \in Nat
  BY DEF IsOf
<1>3. first .. last \subseteq 1 .. n /\ (IF first <= last THEN last - first + 1 ELSE 0) = m
      /\ last - first + 1 = m
  BY <1>2
<1>4. /\ SubSeq(d, first, last) \in Seq(T)
      /\ Len(SubSeq(d, first, last)) = IF first <= last THEN last - first + 1 ELSE 0
      /\ \A i \in 1 .. last - first + 1 : SubSeq(d, first, last)[i] = d[first + i - 1]
  <2>1. \A i \in first .. last : d[i] \in T
    BY <1>1, <1>3, Zenon
  <2>2. first \in Int
    OBVIOUS
  <2> QED BY <2>1, <2>2, SubSeqProperties
<1> QED
  BY <1>3, <1>4, Zenon DEF IsOf, IsIn

(* A part that is known element by element.                                *)
LEMMA SamePart ==
    ASSUME NEW T, NEW d, NEW first, NEW m,
           NEW part, IsOf(T, part, m), IsIn(d, first, part, m),
           NEW e, IsOf(T, e, m), IsIn(d, first, e, m)
    PROVE  part = e
<1>1. part \in Seq(T) /\ e \in Seq(T) /\ Len(part) = Len(e) /\ Len(part) = m
  BY Zenon DEF IsOf
<1>2. \A k \in 1 .. m : part[k] = e[k]
  BY Zenon DEF IsIn
<1>3. \A k \in 1 .. Len(part) : part[k] = e[k]
  BY <1>1, <1>2, Zenon
<1> QED
  BY <1>1, <1>3, SeqEqual, Zenon

(* The buffer before.                                                      *)
LEMMA OldIs == IsOf(Byte, Old, 138) /\ BUFFER = 138
BY DEF IsOf, Old, BUFFER, Byte

(* The signature of the operating system, in its place behind r, s and v.  *)
LEMMA TakenIs ==
    ASSUME NEW der, NEW n \in Nat, IsOf(Byte, der, n), n <= 73
    PROVE  LET T == SubSeq(Old, 1, 65) \o der \o SubSeq(Old, 66 + n, BUFFER)
           IN  IsOf(Byte, T, 138) /\ IsIn(T, 66, der, n)
<1> DEFINE before == SubSeq(Old, 1, 65)
           behind == SubSeq(Old, 66 + n, 138)
           a == before \o der
           T == a \o behind
<1>2. IsOf(Byte, before, 65)
  BY OldIs, PartIs
<1>3. IsOf(Byte, behind, 73 - n)
  <2>1. 66 + n \in Nat \ {0} /\ 73 - n \in Nat /\ 138 \in Int /\ 138 = (66 + n) + (73 - n) - 1 /\ 138 <= 138
    OBVIOUS
  <2> QED BY <2>1, OldIs, PartIs
<1>10. T = SubSeq(Old, 1, 65) \o der \o SubSeq(Old, 66 + n, BUFFER)
  BY OldIs
<1> HIDE DEF before, behind
<1>5. IsOf(Byte, a, 65 + n) /\ IsIn(a, 66, der, n)
  <2>1. IsOf(Byte, a, 65 + n) /\ IsIn(a, 65 + 1, der, n)
    BY <1>2, Appended
  <2> HIDE DEF a
  <2> QED BY <2>1
<1> HIDE DEF a
<1>7. IsOf(Byte, T, (65 + n) + (73 - n)) /\ IsIn(T, 1, a, 65 + n)
  BY <1>3, <1>5, Appended
<1> HIDE DEF T
<1>8. IsOf(Byte, T, 138)
  <2>1. (65 + n) + (73 - n) = 138
    OBVIOUS
  <2> QED BY <1>7, <2>1
<1>9. IsIn(T, 66, der, n)
  <2>1. 66 + n - 1 <= 65 + n /\ 65 + n \in Nat /\ 66 = 1 + 66 - 1
    OBVIOUS
  <2> QED BY <1>5, <1>7, <2>1, Within
<1> QED
  BY <1>8, <1>9, <1>10

(* r, s, v and the signature.                                              *)
AreConverted(T, r, s) == IsOf(Byte, T, 138) /\ SubSeq(T, 1, 32) = r /\ SubSeq(T, 33, 64) = s

LEMMA ConvertedIs ==
    ASSUME NEW r, IsOf(Byte, r, 32), NEW s, IsOf(Byte, s, 32),
           NEW v \in Byte, NEW d, IsOf(Byte, d, 73)
    PROVE  AreConverted(r \o s \o <<v>> \o d, r, s)
<1> DEFINE a == r \o s
           o == <<v>>
           b == a \o o
           T == b \o d
<1>1. IsOf(Byte, o, 1)
  BY DEF IsOf
<1>20. T = r \o s \o <<v>> \o d
  OBVIOUS
<1> HIDE DEF o
<1>3. IsOf(Byte, a, 64) /\ IsIn(a, 1, r, 32) /\ IsIn(a, 33, s, 32)
  <2>1. IsOf(Byte, a, 32 + 32) /\ IsIn(a, 1, r, 32) /\ IsIn(a, 32 + 1, s, 32)
    BY Appended
  <2> HIDE DEF a
  <2> QED BY <2>1
<1> HIDE DEF a
<1>5. IsOf(Byte, b, 65) /\ IsIn(b, 1, a, 64)
  <2>1. IsOf(Byte, b, 64 + 1) /\ IsIn(b, 1, a, 64)
    BY <1>1, <1>3, Appended
  <2> HIDE DEF b
  <2> QED BY <2>1
<1> HIDE DEF b
<1>7. IsOf(Byte, T, 138) /\ IsIn(T, 1, b, 65)
  <2>1. IsOf(Byte, T, 65 + 73) /\ IsIn(T, 1, b, 65)
    BY <1>5, Appended
  <2> HIDE DEF T
  <2> QED BY <2>1
<1> HIDE DEF T
<1>8. IsIn(T, 1, a, 64)
  BY <1>5, <1>7, Within
<1>9. IsIn(T, 1, r, 32)
  BY <1>3, <1>8, Within
<1>10. IsIn(T, 33, s, 32)
  BY <1>3, <1>8, Within
<1>11. SubSeq(T, 1, 32) = r
  <2>1. 1 \in Nat \ {0} /\ 32 \in Nat /\ 32 \in Int /\ 32 = 1 + 32 - 1 /\ 32 <= 138
    OBVIOUS
  <2> DEFINE part == SubSeq(T, 1, 32)
  <2>2. IsOf(Byte, part, 32)
    BY <1>7, <2>1, PartIs
  <2>3. IsIn(T, 1, part, 32)
    BY <1>7, <2>1, PartIs
  <2> HIDE DEF part
  <2>4. part = r
    BY <1>9, <2>2, <2>3, SamePart
  <2> QED BY <2>4 DEF part
<1>12. SubSeq(T, 33, 64) = s
  <2>1. 33 \in Nat \ {0} /\ 32 \in Nat /\ 64 \in Int /\ 64 = 33 + 32 - 1 /\ 64 <= 138
    OBVIOUS
  <2> DEFINE part == SubSeq(T, 33, 64)
  <2>2. IsOf(Byte, part, 32)
    BY <1>7, <2>1, PartIs
  <2>3. IsIn(T, 33, part, 32)
    BY <1>7, <2>1, PartIs
  <2> HIDE DEF part
  <2>4. part = s
    BY <1>10, <2>2, <2>3, SamePart
  <2> QED BY <2>4 DEF part
<1> QED
  BY <1>7, <1>11, <1>12, <1>20 DEF AreConverted

(* v first: r and s move up by a byte.                                     *)
LEMMA FixedIs ==
    ASSUME NEW b, IsOf(Byte, b, 138), NEW v,
           NEW r, IsOf(Byte, r, 32), NEW s, IsOf(Byte, s, 32),
           SubSeq(b, 1, 32) = r, SubSeq(b, 33, 64) = s
    PROVE  LET T == <<v>> \o SubSeq(b, 1, 64) \o SubSeq(b, 66, BUFFER)
           IN  T[1] = v /\ SubSeq(T, 2, 33) = r /\ SubSeq(T, 34, 65) = s
<1> DEFINE U == Byte \cup {v}
           o == <<v>>
           front == SubSeq(b, 1, 64)
           behind == SubSeq(b, 66, 138)
           a == o \o front
           T == a \o behind
<1>1. IsOf(U, o, 1) /\ o[1] = v
  BY DEF IsOf
<1>3. ASSUME NEW e, NEW n, IsOf(Byte, e, n) PROVE IsOf(U, e, n)
  BY <1>3, SeqMonotonic DEF IsOf
<1>20. T = <<v>> \o SubSeq(b, 1, 64) \o SubSeq(b, 66, BUFFER)
  BY OldIs
<1> HIDE DEF U, o
<1>4. IsOf(Byte, front, 64) /\ IsIn(b, 1, front, 64)
  <2>1. 1 \in Nat \ {0} /\ 64 \in Nat /\ 64 \in Int /\ 64 = 1 + 64 - 1 /\ 64 <= 138
    OBVIOUS
  <2>2. IsOf(Byte, SubSeq(b, 1, 64), 64)
    BY <2>1, PartIs
  <2>3. IsIn(b, 1, SubSeq(b, 1, 64), 64)
    BY <2>1, PartIs
  <2> QED BY <2>2, <2>3
<1>5. IsOf(Byte, behind, 73)
  BY PartIs
<1>6. IsIn(b, 1, r, 32) /\ IsIn(b, 33, s, 32)
  <2>1. IsIn(b, 1, SubSeq(b, 1, 32), 32)
    BY PartIs
  <2>2. IsIn(b, 33, SubSeq(b, 33, 64), 32)
    BY PartIs
  <2> QED BY <2>1, <2>2
<1> HIDE DEF front, behind
<1>7. IsIn(front, 1, r, 32) /\ IsIn(front, 33, s, 32)
  <2>1. \A k \in 1 .. 64 : front[k] = b[k]
    BY <1>4 DEF IsIn
  <2>2. \A k \in 1 .. 32 : b[k] = r[k]
    BY <1>6 DEF IsIn
  <2>3. \A k \in 1 .. 32 : b[32 + k] = s[k]
    <3> TAKE k \in 1 .. 32
    <3>1. 33 + k - 1 = 32 + k
      OBVIOUS
    <3>2. b[33 + k - 1] = s[k]
      BY <1>6 DEF IsIn
    <3> QED BY <3>1, <3>2
  <2>4. IsIn(front, 1, r, 32)
    BY <2>1, <2>2 DEF IsIn
  <2>5. ASSUME NEW k \in 1 .. 32 PROVE front[33 + k - 1] = s[k]
    <3>1. 33 + k - 1 = 32 + k /\ 32 + k \in 1 .. 64
      OBVIOUS
    <3>2. front[32 + k] = b[32 + k] /\ b[32 + k] = s[k]
      BY <2>1, <2>3, <3>1
    <3> QED BY <3>1, <3>2
  <2> QED BY <2>4, <2>5 DEF IsIn
<1>8. IsOf(U, a, 65) /\ a[1] = v /\ IsIn(a, 2, front, 64)
  <2>1. IsOf(U, a, 1 + 64) /\ IsIn(a, 1, o, 1) /\ IsIn(a, 1 + 1, front, 64)
    BY <1>1, <1>3, <1>4, Appended
  <2> HIDE DEF a
  <2>2. a[1] = o[1]
    BY <2>1 DEF IsIn
  <2> QED BY <1>1, <2>1, <2>2
<1> HIDE DEF a
<1>10. IsOf(U, T, 138) /\ IsIn(T, 1, a, 65)
  <2>1. IsOf(U, T, 65 + 73) /\ IsIn(T, 1, a, 65)
    BY <1>3, <1>5, <1>8, Appended
  <2> HIDE DEF T
  <2> QED BY <2>1
<1> HIDE DEF T
<1>12. T[1] = v
  BY <1>8, <1>10 DEF IsIn
<1>13. IsIn(T, 2, front, 64)
  BY <1>8, <1>10, Within
<1>14. IsIn(T, 2, r, 32) /\ IsIn(T, 34, s, 32)
  <2>1. /\ 1 \in Nat \ {0} /\ 2 \in Nat \ {0} /\ 33 \in Nat \ {0} /\ 32 \in Nat /\ 64 \in Nat
        /\ 1 + 32 - 1 <= 64 /\ 33 + 32 - 1 <= 64 /\ 2 \in Nat /\ 34 \in Nat
        /\ 2 = 2 + 1 - 1 /\ 34 = 2 + 33 - 1
    OBVIOUS
  <2>2. IsIn(T, 2, r, 32)
    BY <1>7, <1>13, <2>1, Within
  <2>3. IsIn(T, 34, s, 32)
    BY <1>7, <1>13, <2>1, Within
  <2> QED BY <2>2, <2>3
<1>16. IsOf(U, r, 32) /\ IsOf(U, s, 32)
  BY <1>3
<1>17. SubSeq(T, 2, 33) = r
  <2>1. 2 \in Nat \ {0} /\ 32 \in Nat /\ 33 \in Int /\ 33 = 2 + 32 - 1 /\ 33 <= 138
    OBVIOUS
  <2> DEFINE part == SubSeq(T, 2, 33)
  <2>2. IsOf(U, part, 32)
    BY <1>10, <2>1, PartIs
  <2>3. IsIn(T, 2, part, 32)
    BY <1>10, <2>1, PartIs
  <2> HIDE DEF part
  <2>4. part = r
    BY <1>14, <1>16, <2>2, <2>3, SamePart
  <2> QED BY <2>4 DEF part
<1>18. SubSeq(T, 34, 65) = s
  <2>1. 34 \in Nat \ {0} /\ 32 \in Nat /\ 65 \in Int /\ 65 = 34 + 32 - 1 /\ 65 <= 138
    OBVIOUS
  <2> DEFINE part == SubSeq(T, 34, 65)
  <2>2. IsOf(U, part, 32)
    BY <1>10, <2>1, PartIs
  <2>3. IsIn(T, 34, part, 32)
    BY <1>10, <2>1, PartIs
  <2> HIDE DEF part
  <2>4. part = s
    BY <1>14, <1>16, <2>2, <2>3, SamePart
  <2> QED BY <2>4 DEF part
<1> QED
  BY <1>12, <1>17, <1>18, <1>20

-----------------------------------------------------------------------------
(* The invariants of EvmKeys.                                              *)

(* The numbers that were signed with, and their signature.                 *)
Signed ==
    \E sig \in Signatures, info \in 0 .. 3 :
        signature = [r |-> sig.r, s |-> sig.s, der |-> sig.der, info |-> info]

(* The operation of each step, and its result so far.                      *)
StepInv ==
    /\ pc \in {"sign", "convert", "fix_v"} => op.op = "sign"
    /\ pc \in {"init_public", "generate", "address"} => op.op = "address"
    /\ pc \in {"derive", "init_private", "wipe"} => op.op \in {"sign", "address"}
    /\ pc \in {"derive", "init_private", "sign", "convert", "init_public", "generate"} =>
         result.err = "running"
    /\ pc = "wipe" => result.err \in {"running", "ok"}
    /\ pc \in {"fix_v", "address"} => result.err = "ok"

(* What the answer to a command for an address holds before each step.     *)
AnswerInv ==
    op.op = "address" =>
      LET code == IF op.chainCode THEN "derived" ELSE "zero"
      IN  /\ op.chainCode \in BOOLEAN /\ op.asked = op.chainCode
          /\ pc = "derive" =>
               answer = [publicKey |-> "zero", address |-> "zero", chainCode |-> "zero"]
          /\ pc \in {"init_private", "init_public", "generate"} \/ (pc = "wipe" /\ result.err = "running") =>
               answer = [publicKey |-> "zero", address |-> "zero", chainCode |-> code]
          /\ pc = "address" \/ (pc = "wipe" /\ result.err = "ok") =>
               answer = [publicKey |-> "derived", address |-> "zero", chainCode |-> code]

(* What the buffer holds before each step of a signature.                  *)
BufferInv ==
    op.op = "sign" =>
      /\ pc \in {"derive", "init_private", "sign"} => buffer = Old
      /\ pc = "convert" =>
           /\ Signed /\ IsOf(Byte, buffer, 138)
           /\ IsIn(buffer, 66, signature.der, Len(signature.der))
      /\ pc = "fix_v" \/ (pc = "wipe" /\ result.err = "ok") =>
           /\ Signed /\ IsOf(Byte, buffer, 138)
           /\ SubSeq(buffer, 1, 32)  = Padded(signature.r)
           /\ SubSeq(buffer, 33, 64) = Padded(signature.s)

(* An operation begins anew.                                               *)
LEMMA NothingLeftBegins ==
    KeyInit => StepInv /\ AnswerInv /\ NoKeyLeft /\ FailureAnswersNothing
BY DEF KeyInit, None, Done, StepInv, AnswerInv, NoKeyLeft, FailureAnswersNothing

LEMMA NothingLeftStep ==
    ASSUME StepInv, AnswerInv, NoKeyLeft, FailureAnswersNothing, [KeyNext]_keyVars
    PROVE  (StepInv /\ AnswerInv /\ NoKeyLeft /\ FailureAnswersNothing)'
<1> DEFINE I == StepInv /\ AnswerInv /\ NoKeyLeft /\ FailureAnswersNothing
<1> USE DEF StepInv, AnswerInv, NoKeyLeft, FailureAnswersNothing, Done
<1>1. ASSUME NEW personal \in BOOLEAN, crypto_sign_eth(personal) PROVE I'
  BY <1>1 DEF crypto_sign_eth, keys, Running, Failure
<1>2. ASSUME NEW code \in BOOLEAN, crypto_fillEthAddress(code) PROVE I'
  BY <1>2 DEF crypto_fillEthAddress, keys, Running, EmptyAnswer
<1>3. CASE Derive
  BY <1>3 DEF Derive, Goto, Fail
<1>4. CASE InitPrivate
  BY <1>4 DEF InitPrivate, Goto, Fail
<1>5. CASE Sign
  BY <1>5 DEF Sign, Goto, Fail, keys
<1>6. CASE Convert
  BY <1>6 DEF Convert, keys
<1>7. CASE Wipe
  <2>1. pc = "wipe" /\ result.err \in {"running", "ok"} /\ op.op \in {"sign", "address"} /\ op' = op
    BY <1>7 DEF Wipe
  <2>2. NoKeyLeft'
    BY <1>7 DEF Wipe
  <2>3. CASE result.err = "ok"
    BY <1>7, <2>1, <2>2, <2>3 DEF Wipe, Goto
  <2>4. CASE result.err # "ok"
    <3>1. pc' = "idle" /\ result' = [err |-> "error", len |-> 0]
      BY <1>7, <2>4 DEF Wipe, Fail, Failure
    <3>2. CASE op.op = "sign"
      BY <1>7, <2>1, <2>2, <2>4, <3>1, <3>2 DEF Wipe
    <3>3. CASE op.op = "address"
      <4>1. answer' = [answer EXCEPT !.publicKey = "zero", !.chainCode = "zero"]
        BY <1>7, <2>4, <3>3 DEF Wipe
      <4>2. answer' = [publicKey |-> "zero", address |-> "zero", chainCode |-> "zero"]
        <5>1. PICK code : answer = [publicKey |-> "zero", address |-> "zero", chainCode |-> code]
          BY <2>1, <2>4, <3>3
        <5> QED BY <4>1, <5>1
      <4> QED BY <2>1, <2>2, <3>1, <3>3, <4>2
    <3> QED BY <2>1, <3>2, <3>3
  <2> QED BY <2>3, <2>4
<1>8. CASE FixV
  BY <1>8 DEF FixV, Goto, keys
<1>9. CASE InitPublic
  BY <1>9 DEF InitPublic, Goto, Fail, keys
<1>10. CASE Generate
  BY <1>10 DEF Generate, Fail, keys
<1>11. CASE Address
  BY <1>11 DEF Address, keys, Failure
<1>12. CASE UNCHANGED keyVars
  BY <1>12 DEF keyVars, keys
<1> QED
  BY <1>1, <1>2, <1>3, <1>4, <1>5, <1>6, <1>7, <1>8, <1>9, <1>10, <1>11, <1>12 DEF KeyNext

(* Every operation of EvmKeys, whichever call has failed, leaves no key    *)
(* behind, and nothing of an answer that it has not finished.              *)
THEOREM KeysLeaveNothing == KeySpec => []NothingLeftOver
<1> DEFINE I == StepInv /\ AnswerInv /\ NoKeyLeft /\ FailureAnswersNothing
<1>1. KeyInit => I
  BY NothingLeftBegins
<1>2. I /\ [KeyNext]_keyVars => I'
  BY NothingLeftStep
<1>3. I => NothingLeftOver
  BY DEF NothingLeftOver
<1> HIDE DEF I
<1> QED
  BY <1>1, <1>2, <1>3, PTL DEF KeySpec

(* A number in 32 bytes.                                                   *)
LEMMA PaddedIs ==
    ASSUME NEW n \in Seq(Byte), Len(n) <= 32
    PROVE  IsOf(Byte, Padded(n), 32)
<1>1. PICK m \in Nat : m = Len(n) /\ m <= 32
  BY LenProperties
<1>2. IsOf(Byte, n, m)
  BY <1>1, Zenon DEF IsOf
<1> SUFFICES IsOf(Byte, Zeros(32 - m) \o n, 32)
  BY <1>1, Zenon DEF Padded
<1> DEFINE z == 32 - m
<1>3. z \in Nat /\ z + m = 32
  <2>1. \A k \in Nat : k <= 32 => 32 - k \in Nat /\ (32 - k) + k = 32
    OBVIOUS
  <2> QED BY <1>1, <2>1, Zenon
<1> HIDE DEF z
<1>4. IsOf(Byte, Zeros(z), z)
  BY <1>3, ZerosAre, Zenon DEF IsOf
<1>5. IsOf(Byte, Zeros(z) \o n, z + m)
  BY <1>2, <1>4, Appended, Zenon
<1> QED
  BY <1>3, <1>5, Zenon DEF z

(* The conversion of what the operating system answered: the numbers in 32 *)
(* bytes each, or an error.                                                *)
LEMMA AnswerConverted ==
    ASSUME NEW sig \in Signatures, NEW info \in 0 .. 3,
           NEW d, IsOf(Byte, d, 73), IsIn(d, 1, sig.der, Len(sig.der))
    PROVE  LET rsv == convertDERtoRSV(d, info)
           IN  rsv.err = "no_error" =>
                 rsv.r = Padded(sig.r) /\ rsv.s = Padded(sig.s) /\ rsv.v \in Byte
<1> DEFINE rsv == convertDERtoRSV(d, info)
<1>1. /\ sig.r \in Seq(Byte) /\ Len(sig.r) <= 32 /\ sig.s \in Seq(Byte) /\ Len(sig.s) <= 32
      /\ sig.der \in Seq(Byte) /\ Len(sig.der) <= 73
      /\ \/ sig.der = DerSignature(sig.r, sig.s)
         \/ Len(sig.der) >= 39 /\ Markers(sig.der) # "no_error"
  BY SignaturesAssumption, SMTT(30) DEF Byte
<1>2. d \in Seq(Byte) /\ Len(d) = 73
  BY DEF IsOf
<1>3. \A k \in 1 .. Len(sig.der) : d[k] = sig.der[k]
  <2>1. \A k \in 1 .. Len(sig.der) : d[1 + k - 1] = sig.der[k]
    BY Zenon DEF IsIn
  <2>2. \A k \in Int : 1 + k - 1 = k
    OBVIOUS
  <2> QED BY <2>1, <2>2
<1>4. CASE sig.der = DerSignature(sig.r, sig.s)
  <2>1. Len(DerSignature(sig.r, sig.s)) <= Len(d)
    BY <1>1, <1>2, <1>4, Zenon
  <2>2. IsConverted(rsv, sig.r, sig.s, info)
    <3> DEFINE e == DerSignature(sig.r, sig.s)
    <3>1. \A k \in 1 .. Len(e) : d[k] = e[k]
      BY <1>3, <1>4
    <3> QED BY <1>1, <1>2, <2>1, <3>1, NumbersOfDer
  <2>3. Parity(info) + 2 * XGTn(info) \in Byte
    BY DEF Parity, XGTn, Byte
  <2> QED BY <2>2, <2>3 DEF IsConverted
<1>5. CASE Len(sig.der) >= 39 /\ Markers(sig.der) # "no_error"
  <2> DEFINE e == sig.der
  <2>1. \A k \in 1 .. 39 : d[k] = e[k]
    <3>1. PICK n \in Nat : n = Len(sig.der)
      BY <1>1, LenProperties
    <3>2. n >= 39 /\ \A k \in 1 .. n : d[k] = e[k]
      BY <1>3, <1>5, <3>1, Zenon
    <3>3. \A k \in 1 .. 39 : k \in 1 .. n
      BY <3>2
    <3> QED BY <3>2, <3>3, Zenon
  <2>2. Markers(d) = Markers(e)
    <3> HIDE DEF e
    <3>1. d[1] = e[1] /\ d[2] = e[2] /\ d[3] = e[3] /\ d[4] = e[4]
      BY <2>1
    <3>2. d[4] \in 1 .. 33 => d[5 + d[4]] = e[5 + e[4]] /\ d[6 + d[4]] = e[6 + e[4]]
      <4> HAVE d[4] \in 1 .. 33
      <4> DEFINE k == d[4]
      <4>1. k \in 1 .. 33
        OBVIOUS
      <4> HIDE DEF k
      <4>2. 5 + k \in 1 .. 39 /\ 6 + k \in 1 .. 39
        BY <4>1
      <4>3. d[5 + k] = e[5 + k] /\ d[6 + k] = e[6 + k]
        BY <2>1, <4>2
      <4> QED BY <3>1, <4>3 DEF k
    <3> QED BY <3>1, <3>2, Zenon DEF Markers, MINPAYLOADLEN, MAXPAYLOADLEN
  <2>3. rsv.err = Markers(d)
    BY <1>5, <2>2 DEF convertDERtoRSV
  <2> QED BY <1>5, <2>2, <2>3
<1> QED
  BY <1>1, <1>4, <1>5

(* cx_ecdsa_sign puts its answer where the conversion looks for it.        *)
LEMMA SignStep ==
    ASSUME StepInv, BufferInv, Sign
    PROVE  BufferInv' /\ SignatureAsSigned'
<1>1. op.op = "sign" /\ op' = op /\ buffer = Old /\ pc' # "idle" /\ result' = result /\ result.err = "running"
  BY DEF Sign, StepInv, BufferInv, Goto, Fail
<1>2. SignatureAsSigned'
  BY <1>1 DEF SignatureAsSigned, Done
<1>3. CASE pc' = "wipe"
  BY <1>1, <1>2, <1>3 DEF BufferInv
<1>4. CASE pc' # "wipe"
  <2>1. PICK sig \in Signatures, info \in 0 .. 3 :
          /\ signature' = [r |-> sig.r, s |-> sig.s, der |-> sig.der, info |-> info]
          /\ buffer' = SubSeq(buffer, 1, 65) \o sig.der \o SubSeq(buffer, 66 + Len(sig.der), BUFFER)
          /\ pc' = "convert"
    BY <1>4 DEF Sign, Goto, Fail
  <2>2. Signed'
    BY <2>1 DEF Signed
  <2>3. sig.der \in Seq(Byte) /\ Len(sig.der) <= 73
    BY SignaturesAssumption, Zenon DEF Byte
  <2>4. PICK n \in Nat : n = Len(sig.der)
    BY <2>3, LenProperties
  <2>5. IsOf(Byte, sig.der, n) /\ n <= 73
    BY <2>3, <2>4, Zenon DEF IsOf
  <2>6. IsOf(Byte, buffer', 138) /\ IsIn(buffer', 66, sig.der, n)
    <3> DEFINE T == SubSeq(Old, 1, 65) \o sig.der \o SubSeq(Old, 66 + n, BUFFER)
    <3>1. buffer' = T
      BY <1>1, <2>1, <2>4
    <3>2. IsOf(Byte, T, 138) /\ IsIn(T, 66, sig.der, n)
      BY <2>5, TakenIs
    <3> HIDE DEF T
    <3> QED BY <3>1, <3>2
  <2>7. signature'.der = sig.der
    BY <2>1
  <2> QED BY <1>1, <1>2, <2>1, <2>2, <2>4, <2>6, <2>7 DEF BufferInv
<1> QED
  BY <1>3, <1>4

(* convertDERtoRSV leaves the numbers in front of the signature.           *)
LEMMA ConvertStep ==
    ASSUME StepInv, BufferInv, Convert
    PROVE  BufferInv' /\ SignatureAsSigned'
<1> DEFINE d == SubSeq(buffer, 66, 138)
           rsv == convertDERtoRSV(d, signature.info)
<1>1. /\ op.op = "sign" /\ op' = op /\ pc' = "wipe" /\ signature' = signature /\ result.err = "running"
      /\ Signed /\ IsOf(Byte, buffer, 138)
      /\ IsIn(buffer, 66, signature.der, Len(signature.der))
  BY DEF Convert, StepInv, BufferInv
<1>2. /\ buffer' = rsv.r \o rsv.s \o <<rsv.v>> \o d
      /\ result' = IF rsv.err = "no_error" THEN [err |-> "ok", len |-> 65 + Len(signature.der)] ELSE result
  BY OldIs DEF Convert
<1>3. SignatureAsSigned'
  BY <1>1 DEF SignatureAsSigned, Done
<1>4. CASE rsv.err # "no_error"
  <2>1. result'.err = "running"
    BY <1>1, <1>2, <1>4
  <2> QED BY <1>1, <1>3, <2>1 DEF BufferInv
<1>5. CASE rsv.err = "no_error"
  <2>1. PICK sig \in Signatures, info \in 0 .. 3 :
          signature = [r |-> sig.r, s |-> sig.s, der |-> sig.der, info |-> info]
    BY <1>1 DEF Signed
  <2>2. signature.r = sig.r /\ signature.s = sig.s /\ signature.der = sig.der /\ signature.info = info
    BY <2>1
  <2>3. /\ sig.r \in Seq(Byte) /\ Len(sig.r) <= 32 /\ sig.s \in Seq(Byte) /\ Len(sig.s) <= 32
        /\ sig.der \in Seq(Byte) /\ Len(sig.der) <= 73
    BY SignaturesAssumption, SMTT(30) DEF Byte
  <2>4. IsOf(Byte, d, 73) /\ IsIn(buffer, 66, d, 73)
    <3>1. 66 \in Nat \ {0} /\ 73 \in Nat /\ 138 \in Int /\ 138 = 66 + 73 - 1 /\ 138 <= 138
      OBVIOUS
    <3>2. IsOf(Byte, d, 73)
      BY <1>1, <3>1, PartIs
    <3>3. IsIn(buffer, 66, d, 73)
      BY <1>1, <3>1, PartIs
    <3> QED BY <3>2, <3>3
  <2>5. IsIn(d, 1, sig.der, Len(sig.der))
    <3>1. PICK n \in Nat : n = Len(sig.der) /\ n <= 73
      BY <2>3, LenProperties
    <3>2. \A k \in 1 .. n : buffer[66 + k - 1] = sig.der[k]
      BY <1>1, <2>2, <3>1, Zenon DEF IsIn
    <3>3. \A k \in 1 .. 73 : buffer[66 + k - 1] = d[k]
      BY <2>4 DEF IsIn
    <3> HIDE DEF d
    <3>4. n <= 73 /\ \A k \in 1 .. n : d[1 + k - 1] = sig.der[k]
      <4>1. \A m \in Nat : m <= 73 => \A k \in 1 .. m : k \in 1 .. 73 /\ 1 + k - 1 = k
        OBVIOUS
      <4>2. \A k \in 1 .. n : k \in 1 .. 73 /\ 1 + k - 1 = k
        BY <3>1, <4>1
      <4> QED BY <3>1, <3>2, <3>3, <4>2
    <3> QED BY <3>1, <3>4, Zenon DEF IsIn
  <2> HIDE DEF d
  <2>6. rsv.r = Padded(sig.r) /\ rsv.s = Padded(sig.s) /\ rsv.v \in Byte
    BY <1>5, <2>2, <2>4, <2>5, AnswerConverted
  <2>7. IsOf(Byte, rsv.r, 32) /\ IsOf(Byte, rsv.s, 32)
    BY <2>3, <2>6, PaddedIs
  <2> HIDE DEF rsv
  <2>8. IsOf(Byte, buffer', 138) /\ SubSeq(buffer', 1, 32) = rsv.r /\ SubSeq(buffer', 33, 64) = rsv.s
    <3> DEFINE T == rsv.r \o rsv.s \o <<rsv.v>> \o d
    <3>1. IsOf(Byte, T, 138) /\ SubSeq(T, 1, 32) = rsv.r /\ SubSeq(T, 33, 64) = rsv.s
      <4> PICK r, s, v : r = rsv.r /\ s = rsv.s /\ v = rsv.v
        OBVIOUS
      <4>1. IsOf(Byte, r, 32) /\ IsOf(Byte, s, 32) /\ v \in Byte /\ IsOf(Byte, d, 73)
        BY <2>4, <2>6, <2>7
      <4>2. T = r \o s \o <<v>> \o d
        OBVIOUS
      <4> HIDE DEF T
      <4>3. AreConverted(T, r, s)
        <5>1. AreConverted(r \o s \o <<v>> \o d, r, s)
          BY <4>1, ConvertedIs
        <5> QED BY <4>2, <5>1, Zenon
      <4> QED BY <4>3 DEF AreConverted
    <3>2. buffer' = T
      BY <1>2
    <3> HIDE DEF T
    <3> QED BY <3>1, <3>2
  <2>9. Signed'
    BY <1>1 DEF Signed
  <2> QED BY <1>1, <1>3, <2>2, <2>6, <2>8, <2>9 DEF BufferInv
<1> QED
  BY <1>4, <1>5

(* Moving r and s up by a byte leaves them what they are.                  *)
LEMMA FixStep ==
    ASSUME StepInv, BufferInv, FixV
    PROVE  BufferInv' /\ SignatureAsSigned'
<1> DEFINE V == _computeV(Transaction, Parity(signature.info), op.personal)
<1>1. /\ op.op = "sign" /\ op' = op /\ pc' = "idle" /\ signature' = signature
      /\ Signed /\ IsOf(Byte, buffer, 138)
      /\ SubSeq(buffer, 1, 32)  = Padded(signature.r)
      /\ SubSeq(buffer, 33, 64) = Padded(signature.s)
      /\ buffer' = <<V>> \o SubSeq(buffer, 1, 64) \o SubSeq(buffer, 66, BUFFER)
  BY DEF FixV, Goto, StepInv, BufferInv
<1>2. IsOf(Byte, Padded(signature.r), 32) /\ IsOf(Byte, Padded(signature.s), 32)
  <2>1. PICK sig \in Signatures : signature.r = sig.r /\ signature.s = sig.s
    BY <1>1 DEF Signed
  <2>2. sig.r \in Seq(Byte) /\ Len(sig.r) <= 32 /\ sig.s \in Seq(Byte) /\ Len(sig.s) <= 32
    BY SignaturesAssumption, SMTT(30) DEF Byte
  <2> QED BY <2>1, <2>2, PaddedIs
<1>3. op'.personal = op.personal
  BY <1>1
<1>4. _computeV(Transaction, Parity(signature'.info), op'.personal) = V
  BY <1>1
<1> HIDE DEF V
<1>5. buffer'[1] = V /\ SubSeq(buffer', 2, 33) = Padded(signature.r) /\ SubSeq(buffer', 34, 65) = Padded(signature.s)
  <2> DEFINE T == <<V>> \o SubSeq(buffer, 1, 64) \o SubSeq(buffer, 66, BUFFER)
  <2>1. T[1] = V /\ SubSeq(T, 2, 33) = Padded(signature.r) /\ SubSeq(T, 34, 65) = Padded(signature.s)
    <3> DEFINE rr == Padded(signature.r)
               ss == Padded(signature.s)
    <3>1. /\ IsOf(Byte, buffer, 138) /\ IsOf(Byte, rr, 32) /\ IsOf(Byte, ss, 32)
          /\ SubSeq(buffer, 1, 32) = rr /\ SubSeq(buffer, 33, 64) = ss
      BY <1>1, <1>2, Zenon
    <3> HIDE DEF rr, ss
    <3>2. T[1] = V /\ SubSeq(T, 2, 33) = rr /\ SubSeq(T, 34, 65) = ss
      BY <3>1, FixedIs, SMTT(30)
    <3> QED BY <3>2 DEF rr, ss
  <2>2. buffer' = T
    BY <1>1
  <2> HIDE DEF T
  <2> QED BY <2>1, <2>2
<1>6. SignatureAsSigned'
  BY <1>1, <1>4, <1>5, Zenon DEF SignatureAsSigned, Padded
<1>7. BufferInv'
  BY <1>1 DEF BufferInv
<1> QED
  BY <1>6, <1>7

LEMMA BufferStep ==
    ASSUME StepInv, BufferInv, SignatureAsSigned, [KeyNext]_keyVars
    PROVE  BufferInv' /\ SignatureAsSigned'
<1> DEFINE I == BufferInv /\ SignatureAsSigned
<1>1. ASSUME NEW personal \in BOOLEAN, crypto_sign_eth(personal) PROVE I'
  <2>1. buffer' = Old /\ (pc' = "derive" \/ (pc' = "idle" /\ result'.err = "error"))
    <3>1. buffer' = Old /\ (pc' = "derive" \/ (pc' = "idle" /\ result' = Failure))
      BY <1>1, Zenon DEF crypto_sign_eth
    <3>2. Failure.err = "error"
      BY DEF Failure
    <3> QED BY <3>1, <3>2, Zenon
  <2> QED BY <2>1 DEF BufferInv, SignatureAsSigned, Done
<1>2. ASSUME NEW code \in BOOLEAN, crypto_fillEthAddress(code) PROVE I'
  BY <1>2 DEF crypto_fillEthAddress, BufferInv, SignatureAsSigned, Done
<1>3. CASE Derive
  BY <1>3 DEF Derive, Goto, Fail, StepInv, BufferInv, SignatureAsSigned, Done
<1>4. CASE InitPrivate
  BY <1>4 DEF InitPrivate, Goto, Fail, StepInv, BufferInv, SignatureAsSigned, Done
<1>5. CASE Sign
  BY <1>5, SignStep
<1>6. CASE Convert
  BY <1>6, ConvertStep
<1>7. CASE Wipe
  <2>1. CASE result.err = "ok"
    BY <1>7, <2>1 DEF Wipe, Goto, BufferInv, Signed, SignatureAsSigned, Done
  <2>2. CASE result.err # "ok"
    <3>1. pc' = "idle" /\ result'.err = "error"
      BY <1>7, <2>2 DEF Wipe, Fail, Failure
    <3> QED BY <3>1 DEF BufferInv, SignatureAsSigned, Done
  <2> QED BY <2>1, <2>2
<1>8. CASE FixV
  BY <1>8, FixStep
<1>9. CASE InitPublic
  BY <1>9 DEF InitPublic, StepInv, BufferInv, SignatureAsSigned, Done
<1>10. CASE Generate
  BY <1>10 DEF Generate, StepInv, BufferInv, SignatureAsSigned, Done
<1>11. CASE Address
  BY <1>11 DEF Address, StepInv, BufferInv, SignatureAsSigned, Done
<1>12. CASE UNCHANGED keyVars
  BY <1>12 DEF keyVars, BufferInv, Signed, SignatureAsSigned, Done
<1> QED
  BY <1>1, <1>2, <1>3, <1>4, <1>5, <1>6, <1>7, <1>8, <1>9, <1>10, <1>11, <1>12 DEF KeyNext

(* The conversion ends within the 73 bytes of der_signature.               *)
LEMMA ConversionStaysInside == ReadsTheSignatureOnly
<1> DEFINE der == SubSeq(buffer, 66, BUFFER)
<1>1. Markers(der) = "no_error" => der[4] \in 1 .. 33 /\ der[6 + der[4]] \in 1 .. 33
  BY DEF Markers, MINPAYLOADLEN, MAXPAYLOADLEN
<1> HIDE DEF der
<1>2. der[4] \in 1 .. 33 /\ der[6 + der[4]] \in 1 .. 33 => Extent(der) <= 73
  <2>1. \A m, n \in 1 .. 33 : 6 + m + n <= 73
    OBVIOUS
  <2> QED BY <2>1 DEF Extent
<1> QED
  BY <1>1, <1>2 DEF ReadsTheSignatureOnly, der

(* The host gets the v of the transaction and the two numbers that were    *)
(* signed with, of 32 bytes each, from every signature in DER, however     *)
(* short its numbers are, and nothing from an answer that is not in DER.   *)
THEOREM KeysAnswerTheSignature == KeySpec => []AnswersTheSignature
<1> DEFINE I == StepInv /\ AnswerInv /\ NoKeyLeft /\ FailureAnswersNothing
           J == BufferInv /\ SignatureAsSigned
<1>1. KeyInit => I /\ J
  <2>1. KeyInit => J
    BY DEF KeyInit, None, BufferInv, SignatureAsSigned, Done
  <2> QED BY <2>1, NothingLeftBegins
<1>2. I /\ J /\ [KeyNext]_keyVars => I' /\ J'
  <2> SUFFICES ASSUME I, J, [KeyNext]_keyVars PROVE I' /\ J'
    OBVIOUS
  <2>1. I'
    BY NothingLeftStep
  <2>2. J'
    BY BufferStep
  <2> QED BY <2>1, <2>2
<1>3. J => AnswersTheSignature
  BY ConversionStaysInside DEF AnswersTheSignature
<1> HIDE DEF I, J
<1> QED
  BY <1>1, <1>2, <1>3, PTL DEF KeySpec
=============================================================================
