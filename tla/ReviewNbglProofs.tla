-------------------------- MODULE ReviewNbglProofs --------------------------
(***************************************************************************)
(* Theorems about ReviewNbgl, for all reviews of up to 128 items, every    *)
(* number of pairs to a screen and every size of the cache.                *)
(***************************************************************************)
EXTENDS ReviewNbgl, SequenceTheorems, WellFoundedInduction, TLAPS

(* What is on the screen: an item and a page, Blank or Error.              *)
Text == Int \X Int

Cache == [valid : BOOLEAN, itemCount : 0 .. MAX_CACHED_ITEMS,
          pageCounts : [0 .. MAX_CACHED_ITEMS - 1 -> 0 .. 255]]

(* Every count in the cache, in use or not, is the item's.                 *)
Truthful(r, c) ==
    /\ c \in Cache
    /\ c.valid => \A i \in 0 .. MAX_CACHED_ITEMS - 1 :
                    c.pageCounts[i] # 0 => i < Len(r.pages) /\ c.pageCounts[i] = r.pages[i + 1]

-----------------------------------------------------------------------------
(* Induction, and functions that a loop defines turn by turn.              *)

Smaller == {p \in Nat \X Nat : p[1] < p[2]}

(* The order of the naturals as a relation; every set of naturals has a    *)
(* least element for it.                                                   *)
LEMMA SmallerIsWellFounded == IsWellFoundedOn(Smaller, Nat)
BY NatLessThanWellFounded, SMT DEF Smaller, OpToRel

(* Induction up to a bound: what holds before the first turn, and after a  *)
(* turn if it held before it, holds after all of them.                     *)
LEMMA TurnByTurn ==
    ASSUME NEW N \in Nat, NEW T, 0 \in T, \A k \in 1 .. N : k - 1 \in T => k \in T
    PROVE  \A k \in 0 .. N : k \in T
<1> DEFINE U == {k \in Nat : k <= N /\ k \notin T}
<1>1. SUFFICES ASSUME U # {} PROVE FALSE
  OBVIOUS
<1>2. U \subseteq Nat
  OBVIOUS
<1> HIDE DEF U
<1>3. PICK x \in U : \A y \in U : ~(<<y, x>> \in Smaller)
  BY <1>1, <1>2, SmallerIsWellFounded, WFMin
<1>4. x \in Nat /\ x <= N /\ x \notin T /\ x # 0
  BY DEF U
<1>5. x \in 1 .. N /\ x - 1 \in Nat /\ x - 1 <= N /\ <<x - 1, x>> \in Smaller
  BY <1>4 DEF Smaller
<1>6. x - 1 \in T
  BY <1>3, <1>5 DEF U
<1> QED
  BY <1>4, <1>5, <1>6

(* f holds the states of n turns, each of which G makes.                   *)
Runs(f, n, S, base, G) ==
    f \in [0 .. n -> S] /\ f[0] = base /\ \A k \in 1 .. n : f[k] = G[<<k, f[k - 1]>>]

(* One turn more.                                                          *)
LEMMA IteratedFurther ==
    ASSUME NEW n \in Nat, NEW S, NEW base, NEW G, NEW f, Runs(f, n, S, base, G),
           G[<<n + 1, f[n]>>] \in S
    PROVE  \E h : Runs(h, n + 1, S, base, G)
<1>0. f \in [0 .. n -> S] /\ f[0] = base /\ \A k \in 1 .. n : f[k] = G[<<k, f[k - 1]>>]
  BY DEF Runs
<1> DEFINE h == [k \in 0 .. n + 1 |-> IF k = n + 1 THEN G[<<n + 1, f[n]>>] ELSE f[k]]
<1>1. ASSUME NEW k \in 0 .. n PROVE h[k] = f[k] /\ h[k] \in S
  BY <1>0, k \in 0 .. n + 1, k # n + 1
<1>2. h[n + 1] = G[<<n + 1, f[n]>>] /\ h[n + 1] \in S
  BY <1>0, n + 1 \in 0 .. n + 1
<1>3. h = [k \in 0 .. n + 1 |-> h[k]]
  OBVIOUS
<1> HIDE DEF h
<1>4. \A k \in 0 .. n + 1 : h[k] \in S
  <2> TAKE k \in 0 .. n + 1
  <2>1. k \in 0 .. n \/ k = n + 1
    OBVIOUS
  <2> QED BY <2>1, <1>1, <1>2
<1>5. h \in [0 .. n + 1 -> S]
  BY <1>3, <1>4
<1>6. h[0] = base
  BY <1>0, <1>1, 0 \in 0 .. n
<1>7. ASSUME NEW k \in 1 .. n + 1 PROVE h[k] = G[<<k, h[k - 1]>>]
  <2>1. CASE k = n + 1
    <3>1. k - 1 = n /\ n \in 0 .. n
      BY <2>1
    <3> QED BY <2>1, <3>1, <1>1, <1>2
  <2>2. CASE k # n + 1
    <3>1. k \in 1 .. n /\ k \in 0 .. n /\ k - 1 \in 0 .. n
      BY <2>2
    <3> QED BY <3>1, <1>0, <1>1
  <2> QED BY <2>1, <2>2
<1> QED
  BY <1>5, <1>6, <1>7 DEF Runs

(* A loop whose turns lead from S to S defines a function.                 *)
LEMMA Iterated ==
    ASSUME NEW N \in Nat, NEW S, NEW base \in S, NEW G \in [(1 .. N) \X S -> S]
    PROVE  \E f : Runs(f, N, S, base, G)
<1> DEFINE T == {n \in 0 .. N : \E f : Runs(f, n, S, base, G)}
<1>1. 0 \in T
  <2> DEFINE f == [k \in 0 .. 0 |-> base]
  <2>1. f \in [0 .. 0 -> S] /\ f[0] = base /\ 1 .. 0 = {}
    OBVIOUS
  <2> HIDE DEF f
  <2> QED BY <2>1 DEF Runs
<1>2. ASSUME NEW k \in 1 .. N, k - 1 \in T PROVE k \in T
  <2> DEFINE n == k - 1
  <2>1. n \in Nat /\ n + 1 = k /\ n + 1 \in 1 .. N
    OBVIOUS
  <2>2. PICK f : Runs(f, n, S, base, G)
    BY <1>2
  <2>3. f[n] \in S
    BY <2>1, <2>2, n \in 0 .. n DEF Runs
  <2>4. G[<<n + 1, f[n]>>] \in S
    BY <2>1, <2>3
  <2> HIDE DEF n, T
  <2>5. \E h : Runs(h, n + 1, S, base, G)
    BY <2>1, <2>2, <2>4, IteratedFurther, Zenon
  <2> QED BY <2>1, <2>5 DEF T
<1> HIDE DEF T
<1>3. \A k \in 0 .. N : k \in T
  BY <1>1, <1>2, TurnByTurn
<1>4. N \in T
  BY <1>3
<1> QED
  BY <1>4 DEF T

-----------------------------------------------------------------------------
(* Page counts and the cache.                                              *)

IsReview(r) == r.pages \in Seq(0 .. 255) /\ Len(r.pages) \in 1 .. 128

(* What the assumption on the constants says of one review.                *)
LEMMA ReviewTyped ==
    ASSUME NEW r \in Reviews
    PROVE  IsReview(r) /\ r.kind \in Kinds /\ r.intent \in Nat \cup {NoIntent}
BY ReviewsAssumption DEF IsReview, Review

(* The item at an index has a number of pages.                             *)
LEMMA PagesTyped ==
    ASSUME NEW r, IsReview(r), NEW i \in 0 .. Len(r.pages) - 1
    PROVE  r.pages[i + 1] \in 0 .. 255
<1>1. i + 1 \in 1 .. Len(r.pages)
  BY DEF IsReview
<1> QED
  BY <1>1, ElementOfSeq DEF IsReview

(* A count is stored beside others of the same review, or in an emptied    *)
(* cache.                                                                  *)
LEMMA StoreTruthful ==
    ASSUME NEW r, IsReview(r), NEW c, Truthful(r, c), NEW i \in 0 .. Len(r.pages) - 1,
           i < MAX_CACHED_ITEMS
    PROVE  Truthful(r, StoreCount(c, i, r.pages[i + 1]))
<1> DEFINE n == r.pages[i + 1]
           base == IF c.valid THEN c ELSE [valid |-> TRUE, itemCount |-> 0, pageCounts |-> NoCounts]
           d == StoreCount(c, i, n)
<1>1. n \in 0 .. 255
  BY PagesTyped
<1>2. i \in 0 .. MAX_CACHED_ITEMS - 1 /\ i + 1 \in 0 .. MAX_CACHED_ITEMS
  BY ReviewsAssumption DEF IsReview
<1>3. /\ base \in Cache /\ base.valid
      /\ \A j \in 0 .. MAX_CACHED_ITEMS - 1 :
           base.pageCounts[j] # 0 => j < Len(r.pages) /\ base.pageCounts[j] = r.pages[j + 1]
  <2>1. CASE c.valid
    BY <2>1 DEF Truthful, Cache
  <2>2. CASE ~c.valid
    BY <2>2, ReviewsAssumption DEF Cache, NoCounts
  <2> QED BY <2>1, <2>2
<1>4. d = [base EXCEPT !.pageCounts[i] = n, !.itemCount = IF i >= @ THEN i + 1 ELSE @]
  BY DEF StoreCount
<1> HIDE DEF n, base, d
<1>5. d \in Cache /\ d.valid /\ d.pageCounts = [base.pageCounts EXCEPT ![i] = n]
  BY <1>1, <1>2, <1>3, <1>4 DEF Cache
<1>6. ASSUME NEW j \in 0 .. MAX_CACHED_ITEMS - 1, d.pageCounts[j] # 0
      PROVE  j < Len(r.pages) /\ d.pageCounts[j] = r.pages[j + 1]
  <2>1. base.pageCounts \in [0 .. MAX_CACHED_ITEMS - 1 -> 0 .. 255]
    BY <1>3 DEF Cache
  <2>2. CASE j = i
    <3>1. d.pageCounts[j] = n
      BY <1>5, <2>1, <2>2
    <3>2. i < Len(r.pages)
      BY DEF IsReview
    <3> QED BY <2>2, <3>1, <3>2 DEF n
  <2>3. CASE j # i
    BY <1>3, <1>5, <1>6, <2>1, <2>3
  <2> QED BY <2>2, <2>3
<1> QED
  BY <1>5, <1>6 DEF Truthful, d, n

(* Hit or miss, the count is the item's, and the cache stays truthful.     *)
LEMMA CountIs ==
    ASSUME NEW r, IsReview(r), NEW c, Truthful(r, c), NEW i \in 0 .. Len(r.pages) - 1,
           NEW text \in Text
    PROVE  /\ Truthful(r, get_item_page_count(r, c, i, text).cache)
           /\ get_item_page_count(r, c, i, text).count = r.pages[i + 1]
           /\ get_item_page_count(r, c, i, text).text \in Text
<1>1. CASE Cached(c, i)
  <2>1. i \in 0 .. MAX_CACHED_ITEMS - 1 /\ c.valid /\ c.pageCounts[i] # 0
    BY <1>1, ReviewsAssumption DEF Cached, IsReview
  <2>2. c.pageCounts[i] = r.pages[i + 1]
    BY <2>1 DEF Truthful
  <2> QED BY <1>1, <2>2 DEF get_item_page_count
<1>2. CASE ~Cached(c, i)
  <2>1. <<i, 0>> \in Text /\ Blank \in Text
    BY DEF IsReview, Text, Blank
  <2>2. i < MAX_CACHED_ITEMS => Truthful(r, StoreCount(c, i, r.pages[i + 1]))
    BY StoreTruthful
  <2> QED BY <1>2, <2>1, <2>2 DEF get_item_page_count
<1> QED
  BY <1>1, <1>2

(* A new review begins with an empty cache.                                *)
LEMMA InvalidatedTruthful ==
    ASSUME NEW q, NEW r, Truthful(q, pageCountCache)
    PROVE  Truthful(r, Invalidated)
<1>1. 0 \in 0 .. MAX_CACHED_ITEMS /\ pageCountCache \in Cache
  BY ReviewsAssumption DEF Truthful
<1>2. Invalidated \in Cache /\ Invalidated.valid = FALSE
  BY <1>1 DEF Cache, Invalidated
<1> QED
  BY <1>2 DEF Truthful

-----------------------------------------------------------------------------
(* The numbers of the pages.                                               *)

ItemPages(r, k) == [p \in 1 .. r.pages[k] |-> <<k - 1, p - 1>>]

(* B[k] pages are in the first k items, and AllPages has them in order.    *)
Numbering(r, B) ==
    /\ B \in [0 .. Len(r.pages) -> Nat]
    /\ B[0] = 0
    /\ \A k \in 1 .. Len(r.pages) : B[k] = B[k - 1] + r.pages[k]
    /\ AllPages(r) \in Seq(Text) /\ Len(AllPages(r)) = B[Len(r.pages)]
    /\ \A k \in 1 .. Len(r.pages), p \in 0 .. 254 :
         p < r.pages[k] => AllPages(r)[B[k - 1] + p + 1] = <<k - 1, p>>

(* The pages of one item.                                                  *)
LEMMA ItemPagesTyped ==
    ASSUME NEW r, IsReview(r), NEW k \in 1 .. Len(r.pages)
    PROVE  /\ r.pages[k] \in 0 .. 255
           /\ ItemPages(r, k) \in Seq(Text) /\ Len(ItemPages(r, k)) = r.pages[k]
           /\ \A p \in 0 .. 254 : p < r.pages[k] => ItemPages(r, k)[p + 1] = <<k - 1, p>>
<1>1. r.pages[k] \in 0 .. 255
  BY ElementOfSeq DEF IsReview
<1> DEFINE m == r.pages[k]
<1>2. \A p \in 1 .. m : <<k - 1, p - 1>> \in Text
  BY <1>1 DEF IsReview, Text
<1>3. ItemPages(r, k) = [p \in 1 .. m |-> <<k - 1, p - 1>>]
  BY DEF ItemPages
<1>4a. m \in 0 .. 255
  BY <1>1
<1> HIDE DEF m
<1>4. m \in Nat
  BY <1>4a
<1>5. ItemPages(r, k) \in Seq(Text) /\ Len(ItemPages(r, k)) = m
  BY <1>2, <1>3, <1>4
<1>6. ASSUME NEW p \in 0 .. 254, p < m PROVE ItemPages(r, k)[p + 1] = <<k - 1, p>>
  BY <1>3, <1>4, <1>6, p + 1 \in 1 .. m, (p + 1) - 1 = p
<1> QED
  BY <1>1, <1>5, <1>6 DEF m

(* The sequences that AllPages is made of: those of the first k items.     *)
Joined(r, f) ==
    /\ f \in [0 .. Len(r.pages) -> Seq(Text)]
    /\ f[0] = << >>
    /\ \A k \in 1 .. Len(r.pages) : f[k] = f[k - 1] \o ItemPages(r, k)

(* They exist: each joins the pages of one more item.                      *)
LEMMA JoinedExists ==
    ASSUME NEW r, IsReview(r)
    PROVE  \E f : Joined(r, f)
<1> DEFINE N == Len(r.pages)
           G == [x \in (1 .. N) \X Seq(Text) |-> x[2] \o ItemPages(r, x[1])]
<1>1. N \in Nat /\ << >> \in Seq(Text)
  BY DEF IsReview
<1>2. \A x \in (1 .. N) \X Seq(Text) : x[2] \o ItemPages(r, x[1]) \in Seq(Text)
  BY ItemPagesTyped, ConcatProperties
<1>3. G \in [(1 .. N) \X Seq(Text) -> Seq(Text)]
  BY <1>2
<1>4. \A k \in 1 .. N, s \in Seq(Text) : G[<<k, s>>] = s \o ItemPages(r, k)
  OBVIOUS
<1> HIDE DEF N, G
<1>5. PICK f : Runs(f, N, Seq(Text), << >>, G)
  BY <1>1, <1>3, Iterated
<1>6. f \in [0 .. N -> Seq(Text)] /\ f[0] = << >> /\ \A k \in 1 .. N : f[k] = G[<<k, f[k - 1]>>]
  BY <1>5 DEF Runs
<1>7. ASSUME NEW k \in 1 .. N PROVE f[k] = f[k - 1] \o ItemPages(r, k)
  <2>1. k - 1 \in 0 .. N
    BY <1>1
  <2>2. f[k - 1] \in Seq(Text)
    BY <1>6, <2>1
  <2> QED BY <1>4, <1>6, <2>2
<1> QED
  BY <1>6, <1>7 DEF Joined, N

(* FlattenSeq joins them in the same way, beginning with the first.        *)
LEMMA AllPagesJoined ==
    ASSUME NEW r, IsReview(r), NEW f, Joined(r, f)
    PROVE  AllPages(r) = f[Len(r.pages)]
<1>0. \A x \in 1 .. 128 : x # 0 /\ 1 \in 1 .. x /\ 1 - 1 = 0
  OBVIOUS
<1> DEFINE N == Len(r.pages)
           seqs == [i \in DOMAIN r.pages |-> [p \in 1 .. r.pages[i] |-> <<i - 1, p - 1>>]]
<1> DEFINE flatten[i \in 1 .. Len(seqs)] ==
             IF i = 1 THEN seqs[i] ELSE flatten[i - 1] \o seqs[i]
<1>1. N \in 1 .. 128 /\ DOMAIN r.pages = 1 .. N
  BY LenProperties DEF IsReview
<1>2. seqs = [i \in 1 .. N |-> ItemPages(r, i)]
  BY <1>1 DEF ItemPages
<1>3. Len(seqs) = N
  BY <1>1, <1>2
<1>4. AllPages(r) = flatten[Len(seqs)]
  <2>1. Len(seqs) # 0
    <3> HIDE DEF seqs, N, flatten
    <3> QED BY <1>0, <1>1, <1>3, ZenonT(30)
  <2>2. AllPages(r) = FlattenSeq(seqs)
    BY DEF AllPages
  <2>3. FlattenSeq(seqs) = flatten[Len(seqs)]
    <3> HIDE DEF seqs
    <3> QED BY <2>1 DEF FlattenSeq
  <2> QED BY <2>2, <2>3
<1> HIDE DEF seqs, flatten
<1>5. /\ f \in [0 .. N -> Seq(Text)] /\ f[0] = << >>
      /\ \A k \in 1 .. N : f[k] = f[k - 1] \o ItemPages(r, k)
  BY DEF Joined
<1>6. \A k \in 1 .. N : seqs[k] = ItemPages(r, k)
  BY <1>2
<1>7. f[1] = ItemPages(r, 1)
  <2>0. 1 \in 1 .. N /\ 1 - 1 = 0
    <3> HIDE DEF N
    <3> QED BY <1>0, <1>1, ZenonT(30)
  <2>1. 1 \in 1 .. N /\ f[1] = << >> \o ItemPages(r, 1)
    <3>1. f[1] = f[1 - 1] \o ItemPages(r, 1)
      BY <1>5, <2>0
    <3> QED BY <1>5, <2>0, <3>1
  <2>2. ItemPages(r, 1) \in Seq(Text)
    BY <2>1, ItemPagesTyped
  <2> QED BY <2>1, <2>2, ConcatEmptySeq
<1>8. flatten = [i \in 1 .. Len(seqs) |->
                   IF i = 1 THEN seqs[i] ELSE flatten[i - 1] \o seqs[i]]
  <2> DEFINE g == [i \in 1 .. N |-> f[i]]
  <2>1. ASSUME NEW i \in 1 .. N
        PROVE  g[i] = IF i = 1 THEN seqs[i] ELSE g[i - 1] \o seqs[i]
    <3>1. g[i] = f[i] /\ (i # 1 => g[i - 1] = f[i - 1])
      BY <1>1
    <3> QED BY <3>1, <1>5, <1>6, <1>7
  <2>2. g = [i \in 1 .. N |-> g[i]]
    OBVIOUS
  <2> HIDE DEF g
  <2>3. g = [i \in 1 .. N |-> IF i = 1 THEN seqs[i] ELSE g[i - 1] \o seqs[i]]
    BY <2>1, <2>2
  <2>4. \E h : h = [i \in 1 .. Len(seqs) |->
                      IF i = 1 THEN seqs[i] ELSE h[i - 1] \o seqs[i]]
    BY <1>3, <2>3
  <2> QED BY <2>4, Zenon DEF flatten
<1> DEFINE T == {k \in 0 .. N : k # 0 => flatten[k] = f[k]}
<1>9. 0 \in T
  BY <1>1
<1>10. ASSUME NEW k \in 1 .. N, k - 1 \in T PROVE k \in T
  <2>1. flatten[k] = IF k = 1 THEN seqs[k] ELSE flatten[k - 1] \o seqs[k]
    BY <1>3, <1>8
  <2>2. k # 1 => flatten[k - 1] = f[k - 1]
    BY <1>10
  <2>3. flatten[k] = f[k]
    <3>1. CASE k = 1
      <4>1. flatten[k] = seqs[k] /\ seqs[k] = ItemPages(r, k)
        BY <1>6, <2>1, <3>1
      <4> QED BY <1>7, <3>1, <4>1
    <3>2. CASE k # 1
      BY <1>5, <1>6, <2>1, <2>2, <3>2
    <3> QED BY <3>1, <3>2
  <2>4. k \in 0 .. N
    <3> HIDE DEF N
    <3> QED BY <1>1
  <2> QED BY <2>3, <2>4
<1> HIDE DEF T, N
<1>11. N \in T
  <2>1. \A k \in 0 .. N : k \in T
    <3>1. \A k \in 1 .. N : k - 1 \in T => k \in T
      BY <1>10
    <3>2. N \in Nat
      BY <1>1
    <3> QED BY <1>9, <3>1, <3>2, TurnByTurn, SMTT(30)
  <2>2. N \in 0 .. N
    BY <1>1
  <2> QED BY <2>1, <2>2
<1>12. flatten[N] = f[N]
  BY <1>1, <1>11 DEF T
<1> QED
  BY <1>3, <1>4, <1>12 DEF N

(* Joined in order: what is in the pages of the first items stays where it *)
(* is.                                                                     *)
LEMMA JoinedInOrder ==
    ASSUME NEW r, IsReview(r), NEW f, Joined(r, f), NEW k \in 0 .. Len(r.pages)
    PROVE  \A j \in 1 .. k, p \in 0 .. 254 : p < r.pages[j] =>
             /\ Len(f[j - 1]) + p + 1 <= Len(f[k])
             /\ f[k][Len(f[j - 1]) + p + 1] = <<j - 1, p>>
<1> DEFINE N == Len(r.pages)
           Placed(m, j, p) == /\ Len(f[j - 1]) + p + 1 <= Len(f[m])
                              /\ f[m][Len(f[j - 1]) + p + 1] = <<j - 1, p>>
           T == {m \in 0 .. N : \A j \in 1 .. m, p \in 0 .. 254 : p < r.pages[j] => Placed(m, j, p)}
<1>1. N \in Nat
  BY DEF IsReview
<1>2. 0 \in T
  <2>1. (\A j \in 1 .. 0 : FALSE) /\ 0 \in 0 .. N
    <3> HIDE DEF N
    <3> QED BY <1>1
  <2> HIDE DEF N, Placed
  <2> QED BY <2>1
<1>3. ASSUME NEW m \in 1 .. N, m - 1 \in T PROVE m \in T
  <2>0. m \in 0 .. N
    <3> HIDE DEF N
    <3> QED BY <1>1
  <2> SUFFICES ASSUME NEW j \in 1 .. m, NEW p \in 0 .. 254, p < r.pages[j] PROVE Placed(m, j, p)
    <3> HIDE DEF Placed, N
    <3> QED BY <2>0
  <2> DEFINE s == f[m - 1]
             t == ItemPages(r, m)
             a == Len(f[j - 1])
  <2>1. m - 1 \in 0 .. N /\ j - 1 \in 0 .. N
    OBVIOUS
  <2>2. s \in Seq(Text) /\ f[j - 1] \in Seq(Text) /\ f[m] = s \o t
    BY <2>1 DEF Joined
  <2>3. t \in Seq(Text) /\ Len(t) = r.pages[m]
        /\ \A q \in 0 .. 254 : q < r.pages[m] => t[q + 1] = <<m - 1, q>>
    BY ItemPagesTyped, ZenonT(30)
  <2>4. a \in Nat /\ Len(s) \in Nat /\ Len(t) \in Nat /\ p \in Nat
    <3>1. \A u \in Seq(Text) : Len(u) \in Nat
      BY LenProperties
    <3>2. a \in Nat /\ Len(s) \in Nat /\ Len(t) \in Nat
      BY <2>2, <2>3, <3>1, Zenon
    <3> QED BY <3>2
  <2>5. /\ Len(s \o t) = Len(s) + Len(t)
        /\ \A i \in 1 .. Len(s) + Len(t) : (s \o t)[i] = IF i <= Len(s) THEN s[i] ELSE t[i - Len(s)]
    BY <2>2, <2>3, ConcatProperties
  <2>6. CASE j = m
    <3>0. p < Len(t) /\ t[p + 1] = <<j - 1, p>> /\ a = Len(s)
      BY <2>3, <2>6
    <3>1. p + 1 <= Len(t) /\ t[p + 1] = <<j - 1, p>> /\ a = Len(s)
      <4> HIDE DEF s, t, a
      <4> QED BY <2>4, <3>0
    <3> HIDE DEF s, t, a
    <3>2. a + p + 1 <= Len(s) + Len(t) /\ a + p + 1 \in 1 .. Len(s) + Len(t)
          /\ ~(a + p + 1 <= Len(s)) /\ (a + p + 1) - Len(s) = p + 1
      BY <2>4, <3>1
    <3>3. (s \o t)[a + p + 1] = <<j - 1, p>>
      BY <2>5, <3>1, <3>2
    <3> QED BY <2>2, <2>5, <3>2, <3>3 DEF a
  <2>7. CASE j # m
    <3>1. j \in 1 .. m - 1
      BY <2>7
    <3>2. a + p + 1 <= Len(s) /\ s[a + p + 1] = <<j - 1, p>>
      BY <1>3, <3>1
    <3> HIDE DEF s, t, a
    <3>3. a + p + 1 \in 1 .. Len(s) + Len(t) /\ a + p + 1 <= Len(s) + Len(t)
      BY <2>4, <3>2
    <3>4. (s \o t)[a + p + 1] = <<j - 1, p>>
      BY <2>5, <3>2, <3>3
    <3> QED BY <2>2, <2>5, <3>3, <3>4 DEF a
  <2> QED BY <2>6, <2>7
<1> HIDE DEF T
<1>4. k \in T
  BY <1>1, <1>2, <1>3, TurnByTurn
<1> QED
  BY <1>4 DEF T

(* Every review has its numbering.                                         *)
LEMMA NumberingExists ==
    ASSUME NEW r, IsReview(r)
    PROVE  \E B : Numbering(r, B)
<1> DEFINE N == Len(r.pages)
<1>1. PICK f : Joined(r, f)
  BY JoinedExists
<1> DEFINE B == [k \in 0 .. N |-> Len(f[k])]
<1>2. N \in Nat /\ N \in 0 .. N /\ 0 \in 0 .. N
  BY DEF IsReview
<1>3. \A k \in 0 .. N : f[k] \in Seq(Text) /\ B[k] = Len(f[k]) /\ Len(f[k]) \in Nat
  BY <1>1, LenProperties DEF Joined
<1>4. B \in [0 .. N -> Nat] /\ B[0] = 0
  BY <1>1, <1>2, <1>3 DEF Joined
<1>5. ASSUME NEW k \in 1 .. N PROVE B[k] = B[k - 1] + r.pages[k] /\ B[k - 1] = Len(f[k - 1])
  <2>1. k \in 0 .. N /\ k - 1 \in 0 .. N
    BY <1>2
  <2>2. f[k] = f[k - 1] \o ItemPages(r, k)
    BY <1>1 DEF Joined
  <2>3. Len(f[k - 1] \o ItemPages(r, k)) = Len(f[k - 1]) + r.pages[k]
    <3>1. f[k - 1] \in Seq(Text) /\ ItemPages(r, k) \in Seq(Text)
          /\ Len(ItemPages(r, k)) = r.pages[k]
      BY <1>3, <2>1, ItemPagesTyped
    <3>2. \A u \in Seq(Text), v \in Seq(Text) : Len(u \o v) = Len(u) + Len(v)
      BY ConcatProperties
    <3>3. Len(f[k - 1] \o ItemPages(r, k)) = Len(f[k - 1]) + Len(ItemPages(r, k))
      BY <3>1, <3>2, Zenon
    <3> QED BY <3>1, <3>3
  <2> HIDE DEF B
  <2> QED BY <1>3, <2>1, <2>2, <2>3
<1>6. AllPages(r) = f[N]
  BY <1>1, AllPagesJoined
<1> HIDE DEF B
<1>7. \A k \in 1 .. N, p \in 0 .. 254 :
         p < r.pages[k] => AllPages(r)[B[k - 1] + p + 1] = <<k - 1, p>>
  <2>1. \A j \in 1 .. N, p \in 0 .. 254 : p < r.pages[j] =>
             f[N][Len(f[j - 1]) + p + 1] = <<j - 1, p>>
    BY <1>1, <1>2, JoinedInOrder, ZenonT(60)
  <2> QED BY <1>5, <1>6, <2>1
<1>8. AllPages(r) \in Seq(Text) /\ Len(AllPages(r)) = B[N]
  BY <1>2, <1>3, <1>6
<1>9. Numbering(r, B)
  BY <1>4, <1>5, <1>7, <1>8 DEF Numbering
<1> QED
  BY <1>9

-----------------------------------------------------------------------------
(* The loops over the items.                                               *)

(* B counts the pages; every item has some, and there are fewer than 256.  *)
SoundNumbering(r, B) ==
    /\ Numbering(r, B)
    /\ \A k \in 1 .. Len(r.pages) : r.pages[k] > 0
    /\ B[Len(r.pages)] < 256

(* The count of the pages never falls.                                     *)
LEMMA NumberingGrows ==
    ASSUME NEW r, IsReview(r), NEW B, Numbering(r, B), NEW k \in 0 .. Len(r.pages)
    PROVE  B[k] \in Nat /\ B[k] <= B[Len(r.pages)]
<1> DEFINE N == Len(r.pages)
           T == {d \in 0 .. N : B[N - d] \in Nat /\ B[N - d] <= B[N]}
<1>1. N \in Nat
  BY DEF IsReview
<1>2. B \in [0 .. N -> Nat] /\ \A j \in 1 .. N : B[j] = B[j - 1] + r.pages[j] /\ r.pages[j] \in Nat
  <2>1. B \in [0 .. N -> Nat] /\ \A j \in 1 .. N : B[j] = B[j - 1] + r.pages[j]
    BY ZenonT(30) DEF Numbering
  <2>2. \A j \in 1 .. N : r.pages[j] \in 0 .. 255
    BY ItemPagesTyped, ZenonT(30)
  <2>3. \A x \in 0 .. 255 : x \in Nat
    OBVIOUS
  <2> HIDE DEF N
  <2> QED BY <2>1, <2>2, <2>3
<1> HIDE DEF N
<1>3. 0 \in T
  BY <1>1, <1>2
<1>4. ASSUME NEW d \in 1 .. N, d - 1 \in T PROVE d \in T
  <2> DEFINE j == N - (d - 1)
  <2>1. j \in 1 .. N /\ j - 1 = N - d /\ j - 1 \in 0 .. N
    BY <1>1
  <2>2. B[j] = B[j - 1] + r.pages[j] /\ r.pages[j] \in Nat /\ B[j - 1] \in Nat /\ B[j] <= B[N]
    BY <1>2, <1>4, <2>1
  <2>3. B[N] \in Nat
    BY <1>1, <1>2
  <2> DEFINE x == B[j]
             y == B[j - 1]
             m == r.pages[j]
             z == B[N]
  <2>4. y <= z
    <3>1. x = y + m /\ m \in Nat /\ y \in Nat /\ x <= z /\ z \in Nat
      BY <2>2, <2>3
    <3> HIDE DEF x, y, z, m
    <3> QED BY <3>1
  <2>5. d \in 0 .. N
    BY <1>1
  <2> HIDE DEF j
  <2> QED BY <2>1, <2>2, <2>4, <2>5
<1> HIDE DEF T
<1>5. \A d \in 0 .. N : d \in T
  BY <1>1, <1>3, <1>4, TurnByTurn
<1>6. N - k \in 0 .. N /\ N - (N - k) = k
  BY <1>1 DEF N
<1>7. N - k \in T
  BY <1>5, <1>6
<1> QED
  BY <1>6, <1>7 DEF T, N

Caches(r) == {c \in Cache : Truthful(r, c)}

CountStates(r) == [cache : Caches(r), text : Text, pairs : 0 .. 255]

CountTurn(r, s, k) ==
    LET g == get_item_page_count(r, s.cache, k - 1, s.text)
    IN  [cache |-> g.cache, text |-> g.text, pairs |-> (s.pairs + g.count) % 256]

(* A turn of get_pair_number adds the pages of its item.                   *)
LEMMA CountTurnIs ==
    ASSUME NEW r, IsReview(r), NEW s \in CountStates(r), NEW k \in 1 .. Len(r.pages)
    PROVE  /\ CountTurn(r, s, k) \in CountStates(r)
           /\ CountTurn(r, s, k).pairs = (s.pairs + r.pages[k]) % 256
<1> DEFINE g == get_item_page_count(r, s.cache, k - 1, s.text)
<1>1. k - 1 \in 0 .. Len(r.pages) - 1 /\ (k - 1) + 1 = k
  BY DEF IsReview
<1>2. Truthful(r, s.cache) /\ s.text \in Text /\ s.pairs \in 0 .. 255
  BY DEF CountStates, Caches
<1>3. Truthful(r, g.cache) /\ g.count = r.pages[k] /\ g.text \in Text
  BY <1>1, <1>2, CountIs
<1>4. r.pages[k] \in 0 .. 255
  BY ItemPagesTyped
<1> HIDE DEF g
<1>5. g.cache \in Caches(r)
  BY <1>3 DEF Truthful, Caches
<1> DEFINE a == s.pairs
           b == r.pages[k]
<1>6. a \in 0 .. 255 /\ b \in 0 .. 255
  BY <1>2, <1>4
<1>7. (a + b) % 256 \in 0 .. 255
  <2> HIDE DEF a, b
  <2> QED BY <1>6
<1> QED
  BY <1>3, <1>5, <1>7 DEF CountTurn, CountStates, g

(* get_pair_number: the sum of all counts, if it has room; the cache is    *)
(* as truthful as before.                                                  *)
LEMMA PairsCounted ==
    ASSUME NEW r, IsReview(r), NEW c, Truthful(r, c), NEW text \in Text
    PROVE  /\ get_pair_number(r, c, text) \in CountStates(r)
           /\ \A B : SoundNumbering(r, B) =>
                       get_pair_number(r, c, text).pairs = B[Len(r.pages)]
<1> DEFINE N == Len(r.pages)
           base == [cache |-> c, text |-> text, pairs |-> 0]
<1> DEFINE after[k \in 0 .. N] ==
             IF k = 0 THEN base
             ELSE LET s == after[k - 1]
                      g == get_item_page_count(r, s.cache, k - 1, s.text)
                  IN  [cache |-> g.cache, text |-> g.text, pairs |-> (s.pairs + g.count) % 256]
<1>0. get_pair_number(r, c, text) = after[N]
  BY DEF get_pair_number
<1>1. N \in Nat
  BY DEF IsReview
<1>2. base \in CountStates(r) /\ base.pairs = 0
  BY DEF CountStates, Caches, Truthful
<1>3. after = [k \in 0 .. N |-> IF k = 0 THEN base ELSE CountTurn(r, after[k - 1], k)]
  <2> DEFINE G == [x \in (1 .. N) \X CountStates(r) |-> CountTurn(r, x[2], x[1])]
  <2>1. \A x \in (1 .. N) \X CountStates(r) : CountTurn(r, x[2], x[1]) \in CountStates(r)
    BY CountTurnIs
  <2>2. G \in [(1 .. N) \X CountStates(r) -> CountStates(r)]
    BY <2>1
  <2>3. \A k \in 1 .. N, s \in CountStates(r) : G[<<k, s>>] = CountTurn(r, s, k)
    OBVIOUS
  <2> HIDE DEF G, N, base
  <2>4. PICK f : Runs(f, N, CountStates(r), base, G)
    BY <1>1, <1>2, <2>2, Iterated
  <2>5. f \in [0 .. N -> CountStates(r)] /\ f[0] = base
        /\ \A k \in 1 .. N : f[k] = G[<<k, f[k - 1]>>]
    BY <2>4 DEF Runs
  <2>6. ASSUME NEW k \in 0 .. N
        PROVE  f[k] = IF k = 0 THEN base ELSE CountTurn(r, f[k - 1], k)
    <3>1. k # 0 => k \in 1 .. N /\ k - 1 \in 0 .. N
      BY <1>1
    <3> QED BY <2>3, <2>5, <3>1
  <2>7. f = [k \in 0 .. N |-> IF k = 0 THEN base ELSE CountTurn(r, f[k - 1], k)]
    BY <2>5, <2>6
  <2>8. \E h : h = [k \in 0 .. N |-> IF k = 0 THEN base ELSE CountTurn(r, h[k - 1], k)]
    BY <2>7
  <2> QED BY <2>8, Zenon DEF CountTurn
<1> HIDE DEF after, base
<1>4. ASSUME NEW k \in 1 .. N
      PROVE  after[k] = CountTurn(r, after[k - 1], k) /\ k - 1 \in 0 .. N
  <2>1. k \in 0 .. N /\ k # 0 /\ k - 1 \in 0 .. N
    <3> HIDE DEF N
    <3> QED BY <1>1
  <2> QED BY <1>3, <2>1
<1>5. after[0] = base
  BY <1>1, <1>3
<1>6. \A k \in 0 .. N : after[k] \in CountStates(r)
  <2> DEFINE T == {k \in 0 .. N : after[k] \in CountStates(r)}
  <2>1. 0 \in T
    BY <1>1, <1>2, <1>5
  <2>2. ASSUME NEW k \in 1 .. N, k - 1 \in T PROVE k \in T
    BY <1>4, <2>2, CountTurnIs
  <2> HIDE DEF T, N
  <2>3. \A k \in 0 .. N : k \in T
    BY <1>1, <2>1, <2>2, TurnByTurn
  <2> QED BY <2>3 DEF T
<1>7. ASSUME NEW B, SoundNumbering(r, B) PROVE after[N].pairs = B[N]
  <2> DEFINE T == {k \in 0 .. N : after[k].pairs = B[k]}
  <2>1. 0 \in T
    <3>1. B[0] = 0
      BY <1>7, ZenonT(30) DEF SoundNumbering, Numbering
    <3>2. after[0].pairs = 0
      BY <1>2, <1>5, Zenon
    <3>3. 0 \in 0 .. N
      <4> HIDE DEF N
      <4> QED BY <1>1
    <3> HIDE DEF N
    <3> QED BY <3>1, <3>2, <3>3
  <2>2. ASSUME NEW k \in 1 .. N, k - 1 \in T PROVE k \in T
    <3>1. after[k].pairs = (B[k - 1] + r.pages[k]) % 256
      BY <1>4, <1>6, <2>2, CountTurnIs
    <3>2. B[k] = B[k - 1] + r.pages[k]
      BY <1>7 DEF SoundNumbering, Numbering
    <3>3. k \in 0 .. N
      BY <1>1
    <3>4. B[k] \in Nat /\ B[k] <= B[N] /\ B[N] \in Nat /\ B[N] < 256
      <4>1. Numbering(r, B) /\ B[N] < 256
        BY <1>7 DEF SoundNumbering
      <4>2. N \in 0 .. N
        BY <1>1
      <4>3. \A j \in 0 .. N : B[j] \in Nat /\ B[j] <= B[N]
        BY <4>1, NumberingGrows
      <4> QED BY <3>3, <4>1, <4>2, <4>3
    <3> DEFINE x == B[k]
               z == B[N]
    <3>5. x % 256 = x
      <4>1. x \in Nat /\ x <= z /\ z \in Nat /\ z < 256
        BY <3>4
      <4> HIDE DEF x, z
      <4> QED BY <4>1
    <3> QED BY <3>1, <3>2, <3>3, <3>5
  <2> HIDE DEF T, N
  <2>3. N \in T
    BY <1>1, <2>1, <2>2, TurnByTurn
  <2> QED BY <2>3 DEF T
<1> HIDE DEF N
<1> QED
  BY <1>0, <1>1, <1>6, <1>7 DEF N

(* The states of the loop of h_review_update_data.                         *)
PageCounts == 0 .. 255

LookStates(r) ==
    [cache : Caches(r), text : Text, accPages : PageCounts, err : {"going", "ok", "no_data"}]

(* A turn of h_review_update_data: it stops at the page, or passes the     *)
(* pages of its item.                                                      *)
LEMMA TurnIs ==
    ASSUME NEW r, IsReview(r), NEW s \in LookStates(r), NEW k \in 1 .. Len(r.pages),
           NEW index \in Int
    PROVE  /\ Turn(r, s, k - 1, index) \in LookStates(r)
           /\ s.err # "going" => Turn(r, s, k - 1, index) = s
           /\ s.err = "going" /\ r.pages[k] > 0 =>
                IF s.accPages + r.pages[k] > index
                  THEN /\ Turn(r, s, k - 1, index).err = "ok"
                       /\ Turn(r, s, k - 1, index).text = <<k - 1, index - s.accPages>>
                  ELSE /\ Turn(r, s, k - 1, index).err = "going"
                       /\ Turn(r, s, k - 1, index).accPages = (s.accPages + r.pages[k]) % 256
<1> DEFINE g == get_item_page_count(r, s.cache, k - 1, s.text)
           t == [s EXCEPT !.cache = g.cache, !.text = g.text]
           a == s.accPages
           b == r.pages[k]
<1>1. k - 1 \in 0 .. Len(r.pages) - 1 /\ (k - 1) + 1 = k
  BY DEF IsReview
<1>2. Truthful(r, s.cache) /\ s.text \in Text /\ a \in 0 .. 255
  BY DEF LookStates, PageCounts, Caches
<1>3. Truthful(r, g.cache) /\ g.count = b /\ g.text \in Text
  <2>1. /\ Truthful(r, get_item_page_count(r, s.cache, k - 1, s.text).cache)
        /\ get_item_page_count(r, s.cache, k - 1, s.text).count = r.pages[(k - 1) + 1]
        /\ get_item_page_count(r, s.cache, k - 1, s.text).text \in Text
    BY <1>1, <1>2, CountIs, ZenonT(30)
  <2> QED BY <1>1, <2>1, ZenonT(30)
<1>4. b \in 0 .. 255
  BY ItemPagesTyped
<1> HIDE DEF g
<1>5. g.cache \in Caches(r)
  BY <1>3 DEF Truthful, Caches
<1>6. t \in LookStates(r) /\ t.err = s.err /\ t.accPages = a
  BY <1>3, <1>5 DEF LookStates
<1>7. (a + b) % 256 \in 0 .. 255 /\ index - a \in Int
  <2> HIDE DEF a, b
  <2> QED BY <1>2, <1>4
<1>8. <<k - 1, index - a>> \in Text
  <2>1. k - 1 \in Int /\ index - a \in Int
    BY <1>7
  <2> QED BY <2>1, Zenon DEF Text
<1>9. Turn(r, s, k - 1, index) =
        IF s.err # "going" THEN s
        ELSE IF b = 0 THEN [t EXCEPT !.err = "no_data"]
        ELSE IF a + b > index THEN [t EXCEPT !.err = "ok", !.text = <<k - 1, index - a>>]
        ELSE [t EXCEPT !.accPages = (a + b) % 256]
  <2>1. Turn(r, s, k - 1, index) =
          IF s.err # "going" THEN s
          ELSE IF g.count = 0 THEN [t EXCEPT !.err = "no_data"]
          ELSE IF s.accPages + g.count > index
               THEN [t EXCEPT !.err = "ok", !.text = <<k - 1, index - s.accPages>>]
               ELSE [t EXCEPT !.accPages = (t.accPages + g.count) % 256]
    BY ZenonT(30) DEF Turn, g
  <2>2. s.accPages = a /\ t.accPages = a /\ g.count = b
    BY <1>3, <1>6
  <2> HIDE DEF a, b, t
  <2> QED BY <2>1, <2>2, ZenonT(30)
<1> HIDE DEF t, a, b
<1>10. CASE s.err # "going"
  BY <1>9, <1>10
<1>11. CASE s.err = "going" /\ b = 0
  <2>1. Turn(r, s, k - 1, index) = [t EXCEPT !.err = "no_data"]
    BY <1>9, <1>11
  <2>2. Turn(r, s, k - 1, index) \in LookStates(r)
    BY <1>6, <2>1 DEF LookStates
  <2>3. ~(b > 0)
    BY <1>11
  <2> QED BY <1>11, <2>2, <2>3, Zenon DEF b
<1>12. CASE s.err = "going" /\ b # 0 /\ a + b > index
  <2>1. Turn(r, s, k - 1, index) = [t EXCEPT !.err = "ok", !.text = <<k - 1, index - a>>]
    BY <1>9, <1>12
  <2>2. Turn(r, s, k - 1, index) \in LookStates(r)
        /\ Turn(r, s, k - 1, index).err = "ok"
        /\ Turn(r, s, k - 1, index).text = <<k - 1, index - a>>
    BY <1>6, <1>8, <2>1 DEF LookStates
  <2> QED BY <1>12, <2>2 DEF a, b
<1>13. CASE s.err = "going" /\ b # 0 /\ ~(a + b > index)
  <2>1. Turn(r, s, k - 1, index) = [t EXCEPT !.accPages = (a + b) % 256]
    BY <1>9, <1>13
  <2>2. Turn(r, s, k - 1, index) \in LookStates(r)
        /\ Turn(r, s, k - 1, index).err = "going"
        /\ Turn(r, s, k - 1, index).accPages = (a + b) % 256
    <3> DEFINE x == (a + b) % 256
    <3>1. x \in PageCounts
      BY <1>7 DEF PageCounts
    <3> HIDE DEF x
    <3>2. Turn(r, s, k - 1, index) = [t EXCEPT !.accPages = x]
      BY <2>1 DEF x
    <3>3. [t EXCEPT !.accPages = x] \in LookStates(r)
          /\ [t EXCEPT !.accPages = x].err = t.err /\ [t EXCEPT !.accPages = x].accPages = x
      BY <1>6, <3>1 DEF LookStates
    <3> QED BY <1>6, <1>13, <3>2, <3>3 DEF x
  <2> QED BY <1>13, <2>2 DEF a, b
<1> QED
  BY <1>10, <1>11, <1>12, <1>13

(* h_review_update_data: the page whose number was asked for, and a cache  *)
(* as truthful as before.                                                  *)
LEMMA PageFound ==
    ASSUME NEW r, IsReview(r), NEW c, Truthful(r, c), NEW index \in Int, NEW text \in Text
    PROVE  /\ h_review_update_data(r, c, index, text) \in LookStates(r)
           /\ \A B : SoundNumbering(r, B) /\ 0 <= index /\ index < B[Len(r.pages)] =>
                       /\ h_review_update_data(r, c, index, text).err = "ok"
                       /\ h_review_update_data(r, c, index, text).text = AllPages(r)[index + 1]
<1> DEFINE N == Len(r.pages)
           base == [cache |-> c, text |-> text, accPages |-> 0, err |-> "going"]
<1> DEFINE after[k \in 0 .. N] ==
             IF k = 0 THEN base ELSE Turn(r, after[k - 1], k - 1, index)
<1>0. h_review_update_data(r, c, index, text) = after[N]
  BY DEF h_review_update_data
<1>1. N \in Nat
  BY DEF IsReview
<1>2. base \in LookStates(r) /\ base.accPages = 0 /\ base.err = "going"
  BY DEF LookStates, PageCounts, Caches, Truthful
<1>3. after = [k \in 0 .. N |-> IF k = 0 THEN base ELSE Turn(r, after[k - 1], k - 1, index)]
  <2> DEFINE G == [x \in (1 .. N) \X LookStates(r) |-> Turn(r, x[2], x[1] - 1, index)]
  <2>1. \A x \in (1 .. N) \X LookStates(r) : Turn(r, x[2], x[1] - 1, index) \in LookStates(r)
    BY TurnIs
  <2>2. G \in [(1 .. N) \X LookStates(r) -> LookStates(r)]
    BY <2>1
  <2>3. \A k \in 1 .. N, s \in LookStates(r) : G[<<k, s>>] = Turn(r, s, k - 1, index)
    OBVIOUS
  <2> HIDE DEF G, N, base
  <2>4. PICK f : Runs(f, N, LookStates(r), base, G)
    BY <1>1, <1>2, <2>2, Iterated
  <2>5. f \in [0 .. N -> LookStates(r)] /\ f[0] = base
        /\ \A k \in 1 .. N : f[k] = G[<<k, f[k - 1]>>]
    BY <2>4 DEF Runs
  <2>6. ASSUME NEW k \in 0 .. N
        PROVE  f[k] = IF k = 0 THEN base ELSE Turn(r, f[k - 1], k - 1, index)
    <3>1. k # 0 => k \in 1 .. N /\ k - 1 \in 0 .. N
      BY <1>1
    <3> QED BY <2>3, <2>5, <3>1
  <2>7. f = [k \in 0 .. N |-> IF k = 0 THEN base ELSE Turn(r, f[k - 1], k - 1, index)]
    BY <2>5, <2>6
  <2>8. \E h : h = [k \in 0 .. N |-> IF k = 0 THEN base ELSE Turn(r, h[k - 1], k - 1, index)]
    BY <2>7
  <2> QED BY <2>8, Zenon
<1> HIDE DEF after, base
<1>4. ASSUME NEW k \in 1 .. N
      PROVE  after[k] = Turn(r, after[k - 1], k - 1, index) /\ k - 1 \in 0 .. N /\ k \in 0 .. N
  <2>1. k \in 0 .. N /\ k # 0 /\ k - 1 \in 0 .. N
    <3> HIDE DEF N
    <3> QED BY <1>1
  <2> QED BY <1>3, <2>1
<1>5. after[0] = base
  BY <1>1, <1>3
<1>6. \A k \in 0 .. N : after[k] \in LookStates(r)
  <2> DEFINE T == {k \in 0 .. N : after[k] \in LookStates(r)}
  <2>1. 0 \in T
    BY <1>1, <1>2, <1>5
  <2>2. ASSUME NEW k \in 1 .. N, k - 1 \in T PROVE k \in T
    BY <1>4, <2>2, TurnIs
  <2> HIDE DEF T, N
  <2>3. \A k \in 0 .. N : k \in T
    BY <1>1, <2>1, <2>2, TurnByTurn
  <2> QED BY <2>3 DEF T
<1>7. ASSUME NEW B, SoundNumbering(r, B), 0 <= index, index < B[N]
      PROVE  after[N].err = "ok" /\ after[N].text = AllPages(r)[index + 1]
  <2> DEFINE Looking(k) == after[k].err = "going" /\ after[k].accPages = B[k] /\ B[k] <= index
             Found(k) == after[k].err = "ok" /\ after[k].text = AllPages(r)[index + 1]
             T == {k \in 0 .. N : Looking(k) \/ Found(k)}
  <2>0. /\ Numbering(r, B) /\ B[N] < 256 /\ \A j \in 0 .. N : B[j] \in Nat /\ B[j] <= B[N]
        /\ \A j \in 1 .. N : r.pages[j] > 0
    <3>1. Numbering(r, B) /\ B[N] < 256 /\ \A j \in 1 .. N : r.pages[j] > 0
      BY <1>7 DEF SoundNumbering
    <3>2. \A j \in 0 .. N : B[j] \in Nat /\ B[j] <= B[N]
      BY <3>1, NumberingGrows
    <3> QED BY <3>1, <3>2
  <2>1. 0 \in T
    <3>1. B[0] = 0
      BY <2>0, ZenonT(30) DEF Numbering
    <3>2. after[0].accPages = 0 /\ after[0].err = "going"
      BY <1>2, <1>5, Zenon
    <3>3. 0 \in 0 .. N
      <4> HIDE DEF N
      <4> QED BY <1>1
    <3>4. Looking(0)
      <4> HIDE DEF N
      <4> QED BY <1>7, <3>1, <3>2
    <3> HIDE DEF N, Looking, Found
    <3> QED BY <3>3, <3>4
  <2>2. ASSUME NEW k \in 1 .. N, k - 1 \in T PROVE k \in T
    <3>0. after[k - 1] \in LookStates(r) /\ k \in 0 .. N
      BY <1>4, <1>6
    <3>1. CASE Found(k - 1)
      <4>1. after[k] = after[k - 1]
        BY <1>4, <3>0, <3>1, TurnIs
      <4> QED BY <3>0, <3>1, <4>1
    <3>2. CASE Looking(k - 1)
      <4> DEFINE a == B[k - 1]
                 b == r.pages[k]
                 z == B[N]
      <4>1. b \in 0 .. 255 /\ b > 0 /\ B[k] = a + b /\ a \in Nat /\ a <= index
            /\ B[k] <= z /\ z < 256 /\ z \in Nat
        <5>1. b \in 0 .. 255 /\ b > 0
          BY <2>0, ItemPagesTyped
        <5>2. B[k] = a + b
          BY <2>0 DEF Numbering
        <5>3. a \in Nat /\ a <= index
          BY <1>4, <2>0, <3>2
        <5>4. N \in 0 .. N
          BY <1>1
        <5>5. B[k] <= z /\ z < 256 /\ z \in Nat
          BY <2>0, <3>0, <5>4
        <5> QED BY <5>1, <5>2, <5>3, <5>5
      <4>2. IF a + b > index
              THEN after[k].err = "ok" /\ after[k].text = <<k - 1, index - a>>
              ELSE after[k].err = "going" /\ after[k].accPages = (a + b) % 256
        <5>1. after[k - 1].err = "going" /\ after[k - 1].accPages = a /\ r.pages[k] > 0
          BY <3>2, <4>1
        <5> DEFINE s == after[k - 1]
                   t == after[k]
        <5>2. s \in LookStates(r) /\ s.err = "going" /\ s.accPages = a /\ t = Turn(r, s, k - 1, index)
          BY <1>4, <3>0, <5>1
        <5> HIDE DEF s, t
        <5>3. IF s.accPages + r.pages[k] > index
                THEN t.err = "ok" /\ t.text = <<k - 1, index - s.accPages>>
                ELSE t.err = "going" /\ t.accPages = (s.accPages + r.pages[k]) % 256
          BY <5>1, <5>2, TurnIs, SMTT(30)
        <5> QED BY <5>2, <5>3 DEF s, t
      <4>3. \A q \in 0 .. 254 : q < b => AllPages(r)[a + q + 1] = <<k - 1, q>>
        BY <2>0 DEF Numbering
      <4>4. CASE a + b > index
        <5> DEFINE q == index - a
        <5> HIDE DEF a, b
        <5>1. q \in 0 .. 254 /\ q < b /\ a + q + 1 = index + 1
          BY <4>1, <4>4
        <5> HIDE DEF q
        <5>2. AllPages(r)[index + 1] = <<k - 1, q>>
          BY <4>3, <5>1
        <5>3. Found(k)
          BY <4>2, <4>4, <5>2 DEF q
        <5> QED BY <3>0, <5>3
      <4>5. CASE ~(a + b > index)
        <5>1. (a + b) % 256 = a + b /\ a + b <= index
          <6>1. a + b \in Nat /\ a + b < 256 /\ a + b <= index
            <7>1. a + b <= z
              BY <4>1
            <7> HIDE DEF a, b, z
            <7> QED BY <4>1, <4>5, <7>1
          <6> HIDE DEF a, b
          <6> QED BY <6>1
        <5>2. Looking(k)
          <6> HIDE DEF a, b
          <6> QED BY <4>1, <4>2, <4>5, <5>1
        <5> QED BY <3>0, <5>2
      <4> QED BY <4>4, <4>5
    <3> QED BY <2>2, <3>1, <3>2
  <2> HIDE DEF T, N
  <2>3. N \in T
    BY <1>1, <2>1, <2>2, TurnByTurn
  <2>4. Looking(N) \/ Found(N)
    BY <2>3 DEF T
  <2>5. ~Looking(N)
    <3> DEFINE z == B[N]
    <3>1. z \in Nat /\ index < z
      BY <1>1, <1>7, <2>0
    <3> HIDE DEF z
    <3>2. ~(z <= index)
      BY <3>1
    <3> QED BY <3>2 DEF z
  <2> QED BY <2>4, <2>5
<1> HIDE DEF N
<1> QED
  BY <1>0, <1>1, <1>6, <1>7 DEF N

-----------------------------------------------------------------------------
(* The slots of a screen.                                                  *)

(* No two of as many numbers as there are slots come to the same slot.     *)
LEMMA SlotsDiffer ==
    ASSUME NEW n \in Nat \ {0}, NEW a \in Nat, NEW d \in Nat, 0 < d, d < n
    PROVE  a % n # (a + d) % n
<1> SUFFICES ASSUME a % n = (a + d) % n PROVE FALSE
  OBVIOUS
<1> DEFINE b == a + d
           p == a \div n
           q == b \div n
           e == q - p
<1>1. p \in Int /\ a = n * p + (a % n)
  OBVIOUS
<1>2. b \in Nat /\ b = a + d
  OBVIOUS
<1>3. q \in Int /\ b = n * q + (b % n)
  <2> HIDE DEF b
  <2> QED BY <1>2
<1>4. a % n \in Nat /\ a % n = b % n
  OBVIOUS
<1> DEFINE m == a % n
<1> HIDE DEF b, p, q, m
<1>5. d = n * q - n * p
  <2> DEFINE x == n * q
             y == n * p
  <2>1. x \in Int /\ y \in Int /\ a = y + m /\ b = x + m /\ m \in Nat
    BY <1>1, <1>3, <1>4 DEF m
  <2> HIDE DEF x, y
  <2>2. d = x - y
    BY <1>2, <2>1
  <2> QED BY <2>2 DEF x, y
<1>6. n * q - n * p = n * e
  BY <1>1, <1>3
<1>7. e \in Int
  BY <1>1, <1>3
<1> HIDE DEF e
<1>8. d = n * e
  BY <1>5, <1>6
<1>9. CASE e <= 0
  <2>1. n * e <= 0
    BY <1>7, <1>9
  <2> QED BY <1>8, <2>1
<1>10. CASE e >= 1
  <2>1. n * e >= n
    BY <1>7, <1>10
  <2> QED BY <1>8, <2>1
<1> QED
  BY <1>7, <1>9, <1>10

(* A number has its slot, which no other number of the screen has.         *)
LEMMA SlotOfNumber ==
    ASSUME NEW i \in Nat
    PROVE  internalIndex(i) \in Slot
           /\ \A j \in Nat : i < j /\ j - i < NB_MAX_DISPLAYED_PAIRS_IN_REVIEW =>
                               internalIndex(i) # internalIndex(j)
<1> DEFINE n == NB_MAX_DISPLAYED_PAIRS_IN_REVIEW
<1>1. n \in Nat \ {0}
  BY ReviewsAssumption
<1> HIDE DEF n
<1>2. i % n \in 0 .. n - 1
  BY <1>1
<1>3. ASSUME NEW j \in Nat, i < j, j - i < n PROVE i % n # j % n
  <2> DEFINE d == j - i
  <2>1. d \in Nat /\ 0 < d /\ d < n /\ i + d = j
    BY <1>3
  <2> HIDE DEF d
  <2>2. i % n # (i + d) % n
    BY <1>1, <2>1, SlotsDiffer
  <2> QED BY <2>1, <2>2
<1> QED
  BY <1>2, <1>3 DEF internalIndex, Slot, n

(* The states of the loop over the pairs of a screen.                      *)
FetchStates(r) == [cache : Caches(r), slots : [Slot -> Text]]

(* A pair is fetched into its slot and no other.                           *)
LEMMA FetchIs ==
    ASSUME NEW r, IsReview(r), NEW st \in FetchStates(r), NEW index \in Int, NEW k \in Slot
    PROVE  /\ Fetch(r, st, index, k) \in FetchStates(r)
           /\ \A j \in Slot : j # k => Fetch(r, st, index, k).slots[j] = st.slots[j]
           /\ \A B : SoundNumbering(r, B) /\ 0 <= index /\ index < B[Len(r.pages)] =>
                       Fetch(r, st, index, k).slots[k] = AllPages(r)[index + 1]
<1> DEFINE u == h_review_update_data(r, st.cache, index, st.slots[k])
<1>1. Truthful(r, st.cache) /\ st.slots[k] \in Text /\ st.slots \in [Slot -> Text]
  BY DEF FetchStates, Caches
<1>2. u \in LookStates(r)
      /\ \A B : SoundNumbering(r, B) /\ 0 <= index /\ index < B[Len(r.pages)] =>
                  u.text = AllPages(r)[index + 1]
  BY <1>1, PageFound
<1> HIDE DEF u
<1>3. Fetch(r, st, index, k) = [cache |-> u.cache, slots |-> [st.slots EXCEPT ![k] = u.text]]
  BY DEF Fetch, u
<1>4. u.cache \in Caches(r) /\ u.text \in Text
  BY <1>2 DEF LookStates, PageCounts
<1>5. Fetch(r, st, index, k) \in FetchStates(r)
  BY <1>1, <1>3, <1>4 DEF FetchStates
<1> QED
  BY <1>1, <1>2, <1>3, <1>5

(* The pairs of a screen: each in its slot, if there is one for each.      *)
LEMMA RangeFetched ==
    ASSUME NEW r, IsReview(r), NEW st \in FetchStates(r), NEW from \in Nat, NEW to \in Int,
           from <= to + 1
    PROVE  /\ FetchRange(r, st, from, to) \in FetchStates(r)
           /\ \A B : SoundNumbering(r, B) /\ to < B[Len(r.pages)]
                       /\ to - from < NB_MAX_DISPLAYED_PAIRS_IN_REVIEW =>
                       \A i \in from .. to :
                         FetchRange(r, st, from, to).slots[internalIndex(i)] = AllPages(r)[i + 1]
<1> DEFINE N == to - from + 1
           TurnOf(s, k) == Fetch(r, s, from + k - 1, internalIndex(from + k - 1))
<1> DEFINE after[k \in 0 .. N] ==
             IF k = 0 THEN st
             ELSE Fetch(r, after[k - 1], from + k - 1, internalIndex(from + k - 1))
<1>0. FetchRange(r, st, from, to) = after[N]
  BY DEF FetchRange
<1>1. N \in Nat
  OBVIOUS
<1>2. ASSUME NEW s \in FetchStates(r), NEW k \in 1 .. N
      PROVE  TurnOf(s, k) \in FetchStates(r) /\ from + k - 1 \in Nat
  <2>1. from + k - 1 \in Nat /\ from + k - 1 \in Int
    <3> HIDE DEF N
    <3> QED BY <1>1
  <2> DEFINE x == from + k - 1
  <2> HIDE DEF x
  <2>2. Fetch(r, s, x, internalIndex(x)) \in FetchStates(r)
    BY <2>1, SlotOfNumber, FetchIs DEF x
  <2> QED BY <2>1, <2>2 DEF x
<1>3. after = [k \in 0 .. N |-> IF k = 0 THEN st ELSE TurnOf(after[k - 1], k)]
  <2> DEFINE G == [x \in (1 .. N) \X FetchStates(r) |-> TurnOf(x[2], x[1])]
  <2>1. \A x \in (1 .. N) \X FetchStates(r) : TurnOf(x[2], x[1]) \in FetchStates(r)
    <3> HIDE DEF N, TurnOf
    <3> QED BY <1>2
  <2>2. G \in [(1 .. N) \X FetchStates(r) -> FetchStates(r)]
    BY <2>1
  <2>3. \A k \in 1 .. N, s \in FetchStates(r) : G[<<k, s>>] = TurnOf(s, k)
    OBVIOUS
  <2> HIDE DEF G, N, TurnOf
  <2>4. PICK f : Runs(f, N, FetchStates(r), st, G)
    BY <1>1, <2>2, Iterated
  <2>5. f \in [0 .. N -> FetchStates(r)] /\ f[0] = st
        /\ \A k \in 1 .. N : f[k] = G[<<k, f[k - 1]>>]
    BY <2>4 DEF Runs
  <2>6. ASSUME NEW k \in 0 .. N
        PROVE  f[k] = IF k = 0 THEN st ELSE TurnOf(f[k - 1], k)
    <3>1. k # 0 => k \in 1 .. N /\ k - 1 \in 0 .. N
      BY <1>1
    <3> QED BY <2>3, <2>5, <3>1
  <2>7. f = [k \in 0 .. N |-> IF k = 0 THEN st ELSE TurnOf(f[k - 1], k)]
    BY <2>5, <2>6
  <2>8. \E h : h = [k \in 0 .. N |-> IF k = 0 THEN st ELSE TurnOf(h[k - 1], k)]
    BY <2>7
  <2> QED BY <2>8, Zenon DEF TurnOf
<1> HIDE DEF after, TurnOf
<1>4. ASSUME NEW k \in 1 .. N
      PROVE  after[k] = TurnOf(after[k - 1], k) /\ k - 1 \in 0 .. N /\ k \in 0 .. N
  <2>1. k \in 0 .. N /\ k # 0 /\ k - 1 \in 0 .. N
    <3> HIDE DEF N
    <3> QED BY <1>1
  <2> QED BY <1>3, <2>1
<1>5. after[0] = st
  <2> HIDE DEF N
  <2> QED BY <1>1, <1>3
<1>6. \A k \in 0 .. N : after[k] \in FetchStates(r)
  <2> DEFINE T == {k \in 0 .. N : after[k] \in FetchStates(r)}
  <2>1. 0 \in T
    <3> HIDE DEF N
    <3> QED BY <1>1, <1>5
  <2>2. ASSUME NEW k \in 1 .. N, k - 1 \in T PROVE k \in T
    BY <1>2, <1>4, <2>2
  <2> HIDE DEF T, N
  <2>3. \A k \in 0 .. N : k \in T
    BY <1>1, <2>1, <2>2, TurnByTurn
  <2> QED BY <2>3 DEF T
<1>7. ASSUME NEW B, SoundNumbering(r, B), to < B[Len(r.pages)],
             to - from < NB_MAX_DISPLAYED_PAIRS_IN_REVIEW, NEW i \in from .. to
      PROVE  after[N].slots[internalIndex(i)] = AllPages(r)[i + 1]
  <2> DEFINE d == i - from + 1
             Shows(k) == after[k].slots[internalIndex(i)] = AllPages(r)[i + 1]
             T == {k \in 0 .. N : d <= k => Shows(k)}
  <2>0. d \in 1 .. N /\ from + d - 1 = i /\ i \in Nat /\ i <= to
    OBVIOUS
  <2>b. B[Len(r.pages)] \in Nat
    <3>1. Numbering(r, B) /\ Len(r.pages) \in 0 .. Len(r.pages)
      BY <1>7 DEF SoundNumbering, IsReview
    <3> QED BY <3>1, NumberingGrows
  <2> DEFINE z == B[Len(r.pages)]
             t == AllPages(r)[i + 1]
             w == NB_MAX_DISPLAYED_PAIRS_IN_REVIEW
  <2>z. z \in Nat /\ to < z /\ to - from < w /\ w \in Nat
    BY <1>7, <2>b, ReviewsAssumption
  <2> HIDE DEF N, d
  <2>1. 0 \in T
    BY <1>1, <2>0
  <2>2. ASSUME NEW k \in 1 .. N, k - 1 \in T PROVE k \in T
    <3> DEFINE x == from + k - 1
    <3>1. after[k] = TurnOf(after[k - 1], k) /\ after[k - 1] \in FetchStates(r) /\ k \in 0 .. N
      BY <1>4, <1>6
    <3>2. x \in Nat /\ x \in Int
      BY <1>2, <3>1
    <3>3. internalIndex(x) \in Slot /\ internalIndex(i) \in Slot
      BY <2>0, <3>2, SlotOfNumber
    <3>4. after[k] = Fetch(r, after[k - 1], x, internalIndex(x))
      BY <3>1 DEF TurnOf
    <3>5. CASE k = d
      <4>1. x = i
        BY <2>0, <3>5
      <4>2. 0 <= i /\ i < z
        <5> HIDE DEF z
        <5> QED BY <2>0, <2>z
      <4>3. after[k].slots[internalIndex(i)] = AllPages(r)[i + 1]
        <5> HIDE DEF x
        <5>1. i \in Int
          BY <2>0
        <5> QED BY <1>7, <3>1, <3>3, <3>4, <4>1, <4>2, <5>1, FetchIs
      <4> QED BY <3>1, <4>3
    <3>6. CASE d < k
      <4>1. k - 1 \in Int /\ d <= k - 1
        BY <2>0, <3>6
      <4>2. Shows(k - 1)
        BY <2>2, <4>1
      <4>3. i < x /\ x - i < w
        <5>1. k <= to - from + 1 /\ k \in Nat
          BY <1>1 DEF N
        <5>2. x \in Int /\ x <= to
          BY <5>1
        <5>3. i >= from /\ i < x
          BY <2>0, <3>6 DEF d
        <5> HIDE DEF x, w
        <5> QED BY <2>0, <2>z, <5>2, <5>3
      <4>4. internalIndex(i) # internalIndex(x)
        <5> HIDE DEF x
        <5> QED BY <2>0, <3>2, <4>3, SlotOfNumber
      <4>5. after[k].slots[internalIndex(i)] = after[k - 1].slots[internalIndex(i)]
        <5> HIDE DEF x
        <5> QED BY <3>1, <3>2, <3>3, <3>4, <4>4, FetchIs
      <4> QED BY <3>1, <4>2, <4>5
    <3>7. CASE k < d
      BY <2>0, <3>1, <3>7
    <3> QED BY <2>0, <3>5, <3>6, <3>7
  <2> HIDE DEF T
  <2>3. N \in T
    BY <1>1, <2>1, <2>2, TurnByTurn
  <2>4. d <= N
    BY <2>0
  <2> QED BY <2>3, <2>4 DEF T
<1> HIDE DEF N
<1>8. N \in 0 .. N
  BY <1>1
<1> QED
  BY <1>0, <1>6, <1>7, <1>8

-----------------------------------------------------------------------------
(* The invariant.                                                          *)

Screens == {"idle", "address", "configuration", "setting", "title", "pairs", "question",
            "approving", "rejecting", "error", "custom_error", "blindsign_error", "settings"}

(* The screens of a review.                                                *)
Reviewing == {"address", "configuration", "setting", "title", "pairs", "question",
              "approving", "rejecting"}

(* The screens that the library makes of the pairs.                        *)
PairScreens == {"title", "pairs", "question"}

TypeInv ==
    /\ review \in Reviews \cup {NoReview}
    /\ screen \in Screens
    /\ screen \in Reviewing => review \in Reviews
    /\ screen \in {"configuration", "setting"} => review.kind = "UI" /\ review.intent = NoIntent
    /\ range \in Nat \X (Nat \cup {-1})
    /\ nbPairs \in Nat
    /\ slots \in [Slot -> Text]

(* The screens whose "Ok" stays, and those from which no answer leads on.  *)
StayingScreens == {"setting", "error"}
FinalScreens   == {"idle", "settings"}

Answers == {"approved", "accepted", "rejected", "silence", "error"}

(* The answers when a screen is shown: on other screens nothing has been   *)
(* answered yet, on those that stay nothing final.                         *)
Fitting(scr, given) ==
    /\ given \in Seq(Answers)
    /\ \A k \in 1 .. Len(given) : k < Len(given) => given[k] = "accepted"
    /\ scr \in StayingScreens => \A k \in 1 .. Len(given) : given[k] = "accepted"
    /\ scr \notin StayingScreens \cup FinalScreens => given = << >>

AnswerInv == Fitting(screen, answers)

(* The texts are those of the last review, on every screen.                *)
TextInv == intro_message = IntroFor(review) /\ approval_label = LabelFor(review)

CacheInv == Truthful(review, pageCountCache)

(* The pairs on the screen are among those that were counted.              *)
RangeInv ==
    Numbered(review) =>
      /\ screen \in PairScreens => nbPairs = Len(AllPages(review))
      /\ screen = "title" => range = <<0, -1>>
      /\ screen \in {"pairs", "question"} =>
           /\ 0 <= range[1] /\ range[1] <= range[2] /\ range[2] < nbPairs
           /\ range[2] - range[1] < NB_MAX_DISPLAYED_PAIRS_IN_REVIEW
      /\ screen = "question" => range[2] = nbPairs - 1

(* Nothing was passed over on the way to the pairs on the screen; and who  *)
(* may approve or has approved, has seen all.                              *)
SeenInv ==
    Numbered(review) =>
      /\ screen \in PairScreens => \A k \in 0 .. range[2] : AllPages(review)[k + 1] \in seen
      /\ screen \in {"address", "setting", "approving"} => ToSet(AllPages(review)) \subseteq seen
      /\ screen = "error" => Error \in seen
      /\ Accepted => Error \in seen \/ ToSet(AllPages(review)) \subseteq seen

Inv == TypeInv /\ AnswerInv /\ TextInv /\ CacheInv /\ RangeInv /\ PairsTrue

(* A request without an answer is in order on every screen, and has not    *)
(* been accepted.                                                          *)
LEMMA NothingAnswered == \A scr : Fitting(scr, << >>)
<1>1. << >> \in Seq(Answers) /\ Len(<< >>) = 0 /\ 1 .. 0 = {}
  OBVIOUS
<1> QED
  BY <1>1 DEF Fitting

LEMMA NotAccepted == ToSet(<< >>) = {}
  BY DEF ToSet

(* An answer that follows nothing final.                                   *)
LEMMA AnswerFollows ==
    ASSUME NEW given \in Seq(Answers), \A k \in 1 .. Len(given) : given[k] = "accepted", NEW a \in Answers
    PROVE  /\ \A scr \in FinalScreens : Fitting(scr, Append(given, a))
           /\ a = "accepted" => \A scr \in StayingScreens : Fitting(scr, Append(given, a))
           /\ ToSet(Append(given, a)) = ToSet(given) \cup {a}
<1> DEFINE after == Append(given, a)
<1>1. Len(given) \in Nat /\ after \in Seq(Answers) /\ Len(after) = Len(given) + 1
  OBVIOUS
<1>2. after[Len(given) + 1] = a /\ \A k \in 1 .. Len(given) : after[k] = given[k]
  OBVIOUS
<1>3. DOMAIN after = 1 .. Len(given) + 1 /\ DOMAIN given = 1 .. Len(given)
  BY <1>1
<1> HIDE DEF after
<1>4. ToSet(after) = ToSet(given) \cup {a}
  <2>1. \A k \in 1 .. Len(given) + 1 : k \in 1 .. Len(given) \/ k = Len(given) + 1
    BY <1>1
  <2>2. Len(given) + 1 \in 1 .. Len(given) + 1 /\ \A k \in 1 .. Len(given) : k \in 1 .. Len(given) + 1
    BY <1>1
  <2> QED BY <1>2, <1>3, <2>1, <2>2 DEF ToSet
<1>5. \A k \in 1 .. Len(after) : k < Len(after) => after[k] = "accepted"
  BY <1>1, <1>2
<1>6. a = "accepted" => \A k \in 1 .. Len(after) : after[k] = "accepted"
  BY <1>1, <1>2
<1>7. \A scr \in FinalScreens : Fitting(scr, after)
  BY <1>1, <1>5 DEF Fitting, FinalScreens, StayingScreens
<1>8. a = "accepted" => \A scr \in StayingScreens : Fitting(scr, after)
  BY <1>1, <1>5, <1>6 DEF Fitting, FinalScreens, StayingScreens
<1> QED
  BY <1>4, <1>7, <1>8 DEF after

(* Nothing is on the screen before the first review.                       *)
LEMMA InvInit == Init => Inv /\ SeenInv
<1> SUFFICES ASSUME Init PROVE Inv /\ SeenInv
  OBVIOUS
<1> USE DEF Init
<1>1. TypeInv
  <2>1. slots \in [Slot -> Text]
    BY DEF Text, Blank
  <2>2. range \in Nat \X (Nat \cup {-1}) /\ nbPairs \in Nat
    OBVIOUS
  <2> QED BY <2>1, <2>2 DEF TypeInv, Screens, Reviewing
<1>2. AnswerInv
  BY NothingAnswered DEF AnswerInv
<1>3. TextInv
  BY DEF TextInv, IntroFor, LabelFor, NoReview, NoIntent
<1>4. CacheInv
  <2>1. pageCountCache \in Cache /\ pageCountCache.valid = FALSE
    BY ReviewsAssumption DEF Cache, NoCounts
  <2> QED BY <2>1 DEF CacheInv, Truthful
<1>5. RangeInv /\ PairsTrue
  BY DEF RangeInv, PairsTrue, PairScreens
<1>6. SeenInv
  BY NotAccepted DEF SeenInv, PairScreens, Accepted
<1> QED
  BY <1>1, <1>2, <1>3, <1>4, <1>5, <1>6 DEF Inv

(* On the other screens nothing has been answered; and after a step there  *)
(* is nothing to say of a request without an answer.                       *)
LEMMA Unanswered ==
    ASSUME Inv, screen \notin StayingScreens \cup FinalScreens
    PROVE  answers = << >>
  BY DEF Inv, AnswerInv, Fitting

LEMMA NoneYet == answers' = << >> => AnswerInv' /\ ~Accepted'
  BY NothingAnswered, NotAccepted DEF AnswerInv, Accepted

(* Pages that have numbers are counted.                                    *)
LEMMA NumberedCounted ==
    ASSUME NEW r, IsReview(r), Numbered(r)
    PROVE  \E B : SoundNumbering(r, B) /\ Len(AllPages(r)) = B[Len(r.pages)]
<1>1. PICK B : Numbering(r, B)
  BY NumberingExists
<1>2. DOMAIN r.pages = 1 .. Len(r.pages)
  BY LenProperties DEF IsReview
<1>3. Len(AllPages(r)) = B[Len(r.pages)] /\ \A k \in 1 .. Len(r.pages) : r.pages[k] > 0
  BY <1>1, <1>2 DEF Numbering, Numbered
<1>4. B[Len(r.pages)] < 256
  BY <1>3 DEF Numbered
<1> QED
  BY <1>1, <1>3, <1>4 DEF SoundNumbering

(* What the library shows of numbered pages.                               *)
LEMMA ScreenFetched ==
    ASSUME NEW r, IsReview(r), NEW st \in FetchStates(r), NEW from \in Nat, NEW to \in Int,
           from <= to + 1
    PROVE  /\ FetchRange(r, st, from, to) \in FetchStates(r)
           /\ Numbered(r) /\ to < Len(AllPages(r))
                /\ to - from < NB_MAX_DISPLAYED_PAIRS_IN_REVIEW =>
                \A i \in from .. to :
                  FetchRange(r, st, from, to).slots[internalIndex(i)] = AllPages(r)[i + 1]
<1>1. ASSUME Numbered(r), to < Len(AllPages(r)), to - from < NB_MAX_DISPLAYED_PAIRS_IN_REVIEW
      PROVE  \A i \in from .. to :
               FetchRange(r, st, from, to).slots[internalIndex(i)] = AllPages(r)[i + 1]
  <2>1. PICK B : SoundNumbering(r, B) /\ Len(AllPages(r)) = B[Len(r.pages)]
    BY <1>1, NumberedCounted
  <2>2. to < B[Len(r.pages)]
    BY <1>1, <2>1
  <2> QED BY <1>1, <2>1, <2>2, RangeFetched
<1> QED
  BY <1>1, RangeFetched

(* A screen of pairs.                                                      *)
LEMMA PairsShown ==
    ASSUME Inv, screen \in PairScreens, NEW from \in Nat, NEW to \in Int, ShowPairs(from, to),
           Numbered(review) => to < nbPairs
    PROVE  /\ Inv'
           /\ SeenInv /\ (Numbered(review) => \A k \in 0 .. from - 1 : AllPages(review)[k + 1] \in seen)
                => SeenInv'
<1> DEFINE f == FetchRange(review, Pairs, from, to)
<1>1. /\ screen' = "pairs" /\ range' = <<from, to>> /\ pageCountCache' = f.cache
      /\ slots' = f.slots /\ seen' = seen \cup OnScreen(f.slots, from, to)
      /\ UNCHANGED <<review, nbPairs, intro_message, approval_label, answers>>
  BY DEF ShowPairs, Unchanged
<1>2. to - from + 1 \in 1 .. NB_MAX_DISPLAYED_PAIRS_IN_REVIEW
  BY DEF ShowPairs
<1>3. from <= to /\ to - from < NB_MAX_DISPLAYED_PAIRS_IN_REVIEW /\ to \in Nat /\ from <= to + 1
  BY <1>2, ReviewsAssumption
<1>4. review \in Reviews /\ IsReview(review)
  BY ReviewTyped DEF Inv, TypeInv, PairScreens, Reviewing
<1>5. Pairs \in FetchStates(review)
  BY DEF Inv, TypeInv, CacheInv, Truthful, Caches, Pairs, FetchStates
<1>6. f \in FetchStates(review)
  BY <1>3, <1>4, <1>5, ScreenFetched
<1>7. Numbered(review) => nbPairs = Len(AllPages(review))
  BY DEF Inv, RangeInv
<1>8. Numbered(review) => \A i \in from .. to : f.slots[internalIndex(i)] = AllPages(review)[i + 1]
  BY <1>3, <1>4, <1>5, <1>7, ScreenFetched
<1> HIDE DEF f
<1>9. TypeInv'
  BY <1>1, <1>3, <1>4, <1>6 DEF Inv, TypeInv, Screens, Reviewing, FetchStates
<1>10. AnswerInv' /\ TextInv' /\ CacheInv'
  <2>1. Truthful(review, f.cache)
    BY <1>6 DEF FetchStates, Caches
  <2>2. answers = << >>
    BY Unanswered DEF PairScreens, StayingScreens, FinalScreens
  <2> QED BY <1>1, <2>1, <2>2, NoneYet DEF Inv, TextInv, CacheInv
<1>11. RangeInv'
  <2>1. Numbered(review) => nbPairs = Len(AllPages(review)) /\ to < nbPairs
    BY <1>7
  <2>2. range'[1] = from /\ range'[2] = to /\ 0 <= from
    BY <1>1
  <2> QED BY <1>1, <1>3, <2>1, <2>2 DEF RangeInv, PairScreens
<1>12. PairsTrue'
  BY <1>1, <1>8 DEF PairsTrue
<1>13. ASSUME SeenInv, Numbered(review) => \A k \in 0 .. from - 1 : AllPages(review)[k + 1] \in seen
       PROVE  SeenInv'
  <2>1. ASSUME Numbered(review), NEW k \in 0 .. to PROVE AllPages(review)[k + 1] \in seen'
    <3>1. CASE k \in 0 .. from - 1
      BY <1>1, <1>13, <2>1, <3>1
    <3>2. CASE k \in from .. to
      <4>1. AllPages(review)[k + 1] = f.slots[internalIndex(k)]
        BY <1>8, <2>1, <3>2
      <4> QED BY <1>1, <3>2, <4>1 DEF OnScreen
    <3>3. k \in 0 .. from - 1 \/ k \in from .. to
      BY <1>3
    <3> QED BY <3>1, <3>2, <3>3
  <2>2. answers = << >>
    BY Unanswered DEF PairScreens, StayingScreens, FinalScreens
  <2> QED BY <1>1, <2>1, <2>2, NoneYet DEF SeenInv, PairScreens
<1> QED
  BY <1>9, <1>10, <1>11, <1>12, <1>13 DEF Inv

(* Steps that move over the pairs.                                         *)
LEMMA ForwardKeeps ==
    ASSUME Inv, Forward
    PROVE  Inv' /\ (SeenInv => SeenInv')
<1>0. screen \in {"title", "pairs"} /\ screen \in PairScreens /\ review \in Reviews
  BY DEF Forward, PairScreens, Inv, TypeInv, Reviewing
<1>t. range[1] \in Nat /\ range[2] \in Nat \cup {-1} /\ range[2] \in Int /\ range[2] + 1 \in Nat
      /\ nbPairs \in Nat
  BY DEF Inv, TypeInv
<1>1. CASE range[2] + 1 < nbPairs
  <2>1. PICK to \in range[2] + 1 .. nbPairs - 1 : ShowPairs(range[2] + 1, to)
    BY <1>1 DEF Forward
  <2> DEFINE from == range[2] + 1
  <2>2. to \in Int /\ to < nbPairs /\ from \in Nat
    BY <1>t
  <2>3. SeenInv => (Numbered(review) => \A k \in 0 .. from - 1 : AllPages(review)[k + 1] \in seen)
    <3>1. from - 1 = range[2]
      BY <1>t
    <3> HIDE DEF from
    <3> QED BY <1>0, <3>1 DEF SeenInv
  <2>4. ShowPairs(from, to)
    BY <2>1
  <2> HIDE DEF from
  <2> QED BY <1>0, <2>2, <2>3, <2>4, PairsShown
<1>2. CASE ~(range[2] + 1 < nbPairs)
  <2>1. /\ screen' = "question"
        /\ UNCHANGED <<range, pageCountCache, slots, seen>>
        /\ UNCHANGED <<review, nbPairs, intro_message, approval_label, answers>>
    BY <1>2 DEF Forward, Unchanged
  <2>2. answers = << >>
    BY <1>0, Unanswered DEF StayingScreens, FinalScreens
  <2>3. TypeInv' /\ AnswerInv' /\ TextInv' /\ CacheInv' /\ PairsTrue'
    BY <1>0, <2>1, <2>2, NoneYet
       DEF Inv, TypeInv, TextInv, CacheInv, PairsTrue, Screens, Reviewing, Truthful
  <2>4. RangeInv'
    <3> SUFFICES ASSUME Numbered(review)
                 PROVE  /\ nbPairs = Len(AllPages(review))
                        /\ 0 <= range[1] /\ range[1] <= range[2] /\ range[2] < nbPairs
                        /\ range[2] - range[1] < NB_MAX_DISPLAYED_PAIRS_IN_REVIEW
                        /\ range[2] = nbPairs - 1
      BY <2>1 DEF RangeInv
    <3>1. nbPairs = Len(AllPages(review))
      BY <1>0 DEF Inv, RangeInv
    <3>2. nbPairs > 0
      <4>1. IsReview(review)
        BY <1>0, ReviewTyped
      <4>2. PICK B : SoundNumbering(review, B) /\ Len(AllPages(review)) = B[Len(review.pages)]
        BY <4>1, NumberedCounted
      <4>3. 1 \in 1 .. Len(review.pages) /\ 1 \in 0 .. Len(review.pages)
        <5> DEFINE N == Len(review.pages)
        <5>1. N \in 1 .. 128
          BY <4>1 DEF IsReview
        <5> HIDE DEF N
        <5>2. 1 \in 1 .. N /\ 1 \in 0 .. N
          BY <5>1
        <5> QED BY <5>2 DEF N
      <4>4. Numbering(review, B) /\ review.pages[1] > 0
        BY <4>2, <4>3 DEF SoundNumbering
      <4>5. B[1] > 0
        <5>1. B[1] = B[1 - 1] + review.pages[1] /\ B[0] = 0
          BY <4>3, <4>4 DEF Numbering
        <5>2. review.pages[1] \in 0 .. 255 /\ 1 - 1 = 0
          <6> DEFINE first == 1
          <6>1. first \in 1 .. Len(review.pages) /\ 1 - 1 = 0
            BY <4>3
          <6> HIDE DEF first
          <6>2. review.pages[first] \in 0 .. 255
            BY <4>1, <6>1, ItemPagesTyped, Zenon
          <6> QED BY <6>1, <6>2 DEF first
        <5> DEFINE m == review.pages[1]
        <5>3. B[1] = 0 + m /\ m \in 0 .. 255 /\ m > 0
          BY <4>4, <5>1, <5>2
        <5> HIDE DEF m
        <5> QED BY <5>3
      <4>6. B[1] \in Nat /\ B[1] <= B[Len(review.pages)]
        BY <4>1, <4>3, <4>4, NumberingGrows
      <4> QED BY <1>t, <3>1, <4>2, <4>5, <4>6
    <3>3. screen = "pairs"
      <4>1. CASE screen = "title"
        <5>1. range[2] = -1
          BY <4>1 DEF Inv, RangeInv
        <5> QED BY <1>2, <1>t, <3>2, <5>1
      <4> QED BY <1>0, <4>1
    <3>4. /\ 0 <= range[1] /\ range[1] <= range[2] /\ range[2] < nbPairs
          /\ range[2] - range[1] < NB_MAX_DISPLAYED_PAIRS_IN_REVIEW
      BY <3>3 DEF Inv, RangeInv
    <3>5. range[2] = nbPairs - 1
      BY <1>2, <1>t, <3>4
    <3> QED BY <3>1, <3>4, <3>5
  <2>5. SeenInv => SeenInv'
    <3>1. SeenInv => (Numbered(review) => \A k \in 0 .. range[2] : AllPages(review)[k + 1] \in seen)
      BY <1>0 DEF SeenInv
    <3>2. answers' = << >>
      BY <2>1, <2>2
    <3>3. ~Accepted'
      BY <3>2, NotAccepted DEF Accepted
    <3> QED BY <2>1, <3>1, <3>3 DEF SeenInv
  <2> QED BY <2>3, <2>4, <2>5 DEF Inv
<1> QED
  BY <1>1, <1>2

(* The way back: from the question, to earlier pairs, to the title.        *)
LEMMA BackKeeps ==
    ASSUME Inv, Back
    PROVE  Inv' /\ (SeenInv => SeenInv')
<1>t. range[1] \in Nat /\ range[2] \in Nat \cup {-1} /\ range[2] \in Int /\ nbPairs \in Nat
  BY DEF Inv, TypeInv
<1>1. CASE screen = "question" /\ ShowPairs(range[1], range[2])
  <2>1. screen \in PairScreens
    BY <1>1 DEF PairScreens
  <2>2. Numbered(review) => range[1] <= range[2] /\ range[2] < nbPairs
    BY <1>1 DEF Inv, RangeInv
  <2>3. SeenInv => (Numbered(review) => \A k \in 0 .. range[1] - 1 : AllPages(review)[k + 1] \in seen)
    <3> SUFFICES ASSUME SeenInv, Numbered(review), NEW k \in 0 .. range[1] - 1
                 PROVE  AllPages(review)[k + 1] \in seen
      OBVIOUS
    <3>1. k \in 0 .. range[2]
      BY <1>t, <2>2
    <3> QED BY <2>1, <3>1 DEF SeenInv
  <2> QED BY <1>1, <1>t, <2>1, <2>2, <2>3, PairsShown
<1>2. CASE screen = "pairs" /\ range[1] > 0 /\ \E from \in 0 .. range[1] - 1 : ShowPairs(from, range[1] - 1)
  <2>1. PICK from \in 0 .. range[1] - 1 : ShowPairs(from, range[1] - 1)
    BY <1>2
  <2>2. screen \in PairScreens
    BY <1>2 DEF PairScreens
  <2> DEFINE to == range[1] - 1
  <2>3. from \in Nat /\ to \in Int /\ (Numbered(review) => to < nbPairs /\ from - 1 <= range[2])
    <3>1. Numbered(review) => range[1] <= range[2] /\ range[2] < nbPairs
      BY <1>2 DEF Inv, RangeInv
    <3> QED BY <1>t, <3>1
  <2>4. SeenInv => (Numbered(review) => \A k \in 0 .. from - 1 : AllPages(review)[k + 1] \in seen)
    <3> SUFFICES ASSUME SeenInv, Numbered(review), NEW k \in 0 .. from - 1
                 PROVE  AllPages(review)[k + 1] \in seen
      OBVIOUS
    <3>1. k \in 0 .. range[2]
      BY <1>t, <2>3
    <3> QED BY <2>2, <3>1 DEF SeenInv
  <2>5. ShowPairs(from, to)
    BY <2>1
  <2> HIDE DEF to
  <2> QED BY <2>2, <2>3, <2>4, <2>5, PairsShown
<1>3. CASE /\ screen = "pairs" /\ range[1] = 0
           /\ screen' = "title" /\ range' = <<0, -1>>
           /\ UNCHANGED <<pageCountCache, slots, seen>> /\ Unchanged
  <2>1. /\ UNCHANGED <<review, nbPairs, intro_message, approval_label, answers>>
        /\ answers = << >> /\ review \in Reviews
    BY <1>3, Unanswered DEF Unchanged, Inv, TypeInv, Reviewing, StayingScreens, FinalScreens
  <2>2. TypeInv'
    BY <1>3, <2>1 DEF Inv, TypeInv, Screens, Reviewing
  <2>3. AnswerInv' /\ TextInv' /\ CacheInv' /\ PairsTrue'
    BY <1>3, <2>1, NoneYet DEF Inv, TextInv, CacheInv, PairsTrue, Truthful
  <2>4. RangeInv'
    BY <1>3, <2>1 DEF Inv, RangeInv, PairScreens
  <2>5. SeenInv'
    <3>1. range'[2] = -1 /\ 0 .. -1 = {}
      BY <1>3
    <3> QED BY <1>3, <2>1, <3>1, NoneYet DEF SeenInv, PairScreens
  <2> QED BY <2>2, <2>3, <2>4, <2>5 DEF Inv
<1> QED
  BY <1>1, <1>2, <1>3 DEF Back

(* A review that is one screen only: an address with more items than there *)
(* are slots, or with pages behind its first, shows less than it asks for; *)
(* and a configuration shows its first page.                               *)
OneScreenReviews ==
    \A r \in Reviews : r.intent = NoIntent =>
      /\ r.kind = "UI" => Len(r.pages) = 1
      /\ r.kind = "ADDRESS" => Len(r.pages) <= NB_MAX_DISPLAYED_PAIRS_IN_REVIEW
      /\ r.kind \in {"UI", "ADDRESS"} => \A k \in 1 .. Len(r.pages) : r.pages[k] <= 1

(* Items of one page are numbered as they are.                             *)
LEMMA OnePageEach ==
    ASSUME NEW r, IsReview(r), Numbered(r), \A k \in 1 .. Len(r.pages) : r.pages[k] <= 1
    PROVE  AllPages(r) \in Seq(Text) /\ Len(AllPages(r)) = Len(r.pages)
<1> DEFINE N == Len(r.pages)
<1>1. PICK B : SoundNumbering(r, B) /\ Len(AllPages(r)) = B[N]
  BY NumberedCounted
<1>2. N \in Nat
  BY DEF IsReview
<1> DEFINE T == {k \in 0 .. N : B[k] = k}
<1>3. 0 \in T
  <2>1. B[0] = 0
    BY <1>1, ZenonT(30) DEF SoundNumbering, Numbering
  <2> HIDE DEF N
  <2> QED BY <1>2, <2>1
<1>4. ASSUME NEW k \in 1 .. N, k - 1 \in T PROVE k \in T
  <2>1. r.pages[k] = 1
    <3>1. r.pages[k] \in 0 .. 255 /\ r.pages[k] <= 1 /\ r.pages[k] > 0
      BY <1>1, ItemPagesTyped DEF SoundNumbering
    <3>2. \A x \in 0 .. 255 : x <= 1 /\ x > 0 => x = 1
      OBVIOUS
    <3> QED BY <3>1, <3>2, Zenon
  <2>2. B[k] = B[k - 1] + 1
    BY <1>1, <2>1 DEF SoundNumbering, Numbering
  <2>3. k \in 0 .. N
    BY <1>2
  <2> QED BY <1>4, <2>2, <2>3
<1> HIDE DEF T, N
<1>5. N \in T
  <2>1. \A k \in 0 .. N : k \in T
    BY <1>2, <1>3, <1>4, TurnByTurn
  <2> QED BY <1>2, <2>1
<1>6. B[N] = N
  BY <1>5 DEF T
<1>7. AllPages(r) \in Seq(Text)
  BY <1>1 DEF SoundNumbering, Numbering
<1> QED
  BY <1>1, <1>6, <1>7 DEF N

(* All pages were seen.                                                    *)
LEMMA AllOf ==
    ASSUME NEW s \in Seq(Text), NEW t, \A i \in 0 .. Len(s) - 1 : s[i + 1] \in t
    PROVE  ToSet(s) \subseteq t
<1> SUFFICES ASSUME NEW j \in DOMAIN s PROVE s[j] \in t
  BY DEF ToSet
<1>1. Len(s) \in Nat /\ j \in 1 .. Len(s)
  BY LenProperties
<1>2. j - 1 \in 0 .. Len(s) - 1 /\ (j - 1) + 1 = j
  BY <1>1
<1> QED
  BY <1>2

(* The screen of an address.                                               *)
LEMMA AddressShown ==
    ASSUME Inv, NEW r \in Reviews, NEW c, Truthful(r, c), AddressReview(r, c)
    PROVE  /\ screen' = "address" /\ range' \in Nat \X (Nat \cup {-1}) /\ nbPairs' \in Nat
           /\ Truthful(r, pageCountCache') /\ slots' \in [Slot -> Text]
           /\ OneScreenReviews /\ r.kind = "ADDRESS" /\ r.intent = NoIntent /\ Numbered(r) =>
                ToSet(AllPages(r)) \subseteq seen'
<1> DEFINE n == Len(r.pages)
           last == IF n - 1 \in Slot THEN n - 1 ELSE NB_MAX_DISPLAYED_PAIRS_IN_REVIEW - 1
           slot0 == IF n > NB_MAX_DISPLAYED_PAIRS_IN_REVIEW
                      THEN [slots EXCEPT ![0] = Error] ELSE slots
           st == [cache |-> c, slots |-> slot0]
           rest == FetchRange(r, st, 1, last)
           all == Fetch(r, rest, 0, 0)
<1>0. /\ screen' = "address" /\ range' = <<0, n - 1>> /\ nbPairs' = n
      /\ pageCountCache' = all.cache /\ slots' = all.slots
      /\ seen' = OnScreen(all.slots, 0, last)
  BY DEF AddressReview
<1>1. IsReview(r) /\ n \in 1 .. 128
  BY ReviewTyped DEF IsReview
<1>2. NB_MAX_DISPLAYED_PAIRS_IN_REVIEW \in 1 .. 255 /\ 0 \in Slot
  BY ReviewsAssumption DEF Slot
<1>3. st \in FetchStates(r)
  <2>1. slots \in [Slot -> Text] /\ Error \in Text
    BY DEF Inv, TypeInv, Error, Text
  <2>2. slot0 \in [Slot -> Text]
    BY <2>1
  <2>3. c \in Caches(r)
    BY DEF Truthful, Caches
  <2> HIDE DEF slot0
  <2> QED BY <2>2, <2>3 DEF FetchStates
<1>4. last \in Slot /\ last \in Nat /\ 1 <= last + 1 /\ 1 \in Nat /\ last \in Int
      /\ last - 1 < NB_MAX_DISPLAYED_PAIRS_IN_REVIEW /\ last <= n - 1
  <2> HIDE DEF n
  <2> QED BY <1>1, <1>2 DEF Slot
<1>5. n <= NB_MAX_DISPLAYED_PAIRS_IN_REVIEW => last = n - 1
  <2> HIDE DEF n
  <2> QED BY <1>1, <1>2 DEF Slot
<1> HIDE DEF n, last, st
<1>6. rest \in FetchStates(r)
      /\ (Numbered(r) /\ last < Len(AllPages(r)) =>
            \A i \in 1 .. last : rest.slots[internalIndex(i)] = AllPages(r)[i + 1])
  BY <1>1, <1>3, <1>4, ScreenFetched
<1> HIDE DEF rest
<1>7. all \in FetchStates(r) /\ \A j \in Slot : j # 0 => all.slots[j] = rest.slots[j]
  BY <1>1, <1>2, <1>6, FetchIs
<1>8. ASSUME OneScreenReviews, r.kind = "ADDRESS", r.intent = NoIntent, Numbered(r)
      PROVE  ToSet(AllPages(r)) \subseteq seen'
  <2>1. AllPages(r) \in Seq(Text) /\ Len(AllPages(r)) = n /\ last = n - 1
    BY <1>1, <1>5, <1>8, OnePageEach DEF OneScreenReviews, n
  <2>2. last < Len(AllPages(r)) /\ 0 < n
    BY <1>1, <2>1
  <2>3. internalIndex(0) = 0
    BY <1>2 DEF internalIndex
  <2>4. all.slots[0] = AllPages(r)[0 + 1]
    <3>1. PICK B : SoundNumbering(r, B) /\ n = B[Len(r.pages)]
      BY <1>1, <1>8, <2>1, NumberedCounted
    <3>2. 0 <= 0 /\ 0 < B[Len(r.pages)] /\ 0 \in Int
      BY <2>2, <3>1
    <3> QED BY <1>1, <1>2, <1>6, <3>1, <3>2, FetchIs
  <2>5. ASSUME NEW i \in 0 .. Len(AllPages(r)) - 1 PROVE AllPages(r)[i + 1] \in seen'
    <3>0. i \in 0 .. last
      BY <2>1
    <3>1. CASE i = 0
      BY <1>0, <2>3, <2>4, <3>0, <3>1 DEF OnScreen
    <3>2. CASE i # 0
      <4>1. i \in 1 .. last /\ i \in Nat
        BY <1>4, <3>0, <3>2
      <4>2. rest.slots[internalIndex(i)] = AllPages(r)[i + 1]
        BY <1>6, <1>8, <2>2, <4>1
      <4>3. internalIndex(i) \in Slot /\ internalIndex(i) # 0
        <5>1. 0 < i /\ i - 0 < NB_MAX_DISPLAYED_PAIRS_IN_REVIEW
          BY <1>2, <1>4, <4>1 DEF Slot
        <5> QED BY <2>3, <4>1, <5>1, SlotOfNumber
      <4>4. all.slots[internalIndex(i)] = AllPages(r)[i + 1]
        BY <1>7, <4>2, <4>3
      <4> QED BY <1>0, <3>0, <4>4 DEF OnScreen
    <3> QED BY <3>1, <3>2
  <2> QED BY <2>1, <2>5, AllOf
<1> HIDE DEF all
<1>9. range' \in Nat \X (Nat \cup {-1}) /\ nbPairs' \in Nat
  BY <1>0, <1>1
<1>10. Truthful(r, pageCountCache') /\ slots' \in [Slot -> Text]
  BY <1>0, <1>7 DEF FetchStates, Caches
<1> QED
  BY <1>0, <1>8, <1>9, <1>10

(* A new review: its own texts and counts, and nothing seen yet.           *)
LEMMA ShowKeeps ==
    ASSUME Inv, NEW r \in Reviews, Show(r)
    PROVE  Inv' /\ (OneScreenReviews => SeenInv')
<1>1. /\ review' = r /\ answers' = << >>
      /\ intro_message' = IntroFor(r) /\ approval_label' = LabelFor(r)
  BY DEF Show, Texts
<1>2. AnswerInv' /\ TextInv' /\ ~Accepted'
  BY <1>1, NoneYet DEF TextInv
<1>3. IsReview(r) /\ Truthful(r, Invalidated)
  BY ReviewTyped, InvalidatedTruthful DEF Inv, CacheInv
<1>4. CASE r.intent = NoIntent /\ r.kind = "UI" /\ ConfigReview(Invalidated)
  <2>1. /\ screen' = "configuration" /\ pageCountCache' = Invalidated /\ seen' = {}
        /\ UNCHANGED <<range, nbPairs, slots>>
    BY <1>4 DEF ConfigReview
  <2>2. TypeInv' /\ CacheInv'
    BY <1>1, <1>3, <1>4, <2>1 DEF Inv, TypeInv, CacheInv, Screens, Reviewing
  <2>3. RangeInv' /\ PairsTrue' /\ SeenInv'
    BY <1>1, <1>2, <2>1 DEF RangeInv, PairsTrue, SeenInv, PairScreens
  <2> QED BY <1>2, <2>2, <2>3 DEF Inv
<1>5. CASE r.intent = NoIntent /\ r.kind = "ADDRESS" /\ AddressReview(r, Invalidated)
  <2>1. /\ screen' = "address" /\ range' \in Nat \X (Nat \cup {-1}) /\ nbPairs' \in Nat
        /\ Truthful(r, pageCountCache') /\ slots' \in [Slot -> Text]
        /\ OneScreenReviews /\ Numbered(r) => ToSet(AllPages(r)) \subseteq seen'
    BY <1>3, <1>5, AddressShown
  <2>2. TypeInv' /\ CacheInv'
    BY <1>1, <2>1 DEF TypeInv, CacheInv, Screens, Reviewing
  <2>3. RangeInv' /\ PairsTrue' /\ (OneScreenReviews => SeenInv')
    BY <1>1, <1>2, <2>1 DEF RangeInv, PairsTrue, SeenInv, PairScreens
  <2> QED BY <1>2, <2>2, <2>3 DEF Inv
<1>6. CASE PairReview(r, Invalidated)
  <2> DEFINE s == get_pair_number(r, Invalidated, slots[0])
  <2>1. /\ screen' = "title" /\ range' = <<0, -1>> /\ nbPairs' = s.pairs
        /\ pageCountCache' = s.cache /\ slots' = [slots EXCEPT ![0] = s.text] /\ seen' = {}
    BY <1>6 DEF PairReview
  <2>2. slots \in [Slot -> Text] /\ 0 \in Slot
    BY ReviewsAssumption DEF Inv, TypeInv, Slot
  <2>3. s \in CountStates(r) /\ \A B : SoundNumbering(r, B) => s.pairs = B[Len(r.pages)]
    <3>1. slots[0] \in Text
      BY <2>2
    <3> QED BY <1>3, <3>1, PairsCounted
  <2> HIDE DEF s
  <2>4. Truthful(r, s.cache) /\ s.text \in Text /\ s.pairs \in Nat
    <3>1. s.cache \in Caches(r) /\ s.text \in Text /\ s.pairs \in 0 .. 255
      BY <2>3 DEF CountStates
    <3>2. \A x \in 0 .. 255 : x \in Nat
      OBVIOUS
    <3> QED BY <3>1, <3>2 DEF Caches
  <2>5. Numbered(r) => s.pairs = Len(AllPages(r))
    BY <1>3, <2>3, NumberedCounted
  <2>6. TypeInv' /\ CacheInv'
    BY <1>1, <2>1, <2>2, <2>4 DEF TypeInv, CacheInv, Screens, Reviewing
  <2>7. RangeInv' /\ PairsTrue'
    BY <1>1, <2>1, <2>5 DEF RangeInv, PairsTrue, PairScreens
  <2>8. SeenInv'
    <3>1. range'[2] = -1 /\ 0 .. -1 = {}
      BY <2>1
    <3> QED BY <1>1, <1>2, <2>1, <3>1 DEF SeenInv, PairScreens
  <2> QED BY <1>2, <2>6, <2>7, <2>8 DEF Inv
<1> QED
  BY <1>4, <1>5, <1>6 DEF Show

(* The configuration, drawn when the user goes on from its first screen.   *)
LEMMA ConfigurationKeeps ==
    ASSUME Inv, review_configuration
    PROVE  Inv' /\ (OneScreenReviews => SeenInv')
<1> DEFINE u == h_review_update_data(review, pageCountCache, 0, slots[0])
           text == IF u.err = "ok" THEN u.text ELSE Error
<1>1. /\ screen = "configuration" /\ screen' = "setting"
      /\ pageCountCache' = u.cache /\ slots' = [slots EXCEPT ![0] = text] /\ seen' = {text}
      /\ UNCHANGED range
      /\ UNCHANGED <<review, nbPairs, intro_message, approval_label, answers>>
  BY DEF review_configuration, Unchanged
<1>2. /\ review \in Reviews /\ review.kind = "UI" /\ review.intent = NoIntent
      /\ IsReview(review) /\ answers = << >>
  BY <1>1, ReviewTyped, Unanswered DEF Inv, TypeInv, Reviewing, StayingScreens, FinalScreens
<1>3. slots \in [Slot -> Text] /\ 0 \in Slot /\ slots[0] \in Text /\ 0 \in Int
  BY ReviewsAssumption DEF Inv, TypeInv, Slot
<1>4. u \in LookStates(review)
      /\ \A B : SoundNumbering(review, B) /\ 0 <= 0 /\ 0 < B[Len(review.pages)] =>
                  u.err = "ok" /\ u.text = AllPages(review)[0 + 1]
  BY <1>2, <1>3, PageFound DEF Inv, CacheInv
<1> HIDE DEF u
<1>5. Truthful(review, u.cache) /\ u.text \in Text /\ text \in Text
  BY <1>4 DEF LookStates, PageCounts, Caches, Error, Text
<1>6. TypeInv'
  BY <1>1, <1>2, <1>3, <1>5 DEF Inv, TypeInv, Screens, Reviewing
<1>7. AnswerInv' /\ TextInv' /\ CacheInv' /\ ~Accepted'
  BY <1>1, <1>2, <1>5, NoneYet DEF Inv, TextInv, CacheInv
<1>8. RangeInv' /\ PairsTrue'
  BY <1>1 DEF RangeInv, PairsTrue, PairScreens
<1>9. ASSUME OneScreenReviews, Numbered(review) PROVE ToSet(AllPages(review)) \subseteq seen'
  <2>1. Len(review.pages) = 1 /\ \A k \in 1 .. Len(review.pages) : review.pages[k] <= 1
    BY <1>2, <1>9 DEF OneScreenReviews
  <2>2. AllPages(review) \in Seq(Text) /\ Len(AllPages(review)) = 1
    BY <1>2, <1>9, <2>1, OnePageEach
  <2>3. PICK B : SoundNumbering(review, B) /\ 1 = B[Len(review.pages)]
    BY <1>2, <1>9, <2>2, NumberedCounted
  <2>4. text = AllPages(review)[0 + 1]
    BY <1>4, <2>3
  <2> HIDE DEF text
  <2>5. ASSUME NEW i \in 0 .. Len(AllPages(review)) - 1 PROVE AllPages(review)[i + 1] \in seen'
    BY <1>1, <2>2, <2>4
  <2> QED BY <2>2, <2>5, AllOf
<1>10. OneScreenReviews => SeenInv'
  BY <1>1, <1>2, <1>7, <1>9 DEF SeenInv, PairScreens
<1> QED
  BY <1>6, <1>7, <1>8, <1>10 DEF Inv

(* What the steps that only change the screen leave alone.                 *)
Kept == UNCHANGED <<review, nbPairs, range, pageCountCache, intro_message, approval_label>>

(* A step to a screen without pairs keeps all that was known.              *)
LEMMA ScreenLeft ==
    ASSUME Inv, Kept, screen' \in Screens \ PairScreens, slots' \in [Slot -> Text], AnswerInv',
           screen' \in Reviewing => review \in Reviews,
           screen' \notin {"configuration", "setting"}
    PROVE  Inv'
<1>1. TypeInv'
  BY DEF Inv, TypeInv, Kept
<1>2. TextInv' /\ CacheInv'
  BY DEF Inv, TextInv, CacheInv, Kept
<1>3. RangeInv' /\ PairsTrue'
  BY DEF RangeInv, PairsTrue, PairScreens
<1> QED
  BY <1>1, <1>2, <1>3 DEF Inv

(* Unless the screen is one that no answer leads on from, what has been    *)
(* answered is not final.                                                  *)
LEMMA NothingFinal ==
    ASSUME Inv, screen \notin FinalScreens
    PROVE  answers \in Seq(Answers) /\ \A k \in 1 .. Len(answers) : answers[k] = "accepted"
<1>1. CASE screen \in StayingScreens
  BY <1>1 DEF Inv, AnswerInv, Fitting
<1>2. CASE screen \notin StayingScreens
  <2>1. answers = << >> /\ answers \in Seq(Answers)
    BY <1>2 DEF Inv, AnswerInv, Fitting
  <2>2. Len(answers) = 0 /\ 1 .. 0 = {}
    BY <2>1
  <2> QED BY <2>1, <2>2
<1> QED
  BY <1>1, <1>2

(* An answer ends the request.                                             *)
LEMMA AnswerKeeps ==
    ASSUME Inv, NEW a \in {"approved", "rejected", "silence", "error"}, Answer(a),
           screen \notin FinalScreens, a = "approved" => screen = "approving"
    PROVE  Inv' /\ (SeenInv => SeenInv')
<1>1. slots \in [Slot -> Text] /\ a \in Answers
  BY DEF Inv, TypeInv, Answers
<1>2. /\ Kept /\ UNCHANGED <<slots, seen>> /\ screen' = "idle" /\ answers' = Append(answers, a)
      /\ "idle" \in FinalScreens
  BY DEF Answer, Kept, FinalScreens
<1>3. AnswerInv' /\ ToSet(answers') = ToSet(answers) \cup {a}
  BY <1>1, <1>2, NothingFinal, AnswerFollows DEF AnswerInv
<1>4. Inv'
  BY <1>1, <1>2, <1>3, ScreenLeft DEF Screens, PairScreens, Reviewing
<1>5. SeenInv => SeenInv'
  <2>1. Accepted' => Accepted \/ screen = "approving"
    BY <1>3 DEF Accepted
  <2> QED BY <1>2, <2>1 DEF SeenInv, PairScreens, Kept
<1> QED
  BY <1>4, <1>5

(* "Ok" on a screen that stays calls the accept callback, and may be       *)
(* pressed again.                                                          *)
LEMMA OkKeeps ==
    ASSUME Inv, screen \in StayingScreens, screen' \in {screen, "idle"}, answers' = Append(answers, "accepted"),
           Kept, UNCHANGED <<slots, seen>>
    PROVE  Inv' /\ (SeenInv => SeenInv')
<1>1. /\ slots' \in [Slot -> Text] /\ screen' \in Screens \ PairScreens
      /\ screen' \in Reviewing => review \in Reviews
      /\ screen' \in FinalScreens \cup StayingScreens /\ screen \notin FinalScreens
  BY DEF Inv, TypeInv, Screens, PairScreens, Reviewing, FinalScreens, StayingScreens
<1>2. AnswerInv' /\ ToSet(answers') = ToSet(answers) \cup {"accepted"}
  BY <1>1, NothingFinal, AnswerFollows DEF AnswerInv, Answers
<1>3. Inv'
  <2>1. screen' \in {"configuration", "setting"} => review.kind = "UI" /\ review.intent = NoIntent
    BY DEF Inv, TypeInv, StayingScreens
  <2>2. TypeInv' /\ TextInv' /\ CacheInv'
    BY <1>1, <2>1 DEF Inv, TypeInv, TextInv, CacheInv, Kept
  <2>3. RangeInv' /\ PairsTrue'
    BY <1>1 DEF RangeInv, PairsTrue, PairScreens
  <2> QED BY <1>2, <2>2, <2>3 DEF Inv
<1>4. SeenInv => SeenInv'
  BY <1>1 DEF SeenInv, StayingScreens, PairScreens, Kept
<1> QED
  BY <1>3, <1>4

(* An error of the application replaces what the request was.              *)
LEMMA ErrorKeeps ==
    ASSUME Inv, view_error_show \/ \E s \in {"custom_error", "blindsign_error"} : OtherErrorShow(s)
    PROVE  Inv' /\ SeenInv'
<1>1. slots \in [Slot -> Text] /\ Error \in Text /\ Blank \in Text /\ 0 \in Slot
  BY ReviewsAssumption DEF Inv, TypeInv, Text, Error, Blank, Slot
<1>2. CASE view_error_show
  <2>1. Kept /\ answers' = << >> /\ screen' = "error" /\ slots' = [slots EXCEPT ![0] = Error]
        /\ seen' = {Error}
    BY <1>2 DEF view_error_show, NewRequest, Kept
  <2>2. Inv'
    BY <1>1, <2>1, NoneYet, ScreenLeft DEF Screens, PairScreens, Reviewing
  <2>3. SeenInv'
    BY <2>1 DEF SeenInv, PairScreens
  <2> QED BY <2>2, <2>3
<1>3. ASSUME NEW s \in {"custom_error", "blindsign_error"}, OtherErrorShow(s) PROVE Inv' /\ SeenInv'
  <2>1. Kept /\ answers' = << >> /\ screen' = s /\ slots' \in [Slot -> Text]
    BY <1>1, <1>3 DEF OtherErrorShow, NewRequest, Kept
  <2>2. Inv'
    BY <2>1, NoneYet, ScreenLeft DEF Screens, PairScreens, Reviewing
  <2>3. SeenInv'
    BY <2>1, NoneYet DEF SeenInv, PairScreens
  <2> QED BY <2>2, <2>3
<1> QED
  BY <1>2, <1>3

(* A choice under the question, or of an address, comes after all pages.   *)
LEMMA ChoiceKeeps ==
    ASSUME Inv, NEW confirm \in BOOLEAN, Choice(confirm)
    PROVE  Inv' /\ (SeenInv => SeenInv')
<1>1. /\ screen \in {"question", "address", "title", "pairs"}
      /\ confirm => screen \in {"question", "address"}
      /\ screen' = (IF confirm THEN "approving" ELSE "rejecting")
      /\ UNCHANGED <<slots, seen, answers>> /\ Kept
  BY DEF Choice, Unchanged, Kept
<1>2. answers = << >> /\ review \in Reviews /\ slots \in [Slot -> Text]
  BY <1>1, Unanswered DEF Inv, TypeInv, Reviewing, StayingScreens, FinalScreens
<1>3. Inv'
  BY <1>1, <1>2, NoneYet, ScreenLeft DEF Screens, PairScreens, Reviewing
<1>4. ASSUME SeenInv, Numbered(review), confirm PROVE ToSet(AllPages(review)) \subseteq seen
  <2>1. CASE screen = "address"
    BY <1>4, <2>1 DEF SeenInv
  <2>2. CASE screen = "question"
    <3>1. range[2] = Len(AllPages(review)) - 1
      BY <1>4, <2>2 DEF Inv, RangeInv, PairScreens
    <3>2. \A i \in 0 .. Len(AllPages(review)) - 1 : AllPages(review)[i + 1] \in seen
      BY <1>4, <2>2, <3>1 DEF SeenInv, PairScreens
    <3>3. AllPages(review) \in Seq(Text)
      BY <1>2, ReviewTyped, NumberingExists DEF Numbering
    <3> QED BY <3>2, <3>3, AllOf
  <2> QED BY <1>1, <1>4, <2>1, <2>2
<1>5. SeenInv => SeenInv'
  BY <1>1, <1>2, <1>4, NoneYet DEF SeenInv, PairScreens, Kept
<1> QED
  BY <1>3, <1>5

(* Every step.                                                             *)
LEMMA StepKeeps ==
    ASSUME Inv, [Next]_vars
    PROVE  Inv' /\ (OneScreenReviews /\ SeenInv => SeenInv')
<1>s. slots \in [Slot -> Text]
  BY DEF Inv, TypeInv
<1>1. CASE \E r \in Reviews : Show(r)
  BY <1>1, ShowKeeps
<1>2. CASE Forward \/ Back
  BY <1>2, ForwardKeeps, BackKeeps
<1>3. CASE review_configuration
  BY <1>3, ConfigurationKeeps
<1>4. CASE view_error_show \/ \E s \in {"custom_error", "blindsign_error"} : OtherErrorShow(s)
  BY <1>4, ErrorKeeps
<1>5. CASE \E confirm \in BOOLEAN : Choice(confirm)
  BY <1>5, ChoiceKeeps
<1>6. ASSUME NEW confirm \in BOOLEAN, confirm_setting(confirm)
      PROVE  Inv' /\ (SeenInv => SeenInv')
  <2>1. screen \in {"setting", "error"}
    BY <1>6 DEF confirm_setting
  <2>2. CASE \E a \in {"rejected", "silence"} : Answer(a)
    BY <2>1, <2>2, AnswerKeeps DEF FinalScreens
  <2>3. CASE /\ answers' = Append(answers, "accepted") /\ screen' \in {screen, "idle"}
             /\ UNCHANGED <<review, range, nbPairs, pageCountCache, slots,
                            intro_message, approval_label, seen>>
    BY <2>1, <2>3, OkKeeps DEF StayingScreens, Kept
  <2> QED BY <1>6, <2>2, <2>3 DEF confirm_setting, h_reject
<1>7. ASSUME NEW confirm \in BOOLEAN, goto_settings(confirm)
      PROVE  Inv' /\ (SeenInv => SeenInv')
  <2>1. screen = "blindsign_error" /\ screen \notin FinalScreens
    BY <1>7 DEF goto_settings, FinalScreens
  <2>2. /\ Kept /\ UNCHANGED <<slots, seen>> /\ answers' = Append(answers, "error")
        /\ screen' \in FinalScreens /\ screen' \in {"settings", "idle"}
    BY <1>7 DEF goto_settings, Kept, FinalScreens
  <2>3. AnswerInv' /\ ToSet(answers') = ToSet(answers) \cup {"error"}
    BY <2>1, <2>2, NothingFinal, AnswerFollows DEF AnswerInv, Answers
  <2>4. Inv'
    BY <1>s, <2>2, <2>3, ScreenLeft DEF Screens, PairScreens, Reviewing
  <2>5. Accepted' => Accepted
    BY <2>3 DEF Accepted
  <2>6. SeenInv => SeenInv'
    BY <2>2, <2>5 DEF SeenInv, PairScreens, Kept
  <2> QED BY <2>4, <2>6
<1>8. CASE StatusEnds
  <2>1. CASE screen = "approving" /\ h_approve
    BY <2>1, AnswerKeeps DEF h_approve, FinalScreens
  <2>2. CASE screen = "rejecting" /\ h_reject
    <3>1. \E a \in {"rejected", "silence"} : Answer(a)
      BY <2>2 DEF h_reject
    <3> QED BY <2>2, <3>1, AnswerKeeps DEF FinalScreens
  <2> QED BY <1>8, <2>1, <2>2 DEF StatusEnds
<1>9. CASE CancelConfiguration
  <2>1. screen = "configuration" /\ \E a \in {"rejected", "silence"} : Answer(a)
    BY <1>9 DEF CancelConfiguration, h_reject
  <2> QED BY <2>1, AnswerKeeps DEF FinalScreens
<1>10. CASE confirm_error
  BY <1>10, AnswerKeeps DEF confirm_error, FinalScreens
<1>11. CASE LeaveSettings \/ IoReset
  <2>1. Kept /\ UNCHANGED <<slots, seen, answers>> /\ screen' = "idle"
    BY <1>11 DEF LeaveSettings, IoReset, Unchanged, Kept
  <2>2. AnswerInv'
    BY <2>1 DEF Inv, AnswerInv, Fitting, FinalScreens, StayingScreens
  <2>3. Inv'
    BY <1>s, <2>1, <2>2, ScreenLeft DEF Screens, PairScreens, Reviewing
  <2>4. SeenInv => SeenInv'
    BY <2>1 DEF SeenInv, PairScreens, Kept, Accepted
  <2> QED BY <2>3, <2>4
<1>12. CASE UNCHANGED vars
  BY <1>12 DEF vars, Inv, TypeInv, AnswerInv, TextInv, CacheInv, RangeInv, PairsTrue, SeenInv, Accepted
<1> QED
  BY <1>1, <1>2, <1>3, <1>4, <1>5, <1>6, <1>7, <1>8, <1>9, <1>10, <1>11, <1>12 DEF Next

-----------------------------------------------------------------------------
(* The theorems.                                                           *)

(* The invariant holds in every behaviour.                                 *)
LEMMA InvAlways == Spec => []Inv
<1>1. Init => Inv
  BY InvInit
<1>2. Inv /\ [Next]_vars => Inv'
  BY StepKeeps
<1> QED
  BY <1>1, <1>2, PTL DEF Spec

(* After a rejection, an error or an approval by h_approve nothing more is *)
(* answered until the next request, whichever screens the user or an       *)
(* unplugged device led through: these answers leave the screens that      *)
(* answer.  The accept callback of confirm_setting does not, and is        *)
(* exempt: its "Ok" may be pressed again.                                  *)
THEOREM AnswersEndRequests == Spec => []AnswersFinal
<1>1. Inv => AnswersFinal
  <2> SUFFICES ASSUME Inv, NEW k \in DOMAIN answers, k < Len(answers) PROVE answers[k] = "accepted"
    BY DEF AnswersFinal
  <2>1. answers \in Seq(Answers) /\ \A i \in 1 .. Len(answers) : i < Len(answers) => answers[i] = "accepted"
    BY DEF Inv, AnswerInv, Fitting
  <2> QED BY <2>1
<1> QED
  BY <1>1, InvAlways, PTL

(* Every pair on a screen is the page its number stands for, if the pages  *)
(* of the review have numbers (Numbered); every count in the cache is the  *)
(* item's, and the texts are this review's: for all lists of items, sizes  *)
(* of screens and of the cache, whatever reviews and errors were shown     *)
(* before.                                                                 *)
THEOREM ShowsThisReview == Spec => []NothingFromElsewhere
<1>1. Inv => CacheTruthful
  <2>0. ASSUME Inv PROVE pageCountCache.itemCount <= MAX_CACHED_ITEMS
    <3>1. pageCountCache.itemCount \in 0 .. MAX_CACHED_ITEMS
      BY <2>0 DEF Inv, CacheInv, Truthful, Cache
    <3> QED BY <3>1, ReviewsAssumption
  <2> SUFFICES ASSUME Inv, NEW i \in 0 .. Len(review.pages) - 1, Cached(pageCountCache, i)
               PROVE  pageCountCache.pageCounts[i] = review.pages[i + 1]
    BY <2>0 DEF CacheTruthful
  <2>1. i \in 0 .. MAX_CACHED_ITEMS - 1 /\ pageCountCache.valid /\ pageCountCache.pageCounts[i] # 0
    <3>1. i \in Int /\ 0 <= i
      OBVIOUS
    <3> QED BY <3>1, ReviewsAssumption DEF Cached
  <2> QED BY <2>1 DEF Inv, CacheInv, Truthful
<1>2. Inv => TextsOfThisReview
  <2> SUFFICES ASSUME Inv, screen \in {"title", "pairs", "question"}
               PROVE  /\ (approval_label.text = "intent") = (review.intent > 0)
                      /\ intro_message.text = approval_label.text
                      /\ approval_label.cut => intro_message.cut
    BY DEF TextsOfThisReview
  <2>1. review \in Reviews /\ review.intent \in Int /\ MAX_CHARS \in Int
    BY ReviewTyped, ReviewsAssumption DEF Inv, TypeInv, Reviewing, NoIntent
  <2>2. intro_message = IntroFor(review) /\ approval_label = LabelFor(review)
    BY DEF Inv, TextInv
  <2> DEFINE n == review.intent
  <2>3. n \in Int
    BY <2>1
  <2>4. CASE n > 0
    <3>1. \A k \in Int : k + n + 1 >= MAX_CHARS => k + 2 + n + 0 >= MAX_CHARS
      <4> HIDE DEF n
      <4> QED BY <2>1, <2>3
    <3>2. 16 + n + 1 >= MAX_CHARS => 18 + n + 0 >= MAX_CHARS
      BY <3>1
    <3>3. 20 + n + 1 >= MAX_CHARS => 22 + n + 0 >= MAX_CHARS
      BY <3>1
    <3> QED BY <2>2, <2>4, <3>2, <3>3 DEF IntroFor, LabelFor, IntentText
  <2>5. CASE ~(n > 0)
    BY <2>2, <2>5 DEF IntroFor, LabelFor, Fixed
  <2> QED BY <2>4, <2>5
<1>3. Inv => NothingFromElsewhere
  BY <1>1, <1>2 DEF NothingFromElsewhere, Inv
<1> QED
  BY <1>3, InvAlways, PTL

(* Nobody approves a review before all of its pages were on the screen:    *)
(* for all reviews whose pages have numbers, if those that are one screen  *)
(* have no more pages than it holds.  Exempt is what is approved after the *)
(* error screen was shown.                                                 *)
THEOREM ReadingComesFirst ==
    ASSUME OneScreenReviews PROVE Spec => []ApprovedAfterReading
<1>1. Init => Inv /\ SeenInv
  BY InvInit
<1>2. Inv /\ SeenInv /\ [Next]_vars => Inv' /\ SeenInv'
  BY StepKeeps
<1>3. SeenInv => ApprovedAfterReading
  BY DEF SeenInv, ApprovedAfterReading
<1> QED
  BY <1>1, <1>2, <1>3, PTL DEF Spec

=============================================================================
