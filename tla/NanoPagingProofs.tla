-------------------------- MODULE NanoPagingProofs --------------------------
(***************************************************************************)
(* What the cursor of the Nano screens does, for any number of items and   *)
(* of pages: the lemmas that the proofs about the screens cite.            *)
(***************************************************************************)
EXTENDS NanoPaging, FiniteSetTheorems, SequenceTheorems, WellFoundedInduction, TLAPS

(* The items of a review: at most 128, the last one has something to show. *)
IsItems(pages) ==
    /\ pages \in Seq(0 .. 254)
    /\ Len(pages) \in 1 .. 128
    /\ pages[Len(pages)] > 0

(* A cursor by its fields. *)
CursorAt(i, p, c, n) == [itemIdx |-> i, pageIdx |-> p, pageCount |-> c, itemCount |-> n]

-----------------------------------------------------------------------------
(* Every cursor is one.                                                    *)
LEMMA CursorOpened ==
    ASSUME NEW d \in Cursor
    PROVE  \E i \in 0 .. 255, p \in 0 .. 255, c \in 0 .. 255, n \in 0 .. 255 : d = CursorAt(i, p, c, n)
<1>1. /\ d.itemIdx \in 0 .. 255 /\ d.pageIdx \in 0 .. 255
      /\ d.pageCount \in 0 .. 255 /\ d.itemCount \in 0 .. 255
      /\ d = CursorAt(d.itemIdx, d.pageIdx, d.pageCount, d.itemCount)
  BY DEF Cursor, CursorAt
<1> QED
  BY <1>1

(* The fields of a cursor.                                                 *)
LEMMA CursorFields ==
    ASSUME NEW i, NEW p, NEW c, NEW n
    PROVE  /\ CursorAt(i, p, c, n).itemIdx = i /\ CursorAt(i, p, c, n).pageIdx = p
           /\ CursorAt(i, p, c, n).pageCount = c /\ CursorAt(i, p, c, n).itemCount = n
  BY DEF CursorAt

(* Fields of a byte each make a cursor of the code.                        *)
LEMMA CursorTyped ==
    ASSUME NEW i \in 0 .. 255, NEW p \in 0 .. 255, NEW c \in 0 .. 255, NEW n \in 0 .. 255
    PROVE  CursorAt(i, p, c, n) \in Cursor
  BY DEF CursorAt, Cursor

(* The assignments to its fields.                                          *)
Cursors == [itemIdx : Int, pageIdx : Int, pageCount : Int, itemCount : Int]

(* A cursor with a field or two changed.                                   *)
LEMMA CursorChanged ==
    ASSUME NEW d \in Cursors, NEW x \in Int, NEW y \in Int
    PROVE  /\ [d EXCEPT !.itemIdx = x, !.pageIdx = y] = CursorAt(x, y, d.pageCount, d.itemCount)
           /\ [d EXCEPT !.pageIdx = y] = CursorAt(d.itemIdx, y, d.pageCount, d.itemCount)
           /\ [d EXCEPT !.itemIdx = x] = CursorAt(x, d.pageIdx, d.pageCount, d.itemCount)
           /\ [d EXCEPT !.pageCount = x] = CursorAt(d.itemIdx, d.pageIdx, x, d.itemCount)
           /\ [d EXCEPT !.itemCount = x] = CursorAt(d.itemIdx, d.pageIdx, d.pageCount, x)
<1>1. ASSUME NEW e \in Cursors
      PROVE  e = CursorAt(e.itemIdx, e.pageIdx, e.pageCount, e.itemCount)
  BY DEF CursorAt, Cursors
<1>2. [d EXCEPT !.itemIdx = x, !.pageIdx = y] = CursorAt(x, y, d.pageCount, d.itemCount)
  <2> DEFINE e == [d EXCEPT !.itemIdx = x, !.pageIdx = y]
  <2>1. e \in Cursors /\ e.itemIdx = x /\ e.pageIdx = y /\ e.pageCount = d.pageCount /\ e.itemCount = d.itemCount
    BY DEF Cursors
  <2> HIDE DEF e
  <2>2. e = CursorAt(x, y, d.pageCount, d.itemCount)
    BY <1>1, <2>1
  <2> QED
    BY <2>2 DEF e
<1>3. [d EXCEPT !.pageIdx = y] = CursorAt(d.itemIdx, y, d.pageCount, d.itemCount)
  <2> DEFINE e == [d EXCEPT !.pageIdx = y]
  <2>1. e \in Cursors /\ e.itemIdx = d.itemIdx /\ e.pageIdx = y /\ e.pageCount = d.pageCount /\ e.itemCount = d.itemCount
    BY DEF Cursors
  <2> HIDE DEF e
  <2>2. e = CursorAt(d.itemIdx, y, d.pageCount, d.itemCount)
    BY <1>1, <2>1
  <2> QED
    BY <2>2 DEF e
<1>4. [d EXCEPT !.itemIdx = x] = CursorAt(x, d.pageIdx, d.pageCount, d.itemCount)
  <2> DEFINE e == [d EXCEPT !.itemIdx = x]
  <2>1. e \in Cursors /\ e.itemIdx = x /\ e.pageIdx = d.pageIdx /\ e.pageCount = d.pageCount /\ e.itemCount = d.itemCount
    BY DEF Cursors
  <2> HIDE DEF e
  <2>2. e = CursorAt(x, d.pageIdx, d.pageCount, d.itemCount)
    BY <1>1, <2>1
  <2> QED
    BY <2>2 DEF e
<1>5. [d EXCEPT !.pageCount = x] = CursorAt(d.itemIdx, d.pageIdx, x, d.itemCount)
  <2> DEFINE e == [d EXCEPT !.pageCount = x]
  <2>1. e \in Cursors /\ e.itemIdx = d.itemIdx /\ e.pageIdx = d.pageIdx /\ e.pageCount = x /\ e.itemCount = d.itemCount
    BY DEF Cursors
  <2> HIDE DEF e
  <2>2. e = CursorAt(d.itemIdx, d.pageIdx, x, d.itemCount)
    BY <1>1, <2>1
  <2> QED
    BY <2>2 DEF e
<1>6. [d EXCEPT !.itemCount = x] = CursorAt(d.itemIdx, d.pageIdx, d.pageCount, x)
  <2> DEFINE e == [d EXCEPT !.itemCount = x]
  <2>1. e \in Cursors /\ e.itemIdx = d.itemIdx /\ e.pageIdx = d.pageIdx /\ e.pageCount = d.pageCount /\ e.itemCount = x
    BY DEF Cursors
  <2> HIDE DEF e
  <2>2. e = CursorAt(d.itemIdx, d.pageIdx, d.pageCount, x)
    BY <1>1, <2>1
  <2> QED
    BY <2>2 DEF e
<1> QED
  BY <1>2, <1>3, <1>4, <1>5, <1>6

(* The paging functions on its fields.                                     *)
LEMMA Increased ==
    ASSUME NEW i \in Int, NEW p \in Int, NEW c \in Int, NEW n \in Int
    PROVE  h_paging_increase(CursorAt(i, p, c, n)) =
             IF p + 1 < c THEN CursorAt(i, p + 1, c, n)
             ELSE IF n > 0 /\ i < n - 1 + ExtraScreens THEN CursorAt(i + 1, 0, c, n)
             ELSE CursorAt(i, p, c, n)
<1> DEFINE d == CursorAt(i, p, c, n)
<1>1. /\ d \in Cursors
      /\ d.itemIdx = i /\ d.pageIdx = p /\ d.pageCount = c /\ d.itemCount = n
  BY DEF Cursors, CursorAt
<1> HIDE DEF d
<1>2. i + 1 \in Int /\ p + 1 \in Int /\ 0 \in Int
  OBVIOUS
<1>3. /\ [d EXCEPT !.pageIdx = p + 1] = CursorAt(i, p + 1, c, n)
      /\ [d EXCEPT !.itemIdx = i + 1, !.pageIdx = 0] = CursorAt(i + 1, 0, c, n)
  <2>1. ASSUME NEW x \in Int, NEW y \in Int
        PROVE  /\ [d EXCEPT !.pageIdx = y] = CursorAt(d.itemIdx, y, d.pageCount, d.itemCount)
               /\ [d EXCEPT !.itemIdx = x, !.pageIdx = y] = CursorAt(x, y, d.pageCount, d.itemCount)
    BY <1>1, CursorChanged, ZenonT(30)
  <2> QED
    BY <1>1, <1>2, <2>1, Zenon
<1>4. (HasNextPage(d) <=> p + 1 < c) /\ (HasNextItem(d) <=> n > 0 /\ i < n - 1 + ExtraScreens)
  BY <1>1 DEF HasNextPage, HasNextItem
<1>5. /\ [d EXCEPT !.pageIdx = @ + 1] = CursorAt(i, p + 1, c, n)
      /\ [d EXCEPT !.itemIdx = @ + 1, !.pageIdx = 0] = CursorAt(i + 1, 0, c, n)
  BY <1>1, <1>3, Zenon
<1>6. /\ p + 1 < c => h_paging_increase(d) = CursorAt(i, p + 1, c, n)
      /\ ~(p + 1 < c) /\ n > 0 /\ i < n - 1 + ExtraScreens => h_paging_increase(d) = CursorAt(i + 1, 0, c, n)
      /\ ~(p + 1 < c) /\ ~(n > 0 /\ i < n - 1 + ExtraScreens) => h_paging_increase(d) = d
  BY <1>4, <1>5, Zenon DEF h_paging_increase
<1> QED
  BY <1>6 DEF d

(* h_paging_decrease on the fields.                                        *)
LEMMA Decreased ==
    ASSUME NEW i \in Int, NEW p \in Int, NEW c \in Int, NEW n \in Int
    PROVE  /\ h_paging_decrease(CursorAt(i, p, c, n)) =
                IF p # 0 THEN CursorAt(i, p - 1, c, n)
                ELSE IF i > 0 THEN CursorAt(i - 1, 255, c, n)
                ELSE CursorAt(i, p, c, n)
           /\ h_paging_can_decrease(CursorAt(i, p, c, n)) <=> p # 0 \/ i > 0
<1> DEFINE d == CursorAt(i, p, c, n)
<1>1. /\ d \in Cursors
      /\ d.itemIdx = i /\ d.pageIdx = p /\ d.pageCount = c /\ d.itemCount = n
  BY DEF Cursors, CursorAt
<1> HIDE DEF d
<1>2. i - 1 \in Int /\ p - 1 \in Int /\ 255 \in Int
  OBVIOUS
<1>3. /\ [d EXCEPT !.pageIdx = p - 1] = CursorAt(i, p - 1, c, n)
      /\ [d EXCEPT !.itemIdx = i - 1, !.pageIdx = 255] = CursorAt(i - 1, 255, c, n)
  <2>1. ASSUME NEW x \in Int, NEW y \in Int
        PROVE  /\ [d EXCEPT !.pageIdx = y] = CursorAt(d.itemIdx, y, d.pageCount, d.itemCount)
               /\ [d EXCEPT !.itemIdx = x, !.pageIdx = y] = CursorAt(x, y, d.pageCount, d.itemCount)
    BY <1>1, CursorChanged, ZenonT(30)
  <2> QED
    BY <1>1, <1>2, <2>1, Zenon
<1>4. /\ [d EXCEPT !.pageIdx = @ - 1] = CursorAt(i, p - 1, c, n)
      /\ [d EXCEPT !.itemIdx = @ - 1, !.pageIdx = LastPage] = CursorAt(i - 1, 255, c, n)
  BY <1>1, <1>3, Zenon DEF LastPage
<1>5. /\ p # 0 => h_paging_decrease(d) = CursorAt(i, p - 1, c, n)
      /\ p = 0 /\ i > 0 => h_paging_decrease(d) = CursorAt(i - 1, 255, c, n)
      /\ p = 0 /\ ~(i > 0) => h_paging_decrease(d) = d
  BY <1>1, <1>4, Zenon DEF h_paging_decrease
<1>6. h_paging_can_decrease(d) <=> p # 0 \/ i > 0
  BY <1>1, Zenon DEF h_paging_can_decrease
<1> QED
  BY <1>5, <1>6 DEF d

-----------------------------------------------------------------------------
(* A set of numbers has a least element.                                   *)
LEMMA LeastElement ==
    ASSUME NEW S \in SUBSET Nat, S # {}
    PROVE  \E m \in S : \A k \in S : m <= k
<1> DEFINE Smaller == {p \in Nat \X Nat : p[1] < p[2]}
<1>1. IsWellFoundedOn(Smaller, Nat)
  BY NatLessThanWellFounded, SMT DEF OpToRel
<1> HIDE DEF Smaller
<1>2. PICK m \in S : \A k \in S : ~(<<k, m>> \in Smaller)
  BY <1>1, WFMin
<1>3. ASSUME NEW k \in S, ~(m <= k) PROVE FALSE
  <2>1. m \in Nat /\ k \in Nat
    OBVIOUS
  <2>2. k < m
    BY <1>3, <2>1
  <2>3. <<k, m>> \in Smaller
    BY <2>1, <2>2 DEF Smaller
  <2> QED
    BY <1>2, <2>3
<1> QED
  BY <1>3

(* The number of pages of an item fits, and the item after a run of items  *)
(* without pages exists.                                                   *)
LEMMA PagesTyped ==
    ASSUME NEW pages, IsItems(pages), NEW k \in 1 .. Len(pages)
    PROVE  pages[k] \in 0 .. 254
  BY ElementOfSeq DEF IsItems

(* h_review_update_data skips items without pages and nothing else.        *)
LEMMA FirstShownFound ==
    ASSUME NEW pages, IsItems(pages), NEW item \in 0 .. Len(pages)
    PROVE  LET j == FirstShown(pages, item)
           IN  /\ j \in item .. Len(pages)
               /\ j = Len(pages) \/ pages[j + 1] > 0
               /\ \A k \in item .. j - 1 : pages[k + 1] = 0
<1> DEFINE S == {j \in item .. Len(pages) : j = Len(pages) \/ pages[j + 1] > 0}
<1>0. Len(pages) \in Nat /\ item \in Nat /\ item <= Len(pages)
  BY DEF IsItems
<1>1. S \in SUBSET Nat /\ Len(pages) \in S
  BY <1>0
<1>2. PICK m \in S : \A k \in S : m <= k
  BY <1>1, LeastElement
<1>m. m \in item .. Len(pages)
  OBVIOUS
<1>3. ASSUME NEW k \in item .. m - 1 PROVE pages[k + 1] = 0
  <2>1. k \in item .. Len(pages) /\ k < m /\ k + 1 \in 1 .. Len(pages)
    BY <1>0, <1>m
  <2>2. k \notin S
    BY <1>0, <1>2, <1>m, <2>1
  <2> DEFINE n == pages[k + 1]
  <2>3. n \in 0 .. 254 /\ ~(n > 0)
    BY <2>1, <2>2, PagesTyped
  <2> HIDE DEF n
  <2>4. n = 0
    BY <2>3
  <2> QED
    BY <2>4 DEF n
<1>4. \E j \in item .. Len(pages) :
         /\ j = Len(pages) \/ pages[j + 1] > 0
         /\ \A k \in item .. j - 1 : pages[k + 1] = 0
  BY <1>2, <1>3
<1> HIDE DEF S
<1> QED
  BY <1>4 DEF FirstShown

(* A page index is left alone, or capped to the last page.                 *)
LEMMA Capped ==
    ASSUME NEW p \in 0 .. 255, NEW c \in 1 .. 254
    PROVE  /\ p < c => CappedPage(p, c) = p
           /\ p > c => CappedPage(p, c) = c - 1
           /\ CappedPage(p, c) \in 0 .. 254
  BY DEF CappedPage

(* Past the last item the application has no data, and the cursor stays.   *)
LEMMA UpdateBehind ==
    ASSUME NEW pages, IsItems(pages), NEW intro \in 0 .. 3, NEW p, NEW c, NEW n
    PROVE  UpdateItem(CursorAt(Len(pages) + intro, p, c, n), pages, intro) =
             [err |-> "no_data",
              vd  |-> CursorAt(Len(pages) + intro, p, c, Len(pages) + intro)]
<1> DEFINE len == Len(pages)
           d == CursorAt(len + intro, p, c, n)
<1>1. len \in 1 .. 128
  BY DEF IsItems
<1> HIDE DEF len
<1>2. (len + intro) - intro = len /\ len \in 0 .. len
  BY <1>1
<1>3. FirstShown(pages, len) = len
  <2>1. FirstShown(pages, len) \in len .. len
    BY <1>2, FirstShownFound DEF len
  <2> QED
    BY <1>1, <2>1
<1>4. d.itemIdx - intro = len /\ d.pageIdx = p /\ d.pageCount = c
  BY <1>2, CursorFields
<1> HIDE DEF d
<1>5. UpdateItem(d, pages, intro) =
             [err |-> "no_data",
              vd  |-> [itemIdx |-> len + intro, pageIdx |-> p, pageCount |-> c, itemCount |-> len + intro]]
  BY <1>3, <1>4 DEF UpdateItem, len
<1> QED
  BY <1>5 DEF CursorAt, len, d

(* u is the answer at item j, the first one with pages from i on; p is the *)
(* page asked for.                                                         *)
FoundAt(pages, intro, i, p, u, j) ==
    /\ pages[j + 1] \in 1 .. 254
    /\ \A k \in i .. j - 1 : pages[k + 1] = 0
    /\ u = [err |-> "ok",
            vd  |-> CursorAt(j + intro, IF j = i THEN CappedPage(p, pages[j + 1]) ELSE 0,
                             pages[j + 1], Len(pages) + intro + 1)]

(* Before that, the cursor comes to an item with pages and to a page of it: *)
(* its own if it had one, else the first of the item found.                *)
LEMMA UpdateInside ==
    ASSUME NEW pages, IsItems(pages), NEW intro \in 0 .. 3,
           NEW i \in 0 .. Len(pages) - 1, NEW p, NEW c, NEW n
    PROVE  \E j \in i .. Len(pages) - 1 :
             FoundAt(pages, intro, i, p, UpdateItem(CursorAt(i + intro, p, c, n), pages, intro), j)
<1> DEFINE j == FirstShown(pages, i)
           d == CursorAt(i + intro, p, c, n)
<1>1. Len(pages) \in 1 .. 128 /\ i \in 0 .. Len(pages) /\ i < Len(pages) /\ (i + intro) - intro = i
  BY DEF IsItems
<1>2. /\ j \in i .. Len(pages)
      /\ j = Len(pages) \/ pages[j + 1] > 0
      /\ \A k \in i .. j - 1 : pages[k + 1] = 0
  BY <1>1, FirstShownFound
<1>3. d.itemIdx - intro = i /\ d.pageIdx = p /\ d.pageCount = c
  BY <1>1, CursorFields
<1> HIDE DEF d
<1>4. UpdateItem(d, pages, intro) =
        IF j = Len(pages)
          THEN [err |-> "no_data",
                vd  |-> [itemIdx |-> j + intro, pageIdx |-> IF j = i THEN p ELSE 0,
                         pageCount |-> IF j = i THEN c ELSE 0,
                         itemCount |-> Len(pages) + intro]]
          ELSE [err |-> "ok",
                vd  |-> [itemIdx   |-> j + intro,
                         pageIdx   |-> CappedPage(IF j = i THEN p ELSE 0, pages[j + 1]),
                         pageCount |-> pages[j + 1],
                         itemCount |-> Len(pages) + intro + 1]]
  BY <1>3 DEF UpdateItem
<1> HIDE DEF j
<1>5. j # Len(pages)
  <2> SUFFICES ASSUME j = Len(pages) PROVE FALSE
    OBVIOUS
  <2>1. Len(pages) - 1 \in i .. j - 1 /\ (Len(pages) - 1) + 1 = Len(pages)
    BY <1>1
  <2>2. pages[Len(pages)] = 0
    BY <1>2, <2>1
  <2> QED
    BY <2>2 DEF IsItems
<1>6. j \in i .. Len(pages) - 1 /\ j + 1 \in 1 .. Len(pages)
  BY <1>1, <1>2, <1>5
<1>7. pages[j + 1] \in 1 .. 254
  <2>1. pages[j + 1] \in 0 .. 254 /\ pages[j + 1] > 0
    BY <1>2, <1>5, <1>6, PagesTyped
  <2> QED
    BY <2>1
<1>8. CappedPage(0, pages[j + 1]) = 0
  <2>1. \A m \in 1 .. 254 : CappedPage(0, m) = 0
    BY DEF CappedPage
  <2> QED
    BY <1>7, <2>1
<1>9. CappedPage(IF j = i THEN p ELSE 0, pages[j + 1])
        = IF j = i THEN CappedPage(p, pages[j + 1]) ELSE 0
  BY <1>8
<1>10. UpdateItem(d, pages, intro) =
          [err |-> "ok",
           vd  |-> CursorAt(j + intro, IF j = i THEN CappedPage(p, pages[j + 1]) ELSE 0,
                            pages[j + 1], Len(pages) + intro + 1)]
  BY <1>4, <1>5, <1>9 DEF CursorAt
<1>11. FoundAt(pages, intro, i, p, UpdateItem(d, pages, intro), j)
  BY <1>2, <1>7, <1>10 DEF FoundAt
<1> QED
  BY <1>6, <1>11 DEF d

-----------------------------------------------------------------------------
(* The order of the pages.  ItemsOf is the number of items, CountUpTo  *)
(* that of the pages up to a page, CountOf that of all pages.              *)
ItemsOf(pages) == Len(pages)

CountUpTo(pages, i, p) == Cardinality(PagesUpTo(pages, i, p))

CountOf(pages) == Cardinality(PagesOf(pages))

(* A review has up to 128 items.                                           *)
LEMMA ItemsOfTyped ==
    ASSUME NEW pages, IsItems(pages)
    PROVE  /\ ItemsOf(pages) = Len(pages) /\ ItemsOf(pages) \in 1 .. 128
           /\ ItemsOf(pages) \in Int /\ 0 \in Int
  BY DEF IsItems, ItemsOf

(* The order of the pages.                                                 *)
LEMMA PageIs ==
    ASSUME NEW pages, IsItems(pages), NEW pg \in PagesOf(pages)
    PROVE  /\ pg[1] \in 0 .. ItemsOf(pages) - 1 /\ pg[2] \in 0 .. 253
           /\ pg[2] < pages[pg[1] + 1] /\ pg = <<pg[1], pg[2]>>
           /\ pg[1] \in Int /\ pg[2] \in Int /\ 0 <= pg[2]
<1>0. PICK i \in 0 .. ItemsOf(pages) - 1 : pg \in {i} \X (0 .. pages[i + 1] - 1)
  BY DEF PagesOf, ItemsOf
<1>1. /\ pg[1] \in 0 .. ItemsOf(pages) - 1 /\ pg[2] \in 0 .. 253
      /\ pg[2] < pages[pg[1] + 1] /\ pg = <<pg[1], pg[2]>>
  <2> DEFINE m == pages[i + 1]
  <2>1. pg[1] = i /\ pg[2] \in 0 .. m - 1 /\ pg = <<pg[1], pg[2]>> /\ i \in 0 .. ItemsOf(pages) - 1
    BY <1>0 DEF ItemsOf
  <2>2. m \in 0 .. 254
    <3>1. i + 1 \in 1 .. ItemsOf(pages)
      BY <2>1 DEF ItemsOf
    <3> QED
      BY <3>1, PagesTyped DEF ItemsOf
  <2> HIDE DEF m
  <2>3. \A b \in 0 .. m - 1 : b \in 0 .. 253 /\ b < m
    BY <2>2
  <2> QED
    BY <2>1, <2>3 DEF m
<1>2. \A x \in 0 .. ItemsOf(pages) - 1, y \in 0 .. 253 : x \in Int /\ y \in Int /\ 0 <= y
  BY ItemsOfTyped
<1> QED
  BY <1>1, <1>2

(* The pages before a page are before a later one.                         *)
LEMMA UpToSmaller ==
    ASSUME NEW pages, IsItems(pages),
           NEW i \in Int, NEW p \in Int, NEW j \in Int, NEW q \in Int, i < j \/ (i = j /\ p <= q)
    PROVE  PagesUpTo(pages, i, p) \subseteq PagesUpTo(pages, j, q)
<1> SUFFICES ASSUME NEW pg \in PagesOf(pages), pg[1] < i \/ (pg[1] = i /\ pg[2] < p)
             PROVE  pg[1] < j \/ (pg[1] = j /\ pg[2] < q)
  BY DEF PagesUpTo
<1> DEFINE a == pg[1]
           b == pg[2]
<1>1. a \in 0 .. ItemsOf(pages) - 1 /\ b \in 0 .. 253
  BY PageIs
<1>2. a \in Int /\ b \in Int /\ 0 <= b
  BY PageIs
<1>c. (a < i \/ (a = i /\ b < p))
  OBVIOUS
<1> HIDE DEF a, b
<1>3. a < j \/ (a = j /\ b < q)
  BY <1>2, <1>c
<1> QED
  BY <1>3 DEF a, b

(* Between a page and the next of its item there is none.                  *)
LEMMA UpToNext ==
    ASSUME NEW pages, IsItems(pages), NEW i \in Int, NEW p \in Int
    PROVE  PagesUpTo(pages, i, p + 1) \subseteq PagesUpTo(pages, i, p) \cup {<<i, p>>}
<1> SUFFICES ASSUME NEW pg \in PagesOf(pages), pg[1] < i \/ (pg[1] = i /\ pg[2] < p + 1)
             PROVE  pg[1] < i \/ (pg[1] = i /\ pg[2] < p) \/ pg = <<i, p>>
  BY DEF PagesUpTo
<1> DEFINE a == pg[1]
           b == pg[2]
<1>1. a \in 0 .. ItemsOf(pages) - 1 /\ b \in 0 .. 253 /\ pg = <<a, b>>
  BY PageIs
<1>2. a \in Int /\ b \in Int /\ 0 <= b
  BY PageIs
<1>c. (a < i \/ (a = i /\ b < p + 1))
  OBVIOUS
<1> HIDE DEF a, b
<1>3. a < i \/ (a = i /\ b < p) \/ (a = i /\ b = p)
  BY <1>2, <1>c
<1> QED
  BY <1>1, <1>3 DEF a, b

(* ItemsOf(pages) without pages add none.                                           *)
LEMMA UpToGap ==
    ASSUME NEW pages, IsItems(pages), NEW i \in Int, NEW j \in Int,
           \A k \in i .. j - 1 : pages[k + 1] = 0
    PROVE  PagesUpTo(pages, j, 0) \subseteq PagesUpTo(pages, i, 0)
<1> SUFFICES ASSUME NEW pg \in PagesOf(pages), pg[1] < j \/ (pg[1] = j /\ pg[2] < 0)
             PROVE  pg[1] < i
  BY DEF PagesUpTo
<1> DEFINE a == pg[1]
           b == pg[2]
<1>1. a \in 0 .. ItemsOf(pages) - 1 /\ b \in 0 .. 253 /\ b < pages[a + 1]
  BY PageIs
<1>2. a \in Int /\ b \in Int /\ 0 <= b
  BY PageIs
<1>c. (a < j \/ (a = j /\ b < 0))
  OBVIOUS
<1>3. ~(a \in i .. j - 1)
  <2>1. ASSUME a \in i .. j - 1 PROVE FALSE
    <3>1. pages[a + 1] = 0
      BY <2>1
    <3>2. b < 0
      BY <1>1, <3>1
    <3> HIDE DEF a, b
    <3> QED
      BY <1>2, <3>2
  <2> QED
    BY <2>1
<1> HIDE DEF a, b
<1>4. a < i
  BY <1>2, <1>c, <1>3
<1> QED
  BY <1>4 DEF a

(* After the last page of an item comes the item behind it.                *)
LEMMA UpToItem ==
    ASSUME NEW pages, IsItems(pages), NEW i \in Int, NEW m \in Int, m = pages[i + 1]
    PROVE  PagesUpTo(pages, i + 1, 0) \subseteq PagesUpTo(pages, i, m)
<1> SUFFICES ASSUME NEW pg \in PagesOf(pages), pg[1] < i + 1 \/ (pg[1] = i + 1 /\ pg[2] < 0)
             PROVE  pg[1] < i \/ (pg[1] = i /\ pg[2] < m)
  BY DEF PagesUpTo
<1> DEFINE a == pg[1]
           b == pg[2]
<1>1. a \in 0 .. ItemsOf(pages) - 1 /\ b \in 0 .. 253 /\ b < pages[a + 1]
  BY PageIs
<1>2. a \in Int /\ b \in Int /\ 0 <= b
  BY PageIs
<1>c. (a < i + 1 \/ (a = i + 1 /\ b < 0))
  OBVIOUS
<1>3. a = i => b < m
  BY <1>1
<1> HIDE DEF a, b
<1>4. a < i \/ (a = i /\ b < m)
  BY <1>2, <1>c, <1>3
<1> QED
  BY <1>4 DEF a, b

(* No page is before the first, all are before the end.                    *)
LEMMA UpToEnds ==
    ASSUME NEW pages, IsItems(pages)
    PROVE  /\ PagesUpTo(pages, 0, 0) = {}
           /\ PagesOf(pages) \subseteq PagesUpTo(pages, ItemsOf(pages), 0)
<1>1. ASSUME NEW pg \in PagesOf(pages)
      PROVE  pg[1] < ItemsOf(pages) /\ ~(pg[1] < 0 \/ (pg[1] = 0 /\ pg[2] < 0))
  <2> DEFINE a == pg[1]
             b == pg[2]
  <2>1. a \in 0 .. ItemsOf(pages) - 1 /\ b \in 0 .. 253 /\ ItemsOf(pages) \in 1 .. 128
    BY PageIs, ItemsOfTyped
  <2> HIDE DEF a, b
  <2>2. a < ItemsOf(pages) /\ ~(a < 0 \/ (a = 0 /\ b < 0))
    BY <2>1
  <2> QED
    BY <2>2 DEF a, b
<1> QED
  BY <1>1 DEF PagesUpTo

(* Pages behind the last one of an item count as the next item's first.    *)
LEMMA UpToItemIs ==
    ASSUME NEW pages, IsItems(pages), NEW i \in Int, NEW p \in Int, NEW m \in Int, m = pages[i + 1], m <= p
    PROVE  PagesUpTo(pages, i, p) = PagesUpTo(pages, i + 1, 0)
<1> DEFINE x == i + 1
<1>1. x \in Int /\ 0 \in Int /\ i < x
  OBVIOUS
<1>2. PagesUpTo(pages, x, 0) \subseteq PagesUpTo(pages, i, m)
  BY UpToItem
<1> HIDE DEF x
<1>3. PagesUpTo(pages, i, p) \subseteq PagesUpTo(pages, x, 0)
  BY <1>1, UpToSmaller
<1>4. PagesUpTo(pages, i, m) \subseteq PagesUpTo(pages, i, p)
  BY UpToSmaller
<1> QED
  BY <1>2, <1>3, <1>4 DEF x

(* There are finitely many pages, so they can be counted.                  *)
LEMMA UpToFinite ==
    ASSUME NEW pages, IsItems(pages)
    PROVE  /\ IsFiniteSet(PagesOf(pages)) /\ CountOf(pages) \in Nat
           /\ \A i, p : IsFiniteSet(PagesUpTo(pages, i, p)) /\ CountUpTo(pages, i, p) \in Nat
              /\ CountUpTo(pages, i, p) <= CountOf(pages)
<1>1. IsFiniteSet((0 .. ItemsOf(pages) - 1) \X (0 .. 253))
  <2> DEFINE last == ItemsOf(pages) - 1
  <2>1. last \in Int /\ 253 \in Int /\ 0 \in Int
    BY ItemsOfTyped
  <2> HIDE DEF last
  <2>2. IsFiniteSet(0 .. last)
    BY <2>1, FS_Interval
  <2>3. IsFiniteSet(0 .. 253)
    BY <2>1, FS_Interval
  <2> QED
    BY <2>2, <2>3, FS_Product DEF last
<1>2. PagesOf(pages) \subseteq (0 .. ItemsOf(pages) - 1) \X (0 .. 253)
  <2>1. \A pg \in PagesOf(pages) : pg \in (0 .. ItemsOf(pages) - 1) \X (0 .. 253)
    <3> SUFFICES ASSUME NEW pg \in PagesOf(pages) PROVE pg \in (0 .. ItemsOf(pages) - 1) \X (0 .. 253)
      OBVIOUS
    <3>1. pg[1] \in 0 .. ItemsOf(pages) - 1 /\ pg[2] \in 0 .. 253 /\ pg = <<pg[1], pg[2]>>
      BY PageIs
    <3> QED
      BY <3>1
  <2> QED
    BY <2>1
<1>3. IsFiniteSet(PagesOf(pages))
  BY <1>1, <1>2, FS_Subset
<1>4. CountOf(pages) \in Nat
  BY <1>3, FS_CardinalityType DEF CountOf
<1>5. \A i, p : PagesUpTo(pages, i, p) \subseteq PagesOf(pages)
  BY DEF PagesUpTo
<1>6. \A i, p : IsFiniteSet(PagesUpTo(pages, i, p)) /\ CountUpTo(pages, i, p) \in Nat
              /\ CountUpTo(pages, i, p) <= CountOf(pages)
  BY <1>3, <1>5, FS_Subset, FS_CardinalityType DEF CountUpTo, CountOf
<1> QED
  BY <1>3, <1>4, <1>6

(* Page p of item i, which has m.                                          *)
IsPage(pages, i, p, m) ==
    /\ i \in 0 .. ItemsOf(pages) - 1 /\ m \in 1 .. 254 /\ p \in 0 .. m - 1
    /\ m = pages[i + 1]

(* A page that exists is one more.                                         *)
OneMorePage(pages, i, p) ==
    /\ <<i, p>> \in PagesOf(pages)
    /\ PagesUpTo(pages, i, p + 1) = PagesUpTo(pages, i, p) \cup {<<i, p>>}
    /\ CountUpTo(pages, i, p + 1) = CountUpTo(pages, i, p) + 1
    /\ CountUpTo(pages, i, p) \in Nat /\ CountOf(pages) \in Nat
    /\ CountUpTo(pages, i, p) < CountOf(pages)

LEMMA UpToCount ==
    ASSUME NEW pages, IsItems(pages), NEW i, NEW p, NEW m, IsPage(pages, i, p, m)
    PROVE  OneMorePage(pages, i, p)
<1>1. i \in 0 .. ItemsOf(pages) - 1 /\ m \in 1 .. 254 /\ p \in 0 .. m - 1 /\ m = pages[i + 1]
  BY DEF IsPage
<1>2. i \in Int /\ p \in Int
  BY <1>1, ItemsOfTyped
<1> DEFINE y == p + 1
<1>3. y \in Int /\ p <= y /\ ~(p < p) /\ p < y /\ ~(i < i)
  BY <1>2
<1>4. <<i, p>> \in PagesOf(pages)
  BY <1>1 DEF PagesOf, ItemsOf
<1>5. PagesUpTo(pages, i, y) \subseteq PagesUpTo(pages, i, p) \cup {<<i, p>>}
  BY <1>2, UpToNext
<1> HIDE DEF y
<1>6. <<i, p>> \in PagesUpTo(pages, i, y) /\ <<i, p>> \notin PagesUpTo(pages, i, p)
  BY <1>3, <1>4 DEF PagesUpTo
<1>7. PagesUpTo(pages, i, p) \subseteq PagesUpTo(pages, i, y)
  BY <1>2, <1>3, UpToSmaller
<1>8. PagesUpTo(pages, i, y) = PagesUpTo(pages, i, p) \cup {<<i, p>>}
  BY <1>5, <1>6, <1>7
<1>9. CountUpTo(pages, i, y) = CountUpTo(pages, i, p) + 1
  <2>1. IsFiniteSet(PagesUpTo(pages, i, p))
    BY UpToFinite
  <2> QED
    BY <1>6, <1>8, <2>1, FS_AddElement DEF CountUpTo
<1>10. CountUpTo(pages, i, p) \in Nat /\ CountUpTo(pages, i, y) <= CountOf(pages) /\ CountOf(pages) \in Nat
  BY UpToFinite
<1>11. CountUpTo(pages, i, p) < CountOf(pages)
  <2> DEFINE a == CountUpTo(pages, i, p)
             b == CountUpTo(pages, i, y)
             t == CountOf(pages)
  <2>1. b = a + 1 /\ a \in Nat /\ b <= t /\ t \in Nat
    BY <1>9, <1>10
  <2> HIDE DEF a, b, t
  <2>2. a < t
    BY <2>1
  <2> QED
    BY <2>2 DEF a, t
<1> QED
  BY <1>4, <1>8, <1>9, <1>10, <1>11 DEF OneMorePage, y

(* No page is counted before the first, and all are before the end.        *)
LEMMA CountEnds ==
    ASSUME NEW pages, IsItems(pages)
    PROVE  /\ CountUpTo(pages, 0, 0) = 0
           /\ PagesUpTo(pages, ItemsOf(pages), 0) = PagesOf(pages)
           /\ CountUpTo(pages, ItemsOf(pages), 0) = CountOf(pages)
<1>1. PagesUpTo(pages, 0, 0) = {}
  BY UpToEnds
<1>2. PagesUpTo(pages, ItemsOf(pages), 0) = PagesOf(pages)
  <2>1. PagesUpTo(pages, ItemsOf(pages), 0) \subseteq PagesOf(pages)
    BY DEF PagesUpTo
  <2> QED
    BY <2>1, UpToEnds
<1> QED
  BY <1>1, <1>2, FS_EmptySet DEF CountUpTo, CountOf

-----------------------------------------------------------------------------
(* Asked for page p of item i, the update comes to page q of item j, which *)
(* has m: the page asked for, the last one of the item if the index is too *)
(* large, or the first page behind an item without pages.                  *)
Comes(pages, i, p, j, q, m) ==
    /\ IsPage(pages, j, q, m)
    /\ i <= j
    /\ j = i => q = IF p < m THEN p ELSE m - 1
    /\ j # i => q = 0 /\ \A k \in i .. j - 1 : pages[k + 1] = 0

Updated(pages, intro, i, p, u, j, q, m) ==
    /\ Comes(pages, i, p, j, q, m)
    /\ u = [err |-> "ok", vd |-> CursorAt(j + intro, q, m, ItemsOf(pages) + intro + 1)]

(* h_review_update_data, started at an item, ends at a page.               *)
LEMMA UpdateComes ==
    ASSUME NEW pages, IsItems(pages), NEW intro \in 0 .. 3,
           NEW i \in 0 .. ItemsOf(pages) - 1, NEW p \in 0 .. 255, NEW c, NEW n,
           p = pages[i + 1] => p = 0
    PROVE  \E j, q, m :
             Updated(pages, intro, i, p, UpdateItem(CursorAt(i + intro, p, c, n), pages, intro), j, q, m)
<1> DEFINE u == UpdateItem(CursorAt(i + intro, p, c, n), pages, intro)
<1>0. i \in 0 .. Len(pages) - 1
  BY DEF ItemsOf
<1>1. PICK j \in i .. Len(pages) - 1 : FoundAt(pages, intro, i, p, u, j)
  BY <1>0, UpdateInside
<1> HIDE DEF u
<1> DEFINE m == pages[j + 1]
           q == IF j = i THEN CappedPage(p, m) ELSE 0
<1>2. /\ m \in 1 .. 254 /\ \A k \in i .. j - 1 : pages[k + 1] = 0
      /\ u = [err |-> "ok", vd |-> CursorAt(j + intro, q, m, ItemsOf(pages) + intro + 1)]
  BY <1>1 DEF FoundAt, ItemsOf
<1>3. i <= j /\ j \in 0 .. ItemsOf(pages) - 1
  <2>1. Len(pages) = ItemsOf(pages) /\ ItemsOf(pages) \in 1 .. 128
    BY ItemsOfTyped
  <2> QED
    BY <2>1
<1>m. m = pages[j + 1] /\ (j = i => m = pages[i + 1])
  OBVIOUS
<1>5. j # i => q = 0
  OBVIOUS
<1>q. j = i => q = CappedPage(p, m)
  OBVIOUS
<1> HIDE DEF m, q
<1>4. j = i => q = IF p < m THEN p ELSE m - 1
  <2> SUFFICES ASSUME j = i PROVE CappedPage(p, m) = IF p < m THEN p ELSE m - 1
    BY <1>q
  <2>1. p = m => p = 0
    BY <1>m
  <2>2. p < m \/ p > m
    BY <1>2, <2>1
  <2> QED
    BY <1>2, <2>2, Capped
<1>6. q \in 0 .. m - 1
  <2>1. (IF p < m THEN p ELSE m - 1) \in 0 .. m - 1 /\ 0 \in 0 .. m - 1
    BY <1>2
  <2> QED
    BY <1>4, <1>5, <2>1
<1>7. Comes(pages, i, p, j, q, m)
  BY <1>2, <1>3, <1>4, <1>5, <1>6, <1>m DEF IsPage, Comes
<1>8. Updated(pages, intro, i, p, u, j, q, m)
  BY <1>2, <1>7 DEF Updated
<1> QED
  BY <1>8 DEF u

(* No page lies between the one asked for and the one reached; a page      *)
(* index that is too large comes to the page before it.                    *)
LEMMA ComesTo ==
    ASSUME NEW pages, IsItems(pages), NEW i \in 0 .. ItemsOf(pages) - 1, NEW p \in 0 .. 255,
           NEW j, NEW q, NEW m, Comes(pages, i, p, j, q, m)
    PROVE  \/ PagesUpTo(pages, j, q) = PagesUpTo(pages, i, p)
           \/ j = i /\ p >= m /\ PagesUpTo(pages, j, q + 1) = PagesUpTo(pages, i, p)
<1>1. /\ j \in Int /\ q \in Int /\ i \in Int /\ m \in Int /\ p \in Int /\ 0 <= p
      /\ q \in 0 .. m - 1 /\ m = pages[j + 1] /\ i <= j
  <2>1. j \in 0 .. ItemsOf(pages) - 1 /\ m \in 1 .. 254 /\ q \in 0 .. m - 1 /\ m = pages[j + 1] /\ i <= j
    BY DEF Comes, IsPage
  <2>2. ItemsOf(pages) \in Int
    BY ItemsOfTyped
  <2> QED
    BY <2>1, <2>2
<1>3. CASE j = i /\ p < m
  BY <1>3 DEF Comes
<1>4. CASE j = i /\ ~(p < m)
  <2>1. q = m - 1
    BY <1>4 DEF Comes
  <2>2. q + 1 = m /\ m <= p /\ m <= m
    BY <1>1, <1>4, <2>1
  <2>3. PagesUpTo(pages, i, p) = PagesUpTo(pages, i + 1, 0) /\ PagesUpTo(pages, i, m) = PagesUpTo(pages, i + 1, 0)
    BY <1>1, <1>4, <2>2, UpToItemIs
  <2> QED
    BY <1>1, <1>4, <2>2, <2>3
<1>5. CASE j # i
  <2>1. q = 0 /\ \A k \in i .. j - 1 : pages[k + 1] = 0
    BY <1>5 DEF Comes
  <2>2. i < j /\ 0 \in Int
    BY <1>1, <1>5
  <2>3. PagesUpTo(pages, i, p) \subseteq PagesUpTo(pages, j, 0)
    BY <1>1, <2>2, UpToSmaller
  <2>4. PagesUpTo(pages, j, 0) \subseteq PagesUpTo(pages, i, 0)
    BY <1>1, <2>1, UpToGap
  <2>5. PagesUpTo(pages, i, 0) \subseteq PagesUpTo(pages, i, p)
    BY <1>1, <2>2, UpToSmaller
  <2> QED
    BY <2>1, <2>3, <2>4, <2>5
<1> QED
  BY <1>3, <1>4, <1>5

=============================================================================
