--------------------------- MODULE InspectProofs ---------------------------
(***************************************************************************)
(* Theorems about Inspect, for every tree of items that is no deeper than  *)
(* the trace has room for: every list knows through which items it was     *)
(* entered, and the way out leads back to where the user came from.  And   *)
(* about EvmItems, for every message and every length of a page: the pages *)
(* of an item, read one by one, are its text, and what is signed has been  *)
(* read.                                                                   *)
(***************************************************************************)
EXTENDS Inspect, EvmItems, NanoPagingProofs

(* The trace has room for a way to the deepest list: the guard of          *)
(* h_inspect, level < MAX_DEPTH, would let the user go one level further.  *)
InsideTrace == Len(Tree) <= MAX_DEPTH + 1

(* h_inspect and h_back keep the index of the page: the first item of a    *)
(* list has the page that its item was entered on, and an item has the     *)
(* last page of the list that it leads to.                                 *)
PagesFit ==
    /\ \A d \in 2 .. Len(Tree) - 1 : \A i \in 1 .. Len(Tree[d]) :
         Tree[d][i].nested => Tree[d][i].pages <= Tree[d + 1][1].pages
    /\ \A d \in 3 .. Len(Tree) - 1 : \A i \in 1 .. Len(Tree[d]) :
         Tree[d][i].nested => Tree[d + 1][Len(Tree[d + 1])].pages <= Tree[d][i].pages

-----------------------------------------------------------------------------
(* The lists and their cursor.                                             *)

IsLevel(l) == l \in Nat /\ l + 2 <= Len(Tree)

(* A cursor that stands at an item of the list at level l, and says how    *)
(* many pages it has.                                                      *)
StandsIn(l, d) ==
    /\ d \in Cursors
    /\ d.itemCount = Len(ListAt(l))
    /\ d.itemIdx \in 0 .. Len(ListAt(l)) - 1
    /\ d.pageCount = ListAt(l)[d.itemIdx + 1].pages

HasPage(d) == d.pageIdx \in 0 .. d.pageCount - 1

(* The items of a list.                                                    *)
LEMMA ListTyped ==
    ASSUME NEW d \in 1 .. Len(Tree)
    PROVE  /\ Len(Tree[d]) \in 1 .. 128
           /\ \A i \in 1 .. Len(Tree[d]) : Tree[d][i].pages \in 1 .. 254
<1>1. /\ Tree[d] \in Seq(Item) /\ Len(Tree[d]) \in 1 .. 128
  BY TreeAssumption
<1>2. ASSUME NEW i \in 1 .. Len(Tree[d]) PROVE Tree[d][i].pages \in 1 .. 254
  <2>1. Tree[d][i] \in Item
    BY <1>1, ElementOfSeq
  <2> QED BY <2>1 DEF Item
<1> QED BY <1>1, <1>2

(* Those of the list at a level.                                           *)
LEMMA LevelTyped ==
    ASSUME NEW l, IsLevel(l)
    PROVE  /\ Len(ListAt(l)) \in 1 .. 128
           /\ \A i \in 1 .. Len(ListAt(l)) : ListAt(l)[i].pages \in 1 .. 254
<1>1. l + 2 \in 1 .. Len(Tree)
  BY TreeAssumption DEF IsLevel
<1> QED BY <1>1, ListTyped DEF ListAt

(* A fresh look at the item leaves item and page as they are.              *)
LEMMA UpdateStands ==
    ASSUME NEW l, IsLevel(l), NEW d \in Cursors, d.itemIdx \in 0 .. Len(ListAt(l)) - 1
    PROVE  LET e == h_inspect_update_data(l, d)
           IN  /\ StandsIn(l, e)
               /\ e.itemIdx = d.itemIdx /\ e.pageIdx = d.pageIdx
<1> DEFINE list == ListAt(l)
<1>1. Len(list) \in 1 .. 128 /\ \A i \in 1 .. Len(list) : list[i].pages \in 1 .. 254
  BY LevelTyped
<1>2. d.itemIdx + 1 \in 1 .. Len(list) /\ d.itemIdx < Len(list)
  BY <1>1
<1> DEFINE n == Len(list)
           m == list[d.itemIdx + 1].pages
<1>3. n \in Int /\ m \in Int
  <2>1. m \in 1 .. 254
    BY <1>1, <1>2, Zenon
  <2>2. n \in 1 .. 128
    BY <1>1
  <2>3. \A x \in 1 .. 254 : x \in Int
    OBVIOUS
  <2>4. \A x \in 1 .. 128 : x \in Int
    OBVIOUS
  <2> HIDE DEF m, n
  <2> QED BY <2>1, <2>2, <2>3, <2>4, SMTT(30)
<1>4. h_inspect_update_data(l, d) = [d EXCEPT !.itemCount = n, !.pageCount = m]
  BY <1>2 DEF h_inspect_update_data
<1> HIDE DEF n, m
<1>5. LET e == [d EXCEPT !.itemCount = n, !.pageCount = m]
      IN  /\ e \in Cursors /\ e.itemCount = n /\ e.pageCount = m
          /\ e.itemIdx = d.itemIdx /\ e.pageIdx = d.pageIdx
  BY <1>3 DEF Cursors
<1> QED BY <1>4, <1>5 DEF StandsIn, n, m

(* A step forward, or back, in the list.                                   *)
LEMMA StepStands ==
    ASSUME NEW l, IsLevel(l), NEW d, StandsIn(l, d)
    PROVE  /\ h_decrease(d) \in Cursors /\ h_decrease(d).itemIdx \in 0 .. Len(ListAt(l)) - 1
           /\ h_increase(d) \in Cursors /\ h_increase(d).itemIdx \in 0 .. Len(ListAt(l)) - 1
           /\ HasPage(d) => /\ HasPage(h_inspect_update_data(l, h_decrease(d)))
                            /\ HasPage(h_inspect_update_data(l, h_increase(d)))
<1> DEFINE n == Len(ListAt(l))
<1>1. /\ d \in Cursors /\ d.itemIdx \in 0 .. n - 1 /\ d.itemCount = n /\ n \in 1 .. 128
      /\ ExtraScreens = 0
  BY LevelTyped, TreeAssumption DEF StandsIn
<1> HIDE DEF n
<1>2. /\ d.itemIdx \in Int /\ d.pageIdx \in Int /\ d.pageCount \in Int /\ d.itemCount \in Int
  BY <1>1 DEF Cursors
<1>3. \/ h_decrease(d) = [d EXCEPT !.pageIdx = d.pageIdx - 1] /\ d.pageIdx # 0
      \/ h_decrease(d) = [d EXCEPT !.itemIdx = d.itemIdx - 1, !.pageIdx = 0] /\ d.itemIdx > 0
      \/ h_decrease(d) = d
  BY <1>1, Zenon DEF h_decrease
<1>4. \/ h_increase(d) = [d EXCEPT !.pageIdx = d.pageIdx + 1] /\ d.pageIdx + 1 < d.pageCount
      \/ h_increase(d) = [d EXCEPT !.itemIdx = d.itemIdx + 1, !.pageIdx = 0] /\ d.itemIdx < n - 1
      \/ h_increase(d) = d
  <2>1. HasNextItem(d) => d.itemIdx < n - 1
    BY <1>1, <1>2 DEF HasNextItem
  <2>2. HasNextPage(d) => d.pageIdx + 1 < d.pageCount
    BY DEF HasNextPage
  <2>3. \/ h_increase(d) = [d EXCEPT !.pageIdx = d.pageIdx + 1] /\ HasNextPage(d)
        \/ h_increase(d) = [d EXCEPT !.itemIdx = d.itemIdx + 1, !.pageIdx = 0] /\ HasNextItem(d)
        \/ h_increase(d) = d
    BY <1>1, Zenon DEF h_increase, h_paging_increase
  <2> QED BY <2>1, <2>2, <2>3, Zenon
<1>5. ASSUME NEW x \in Int
      PROVE  LET e == [d EXCEPT !.pageIdx = x]
             IN  e \in Cursors /\ e.itemIdx = d.itemIdx /\ e.pageIdx = x
  BY <1>1 DEF Cursors
<1>6. ASSUME NEW x \in Int
      PROVE  LET e == [d EXCEPT !.itemIdx = x, !.pageIdx = 0]
             IN  e \in Cursors /\ e.itemIdx = x /\ e.pageIdx = 0
  <2> DEFINE e == [d EXCEPT !.itemIdx = x, !.pageIdx = 0]
  <2>1. ASSUME NEW y \in Int
        PROVE  [d EXCEPT !.itemIdx = x, !.pageIdx = y] = CursorAt(x, y, d.pageCount, d.itemCount)
    BY <1>1, CursorChanged
  <2>2. 0 \in Int
    OBVIOUS
  <2>3. e = CursorAt(x, 0, d.pageCount, d.itemCount)
    BY <2>1, <2>2, Zenon
  <2> HIDE DEF e
  <2>4. e \in Cursors /\ e.itemIdx = x /\ e.pageIdx = 0
    BY <1>2, <2>3 DEF CursorAt, Cursors
  <2> QED BY <2>4 DEF e
<1>7. ASSUME NEW e \in Cursors, e.itemIdx \in 0 .. n - 1,
             \/ e.itemIdx = d.itemIdx /\ (HasPage(d) => e.pageIdx \in 0 .. d.pageCount - 1)
             \/ e.pageIdx = 0
      PROVE  HasPage(d) => HasPage(h_inspect_update_data(l, e))
  <2> DEFINE f == h_inspect_update_data(l, e)
  <2>1. StandsIn(l, f) /\ f.itemIdx = e.itemIdx /\ f.pageIdx = e.pageIdx
    BY <1>7, UpdateStands DEF n
  <2> HIDE DEF f
  <2>2. f.itemIdx + 1 \in 1 .. n /\ f.pageCount = ListAt(l)[f.itemIdx + 1].pages
    BY <1>1, <2>1 DEF StandsIn, n
  <2>3. f.pageCount \in 1 .. 254
    <3>1. \A i \in 1 .. n : ListAt(l)[i].pages \in 1 .. 254
      BY LevelTyped DEF n
    <3> QED BY <2>2, <3>1, SMTT(30)
  <2>4. f.itemIdx = d.itemIdx => f.pageCount = d.pageCount
    BY <2>2 DEF StandsIn
  <2>5. SUFFICES ASSUME HasPage(d) PROVE f.pageIdx \in 0 .. f.pageCount - 1
    BY DEF HasPage, f
  <2>6. CASE e.pageIdx = 0
    BY <2>1, <2>3, <2>6
  <2>7. CASE e.itemIdx = d.itemIdx /\ e.pageIdx \in 0 .. d.pageCount - 1
    BY <2>1, <2>4, <2>7
  <2> QED BY <1>7, <2>5, <2>6, <2>7
<1>8. /\ h_decrease(d) \in Cursors /\ h_decrease(d).itemIdx \in 0 .. n - 1
      /\ \/ h_decrease(d).itemIdx = d.itemIdx /\ (HasPage(d) => h_decrease(d).pageIdx \in 0 .. d.pageCount - 1)
         \/ h_decrease(d).pageIdx = 0
  <2>1. d.pageIdx - 1 \in Int /\ d.itemIdx - 1 \in Int /\ (d.itemIdx > 0 => d.itemIdx - 1 \in 0 .. n - 1)
    BY <1>1, <1>2
  <2>2. HasPage(d) => /\ d.pageIdx \in 0 .. d.pageCount - 1
                      /\ d.pageIdx # 0 => d.pageIdx - 1 \in 0 .. d.pageCount - 1
    BY <1>2 DEF HasPage
  <2>3. CASE h_decrease(d) = [d EXCEPT !.pageIdx = d.pageIdx - 1] /\ d.pageIdx # 0
    BY <1>1, <1>5, <2>1, <2>2, <2>3
  <2>4. CASE h_decrease(d) = [d EXCEPT !.itemIdx = d.itemIdx - 1, !.pageIdx = 0] /\ d.itemIdx > 0
    BY <1>6, <2>1, <2>4
  <2>5. CASE h_decrease(d) = d
    BY <1>1, <2>2, <2>5
  <2> QED BY <1>3, <2>3, <2>4, <2>5
<1>9. /\ h_increase(d) \in Cursors /\ h_increase(d).itemIdx \in 0 .. n - 1
      /\ \/ h_increase(d).itemIdx = d.itemIdx /\ (HasPage(d) => h_increase(d).pageIdx \in 0 .. d.pageCount - 1)
         \/ h_increase(d).pageIdx = 0
  <2>1. d.pageIdx + 1 \in Int /\ d.itemIdx + 1 \in Int /\ (d.itemIdx < n - 1 => d.itemIdx + 1 \in 0 .. n - 1)
    BY <1>1, <1>2
  <2>2. HasPage(d) => /\ d.pageIdx \in 0 .. d.pageCount - 1
                      /\ d.pageIdx + 1 < d.pageCount => d.pageIdx + 1 \in 0 .. d.pageCount - 1
    BY <1>2 DEF HasPage
  <2>3. CASE h_increase(d) = [d EXCEPT !.pageIdx = d.pageIdx + 1] /\ d.pageIdx + 1 < d.pageCount
    BY <1>1, <1>5, <2>1, <2>2, <2>3
  <2>4. CASE h_increase(d) = [d EXCEPT !.itemIdx = d.itemIdx + 1, !.pageIdx = 0] /\ d.itemIdx < n - 1
    BY <1>6, <2>1, <2>4
  <2>5. CASE h_increase(d) = d
    BY <1>1, <2>2, <2>5
  <2> QED BY <1>4, <2>3, <2>4, <2>5
<1> QED BY <1>7, <1>8, <1>9 DEF n

-----------------------------------------------------------------------------
(* The steps of the flow.                                                  *)

(* The screens of a list, and what the flag says of them.                  *)
Opens(l, screens) ==
    /\ at' \in screens
    /\ StandsIn(l, paging')
    /\ flow_inside_inspect_loop' = (at' = "item")

(* Entering the start step shows an item or, from the first page of a list, *)
(* "Go to root".                                                           *)
LEMMA EnterStartOpens ==
    ASSUME NEW l, IsLevel(l), NEW d, StandsIn(l, d), NEW inside \in BOOLEAN,
           EnterStart(l, d, inside)
    PROVE  /\ Opens(l, {"root", "item"})
           /\ HasPage(d) => HasPage(paging')
           /\ ~inside => at' = "item" /\ paging'.itemIdx = d.itemIdx
<1>1. d \in Cursors /\ d.itemIdx \in 0 .. Len(ListAt(l)) - 1
  BY DEF StandsIn
<1>2. CASE inside /\ ~h_can_decrease(d)
  BY <1>2 DEF EnterStart, Opens
<1>3. CASE inside /\ h_can_decrease(d)
  <2> DEFINE e == h_decrease(d)
  <2>1. e \in Cursors /\ e.itemIdx \in 0 .. Len(ListAt(l)) - 1
        /\ (HasPage(d) => HasPage(h_inspect_update_data(l, e)))
    BY StepStands
  <2>2. at' = "item" /\ flow_inside_inspect_loop' = TRUE /\ paging' = h_inspect_update_data(l, e)
    BY <1>3 DEF EnterStart
  <2> HIDE DEF e
  <2>3. StandsIn(l, h_inspect_update_data(l, e))
    BY <2>1, UpdateStands
  <2> QED BY <1>3, <2>1, <2>2, <2>3 DEF Opens
<1>4. CASE ~inside
  <2>1. at' = "item" /\ flow_inside_inspect_loop' = TRUE /\ paging' = h_inspect_update_data(l, d)
    BY <1>4 DEF EnterStart
  <2>2. StandsIn(l, paging') /\ paging'.itemIdx = d.itemIdx /\ paging'.pageIdx = d.pageIdx
    BY <1>1, <2>1, UpdateStands
  <2>3. paging'.pageCount = d.pageCount
    BY <2>2 DEF StandsIn
  <2> QED BY <2>1, <2>2, <2>3 DEF Opens, HasPage
<1> QED BY <1>2, <1>3, <1>4

(* Entering the end step shows an item or, from the last page of a list,   *)
(* "BACK".                                                                 *)
LEMMA EnterEndOpens ==
    ASSUME NEW l, IsLevel(l), NEW d, StandsIn(l, d), NEW inside \in BOOLEAN,
           EnterEnd(l, d, inside)
    PROVE  /\ Opens(l, {"item", "back"})
           /\ HasPage(d) => HasPage(paging')
           /\ at' = "back" /\ HasPage(d) =>
                /\ paging'.itemIdx = paging'.itemCount - 1
                /\ paging'.pageIdx = paging'.pageCount - 1
<1>1. /\ d \in Cursors /\ d.itemIdx \in 0 .. Len(ListAt(l)) - 1 /\ d.itemCount = Len(ListAt(l))
      /\ Len(ListAt(l)) \in 1 .. 128
  BY LevelTyped DEF StandsIn
<1>2. CASE inside /\ ~h_can_increase(d)
  <2>1. at' = "back" /\ flow_inside_inspect_loop' = FALSE /\ paging' = d
    BY <1>2 DEF EnterEnd
  <2>2. ASSUME HasPage(d)
        PROVE  d.itemIdx = d.itemCount - 1 /\ d.pageIdx = d.pageCount - 1
    <3>1. d.pageIdx \in 0 .. d.pageCount - 1 /\ d.pageCount \in Int /\ d.itemCount \in 1 .. 128
          /\ d.itemIdx \in 0 .. d.itemCount - 1
      BY <1>1, <2>2 DEF HasPage, Cursors
    <3>2. ~(d.pageIdx + 1 < d.pageCount) /\ ~(d.itemCount > 0 /\ d.itemIdx < d.itemCount - 1 + ExtraScreens)
      BY <1>2 DEF h_can_increase, HasNextPage, HasNextItem
    <3>3. ExtraScreens = 0
      BY TreeAssumption
    <3> QED BY <3>1, <3>2, <3>3
  <2> QED BY <2>1, <2>2 DEF Opens
<1>3. CASE inside /\ h_can_increase(d)
  <2> DEFINE e == h_increase(d)
  <2>1. e \in Cursors /\ e.itemIdx \in 0 .. Len(ListAt(l)) - 1
        /\ (HasPage(d) => HasPage(h_inspect_update_data(l, e)))
    BY StepStands
  <2>2. at' = "item" /\ flow_inside_inspect_loop' = TRUE /\ paging' = h_inspect_update_data(l, e)
    BY <1>3 DEF EnterEnd
  <2> HIDE DEF e
  <2>3. StandsIn(l, h_inspect_update_data(l, e))
    BY <2>1, UpdateStands
  <2> QED BY <2>1, <2>2, <2>3 DEF Opens
<1>4. CASE ~inside
  <2>1. at' = "item" /\ flow_inside_inspect_loop' = TRUE /\ paging' = h_inspect_update_data(l, d)
    BY <1>4 DEF EnterEnd
  <2>2. StandsIn(l, paging') /\ paging'.itemIdx = d.itemIdx /\ paging'.pageIdx = d.pageIdx
    BY <1>1, <2>1, UpdateStands
  <2>3. paging'.pageCount = d.pageCount
    BY <2>2 DEF StandsIn
  <2> QED BY <2>1, <2>2, <2>3 DEF Opens, HasPage
<1> QED BY <1>2, <1>3, <1>4

(* A list that is shown opens at the item of the cursor, and on its page   *)
(* if it has that one.                                                     *)
LEMMA ShowListOpens ==
    ASSUME NEW l, IsLevel(l), NEW d \in Cursors, d.itemIdx \in 0 .. Len(ListAt(l)) - 1,
           NEW inside \in BOOLEAN, ShowList(l, d, inside)
    PROVE  /\ Opens(l, {"root", "item"})
           /\ d.pageIdx \in 0 .. ListAt(l)[d.itemIdx + 1].pages - 1 => HasPage(paging')
           /\ ~inside => at' = "item" /\ paging'.itemIdx = d.itemIdx
<1> DEFINE e == h_inspect_update_data(l, d)
<1>1. StandsIn(l, e) /\ e.itemIdx = d.itemIdx /\ e.pageIdx = d.pageIdx
  BY UpdateStands
<1>2. EnterStart(l, e, inside)
  BY DEF ShowList
<1> HIDE DEF e
<1>3. d.pageIdx \in 0 .. ListAt(l)[d.itemIdx + 1].pages - 1 => HasPage(e)
  BY <1>1 DEF StandsIn, HasPage
<1> QED BY <1>1, <1>2, <1>3, EnterStartOpens

-----------------------------------------------------------------------------
(* The review, to which the way out leads back.                            *)

(* A page of the review, by its item and page.                             *)
ReviewAt(i, p) == CursorAt(i, p, RootPages[i + 1], Len(RootPages) + 1)

(* The user stands on a page of the review.                                *)
LEMMA RootCursorIs ==
    ASSUME NEW d \in RootCursors
    PROVE  \E i \in 0 .. Len(RootPages) - 1 : \E p \in 0 .. RootPages[i + 1] - 1 : d = ReviewAt(i, p)
  BY DEF RootCursors, ReviewAt, CursorAt

(* The items of the review are items for the cursor.                       *)
LEMMA RootItems ==
    /\ IsItems(RootPages)
    /\ Len(RootPages) = Len(Tree[1])
    /\ \A k \in 1 .. Len(RootPages) : RootPages[k] \in 1 .. 254
<1> DEFINE list == Tree[1]
<1>1. 1 \in 1 .. Len(Tree)
  BY TreeAssumption
<1>2. list \in Seq(Item) /\ Len(list) \in 1 .. 128 /\ \A i \in 1 .. Len(list) : list[i].pages \in 1 .. 254
  <2>1. list \in Seq(Item)
    BY <1>1, TreeAssumption
  <2>2. Len(list) \in 1 .. 128 /\ \A i \in 1 .. Len(list) : list[i].pages \in 1 .. 254
    BY <1>1, ListTyped, Zenon
  <2> QED BY <2>1, <2>2, Zenon
<1>3. RootPages = [i \in 1 .. Len(list) |-> list[i].pages]
  BY <1>2 DEF RootPages
<1> HIDE DEF list
<1>4. /\ RootPages \in Seq(0 .. 254) /\ Len(RootPages) = Len(list)
      /\ \A k \in 1 .. Len(list) : RootPages[k] \in 1 .. 254
  BY <1>2, <1>3
<1>5. RootPages[Len(RootPages)] > 0
  <2> DEFINE n == Len(list)
  <2>0. \A m \in 1 .. 254 : m > 0
    OBVIOUS
  <2>1. n \in 1 .. n
    <3>1. n \in 1 .. 128
      BY <1>2
    <3> HIDE DEF n
    <3> QED BY <3>1
  <2>2. RootPages[Len(list)] \in 1 .. 254
    BY <1>4, <2>1, Zenon
  <2> QED BY <1>4, <2>0, <2>2, Zenon
<1> QED BY <1>2, <1>4, <1>5 DEF IsItems, list

(* The step back of the review undoes h_paging_increase, on its last page  *)
(* too: both the item behind the last one, and the page index that stands  *)
(* for the last page, are taken back.                                      *)
LEMMA ForthAndBack ==
    ASSUME NEW d \in RootCursors
    PROVE  UpdateItem(h_paging_decrease(h_paging_increase(d)), RootPages, 0).vd = d
<1> DEFINE len == Len(RootPages)
<1>0. PICK i \in 0 .. Len(RootPages) - 1 : \E p \in 0 .. RootPages[i + 1] - 1 : d = ReviewAt(i, p)
  BY RootCursorIs
<1>1. PICK p \in 0 .. RootPages[i + 1] - 1 : d = ReviewAt(i, p)
  BY <1>0
<1> DEFINE m == RootPages[i + 1]
           back == h_paging_decrease(h_paging_increase(d))
<1>2. /\ IsItems(RootPages) /\ len \in 1 .. 128 /\ i \in 0 .. len - 1
      /\ m \in 1 .. 254 /\ p \in 0 .. m - 1 /\ d = CursorAt(i, p, m, len + 1)
  <2>1. IsItems(RootPages) /\ len \in 1 .. 128 /\ i + 1 \in 1 .. len
    BY <1>1, RootItems DEF IsItems
  <2>2. m \in 1 .. 254
    BY <2>1, RootItems
  <2> QED BY <1>1, <2>1, <2>2 DEF ReviewAt
<1>3. ExtraScreens = 0
  BY TreeAssumption
<1> HIDE DEF m
<1>4. back = CursorAt(i, IF p + 1 < m THEN p ELSE 255, m, len + 1)
  <2>0. /\ len \in Int /\ i \in Int /\ p \in Int /\ m \in Int /\ len + 1 \in Int /\ i + 1 \in Int
        /\ p + 1 \in Int /\ 0 \in Int
        /\ len + 1 > 0 /\ i < len + 1 - 1 + ExtraScreens /\ p + 1 # 0 /\ i + 1 > 0
        /\ p + 1 - 1 = p /\ i + 1 - 1 = i
    BY <1>2, <1>3
  <2> HIDE DEF len
  <2> DEFINE n == len + 1
             p1 == p + 1
             i1 == i + 1
  <2>1. /\ n \in Int /\ p1 \in Int /\ i1 \in Int /\ n > 0 /\ i < n - 1 + ExtraScreens /\ p1 # 0 /\ i1 > 0
        /\ p1 - 1 = p /\ i1 - 1 = i
    BY <2>0
  <2>2. h_paging_increase(CursorAt(i, p, m, n)) = IF p1 < m THEN CursorAt(i, p1, m, n) ELSE CursorAt(i1, 0, m, n)
    <3>1. h_paging_increase(CursorAt(i, p, m, n)) =
            IF p + 1 < m THEN CursorAt(i, p + 1, m, n)
            ELSE IF n > 0 /\ i < n - 1 + ExtraScreens THEN CursorAt(i + 1, 0, m, n)
            ELSE CursorAt(i, p, m, n)
      <4> HIDE DEF n
      <4> QED BY <2>0, <2>1, Increased
    <3> HIDE DEF n
    <3> QED BY <2>1, <3>1
  <2> HIDE DEF n, p1, i1
  <2>3. h_paging_decrease(CursorAt(i, p1, m, n)) = CursorAt(i, p, m, n)
    <3>1. h_paging_decrease(CursorAt(i, p1, m, n)) =
            IF p1 # 0 THEN CursorAt(i, p1 - 1, m, n)
            ELSE IF i > 0 THEN CursorAt(i - 1, 255, m, n)
            ELSE CursorAt(i, p1, m, n)
      BY <2>0, <2>1, Decreased
    <3> QED BY <2>1, <3>1
  <2>4. h_paging_decrease(CursorAt(i1, 0, m, n)) = CursorAt(i, 255, m, n)
    <3>1. h_paging_decrease(CursorAt(i1, 0, m, n)) =
            IF 0 # 0 THEN CursorAt(i1, 0 - 1, m, n)
            ELSE IF i1 > 0 THEN CursorAt(i1 - 1, 255, m, n)
            ELSE CursorAt(i1, 0, m, n)
      BY <2>0, <2>1, Decreased
    <3> QED BY <2>1, <3>1
  <2>5. d = CursorAt(i, p, m, n)
    BY <1>2 DEF n
  <2>6. back = CursorAt(i, IF p1 < m THEN p ELSE 255, m, n)
    BY <2>2, <2>3, <2>4, <2>5, Zenon
  <2> QED BY <2>6 DEF n, p1
<1> DEFINE q == IF p + 1 < m THEN p ELSE 255
<1>5. CappedPage(q, m) = p
  BY <1>2 DEF CappedPage
<1> HIDE DEF back, q
<1>6. back = CursorAt(i + 0, q, m, len + 1)
  BY <1>2, <1>4 DEF q
<1>7. PICK j \in i .. len - 1 : FoundAt(RootPages, 0, i, q, UpdateItem(back, RootPages, 0), j)
  <2>1. 0 \in 0 .. 3
    OBVIOUS
  <2> QED BY <1>2, <1>6, <2>1, UpdateInside
<1>8. j = i
  <2>1. \A k \in i .. j - 1 : RootPages[k + 1] = 0
    BY <1>7 DEF FoundAt
  <2>2. j # i => i \in i .. j - 1
    BY <1>2, <1>7
  <2> QED BY <1>2, <2>1, <2>2 DEF m
<1>9. UpdateItem(back, RootPages, 0).vd = CursorAt(i + 0, CappedPage(q, m), m, len + 0 + 1)
  BY <1>7, <1>8 DEF FoundAt, m
<1>10. i + 0 = i /\ len + 0 + 1 = len + 1
  BY <1>2
<1> HIDE DEF len
<1>11. UpdateItem(back, RootPages, 0).vd = CursorAt(i, p, m, len + 1)
  BY <1>5, <1>9, <1>10, Zenon
<1> QED BY <1>2, <1>11 DEF back

(* So the way out of the lists leads back, if the trace says where.        *)
LEMMA OutAndBack ==
    ASSUME vd \in RootCursors, NEW l, NEW t, t[0] = vd.itemIdx, h_rootTxn(l, t)
    PROVE  vd' = vd /\ at' = "page"
<1>1. [vd EXCEPT !.itemIdx = t[0]] = vd
  <2>1. \E i \in 0 .. Len(RootPages) - 1 : \E p \in 0 .. RootPages[i + 1] - 1 : vd = ReviewAt(i, p)
    BY RootCursorIs
  <2>2. [vd EXCEPT !.itemIdx = vd.itemIdx] = vd
    BY <2>1 DEF ReviewAt, CursorAt
  <2> QED BY <2>2
<1>2. vd' = UpdateItem(h_paging_decrease(h_paging_increase(vd)), RootPages, 0).vd
  BY <1>1 DEF h_rootTxn
<1> QED BY <1>2, ForthAndBack DEF h_rootTxn

-----------------------------------------------------------------------------
(* The way into the lists, which the trace and the history both hold.      *)

WayKnown ==
    /\ IsLevel(level)
    /\ path \in Seq(Nat) /\ Len(path) = level + 1
    /\ path[1] = vd.itemIdx
    /\ \A k \in 0 .. level : trace[k] = path[k + 1]
    (* Every list but the first was entered through an item with one.      *)
    /\ \A k \in 1 .. level : /\ path[k + 1] + 1 \in 1 .. Len(Tree[k + 1])
                             /\ Tree[k + 1][path[k + 1] + 1].nested

WayInv ==
    /\ at \in {"idle", "page", "root", "item", "back"}
    /\ vd \in RootCursors
    /\ flow_inside_inspect_loop \in BOOLEAN
    /\ trace \in [0 .. MAX_DEPTH - 1 -> Nat]
    /\ Inspecting => /\ WayKnown
                     /\ StandsIn(level, paging)
                     /\ flow_inside_inspect_loop = (at = "item")

(* The page exists, and "BACK" comes after the last one.                   *)
PageInv ==
    /\ Inspecting => HasPage(paging)
    /\ at = "back" => /\ paging.itemIdx = paging.itemCount - 1
                      /\ paging.pageIdx = paging.pageCount - 1

(* A list that opens keeps the invariant of the way, if the way does.      *)
LEMMA OpensKeeps ==
    ASSUME NEW l, NEW screens, screens \subseteq {"root", "item", "back"},
           Opens(l, screens), level' = l, WayKnown',
           vd' \in RootCursors, trace' \in [0 .. MAX_DEPTH - 1 -> Nat]
    PROVE  WayInv'
  BY DEF Opens, WayInv

(* The numbers of the items that the trace can hold.                       *)
LEMMA ItemOfReview ==
    ASSUME NEW d \in RootCursors
    PROVE  d.itemIdx \in Nat
<1>1. PICK i \in 0 .. Len(RootPages) - 1 : d.itemIdx = i
  BY RootCursorIs, CursorFields DEF ReviewAt
<1>2. Len(RootPages) \in Int
  BY RootItems DEF IsItems
<1> QED BY <1>1, <1>2

(* The lists of the review.                                                *)
LEMMA InitOpens ==
    ASSUME WayInv, at = "page", CanInspectItem(0, vd.itemIdx),
           level' = 0, trace' = [trace EXCEPT ![0] = vd.itemIdx], path' = <<vd.itemIdx>>, vd' = vd,
           ShowList(0, FirstOfList, flow_inside_inspect_loop)
    PROVE  WayInv' /\ HasPage(paging') /\ at' # "back"
<1> DEFINE i == vd.itemIdx
<1>1. /\ i \in Nat /\ 0 \in 0 .. MAX_DEPTH - 1 /\ flow_inside_inspect_loop \in BOOLEAN
      /\ trace \in [0 .. MAX_DEPTH - 1 -> Nat] /\ vd \in RootCursors
  BY ItemOfReview, TreeAssumption DEF WayInv
<1>2. IsLevel(0)
  BY DEF CanInspectItem, IsLevel
<1>3. Len(ListAt(0)) \in 1 .. 128 /\ \A k \in 1 .. Len(ListAt(0)) : ListAt(0)[k].pages \in 1 .. 254
  BY <1>2, LevelTyped
<1>4. /\ FirstOfList \in Cursors /\ FirstOfList.itemIdx = 0 /\ FirstOfList.pageIdx = 0
      /\ 0 \in 0 .. Len(ListAt(0)) - 1 /\ 0 + 1 \in 1 .. Len(ListAt(0))
  <2>1. \A n \in 1 .. 128 : 0 \in 0 .. n - 1 /\ 0 + 1 \in 1 .. n
    OBVIOUS
  <2>2. 0 \in 0 .. Len(ListAt(0)) - 1 /\ 0 + 1 \in 1 .. Len(ListAt(0))
    BY <1>3, <2>1, Zenon
  <2>3. FirstOfList \in Cursors /\ FirstOfList.itemIdx = 0 /\ FirstOfList.pageIdx = 0
    BY DEF FirstOfList, Cursors
  <2> QED BY <2>2, <2>3
<1>5. /\ Opens(0, {"root", "item"})
      /\ 0 \in 0 .. ListAt(0)[0 + 1].pages - 1 => HasPage(paging')
  BY <1>1, <1>2, <1>4, ShowListOpens
<1>6. ListAt(0)[0 + 1].pages \in 1 .. 254
  BY <1>3, <1>4, Zenon
<1>7. WayKnown'
  <2> HIDE DEF i
  <2>1. path' = <<i>> /\ vd' = vd /\ level' = 0 /\ vd.itemIdx = i
    BY DEF i
  <2>2. trace'[0] = i
    BY <1>1 DEF i
  <2>3. path' \in Seq(Nat) /\ Len(path') = 0 + 1 /\ path'[1] = i
    BY <1>1, <2>1
  <2>4. \A k \in 0 .. 0 : trace'[k] = path'[k + 1]
    <3>1. \A k \in 0 .. 0 : k = 0 /\ k + 1 = 1
      OBVIOUS
    <3> QED BY <2>2, <2>3, <3>1
  <2>5. \A k \in 1 .. 0 : FALSE
    OBVIOUS
  <2> QED BY <1>2, <2>1, <2>3, <2>4, <2>5 DEF WayKnown, i
<1>8. trace' \in [0 .. MAX_DEPTH - 1 -> Nat]
  BY <1>1
<1>9. WayInv'
  BY <1>1, <1>5, <1>7, <1>8, OpensKeeps
<1> QED BY <1>5, <1>6, <1>9 DEF Opens

(* One list further in.                                                    *)
LEMMA FurtherIn ==
    ASSUME InsideTrace, WayInv, h_inspect
    PROVE  /\ WayInv' /\ at' = "item"
           /\ PagesFit /\ HasPage(paging) => HasPage(paging')
<1> DEFINE j == paging.itemIdx
           n == Len(ListAt(level))
           first == [FirstOfList EXCEPT !.pageIdx = paging.pageIdx]
<1>1. /\ at = "item" /\ CanInspectItem(level + 1, j) /\ level' = level + 1 /\ vd' = vd
      /\ path' = Append(path, j) /\ ShowList(level + 1, first, FALSE)
      /\ trace' = IF level + 1 < MAX_DEPTH THEN [trace EXCEPT ![level + 1] = j] ELSE trace
  BY DEF h_inspect
<1>2. /\ WayKnown /\ StandsIn(level, paging) /\ trace \in [0 .. MAX_DEPTH - 1 -> Nat]
      /\ vd \in RootCursors
  BY <1>1 DEF WayInv, Inspecting
<1>3. level \in Nat /\ level + 3 <= Len(Tree) /\ Len(Tree) \in Nat /\ MAX_DEPTH \in 1 .. 255
  BY <1>1, <1>2, TreeAssumption, SMTT(30) DEF CanInspectItem, WayKnown, IsLevel
<1>4. level + 1 \in 0 .. MAX_DEPTH - 1 /\ level + 1 < MAX_DEPTH /\ IsLevel(level + 1) /\ IsLevel(level)
  BY <1>3 DEF InsideTrace, IsLevel
<1>5. n \in 1 .. 128 /\ j \in 0 .. n - 1 /\ paging \in Cursors
  BY <1>2, <1>4, LevelTyped DEF StandsIn
<1>6. j \in Nat /\ j + 1 \in 1 .. n
  <2> HIDE DEF n
  <2> QED BY <1>5
<1>7. /\ Tree[level + 1 + 1] = ListAt(level)
      /\ Tree[level + 1 + 1][j + 1].nested
  <2>1. level + 1 + 1 = level + 2
    BY <1>3
  <2>2. Tree[level + 1 + 1][j + 1].nested
    BY <1>1 DEF CanInspectItem
  <2>3. Tree[level + 1 + 1] = ListAt(level)
    BY <2>1 DEF ListAt
  <2> QED BY <2>2, <2>3
<1>8. /\ Len(ListAt(level + 1)) \in 1 .. 128
      /\ \A k \in 1 .. Len(ListAt(level + 1)) : ListAt(level + 1)[k].pages \in 1 .. 254
  BY <1>4, LevelTyped
<1>9. first \in Cursors /\ first.itemIdx = 0 /\ first.pageIdx = paging.pageIdx
      /\ 0 \in 0 .. Len(ListAt(level + 1)) - 1
  <2>1. \A m \in 1 .. 128 : 0 \in 0 .. m - 1
    OBVIOUS
  <2>2. 0 \in 0 .. Len(ListAt(level + 1)) - 1
    BY <1>8, <2>1, Zenon
  <2>3. first \in Cursors /\ first.itemIdx = 0 /\ first.pageIdx = paging.pageIdx
    BY <1>5 DEF FirstOfList, Cursors
  <2> QED BY <2>2, <2>3
<1>10. /\ Opens(level + 1, {"root", "item"}) /\ at' = "item"
       /\ paging.pageIdx \in 0 .. ListAt(level + 1)[0 + 1].pages - 1 => HasPage(paging')
  <2> HIDE DEF first
  <2> QED BY <1>1, <1>4, <1>9, ShowListOpens
<1>11. trace' = [trace EXCEPT ![level + 1] = j] /\ trace' \in [0 .. MAX_DEPTH - 1 -> Nat]
  BY <1>1, <1>2, <1>4, <1>6
<1>12. WayKnown'
  <2>1. /\ path \in Seq(Nat) /\ Len(path) = level + 1 /\ path[1] = vd.itemIdx
        /\ \A k \in 0 .. level : trace[k] = path[k + 1]
        /\ \A k \in 1 .. level : /\ path[k + 1] + 1 \in 1 .. Len(Tree[k + 1])
                                 /\ Tree[k + 1][path[k + 1] + 1].nested
    BY <1>2 DEF WayKnown
  <2> HIDE DEF j, n
  <2>2. /\ path' \in Seq(Nat) /\ Len(path') = level + 1 + 1 /\ path'[level + 1 + 1] = j
        /\ \A k \in 1 .. level + 1 : path'[k] = path[k]
    BY <1>1, <1>3, <1>6, <2>1 DEF j
  <2>3. path'[1] = vd'.itemIdx
    BY <1>1, <1>3, <2>1, <2>2
  <2>4. \A k \in 0 .. level + 1 : k = level + 1 \/ (k \in 0 .. level /\ k + 1 \in 1 .. level + 1)
    BY <1>3
  <2>5. \A k \in 0 .. level + 1 : trace'[k] = path'[k + 1]
    <3>1. trace'[level + 1] = j
      BY <1>2, <1>4, <1>11
    <3>2. ASSUME NEW k \in 0 .. level PROVE trace'[k] = trace[k]
      BY <1>2, <1>3, <1>4, <1>11
    <3> QED BY <2>1, <2>2, <2>4, <3>1, <3>2, Zenon
  <2>6. ASSUME NEW k \in 1 .. level + 1
        PROVE  /\ path'[k + 1] + 1 \in 1 .. Len(Tree[k + 1])
               /\ Tree[k + 1][path'[k + 1] + 1].nested
    <3>1. k = level + 1 \/ (k \in 1 .. level /\ k + 1 \in 1 .. level + 1)
      BY <1>3
    <3>2. CASE k = level + 1
      BY <1>6, <1>7, <2>2, <3>2, Zenon DEF n
    <3>3. CASE k \in 1 .. level /\ k + 1 \in 1 .. level + 1
      BY <2>1, <2>2, <3>3, Zenon
    <3> QED BY <3>1, <3>2, <3>3
  <2>7. level' = level + 1
    BY <1>1
  <2> QED BY <1>4, <2>2, <2>3, <2>5, <2>6, <2>7 DEF WayKnown
<1>13. WayInv'
  BY <1>1, <1>2, <1>10, <1>11, <1>12, OpensKeeps
<1>14. ASSUME PagesFit, HasPage(paging) PROVE HasPage(paging')
  <2> DEFINE d == level + 2
             m == Tree[d][j + 1].pages
             o == Tree[d + 1][1].pages
  <2>1. d \in 2 .. Len(Tree) - 1 /\ d + 1 = level + 1 + 2 /\ 0 + 1 = 1
    BY <1>3
  <2>2. Tree[d][j + 1].nested /\ j + 1 \in 1 .. Len(Tree[d])
    BY <1>6, <1>7 DEF ListAt
  <2>3. m <= o
    <3> HIDE DEF d, j
    <3> QED BY <1>14, <2>1, <2>2, Zenon DEF PagesFit
  <2>4. paging.pageIdx \in 0 .. m - 1
    BY <1>2, <1>14 DEF HasPage, StandsIn, ListAt
  <2>5. o = ListAt(level + 1)[0 + 1].pages
    BY <2>1 DEF ListAt
  <2>6. m \in 1 .. 254 /\ o \in 1 .. 254
    <3>1. m \in 1 .. 254
      BY <1>4, <1>6, LevelTyped DEF ListAt
    <3>2. 0 + 1 \in 1 .. Len(ListAt(level + 1))
      <4>1. \A x \in 1 .. 128 : 0 + 1 \in 1 .. x
        OBVIOUS
      <4> QED BY <1>8, <4>1, Zenon
    <3>3. o \in 1 .. 254
      BY <1>8, <2>5, <3>2, Zenon
    <3> QED BY <3>1, <3>3
  <2> HIDE DEF m, o
  <2>7. paging.pageIdx \in 0 .. o - 1
    BY <2>3, <2>4, <2>6
  <2> QED BY <1>10, <2>5, <2>7
<1> QED BY <1>10, <1>13, <1>14

(* One list back.                                                          *)
LEMMA OneListBack ==
    ASSUME InsideTrace, WayInv, h_back, level > 1
    PROVE  /\ WayInv' /\ at' = "item" /\ level' = level - 1 /\ paging'.itemIdx = path[level + 1]
           /\ PagesFit /\ PageInv => HasPage(paging')
<1> DEFINE l == level - 1
           j == path[level + 1]
           d == [paging EXCEPT !.itemIdx = Traced(level), !.pageCount = 1, !.itemCount = 255]
<1>1. /\ at = "back" /\ level' = l /\ path' = SubSeq(path, 1, level)
      /\ ShowList(l, d, FALSE) /\ vd' = vd /\ trace' = trace
  <2>1. level \in Nat
    BY DEF h_back, WayInv, Inspecting, WayKnown, IsLevel
  <2>2. ~(level <= 1)
    BY <2>1
  <2> QED BY <2>2 DEF h_back
<1>2. /\ WayKnown /\ StandsIn(level, paging) /\ trace \in [0 .. MAX_DEPTH - 1 -> Nat]
      /\ vd \in RootCursors
  BY <1>1 DEF WayInv, Inspecting
<1>3. level \in Nat /\ level + 2 <= Len(Tree) /\ Len(Tree) \in Nat /\ MAX_DEPTH \in 1 .. 255
  BY <1>2, TreeAssumption DEF WayKnown, IsLevel
<1>4. /\ level < MAX_DEPTH /\ IsLevel(l) /\ IsLevel(level) /\ level \in 1 .. level /\ level \in 0 .. level
      /\ l \in Nat /\ l + 1 = level /\ l + 2 = level + 1 /\ level \in 1 .. level + 1
  BY <1>3 DEF InsideTrace, IsLevel
<1>5. /\ path \in Seq(Nat) /\ Len(path) = level + 1 /\ path[1] = vd.itemIdx
      /\ \A k \in 0 .. level : trace[k] = path[k + 1]
      /\ \A k \in 1 .. level : /\ path[k + 1] + 1 \in 1 .. Len(Tree[k + 1])
                               /\ Tree[k + 1][path[k + 1] + 1].nested
  BY <1>2 DEF WayKnown
<1>6. Traced(level) = j /\ j \in Nat
  <2>1. Traced(level) = trace[level]
    BY <1>4 DEF Traced
  <2>2. j \in Nat
    BY <1>3, <1>5
  <2> QED BY <1>4, <1>5, <2>1, <2>2, Zenon
<1>7. /\ Tree[level + 1] = ListAt(l)
      /\ j + 1 \in 1 .. Len(ListAt(l)) /\ ListAt(l)[j + 1].nested
  <2>1. Tree[level + 1] = ListAt(l)
    BY <1>4, Zenon DEF ListAt
  <2> QED BY <1>4, <1>5, <2>1, Zenon
<1>8. Len(ListAt(l)) \in 1 .. 128 /\ \A k \in 1 .. Len(ListAt(l)) : ListAt(l)[k].pages \in 1 .. 254
  <2> HIDE DEF l
  <2> QED BY <1>4, LevelTyped
<1>9. d \in Cursors /\ d.itemIdx = j /\ d.pageIdx = paging.pageIdx /\ j \in 0 .. Len(ListAt(l)) - 1
  <2>1. paging \in Cursors
    BY <1>2 DEF StandsIn
  <2> HIDE DEF l, j
  <2>2. d \in Cursors /\ d.itemIdx = j /\ d.pageIdx = paging.pageIdx
    <3> DEFINE y == 1
               z == 255
    <3>1. j \in Int /\ y \in Int /\ z \in Int
      BY <1>6
    <3>2. d = [paging EXCEPT !.itemIdx = j, !.pageCount = y, !.itemCount = z]
      BY <1>6
    <3> HIDE DEF d, y, z
    <3> QED BY <2>1, <3>1, <3>2 DEF Cursors
  <2> QED BY <1>6, <1>7, <1>8, <2>2
<1>10. /\ Opens(l, {"root", "item"}) /\ at' = "item" /\ paging'.itemIdx = j
       /\ paging.pageIdx \in 0 .. ListAt(l)[j + 1].pages - 1 => HasPage(paging')
  <2> HIDE DEF d, l, j
  <2>1. /\ Opens(l, {"root", "item"})
        /\ d.pageIdx \in 0 .. ListAt(l)[d.itemIdx + 1].pages - 1 => HasPage(paging')
        /\ at' = "item" /\ paging'.itemIdx = d.itemIdx
    BY <1>1, <1>4, <1>9, ShowListOpens
  <2> QED BY <1>9, <2>1
<1>11. WayKnown'
  <2>1. /\ path' \in Seq(Nat) /\ Len(path') = level
        /\ \A k \in 1 .. level : path'[k] = path[k]
    BY <1>1, <1>3, <1>5, SMTT(30)
  <2>2. path'[1] = vd'.itemIdx
    BY <1>1, <1>3, <1>5, <2>1
  <2>3. \A k \in 0 .. l : k \in 0 .. level /\ k + 1 \in 1 .. level
    BY <1>3
  <2>4. \A k \in 1 .. l : k \in 1 .. level /\ k + 1 \in 1 .. level
    BY <1>3
  <2> HIDE DEF l
  <2>5. \A k \in 0 .. l : trace'[k] = path'[k + 1]
    BY <1>1, <1>5, <2>1, <2>3, Zenon
  <2>6. \A k \in 1 .. l : /\ path'[k + 1] + 1 \in 1 .. Len(Tree[k + 1])
                          /\ Tree[k + 1][path'[k + 1] + 1].nested
    BY <1>5, <2>1, <2>4, Zenon
  <2> QED BY <1>1, <1>4, <2>1, <2>2, <2>5, <2>6 DEF WayKnown
<1>12. WayInv'
  <2> HIDE DEF l
  <2> QED BY <1>1, <1>2, <1>10, <1>11, OpensKeeps
<1>13. ASSUME PagesFit, PageInv PROVE HasPage(paging')
  <2> DEFINE c == level + 1
             o == Tree[c + 1][Len(Tree[c + 1])].pages
             m == Tree[c][j + 1].pages
  <2>1. c \in 3 .. Len(Tree) - 1 /\ c + 1 = level + 2
    BY <1>3
  <2>2. Tree[c][j + 1].nested /\ j + 1 \in 1 .. Len(Tree[c])
    BY <1>7
  <2>3. o <= m
    <3> HIDE DEF c, j
    <3> QED BY <1>13, <2>1, <2>2, Zenon DEF PagesFit
  <2>4. /\ paging.pageIdx = paging.pageCount - 1 /\ paging.itemIdx = paging.itemCount - 1
        /\ paging.pageIdx \in 0 .. paging.pageCount - 1
    BY <1>1, <1>13 DEF PageInv, HasPage, Inspecting
  <2>5. paging.pageCount = o
    <3>1. paging.itemIdx + 1 = paging.itemCount
      <4>1. paging.itemCount \in Int
        BY <1>2 DEF StandsIn, Cursors
      <4> QED BY <2>4, <4>1
    <3>2. paging.itemCount = Len(ListAt(level)) /\ paging.pageCount = ListAt(level)[paging.itemIdx + 1].pages
      BY <1>2 DEF StandsIn
    <3>3. ListAt(level) = Tree[c + 1]
      BY <2>1, Zenon DEF ListAt
    <3> QED BY <3>1, <3>2, <3>3, Zenon
  <2>6. m \in 1 .. 254 /\ m = ListAt(l)[j + 1].pages
    BY <1>7, <1>8, Zenon
  <2> HIDE DEF m, o
  <2>7. paging.pageIdx \in 0 .. m - 1
    <3>1. paging.pageCount \in Int
      BY <1>2 DEF StandsIn, Cursors
    <3> QED BY <2>3, <2>4, <2>5, <2>6, <3>1
  <2> QED BY <1>10, <2>6, <2>7
<1>14. paging'.itemIdx = path[level + 1]
  BY <1>10
<1> QED BY <1>1, <1>10, <1>12, <1>13, <1>14

(* Out of the lists, to the review.                                        *)
LEMMA WayOut ==
    ASSUME WayInv, Inspecting, NEW l, h_rootTxn(l, trace)
    PROVE  WayInv' /\ PageInv' /\ vd' = vd /\ at' = "page"
<1>1. /\ vd \in RootCursors /\ trace \in [0 .. MAX_DEPTH - 1 -> Nat] /\ flow_inside_inspect_loop \in BOOLEAN
      /\ level \in Nat /\ path[1] = vd.itemIdx /\ \A k \in 0 .. level : trace[k] = path[k + 1]
  BY DEF WayInv, WayKnown, IsLevel
<1>2. trace[0] = vd.itemIdx
  <2>1. 0 \in 0 .. level /\ 0 + 1 = 1
    BY <1>1
  <2> QED BY <1>1, <2>1, Zenon
<1>3. vd' = vd /\ at' = "page"
  BY <1>1, <1>2, OutAndBack
<1>4. trace' = trace /\ flow_inside_inspect_loop' = flow_inside_inspect_loop
  BY DEF h_rootTxn
<1> QED BY <1>1, <1>3, <1>4 DEF WayInv, PageInv, Inspecting

(* A double press on a page of the review.                                 *)
LEMMA FromTheReview ==
    ASSUME WayInv, inspect_init
    PROVE  WayInv' /\ PageInv' /\ vd' = vd
<1> DEFINE root == [trace EXCEPT ![0] = vd.itemIdx]
<1>1. /\ vd \in RootCursors /\ trace \in [0 .. MAX_DEPTH - 1 -> Nat] /\ flow_inside_inspect_loop \in BOOLEAN
      /\ 0 \in 0 .. MAX_DEPTH - 1 /\ vd.itemIdx \in Nat
  BY ItemOfReview, TreeAssumption DEF WayInv
<1>2. root[0] = vd.itemIdx /\ root \in [0 .. MAX_DEPTH - 1 -> Nat]
  BY <1>1
<1>3. CASE h_rootTxn(0, root)
  <2>1. vd' = vd /\ at' = "page"
    BY <1>1, <1>2, <1>3, OutAndBack
  <2>2. trace' = root /\ flow_inside_inspect_loop' = flow_inside_inspect_loop
    BY <1>3 DEF h_rootTxn
  <2> QED BY <1>1, <1>2, <2>1, <2>2 DEF WayInv, PageInv, Inspecting
<1>4. CASE ~h_rootTxn(0, root)
  <2>1. /\ at = "page" /\ CanInspectItem(0, vd.itemIdx) /\ level' = 0 /\ trace' = root
        /\ path' = <<vd.itemIdx>> /\ vd' = vd /\ ShowList(0, FirstOfList, flow_inside_inspect_loop)
    BY <1>4 DEF inspect_init
  <2>2. WayInv' /\ HasPage(paging') /\ at' # "back"
    BY <2>1, InitOpens
  <2> QED BY <2>1, <2>2 DEF PageInv
<1> QED BY <1>3, <1>4

(* A turn to the right or to the left.                                     *)
LEMMA TurnKeeps ==
    ASSUME WayInv, Right \/ Left
    PROVE  /\ WayInv' /\ at' \in {"root", "item", "back"} /\ vd' = vd
           /\ PageInv => PageInv'
<1> DEFINE inside == flow_inside_inspect_loop
<1>1. /\ Inspecting /\ vd' = vd /\ level' = level /\ trace' = trace /\ path' = path
      /\ EnterStart(level, paging, inside) \/ EnterEnd(level, paging, inside)
  BY DEF Right, Left, Outer, Inspecting
<1>2. /\ WayKnown /\ StandsIn(level, paging) /\ IsLevel(level) /\ inside \in BOOLEAN
      /\ vd \in RootCursors /\ trace \in [0 .. MAX_DEPTH - 1 -> Nat]
  BY <1>1 DEF WayInv, WayKnown
<1>3. WayKnown' /\ vd' \in RootCursors /\ trace' \in [0 .. MAX_DEPTH - 1 -> Nat]
  BY <1>1, <1>2 DEF WayKnown
<1> HIDE DEF inside
<1>4. CASE EnterStart(level, paging, inside)
  <2>1. Opens(level, {"root", "item"}) /\ (HasPage(paging) => HasPage(paging'))
    BY <1>2, <1>4, EnterStartOpens
  <2>2. WayInv'
    BY <1>1, <1>3, <2>1, OpensKeeps
  <2>3. at' \in {"root", "item"}
    BY <2>1 DEF Opens
  <2> QED BY <1>1, <2>1, <2>2, <2>3 DEF PageInv
<1>5. CASE EnterEnd(level, paging, inside)
  <2>1. /\ Opens(level, {"item", "back"}) /\ (HasPage(paging) => HasPage(paging'))
        /\ at' = "back" /\ HasPage(paging) =>
             /\ paging'.itemIdx = paging'.itemCount - 1
             /\ paging'.pageIdx = paging'.pageCount - 1
    BY <1>2, <1>5, EnterEndOpens
  <2>2. WayInv'
    BY <1>1, <1>3, <2>1, OpensKeeps
  <2>3. at' \in {"item", "back"}
    BY <2>1 DEF Opens
  <2> QED BY <1>1, <2>1, <2>2, <2>3 DEF PageInv
<1> QED BY <1>1, <1>4, <1>5

-----------------------------------------------------------------------------
LEMMA WayInit == Init => WayInv /\ PageInv
<1> SUFFICES ASSUME Init PROVE WayInv /\ PageInv
  OBVIOUS
<1>1. trace \in [0 .. MAX_DEPTH - 1 -> Nat]
  BY DEF Init
<1> QED BY <1>1 DEF Init, WayInv, PageInv, Inspecting

(* What a step does to the way and to the page, and where it leads.        *)
LEMMA WayStep ==
    ASSUME InsideTrace, WayInv, [Next]_vars
    PROVE  /\ WayInv'
           /\ PagesFit /\ PageInv => PageInv'
           /\ at' = "page" /\ ~Walk => vd' = vd
           /\ h_back => IF level > 1
                          THEN at' = "item" /\ level' = level - 1 /\ paging'.itemIdx = path[level + 1]
                          ELSE at' = "page"
<1>0. h_back => IF level > 1
                  THEN at' = "item" /\ level' = level - 1 /\ paging'.itemIdx = path[level + 1]
                  ELSE at' = "page"
  BY OneListBack DEF h_back, h_rootTxn
<1> SUFFICES /\ WayInv'
             /\ PagesFit /\ PageInv => PageInv'
             /\ at' = "page" /\ ~Walk => vd' = vd
  BY <1>0
<1>1. CASE Walk
  <2>1. at' = "page" /\ vd' \in RootCursors /\ trace' = trace /\ at \in {"idle", "page"}
        /\ flow_inside_inspect_loop' = flow_inside_inspect_loop
    BY <1>1 DEF Walk, Inner
  <2> QED BY <1>1, <2>1 DEF WayInv, PageInv, Inspecting
<1>2. CASE inspect_init
  <2>1. at = "page"
    BY <1>2 DEF inspect_init
  <2> QED BY <1>2, <2>1, FromTheReview
<1>3. CASE h_inspect
  <2>1. WayInv' /\ at' = "item" /\ (PagesFit /\ HasPage(paging) => HasPage(paging'))
    BY <1>3, FurtherIn
  <2>2. at = "item"
    BY <1>3 DEF h_inspect
  <2> QED BY <2>1, <2>2 DEF PageInv, Inspecting
<1>4. CASE h_back
  <2>1. CASE level > 1
    BY <1>4, <2>1, OneListBack DEF PageInv
  <2>2. CASE ~(level > 1)
    <3>1. at = "back" /\ h_rootTxn(level, trace)
      BY <1>4, <2>2 DEF h_back
    <3> QED BY <2>2, <3>1, WayOut DEF Inspecting
  <2> QED BY <2>1, <2>2
<1>5. CASE GoToRoot
  <2>1. at = "root" /\ h_rootTxn(level, trace)
    BY <1>5 DEF GoToRoot
  <2> QED BY <2>1, WayOut DEF Inspecting
<1>6. CASE Right \/ Left
  <2>1. /\ WayInv' /\ at' \in {"root", "item", "back"} /\ vd' = vd
        /\ PageInv => PageInv'
    BY <1>6, TurnKeeps
  <2> QED BY <2>1
<1>7. CASE IoReset
  <2>1. /\ at' = "idle" /\ vd' = vd /\ trace' = trace
        /\ flow_inside_inspect_loop' = flow_inside_inspect_loop
    BY <1>7 DEF IoReset
  <2> QED BY <2>1 DEF WayInv, PageInv, Inspecting
<1>8. CASE UNCHANGED vars
  <2>1. /\ at' = at /\ vd' = vd /\ level' = level /\ trace' = trace /\ paging' = paging
        /\ flow_inside_inspect_loop' = flow_inside_inspect_loop /\ path' = path
    BY <1>8 DEF vars
  <2> QED BY <2>1 DEF WayInv, PageInv, Inspecting, WayKnown
<1> QED BY <1>1, <1>2, <1>3, <1>4, <1>5, <1>6, <1>7, <1>8 DEF Next

(* While lists are open the trace holds, level by level, the items through *)
(* which they were entered, whatever the pages of the items.               *)
THEOREM TraceIsTheWay ==
    ASSUME InsideTrace
    PROVE  Spec => []TraceIsPath
<1>1. Init => WayInv
  BY WayInit
<1>2. WayInv /\ [Next]_vars => WayInv'
  BY WayStep
<1>3. WayInv => TraceIsPath
  <2>1. SUFFICES ASSUME WayInv, Inspecting
                 PROVE  level = Len(path) - 1 /\ \A k \in 0 .. level : Traced(k) = path[k + 1]
    BY DEF TraceIsPath
  <2>2. WayKnown
    BY <2>1 DEF WayInv
  <2>3. level \in Nat /\ level < MAX_DEPTH /\ Len(path) = level + 1
    BY <2>2, TreeAssumption DEF WayKnown, IsLevel, InsideTrace
  <2>4. level = Len(path) - 1 /\ \A k \in 0 .. level : k < MAX_DEPTH
    BY <2>3, TreeAssumption
  <2> QED BY <2>2, <2>4 DEF WayKnown, Traced
<1> QED BY <1>1, <1>2, <1>3, PTL DEF Spec

(* If the pages of the items fit, so is the page shown one that its item   *)
(* has: the user of the lists stands on something that is there, and can   *)
(* go back the way she came.                                               *)
THEOREM KnowsTheWay ==
    ASSUME InsideTrace, PagesFit
    PROVE  Spec => []KnowsWhereItIs
<1>1. Init => WayInv /\ PageInv
  BY WayInit
<1>2. WayInv /\ PageInv /\ [Next]_vars => WayInv' /\ PageInv'
  BY WayStep
<1>3. WayInv /\ PageInv => InnerPageExists
  <2>1. SUFFICES ASSUME WayInv, PageInv, at = "item"
                 PROVE  paging.itemIdx < Len(ListAt(level)) /\ paging.pageIdx < paging.pageCount
    BY DEF InnerPageExists
  <2>2. StandsIn(level, paging) /\ HasPage(paging) /\ IsLevel(level)
    BY <2>1 DEF WayInv, PageInv, Inspecting, WayKnown
  <2>3. Len(ListAt(level)) \in 1 .. 128
    BY <2>2, LevelTyped
  <2> QED BY <2>2, <2>3 DEF StandsIn, HasPage, Cursors
<1> QED BY <1>1, <1>2, <1>3, TraceIsTheWay, PTL DEF Spec, KnowsWhereItIs

(* Leaving the inspection shows the very page of the review where it       *)
(* began.  BACK leaves it from the first list and, past the item it was    *)
(* entered through, from the second; from a deeper one it shows the item   *)
(* it was entered through.                                                 *)
THEOREM ReturnsToTheBeginning ==
    ASSUME InsideTrace
    PROVE  Spec => ReturnsWhereItBegan
<1>1. Init => WayInv
  BY WayInit
<1>2. WayInv /\ [Next]_vars => WayInv'
  BY WayStep
<1>3. WayInv /\ [Next]_vars =>
        /\ [at' = "page" /\ ~Walk => vd' = vd]_vars
        /\ [h_back => IF level > 1
                        THEN at' = "item" /\ level' = level - 1 /\ paging'.itemIdx = path[level + 1]
                        ELSE at' = "page" /\ vd' = vd]_vars
  <2>1. h_back => ~Walk
    BY DEF h_back, Walk
  <2> QED BY <2>1, WayStep
<1> QED BY <1>1, <1>2, <1>3, PTL DEF Spec, ReturnsWhereItBegan, ReturnsToPage, BackLeadsUp

-----------------------------------------------------------------------------
(* The items of the EVM part, read page by page.  Sequences that are       *)
(* joined turn by turn.                                                    *)

(* What holds before the first turn, and after a turn if it held before    *)
(* it, holds after all of them.                                            *)
LEMMA TurnByTurn ==
    ASSUME NEW N \in Nat, NEW T, 0 \in T, \A k \in 1 .. N : k - 1 \in T => k \in T
    PROVE  N \in T
<1> DEFINE U == {k \in Nat : k <= N /\ k \notin T}
<1>1. SUFFICES ASSUME U # {} PROVE FALSE
  <2>1. N \notin T => N \in U
    OBVIOUS
  <2> QED BY <2>1
<1>2. U \in SUBSET Nat
  OBVIOUS
<1> HIDE DEF U
<1>3. PICK x \in U : \A y \in U : x <= y
  BY <1>1, <1>2, LeastElement
<1>4. x \in Nat /\ x <= N /\ x \notin T /\ x # 0
  BY <1>3 DEF U
<1>5. x \in 1 .. N /\ x - 1 \in Nat /\ x - 1 <= N /\ ~(x <= x - 1)
  BY <1>4
<1>6. x - 1 \in T
  BY <1>3, <1>5 DEF U
<1> QED
  BY <1>4, <1>5, <1>6

(* f holds what FlattenSeq has joined after each of the sequences of g.    *)
Joins(g, n, f) ==
    f[0] = << >> /\ \A k \in 1 .. n : f[k] = f[k - 1] \o g[k]

(* FlattenSeq joins the sequences one after the other.                     *)
LEMMA FlattenJoins ==
    ASSUME NEW S, NEW n \in Nat, n # 0, NEW g \in [1 .. n -> Seq(S)], NEW f, Joins(g, n, f)
    PROVE  FlattenSeq(g) = f[n]
<1> DEFINE flatten[i \in 1 .. Len(g)] == IF i = 1 THEN g[i] ELSE flatten[i - 1] \o g[i]
<1>1. Len(g) = n /\ 1 \in 1 .. n
  BY LenProperties
<1>2. FlattenSeq(g) = flatten[n]
  BY <1>1 DEF FlattenSeq
<1> HIDE DEF flatten
<1>3. f[0] = << >> /\ \A k \in 1 .. n : f[k] = f[k - 1] \o g[k]
  BY DEF Joins
<1>4. f[1] = g[1]
  <2>1. g[1] \in Seq(S) /\ f[1] = f[1 - 1] \o g[1] /\ 1 - 1 = 0
    BY <1>1, <1>3
  <2>2. f[1] = << >> \o g[1]
    BY <1>3, <2>1
  <2> QED BY <2>1, <2>2, ConcatEmptySeq
<1>5. flatten = [i \in 1 .. Len(g) |-> IF i = 1 THEN g[i] ELSE flatten[i - 1] \o g[i]]
  <2> DEFINE h == [i \in 1 .. n |-> f[i]]
  <2>1. ASSUME NEW i \in 1 .. n
        PROVE  h[i] = IF i = 1 THEN g[i] ELSE h[i - 1] \o g[i]
    <3>1. h[i] = f[i] /\ (i # 1 => h[i - 1] = f[i - 1])
      OBVIOUS
    <3> QED BY <1>3, <1>4, <3>1
  <2>2. h = [i \in 1 .. n |-> h[i]]
    OBVIOUS
  <2> HIDE DEF h
  <2>3. h = [i \in 1 .. n |-> IF i = 1 THEN g[i] ELSE h[i - 1] \o g[i]]
    BY <2>1, <2>2
  <2>4. \E e : e = [i \in 1 .. Len(g) |-> IF i = 1 THEN g[i] ELSE e[i - 1] \o g[i]]
    BY <1>1, <2>3
  <2> QED BY <2>4, Zenon DEF flatten
<1> DEFINE T == {k \in 0 .. n : k # 0 => flatten[k] = f[k]}
<1>6. 0 \in T
  OBVIOUS
<1>7. ASSUME NEW k \in 1 .. n, k - 1 \in T PROVE k \in T
  <2>1. flatten[k] = IF k = 1 THEN g[k] ELSE flatten[k - 1] \o g[k]
    BY <1>1, <1>5
  <2>2. k # 1 => flatten[k - 1] = f[k - 1]
    BY <1>7
  <2>3. flatten[k] = f[k]
    BY <1>3, <1>4, <2>1, <2>2
  <2> QED BY <2>3
<1> HIDE DEF T
<1>8. n \in T
  BY <1>6, <1>7, TurnByTurn
<1> QED
  BY <1>2, <1>8 DEF T

-----------------------------------------------------------------------------
(* A text cut at rising places: e[k] characters are in the first k pieces. *)
Cuts(len, n, e) ==
    /\ e \in [0 .. n -> Nat] /\ e[0] = 0 /\ e[n] = len
    /\ \A k \in 1 .. n : e[k - 1] <= e[k]
    /\ \A k \in 0 .. n : e[k] <= len

ArePieces(g, text, n, e) == g = [k \in 1 .. n |-> SubSeq(text, e[k - 1] + 1, e[k])]

(* Its pieces, one behind the other, are the text again.                   *)
LEMMA PiecesJoin ==
    ASSUME NEW S, NEW text \in Seq(S), NEW n \in Nat, n # 0, NEW e, Cuts(Len(text), n, e),
           NEW g, ArePieces(g, text, n, e)
    PROVE  FlattenSeq(g) = text
<1>0. g = [k \in 1 .. n |-> SubSeq(text, e[k - 1] + 1, e[k])]
  BY DEF ArePieces
<1>1. /\ e \in [0 .. n -> Nat] /\ e[0] = 0 /\ e[n] = Len(text)
      /\ \A k \in 1 .. n : e[k - 1] <= e[k]
      /\ \A k \in 0 .. n : e[k] <= Len(text)
  BY DEF Cuts
<1>2. ASSUME NEW a \in Nat, NEW b \in Nat, a <= b, b <= Len(text)
      PROVE  /\ SubSeq(text, a + 1, b) \in Seq(S)
             /\ SubSeq(text, 1, a) \o SubSeq(text, a + 1, b) = SubSeq(text, 1, b)
  <2>1. \A k \in (a + 1) .. b : text[k] \in S
    BY <1>2, ElementOfSeq
  <2> QED BY <1>2, <2>1, SubSeqProperties, ConcatAdjacentSubSeq
<1> DEFINE f == [k \in 0 .. n |-> SubSeq(text, 1, e[k])]
<1>3. g \in [1 .. n -> Seq(S)]
  <2>1. ASSUME NEW k \in 1 .. n PROVE SubSeq(text, e[k - 1] + 1, e[k]) \in Seq(S)
    <3>1. k - 1 \in 0 .. n /\ k \in 0 .. n
      OBVIOUS
    <3> QED BY <1>1, <1>2, <3>1
  <2> QED BY <1>0, <2>1
<1>4. f[0] = << >>
  BY <1>1, SubSeqEmpty
<1>5. ASSUME NEW k \in 1 .. n PROVE f[k] = f[k - 1] \o g[k]
  <2>1. k - 1 \in 0 .. n /\ k \in 0 .. n
    OBVIOUS
  <2>2. e[k - 1] \in Nat /\ e[k] \in Nat /\ e[k - 1] <= e[k] /\ e[k] <= Len(text)
    BY <1>1, <2>1
  <2>3. SubSeq(text, 1, e[k - 1]) \o SubSeq(text, e[k - 1] + 1, e[k]) = SubSeq(text, 1, e[k])
    BY <1>2, <2>2
  <2> QED BY <1>0, <2>1, <2>3
<1>6. f[n] = text
  BY <1>1, SubSeqFull
<1> HIDE DEF f
<1>7. Joins(g, n, f)
  BY <1>4, <1>5 DEF Joins
<1> QED
  BY <1>3, <1>6, <1>7, FlattenJoins

-----------------------------------------------------------------------------
(* A product of two numbers is no smaller with a larger factor.            *)
LEMMA MoreTimes ==
    ASSUME NEW a \in Nat, NEW b \in Nat, NEW p \in Nat, a <= b
    PROVE  a * p <= b * p /\ a * p \in Nat
<1>1. PICK d \in Nat : b = a + d
  <2>1. b - a \in Nat /\ b = a + (b - a)
    OBVIOUS
  <2> QED BY <2>1
<1>2. b * p = a * p + d * p /\ d * p >= 0 /\ a * p >= 0
  BY <1>1
<1> QED
  BY <1>2

(* Quotient and remainder.                                                 *)
LEMMA Divided ==
    ASSUME NEW len \in Nat, NEW p \in Nat, p # 0
    PROVE  /\ len \div p \in Nat /\ len % p \in 0 .. p - 1
           /\ len = ((len \div p) * p) + (len % p)
  OBVIOUS

(* How many pages a text has, and where they end, while a byte can count   *)
(* them.                                                                   *)
PageEnd(len, perPage, n, k) == IF k = n THEN len ELSE k * perPage
PageEnds(len, perPage, n) == [k \in 0 .. n |-> PageEnd(len, perPage, n, k)]

LEMMA PagesEnd ==
    ASSUME NEW len \in Nat, len # 0, NEW p \in Nat, p # 0, len <= 255 * p,
           NEW n, n = Pages(len, p)
    PROVE  /\ n \in Nat /\ n # 0 /\ n <= 255
           /\ n = (len \div p) + (IF len % p > 0 THEN 1 ELSE 0)
           /\ \A k \in 0 .. n : k * p \in Nat /\ (k < n => k * p < len)
           /\ len <= n * p
<1> DEFINE q == len \div p
           r == len % p
           d == IF r > 0 THEN 1 ELSE 0
<1>1. q \in Nat /\ r \in 0 .. p - 1 /\ len = q * p + r
  BY Divided
<1>2. n = (q + d) % 256
  BY DEF Pages
<1> HIDE DEF q, r
<1>3. q <= 255 /\ (q = 255 => r = 0)
  <2>1. CASE q >= 256
    <3>1. 256 * p <= q * p
      BY <1>1, <2>1, MoreTimes
    <3> QED BY <1>1, <3>1
  <2> QED BY <1>1, <2>1
<1>4. n = q + d /\ n <= 255 /\ n \in Nat
  BY <1>1, <1>2, <1>3
<1>5. n # 0
  BY <1>1, <1>4
<1>6. ASSUME NEW k \in 0 .. n PROVE k * p \in Nat /\ (k < n => k * p < len)
  <2>1. k * p \in Nat
    BY <1>4, MoreTimes
  <2>2. CASE k < n /\ r > 0
    <3>1. k * p <= q * p
      BY <1>1, <1>4, <2>2, MoreTimes
    <3> QED BY <1>1, <2>1, <2>2, <3>1
  <2>3. CASE k < n /\ r = 0
    <3>1. (k + 1) * p <= q * p /\ (k + 1) * p = k * p + p
      BY <1>1, <1>4, <2>3, MoreTimes
    <3> QED BY <1>1, <2>1, <2>3, <3>1
  <2> QED BY <1>1, <2>1, <2>2, <2>3
<1>7. len <= n * p
  BY <1>1, <1>4
<1> QED
  BY <1>4, <1>5, <1>6, <1>7 DEF q, r

(* The ends of the pages rise from the beginning to the end of the text.   *)
LEMMA EndsRise ==
    ASSUME NEW len \in Nat, len # 0, NEW p \in Nat, p # 0, len <= 255 * p,
           NEW n, n = Pages(len, p), NEW e, e = PageEnds(len, p, n)
    PROVE  n \in Nat /\ n # 0 /\ Cuts(len, n, e)
<1>1. /\ n \in Nat /\ n # 0 /\ n <= 255
      /\ \A k \in 0 .. n : k * p \in Nat /\ (k < n => k * p < len)
  BY PagesEnd
<1>2. e = [k \in 0 .. n |-> e[k]] /\ \A k \in 0 .. n : e[k] = IF k = n THEN len ELSE k * p
  BY DEF PageEnd, PageEnds
<1>3. \A k \in 0 .. n : e[k] \in Nat /\ e[k] <= len
  BY <1>1, <1>2
<1>4. e[0] = 0 /\ e[n] = len
  <2>1. 0 \in 0 .. n /\ n \in 0 .. n /\ 0 * p = 0
    BY <1>1
  <2> QED BY <1>1, <1>2, <2>1
<1>5. ASSUME NEW k \in 1 .. n PROVE e[k - 1] <= e[k]
  <2>1. k - 1 \in 0 .. n /\ k \in 0 .. n /\ k - 1 # n
    BY <1>1
  <2>2. (k - 1) * p <= k * p
    BY <2>1, MoreTimes
  <2> QED BY <1>1, <1>2, <1>3, <2>1, <2>2
<1>6. e \in [0 .. n -> Nat]
  BY <1>2, <1>3
<1> QED
  BY <1>1, <1>3, <1>4, <1>5, <1>6 DEF Cuts

(* A page is what is between two ends.                                     *)
LEMMA PageCut ==
    ASSUME NEW S, NEW text \in Seq(S), text # << >>, NEW p \in Nat, p # 0, Len(text) <= 255 * p,
           NEW n, n = Pages(Len(text), p), NEW k \in 1 .. n
    PROVE  Page(text, p, k - 1, n) =
             SubSeq(text, PageEnd(Len(text), p, n, k - 1) + 1, PageEnd(Len(text), p, n, k))
<1> DEFINE len == Len(text)
           r == len % p
           q == len \div p
<1>1. len \in Nat /\ len # 0
  BY LenProperties, EmptySeq
<1> HIDE DEF len
<1>2. /\ n \in Nat /\ n # 0
      /\ n = q + (IF r > 0 THEN 1 ELSE 0)
  BY <1>1, PagesEnd DEF len
<1>3. q \in Nat /\ r \in 0 .. p - 1 /\ len = (q * p) + r
  BY <1>1, Divided
<1>4. Page(text, p, k - 1, n) =
        SubSeq(text, (k - 1) * p + 1, (k - 1) * p + (IF r > 0 /\ k - 1 = n - 1 THEN r ELSE p))
  <2>1. ~(k - 1 >= n)
    BY <1>2
  <2> QED BY <2>1, Zenon DEF Page, len
<1> HIDE DEF q, r
<1>5. k - 1 # n /\ PageEnd(len, p, n, k - 1) = (k - 1) * p
  BY <1>2 DEF PageEnd
<1>6. PageEnd(len, p, n, k) = (k - 1) * p + (IF r > 0 /\ k - 1 = n - 1 THEN r ELSE p)
  <2>1. CASE k # n
    <3>1. k - 1 # n - 1 /\ (k - 1) * p + p = k * p
      BY <1>2, <2>1
    <3> QED BY <2>1, <3>1 DEF PageEnd
  <2>2. CASE k = n /\ r > 0
    <3>1. k - 1 = q
      BY <1>2, <1>3, <2>2
    <3> QED BY <1>3, <2>2, <3>1 DEF PageEnd
  <2>3. CASE k = n /\ ~(r > 0)
    <3>1. k = q /\ (k - 1) * p + p = k * p /\ r = 0
      BY <1>2, <1>3, <2>3
    <3> QED BY <1>3, <2>3, <3>1 DEF PageEnd
  <2> QED BY <2>1, <2>2, <2>3
<1> QED
  BY <1>4, <1>5, <1>6 DEF len

(* The pages of a text, one behind the other, are the text.                *)
LEMMA PagesJoin ==
    ASSUME NEW S, NEW text \in Seq(S), text # << >>, NEW p \in Nat, p # 0, Len(text) <= 255 * p,
           NEW n, n = Pages(Len(text), p)
    PROVE  FlattenSeq([k \in 1 .. n |-> Page(text, p, k - 1, n)]) = text
<1> DEFINE len == Len(text)
           e == PageEnds(len, p, n)
           g == [k \in 1 .. n |-> Page(text, p, k - 1, n)]
<1>1. len \in Nat /\ len # 0 /\ len <= 255 * p
  BY LenProperties, EmptySeq
<1>2. e = PageEnds(len, p, n) /\ n = Pages(len, p)
  OBVIOUS
<1>3. g = [k \in 1 .. n |-> Page(text, p, k - 1, n)]
  OBVIOUS
<1> HIDE DEF e, g
<1>4. n \in Nat /\ n # 0 /\ Cuts(len, n, e)
  <2> HIDE DEF len
  <2> QED BY <1>1, <1>2, EndsRise
<1>5. ArePieces(g, text, n, e)
  <2>1. ASSUME NEW k \in 1 .. n PROVE Page(text, p, k - 1, n) = SubSeq(text, e[k - 1] + 1, e[k])
    <3>1. k - 1 \in 0 .. n /\ k \in 0 .. n
      BY <1>4
    <3>2. /\ e[k - 1] = PageEnd(len, p, n, k - 1)
          /\ e[k] = PageEnd(len, p, n, k)
      BY <1>2, <3>1 DEF PageEnds
    <3> QED BY <3>2, PageCut
  <2> QED BY <1>3, <2>1 DEF ArePieces
<1>6. FlattenSeq(g) = text
  BY <1>4, <1>5, PiecesJoin, Zenon
<1> QED
  BY <1>6, <1>3

-----------------------------------------------------------------------------
(* Bytes are numbers.                                                      *)
LEMMA BytesAreNumbers == \A x \in Byte : x \in Int
  BY DEF Byte

(* Bytes in hexadecimal digits, two for each.                              *)
LEMMA HexTyped ==
    ASSUME NEW b \in Seq(Byte)
    PROVE  Hex(b) \in Seq(Int) /\ Len(Hex(b)) = 2 * Len(b)
<1> DEFINE n == 2 * Len(b)
<1>1. n \in Nat
  BY LenProperties
<1>2. Hex(b) = [k \in 1 .. n |-> Hex(b)[k]] /\ \A k \in 1 .. n : Hex(b)[k] \in Int
  <2>1. ASSUME NEW k \in 1 .. n PROVE b[(k + 1) \div 2] \in Int
    <3>1. (k + 1) \div 2 \in 1 .. Len(b)
      BY <1>1
    <3>2. b[(k + 1) \div 2] \in Byte
      BY <3>1, ElementOfSeq
    <3> QED BY <3>2, BytesAreNumbers, Zenon
  <2> QED BY <2>1 DEF Hex, HexDigit, Zero
<1> QED
  BY <1>1, <1>2, IsASeq

(* The digits of some of the bytes are some of the digits.                 *)
LEMMA HexOfPiece ==
    ASSUME NEW b \in Seq(Byte), NEW x \in Nat, NEW y \in Nat, x <= y, y <= Len(b)
    PROVE  /\ SubSeq(b, x + 1, y) \in Seq(Byte) /\ Len(SubSeq(b, x + 1, y)) = y - x
           /\ Hex(SubSeq(b, x + 1, y)) = SubSeq(Hex(b), 2 * x + 1, 2 * y)
<1> DEFINE piece == SubSeq(b, x + 1, y)
           n == 2 * (y - x)
<1>1. \A k \in (x + 1) .. y : b[k] \in Byte
  BY ElementOfSeq
<1>2. /\ piece \in Seq(Byte) /\ Len(piece) = y - x
      /\ \A k \in 1 .. y - x : piece[k] = b[x + k]
  BY <1>1, SubSeqProperties
<1>3. Hex(b) \in Seq(Int) /\ Len(Hex(b)) = 2 * Len(b) /\ Len(b) \in Nat
  BY HexTyped, LenProperties
<1>4. \A k \in (2 * x + 1) .. 2 * y : Hex(b)[k] \in Int
  BY <1>3, ElementOfSeq
<1>5. /\ SubSeq(Hex(b), 2 * x + 1, 2 * y) \in Seq(Int)
      /\ Len(SubSeq(Hex(b), 2 * x + 1, 2 * y)) = n
      /\ \A k \in 1 .. n : SubSeq(Hex(b), 2 * x + 1, 2 * y)[k] = Hex(b)[2 * x + k]
  BY <1>4, SubSeqProperties
<1> HIDE DEF piece
<1>6. Hex(piece) \in Seq(Int) /\ Len(Hex(piece)) = n
  BY <1>2, HexTyped
<1>7. ASSUME NEW k \in 1 .. n PROVE Hex(piece)[k] = Hex(b)[2 * x + k]
  <2>1. /\ (k + 1) \div 2 \in 1 .. y - x /\ 2 * x + k \in 1 .. 2 * Len(b)
        /\ (2 * x + k + 1) \div 2 = x + ((k + 1) \div 2)
        /\ (2 * x + k) % 2 = k % 2
    BY <1>3
  <2>2. piece[(k + 1) \div 2] = b[(2 * x + k + 1) \div 2]
    BY <1>2, <2>1
  <2> QED BY <1>2, <2>1, <2>2 DEF Hex
<1>8. Hex(piece) = SubSeq(Hex(b), 2 * x + 1, 2 * y)
  BY <1>5, <1>6, <1>7, SeqEqual
<1> QED
  BY <1>2, <1>8 DEF piece

(* The pages of some bytes in hexadecimal digits, one behind the other,    *)
(* are the digits of them all, and no page has more bytes than fit.        *)
LEMMA HexPagesJoin ==
    ASSUME NEW b \in Seq(Byte), b # << >>, NEW p \in Nat, p # 0, Len(b) <= 255 * p,
           NEW n, n = Pages(Len(b), p)
    PROVE  /\ FlattenSeq([k \in 1 .. n |-> Hex(Page(b, p, k - 1, n))]) = Hex(b)
           /\ \A k \in 1 .. n : Len(Page(b, p, k - 1, n)) \in Nat /\ Len(Page(b, p, k - 1, n)) <= p
<1> DEFINE len == Len(b)
           e == PageEnds(len, p, n)
           d == [k \in 0 .. n |-> 2 * e[k]]
           g == [k \in 1 .. n |-> Hex(Page(b, p, k - 1, n))]
<1>1. len \in Nat /\ len # 0 /\ len <= 255 * p
  BY LenProperties, EmptySeq
<1>2. e = PageEnds(len, p, n) /\ n = Pages(len, p)
  OBVIOUS
<1>3. g = [k \in 1 .. n |-> Hex(Page(b, p, k - 1, n))]
  OBVIOUS
<1>4. d = [k \in 0 .. n |-> 2 * e[k]]
  OBVIOUS
<1> HIDE DEF d, e, g
<1>5. n \in Nat /\ n # 0 /\ Cuts(len, n, e)
  <2> HIDE DEF len
  <2> QED BY <1>1, <1>2, EndsRise
<1>6. /\ e \in [0 .. n -> Nat] /\ e[0] = 0 /\ e[n] = len
      /\ \A k \in 1 .. n : e[k - 1] <= e[k]
      /\ \A k \in 0 .. n : e[k] <= len
  BY <1>5 DEF Cuts
<1>7. ASSUME NEW k \in 1 .. n
      PROVE  /\ e[k - 1] \in Nat /\ e[k] \in Nat /\ e[k - 1] <= e[k] /\ e[k] <= len
             /\ Page(b, p, k - 1, n) = SubSeq(b, e[k - 1] + 1, e[k])
             /\ e[k] <= e[k - 1] + p
  <2>1. k - 1 \in 0 .. n /\ k \in 0 .. n /\ k - 1 # n
    BY <1>5
  <2>2. /\ e[k - 1] = PageEnd(len, p, n, k - 1)
        /\ e[k] = PageEnd(len, p, n, k)
    BY <1>2, <2>1 DEF PageEnds
  <2>3. Page(b, p, k - 1, n) = SubSeq(b, e[k - 1] + 1, e[k])
    BY <2>2, PageCut
  <2>4. len <= n * p
    <3> HIDE DEF len
    <3> QED BY <1>1, <1>2, PagesEnd
  <2>5. (k - 1) * p + p = k * p /\ k * p \in Nat
    BY <2>1, MoreTimes
  <2>6. e[k] <= e[k - 1] + p
    BY <1>1, <2>1, <2>2, <2>4, <2>5 DEF PageEnd
  <2> QED BY <1>6, <2>1, <2>3, <2>6
<1>8. ASSUME NEW k \in 1 .. n
      PROVE  /\ Hex(Page(b, p, k - 1, n)) = SubSeq(Hex(b), 2 * e[k - 1] + 1, 2 * e[k])
             /\ Len(Page(b, p, k - 1, n)) \in Nat /\ Len(Page(b, p, k - 1, n)) <= p
  <2>1. /\ Hex(SubSeq(b, e[k - 1] + 1, e[k])) = SubSeq(Hex(b), 2 * e[k - 1] + 1, 2 * e[k])
        /\ Len(SubSeq(b, e[k - 1] + 1, e[k])) = e[k] - e[k - 1]
    BY <1>7, HexOfPiece
  <2>2. e[k] - e[k - 1] \in Nat /\ e[k] - e[k - 1] <= p
    BY <1>7
  <2>3. Page(b, p, k - 1, n) = SubSeq(b, e[k - 1] + 1, e[k])
    BY <1>7
  <2> HIDE DEF len
  <2> QED BY <2>1, <2>2, <2>3
<1>9. Hex(b) \in Seq(Int) /\ Len(Hex(b)) = 2 * len
  BY HexTyped
<1>10. Cuts(Len(Hex(b)), n, d)
  <2>1. \A k \in 0 .. n : d[k] = 2 * e[k] /\ d[k] \in Nat /\ d[k] <= 2 * len
    BY <1>1, <1>4, <1>6
  <2>2. d \in [0 .. n -> Nat]
    BY <1>4, <2>1
  <2>3. d[0] = 0 /\ d[n] = 2 * len
    BY <1>5, <1>6, <2>1
  <2>4. ASSUME NEW k \in 1 .. n PROVE d[k - 1] <= d[k]
    <3>1. k - 1 \in 0 .. n /\ k \in 0 .. n
      BY <1>5
    <3>2. d[k - 1] = 2 * e[k - 1] /\ d[k] = 2 * e[k]
      BY <2>1, <3>1
    <3> QED BY <1>7, <3>2
  <2> QED BY <1>9, <2>1, <2>2, <2>3, <2>4 DEF Cuts
<1>11. ArePieces(g, Hex(b), n, d)
  <2>1. ASSUME NEW k \in 1 .. n PROVE Hex(Page(b, p, k - 1, n)) = SubSeq(Hex(b), d[k - 1] + 1, d[k])
    <3>1. k - 1 \in 0 .. n /\ k \in 0 .. n
      BY <1>5
    <3> QED BY <1>4, <1>8, <3>1
  <2> QED BY <1>3, <2>1 DEF ArePieces
<1>12. FlattenSeq(g) = Hex(b)
  BY <1>5, <1>9, <1>10, <1>11, PiecesJoin, Zenon
<1> QED
  BY <1>3, <1>8, <1>12

-----------------------------------------------------------------------------
(* A text is read whole when all its pages have been: n is their number,   *)
(* v what each of them shows.                                              *)
ReadWhole(text, n, v) == n \in Nat /\ (n # 0 => FlattenSeq([k \in 1 .. n |-> v[k - 1]]) = text)

TextWhole(room, text) ==
    \E n : /\ \A k : pageStringExt(room, text, k).pageCount = n
           /\ ReadWhole(text, n, [k \in Int |-> pageStringExt(room, text, k).out])

HexWhole(room, b) ==
    \E n : /\ \A k : pageStringHex(room, b, k).pageCount = n
           /\ ReadWhole(Hex(b), n, [k \in Int |-> pageStringHex(room, b, k).out])

(* A text on pages of a byte less than the room.                           *)
LEMMA TextPaged ==
    ASSUME NEW S, NEW text \in Seq(S), NEW room \in Nat, room > 1, Len(text) <= 255 * (room - 1)
    PROVE  TextWhole(room, text)
<1>1. CASE text = << >>
  <2>1. \A k : pageStringExt(room, text, k).pageCount = 0
    BY <1>1 DEF pageStringExt, NoPages
  <2> QED BY <2>1 DEF ReadWhole, TextWhole
<1>2. CASE text # << >>
  <2> DEFINE p == room - 1
             n == Pages(Len(text), p)
             v == [k \in Int |-> pageStringExt(room, text, k).out]
  <2>1. p \in Nat /\ p # 0 /\ Len(text) <= 255 * p
    OBVIOUS
  <2>2. \A k : /\ pageStringExt(room, text, k).pageCount = n
               /\ pageStringExt(room, text, k).out = Page(text, p, k, n)
    BY <1>2 DEF pageStringExt
  <2>3. Len(text) \in Nat /\ Len(text) # 0
    BY <1>2, LenProperties, EmptySeq
  <2> HIDE DEF p
  <2>4. n \in Nat
    BY <2>1, <2>3, PagesEnd
  <2>5. FlattenSeq([k \in 1 .. n |-> Page(text, p, k - 1, n)]) = text
    BY <1>2, <2>1, PagesJoin
  <2> HIDE DEF n
  <2>6. [k \in 1 .. n |-> v[k - 1]] = [k \in 1 .. n |-> Page(text, p, k - 1, n)]
    <3>1. \A k \in 1 .. n : v[k - 1] = Page(text, p, k - 1, n)
      BY <2>2, <2>4
    <3> HIDE DEF v
    <3> QED BY <3>1
  <2> HIDE DEF v
  <2>7. ReadWhole(text, n, v)
    BY <2>4, <2>5, <2>6 DEF ReadWhole
  <2> QED BY <2>2, <2>7 DEF v, TextWhole
<1> QED
  BY <1>1, <1>2

(* Bytes in hexadecimal digits, half as many on a page.                    *)
LEMMA HexPaged ==
    ASSUME NEW b \in Seq(Byte), NEW room \in Nat, room > 2, Len(b) <= 255 * ((room - 1) \div 2)
    PROVE  HexWhole(room, b)
<1>1. CASE b = << >>
  <2>1. \A k : pageStringHex(room, b, k).pageCount = 0
    BY <1>1 DEF pageStringHex, NoPages
  <2> QED BY <2>1 DEF ReadWhole, HexWhole
<1>2. CASE b # << >>
  <2> DEFINE p == (room - 1) \div 2
             n == Pages(Len(b), p)
             v == [k \in Int |-> pageStringHex(room, b, k).out]
  <2>1. p \in Nat /\ p # 0 /\ Len(b) <= 255 * p /\ 2 * p + 1 <= room
    OBVIOUS
  <2>2. \A k : /\ pageStringHex(room, b, k).pageCount = n
               /\ pageStringHex(room, b, k).out = array_to_hexstr(room, Page(b, p, k, n))
    BY <1>2 DEF pageStringHex
  <2>3. Len(b) \in Nat /\ Len(b) # 0
    BY <1>2, LenProperties, EmptySeq
  <2> HIDE DEF p
  <2>4. n \in Nat
    BY <2>1, <2>3, PagesEnd
  <2>5. /\ FlattenSeq([k \in 1 .. n |-> Hex(Page(b, p, k - 1, n))]) = Hex(b)
        /\ \A k \in 1 .. n : Len(Page(b, p, k - 1, n)) \in Nat /\ Len(Page(b, p, k - 1, n)) <= p
    BY <1>2, <2>1, HexPagesJoin
  <2> HIDE DEF n
  <2>6. [k \in 1 .. n |-> v[k - 1]] = [k \in 1 .. n |-> Hex(Page(b, p, k - 1, n))]
    <3>1. ASSUME NEW k \in 1 .. n PROVE v[k - 1] = Hex(Page(b, p, k - 1, n))
      <4>1. v[k - 1] = array_to_hexstr(room, Page(b, p, k - 1, n))
        BY <2>2, <2>4
      <4>2. ~(room < 2 * Len(Page(b, p, k - 1, n)) + 1)
        BY <2>1, <2>5
      <4> QED BY <4>1, <4>2 DEF array_to_hexstr
    <3> HIDE DEF v
    <3> QED BY <3>1
  <2> HIDE DEF v
  <2>7. ReadWhole(Hex(b), n, v)
    BY <2>4, <2>5, <2>6 DEF ReadWhole
  <2> QED BY <2>2, <2>7 DEF v, HexWhole
<1> QED
  BY <1>1, <1>2

-----------------------------------------------------------------------------
(* What the reader of an item has on the screen and has read.              *)

(* Items of fewer than 256 pages, so that a byte counts them.              *)
FewPages ==
    /\ \A m \in Messages : Len(m) <= 255 * (IF Printable(m) THEN PageLen - 1 ELSE (PageLen - 1) \div 2)
    /\ Len(Address) <= 255 * (PageLen - 1)

Subjects ==
    [kind : {"message"}, message : Messages] \cup [kind : {"address"}, path : Paths]
    \cup [kind : {"transfer"}, value : Amounts, token : Tokens, to : {b \in Messages : Len(b) = 4}]

ReadInv ==
    /\ item \in 0 .. NumItems(subject) - 1
    /\ shown = getItem(subject, item, page)
    /\ page \in DOMAIN read
    /\ \A k \in DOMAIN read : read[k] = getItem(subject, item, k).value

SubjectInv == subject \in Subjects \cup {Nobody} /\ (subject # Nobody => ReadInv)

(* The pages read in any order are the text when they are all there.       *)
LEMMA TogetherIs ==
    ASSUME NEW text, NEW n, NEW v, ReadWhole(text, n, v), DOMAIN read = 0 .. n - 1, page \in DOMAIN read,
           \A k \in DOMAIN read : read[k] = v[k]
    PROVE  Together = text
<1>1. n \in Nat /\ n # 0 /\ FlattenSeq([k \in 1 .. n |-> v[k - 1]]) = text
  BY DEF ReadWhole
<1>2. Cardinality(0 .. n - 1) = n
  <2>1. 0 \in Int /\ n - 1 \in Int /\ ~(0 > n - 1) /\ (n - 1) - 0 + 1 = n
    BY <1>1
  <2> QED BY <2>1, FS_Interval
<1>3. [k \in 1 .. n |-> read[k - 1]] = [k \in 1 .. n |-> v[k - 1]]
  <2>1. ASSUME NEW k \in 1 .. n PROVE read[k - 1] = v[k - 1]
    <3>1. k - 1 \in 0 .. n - 1
      BY <1>1
    <3> QED BY <3>1
  <2> QED BY <2>1
<1> QED
  BY <1>1, <1>2, <1>3 DEF Together

(* An item that shows a text is read whole when all its pages have been.   *)
LEMMA TextItemRead ==
    ASSUME NEW text, TextWhole(PageLen, text), ReadInv, NEW key,
           \A k : getItem(subject, item, k) = Answer("ok", key, pageStringExt(PageLen, text, k))
    PROVE  shown.err = "ok" /\ shown.key = key /\ (AllRead => Together = text)
<1>1. PICK n : /\ \A k : pageStringExt(PageLen, text, k).pageCount = n
               /\ ReadWhole(text, n, [k \in Int |-> pageStringExt(PageLen, text, k).out])
  BY Zenon DEF TextWhole
<1>2. /\ shown.err = "ok" /\ shown.key = key /\ shown.pageCount = n /\ page \in DOMAIN read
      /\ \A k \in DOMAIN read : read[k] = pageStringExt(PageLen, text, k).out
  BY <1>1 DEF ReadInv, Answer
<1>3. ASSUME AllRead PROVE Together = text
  <2> DEFINE v == [k \in Int |-> pageStringExt(PageLen, text, k).out]
  <2>1. n \in Nat /\ DOMAIN read = 0 .. n - 1
    BY <1>1, <1>2, <1>3 DEF AllRead, ReadWhole
  <2>2. \A k \in DOMAIN read : read[k] = v[k]
    BY <1>2, <2>1
  <2>3. ReadWhole(text, n, v)
    BY <1>1
  <2> HIDE DEF v
  <2> QED BY <1>2, <2>1, <2>2, <2>3, TogetherIs
<1> QED
  BY <1>2, <1>3

(* So is one that shows bytes in hexadecimal digits.                       *)
LEMMA HexItemRead ==
    ASSUME NEW text, HexWhole(PageLen, text), ReadInv, NEW key,
           \A k : getItem(subject, item, k) = Answer("ok", key, pageStringHex(PageLen, text, k))
    PROVE  shown.err = "ok" /\ shown.key = key /\ (AllRead => Together = Hex(text))
<1>1. PICK n : /\ \A k : pageStringHex(PageLen, text, k).pageCount = n
               /\ ReadWhole(Hex(text), n, [k \in Int |-> pageStringHex(PageLen, text, k).out])
  BY Zenon DEF HexWhole
<1>2. /\ shown.err = "ok" /\ shown.key = key /\ shown.pageCount = n /\ page \in DOMAIN read
      /\ \A k \in DOMAIN read : read[k] = pageStringHex(PageLen, text, k).out
  BY <1>1 DEF ReadInv, Answer
<1>3. ASSUME AllRead PROVE Together = Hex(text)
  <2> DEFINE v == [k \in Int |-> pageStringHex(PageLen, text, k).out]
  <2>1. n \in Nat /\ DOMAIN read = 0 .. n - 1
    BY <1>1, <1>2, <1>3 DEF AllRead, ReadWhole
  <2>2. \A k \in DOMAIN read : read[k] = v[k]
    BY <1>2, <2>1
  <2>3. ReadWhole(Hex(text), n, v)
    BY <1>1
  <2> HIDE DEF v
  <2> QED BY <1>2, <2>1, <2>2, <2>3, TogetherIs
<1> QED
  BY <1>2, <1>3

(* The message of a review.                                                *)
MessageText(m) == IF Printable(m) THEN m ELSE Hex(m)

LEMMA MessageRead ==
    ASSUME FewPages, subject \in Subjects, subject.kind = "message", ReadInv, item = 1
    PROVE  /\ shown.err = "ok"
           /\ shown.key = IF Printable(subject.message) THEN "Msg" ELSE "Msg hex"
           /\ AllRead => Together = MessageText(subject.message)
<1> DEFINE m == subject.message
<1>1. m \in Messages /\ m \in Seq(Byte) /\ PageLen \in Nat /\ PageLen > 2
  BY ItemsAssumption DEF Subjects
<1>2. \A k : getItem(subject, item, k) = eip191_msg_getItem(m, 1, k)
  BY Zenon DEF getItem
<1> HIDE DEF m
<1>3. CASE Printable(m)
  <2>1. Len(m) <= 255 * (PageLen - 1)
    BY <1>1, <1>3 DEF FewPages
  <2>2. TextWhole(PageLen, m)
    BY <1>1, <2>1, TextPaged
  <2>3. \A k : getItem(subject, item, k) = Answer("ok", "Msg", pageStringExt(PageLen, m, k))
    BY <1>2, <1>3 DEF eip191_msg_getItem
  <2>4. shown.err = "ok" /\ shown.key = "Msg" /\ (AllRead => Together = m)
    BY <2>2, <2>3, TextItemRead, Zenon
  <2> QED BY <1>3, <2>4, Zenon DEF MessageText, m
<1>4. CASE ~Printable(m)
  <2>1. Len(m) <= 255 * ((PageLen - 1) \div 2)
    BY <1>1, <1>4 DEF FewPages
  <2>2. HexWhole(PageLen, m)
    BY <1>1, <2>1, HexPaged
  <2>3. \A k : getItem(subject, item, k) = Answer("ok", "Msg hex", pageStringHex(PageLen, m, k))
    <3>1. \A k : eip191_msg_getItem(m, 1, k) = Answer("ok", "Msg hex", pageStringHex(PageLen, m, k))
      BY <1>4 DEF eip191_msg_getItem
    <3> QED BY <1>2, <3>1, Zenon
  <2>4. shown.err = "ok" /\ shown.key = "Msg hex" /\ (AllRead => Together = Hex(m))
    BY <2>2, <2>3, HexItemRead, Zenon
  <2> QED BY <1>4, <2>4, Zenon DEF MessageText, m
<1> QED
  BY <1>3, <1>4

(* The address of a review.                                                *)
LEMMA AddressRead ==
    ASSUME FewPages, subject \in Subjects, subject.kind = "address", ReadInv, item = 0
    PROVE  shown.err = "ok" /\ shown.key = "Eth Address" /\ (AllRead => Together = Address)
<1>1. Len(Address) <= 255 * (PageLen - 1) /\ Address \in Seq(Byte) /\ PageLen \in Nat /\ PageLen > 2
  BY ItemsAssumption DEF FewPages
<1>2. TextWhole(PageLen, Address)
  BY <1>1, TextPaged
<1>3. \A k : getItem(subject, item, k) = Answer("ok", "Eth Address", pageStringExt(PageLen, Address, k))
  BY DEF getItem, eth_addr_getItem
<1> QED
  BY <1>2, <1>3, TextItemRead, Zenon

(* The address that a transfer goes to.                                    *)
LEMMA RecipientRead ==
    ASSUME subject \in Subjects, subject.kind = "transfer", ReadInv, item = 3
    PROVE  /\ shown.err = "ok" /\ shown.key = "To"
           /\ AllRead => Together = <<Zero, 120>> \o Hex(subject.to)
<1> DEFINE b == subject.to
           head == <<Zero, 120>>
           text == head \o Hex(b)
<1>1. b \in Seq(Byte) /\ Len(b) = 4 /\ PageLen \in Nat /\ PageLen > 2
  BY ItemsAssumption DEF Subjects
<1>2. \A k : getItem(subject, item, k) = printEVMAddress(b, k)
  BY DEF getItem
<1>3. head \in Seq(Int) /\ Len(head) = 2
  BY DEF Zero
<1> HIDE DEF b
<1>4. array_to_hexstr(65, b) = Hex(b)
  BY <1>1 DEF array_to_hexstr
<1>5. \A k : getItem(subject, item, k) = Answer("ok", "To", pageStringExt(PageLen, text, k))
  BY <1>2, <1>4 DEF printEVMAddress
<1>6. text \in Seq(Int) /\ Len(text) = 10 /\ Len(text) <= 255 * (PageLen - 1)
  <2>1. Hex(b) \in Seq(Int) /\ Len(Hex(b)) = 2 * Len(b)
    BY <1>1, HexTyped
  <2>2. Len(Hex(b)) = 8
    BY <1>1, <2>1
  <2> HIDE DEF head
  <2>3. head \o Hex(b) \in Seq(Int) /\ Len(head \o Hex(b)) = Len(head) + Len(Hex(b))
    BY <1>3, <2>1, ConcatProperties, Zenon
  <2> QED BY <1>1, <1>3, <2>2, <2>3
<1> HIDE DEF text
<1>7. TextWhole(PageLen, text)
  <2>1. PageLen > 1
    BY <1>1
  <2> QED BY <1>1, <1>6, <2>1, TextPaged, Zenon
<1>8. shown.err = "ok" /\ shown.key = "To" /\ (AllRead => Together = text)
  BY <1>5, <1>7, TextItemRead, Zenon
<1> QED
  BY <1>8 DEF text, b

-----------------------------------------------------------------------------
(* The reader asks for one page after the other.                           *)

(* Somebody is under review.                                               *)
LEMMA NobodyIsNoSubject == \A s \in Subjects : s # Nobody /\ s.kind \in {"message", "address", "transfer"}
  BY DEF Subjects, Nobody

(* What a page says does not change from one page to the next.             *)
LEMMA AskReads ==
    ASSUME NEW s, NEW i, NEW k, NEW before, Ask(s, i, k, before), N_appmode' = N_appmode, subject' = s,
           i \in 0 .. NumItems(s) - 1, \A x \in DOMAIN before : before[x] = getItem(s, i, x).value
    PROVE  ReadInv'
<1>1. /\ item' = i /\ page' = k /\ shown' = getItem(s, i, k)
      /\ read' = [x \in DOMAIN before \cup {k} |-> IF x = k THEN getItem(s, i, k).value ELSE before[x]]
  BY DEF Ask
<1>2. \A x : getItem(subject, item, x)' = getItem(s, i, x)
  BY <1>1 DEF getItem, eth_addr_getItem
<1>3. getItem(subject, item, page)' = getItem(s, i, k)
  BY <1>1 DEF getItem, eth_addr_getItem
<1>4. NumItems(subject)' = NumItems(s)
  BY DEF NumItems
<1>5. /\ DOMAIN read' = DOMAIN before \cup {k}
      /\ \A x \in DOMAIN read' : read'[x] = IF x = k THEN getItem(s, i, k).value ELSE before[x]
  BY <1>1
<1>6. \A x \in DOMAIN read' : read'[x] = getItem(s, i, x).value
  BY <1>5
<1> QED
  BY <1>1, <1>2, <1>3, <1>4, <1>5, <1>6 DEF ReadInv

(* On a turn that asks for a page of the same item, or of another.         *)
LEMMA SamePage ==
    ASSUME SubjectInv, subject # Nobody, subject' = subject, N_appmode' = N_appmode,
           NEW k, Ask(subject, item, k, read)
    PROVE  SubjectInv'
<1>1. subject \in Subjects /\ ReadInv
  BY DEF SubjectInv
<1>2. ReadInv'
  BY <1>1, AskReads, Zenon DEF ReadInv
<1> QED
  BY <1>1, <1>2 DEF SubjectInv, Subjects

LEMMA OtherPage ==
    ASSUME NEW s \in Subjects, subject' = s, N_appmode' = N_appmode, NEW i \in 0 .. NumItems(s) - 1, NEW k,
           Ask(s, i, k, Unread)
    PROVE  SubjectInv'
<1>1. DOMAIN Unread = {}
  BY DEF Unread
<1>2. ReadInv'
  BY <1>1, AskReads, Zenon
<1> QED
  BY <1>2 DEF SubjectInv, Subjects

(* Every subject has its first item.                                       *)
LEMMA FirstItem ==
    ASSUME NEW s \in Subjects
    PROVE  NumItems(s) \in Nat /\ 0 \in 0 .. NumItems(s) - 1
<1>1. s.kind \in {"message", "address", "transfer"}
  BY NobodyIsNoSubject
<1>2. NumItems(s) \in {1, 2, 4}
  BY <1>1 DEF NumItems
<1> QED
  BY <1>2

(* Every step leaves the reader with the pages that it asked for.          *)
LEMMA SubjectStep ==
    ASSUME SubjectInv, [ItemsNext]_itemsVars
    PROVE  SubjectInv'
<1>1. subject = Nobody \/ (subject # Nobody /\ subject \in Subjects /\ ReadInv)
  BY DEF SubjectInv
<1>2. ASSUME subject' = Nobody PROVE SubjectInv'
  BY <1>2 DEF SubjectInv
<1>3. CASE SetMode
  BY <1>2, <1>3 DEF SetMode, itemVars
<1>4. ASSUME NEW message \in Messages, handleSignEip191(message) PROVE SubjectInv'
  <2> DEFINE s == [kind |-> "message", message |-> message]
  <2>1. \/ subject' = s /\ Ask(s, 0, 0, Unread)
        \/ subject' = subject
    BY <1>4 DEF handleSignEip191
  <2>2. subject = Nobody /\ N_appmode' = N_appmode
    BY <1>4 DEF handleSignEip191
  <2>3. s \in Subjects
    BY DEF Subjects
  <2> HIDE DEF s
  <2> QED BY <1>2, <2>1, <2>2, <2>3, FirstItem, OtherPage
<1>5. ASSUME NEW s \in Subjects, Review(s) PROVE SubjectInv'
  <2>1. subject' = s /\ Ask(s, 0, 0, Unread) /\ N_appmode' = N_appmode
    BY <1>5 DEF Review, modeVars
  <2> QED BY <2>1, FirstItem, OtherPage
<1>6. CASE ShowAddress
  <2>1. PICK steps \in Paths : Review([kind |-> "address", path |-> steps])
    BY <1>6 DEF ShowAddress
  <2>2. [kind |-> "address", path |-> steps] \in Subjects
    BY DEF Subjects
  <2> QED BY <1>5, <2>1, <2>2
<1>7. CASE ShowTransfer
  <2>1. PICK value \in Amounts, token \in Tokens, to \in Messages :
           Len(to) = 4 /\ Review([kind |-> "transfer", value |-> value, token |-> token, to |-> to])
    BY <1>7 DEF ShowTransfer
  <2>2. [kind |-> "transfer", value |-> value, token |-> token, to |-> to] \in Subjects
    BY <2>1 DEF Subjects
  <2> QED BY <1>5, <2>1, <2>2
<1>8. CASE NextPage
  <2>1. /\ subject # Nobody /\ subject' = subject /\ N_appmode' = N_appmode
        /\ Ask(subject, item, page + 1, read)
    BY <1>8 DEF NextPage, modeVars
  <2> QED BY <2>1, SamePage
<1>9. CASE PreviousPage
  <2>1. /\ subject # Nobody /\ subject' = subject /\ N_appmode' = N_appmode
        /\ Ask(subject, item, page - 1, read)
    BY <1>9 DEF PreviousPage, modeVars
  <2> QED BY <2>1, SamePage
<1>10. CASE NextItem
  <2>1. /\ subject # Nobody /\ subject' = subject /\ N_appmode' = N_appmode
        /\ item + 1 < NumItems(subject) /\ Ask(subject, item + 1, 0, Unread)
    BY <1>10 DEF NextItem, modeVars
  <2>2. subject \in Subjects /\ ReadInv
    BY <1>1, <2>1
  <2>3. item + 1 \in 0 .. NumItems(subject) - 1
    BY <2>1, <2>2, FirstItem DEF ReadInv
  <2> QED BY <2>1, <2>2, <2>3, OtherPage
<1>11. CASE PreviousItem
  <2>1. /\ subject # Nobody /\ subject' = subject /\ N_appmode' = N_appmode /\ item > 0
        /\ \E k : Ask(subject, item - 1, k, Unread)
    BY <1>11 DEF PreviousItem, modeVars
  <2>2. subject \in Subjects /\ ReadInv
    BY <1>1, <2>1
  <2>3. item - 1 \in 0 .. NumItems(subject) - 1
    BY <2>1, <2>2, FirstItem DEF ReadInv
  <2> QED BY <2>1, <2>2, <2>3, OtherPage
<1>12. CASE Approve \/ Reject
  BY <1>2, <1>12 DEF Approve, Reject
<1>13. CASE UNCHANGED itemsVars
  <2>1. /\ subject' = subject /\ item' = item /\ page' = page /\ shown' = shown /\ read' = read
        /\ N_appmode' = N_appmode
    BY <1>13 DEF itemsVars, itemVars, modeVars
  <2>2. \A k : getItem(subject, item, k)' = getItem(subject, item, k)
    BY <2>1 DEF getItem, eth_addr_getItem
  <2>3. getItem(subject, item, page)' = getItem(subject, item, page) /\ NumItems(subject)' = NumItems(subject)
    BY <2>1 DEF getItem, eth_addr_getItem, NumItems
  <2>4. ReadInv => ReadInv'
    BY <2>1, <2>2, <2>3 DEF ReadInv
  <2> QED BY <2>1, <2>4 DEF SubjectInv, Subjects
<1> QED
  BY <1>3, <1>4, <1>6, <1>7, <1>8, <1>9, <1>10, <1>11, <1>12, <1>13 DEF ItemsNext

(* The warning goes with a message in hexadecimal digits.                  *)
LEMMA WarningStep ==
    ASSUME HexIsBlind, [ItemsNext]_itemsVars
    PROVE  HexIsBlind'
<1>1. ASSUME subject' = Nobody PROVE HexIsBlind'
  BY <1>1 DEF HexIsBlind
<1>2. ASSUME subject' = subject, N_appmode' = N_appmode, blindsign_required' = blindsign_required PROVE HexIsBlind'
  BY <1>2 DEF HexIsBlind
<1>3. CASE SetMode \/ Approve \/ Reject
  BY <1>1, <1>3 DEF SetMode, Approve, Reject, itemVars
<1>4. ASSUME NEW message \in Messages, handleSignEip191(message) PROVE HexIsBlind'
  <2> DEFINE parsed == eip191_msg_parse(message, app_mode_skip_blindsign_ui(blindsign_required))
  <2>1. /\ subject = Nobody /\ N_appmode' = N_appmode
        /\ blindsign_required' = parsed.required
        /\ IF parsed.ok THEN subject' = [kind |-> "message", message |-> message] ELSE subject' = subject
    BY <1>4 DEF handleSignEip191
  <2>2. CASE Printable(message)
    <3>1. parsed.ok /\ parsed.required = FALSE
      BY <2>2 DEF eip191_msg_parse, app_mode_skip_blindsign_ui
    <3> HIDE DEF parsed
    <3>2. subject' = [kind |-> "message", message |-> message] /\ blindsign_required' = FALSE
      BY <2>1, <3>1
    <3> QED BY <2>2, <3>2 DEF HexIsBlind, Printable, IS_PRINTABLE
  <2>3. CASE ~Printable(message)
    <3>1. parsed.ok = N_appmode.blindsign /\ parsed.required = (FALSE \/ N_appmode.blindsign)
      BY <2>3 DEF eip191_msg_parse, app_mode_skip_blindsign_ui, RequiredAfterRead
    <3> HIDE DEF parsed
    <3>2. CASE parsed.ok
      <4>1. subject' = [kind |-> "message", message |-> message] /\ blindsign_required' /\ N_appmode'.blindsign
        BY <2>1, <3>1, <3>2
      <4> QED BY <2>3, <4>1 DEF HexIsBlind, Printable, IS_PRINTABLE
    <3>3. CASE ~parsed.ok
      BY <1>1, <2>1, <3>3
    <3> QED BY <3>2, <3>3
  <2> QED BY <2>2, <2>3
<1>5. ASSUME NEW s, s.kind # "message", Review(s) PROVE HexIsBlind'
  BY <1>5 DEF HexIsBlind, Review
<1>6. CASE ShowAddress
  BY <1>5, <1>6 DEF ShowAddress
<1>7. CASE ShowTransfer
  BY <1>5, <1>7 DEF ShowTransfer
<1>8. CASE NextPage \/ NextItem \/ PreviousPage \/ PreviousItem
  BY <1>2, <1>8 DEF NextPage, NextItem, PreviousPage, PreviousItem, modeVars
<1>9. CASE UNCHANGED itemsVars
  BY <1>2, <1>9 DEF itemsVars, itemVars, modeVars
<1> QED
  BY <1>3, <1>4, <1>6, <1>7, <1>8, <1>9 DEF ItemsNext

(* What is hashed has been read.                                           *)
LEMMA HashedStep ==
    ASSUME FewPages, SubjectInv, HashedWhatWasRead, [ItemsNext]_itemsVars
    PROVE  HashedWhatWasRead'
<1>1. ASSUME hashed' = hashed PROVE HashedWhatWasRead'
  BY <1>1 DEF HashedWhatWasRead
<1>2. CASE Approve
  <2>1. CASE subject.kind # "message"
    <3>1. hashed' = NotHashed
      BY <1>2, <2>1 DEF Approve
    <3> QED BY <3>1 DEF HashedWhatWasRead
  <2>2. CASE subject.kind = "message"
    <3> DEFINE m == subject.message
    <3>1. subject \in Subjects /\ ReadInv /\ item = 1
      <4>1. subject \in Subjects /\ ReadInv
        BY <1>2 DEF Approve, SubjectInv
      <4>2. NumItems(subject) = 2 /\ item + 1 = NumItems(subject)
        BY <1>2, <2>2 DEF Approve, NumItems
      <4> QED BY <4>1, <4>2 DEF ReadInv
    <3>2. m \in Messages
      BY <2>2, <3>1 DEF Subjects
    <3>3. /\ shown.key = IF Printable(m) THEN "Msg" ELSE "Msg hex"
          /\ AllRead => Together = MessageText(m)
      BY <2>2, <3>1, MessageRead
    <3>4. hashed' = [preimage |-> eip191_hash_message(m), key |-> shown.key,
                     whole |-> AllRead, read |-> IF AllRead THEN Together ELSE << >>]
      BY <1>2, <2>2 DEF Approve
    <3> HIDE DEF m
    <3>5. ASSUME hashed'.whole
          PROVE  /\ hashed'.preimage = SIGN_MAGIC \o Decimal[Len(m)] \o m
                 /\ hashed'.read = MessageText(m) /\ hashed'.key = shown.key
      BY <3>3, <3>4, <3>5 DEF eip191_hash_message
    <3>6. /\ MessageText(m) = IF shown.key = "Msg" THEN m ELSE Hex(m)
          /\ shown.key = "Msg" <=> Printable(m)
      BY <3>3, "Msg" # "Msg hex", Zenon DEF MessageText
    <3> QED BY <3>2, <3>5, <3>6 DEF HashedWhatWasRead, Printable, IS_PRINTABLE
  <2> QED BY <2>1, <2>2
<1>3. CASE UNCHANGED itemsVars
  BY <1>1, <1>3 DEF itemsVars, itemVars
<1>4. CASE SetMode \/ ShowAddress \/ ShowTransfer \/ \E message \in Messages : handleSignEip191(message)
  BY <1>1, <1>4 DEF SetMode, ShowAddress, ShowTransfer, Review, handleSignEip191, itemVars
<1>5. CASE NextPage \/ NextItem \/ PreviousPage \/ PreviousItem \/ Reject
  BY <1>1, <1>5 DEF NextPage, NextItem, PreviousPage, PreviousItem, Reject
<1> QED
  BY <1>2, <1>3, <1>4, <1>5 DEF ItemsNext

(* Before the first review.                                                *)
LEMMA ItemsInitially == ItemsInit => SubjectInv /\ SignsWhatWasRead
  BY DEF ItemsInit, SubjectInv, SignsWhatWasRead, HashedWhatWasRead, HexIsBlind

(* The user signs what she has read, with a warning exactly when it was in *)
(* hexadecimal digits: what eip191_hash_message hashes is the message that *)
(* the pages of eip191_msg_getItem have shown, as long as a byte counts    *)
(* the pages.                                                              *)
THEOREM SignedIsRead ==
    ASSUME FewPages
    PROVE  ItemsSpec => []SignsWhatWasRead
<1>1. SubjectInv /\ SignsWhatWasRead /\ [ItemsNext]_itemsVars => (SubjectInv /\ SignsWhatWasRead)'
  BY SubjectStep, WarningStep, HashedStep DEF SignsWhatWasRead
<1> QED
  BY <1>1, ItemsInitially, PTL DEF ItemsSpec

(* A message, as text or in hexadecimal digits, the address of the user    *)
(* and that of a recipient: when all pages have been on the screen, in any *)
(* order, the text has been read to its end.                               *)
THEOREM TextsAreReadWhole ==
    ASSUME FewPages
    PROVE  ItemsSpec => []TextsReadWhole
<1>1. SubjectInv => TextsReadWhole
  <2> SUFFICES ASSUME SubjectInv, subject # Nobody, AllRead PROVE TextsReadWhole
    BY DEF TextsReadWhole
  <2>1. subject \in Subjects /\ ReadInv /\ subject.kind \in {"message", "address", "transfer"}
    BY NobodyIsNoSubject DEF SubjectInv
  <2>2. ASSUME shown.key \in {"Sign", "Path", "?", "Amount", "Number", "Fixed"} PROVE TextsReadWhole
    BY <2>2, Zenon DEF TextsReadWhole
  <2>3. CASE subject.kind = "message"
    <3>1. item \in {0, 1}
      BY <2>1, <2>3 DEF ReadInv, NumItems
    <3>2. CASE item = 0
      <4>1. shown = Answer("ok", "Sign", [out |-> <<80, 77>>, pageCount |-> 1])
        BY <2>1, <2>3, <3>2 DEF ReadInv, getItem, eip191_msg_getItem
      <4>2. shown.key = "Sign"
        BY <4>1 DEF Answer
      <4> QED BY <2>2, <4>2
    <3>3. CASE item = 1
      <4>1. /\ shown.key = IF Printable(subject.message) THEN "Msg" ELSE "Msg hex"
            /\ Together = MessageText(subject.message)
        BY <2>1, <2>3, <3>3, MessageRead
      <4>2. CASE Printable(subject.message)
        <5>1. shown.key = "Msg" /\ Together = subject.message
          BY <4>1, <4>2 DEF MessageText
        <5> QED BY <5>1, Zenon DEF TextsReadWhole
      <4>3. CASE ~Printable(subject.message)
        <5>1. shown.key = "Msg hex" /\ Together = Hex(subject.message)
          BY <4>1, <4>3, Zenon DEF MessageText
        <5> QED BY <5>1, Zenon DEF TextsReadWhole
      <4> QED BY <4>2, <4>3
    <3> QED BY <3>1, <3>2, <3>3
  <2>4. CASE subject.kind = "address"
    <3>1. item \in {0, 1}
      BY <2>1, <2>4 DEF ReadInv, NumItems
    <3>2. CASE item = 0
      <4>1. shown.key = "Eth Address" /\ Together = Address
        BY <2>1, <2>4, <3>2, AddressRead
      <4> QED BY <4>1, Zenon DEF TextsReadWhole
    <3>3. CASE item = 1
      <4>1. shown = eth_addr_getItem(subject.path, 1, page)
        BY <2>1, <2>4, <3>3 DEF ReadInv, getItem
      <4>2. shown.key \in {"Path", "?"}
        BY <4>1 DEF eth_addr_getItem, Answer, NoItem
      <4> QED BY <2>2, <4>2
    <3> QED BY <3>1, <3>2, <3>3
  <2>5. CASE subject.kind = "transfer"
    <3>1. item \in {0, 1, 2, 3}
      BY <2>1, <2>5 DEF ReadInv, NumItems
    <3>2. CASE item = 0
      <4>1. shown = printERC20Value(subject.value, subject.token, page)
        BY <2>1, <2>5, <3>2 DEF ReadInv, getItem
      <4>2. shown.key \in {"Amount", "?"}
        BY <4>1 DEF printERC20Value, Answer, Failed
      <4> QED BY <2>2, <4>2
    <3>3. CASE item = 1
      <4>1. shown = printRLPNumber(subject.value, page)
        BY <2>1, <2>5, <3>3 DEF ReadInv, getItem
      <4>2. shown.key \in {"Number", "?"}
        BY <4>1 DEF printRLPNumber, Answer, Failed
      <4> QED BY <2>2, <4>2
    <3>4. CASE item = 2
      <4>1. shown = printBigIntFixedPoint(subject.value, subject.token.decimals, page)
        BY <2>1, <2>5, <3>4 DEF ReadInv, getItem
      <4>2. shown.key \in {"Fixed", "?"}
        BY <4>1 DEF printBigIntFixedPoint, Answer, Failed
      <4> QED BY <2>2, <4>2
    <3>5. CASE item = 3
      <4>1. shown.key = "To" /\ Together = <<Zero, 120>> \o Hex(subject.to)
        BY <2>1, <2>5, <3>5, RecipientRead
      <4> QED BY <4>1, Zenon DEF TextsReadWhole
    <3> QED BY <3>1, <3>2, <3>3, <3>4, <3>5
  <2> QED BY <2>1, <2>3, <2>4, <2>5
<1>2. SubjectInv /\ [ItemsNext]_itemsVars => SubjectInv'
  BY SubjectStep
<1> QED
  BY <1>1, <1>2, ItemsInitially, PTL DEF ItemsSpec

=============================================================================
