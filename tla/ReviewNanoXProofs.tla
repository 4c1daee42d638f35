------------------------- MODULE ReviewNanoXProofs -------------------------
(***************************************************************************)
(* Theorems about the review screens of Nano X and Nano S+, for every set  *)
(* of reviews: the types; an approval comes after all pages were shown; no *)
(* screen stands for a page that does not exist; and the steps implement   *)
(* ReviewSpec.  From flows and cursor (TypeInv) over what the screen says  *)
(* about the pages shown (WalkInv) to the place in the line (LineInv).     *)
(***************************************************************************)
EXTENDS ReviewNanoX, NanoPagingProofs

FrontScreens == {"warning", "warning_text", "title", "shortcut"}
LoopScreens  == {"start", "inside", "end"}
BackScreens  == {"approve", "reject"}
Screens      == FrontScreens \cup LoopScreens \cup BackScreens

(* The number of screens before the loop. *)
FrontOf(f) == Position(f, "start") - 1

(* A flow: n screens, the loop, and one or two screens that answer.        *)
Shape(f, n) ==
    /\ n \in 1 .. 3
    /\ f \in Seq(Screens)
    /\ Len(f) \in n + 4 .. n + 5
    /\ \A k \in 1 .. n : f[k] \in FrontScreens
    /\ f[n + 1] = "start" /\ f[n + 2] = "inside" /\ f[n + 3] = "end" /\ f[n + 4] = "approve"
    /\ Len(f) = n + 5 => f[n + 5] = "reject"

(* What the review is: its items, its kind, and that a blind review is     *)
(* neither progressive nor offers the shortcut.                            *)
LEMMA ReviewTyped ==
    ASSUME NEW r \in Reviews
    PROVE  /\ IsItems(r.pages)
           /\ r.kind \in {"UI", "ADDRESS", "MSG", "TXN"}
           /\ r.blind => ~r.progressive /\ ~r.shortcut
<1>1. /\ r \in Review /\ Len(r.pages) \in 1 .. 128 /\ Last(r.pages) > 0
      /\ r.blind => ~r.progressive /\ ~r.shortcut
  BY ReviewsAssumption
<1> QED
  BY <1>1 DEF Review, Last, IsItems

(* Whatever comes before the loop and after it, the flow has its shape.    *)
LEMMA AroundTheLoop ==
    ASSUME NEW front \in Seq(FrontScreens), Len(front) \in 1 .. 3,
           NEW back \in {<<"approve">>, <<"approve", "reject">>}
    PROVE  /\ Shape(front \o Loop \o back, Len(front))
           /\ Len(front \o Loop \o back) = (Len(front) + 3) + Len(back)
           /\ \A k \in 1 .. Len(front) : (front \o Loop \o back)[k] = front[k]
<1> DEFINE n == Len(front)
           f == front \o Loop
<1>1. front \in Seq(Screens) /\ n \in 1 .. 3 /\ \A k \in 1 .. n : front[k] \in FrontScreens
  <2>1. FrontScreens \subseteq Screens
    BY DEF Screens
  <2> QED
    BY <2>1, SeqMonotonic, ElementOfSeq
<1>2. /\ Loop \in Seq(Screens) /\ Len(Loop) = 3
      /\ Loop[1] = "start" /\ Loop[2] = "inside" /\ Loop[3] = "end"
  BY DEF Loop, Screens, LoopScreens
<1>3. /\ back \in Seq(Screens) /\ Len(back) \in 1 .. 2 /\ back[1] = "approve"
      /\ Len(back) = 2 => back[2] = "reject"
  <2>1. CASE back = <<"approve">>
    BY <2>1 DEF Screens, BackScreens
  <2>2. CASE back = <<"approve", "reject">>
    BY <2>2 DEF Screens, BackScreens
  <2> QED
    BY <2>1, <2>2
<1> HIDE DEF n
<1>4. /\ f \in Seq(Screens) /\ Len(f) = n + 3
      /\ \A k \in 1 .. n + 3 : f[k] = IF k <= n THEN front[k] ELSE Loop[k - n]
  <2>1. /\ f \in Seq(Screens) /\ Len(f) = Len(front) + Len(Loop)
        /\ \A k \in 1 .. Len(front) + Len(Loop) :
             f[k] = IF k <= Len(front) THEN front[k] ELSE Loop[k - Len(front)]
    BY <1>1, <1>2, ConcatProperties, Zenon
  <2> QED
    BY <1>2, <2>1, Zenon DEF n
<1>5. /\ f[n + 1] = "start" /\ f[n + 2] = "inside" /\ f[n + 3] = "end"
      /\ \A k \in 1 .. n : f[k] = front[k]
  <2>1. /\ n + 1 \in 1 .. n + 3 /\ n + 2 \in 1 .. n + 3 /\ n + 3 \in 1 .. n + 3
        /\ ~(n + 1 <= n) /\ ~(n + 2 <= n) /\ ~(n + 3 <= n)
        /\ (n + 1) - n = 1 /\ (n + 2) - n = 2 /\ (n + 3) - n = 3
        /\ \A k \in 1 .. n : k \in 1 .. n + 3 /\ k <= n
    BY <1>1
  <2> QED
    BY <1>2, <1>4, <2>1
<1> HIDE DEF f
<1> DEFINE g == f \o back
<1>6. /\ g \in Seq(Screens) /\ Len(g) = (n + 3) + Len(back)
      /\ \A k \in 1 .. (n + 3) + Len(back) : g[k] = IF k <= n + 3 THEN f[k] ELSE back[k - (n + 3)]
  <2>1. /\ g \in Seq(Screens) /\ Len(g) = Len(f) + Len(back)
        /\ \A k \in 1 .. Len(f) + Len(back) :
             g[k] = IF k <= Len(f) THEN f[k] ELSE back[k - Len(f)]
    BY <1>3, <1>4, ConcatProperties, Zenon
  <2> QED
    BY <1>4, <2>1, Zenon
<1> HIDE DEF g
<1>7. /\ \A k \in 1 .. n + 3 : g[k] = f[k]
      /\ g[n + 4] = back[1]
      /\ Len(back) = 2 => g[n + 5] = back[2]
  <2>1. /\ \A k \in 1 .. n + 3 : k \in 1 .. (n + 3) + Len(back) /\ k <= n + 3
        /\ n + 4 \in 1 .. (n + 3) + Len(back) /\ ~(n + 4 <= n + 3) /\ (n + 4) - (n + 3) = 1
    BY <1>1, <1>3
  <2>2. Len(back) = 2 => /\ n + 5 \in 1 .. (n + 3) + Len(back)
                         /\ ~(n + 5 <= n + 3) /\ (n + 5) - (n + 3) = 2
    BY <1>1, <1>3
  <2> QED
    BY <1>6, <2>1, <2>2
<1>8. /\ g[n + 1] = "start" /\ g[n + 2] = "inside" /\ g[n + 3] = "end"
      /\ \A k \in 1 .. n : g[k] \in FrontScreens
  <2>1. /\ n + 1 \in 1 .. n + 3 /\ n + 2 \in 1 .. n + 3 /\ n + 3 \in 1 .. n + 3
        /\ \A k \in 1 .. n : k \in 1 .. n + 3
    BY <1>1
  <2> QED
    BY <1>1, <1>5, <1>7, <2>1
<1>10. \A k \in 1 .. n : g[k] = front[k]
  <2>1. \A k \in 1 .. n : k \in 1 .. n + 3
    BY <1>1
  <2> QED
    BY <1>5, <1>7, <2>1
<1>9. Len(g) \in n + 4 .. n + 5 /\ (Len(g) = n + 5 => Len(back) = 2)
  BY <1>1, <1>3, <1>6
<1> QED
  BY <1>1, <1>3, <1>6, <1>7, <1>8, <1>9, <1>10 DEF Shape, f, g, n

(* Every flow that run_ux_review_flow builds has it ...                    *)
LEMMA FlowOfReviewIs ==
    ASSUME NEW r \in Reviews
    PROVE  \E n : /\ Shape(ReviewFlow(r), n) /\ Len(ReviewFlow(r)) = n + 5
                  /\ (SkipFields(r) = << >> /\ ~r.blind) => n = 1
                  /\ SkipFields(r) = << >> => \A k \in 1 .. n : ReviewFlow(r)[k] # "shortcut"
<1> DEFINE b == BlindWarning(r)
           s == SkipFields(r)
           front == b \o <<"title">> \o s
<1>1. /\ b \in Seq(FrontScreens) /\ s \in Seq(FrontScreens)
      /\ Len(b) \in {0, 2} /\ Len(s) \in {0, 1} /\ (Len(b) = 2 => Len(s) = 0)
  <2>0. /\ << >> \in Seq(FrontScreens) /\ Len(<< >>) = 0
        /\ <<"warning", "warning_text">> \in Seq(FrontScreens)
        /\ Len(<<"warning", "warning_text">>) = 2
        /\ <<"shortcut">> \in Seq(FrontScreens) /\ Len(<<"shortcut">>) = 1
    BY DEF FrontScreens
  <2>1. CASE r.blind
    <3>1. s = << >>
      BY <2>1, ReviewTyped DEF SkipFields
    <3>2. b \in {<< >>, <<"warning", "warning_text">>}
      BY DEF BlindWarning
    <3>3. CASE b = << >>
      BY <2>0, <3>1, <3>3
    <3>4. CASE b = <<"warning", "warning_text">>
      BY <2>0, <3>1, <3>4
    <3> QED
      BY <3>2, <3>3, <3>4
  <2>2. CASE ~r.blind
    <3>1. b = << >>
      BY <2>2 DEF BlindWarning
    <3>2. s \in {<< >>, <<"shortcut">>}
      BY DEF SkipFields
    <3>3. CASE s = << >>
      BY <2>0, <3>1, <3>3
    <3>4. CASE s = <<"shortcut">>
      BY <2>0, <3>1, <3>4
    <3> QED
      BY <3>2, <3>3, <3>4
  <2> QED
    BY <2>1, <2>2
<1> HIDE DEF b, s
<1>2. /\ <<"title">> \in Seq(FrontScreens) /\ Len(<<"title">>) = 1
  BY DEF FrontScreens
<1>3. b \o <<"title">> \in Seq(FrontScreens) /\ Len(b \o <<"title">>) = Len(b) + 1
  BY <1>1, <1>2, ConcatProperties
<1>4. front \in Seq(FrontScreens) /\ Len(front) = (Len(b) + 1) + Len(s)
  BY <1>1, <1>3, ConcatProperties
<1> HIDE DEF front
<1>5. Len(front) \in 1 .. 3
  <2> DEFINE lb == Len(b)
             ls == Len(s)
  <2>1. lb \in {0, 2} /\ ls \in {0, 1} /\ (lb = 2 => ls = 0) /\ Len(front) = (lb + 1) + ls
    BY <1>1, <1>4
  <2> HIDE DEF lb, ls
  <2>2. (lb + 1) + ls \in 1 .. 3
    BY <2>1
  <2> QED
    BY <2>1, <2>2
<1>6. /\ Shape(front \o Loop \o <<"approve", "reject">>, Len(front))
      /\ Len(front \o Loop \o <<"approve", "reject">>) = (Len(front) + 3) + 2
      /\ \A k \in 1 .. Len(front) : (front \o Loop \o <<"approve", "reject">>)[k] = front[k]
  <2>1. Len(<<"approve", "reject">>) = 2
    OBVIOUS
  <2> QED
    BY <1>4, <1>5, <2>1, AroundTheLoop
<1>7. ReviewFlow(r) = front \o Loop \o <<"approve", "reject">>
  BY DEF ReviewFlow, front, b, s
<1>8. (Len(front) + 3) + 2 = Len(front) + 5
  BY <1>5
<1>9. ASSUME s = << >>, ~r.blind PROVE Len(front) = 1
  <2>1. b = << >>
    BY <1>9 DEF b, BlindWarning
  <2>2. Len(b) = 0 /\ Len(s) = 0
    BY <1>9, <2>1
  <2> QED
    BY <1>4, <2>2
<1>10. ASSUME s = << >>, NEW k \in 1 .. Len(front) PROVE front[k] # "shortcut"
  <2> DEFINE F == {"warning", "warning_text", "title"}
  <2>0. << >> \in Seq(F) /\ <<"title">> \in Seq(F) /\ <<"warning", "warning_text">> \in Seq(F)
    OBVIOUS
  <2>b. b \in {<< >>, <<"warning", "warning_text">>}
    BY DEF b, BlindWarning
  <2>1. b \in Seq(F) /\ <<"title">> \in Seq(F) /\ s \in Seq(F)
    BY <1>10, <2>0, <2>b, Zenon
  <2> HIDE DEF F
  <2>2. front \in Seq(F)
    BY <2>1, ConcatProperties DEF front
  <2>3. front[k] \in F
    BY <2>2, ElementOfSeq
  <2> QED
    BY <2>3 DEF F
<1>11. s = SkipFields(r)
  BY DEF s
<1> QED
  BY <1>6, <1>7, <1>8, <1>9, <1>10, <1>11

(* A review has one of the flows above.                                    *)
LEMMA FlowOfReview ==
    ASSUME NEW r \in Reviews
    PROVE  \E n : Shape(ReviewFlow(r), n)
  BY FlowOfReviewIs

(* ... and so has the one for a review with an intent.                     *)
LEMMA FlowOfIntent ==
    ASSUME NEW r \in Reviews
    PROVE  \/ ShownFlow(r) = ReviewFlow(r)
           \/ /\ r.intent /\ r.kind \in {"MSG", "TXN"}
              /\ Shape(ShownFlow(r), 1) /\ Len(ShownFlow(r)) = 5 /\ ShownFlow(r)[1] = "title"
<1> DEFINE f == <<"title">> \o Loop \o <<"approve">>
<1>1. <<"title">> \in Seq(FrontScreens) /\ Len(<<"title">>) = 1 /\ 1 \in 1 .. 3 /\ 1 \in 1 .. 1
  BY DEF FrontScreens
<1>2. Shape(f, 1) /\ Len(f) = (1 + 3) + 1 /\ f[1] = "title"
  <2>1. Len(<<"approve">>) = 1 /\ <<"title">>[1] = "title"
    OBVIOUS
  <2> QED
    BY <1>1, <2>1, AroundTheLoop
<1>3. (1 + 3) + 1 = 5
  OBVIOUS
<1> HIDE DEF f
<1>4. ShownFlow(r) = IF r.intent /\ r.kind \in {"MSG", "TXN"} THEN f ELSE ReviewFlow(r)
  BY DEF ShownFlow, f
<1> QED
  BY <1>2, <1>3, <1>4

(* So has what run_ux_review_flow shows first.                             *)
LEMMA FlowShown ==
    ASSUME NEW r \in Reviews
    PROVE  \E n : Shape(ShownFlow(r), n)
  BY FlowOfReview, FlowOfIntent

(* Where its steps are.                                                    *)
LEMMA Positions ==
    ASSUME NEW f, NEW n, Shape(f, n)
    PROVE  /\ Position(f, "start") = n + 1 /\ Position(f, "inside") = n + 2
           /\ Position(f, "end") = n + 3 /\ Position(f, "approve") = n + 4
           /\ FrontOf(f) = n
<1>1. /\ n \in 1 .. 3 /\ DOMAIN f = 1 .. Len(f) /\ Len(f) \in n + 4 .. n + 5
      /\ \A k \in 1 .. n : f[k] \in FrontScreens
      /\ f[n + 1] = "start" /\ f[n + 2] = "inside" /\ f[n + 3] = "end" /\ f[n + 4] = "approve"
      /\ Len(f) = n + 5 => f[n + 5] = "reject"
  BY LenProperties DEF Shape
<1>0. n \in 1 .. 3
  BY <1>1
<1>2. /\ n + 1 \in DOMAIN f /\ n + 2 \in DOMAIN f /\ n + 3 \in DOMAIN f /\ n + 4 \in DOMAIN f
      /\ \A k \in DOMAIN f : \/ k \in 1 .. n \/ k = n + 1 \/ k = n + 2 \/ k = n + 3 \/ k = n + 4
                             \/ k = n + 5 /\ Len(f) = n + 5
  <2> DEFINE len == Len(f)
  <2>1. DOMAIN f = 1 .. len /\ len \in n + 4 .. n + 5
    BY <1>1
  <2> HIDE DEF len
  <2>2. /\ n + 1 \in 1 .. len /\ n + 2 \in 1 .. len /\ n + 3 \in 1 .. len /\ n + 4 \in 1 .. len
        /\ \A k \in 1 .. len : \/ k \in 1 .. n \/ k = n + 1 \/ k = n + 2 \/ k = n + 3 \/ k = n + 4
                               \/ k = n + 5 /\ len = n + 5
    BY <1>0, <2>1
  <2> QED
    BY <2>1, <2>2 DEF len
<1>3. \A k \in DOMAIN f : \/ f[k] \in FrontScreens
                          \/ k = n + 1 \/ k = n + 2 \/ k = n + 3 \/ k = n + 4
                          \/ f[k] = "reject"
  BY <1>1, <1>2
<1>4. /\ \A k \in DOMAIN f : f[k] = "start" => k = n + 1
      /\ \A k \in DOMAIN f : f[k] = "inside" => k = n + 2
      /\ \A k \in DOMAIN f : f[k] = "end" => k = n + 3
      /\ \A k \in DOMAIN f : f[k] = "approve" => k = n + 4
  BY <1>1, <1>3 DEF FrontScreens
<1>5. /\ Position(f, "start") = n + 1 /\ Position(f, "inside") = n + 2
      /\ Position(f, "end") = n + 3 /\ Position(f, "approve") = n + 4
  BY <1>1, <1>2, <1>4, Zenon DEF Position
<1>6. (n + 1) - 1 = n
  BY <1>0
<1> QED
  BY <1>5, <1>6 DEF FrontOf

-----------------------------------------------------------------------------
Items == Len(review.pages)

(* The flow is one of the review's, or the one that only asks to skip; in  *)
(* the flow the device is at a screen of the review, in the loop or not.   *)
FlowInv ==
    \/ at = 0 /\ flow = << >>
    \/ at = 1 /\ flow = <<"skip">> /\ flow_inside_loop
    \/ /\ flow \in {ReviewFlow(review), ShownFlow(review)}
       /\ at \in 1 .. Len(flow)
       /\ \/ at <= FrontOf(flow) /\ ~flow_inside_loop
          \/ at = FrontOf(flow) + 2 /\ flow_inside_loop
          \/ at > FrontOf(flow) + 3

CursorInv ==
    /\ flow_inside_loop \in BOOLEAN
    /\ vd \in Cursor
    /\ vd.itemIdx <= Items
    /\ flow_inside_loop => vd.itemCount <= Items + 1
    /\ flow = <<"skip">> => vd.itemIdx < Items

TypeInv ==
    /\ review \in Reviews
    /\ skipped \in BOOLEAN
    /\ answer \in {"none", "approved", "rejected"}
    /\ FlowInv
    /\ CursorInv

(* A cursor that stands at an item or past the last one.                   *)
Stands(d) == d \in Cursor /\ d.itemIdx <= Items

(* The number of items, and what the cursor needs of it.                   *)
LEMMA ItemsTyped ==
    ASSUME review \in Reviews
    PROVE  /\ IsItems(review.pages) /\ Items \in 1 .. 128 /\ Items = Len(review.pages)
           /\ ExtraScreens = 0
  BY ReviewTyped, ReviewsAssumption DEF IsItems, Items

(* A cursor that stands in the review is one by its fields.                *)
LEMMA StandsOpened ==
    ASSUME review \in Reviews, NEW d, Stands(d)
    PROVE  \E i \in 0 .. Items, p \in 0 .. 255, c \in 0 .. 255, n \in 0 .. 255 : d = CursorAt(i, p, c, n)
<1>1. PICK i \in 0 .. 255, p \in 0 .. 255, c \in 0 .. 255, n \in 0 .. 255 : d = CursorAt(i, p, c, n)
  BY CursorOpened DEF Stands
<1>2. i <= Items
  BY <1>1, CursorFields DEF Stands
<1>3. i \in 0 .. Items
  BY <1>2, ItemsTyped
<1> QED
  BY <1>1, <1>3

(* A cursor with small fields stands in the review.                        *)
LEMMA StandsBuilt ==
    ASSUME review \in Reviews
    PROVE  \A i \in 0 .. Items, p \in 0 .. 255, c \in 0 .. 255, n \in 0 .. 255 : Stands(CursorAt(i, p, c, n))
<1> SUFFICES ASSUME NEW i \in 0 .. Items, NEW p \in 0 .. 255, NEW c \in 0 .. 255, NEW n \in 0 .. 255
             PROVE  Stands(CursorAt(i, p, c, n))
  OBVIOUS
<1>0. Items \in 1 .. 128
  BY ItemsTyped
<1>1. i \in 0 .. 255 /\ i <= Items
  BY <1>0
<1> QED
  <2>1. CursorAt(i, p, c, n) \in Cursor
    BY <1>1, CursorTyped, Zenon
  <2>2. CursorAt(i, p, c, n).itemIdx = i
    BY CursorFields
  <2> QED BY <1>1, <2>1, <2>2 DEF Stands

(* h_review_update_data on Nano X, where no introduction counts as an item. *)
LEMMA UpdatedBehind ==
    ASSUME review \in Reviews, NEW p, NEW c, NEW n
    PROVE  UpdateItem(CursorAt(Items, p, c, n), review.pages, 0) =
             [err |-> "no_data", vd |-> CursorAt(Items, p, c, Items)]
<1>1. 0 \in 0 .. 3 /\ IsItems(review.pages) /\ Len(review.pages) + 0 = Items
  BY ItemsTyped
<1>2. UpdateItem(CursorAt(Len(review.pages) + 0, p, c, n), review.pages, 0) =
             [err |-> "no_data",
              vd  |-> CursorAt(Len(review.pages) + 0, p, c, Len(review.pages) + 0)]
  BY <1>1, UpdateBehind, Zenon
<1> QED
  BY <1>1, <1>2, Zenon

Found(i, p, u, j, m) ==
    /\ m = review.pages[j + 1]
    /\ \A k \in i .. j - 1 : review.pages[k + 1] = 0
    /\ u = [err |-> "ok", vd |-> CursorAt(j, IF j = i THEN CappedPage(p, m) ELSE 0, m, Items + 1)]

(* h_review_update_data, started at an item, ends at one.                  *)
LEMMA UpdatedInside ==
    ASSUME review \in Reviews, NEW i \in 0 .. Items - 1, NEW p, NEW c, NEW n
    PROVE  \E j \in i .. Items - 1, m \in 1 .. 254 :
             Found(i, p, UpdateItem(CursorAt(i, p, c, n), review.pages, 0), j, m)
<1>1. /\ 0 \in 0 .. 3 /\ IsItems(review.pages) /\ Len(review.pages) = Items
      /\ Items + 0 = Items /\ i + 0 = i /\ i \in 0 .. Len(review.pages) - 1
  BY ItemsTyped
<1>2. PICK j \in i .. Len(review.pages) - 1 :
         FoundAt(review.pages, 0, i, p, UpdateItem(CursorAt(i + 0, p, c, n), review.pages, 0), j)
  BY <1>1, UpdateInside, Zenon
<1>3. j + 0 = j /\ j \in i .. Items - 1
  BY <1>1
<1>4. UpdateItem(CursorAt(i, p, c, n), review.pages, 0) =
        [err |-> "ok",
         vd  |-> CursorAt(j, IF j = i THEN CappedPage(p, review.pages[j + 1]) ELSE 0,
                          review.pages[j + 1], Items + 1)]
  BY <1>1, <1>2, <1>3, Zenon DEF FoundAt
<1>5. /\ review.pages[j + 1] \in 1 .. 254
      /\ \A k \in i .. j - 1 : review.pages[k + 1] = 0
  BY <1>2 DEF FoundAt
<1> QED
  BY <1>3, <1>4, <1>5 DEF Found

(* h_review_update_data leaves the cursor in the review.                   *)
LEMMA StandsUpdated ==
    ASSUME review \in Reviews, NEW d, Stands(d)
    PROVE  /\ Stands(UpdateItem(d, review.pages, 0).vd)
           /\ UpdateItem(d, review.pages, 0).vd.itemCount <= Items + 1
           /\ UpdateItem(d, review.pages, 0).err # "no_data" =>
                UpdateItem(d, review.pages, 0).vd.itemIdx < Items
<1> DEFINE u == UpdateItem(d, review.pages, 0)
<1>1. PICK i \in 0 .. Items, p \in 0 .. 255, c \in 0 .. 255, n \in 0 .. 255 : d = CursorAt(i, p, c, n)
  BY StandsOpened
<1>2. Items \in 1 .. 128
  BY ItemsTyped
<1>3. CASE i = Items
  <2>1. u = [err |-> "no_data", vd |-> CursorAt(Items, p, c, Items)]
    BY <1>1, <1>3, UpdatedBehind
  <2> HIDE DEF u
  <2>2. u.err = "no_data" /\ u.vd = CursorAt(Items, p, c, Items)
    BY <2>1
  <2>3. Items \in 0 .. Items /\ Items \in 0 .. 255 /\ Items <= Items + 1
    BY <1>2
  <2>4. Stands(u.vd) /\ u.vd.itemCount = Items
    <3>1. Stands(CursorAt(Items, p, c, Items))
      BY <2>3, StandsBuilt, ZenonT(60)
    <3> QED
      BY <2>2, <3>1, CursorFields
  <2> QED
    BY <2>2, <2>3, <2>4 DEF u
<1>4. CASE i \in 0 .. Items - 1
  <2>1. PICK j \in i .. Items - 1, m \in 1 .. 254 :
             Found(i, p, UpdateItem(CursorAt(i, p, c, n), review.pages, 0), j, m)
    BY <1>4, UpdatedInside
  <2> DEFINE q == IF j = i THEN CappedPage(p, m) ELSE 0
  <2>2. q \in 0 .. 255
    <3>1. CappedPage(p, m) \in 0 .. 254
      BY Capped
    <3> QED
      BY <3>1
  <2>3. u.vd = CursorAt(j, q, m, Items + 1)
    BY <1>1, <2>1 DEF Found
  <2> HIDE DEF u, q
  <2>4. j \in 0 .. Items /\ j < Items /\ m \in 0 .. 255 /\ Items + 1 \in 0 .. 255 /\ Items + 1 <= Items + 1
    BY <1>2, <1>4
  <2>5. Stands(u.vd) /\ u.vd.itemCount = Items + 1 /\ u.vd.itemIdx = j
    <3>1. Stands(CursorAt(j, q, m, Items + 1))
      BY <2>2, <2>4, StandsBuilt, ZenonT(60)
    <3> QED
      BY <2>3, <3>1, CursorFields
  <2> QED
    BY <2>4, <2>5 DEF u
<1>5. i = Items \/ i \in 0 .. Items - 1
  BY <1>2
<1> QED
  BY <1>3, <1>4, <1>5

(* h_paging_decrease, h_paging_init and h_paging_increase do.              *)
LEMMA StandsMoved ==
    ASSUME review \in Reviews, NEW d, Stands(d)
    PROVE  /\ Stands(h_paging_decrease(d))
           /\ Stands(h_paging_init)
           /\ d.itemCount <= Items + 1 => Stands(h_paging_increase(d))
<1>1. PICK i \in 0 .. Items, p \in 0 .. 255, c \in 0 .. 255, n \in 0 .. 255 : d = CursorAt(i, p, c, n)
  BY StandsOpened
<1>2. Items \in 1 .. 128 /\ ExtraScreens = 0 /\ i \in Int /\ d.itemCount = n
  BY <1>1, ItemsTyped, CursorFields
<1>3. Stands(h_paging_decrease(d))
  <2>1. /\ p # 0 => p - 1 \in 0 .. 255
        /\ i > 0 => i - 1 \in 0 .. Items
        /\ 255 \in 0 .. 255
    BY <1>2
  <2>2. h_paging_decrease(d) = IF p # 0 THEN CursorAt(i, p - 1, c, n)
                               ELSE IF i > 0 THEN CursorAt(i - 1, 255, c, n)
                               ELSE CursorAt(i, p, c, n)
    BY <1>1, <1>2, Decreased, SMTT(30)
  <2>3. /\ p # 0 => Stands(CursorAt(i, p - 1, c, n))
        /\ i > 0 => Stands(CursorAt(i - 1, 255, c, n))
        /\ Stands(CursorAt(i, p, c, n))
    BY <2>1, StandsBuilt, ZenonT(60)
  <2> QED
    BY <2>2, <2>3
<1>4. Stands(h_paging_init)
  <2>1. h_paging_init = CursorAt(0, 0, 1, 255) /\ 0 \in 0 .. Items /\ {0, 1, 255} \subseteq 0 .. 255
    BY <1>2 DEF h_paging_init, CursorAt
  <2> QED
    BY <2>1, StandsBuilt, ZenonT(60)
<1>5. ASSUME d.itemCount <= Items + 1 PROVE Stands(h_paging_increase(d))
  <2>1. n <= Items + 1
    BY <1>2, <1>5
  <2>2. /\ p + 1 < c => p + 1 \in 0 .. 255
        /\ i < n - 1 + ExtraScreens => i + 1 \in 0 .. Items
        /\ 0 \in 0 .. 255
    BY <1>2, <2>1
  <2>3. h_paging_increase(d) = IF p + 1 < c THEN CursorAt(i, p + 1, c, n)
             ELSE IF n > 0 /\ i < n - 1 + ExtraScreens THEN CursorAt(i + 1, 0, c, n)
             ELSE CursorAt(i, p, c, n)
    BY <1>1, <1>2, Increased
  <2>4. /\ p + 1 < c => Stands(CursorAt(i, p + 1, c, n))
        /\ i < n - 1 + ExtraScreens => Stands(CursorAt(i + 1, 0, c, n))
        /\ Stands(CursorAt(i, p, c, n))
    BY <2>2, StandsBuilt, ZenonT(60)
  <2> QED
    BY <2>3, <2>4
<1> QED
  BY <1>3, <1>4, <1>5

-----------------------------------------------------------------------------
Flows == {ReviewFlow(review), ShownFlow(review)}

(* Where the loop of a flow is.                                            *)
LEMMA FlowKnown ==
    ASSUME review \in Reviews, NEW f \in Flows
    PROVE  /\ Shape(f, FrontOf(f))
           /\ FrontOf(f) \in 1 .. 3 /\ Len(f) \in FrontOf(f) + 4 .. FrontOf(f) + 5
           /\ Position(f, "start") = FrontOf(f) + 1 /\ Position(f, "inside") = FrontOf(f) + 2
           /\ Position(f, "end") = FrontOf(f) + 3 /\ Position(f, "approve") = FrontOf(f) + 4
           /\ f # << >> /\ f # <<"skip">>
<1>1. PICK n : Shape(f, n)
  BY FlowOfReview, FlowShown DEF Flows
<1>2. FrontOf(f) = n /\ Position(f, "start") = n + 1 /\ Position(f, "inside") = n + 2
      /\ Position(f, "end") = n + 3 /\ Position(f, "approve") = n + 4
  BY <1>1, Positions
<1>3. n \in 1 .. 3 /\ Len(f) \in n + 4 .. n + 5
  BY <1>1 DEF Shape
<1>4. f # << >> /\ f # <<"skip">>
  <2>1. Len(<< >>) = 0 /\ Len(<<"skip">>) = 1
    OBVIOUS
  <2> DEFINE len == Len(f)
  <2>2. n \in 1 .. 3 /\ len \in n + 4 .. n + 5
    BY <1>3
  <2> HIDE DEF len
  <2>3. len # 0 /\ len # 1
    BY <2>2
  <2> QED
    BY <2>1, <2>3 DEF len
<1> QED
  BY <1>1, <1>2, <1>3, <1>4

(* The index of a step says which screen it is. *)
LEMMA StepKnown ==
    ASSUME review \in Reviews, NEW f \in Flows, NEW k \in 1 .. Len(f)
    PROVE  /\ k <= FrontOf(f) <=> f[k] \in FrontScreens
           /\ k = FrontOf(f) + 1 <=> f[k] = "start"
           /\ k = FrontOf(f) + 2 <=> f[k] = "inside"
           /\ k = FrontOf(f) + 3 <=> f[k] = "end"
           /\ k > FrontOf(f) + 3 <=> f[k] \in BackScreens
           /\ k = FrontOf(f) + 4 <=> f[k] = "approve"
           /\ f[k] # "skip"
<1> DEFINE n == FrontOf(f)
           len == Len(f)
<1>1. /\ n \in 1 .. 3 /\ len \in n + 4 .. n + 5
      /\ \A i \in 1 .. n : f[i] \in FrontScreens
      /\ f[n + 1] = "start" /\ f[n + 2] = "inside" /\ f[n + 3] = "end" /\ f[n + 4] = "approve"
      /\ len = n + 5 => f[n + 5] = "reject"
  BY FlowKnown DEF Shape
<1> HIDE DEF n, len
<1>0. n \in 1 .. 3 /\ len \in n + 4 .. n + 5 /\ k \in 1 .. len
  BY <1>1 DEF len
<1>2. \/ k \in 1 .. n
      \/ k = n + 1 \/ k = n + 2 \/ k = n + 3 \/ k = n + 4
      \/ k = n + 5 /\ len = n + 5
  BY <1>0
<1>3. CASE k \in 1 .. n
  <2>1. k <= n /\ k # n + 1 /\ k # n + 2 /\ k # n + 3 /\ k # n + 4 /\ ~(k > n + 3)
    BY <1>0, <1>3
  <2>2. f[k] \in FrontScreens
    BY <1>1, <1>3
  <2> QED
    BY <2>1, <2>2 DEF FrontScreens, BackScreens, n
<1>4. CASE k = n + 1
  <2>1. ~(k <= n) /\ k # n + 2 /\ k # n + 3 /\ k # n + 4 /\ ~(k > n + 3)
    BY <1>0, <1>4
  <2>2. f[k] = "start"
    BY <1>1, <1>4
  <2> QED
    BY <1>4, <2>1, <2>2 DEF FrontScreens, BackScreens, n
<1>5. CASE k = n + 2
  <2>1. ~(k <= n) /\ k # n + 1 /\ k # n + 3 /\ k # n + 4 /\ ~(k > n + 3)
    BY <1>0, <1>5
  <2>2. f[k] = "inside"
    BY <1>1, <1>5
  <2> QED
    BY <1>5, <2>1, <2>2 DEF FrontScreens, BackScreens, n
<1>6. CASE k = n + 3
  <2>1. ~(k <= n) /\ k # n + 1 /\ k # n + 2 /\ k # n + 4 /\ ~(k > n + 3)
    BY <1>0, <1>6
  <2>2. f[k] = "end"
    BY <1>1, <1>6
  <2> QED
    BY <1>6, <2>1, <2>2 DEF FrontScreens, BackScreens, n
<1>7. CASE k = n + 4
  <2>1. ~(k <= n) /\ k # n + 1 /\ k # n + 2 /\ k # n + 3 /\ k > n + 3
    BY <1>0, <1>7
  <2>2. f[k] = "approve"
    BY <1>1, <1>7
  <2> QED
    BY <1>7, <2>1, <2>2 DEF FrontScreens, BackScreens, n
<1>8. CASE k = n + 5 /\ len = n + 5
  <2>1. ~(k <= n) /\ k # n + 1 /\ k # n + 2 /\ k # n + 3 /\ k # n + 4 /\ k > n + 3
    BY <1>0, <1>8
  <2>2. f[k] = "reject"
    BY <1>1, <1>8
  <2> QED
    BY <1>8, <2>1, <2>2 DEF FrontScreens, BackScreens, n
<1> QED
  BY <1>2, <1>3, <1>4, <1>5, <1>6, <1>7, <1>8

-----------------------------------------------------------------------------
(* The loop is entered at a cursor that stands.                            *)
LEMMA EntersInside ==
    ASSUME review \in Reviews, review' = review, NEW f \in Flows,
           NEW d, Stands(d), d.itemCount <= Items + 1, EnterInside(f, d)
    PROVE  FlowInv' /\ CursorInv'
<1>1. /\ flow' = f /\ at' = FrontOf(f) + 2 /\ vd' = d /\ flow_inside_loop' = TRUE
      /\ FrontOf(f) \in 1 .. 3 /\ Len(f) \in FrontOf(f) + 4 .. FrontOf(f) + 5 /\ f # <<"skip">>
  BY FlowKnown DEF EnterInside, Enter
<1>2. at' \in 1 .. Len(f)
  BY <1>1
<1>3. flow' \in {ReviewFlow(review'), ShownFlow(review')} /\ FrontOf(flow)' = FrontOf(f)
  BY <1>1 DEF Flows
<1>4. FlowInv'
  BY <1>1, <1>2, <1>3 DEF FlowInv
<1>5. CursorInv'
  BY <1>1 DEF CursorInv, Stands, Items
<1> QED
  BY <1>4, <1>5

(* h_loop_start keeps the flow and the cursor well formed.                 *)
LEMMA EntersStart ==
    ASSUME review \in Reviews, review' = review, NEW f \in Flows,
           NEW d, Stands(d), EnterStart(f, d)
    PROVE  FlowInv' /\ CursorInv'
<1>1. CASE flow_inside_loop /\ ~h_paging_can_decrease(d)
  <2>1. /\ flow' = f /\ at' = FrontOf(f) /\ vd' = d /\ flow_inside_loop' = FALSE
        /\ FrontOf(f) \in 1 .. 3 /\ Len(f) \in FrontOf(f) + 4 .. FrontOf(f) + 5 /\ f # <<"skip">>
    BY <1>1, FlowKnown DEF EnterStart, Enter, FrontOf
  <2>2. at' \in 1 .. Len(f) /\ at' <= FrontOf(f)
    BY <2>1
  <2>3. flow' \in {ReviewFlow(review'), ShownFlow(review')} /\ FrontOf(flow)' = FrontOf(f)
    BY <2>1 DEF Flows
  <2>4. FlowInv'
    BY <2>1, <2>2, <2>3 DEF FlowInv
  <2>5. CursorInv'
    BY <2>1 DEF CursorInv, Stands, Items
  <2> QED
    BY <2>4, <2>5
<1>2. CASE ~(flow_inside_loop /\ ~h_paging_can_decrease(d))
  <2> DEFINE from == IF flow_inside_loop THEN h_paging_decrease(d) ELSE h_paging_init
  <2>1. EnterInside(f, UpdateItem(from, review.pages, 0).vd)
    BY <1>2 DEF EnterStart
  <2>2. Stands(from)
    BY StandsMoved
  <2> HIDE DEF from
  <2> QED
    BY <2>1, <2>2, StandsUpdated, EntersInside
<1> QED
  BY <1>1, <1>2

(* h_loop_end does.                                                        *)
LEMMA EntersEnd ==
    ASSUME TypeInv, review' = review, flow \in Flows, EnterEnd
    PROVE  FlowInv' /\ CursorInv'
<1> DEFINE from == IF flow_inside_loop THEN h_paging_increase(vd) ELSE h_paging_decrease(vd)
           next == UpdateItem(from, review.pages, 0)
<1>1. /\ review \in Reviews /\ Stands(vd)
      /\ flow_inside_loop => vd.itemCount <= Items + 1
  BY DEF TypeInv, CursorInv, Stands
<1>2. Stands(from)
  BY <1>1, StandsMoved
<1> HIDE DEF from
<1>3. Stands(next.vd) /\ next.vd.itemCount <= Items + 1 /\ (next.err # "no_data" => next.vd.itemIdx < Items)
  BY <1>1, <1>2, StandsUpdated
<1>4. /\ FrontOf(flow) \in 1 .. 3 /\ Len(flow) \in FrontOf(flow) + 4 .. FrontOf(flow) + 5
      /\ flow # <<"skip">> /\ Position(flow, "approve") = FrontOf(flow) + 4
  BY <1>1, FlowKnown
<1>5. \/ Enter(flow, FrontOf(flow) + 4, next.vd, FALSE)
      \/ next.err # "no_data" /\ Enter(<<"skip">>, 1, next.vd, TRUE)
      \/ EnterInside(flow, next.vd)
  <2>1. \/ Enter(flow, Position(flow, "approve"), next.vd, FALSE)
        \/ flow_inside_loop /\ ~(flow_inside_loop /\ next.err = "no_data")
             /\ Enter(<<"skip">>, 1, next.vd, TRUE)
        \/ EnterInside(flow, next.vd)
    BY DEF EnterEnd, from
  <2> HIDE DEF next
  <2> QED
    BY <1>4, <2>1
<1> HIDE DEF next
<1>6. CASE Enter(flow, FrontOf(flow) + 4, next.vd, FALSE)
  <2>1. flow' = flow /\ at' = FrontOf(flow) + 4 /\ vd' = next.vd /\ flow_inside_loop' = FALSE
    BY <1>6 DEF Enter
  <2>2. at' \in 1 .. Len(flow) /\ at' > FrontOf(flow) + 3
    BY <1>4, <2>1
  <2>3. flow' \in {ReviewFlow(review'), ShownFlow(review')} /\ FrontOf(flow)' = FrontOf(flow)
    BY <2>1 DEF Flows
  <2>4. FlowInv'
    BY <2>1, <2>2, <2>3 DEF FlowInv
  <2>5. CursorInv'
    BY <1>3, <1>4, <2>1 DEF CursorInv, Stands, Items
  <2> QED
    BY <2>4, <2>5
<1>7. CASE next.err # "no_data" /\ Enter(<<"skip">>, 1, next.vd, TRUE)
  <2>1. flow' = <<"skip">> /\ at' = 1 /\ vd' = next.vd /\ flow_inside_loop' = TRUE
    BY <1>7 DEF Enter
  <2>2. FlowInv'
    BY <2>1 DEF FlowInv
  <2>3. CursorInv'
    BY <1>3, <1>7, <2>1 DEF CursorInv, Stands, Items
  <2> QED
    BY <2>2, <2>3
<1>8. CASE EnterInside(flow, next.vd)
  BY <1>1, <1>3, <1>8, EntersInside
<1> QED
  BY <1>5, <1>6, <1>7, <1>8

(* One step of the flow to the right or to the left.                       *)
LEMMA FlowMoves ==
    ASSUME TypeInv, review' = review, Screen # "skip",
           NEW k \in {at - 1, at + 1}, at \in 1 .. Len(flow), k \in 1 .. Len(flow), EnterStep(k)
    PROVE  FlowInv' /\ CursorInv'
<1>1. /\ review \in Reviews /\ Stands(vd) /\ FlowInv /\ CursorInv
      /\ flow_inside_loop => vd.itemCount <= Items + 1
  BY DEF TypeInv, CursorInv, Stands
<1> DEFINE n == FrontOf(flow)
<1>2. /\ flow \in Flows /\ at \in 1 .. Len(flow)
      /\ \/ at <= n /\ ~flow_inside_loop
         \/ at = n + 2 /\ flow_inside_loop
         \/ at > n + 3
  <2>1. at # 0
    <3> DEFINE len == Len(flow)
    <3>1. at \in 1 .. len
      OBVIOUS
    <3> HIDE DEF len
    <3> QED
      BY <3>1
  <2>2. ~(at = 1 /\ flow = <<"skip">>)
    BY <2>1 DEF Screen
  <2> QED
    BY <1>1, <2>1, <2>2 DEF FlowInv, Flows
<1>3. /\ n \in 1 .. 3 /\ Len(flow) \in n + 4 .. n + 5 /\ flow # <<"skip">>
      /\ flow[k] = "start" <=> k = n + 1
      /\ flow[k] = "end" <=> k = n + 3
  BY <1>1, <1>2, FlowKnown, StepKnown
<1> HIDE DEF n
<1>4. CASE flow[k] = "start"
  <2>1. EnterStart(flow, vd)
    BY <1>4 DEF EnterStep
  <2> QED
    BY <1>1, <1>2, <2>1, EntersStart
<1>5. CASE flow[k] = "end"
  <2>1. EnterEnd
    BY <1>5 DEF EnterStep
  <2> QED
    BY <1>2, <2>1, EntersEnd
<1>6. CASE flow[k] # "start" /\ flow[k] # "end"
  <2>1. EnterPlain(k)
    BY <1>6 DEF EnterStep
  <2>2. flow' = flow /\ at' = k /\ vd' = vd /\ flow_inside_loop' = flow_inside_loop
    BY <2>1 DEF EnterPlain, Enter
  <2>3. \/ k <= n /\ ~flow_inside_loop
        \/ k > n + 3
    <3> DEFINE len == Len(flow)
    <3>1. n \in 1 .. 3 /\ len \in n + 4 .. n + 5 /\ at \in 1 .. len /\ k \in 1 .. len
      BY <1>2, <1>3
    <3>2. k # n + 1 /\ k # n + 3
      BY <1>3, <1>6
    <3> HIDE DEF len
    <3>3. CASE at <= n /\ ~flow_inside_loop
      BY <3>1, <3>2, <3>3
    <3>4. CASE at = n + 2
      BY <3>1, <3>2, <3>4
    <3>5. CASE at > n + 3
      BY <3>1, <3>2, <3>5
    <3> QED
      BY <1>2, <3>3, <3>4, <3>5
  <2>4. flow' \in {ReviewFlow(review'), ShownFlow(review')} /\ FrontOf(flow)' = n /\ at' \in 1 .. Len(flow')
    BY <1>2, <2>2 DEF Flows, n
  <2>5. FlowInv'
    BY <2>2, <2>3, <2>4 DEF FlowInv
  <2>6. CursorInv'
    BY <1>1, <2>2 DEF CursorInv, Items
  <2> QED
    BY <2>5, <2>6
<1> QED
  BY <1>4, <1>5, <1>6

(* The cursor that the right button of the skip screen starts from.        *)
NextItem(d) == [d EXCEPT !.itemIdx = (@ + 1) % 256]

IsNext(d, x) == x = (d.itemIdx + 1) % 256

(* The cursor that the skip screen moves, by its fields.                   *)
LEMMA NextItemOf ==
    ASSUME NEW d \in Cursors, NEW x \in Int, IsNext(d, x)
    PROVE  NextItem(d) = CursorAt(x, d.pageIdx, d.pageCount, d.itemCount)
<1>1. [d EXCEPT !.itemIdx = x] = CursorAt(x, d.pageIdx, d.pageCount, d.itemCount)
  BY CursorChanged
<1>2. NextItem(d) = [d EXCEPT !.itemIdx = x]
  BY Zenon DEF NextItem, IsNext
<1> QED
  BY <1>1, <1>2

(* It stands in the review, also when it moves to the next item.           *)
LEMMA NextItemStands ==
    ASSUME review \in Reviews, NEW d, Stands(d), d.itemIdx < Items
    PROVE  Stands(NextItem(d))
<1>1. PICK i \in 0 .. Items, p \in 0 .. 255, c \in 0 .. 255, n \in 0 .. 255 : d = CursorAt(i, p, c, n)
  BY StandsOpened
<1>2. Items \in 1 .. 128 /\ i < Items
  BY <1>1, ItemsTyped, CursorFields
<1>3. /\ d.itemIdx = i /\ d.pageIdx = p /\ d.pageCount = c /\ d.itemCount = n
      /\ i \in Int /\ p \in Int /\ c \in Int /\ n \in Int
  BY <1>1, <1>2, CursorFields
<1>4. d \in Cursors
  BY <1>1, <1>3 DEF Cursors, CursorAt
<1> DEFINE x == i + 1
<1>5. x \in 0 .. Items /\ x \in Int /\ IsNext(d, x)
  BY <1>2, <1>3 DEF IsNext
<1> HIDE DEF x
<1>6. NextItem(d) = CursorAt(x, d.pageIdx, d.pageCount, d.itemCount)
  BY <1>4, <1>5, NextItemOf, Zenon
<1>7. NextItem(d) = CursorAt(x, p, c, n)
  BY <1>3, <1>6
<1> QED
  BY <1>5, <1>7, StandsBuilt, ZenonT(60)

-----------------------------------------------------------------------------
(* Before the first review.                                                *)
LEMMA TypeInvInit == Init => TypeInv
<1> SUFFICES ASSUME Init PROVE TypeInv
  OBVIOUS
<1>1. /\ review \in Reviews /\ vd = CursorAt(0, 0, 0, 0) /\ flow_inside_loop = FALSE
      /\ flow = << >> /\ at = 0 /\ answer = "none" /\ skipped = FALSE
  BY DEF Init, CursorAt
<1>2. Items \in 1 .. 128 /\ 0 \in 0 .. Items /\ 0 \in 0 .. 255 /\ flow # <<"skip">>
  BY <1>1, ItemsTyped
<1>3. Stands(vd)
  BY <1>1, <1>2, StandsBuilt, ZenonT(60)
<1>4. FlowInv
  BY <1>1 DEF FlowInv
<1>5. CursorInv
  BY <1>1, <1>2, <1>3 DEF CursorInv, Stands
<1> QED
  BY <1>1, <1>4, <1>5 DEF TypeInv

(* The cursor with which a review starts.                                  *)
LEMMA ShownCursor == h_paging_decrease(h_paging_init) = CursorAt(0, 0, 1, 255)
<1>1. h_paging_init = CursorAt(0, 0, 1, 255)
  BY DEF h_paging_init, CursorAt
<1>2. h_paging_decrease(CursorAt(0, 0, 1, 255)) = CursorAt(0, 0, 1, 255)
  BY Decreased
<1> QED
  BY <1>1, <1>2

(* A review is shown from its first screen. *)
LEMMA ShowTyped ==
    ASSUME NEW r \in Reviews, Show(r)
    PROVE  TypeInv'
<1>1. /\ review' = r /\ vd' = CursorAt(0, 0, 1, 255)
      /\ flow_inside_loop' = FALSE /\ flow' = ShownFlow(r) /\ at' = 1
      /\ answer' = "none" /\ skipped' = FALSE
  BY ShownCursor DEF Show
<1>2. PICK n : Shape(flow', n)
  BY <1>1, FlowShown
<1>3. FrontOf(flow)' = n /\ n \in 1 .. 3 /\ Len(flow') \in n + 4 .. n + 5
  BY <1>2, Positions DEF Shape
<1>4. at' \in 1 .. Len(flow') /\ at' <= n
  <2> DEFINE len == Len(flow')
  <2>1. n \in 1 .. 3 /\ len \in n + 4 .. n + 5
    BY <1>3
  <2> HIDE DEF len
  <2>2. 1 \in 1 .. len /\ 1 <= n
    BY <2>1
  <2> QED
    BY <1>1, <2>2 DEF len
<1>5. FlowInv'
  BY <1>1, <1>3, <1>4 DEF FlowInv
<1>6. flow' # <<"skip">>
  <2> DEFINE len == Len(flow')
  <2>1. n \in 1 .. 3 /\ len \in n + 4 .. n + 5
    BY <1>3
  <2> HIDE DEF len
  <2>2. len # 1
    BY <2>1
  <2> QED
    BY <2>2 DEF len
<1>7. vd' \in Cursor /\ vd'.itemIdx <= Len(review'.pages)
  <2>1. vd'.itemIdx = 0
    BY <1>1, CursorFields
  <2>2. vd' \in Cursor
    <3>1. 0 \in 0 .. 255 /\ 1 \in 0 .. 255 /\ 255 \in 0 .. 255
      OBVIOUS
    <3>2. CursorAt(0, 0, 1, 255) \in Cursor
      BY <3>1, CursorTyped, ZenonT(30)
    <3> QED
      BY <1>1, <3>2
  <2>3. Len(r.pages) \in 1 .. 128
    BY ReviewTyped DEF IsItems
  <2> QED
    BY <1>1, <2>1, <2>2, <2>3
<1>8. CursorInv'
  BY <1>1, <1>6, <1>7 DEF CursorInv, Items
<1> QED
  BY <1>1, <1>5, <1>8 DEF TypeInv

(* Off the flow: an answer, or the device is unplugged. *)
LEMMA IdleTyped ==
    ASSUME TypeInv, Idle, UNCHANGED <<review, vd, flow_inside_loop>>
    PROVE  FlowInv' /\ CursorInv'
<1>1. FlowInv'
  BY DEF Idle, FlowInv
<1>2. << >> # <<"skip">>
  OBVIOUS
<1>3. CursorInv'
  BY <1>2 DEF Idle, TypeInv, CursorInv, Items
<1> QED
  BY <1>1, <1>3

(* The double press that leads to the approval. *)
LEMMA SkipTyped ==
    ASSUME TypeInv, SkipToApproval
    PROVE  TypeInv'
<1> DEFINE f == ReviewFlow(review)
<1>1. /\ review \in Reviews /\ f \in Flows
      /\ review' = review /\ answer' = answer /\ skipped' = TRUE
      /\ flow' = f /\ at' = Position(f, "approve") /\ vd' = vd /\ flow_inside_loop' = flow_inside_loop
  BY DEF TypeInv, Flows, SkipToApproval, Enter
<1> HIDE DEF f
<1>2. /\ FrontOf(f) \in 1 .. 3 /\ Len(f) \in FrontOf(f) + 4 .. FrontOf(f) + 5
      /\ at' = FrontOf(f) + 4 /\ f # <<"skip">>
  BY <1>1, FlowKnown
<1>3. at' \in 1 .. Len(f) /\ at' > FrontOf(f) + 3
  BY <1>2
<1>4. flow' \in {ReviewFlow(review'), ShownFlow(review')} /\ FrontOf(flow)' = FrontOf(f)
  BY <1>1 DEF Flows
<1>5. FlowInv'
  BY <1>1, <1>3, <1>4 DEF FlowInv
<1>6. CursorInv'
  BY <1>1, <1>2 DEF TypeInv, CursorInv, Items
<1> QED
  BY <1>1, <1>5, <1>6 DEF TypeInv

(* The skip screen is the only one of its flow, and inside the loop.       *)
LEMMA OnSkipScreen ==
    ASSUME TypeInv, Screen = "skip"
    PROVE  at = 1 /\ flow = <<"skip">> /\ flow_inside_loop /\ vd.itemIdx < Items
<1>1. CASE at = 0
  BY <1>1 DEF Screen
<1>2. CASE at = 1 /\ flow = <<"skip">> /\ flow_inside_loop
  BY <1>2 DEF TypeInv, CursorInv
<1>3. CASE at # 0 /\ flow \in Flows /\ at \in 1 .. Len(flow)
  <2>1. flow[at] # "skip"
    BY <1>3, StepKnown DEF TypeInv
  <2> QED
    BY <1>3, <2>1 DEF Screen
<1> QED
  BY <1>1, <1>2, <1>3 DEF TypeInv, FlowInv, Flows

(* On any other screen of a review the device is at a step of its flow.    *)
LEMMA InFlow ==
    ASSUME TypeInv, Screen # "skip", at # 0
    PROVE  /\ flow \in Flows /\ at \in 1 .. Len(flow) /\ Len(flow) \in 5 .. 8
<1>1. flow \in Flows /\ at \in 1 .. Len(flow)
  <2>1. ~(at = 1 /\ flow = <<"skip">>)
    BY DEF Screen
  <2> QED
    BY <2>1 DEF TypeInv, FlowInv, Flows
<1> DEFINE n == FrontOf(flow)
           len == Len(flow)
<1>2. n \in 1 .. 3 /\ len \in n + 4 .. n + 5
  BY <1>1, FlowKnown DEF TypeInv
<1> HIDE DEF n, len
<1>3. len \in 5 .. 8
  BY <1>2
<1> QED
  BY <1>1, <1>3 DEF len

(* The right and the left button. *)
LEMMA ButtonTyped ==
    ASSUME TypeInv, Right \/ Left
    PROVE  TypeInv'
<1>1. /\ review \in Reviews /\ Stands(vd)
      /\ review' = review /\ answer' = answer /\ skipped' = skipped
  BY DEF TypeInv, CursorInv, Stands, Right, Left, Unseen
<1> SUFFICES FlowInv' /\ CursorInv'
  BY <1>1 DEF TypeInv
<1> DEFINE len == Len(flow)
<1>2. CASE FlowRight
  <2>1. Screen # "skip" /\ at \in 1 .. len - 1 /\ EnterStep(at + 1)
    BY <1>2 DEF FlowRight
  <2>2. len \in 5 .. 8
    <3>1. at # 0
      <4>1. \A l : 0 \notin 1 .. l
        OBVIOUS
      <4> QED
        BY <2>1, <4>1
    <3> QED
      BY <2>1, <3>1, InFlow
  <2> HIDE DEF len
  <2>3. at \in 1 .. len /\ at + 1 \in 1 .. len
    BY <2>1, <2>2
  <2> QED
    BY <1>1, <2>1, <2>3, FlowMoves DEF len
<1>3. CASE FlowLeft
  <2>1. Screen # "skip" /\ at > 1 /\ EnterStep(at - 1)
    BY <1>3 DEF FlowLeft
  <2>2. at \in 1 .. len /\ len \in 5 .. 8
    BY <2>1, InFlow
  <2> HIDE DEF len
  <2>3. at - 1 \in 1 .. len
    BY <2>1, <2>2
  <2> QED
    BY <1>1, <2>1, <2>2, <2>3, FlowMoves DEF len
<1> DEFINE f == ReviewFlow(review)
<1>4. f \in Flows
  BY DEF Flows
<1>5. CASE SkipRight
  <2>1. Screen = "skip" /\ EnterStart(f, NextItem(vd))
    BY <1>5 DEF SkipRight, NextItem
  <2>2. Stands(NextItem(vd))
    BY <1>1, <2>1, OnSkipScreen, NextItemStands
  <2> HIDE DEF f
  <2> QED
    BY <1>1, <1>4, <2>1, <2>2, EntersStart
<1>6. CASE SkipLeft
  <2>1. EnterStart(f, vd)
    BY <1>6 DEF SkipLeft
  <2> HIDE DEF f
  <2> QED
    BY <1>1, <1>4, <2>1, EntersStart
<1> QED
  BY <1>2, <1>3, <1>5, <1>6 DEF Right, Left

(* Every step keeps the types.                                             *)
LEMMA TypeInvKept == TypeInv /\ [Next]_vars => TypeInv'
<1> SUFFICES ASSUME TypeInv, [Next]_vars PROVE TypeInv'
  OBVIOUS
<1>1. ASSUME NEW r \in Reviews, Show(r) PROVE TypeInv'
  BY <1>1, ShowTyped
<1>2. CASE Right \/ Left
  BY <1>2, ButtonTyped
<1>3. CASE SkipToApproval
  BY <1>3, SkipTyped
<1>4. CASE Answer
  <2>1. FlowInv' /\ CursorInv'
    BY <1>4, IdleTyped DEF Answer
  <2>2. review' = review /\ skipped' = skipped /\ answer' \in {"approved", "rejected"}
    BY <1>4 DEF Answer
  <2> QED
    BY <2>1, <2>2 DEF TypeInv
<1>5. CASE IoReset
  <2>1. FlowInv' /\ CursorInv'
    BY <1>5, IdleTyped DEF IoReset
  <2>2. review' = review /\ skipped' = skipped /\ answer' = answer
    BY <1>5 DEF IoReset
  <2> QED
    BY <2>1, <2>2 DEF TypeInv
<1>6. CASE UNCHANGED vars
  BY <1>6 DEF vars, TypeInv, FlowInv, CursorInv, Items
<1> QED
  BY <1>1, <1>2, <1>3, <1>4, <1>5, <1>6 DEF Next

(* The type invariant of the module, for any reviews.                      *)
THEOREM TypeCorrect == Spec => []TypeOK
<1>1. TypeInv => TypeOK
  <2> SUFFICES ASSUME TypeInv PROVE TypeOK
    OBVIOUS
  <2>1. at \in 0 .. Len(flow)
    <3>1. Len(<< >>) = 0 /\ Len(<<"skip">>) = 1
      OBVIOUS
    <3>2. \A l \in Int : 1 .. l \subseteq 0 .. l
      OBVIOUS
    <3>3. CASE at = 0 \/ Screen = "skip"
      BY <3>1, <3>3, OnSkipScreen DEF TypeInv, FlowInv
    <3>4. CASE at # 0 /\ Screen # "skip"
      BY <3>2, <3>4, InFlow
    <3> QED
      BY <3>3, <3>4
  <2>2. flow \in {<< >>, <<"skip">>} \cup {ShownFlow(r) : r \in Reviews}
                                     \cup {ReviewFlow(r) : r \in Reviews}
    BY DEF TypeInv, FlowInv
  <2> QED
    BY <2>1, <2>2 DEF TypeInv, CursorInv, TypeOK
<1> QED
  BY <1>1, TypeInvInit, TypeInvKept, PTL DEF Spec

-----------------------------------------------------------------------------
(* The skip screen goes on to the page it stands for only where that page  *)
(* is the item's only one; so this is what a progressive review needs.     *)
SkipsShortItems ==
    \A r \in Reviews : r.progressive /\ r.kind \in {"TXN", "MSG"} =>
        \A k \in 3 .. Len(r.pages) : r.pages[k] <= 1

(* The cursor stands at page p of item i, and says how many there are.     *)
PageAt(d, i, p, m) ==
    /\ i \in 0 .. Items - 1 /\ m \in 1 .. 254 /\ p \in 0 .. m - 1
    /\ m = review.pages[i + 1]
    /\ d = CursorAt(i, p, m, Items + 1)

AtPage(d) == \E i, p, m : PageAt(d, i, p, m)

(* The pages up to page p of item i.                                       *)
Before(i, p) == PagesUpTo(review.pages, i, p)

Seen(S) == ~skipped => S \subseteq shown

AtStart(d) == \E c, n \in 0 .. 255 : d = CursorAt(0, 0, c, n)
Behind(d)  == \E c, n \in 0 .. 255 : d = CursorAt(Items, 0, c, n)

OnInside == \E i, p, m : PageAt(vd, i, p, m) /\ Seen(Before(i, p + 1))
OnSkip   == \E i : PageAt(vd, i, 0, 1) /\ Seen(Before(i, 0))
OnBack   ==
    /\ Seen(PagesOf(review.pages))
    /\ IF flow_inside_loop THEN skipped /\ AtPage(vd)
                           ELSE Behind(vd) \/ (AtStart(vd) /\ skipped)

ScreenInv ==
    /\ Screen = "skip" => OnSkip
    /\ Screen = "inside" => OnInside
    /\ Screen \in BackScreens => OnBack
    /\ Screen \in FrontScreens => AtStart(vd)

WalkInv ==
    /\ TypeInv
    /\ ScreenInv
    /\ answer # "none" => Seen(PagesOf(review.pages))

-----------------------------------------------------------------------------
(* The pages by those before them, see NanoPagingProofs.                   *)
LEMMA ItemsOfReview ==
    ASSUME review \in Reviews
    PROVE  IsItems(review.pages) /\ ItemsOf(review.pages) = Items
  BY ItemsTyped DEF ItemsOf

(* The pages before a page are before a later one.                         *)
LEMMA BeforeSmaller ==
    ASSUME review \in Reviews,
           NEW i \in Int, NEW p \in Int, NEW j \in Int, NEW q \in Int, i < j \/ (i = j /\ p <= q)
    PROVE  Before(i, p) \subseteq Before(j, q)
  BY ItemsOfReview, UpToSmaller DEF Before

(* Between a page and the next of its item there is none.                  *)
LEMMA BeforeNext ==
    ASSUME review \in Reviews, NEW i \in Int, NEW p \in Int
    PROVE  Before(i, p + 1) \subseteq Before(i, p) \cup {<<i, p>>}
  BY ItemsOfReview, UpToNext DEF Before

(* No page is before the first, all are before the end.                    *)
LEMMA BeforeEnds ==
    ASSUME review \in Reviews
    PROVE  /\ Before(0, 0) = {}
           /\ PagesOf(review.pages) \subseteq Before(Items, 0)
<1>1. IsItems(review.pages) /\ ItemsOf(review.pages) = Items
  BY ItemsOfReview
<1>2. /\ PagesUpTo(review.pages, 0, 0) = {}
      /\ PagesOf(review.pages) \subseteq PagesUpTo(review.pages, ItemsOf(review.pages), 0)
  BY <1>1, UpToEnds
<1> QED
  BY <1>1, <1>2 DEF Before

(* Pages behind the last one of an item count as the next item's first.    *)
LEMMA BeforeItemIs ==
    ASSUME review \in Reviews, NEW i \in Int, NEW p \in Int, NEW m \in Int, m = review.pages[i + 1], m <= p
    PROVE  Before(i, p) = Before(i + 1, 0)
  BY ItemsOfReview, UpToItemIs DEF Before

-----------------------------------------------------------------------------
(* How many pages there are before a page, and in all.                     *)
Count(i, p) == Cardinality(Before(i, p))
Total == Cardinality(PagesOf(review.pages))

(* There are finitely many pages, so they can be counted.                  *)
LEMMA PagesFinite ==
    ASSUME review \in Reviews
    PROVE  /\ IsFiniteSet(PagesOf(review.pages)) /\ Total \in Nat
           /\ \A i, p : IsFiniteSet(Before(i, p)) /\ Count(i, p) \in Nat /\ Count(i, p) <= Total
  BY ItemsOfReview, UpToFinite DEF Before, Count, Total, CountUpTo, CountOf

(* A page that exists is one more.                                         *)
LEMMA CountNext ==
    ASSUME review \in Reviews, NEW d, NEW i, NEW p, NEW m, PageAt(d, i, p, m)
    PROVE  /\ Count(i, p + 1) = Count(i, p) + 1
           /\ Count(i, p) \in Nat /\ Total \in Nat /\ Count(i, p) < Total
<1>1. IsItems(review.pages) /\ ItemsOf(review.pages) = Items
  BY ItemsOfReview
<1>2. IsPage(review.pages, i, p, m)
  BY <1>1 DEF PageAt, IsPage
<1> QED
  BY <1>1, <1>2, UpToCount DEF OneMorePage, Before, Count, Total, CountUpTo, CountOf

-----------------------------------------------------------------------------
(* From page p of item i the update of the screen comes to page q of item  *)
(* j, which has m.                                                         *)
Reached(i, p, u, j, q, m) ==
    /\ u.err = "ok" /\ PageAt(u.vd, j, q, m)
    /\ i <= j
    /\ j = i => q = IF p < m THEN p ELSE m - 1
    /\ j # i => q = 0 /\ \A k \in i .. j - 1 : review.pages[k + 1] = 0

(* h_review_update_data, started at an item, ends at a page.               *)
LEMMA ReachesPage ==
    ASSUME review \in Reviews, NEW i \in 0 .. Items - 1, NEW p \in 0 .. 255, NEW c, NEW n,
           p = review.pages[i + 1] => p = 0
    PROVE  \E j, q, m : Reached(i, p, UpdateItem(CursorAt(i, p, c, n), review.pages, 0), j, q, m)
<1> DEFINE u == UpdateItem(CursorAt(i, p, c, n), review.pages, 0)
<1>1. PICK j \in i .. Items - 1, m \in 1 .. 254 : Found(i, p, u, j, m)
  BY UpdatedInside
<1> HIDE DEF u
<1> DEFINE q == IF j = i THEN CappedPage(p, m) ELSE 0
<1>2. /\ m = review.pages[j + 1] /\ \A k \in i .. j - 1 : review.pages[k + 1] = 0
      /\ u.err = "ok" /\ u.vd = CursorAt(j, q, m, Items + 1)
  BY <1>1 DEF Found
<1>3. i <= j /\ j \in 0 .. Items - 1
  BY ItemsTyped
<1>4. j = i => q = IF p < m THEN p ELSE m - 1
  <2> SUFFICES ASSUME j = i PROVE CappedPage(p, m) = IF p < m THEN p ELSE m - 1
    OBVIOUS
  <2>1. p = m => p = 0
    BY <1>2
  <2>2. p < m \/ p > m
    BY <2>1
  <2> QED
    BY <2>2, Capped
<1>5. j # i => q = 0
  OBVIOUS
<1> HIDE DEF q
<1>6. q \in 0 .. m - 1
  <2>1. (IF p < m THEN p ELSE m - 1) \in 0 .. m - 1 /\ 0 \in 0 .. m - 1
    OBVIOUS
  <2> QED
    BY <1>4, <1>5, <2>1
<1>7. PageAt(u.vd, j, q, m)
  BY <1>2, <1>3, <1>6 DEF PageAt
<1> QED
  BY <1>2, <1>3, <1>4, <1>5, <1>7 DEF Reached, u

(* No page lies between the two: the page asked for or the first one       *)
(* behind it, or, for a page index that is capped, the page before it.     *)
LEMMA ReachedSame ==
    ASSUME review \in Reviews, NEW i \in 0 .. Items - 1, NEW p \in 0 .. 255, NEW u,
           NEW j, NEW q, NEW m, Reached(i, p, u, j, q, m)
    PROVE  \/ Before(j, q) = Before(i, p)
           \/ j = i /\ p >= m /\ Before(j, q + 1) = Before(i, p)
<1>1. IsItems(review.pages) /\ ItemsOf(review.pages) = Items
  BY ItemsOfReview
<1>2. Comes(review.pages, i, p, j, q, m)
  <2>1. PageAt(u.vd, j, q, m) /\ i <= j /\ (j = i => q = IF p < m THEN p ELSE m - 1)
        /\ (j # i => q = 0 /\ \A k \in i .. j - 1 : review.pages[k + 1] = 0)
    BY DEF Reached
  <2>2. IsPage(review.pages, j, q, m)
    BY <1>1, <2>1 DEF PageAt, IsPage
  <2> QED
    BY <2>1, <2>2 DEF Comes
<1>3. i \in 0 .. ItemsOf(review.pages) - 1
  BY <1>1
<1> QED
  BY <1>1, <1>2, <1>3, ComesTo, SMTT(30) DEF Before

(* So no page is passed over.                                              *)
LEMMA ReachedBefore ==
    ASSUME review \in Reviews, NEW i \in 0 .. Items - 1, NEW p \in 0 .. 255, NEW u,
           NEW j, NEW q, NEW m, Reached(i, p, u, j, q, m)
    PROVE  Before(j, q) \subseteq Before(i, p)
<1>1. /\ \/ Before(j, q) = Before(i, p)
         \/ Before(j, q + 1) = Before(i, p)
  BY ReachedSame
<1>2. Before(j, q) \subseteq Before(j, q + 1)
  <2>1. j \in 0 .. Items - 1 /\ m \in 1 .. 254 /\ q \in 0 .. m - 1 /\ Items \in 1 .. 128
    BY ItemsTyped DEF Reached, PageAt
  <2>2. j \in Int /\ q \in Int
    BY <2>1
  <2> DEFINE y == q + 1
  <2>3. y \in Int /\ q <= y
    BY <2>2
  <2> HIDE DEF y
  <2>4. Before(j, q) \subseteq Before(j, y)
    BY <2>2, <2>3, BeforeSmaller
  <2> QED
    BY <2>4 DEF y
<1> QED
  BY <1>1, <1>2

-----------------------------------------------------------------------------
(* The loop comes to a screen: the page that has n pages before it.        *)
Lands(n) ==
    /\ Screen' \in {"inside", "skip"}
    /\ \E j, q, k : PageAt(vd', j, q, k) /\ Count(j, q) = n

(* The step inside shows page p of item i, after all the pages before it.  *)
LEMMA ShowsPage ==
    ASSUME review \in Reviews, review' = review, skipped' = skipped, NEW f \in Flows,
           NEW d, NEW i, NEW p, NEW m, PageAt(d, i, p, m), Seen(Before(i, p)), EnterInside(f, d)
    PROVE  /\ ScreenInv' /\ Screen' = "inside" /\ vd' = d
           /\ Lands(Count(i, p))
<1>1. /\ flow' = f /\ at' = FrontOf(f) + 2 /\ vd' = d /\ FrontOf(f) \in 1 .. 3
      /\ shown' = shown \cup {<<d.itemIdx, d.pageIdx>>} /\ f[FrontOf(f) + 2] = "inside"
  BY FlowKnown DEF EnterInside, Enter, Shape
<1>2. Screen' = "inside"
  <2>1. at' # 0
    BY <1>1
  <2> QED
    BY <1>1, <2>1 DEF Screen
<1>3. d.itemIdx = i /\ d.pageIdx = p /\ i \in Int /\ p \in Int
  <2>1. d.itemIdx = i /\ d.pageIdx = p
    BY CursorFields DEF PageAt
  <2>2. i \in 0 .. Items - 1 /\ p \in 0 .. m - 1 /\ m \in 1 .. 254
    BY DEF PageAt
  <2> QED
    BY <2>1, <2>2, ItemsTyped
<1>4. ~skipped => Before(i, p + 1) \subseteq shown'
  <2>1. Before(i, p + 1) \subseteq Before(i, p) \cup {<<i, p>>}
    BY <1>3, BeforeNext
  <2> QED
    BY <1>1, <1>3, <2>1 DEF Seen
<1>5. PageAt(vd, i, p, m)'
  BY <1>1 DEF PageAt, Items
<1>6. Seen(Before(i, p + 1))'
  BY <1>4 DEF Seen, Before
<1>7. OnInside'
  BY <1>5, <1>6 DEF OnInside
<1>8. Lands(Count(i, p))
  BY <1>1, <1>2 DEF Lands
<1> QED
  BY <1>1, <1>2, <1>7, <1>8 DEF ScreenInv, FrontScreens, BackScreens

(* What a button leaves true of the histories: more pages have been shown. *)
Shows == review' = review /\ skipped' = skipped /\ ScreenInv' /\ shown \subseteq shown'

(* The first page of a review.                                             *)
LEMMA StartsReading ==
    ASSUME review \in Reviews, review' = review, skipped' = skipped, NEW f \in Flows,
           NEW d, ~flow_inside_loop, EnterStart(f, d)
    PROVE  Shows /\ Lands(0)
<1> DEFINE u == UpdateItem(CursorAt(0, 0, 1, 255), review.pages, 0)
<1>1. EnterInside(f, u.vd)
  BY DEF EnterStart, h_paging_init, CursorAt
<1>2. 0 \in 0 .. Items - 1 /\ 0 \in 0 .. 255
  <2>1. Items \in 1 .. 128
    BY ItemsTyped
  <2> QED
    BY <2>1
<1>3. PICK j, q, m : Reached(0, 0, u, j, q, m)
  BY <1>2, ReachesPage, ZenonT(30)
<1> HIDE DEF u
<1>4. Before(j, q) \subseteq {}
  BY <1>2, <1>3, ReachedBefore, BeforeEnds
<1>5. PageAt(u.vd, j, q, m) /\ Seen(Before(j, q))
  BY <1>3, <1>4 DEF Reached, Seen
<1>6. ScreenInv' /\ Lands(Count(j, q))
  BY <1>1, <1>5, ShowsPage
<1>7. Count(j, q) = 0
  BY <1>4, FS_EmptySet DEF Count
<1> QED
  BY <1>1, <1>6, <1>7 DEF Shows, EnterInside

(* Back from page p of item i, or off the loop from the first one.         *)
LEMMA GoesBack ==
    ASSUME review \in Reviews, review' = review, skipped' = skipped, NEW f \in Flows,
           NEW d, NEW i, NEW p, NEW m, PageAt(d, i, p, m), Seen(Before(i, p)),
           flow_inside_loop, EnterStart(f, d)
    PROVE  /\ Shows
           /\ \/ Lands(Count(i, p))
              \/ \E n : Lands(n) /\ n + 1 = Count(i, p)
              \/ flow' = f /\ at' = FrontOf(f) /\ Count(i, p) = 0
<1>1. /\ i \in 0 .. Items - 1 /\ m \in 1 .. 254 /\ p \in 0 .. m - 1 /\ m = review.pages[i + 1]
      /\ d = CursorAt(i, p, m, Items + 1) /\ Items \in 1 .. 128
  BY ItemsTyped DEF PageAt
<1>2. i \in Int /\ p \in Int /\ m \in Int /\ p < m /\ 0 <= p /\ p \in 0 .. 255
  BY <1>1
<1> DEFINE n == Items + 1
<1>n. d = CursorAt(i, p, m, n) /\ n \in Int /\ n \in 0 .. 255
  BY <1>1
<1> HIDE DEF n
<1>d. /\ h_paging_decrease(d) = IF p # 0 THEN CursorAt(i, p - 1, m, n)
                                ELSE IF i > 0 THEN CursorAt(i - 1, 255, m, n)
                                ELSE CursorAt(i, p, m, n)
      /\ h_paging_can_decrease(d) <=> p # 0 \/ i > 0
  BY <1>2, <1>n, Decreased, SMTT(30)
<1>3. CASE ~h_paging_can_decrease(d)
  <2>1. /\ flow' = f /\ at' = FrontOf(f) /\ vd' = d /\ flow_inside_loop' = FALSE /\ shown' = shown
        /\ FrontOf(f) \in 1 .. 3 /\ Len(f) \in FrontOf(f) + 4 .. FrontOf(f) + 5
    BY <1>3, FlowKnown DEF EnterStart, Enter, FrontOf
  <2>2. at' \in 1 .. Len(f) /\ at' # 0
    BY <2>1
  <2>3. Screen' \in FrontScreens
    BY <2>1, <2>2, StepKnown DEF Screen
  <2>4. p = 0 /\ i = 0
    <3>1. ~(p # 0 \/ i > 0)
      BY <1>3, <1>d
    <3> QED
      BY <1>1, <3>1
  <2>5. AtStart(vd)'
    <3>1. m \in 0 .. 255
      BY <1>1
    <3> QED
      BY <1>n, <2>1, <2>4, <3>1 DEF AtStart
  <2>6. ScreenInv'
    BY <2>3, <2>5 DEF ScreenInv, FrontScreens, BackScreens
  <2>7. Count(i, p) = 0
    <3>1. Before(i, p) = {}
      BY <2>4, BeforeEnds
    <3> QED
      BY <3>1, FS_EmptySet DEF Count
  <2> QED
    BY <2>1, <2>6, <2>7 DEF Shows
<1>4. CASE h_paging_can_decrease(d)
  <2> DEFINE u == UpdateItem(h_paging_decrease(d), review.pages, 0)
  <2>1. EnterInside(f, u.vd)
    BY <1>4 DEF EnterStart
  <2>2. PICK a \in 0 .. Items - 1, b \in 0 .. 255 :
           /\ h_paging_decrease(d) = CursorAt(a, b, m, n)
           /\ b = review.pages[a + 1] => b = 0
           /\ a < i \/ (a = i /\ b <= p)
           /\ \/ b < review.pages[a + 1] /\ Count(i, p) = Count(a, b) + 1
              \/ Before(a, b) = Before(i, p)
    <3>1. CASE p # 0
      <4>1. h_paging_decrease(d) = CursorAt(i, p - 1, m, n)
        BY <1>d, <3>1
      <4>2. p - 1 \in 0 .. 255 /\ p - 1 \in 0 .. m - 1 /\ p - 1 # m /\ p - 1 <= p /\ (p - 1) + 1 = p
            /\ p - 1 < m
        BY <1>1, <3>1
      <4> DEFINE y == p - 1
      <4>3. Count(i, y + 1) = Count(i, y) + 1
        <5>1. PageAt(CursorAt(i, y, m, Items + 1), i, y, m)
          BY <1>1, <4>2 DEF PageAt
        <5> HIDE DEF y
        <5> QED
          BY <5>1, CountNext
      <4> QED
        BY <1>1, <4>1, <4>2, <4>3
    <3>2. CASE p = 0
      <4>1. i > 0 /\ h_paging_decrease(d) = CursorAt(i - 1, 255, m, n)
        BY <1>4, <1>d, <3>2
      <4>2. i - 1 \in 0 .. Items - 1 /\ i - 1 < i /\ (i - 1) + 1 = i /\ i \in 1 .. Items /\ 255 \in 0 .. 255
        BY <1>1, <4>1
      <4>3. 255 # review.pages[i]
        <5>1. review.pages[i] \in 0 .. 254
          <6>1. i \in 1 .. Len(review.pages) /\ IsItems(review.pages)
            BY <4>2, ItemsTyped
          <6> QED
            BY <6>1, PagesTyped
        <5>2. 255 \notin 0 .. 254
          OBVIOUS
        <5> QED
          BY <5>1, <5>2
      <4>4. Before(i - 1, 255) = Before(i, 0)
        <5> DEFINE a == i - 1
                   k == review.pages[a + 1]
        <5>1. a \in Int /\ a + 1 = i /\ 255 \in Int
          BY <1>1
        <5>2. k \in 0 .. 254
          <6>1. i \in 1 .. Len(review.pages) /\ IsItems(review.pages)
            BY <4>2, ItemsTyped
          <6> QED
            BY <5>1, <6>1, PagesTyped
        <5>3. k = review.pages[a + 1]
          OBVIOUS
        <5> HIDE DEF a, k
        <5>4. k \in Int /\ k <= 255
          BY <5>2
        <5>5. Before(a, 255) = Before(a + 1, 0)
          BY <5>1, <5>3, <5>4, BeforeItemIs
        <5> QED
          BY <5>1, <5>5 DEF a
      <4> DEFINE a == i - 1
                 b == 255
      <4>5. /\ a \in 0 .. Items - 1 /\ b \in 0 .. 255 /\ a < i
            /\ h_paging_decrease(d) = CursorAt(a, b, m, n)
            /\ b = review.pages[a + 1] => b = 0
            /\ Before(a, b) = Before(i, p)
        BY <3>2, <4>1, <4>2, <4>3, <4>4
      <4> HIDE DEF a, b
      <4> QED
        BY <4>5, ZenonT(30)
    <3> QED
      BY <3>1, <3>2
  <2>3. PICK j, q, k : Reached(a, b, u, j, q, k)
    BY <2>2, ReachesPage
  <2> HIDE DEF u
  <2>4. Before(j, q) \subseteq Before(i, p)
    <3>1. Before(j, q) \subseteq Before(a, b)
      BY <2>3, ReachedBefore
    <3>2. a \in Int /\ b \in Int
      BY <1>1
    <3>3. Before(a, b) \subseteq Before(i, p)
      BY <1>2, <2>2, <3>2, BeforeSmaller
    <3> QED
      BY <3>1, <3>3
  <2>5. PageAt(u.vd, j, q, k) /\ Seen(Before(j, q))
    BY <2>3, <2>4 DEF Reached, Seen
  <2>6. ScreenInv' /\ Lands(Count(j, q))
    BY <2>1, <2>5, ShowsPage
  <2>7. PageAt(u.vd, j, q, k) /\ k = review.pages[j + 1]
    BY <2>5 DEF PageAt
  <2>8. Count(j, q + 1) = Count(j, q) + 1
    BY <2>7, CountNext
  <2>9. \/ Before(j, q) = Before(a, b)
        \/ j = a /\ b >= k /\ Before(j, q + 1) = Before(a, b)
    BY <2>3, ReachedSame, SMTT(30)
  <2>10. b >= k => ~(b < k)
    <3>1. k \in 1 .. 254
      BY <2>7 DEF PageAt
    <3> QED
      BY <3>1
  <2>11. \/ Count(j, q) = Count(i, p)
         \/ Count(j, q) + 1 = Count(i, p)
    <3>1. CASE Before(a, b) = Before(i, p)
      BY <2>8, <2>9, <3>1 DEF Count
    <3>2. CASE b < review.pages[a + 1] /\ Count(i, p) = Count(a, b) + 1
      <4>1. Before(j, q) = Before(a, b)
        BY <2>7, <2>9, <2>10, <3>2
      <4> QED
        BY <3>2, <4>1 DEF Count
    <3> QED
      BY <2>2, <3>1, <3>2
  <2> QED
    BY <2>1, <2>6, <2>11 DEF Shows, EnterInside
<1> QED
  BY <1>3, <1>4

(* The right button of the skip screen shows the page that it stands for.  *)
LEMMA GoesOnReading ==
    ASSUME review \in Reviews, review' = review, skipped' = skipped, NEW f \in Flows,
           NEW i, PageAt(vd, i, 0, 1), Seen(Before(i, 0)),
           flow_inside_loop, EnterStart(f, NextItem(vd))
    PROVE  Shows /\ Screen' = "inside" /\ vd' = vd
<1>1. /\ i \in 0 .. Items - 1 /\ 1 = review.pages[i + 1]
      /\ vd = CursorAt(i, 0, 1, Items + 1) /\ Items \in 1 .. 128
  BY ItemsTyped DEF PageAt
<1> DEFINE n == Items + 1
           x == i + 1
<1>2. /\ i \in 0 .. 254 /\ i \in Int /\ x \in Int /\ n \in Int
      /\ x > 0 /\ x - 1 = i /\ vd = CursorAt(i, 0, 1, n)
  BY <1>1
<1>3. NextItem(vd) = CursorAt(x, 0, 1, n)
  <2>1. vd.itemIdx = i /\ vd.pageIdx = 0 /\ vd.pageCount = 1 /\ vd.itemCount = n
    BY <1>2, CursorFields
  <2>2. vd \in Cursors
    BY <1>2 DEF Cursors, CursorAt
  <2>3. IsNext(vd, x)
    BY <1>2, <2>1 DEF IsNext
  <2> HIDE DEF n, x
  <2>4. NextItem(vd) = CursorAt(x, vd.pageIdx, vd.pageCount, vd.itemCount)
    BY <1>2, <2>2, <2>3, NextItemOf, Zenon
  <2> QED
    BY <2>1, <2>4
<1> HIDE DEF n, x
<1>4. h_paging_can_decrease(NextItem(vd)) /\ h_paging_decrease(NextItem(vd)) = CursorAt(i, 255, 1, n)
  <2>1. /\ h_paging_decrease(CursorAt(x, 0, 1, n)) =
                IF 0 # 0 THEN CursorAt(x, 0 - 1, 1, n)
                ELSE IF x > 0 THEN CursorAt(x - 1, 255, 1, n)
                ELSE CursorAt(x, 0, 1, n)
        /\ h_paging_can_decrease(CursorAt(x, 0, 1, n)) <=> 0 # 0 \/ x > 0
    BY <1>2, Decreased, SMTT(30)
  <2> QED
    BY <1>2, <1>3, <2>1
<1> DEFINE u == UpdateItem(CursorAt(i, 255, 1, n), review.pages, 0)
<1>5. EnterInside(f, u.vd)
  BY <1>4 DEF EnterStart
<1>6. u.vd = vd
  <2>1. 255 \in 0 .. 255 /\ 255 # 1
    OBVIOUS
  <2>2. PICK j, q, m : Reached(i, 255, u, j, q, m)
    <3> DEFINE last == 255
    <3>1. i \in 0 .. Items - 1 /\ last \in 0 .. 255 /\ (last = review.pages[i + 1] => last = 0)
      BY <1>1, <2>1
    <3> HIDE DEF last, n
    <3>2. \E j, q, m : Reached(i, last, UpdateItem(CursorAt(i, last, 1, n), review.pages, 0), j, q, m)
      BY <3>1, ReachesPage, ZenonT(30)
    <3> QED
      BY <3>2, Zenon DEF last
  <2> HIDE DEF u
  <2>3. j = i
    <3> SUFFICES ASSUME j # i PROVE FALSE
      OBVIOUS
    <3>1. /\ i <= j /\ \A k \in i .. j - 1 : review.pages[k + 1] = 0
          /\ j \in 0 .. Items - 1
      BY <2>2 DEF Reached, PageAt
    <3>2. i \in i .. j - 1
      BY <1>1, <3>1
    <3> QED
      BY <1>1, <3>1, <3>2
  <2>4. PageAt(u.vd, i, q, m) /\ q = IF 255 < m THEN 255 ELSE m - 1
    BY <2>2, <2>3 DEF Reached
  <2>5. m = 1 /\ u.vd = CursorAt(i, q, m, Items + 1)
    BY <1>1, <2>4 DEF PageAt
  <2>6. q = 0
    BY <2>4, <2>5
  <2> QED
    BY <1>1, <2>5, <2>6 DEF n
<1> HIDE DEF u
<1>7. ScreenInv' /\ Screen' = "inside" /\ vd' = vd
  BY <1>5, <1>6, ShowsPage
<1> QED
  BY <1>5, <1>7 DEF Shows, EnterInside

(* On the step end, the page that comes next is shown or asked about.      *)
LEMMA GoesToPage ==
    ASSUME SkipsShortItems, review \in Reviews, review' = review, skipped' = skipped, flow \in Flows,
           flow_inside_loop, EnterEnd,
           NEW u, u = UpdateItem(h_paging_increase(vd), review.pages, 0), u.err = "ok",
           NEW j, NEW q, NEW k, PageAt(u.vd, j, q, k), Seen(Before(j, q))
    PROVE  Shows /\ Lands(Count(j, q))
<1>1. \/ AsksToSkip(u.vd) /\ Enter(<<"skip">>, 1, u.vd, TRUE) /\ UNCHANGED shown
      \/ EnterInside(flow, u.vd)
  BY DEF EnterEnd
<1>2. CASE EnterInside(flow, u.vd)
  <2>1. ScreenInv' /\ Lands(Count(j, q))
    BY <1>2, ShowsPage
  <2> QED
    BY <1>2, <2>1 DEF Shows, EnterInside
<1>3. CASE AsksToSkip(u.vd) /\ Enter(<<"skip">>, 1, u.vd, TRUE) /\ UNCHANGED shown
  <2>1. /\ Screen' = "skip" /\ vd' = u.vd /\ shown' = shown
    BY <1>3 DEF Enter, Screen
  <2>2. /\ j \in 0 .. Items - 1 /\ k \in 1 .. 254 /\ q \in 0 .. k - 1 /\ k = review.pages[j + 1]
        /\ u.vd = CursorAt(j, q, k, Items + 1) /\ Items = Len(review.pages) /\ Items \in 1 .. 128
    BY ItemsTyped DEF PageAt
  <2>3. review.progressive /\ review.kind \in {"TXN", "MSG"} /\ j > 1
    <3>1. review.progressive /\ review.kind \in {"TXN", "MSG"} /\ u.vd.itemIdx > 1
      BY <1>3 DEF AsksToSkip
    <3>2. u.vd = CursorAt(j, q, k, Items + 1)
      BY <2>2
    <3>3. u.vd.itemIdx = j
      BY <3>2, CursorFields, SMTT(30)
    <3> QED
      BY <3>1, <3>3
  <2>4. j + 1 \in 3 .. Len(review.pages)
    BY <2>2, <2>3, SMTT(30)
  <2>5. review.pages[j + 1] <= 1
    BY <2>3, <2>4 DEF SkipsShortItems
  <2>6. k = 1 /\ q = 0
    <3>1. k <= 1
      BY <2>2, <2>5
    <3>2. k \in 1 .. 254 /\ q \in 0 .. k - 1
      BY <2>2
    <3> QED
      BY <3>1, <3>2
  <2>7. PageAt(vd, j, 0, 1)'
    BY <2>1, <2>6 DEF PageAt, Items
  <2>8. Seen(Before(j, 0))'
    BY <2>1, <2>6 DEF Seen, Before
  <2>9. OnSkip'
    BY <2>7, <2>8 DEF OnSkip
  <2>10. ScreenInv'
    BY <2>1, <2>9 DEF ScreenInv, FrontScreens, BackScreens
  <2>11. Lands(Count(j, q))
    BY <2>1 DEF Lands
  <2> QED
    BY <2>1, <2>10, <2>11 DEF Shows
<1> QED
  BY <1>1, <1>2, <1>3

(* On from page p of item i: to the page or item behind it, or, behind the *)
(* last one, to the approval.                                              *)
LEMMA GoesOn ==
    ASSUME SkipsShortItems, review \in Reviews, review' = review, skipped' = skipped, flow \in Flows,
           flow_inside_loop, EnterEnd,
           NEW i, NEW p, NEW m, PageAt(vd, i, p, m), Seen(Before(i, p + 1))
    PROVE  /\ Shows
           /\ \/ Lands(Count(i, p) + 1)
              \/ flow' = flow /\ at' = FrontOf(flow) + 4 /\ Screen' = "approve" /\ Count(i, p) + 1 = Total
<1>1. /\ i \in 0 .. Items - 1 /\ m \in 1 .. 254 /\ p \in 0 .. m - 1 /\ m = review.pages[i + 1]
      /\ vd = CursorAt(i, p, m, Items + 1) /\ Items \in 1 .. 128 /\ ExtraScreens = 0
  BY ItemsTyped DEF PageAt
<1> DEFINE n == Items + 1
           x == i + 1
           y == p + 1
           u == UpdateItem(h_paging_increase(vd), review.pages, 0)
<1>2. /\ i \in Int /\ p \in Int /\ m \in Int /\ n \in Int /\ x \in Int /\ y \in Int /\ 0 \in Int
      /\ n > 0 /\ i < n - 1 + ExtraScreens /\ p < m
      /\ x \in 1 .. Items /\ y \in 1 .. 254 /\ y <= m /\ vd = CursorAt(i, p, m, n)
  BY <1>1
<1>3. h_paging_increase(vd) = IF y < m THEN CursorAt(i, y, m, n) ELSE CursorAt(x, 0, m, n)
  <2> HIDE DEF n
  <2>1. h_paging_increase(CursorAt(i, p, m, n)) =
             IF p + 1 < m THEN CursorAt(i, p + 1, m, n)
             ELSE IF n > 0 /\ i < n - 1 + ExtraScreens THEN CursorAt(i + 1, 0, m, n)
             ELSE CursorAt(i, p, m, n)
    BY <1>2, Increased
  <2> QED
    BY <1>2, <2>1
<1>4. Seen(Before(i, y))
  OBVIOUS
<1>5. Before(x, 0) = Before(i, m)
  <2>1. i \in Int /\ m \in Int /\ m <= m
    BY <1>2
  <2> QED
    BY <1>1, <2>1, BeforeItemIs
<1>c. Count(i, y) = Count(i, p) + 1
  BY CountNext
<1>6. CASE y < m
  <2>1. h_paging_increase(vd) = CursorAt(i, y, m, n)
    BY <1>3, <1>6
  <2>2. y \in 0 .. 255 /\ y # review.pages[i + 1]
    BY <1>1, <1>2, <1>6
  <2> HIDE DEF n, x, y
  <2>3. PICK j, q, k : Reached(i, y, u, j, q, k)
    BY <1>1, <2>1, <2>2, ReachesPage
  <2> HIDE DEF u
  <2>4. Before(j, q) = Before(i, y)
    <3>1. \/ Before(j, q) = Before(i, y)
          \/ j = i /\ y >= k
      BY <1>1, <2>2, <2>3, ReachedSame, SMTT(30)
    <3>2. j = i => k = m
      BY <1>1, <2>3 DEF Reached, PageAt
    <3>3. ~(y >= m)
      BY <1>2, <1>6
    <3> QED
      BY <3>1, <3>2, <3>3
  <2>5. PageAt(u.vd, j, q, k) /\ u.err = "ok" /\ Seen(Before(j, q))
    BY <1>4, <2>3, <2>4 DEF Reached, Seen
  <2>6. Count(j, q) = Count(i, p) + 1
    BY <1>c, <2>4 DEF Count
  <2> QED
    BY <2>5, <2>6, GoesToPage DEF u
<1>7. CASE ~(y < m) /\ x # Items
  <2>1. h_paging_increase(vd) = CursorAt(x, 0, m, n) /\ y = m
    BY <1>2, <1>3, <1>7
  <2>2. x \in 0 .. Items - 1 /\ 0 \in 0 .. 255
    <3>1. x \in 1 .. Items /\ x # Items /\ Items \in 1 .. 128
      BY <1>1, <1>2, <1>7
    <3> HIDE DEF x
    <3> QED
      BY <3>1
  <2> HIDE DEF n, x, y
  <2>3. PICK j, q, k : Reached(x, 0, u, j, q, k)
    BY <2>1, <2>2, ReachesPage
  <2> HIDE DEF u
  <2>4. Before(j, q) = Before(x, 0)
    <3>1. \/ Before(j, q) = Before(x, 0)
          \/ j = x /\ 0 >= k
      BY <2>2, <2>3, ReachedSame
    <3>2. k \in 1 .. 254
      BY <2>3 DEF Reached, PageAt
    <3> QED
      BY <3>1, <3>2
  <2>5. PageAt(u.vd, j, q, k) /\ u.err = "ok" /\ Seen(Before(j, q))
    BY <1>4, <1>5, <2>1, <2>3, <2>4 DEF Reached, Seen
  <2>6. Count(j, q) = Count(i, p) + 1
    BY <1>5, <1>c, <2>1, <2>4 DEF Count
  <2> QED
    BY <2>5, <2>6, GoesToPage DEF u
<1>8. CASE ~(y < m) /\ x = Items
  <2>1. h_paging_increase(vd) = CursorAt(Items, 0, m, n) /\ y = m
    BY <1>2, <1>3, <1>8
  <2>2. m \in 0 .. 255 /\ Items \in 0 .. 255
    BY <1>1
  <2> HIDE DEF n, x, y
  <2>3. u = [err |-> "no_data", vd |-> CursorAt(Items, 0, m, Items)]
    BY <2>1, UpdatedBehind
  <2> HIDE DEF u
  <2>4. Enter(flow, Position(flow, "approve"), u.vd, FALSE) /\ UNCHANGED shown
    <3>1. u.err = "no_data"
      BY <2>3
    <3> QED
      BY <3>1 DEF EnterEnd, u
  <2>5. /\ flow' = flow /\ at' = FrontOf(flow) + 4 /\ vd' = CursorAt(Items, 0, m, Items)
        /\ flow_inside_loop' = FALSE /\ shown' = shown
        /\ FrontOf(flow) \in 1 .. 3 /\ flow[FrontOf(flow) + 4] = "approve"
    BY <2>3, <2>4, FlowKnown DEF Enter, Shape
  <2>6. Screen' = "approve"
    <3>1. at' # 0
      BY <2>5
    <3> QED
      BY <2>5, <3>1 DEF Screen
  <2>7. Behind(vd)'
    BY <2>2, <2>5 DEF Behind, Items
  <2>8. Seen(PagesOf(review.pages))'
    <3>1. PagesOf(review.pages) \subseteq Before(x, 0)
      BY <1>8, BeforeEnds
    <3>2. Seen(Before(x, 0))
      BY <1>4, <1>5, <2>1
    <3> QED
      BY <2>5, <3>1, <3>2 DEF Seen
  <2>9. OnBack'
    BY <2>5, <2>7, <2>8 DEF OnBack
  <2>10. ScreenInv'
    BY <2>6, <2>9 DEF ScreenInv, FrontScreens, BackScreens
  <2>11. Count(i, p) + 1 = Total
    <3>1. Before(x, 0) = PagesOf(review.pages)
      BY <1>8, BeforeEnds DEF Before, PagesUpTo
    <3> QED
      BY <1>5, <1>c, <2>1, <3>1 DEF Count, Total
  <2> QED
    BY <2>5, <2>6, <2>10, <2>11 DEF Shows
<1> QED
  BY <1>6, <1>7, <1>8

(* Left from the screens that answer: back to the last page, or, after the *)
(* shortcut, which leaves the cursor where it was, to the first.           *)
LEMMA ComesBack ==
    ASSUME review \in Reviews, review' = review, skipped' = skipped, flow \in Flows,
           ~flow_inside_loop, EnterEnd, OnBack
    PROVE  /\ Shows
           /\ \E n : Lands(n) /\ (n + 1 = Total \/ skipped)
<1> DEFINE u == UpdateItem(h_paging_decrease(vd), review.pages, 0)
<1>1. EnterInside(flow, u.vd)
  BY DEF EnterEnd
<1>2. Items \in 1 .. 128 /\ IsItems(review.pages) /\ Len(review.pages) = Items
  BY ItemsTyped
<1> DEFINE From(a, b, c, n) ==
             /\ h_paging_decrease(vd) = CursorAt(a, b, c, n)
             /\ b = review.pages[a + 1] => b = 0
             /\ Before(a, b) = PagesOf(review.pages) \/ skipped
<1>3. PICK a \in 0 .. Items - 1, b \in 0 .. 255, c \in 0 .. 255, n \in 0 .. 255 : From(a, b, c, n)
  <2>1. CASE Behind(vd)
    <3>1. PICK c \in 0 .. 255, n \in 0 .. 255 : vd = CursorAt(Items, 0, c, n)
      BY <2>1 DEF Behind
    <3>2. Items \in Int /\ c \in Int /\ n \in Int /\ 0 \in Int /\ Items > 0
      BY <1>2
    <3>3. h_paging_decrease(vd) = CursorAt(Items - 1, 255, c, n)
      <4>1. h_paging_decrease(CursorAt(Items, 0, c, n)) =
              IF 0 # 0 THEN CursorAt(Items, 0 - 1, c, n)
              ELSE IF Items > 0 THEN CursorAt(Items - 1, 255, c, n)
              ELSE CursorAt(Items, 0, c, n)
        BY <3>2, Decreased
      <4> QED
        BY <3>1, <3>2, <4>1
    <3> DEFINE a == Items - 1
    <3>4. a \in 0 .. Items - 1 /\ a + 1 = Items /\ Items \in 1 .. Len(review.pages)
      BY <1>2
    <3>5. 255 # review.pages[Items]
      <4>1. review.pages[Items] \in 0 .. 254
        BY <1>2, <3>4, PagesTyped
      <4>2. 255 \notin 0 .. 254
        OBVIOUS
      <4> QED
        BY <4>1, <4>2
    <3>6. 255 \in 0 .. 255
      OBVIOUS
    <3>7. Before(a, 255) = PagesOf(review.pages)
      <4> DEFINE k == review.pages[a + 1]
      <4>1. a \in Int /\ 255 \in Int /\ k \in 0 .. 254
        <5>1. review.pages[Items] \in 0 .. 254
          BY <1>2, <3>4, PagesTyped
        <5>2. k = review.pages[Items]
          BY <3>4
        <5> HIDE DEF k
        <5> QED
          BY <1>2, <5>1, <5>2
      <4> HIDE DEF k
      <4>2. k \in Int /\ k <= 255
        BY <4>1
      <4> HIDE DEF a
      <4>3. Before(a, 255) = Before(a + 1, 0)
        BY <4>1, <4>2, BeforeItemIs DEF k
      <4> QED
        BY <3>4, <4>3, BeforeEnds DEF Before, PagesUpTo
    <3>8. From(a, 255, c, n)
      BY <3>3, <3>4, <3>5, <3>7
    <3> HIDE DEF a, From
    <3> QED
      BY <3>4, <3>6, <3>8, Zenon
  <2>2. CASE AtStart(vd)
    <3>1. PICK c \in 0 .. 255, n \in 0 .. 255 : vd = CursorAt(0, 0, c, n)
      BY <2>2 DEF AtStart
    <3>2. c \in Int /\ n \in Int /\ 0 \in Int /\ ~(0 > 0)
      OBVIOUS
    <3>3. h_paging_decrease(vd) = CursorAt(0, 0, c, n)
      <4>1. h_paging_decrease(CursorAt(0, 0, c, n)) =
              IF 0 # 0 THEN CursorAt(0, 0 - 1, c, n)
              ELSE IF 0 > 0 THEN CursorAt(0 - 1, 255, c, n)
              ELSE CursorAt(0, 0, c, n)
        BY <3>2, Decreased
      <4> QED
        BY <3>1, <3>2, <4>1
    <3>4. 0 \in 0 .. Items - 1 /\ 0 \in 0 .. 255
      BY <1>2
    <3>5. From(0, 0, c, n) \/ Behind(vd)
      BY <3>3 DEF OnBack
    <3> HIDE DEF From
    <3> QED
      BY <2>1, <3>4, <3>5, Zenon
  <2> QED
    BY <2>1, <2>2 DEF OnBack
<1>4. PICK j, q, k : Reached(a, b, u, j, q, k)
  BY <1>3, ReachesPage
<1> HIDE DEF u
<1>5. PageAt(u.vd, j, q, k)
  BY <1>4 DEF Reached
<1>6. Seen(Before(j, q))
  BY DEF OnBack, Seen, Before, PagesUpTo
<1>7. ScreenInv' /\ Lands(Count(j, q))
  BY <1>1, <1>5, <1>6, ShowsPage
<1>8. Count(j, q) + 1 = Total \/ skipped
  <2>1. /\ Count(j, q + 1) = Count(j, q) + 1 /\ Count(j, q) # Total
    <3>1. /\ Count(j, q + 1) = Count(j, q) + 1
          /\ Count(j, q) \in Nat /\ Total \in Nat /\ Count(j, q) < Total
      BY <1>5, CountNext
    <3> QED
      BY <3>1
  <2>2. Before(a, b) = PagesOf(review.pages) \/ skipped
    BY <1>3
  <2>3. Before(j, q) = Before(a, b) \/ Before(j, q + 1) = Before(a, b)
    BY <1>4, ReachedSame
  <2> QED
    BY <2>1, <2>2, <2>3 DEF Count, Total
<1> QED
  BY <1>1, <1>7, <1>8 DEF Shows, EnterInside

(* Where a step of the flow to the right or to the left starts and ends.   *)
LEMMA StepOfFlow ==
    ASSUME TypeInv, Screen # "skip",
           NEW k \in {at - 1, at + 1}, at \in 1 .. Len(flow), k \in 1 .. Len(flow)
    PROVE  LET n == FrontOf(flow)
           IN  /\ flow \in Flows /\ n \in 1 .. 3 /\ at # 0 /\ k # 0 /\ flow_inside_loop \in BOOLEAN
               /\ Screen = flow[at]
               /\ \/ /\ at <= n /\ k <= n /\ flow[k] \notin LoopScreens
                     /\ Screen \in FrontScreens /\ flow[k] \in FrontScreens
                  \/ at = n /\ flow[k] = "start" /\ ~flow_inside_loop /\ Screen \in FrontScreens
                  \/ at = n + 2 /\ flow[k] = "start" /\ flow_inside_loop /\ Screen = "inside"
                  \/ at = n + 2 /\ flow[k] = "end" /\ flow_inside_loop /\ Screen = "inside"
                  \/ at = n + 4 /\ flow[k] = "end" /\ Screen \in BackScreens
                  \/ /\ at > n + 3 /\ k > n + 3 /\ flow[k] \notin LoopScreens
                     /\ Screen \in BackScreens /\ flow[k] \in BackScreens
<1>1. /\ review \in Reviews /\ at # 0 /\ k # 0 /\ flow_inside_loop \in BOOLEAN
  <2>1. \A l : 0 \notin 1 .. l
    OBVIOUS
  <2> QED
    BY <2>1 DEF TypeInv, CursorInv
<1> DEFINE n == FrontOf(flow)
           len == Len(flow)
<1>2. /\ flow \in Flows /\ n \in 1 .. 3 /\ len \in n + 4 .. n + 5 /\ at \in 1 .. len /\ k \in 1 .. len
      /\ \/ at <= n /\ ~flow_inside_loop
         \/ at = n + 2 /\ flow_inside_loop
         \/ at > n + 3
  <2>1. flow \in Flows
    BY <1>1, InFlow
  <2>2. ~(at = 1 /\ flow = <<"skip">>)
    BY <1>1 DEF Screen
  <2> QED
    BY <1>1, <2>1, <2>2, FlowKnown DEF TypeInv, FlowInv
<1>3. Screen = flow[at]
  BY <1>1 DEF Screen
<1>4. /\ at <= n <=> Screen \in FrontScreens
      /\ at = n + 2 <=> Screen = "inside"
      /\ at > n + 3 <=> Screen \in BackScreens
      /\ flow[k] = "start" <=> k = n + 1
      /\ flow[k] = "inside" <=> k = n + 2
      /\ flow[k] = "end" <=> k = n + 3
      /\ flow[k] \in FrontScreens <=> k <= n
      /\ flow[k] \in BackScreens <=> k > n + 3
  BY <1>1, <1>2, <1>3, StepKnown
<1> HIDE DEF n, len
<1>5. \/ at <= n /\ k <= n
      \/ at = n /\ k = n + 1
      \/ at = n + 2 /\ k = n + 1
      \/ at = n + 2 /\ k = n + 3
      \/ at = n + 4 /\ k = n + 3
      \/ at > n + 3 /\ k > n + 3
  BY <1>2
<1>6. /\ n <= n /\ ~(n + 2 <= n) /\ n + 4 > n + 3
      /\ at = n => ~(at = n + 2) /\ ~(at > n + 3)
      /\ at = n + 2 => ~(at <= n) /\ ~(at > n + 3)
      /\ k <= n => k # n + 1 /\ k # n + 2 /\ k # n + 3
      /\ k > n + 3 => k # n + 1 /\ k # n + 2 /\ k # n + 3
  BY <1>2
<1> QED
  BY <1>1, <1>2, <1>3, <1>4, <1>5, <1>6, Zenon DEF n, LoopScreens

(* One step of the flow to the right or to the left.                       *)
LEMMA FlowWalks ==
    ASSUME SkipsShortItems, WalkInv, review' = review, skipped' = skipped, Screen # "skip",
           NEW k \in {at - 1, at + 1}, at \in 1 .. Len(flow), k \in 1 .. Len(flow), EnterStep(k)
    PROVE  Shows
<1>1. review \in Reviews /\ TypeInv /\ ScreenInv
  BY DEF WalkInv, TypeInv
<1> DEFINE n == FrontOf(flow)
<1>2. /\ flow \in Flows /\ n \in 1 .. 3 /\ at # 0 /\ k # 0 /\ flow_inside_loop \in BOOLEAN
      /\ Screen = flow[at]
      /\ \/ /\ at <= n /\ k <= n /\ flow[k] \notin LoopScreens
            /\ Screen \in FrontScreens /\ flow[k] \in FrontScreens
         \/ at = n /\ flow[k] = "start" /\ ~flow_inside_loop /\ Screen \in FrontScreens
         \/ at = n + 2 /\ flow[k] = "start" /\ flow_inside_loop /\ Screen = "inside"
         \/ at = n + 2 /\ flow[k] = "end" /\ flow_inside_loop /\ Screen = "inside"
         \/ at = n + 4 /\ flow[k] = "end" /\ Screen \in BackScreens
         \/ /\ at > n + 3 /\ k > n + 3 /\ flow[k] \notin LoopScreens
            /\ Screen \in BackScreens /\ flow[k] \in BackScreens
  BY <1>1, StepOfFlow, Zenon
<1> HIDE DEF n
<1>3. CASE flow[k] = "start" /\ ~flow_inside_loop
  <2>1. EnterStart(flow, vd)
    BY <1>3 DEF EnterStep
  <2> QED
    BY <1>1, <1>2, <1>3, <2>1, StartsReading
<1>4. CASE flow[k] = "start" /\ flow_inside_loop /\ Screen = "inside"
  <2>1. EnterStart(flow, vd)
    BY <1>4 DEF EnterStep
  <2>2. PICK i, p, m : PageAt(vd, i, p, m) /\ Seen(Before(i, p + 1))
    BY <1>1, <1>4 DEF ScreenInv, OnInside
  <2>3. Seen(Before(i, p))
    <3>1. i \in Int /\ p \in Int /\ p + 1 \in Int /\ p <= p + 1
      <4>1. i \in 0 .. Items - 1 /\ m \in 1 .. 254 /\ p \in 0 .. m - 1 /\ Items \in 1 .. 128
        BY <1>1, <2>2, ItemsTyped DEF PageAt
      <4> QED
        BY <4>1
    <3> DEFINE y == p + 1
    <3>2. y \in Int /\ p <= y
      BY <3>1
    <3> HIDE DEF y
    <3>3. Before(i, p) \subseteq Before(i, y)
      BY <1>1, <3>1, <3>2, BeforeSmaller
    <3> QED
      BY <2>2, <3>3 DEF Seen, y
  <2> QED
    BY <1>1, <1>2, <1>4, <2>1, <2>2, <2>3, GoesBack
<1>5. CASE flow[k] = "end" /\ flow_inside_loop /\ Screen = "inside"
  <2>1. EnterEnd
    BY <1>5 DEF EnterStep
  <2>2. PICK i, p, m : PageAt(vd, i, p, m) /\ Seen(Before(i, p + 1))
    BY <1>1, <1>5 DEF ScreenInv, OnInside
  <2> QED
    BY <1>1, <1>2, <1>5, <2>1, <2>2, GoesOn
<1>6. CASE flow[k] = "end" /\ Screen \in BackScreens
  <2>1. EnterEnd /\ OnBack
    BY <1>1, <1>6 DEF EnterStep, ScreenInv
  <2>2. CASE ~flow_inside_loop
    BY <1>1, <1>2, <2>1, <2>2, ComesBack
  <2>3. CASE flow_inside_loop
    <3>1. skipped /\ AtPage(vd)
      BY <2>1, <2>3 DEF OnBack
    <3>2. PICK i, p, m : PageAt(vd, i, p, m)
      BY <3>1 DEF AtPage
    <3>3. Seen(Before(i, p + 1))
      BY <3>1 DEF Seen
    <3> QED
      BY <1>1, <1>2, <2>1, <2>3, <3>2, <3>3, GoesOn
  <2> QED
    BY <1>2, <2>2, <2>3
<1>7. CASE flow[k] \notin LoopScreens
  <2>1. EnterPlain(k)
    BY <1>7 DEF EnterStep, LoopScreens
  <2>2. flow' = flow /\ at' = k /\ vd' = vd /\ flow_inside_loop' = flow_inside_loop /\ shown' = shown
    BY <2>1 DEF EnterPlain, Enter
  <2>3. Screen' = flow[k]
    BY <1>2, <2>2 DEF Screen
  <2>4. CASE Screen \in FrontScreens /\ flow[k] \in FrontScreens
    <3>1. AtStart(vd)
      BY <1>1, <2>4 DEF ScreenInv
    <3>2. ScreenInv'
      BY <2>2, <2>3, <2>4, <3>1 DEF ScreenInv, AtStart, FrontScreens, BackScreens
    <3> QED
      BY <2>2, <3>2 DEF Shows
  <2>5. CASE Screen \in BackScreens /\ flow[k] \in BackScreens
    <3>1. OnBack
      BY <1>1, <2>5 DEF ScreenInv
    <3>2. OnBack'
      BY <2>2, <3>1 DEF OnBack, Seen, Behind, AtStart, AtPage, PageAt, Items
    <3>3. ScreenInv'
      BY <2>3, <2>5, <3>2 DEF ScreenInv, FrontScreens, BackScreens
    <3> QED
      BY <2>2, <3>3 DEF Shows
  <2>6. flow[k] \notin {"start", "end"}
    BY <1>7 DEF LoopScreens
  <2> QED
    BY <1>2, <2>4, <2>5, <2>6
<1> QED
  BY <1>2, <1>3, <1>4, <1>5, <1>6, <1>7

-----------------------------------------------------------------------------
(* A review opens on its first screen, with the cursor on its first page.  *)
LEMMA ShowWalks ==
    ASSUME NEW r \in Reviews, Show(r)
    PROVE  ScreenInv' /\ answer' = "none"
<1>1. /\ review' = r /\ vd' = CursorAt(0, 0, 1, 255)
      /\ flow' = ShownFlow(r) /\ at' = 1 /\ answer' = "none"
  BY ShownCursor DEF Show
<1>2. PICK n : Shape(flow', n)
  BY <1>1, FlowShown
<1>3. Screen' \in FrontScreens
  <2>1. n \in 1 .. 3 /\ \A k \in 1 .. n : (flow')[k] \in FrontScreens
    BY <1>2 DEF Shape
  <2>2. 1 \in 1 .. n
    BY <2>1
  <2>3. 1 # 0
    OBVIOUS
  <2> QED
    BY <1>1, <2>1, <2>2, <2>3 DEF Screen
<1>4. AtStart(vd)'
  BY <1>1 DEF AtStart
<1> QED
  BY <1>1, <1>3, <1>4 DEF ScreenInv, FrontScreens, BackScreens

(* The double press that leads to the approval leaves the cursor alone.    *)
LEMMA SkipWalks ==
    ASSUME WalkInv, SkipToApproval
    PROVE  ScreenInv'
<1> DEFINE f == ReviewFlow(review)
<1>1. /\ review \in Reviews /\ f \in Flows /\ TypeInv /\ ScreenInv
      /\ review' = review /\ skipped' = TRUE
      /\ flow' = f /\ at' = Position(f, "approve") /\ vd' = vd /\ flow_inside_loop' = flow_inside_loop
  BY DEF WalkInv, TypeInv, Flows, SkipToApproval, Enter
<1> HIDE DEF f
<1>2. at' = FrontOf(f) + 4 /\ FrontOf(f) \in 1 .. 3 /\ f[FrontOf(f) + 4] = "approve"
  BY <1>1, FlowKnown DEF Shape
<1>3. Screen' = "approve"
  <2>1. at' # 0
    BY <1>2
  <2> QED
    BY <1>1, <1>2, <2>1 DEF Screen
<1>4. IF flow_inside_loop THEN AtPage(vd) ELSE AtStart(vd)
  <2>1. CASE Screen = "skip"
    BY <1>1, <2>1, OnSkipScreen DEF ScreenInv, OnSkip, AtPage
  <2>2. CASE Screen = "shortcut"
    <3>1. Screen \in FrontScreens /\ Screen # "skip" /\ at # 0
      BY <2>2 DEF FrontScreens, Screen
    <3>2. flow \in Flows /\ at \in 1 .. Len(flow) /\ flow[at] \in FrontScreens
      BY <1>1, <3>1, InFlow DEF Screen
    <3>3. at <= FrontOf(flow) /\ FrontOf(flow) \in 1 .. 3
      BY <1>1, <3>2, StepKnown, FlowKnown
    <3>4. ~flow_inside_loop
      <4>1. ~(flow = <<"skip">>)
        BY <1>1, <3>2, FlowKnown
      <4>2. at # FrontOf(flow) + 2 /\ ~(at > FrontOf(flow) + 3)
        <5> DEFINE n == FrontOf(flow)
                   len == Len(flow)
        <5>1. n \in 1 .. 3 /\ at \in 1 .. len /\ at <= n /\ len \in n + 4 .. n + 5
          BY <1>1, <3>2, <3>3, FlowKnown
        <5> HIDE DEF n, len
        <5>2. at # n + 2 /\ ~(at > n + 3)
          BY <5>1
        <5> QED
          BY <5>2 DEF n
      <4> QED
        BY <1>1, <3>1, <4>1, <4>2 DEF TypeInv, FlowInv
    <3> QED
      BY <1>1, <3>1, <3>4 DEF ScreenInv
  <2> QED
    BY <2>1, <2>2 DEF SkipToApproval
<1>5. OnBack'
  BY <1>1, <1>4 DEF OnBack, Seen, AtPage, AtStart, PageAt, Items
<1> QED
  BY <1>3, <1>5 DEF ScreenInv, FrontScreens, BackScreens

(* A button keeps what the screens say about the pages shown.              *)
LEMMA ButtonWalks ==
    ASSUME SkipsShortItems, WalkInv, Right \/ Left
    PROVE  Shows
<1>1. /\ review \in Reviews /\ review' = review /\ skipped' = skipped /\ TypeInv /\ ScreenInv
  BY DEF WalkInv, TypeInv, Right, Left, Unseen
<1> DEFINE len == Len(flow)
<1>2. CASE FlowRight
  <2>1. Screen # "skip" /\ at \in 1 .. len - 1 /\ EnterStep(at + 1)
    BY <1>2 DEF FlowRight
  <2>2. len \in 5 .. 8
    <3>1. at # 0
      <4>1. \A l : 0 \notin 1 .. l
        OBVIOUS
      <4> QED
        BY <2>1, <4>1
    <3> QED
      BY <1>1, <2>1, <3>1, InFlow
  <2> HIDE DEF len
  <2>3. at \in 1 .. len /\ at + 1 \in 1 .. len
    BY <2>1, <2>2
  <2> QED
    BY <1>1, <2>1, <2>3, FlowWalks DEF len
<1>3. CASE FlowLeft
  <2>1. Screen # "skip" /\ at > 1 /\ EnterStep(at - 1)
    BY <1>3 DEF FlowLeft
  <2>2. at \in 1 .. len /\ len \in 5 .. 8
    BY <1>1, <2>1, InFlow
  <2> HIDE DEF len
  <2>3. at - 1 \in 1 .. len
    BY <2>1, <2>2
  <2> QED
    BY <1>1, <2>1, <2>2, <2>3, FlowWalks DEF len
<1> DEFINE f == ReviewFlow(review)
<1>4. f \in Flows
  BY DEF Flows
<1>5. ASSUME Screen = "skip"
      PROVE  flow_inside_loop /\ \E i : PageAt(vd, i, 0, 1) /\ Seen(Before(i, 0))
  BY <1>1, <1>5, OnSkipScreen DEF ScreenInv, OnSkip
<1>6. CASE SkipRight
  <2>1. Screen = "skip" /\ EnterStart(f, NextItem(vd))
    BY <1>6 DEF SkipRight, NextItem
  <2> HIDE DEF f
  <2> QED
    BY <1>1, <1>4, <1>5, <2>1, GoesOnReading
<1>7. CASE SkipLeft
  <2>1. Screen = "skip" /\ EnterStart(f, vd)
    BY <1>7 DEF SkipLeft
  <2> HIDE DEF f
  <2> QED
    BY <1>1, <1>4, <1>5, <2>1, GoesBack
<1> QED
  BY <1>2, <1>3, <1>6, <1>7 DEF Right, Left

(* Before the first review nothing is told or shown.                       *)
LEMMA WalkInvInit == Init => WalkInv
<1> SUFFICES ASSUME Init PROVE WalkInv
  OBVIOUS
<1>1. Screen = "idle" /\ answer = "none"
  BY DEF Init, Screen
<1> QED
  BY <1>1, TypeInvInit DEF WalkInv, ScreenInv, FrontScreens, BackScreens

(* Every step keeps the walk.                                              *)
LEMMA WalkInvKept == SkipsShortItems /\ WalkInv /\ [Next]_vars => WalkInv'
<1> SUFFICES ASSUME SkipsShortItems, WalkInv, [Next]_vars PROVE WalkInv'
  OBVIOUS
<1>1. TypeInv'
  BY TypeInvKept DEF WalkInv
<1> DEFINE Told == answer # "none" => Seen(PagesOf(review.pages))
<1> SUFFICES ScreenInv' /\ Told'
  BY <1>1 DEF WalkInv
<1>2. ASSUME NEW r \in Reviews, Show(r) PROVE ScreenInv' /\ Told'
  BY <1>2, ShowWalks
<1>3. CASE Right \/ Left
  <2>1. Shows /\ answer' = answer
    BY <1>3, ButtonWalks DEF Right, Left, Unseen
  <2> QED
    BY <2>1 DEF Shows, WalkInv, Seen
<1>4. CASE SkipToApproval
  <2>1. Told'
    BY <1>4 DEF SkipToApproval, Seen
  <2> QED
    BY <1>4, <2>1, SkipWalks
<1>5. ASSUME at' = 0 PROVE ScreenInv'
  BY <1>5 DEF ScreenInv, Screen, FrontScreens, BackScreens
<1>6. CASE Answer
  <2>1. Screen \in BackScreens
    BY <1>6 DEF Answer, BackScreens
  <2>2. Seen(PagesOf(review.pages))
    BY <2>1 DEF WalkInv, ScreenInv, OnBack
  <2>3. Told'
    BY <1>6, <2>2 DEF Answer, Seen
  <2> QED
    BY <1>5, <1>6, <2>3 DEF Answer, Idle
<1>7. CASE IoReset
  <2>1. Told'
    BY <1>7 DEF IoReset, Seen, WalkInv
  <2> QED
    BY <1>5, <1>7, <2>1 DEF IoReset, Idle
<1>8. CASE UNCHANGED vars
  <2>1. /\ review' = review /\ vd' = vd /\ flow_inside_loop' = flow_inside_loop /\ flow' = flow
        /\ at' = at /\ answer' = answer /\ shown' = shown /\ skipped' = skipped
    BY <1>8 DEF vars
  <2>2. Told'
    BY <2>1 DEF WalkInv, Seen
  <2>3. Screen' = Screen
    BY <2>1 DEF Screen
  <2>4. (OnSkip => OnSkip') /\ (OnInside => OnInside') /\ (OnBack => OnBack')
    <3>1. OnSkip => OnSkip'
      BY <2>1, ZenonT(30) DEF OnSkip, Seen, Before, PageAt, Items
    <3>2. OnInside => OnInside'
      BY <2>1, ZenonT(30) DEF OnInside, Seen, Before, PageAt, Items
    <3>3. OnBack => OnBack'
      BY <2>1, ZenonT(30) DEF OnBack, Seen, AtPage, PageAt, Behind, AtStart, Items
    <3> QED BY <3>1, <3>2, <3>3
  <2> QED
    BY <2>1, <2>2, <2>3, <2>4, ZenonT(60) DEF WalkInv, ScreenInv, AtStart
<1> QED
  BY <1>2, <1>3, <1>4, <1>6, <1>7, <1>8 DEF Next

(* ApprovedAfterReading, for any reviews in which the skip screen only     *)
(* stands for items of one page: whatever way the user walks, the screens  *)
(* that answer come after every page, and no answer was given before.      *)
THEOREM ReadingComesFirst ==
    ASSUME SkipsShortItems PROVE Spec => []ApprovedAfterReading
<1>1. WalkInv => ApprovedAfterReading
  BY DEF WalkInv, ScreenInv, OnBack, Seen, BackScreens, ApprovedAfterReading
<1>2. WalkInv /\ [Next]_vars => WalkInv'
  BY WalkInvKept
<1> QED
  BY <1>1, <1>2, WalkInvInit, PTL DEF Spec

(* PageExists: the screens of the loop show, or ask about, a page of the   *)
(* review, and never one that was left behind by another item.             *)
THEOREM NoEmptyPage ==
    ASSUME SkipsShortItems PROVE Spec => []PageExists
<1>1. WalkInv => PageExists
  <2> SUFFICES ASSUME WalkInv, Screen \in {"inside", "skip"}
               PROVE  <<vd.itemIdx, vd.pageIdx>> \in PagesOf(review.pages)
    BY DEF PageExists
  <2>1. AtPage(vd)
    BY DEF WalkInv, ScreenInv, OnInside, OnSkip, AtPage
  <2>2. PICK i, p, m : PageAt(vd, i, p, m)
    BY <2>1 DEF AtPage
  <2>3. /\ vd.itemIdx = i /\ vd.pageIdx = p
        /\ i \in 0 .. Len(review.pages) - 1 /\ m \in 1 .. 254 /\ p \in 0 .. m - 1
        /\ m = review.pages[i + 1]
    BY <2>2, CursorFields DEF PageAt, Items
  <2> QED
    BY <2>3 DEF PagesOf
<1>2. WalkInv /\ [Next]_vars => WalkInv'
  BY WalkInvKept
<1> QED
  BY <1>1, <1>2, WalkInvInit, PTL DEF Spec

(* RightReads: right on the skip screen shows the page that it stands for, *)
(* and moves the cursor no further.                                        *)
THEOREM ReadsWhatWasAsked ==
    ASSUME SkipsShortItems PROVE Spec => RightReads
<1>1. ASSUME WalkInv, SkipRight, Unseen
      PROVE  /\ Screen' = "inside"
             /\ vd'.itemIdx = vd.itemIdx
             /\ vd'.pageIdx = vd.pageIdx
  <2> DEFINE f == ReviewFlow(review)
  <2>1. /\ review \in Reviews /\ review' = review /\ skipped' = skipped /\ TypeInv /\ ScreenInv
        /\ Screen = "skip" /\ EnterStart(f, NextItem(vd)) /\ f \in Flows
    BY <1>1 DEF WalkInv, TypeInv, Unseen, SkipRight, NextItem, Flows
  <2>2. flow_inside_loop /\ \E i : PageAt(vd, i, 0, 1) /\ Seen(Before(i, 0))
    BY <2>1, OnSkipScreen DEF ScreenInv, OnSkip
  <2> HIDE DEF f
  <2>3. Screen' = "inside" /\ vd' = vd
    BY <2>1, <2>2, GoesOnReading
  <2> QED
    BY <2>3
<1>2. WalkInv /\ [Next]_vars => WalkInv'
  BY WalkInvKept
<1>3. WalkInv /\ [Next]_vars =>
        [SkipRight /\ Unseen => /\ Screen' = "inside"
                                /\ vd'.itemIdx = vd.itemIdx
                                /\ vd'.pageIdx = vd.pageIdx]_vars
  BY <1>1
<1> QED
  BY <1>2, <1>3, WalkInvInit, PTL DEF Spec, RightReads

-----------------------------------------------------------------------------
(* The line of screens (ReviewSpec).  A review that shows an intent, may be *)
(* skipped and has the shortcut too would change its line on the way: its   *)
(* first flow has no screen for the shortcut.                               *)
OneFront == \A r \in Reviews : r.intent /\ r.progressive /\ r.kind = "TXN" => ~r.shortcut

Line == LineOf(review)

(* The flows that this review shows.                                       *)
Shown(f) == f \in Flows /\ (review.progressive \/ f = ShownFlow(review))

LineInv ==
    /\ at # 0 /\ flow # <<"skip">> => Shown(flow)
    /\ at # 0 /\ flow = <<"skip">> => review.progressive
    /\ skipped => review.progressive \/ review.shortcut

(* The line of a review, by any flow that it shows.                        *)
LEMMA LineKnown ==
    ASSUME OneFront, review \in Reviews, NEW f, Shown(f)
    PROVE  /\ Line.front = FrontOf(f) /\ Line.front \in 1 .. 3
           /\ Line.items = Total /\ Line.back \in 1 .. 2
           /\ Line.skip = (review.progressive \/ review.shortcut)
           /\ Len(f) <= (FrontOf(f) + 3) + Line.back
<1> DEFINE g == ReviewFlow(review)
           h == ShownFlow(review)
           e == IF review.progressive THEN g ELSE h
<1>1. PICK n : /\ Shape(g, n) /\ Len(g) = n + 5
               /\ (SkipFields(review) = << >> /\ ~review.blind) => n = 1
  BY FlowOfReviewIs
<1>2. /\ f \in {g, h}
      /\ ~review.progressive => f = h
  BY DEF Shown, Flows
<1>3. \/ h = g
      \/ /\ review.intent /\ review.kind \in {"MSG", "TXN"}
         /\ Shape(h, 1) /\ Len(h) = 5
  BY FlowOfIntent
<1>4. ASSUME review.progressive, h # g PROVE n = 1
  <2>1. ~review.blind
    BY <1>4, ReviewTyped
  <2>2. SkipFields(review) = << >>
    BY <1>3, <1>4 DEF OneFront, SkipFields
  <2> QED
    BY <1>1, <2>1, <2>2
<1>5. /\ Line.front = Position(e, "start") - 1
      /\ Line.items = Total
      /\ Line.back = Len(e) - Position(e, "end")
      /\ Line.skip = (review.progressive \/ review.shortcut)
  BY DEF Line, LineOf, Total
<1>g. Shape(e, FrontOf(e)) /\ FrontOf(e) \in 1 .. 3 /\ Position(e, "start") = FrontOf(e) + 1
      /\ Position(e, "end") = FrontOf(e) + 3
      /\ Len(e) \in FrontOf(e) + 4 .. FrontOf(e) + 5
  <2>1. e \in Flows
    BY DEF Flows
  <2> HIDE DEF e
  <2> QED
    BY <2>1, FlowKnown
<1>f. FrontOf(f) = FrontOf(e) /\ Len(f) <= Len(e)
  <2>1. FrontOf(g) = n /\ n \in 1 .. 3
    BY <1>1, Positions DEF Shape
  <2>2. h = g \/ (FrontOf(h) = 1 /\ Len(h) = 5)
    BY <1>3, Positions
  <2>3. CASE f = e
    <3>1. Len(f) \in FrontOf(e) + 4 .. FrontOf(e) + 5 /\ FrontOf(e) \in 1 .. 3
      BY <1>g, <2>3
    <3> QED
      BY <2>3, <3>1
  <2>4. CASE f # e
    <3>1. review.progressive /\ e = g /\ f = h /\ h # g
      BY <1>2, <2>4
    <3> HIDE DEF e, g, h
    <3>2. n = 1 /\ FrontOf(h) = 1 /\ Len(h) = 5 /\ FrontOf(g) = 1 /\ Len(g) = n + 5
      BY <1>1, <1>4, <2>1, <2>2, <3>1
    <3>3. 5 <= 1 + 5
      OBVIOUS
    <3> QED
      BY <3>1, <3>2, <3>3
  <2> QED
    BY <2>3, <2>4
<1> HIDE DEF e, g, h
<1> DEFINE fe == FrontOf(e)
           le == Len(e)
           lf == Len(f)
<1>6. /\ Line.front = (fe + 1) - 1 /\ Line.back = le - (fe + 3) /\ fe \in 1 .. 3
      /\ le \in fe + 4 .. fe + 5 /\ lf <= le /\ lf \in Int
  <2>1. lf \in Int
    <3>1. Len(g) \in Int /\ Len(h) \in Int
      <4>1. n \in 1 .. 3
        BY <1>1 DEF Shape
      <4>2. n + 5 \in Int /\ 5 \in Int
        BY <4>1
      <4> QED
        BY <1>1, <1>3, <4>2
    <3> QED
      BY <1>2, <3>1
  <2> QED
    BY <1>5, <1>g, <1>f, <2>1
<1> HIDE DEF fe, le, lf
<1>7. /\ (fe + 1) - 1 = fe /\ le - (fe + 3) \in 1 .. 2 /\ lf <= (fe + 3) + (le - (fe + 3))
  BY <1>6
<1> QED
  BY <1>5, <1>6, <1>7, <1>f DEF fe, lf

(* Only a review with the shortcut has a screen for it, and its flow is    *)
(* the one that leads to the approval.                                     *)
LEMMA ShortcutOffered ==
    ASSUME review \in Reviews, NEW f \in Flows, Shown(f), NEW k \in 1 .. Len(f), f[k] = "shortcut"
    PROVE  review.shortcut /\ f = ReviewFlow(review)
<1> DEFINE g == ReviewFlow(review)
<1>1. f = g
  <2> SUFFICES ASSUME f # g PROVE FALSE
    OBVIOUS
  <2>1. Shape(f, 1) /\ f[1] = "title"
    BY FlowOfIntent DEF Flows
  <2>2. k <= 1 /\ k \in 1 .. Len(f)
    <3>1. FrontOf(f) = 1 /\ k <= FrontOf(f)
      <4>1. f[k] \in FrontScreens
        BY DEF FrontScreens
      <4> QED
        BY <2>1, <4>1, Positions, StepKnown
    <3> QED
      BY <3>1
  <2>3. k = 1
    <3>1. \A l : k \in 1 .. l /\ k <= 1 => k = 1
      OBVIOUS
    <3> QED
      BY <2>2, <3>1
  <2> QED
    BY <2>1, <2>3
<1>2. review.shortcut
  <2> SUFFICES ASSUME ~review.shortcut PROVE FALSE
    OBVIOUS
  <2>1. SkipFields(review) = << >>
    BY DEF SkipFields
  <2>2. PICK n : Shape(g, n) /\ \A i \in 1 .. n : g[i] # "shortcut"
    BY <2>1, FlowOfReviewIs
  <2>3. n \in 1 .. 3 /\ FrontOf(g) = n
    BY <2>2, Positions DEF Shape
  <2>4. k <= n /\ k \in 1 .. Len(g)
    <3>1. f[k] \in FrontScreens
      BY DEF FrontScreens
    <3> HIDE DEF g
    <3> QED
      BY <1>1, <2>3, <3>1, StepKnown
  <2>5. k \in 1 .. n
    <3>1. \A l : k \in 1 .. l /\ k <= n => k \in 1 .. n
      BY <2>3
    <3> QED
      BY <2>4, <3>1
  <2> QED
    BY <1>1, <2>2, <2>5
<1> QED
  BY <1>1, <1>2

-----------------------------------------------------------------------------
(* Where a screen stands in the line.                                      *)
PlaceAt(r, f, k, d) ==
    LET line == LineOf(r)
        s    == f[k]
        page == <<d.itemIdx, d.pageIdx>>
    IN  IF k = 0 THEN -1
        ELSE IF s \in {"inside", "skip"}
          THEN IF page \in PagesOf(r.pages)
                 THEN line.front + Cardinality(PagesUpTo(r.pages, d.itemIdx, d.pageIdx))
                 ELSE -2
        ELSE IF k <= line.front THEN k - 1
        ELSE line.front + line.items + k - Position(f, "approve")

(* Place is the place of the screen shown, before and after a step.        *)
LEMMA PlaceIs ==
    /\ Place = PlaceAt(review, flow, at, vd)
    /\ Place' = PlaceAt(review', flow', at', vd')
<1>1. Place = PlaceAt(review, flow, at, vd)
  <2>1. CASE at = 0
    BY <2>1 DEF Place, PlaceAt
  <2>2. CASE at # 0
    BY <2>2 DEF Place, PlaceAt, PageExists, Screen
  <2> QED
    BY <2>1, <2>2
<1>2. Place' = PlaceAt(review', flow', at', vd')
  <2>1. CASE at' = 0
    BY <2>1 DEF Place, PlaceAt
  <2>2. CASE at' # 0
    BY <2>2 DEF Place, PlaceAt, PageExists, Screen
  <2> QED
    BY <2>1, <2>2
<1> QED
  BY <1>1, <1>2

Approve == Line.front + Total

(* In the loop: by the pages before the one shown. *)
LEMMA PlaceInLoop ==
    ASSUME review \in Reviews, NEW f, NEW k, k # 0, f[k] \in {"inside", "skip"},
           NEW d, NEW i, NEW p, NEW m, PageAt(d, i, p, m)
    PROVE  PlaceAt(review, f, k, d) = Line.front + Count(i, p)
<1>1. /\ i \in 0 .. Len(review.pages) - 1 /\ m \in 1 .. 254 /\ p \in 0 .. m - 1 /\ m = review.pages[i + 1]
      /\ d.itemIdx = i /\ d.pageIdx = p
  BY CursorFields DEF PageAt, Items
<1>2. <<i, p>> \in PagesOf(review.pages)
  BY <1>1 DEF PagesOf
<1> QED
  BY <1>1, <1>2, Zenon DEF PlaceAt, Line, Count, Before

(* Outside of it: by the step.                                             *)
LEMMA PlaceInFlow ==
    ASSUME OneFront, review \in Reviews, NEW f, Shown(f), NEW k \in 1 .. Len(f), NEW d
    PROVE  /\ k <= FrontOf(f) => PlaceAt(review, f, k, d) = k - 1
           /\ k > FrontOf(f) + 3 => PlaceAt(review, f, k, d) = Approve + (k - (FrontOf(f) + 4))
<1>1. f \in Flows
  BY DEF Shown
<1>2. /\ k <= FrontOf(f) <=> f[k] \in FrontScreens
      /\ k > FrontOf(f) + 3 <=> f[k] \in BackScreens
      /\ Position(f, "approve") = FrontOf(f) + 4
      /\ FrontOf(f) \in 1 .. 3
  BY <1>1, StepKnown, FlowKnown
<1>3. Line.front = FrontOf(f) /\ Line.items = Total /\ Total \in Nat
  BY LineKnown, PagesFinite
<1>k. k # 0 /\ k \in Int
  <2>1. \A l : k \in 1 .. l => k # 0 /\ k \in Int
    OBVIOUS
  <2> QED
    BY <2>1
<1> DEFINE n == FrontOf(f)
           s == f[k]
           a == Position(f, "approve")
<1>4. PlaceAt(review, f, k, d) =
        IF s \in {"inside", "skip"} THEN PlaceAt(review, f, k, d)
        ELSE IF k <= n THEN k - 1 ELSE n + Total + k - a
  <2> HIDE DEF n, s, a
  <2>1. PlaceAt(review, f, k, d) =
          IF s \in {"inside", "skip"}
            THEN IF <<d.itemIdx, d.pageIdx>> \in PagesOf(review.pages)
                   THEN Line.front + Cardinality(PagesUpTo(review.pages, d.itemIdx, d.pageIdx))
                   ELSE -2
          ELSE IF k <= Line.front THEN k - 1 ELSE Line.front + Line.items + k - a
    BY <1>k DEF PlaceAt, Line, s, a
  <2>2. Line.front = n
    BY <1>3 DEF n
  <2> QED
    BY <1>3, <2>1, <2>2
<1> HIDE DEF n, s, a
<1>5. /\ k <= n <=> s \in FrontScreens
      /\ k > n + 3 <=> s \in BackScreens
      /\ a = n + 4 /\ n \in 1 .. 3
  BY <1>2 DEF n, s, a
<1>6. CASE k <= n
  <2>1. s \notin {"inside", "skip"} /\ ~(k > n + 3)
    BY <1>5, <1>6, <1>k DEF FrontScreens
  <2> QED
    BY <1>4, <1>6, <2>1 DEF n
<1>7. CASE k > n + 3
  <2>1. s \notin {"inside", "skip"} /\ ~(k <= n)
    BY <1>5, <1>7, <1>k DEF BackScreens
  <2>2. PlaceAt(review, f, k, d) = n + Total + k - a
    BY <1>4, <2>1
  <2>3. n + Total + k - a = (n + Total) + (k - (n + 4))
    BY <1>3, <1>5, <1>k
  <2> QED
    BY <1>3, <2>1, <2>2, <2>3 DEF n, Approve
<1>8. CASE ~(k <= n) /\ ~(k > n + 3)
  BY <1>8 DEF n
<1> QED
  BY <1>6, <1>7, <1>8

-----------------------------------------------------------------------------
(* What one press of a button does to the place in the line: nothing, a    *)
(* move by one, or, where the review offers to skip, a jump to the         *)
(* approval or back from there.                                            *)
LineEnd == Approve + (Line.back - 1)

Moved ==
    \/ Place' = Place
    \/ /\ Place \in 0 .. LineEnd
       /\ Place' \in 0 .. LineEnd
       /\ Place' = Place + 1 \/ Place' = Place - 1
    \/ /\ Line.skip
       /\ Place \in 0 .. Approve /\ Place' \in 0 .. Approve
       /\ Place = Approve \/ Place' = Approve

(* Such a press is a step of the line.                                     *)
LEMMA MovedIsStep ==
    ASSUME OneFront, review \in Reviews, review' = review, answer' = answer, Moved
    PROVE  [Abs!AbsNext]_(Abs!absVars)
<1>1. LineOf(review)' = LineOf(review) /\ Line = LineOf(review)
  BY DEF Line
<1>2. Total \in Nat /\ Line.front \in 1 .. 3 /\ Line.items = Total /\ Line.back \in 1 .. 2
  <2>1. ShownFlow(review) \in Flows /\ Shown(ShownFlow(review))
    BY DEF Flows, Shown
  <2> QED
    BY <2>1, LineKnown, PagesFinite
<1>a. Approve = LineOf(review).front + LineOf(review).items /\ Approve \in Nat
  BY <1>1, <1>2 DEF Approve
<1>3. CASE Place' = Place
  BY <1>1, <1>3 DEF Abs!absVars
<1>4. CASE /\ Place \in 0 .. LineEnd
           /\ Place' \in 0 .. LineEnd
           /\ Place' = Place + 1 \/ Place' = Place - 1
  <2> DEFINE a == Place
             b == Place'
             top == Approve + (Line.back - 1)
  <2>1. a \in 0 .. top /\ b \in 0 .. top /\ (b = a + 1 \/ b = a - 1) /\ top \in Int
    BY <1>2, <1>4, <1>a DEF LineEnd
  <2> HIDE DEF a, b, top
  <2>2. PICK step \in {-1, 1} : b = a + step
    <3>1. a - 1 = a + (-1)
      BY <2>1
    <3>2. -1 \in {-1, 1} /\ 1 \in {-1, 1}
      OBVIOUS
    <3> QED
      BY <2>1, <3>1, <3>2
  <2>3. a # -1
    BY <2>1
  <2>4. Abs!Move(step)
    BY <1>1, <1>a, <2>1, <2>2, <2>3, Zenon DEF Abs!Move, Abs!ApprovePlace, Abs!Nowhere, a, b, top
  <2> QED
    BY <2>4 DEF Abs!AbsNext
<1>5. CASE /\ Line.skip
           /\ Place \in 0 .. Approve /\ Place' \in 0 .. Approve
           /\ Place = Approve \/ Place' = Approve
  <2>1. Place # -1
    <3> DEFINE a == Place
    <3>1. a \in 0 .. Approve
      BY <1>5
    <3> HIDE DEF a
    <3>2. a # -1
      BY <1>a, <3>1
    <3> QED
      BY <3>2 DEF a
  <2>2. Abs!Skip
    BY <1>1, <1>5, <1>a, <2>1, Zenon DEF Abs!Skip, Abs!ApprovePlace, Abs!Nowhere
  <2> QED
    BY <2>2 DEF Abs!AbsNext
<1> QED
  BY <1>3, <1>4, <1>5 DEF Moved

(* Where the loop lands, by the pages before it.                           *)
LEMMA LandsPlace ==
    ASSUME review \in Reviews, review' = review, NEW n, Lands(n)
    PROVE  Place' = Line.front + n /\ n \in Nat /\ n < Total
<1>1. PICK j, q, k : PageAt(vd', j, q, k) /\ Count(j, q) = n
  BY DEF Lands
<1>2. at' # 0 /\ (flow')[at'] \in {"inside", "skip"}
  BY DEF Lands, Screen
<1>3. PlaceAt(review, flow', at', vd') = Line.front + Count(j, q)
  BY <1>1, <1>2, PlaceInLoop
<1>4. Place' = PlaceAt(review, flow', at', vd')
  BY PlaceIs
<1>5. Count(j, q) \in Nat /\ Count(j, q) < Total
  BY <1>1, CountNext
<1> QED
  BY <1>1, <1>3, <1>4, <1>5

(* One step of the flow, seen from the line.                               *)
LEMMA FlowPlaced ==
    ASSUME OneFront, SkipsShortItems, WalkInv, LineInv, review' = review, skipped' = skipped,
           Screen # "skip",
           NEW k \in {at - 1, at + 1}, at \in 1 .. Len(flow), k \in 1 .. Len(flow), EnterStep(k)
    PROVE  Moved
<1>1. review \in Reviews /\ TypeInv /\ ScreenInv
  BY DEF WalkInv, TypeInv
<1> DEFINE n == FrontOf(flow)
           len == Len(flow)
<1>2. /\ flow \in Flows /\ n \in 1 .. 3 /\ at # 0 /\ k # 0 /\ flow_inside_loop \in BOOLEAN
      /\ Screen = flow[at]
      /\ \/ /\ at <= n /\ k <= n /\ flow[k] \notin LoopScreens
            /\ Screen \in FrontScreens /\ flow[k] \in FrontScreens
         \/ at = n /\ flow[k] = "start" /\ ~flow_inside_loop /\ Screen \in FrontScreens
         \/ at = n + 2 /\ flow[k] = "start" /\ flow_inside_loop /\ Screen = "inside"
         \/ at = n + 2 /\ flow[k] = "end" /\ flow_inside_loop /\ Screen = "inside"
         \/ at = n + 4 /\ flow[k] = "end" /\ Screen \in BackScreens
         \/ /\ at > n + 3 /\ k > n + 3 /\ flow[k] \notin LoopScreens
            /\ Screen \in BackScreens /\ flow[k] \in BackScreens
  BY <1>1, StepOfFlow, Zenon
<1>3. Shown(flow) /\ (skipped => Line.skip)
  <2>1. Shown(flow)
    BY <1>1, <1>2, FlowKnown DEF LineInv
  <2> QED
    BY <1>1, <2>1, LineKnown DEF LineInv
<1>4. /\ Line.front = n /\ Line.back \in 1 .. 2 /\ len <= (n + 3) + Line.back
      /\ Total \in Nat /\ len \in n + 4 .. n + 5
  BY <1>1, <1>2, <1>3, LineKnown, PagesFinite, FlowKnown
<1> DEFINE back == Line.back
           T == Total
<1>5. /\ Approve = n + T /\ back \in 1 .. 2 /\ T \in Nat /\ Line.front = n
      /\ LineEnd = Approve + (back - 1)
  BY <1>4 DEF Approve, LineEnd
<1>6. Place = PlaceAt(review, flow, at, vd) /\ Place' = PlaceAt(review, flow', at', vd')
  BY PlaceIs
<1>7. /\ at <= n => Place = at - 1
      /\ at > n + 3 => Place = Approve + (at - (n + 4))
  BY <1>1, <1>3, <1>6, PlaceInFlow
<1>8. ASSUME flow' = flow, NEW x \in 1 .. len, at' = x
      PROVE  /\ x <= n => Place' = x - 1
             /\ x > n + 3 => Place' = Approve + (x - (n + 4))
  BY <1>1, <1>3, <1>6, <1>8, PlaceInFlow
<1>9. ASSUME Screen = "inside", NEW i, NEW p, NEW m, PageAt(vd, i, p, m)
      PROVE  Place = n + Count(i, p) /\ Count(i, p) \in Nat /\ Count(i, p) < T
  <2>1. PlaceAt(review, flow, at, vd) = Line.front + Count(i, p)
    <3>1. at # 0 /\ flow[at] \in {"inside", "skip"}
      BY <1>2, <1>9
    <3> QED
      BY <1>1, <1>9, <3>1, PlaceInLoop
  <2>2. Count(i, p) \in Nat /\ Count(i, p) < Total
    BY <1>1, <1>9, CountNext
  <2> QED
    BY <1>4, <1>6, <2>1, <2>2
<1>10. ASSUME NEW x, Lands(x)
       PROVE  Place' = n + x /\ x \in Nat /\ x < T
  BY <1>1, <1>4, <1>10, LandsPlace
<1>11. n \in 1 .. len /\ n + 4 \in 1 .. len /\ n \in 1 .. 3
  <2>1. n \in 1 .. 3 /\ len \in n + 4 .. n + 5
    BY <1>2, <1>4
  <2> HIDE DEF n, len
  <2> QED
    BY <2>1
<1> DEFINE a == Place
           b == Place'
<1> HIDE DEF n, len, back, T, a, b
<1>12. ASSUME a \in 0 .. LineEnd, b \in 0 .. LineEnd, b = a + 1 \/ b = a - 1
       PROVE  Moved
  <2>1. Place \in 0 .. LineEnd
    BY <1>12 DEF a
  <2>2. Place' \in 0 .. LineEnd
    BY <1>12 DEF b
  <2>3. Place' = Place + 1 \/ Place' = Place - 1
    BY <1>12 DEF a, b
  <2> QED
    BY <2>1, <2>2, <2>3 DEF Moved
<1>13. CASE flow[k] = "start" /\ ~flow_inside_loop /\ at = n
  <2>1. EnterStart(flow, vd)
    BY <1>13 DEF EnterStep
  <2>2. Lands(0)
    BY <1>1, <1>2, <1>13, <2>1, StartsReading
  <2>3. b = n + 0 /\ 0 < T
    BY <1>10, <2>2 DEF b
  <2>4. n <= n
    BY <1>11
  <2>5. a = n - 1
    BY <1>7, <1>13, <2>4 DEF a
  <2>6. a \in 0 .. LineEnd /\ b \in 0 .. LineEnd /\ b = a + 1
    BY <1>5, <1>11, <2>3, <2>5
  <2> QED
    BY <1>12, <2>6
<1>14. CASE flow[k] = "start" /\ flow_inside_loop /\ Screen = "inside"
  <2>1. EnterStart(flow, vd)
    BY <1>14 DEF EnterStep
  <2>2. PICK i, p, m : PageAt(vd, i, p, m) /\ Seen(Before(i, p + 1))
    BY <1>1, <1>14 DEF ScreenInv, OnInside
  <2>3. Seen(Before(i, p))
    <3>1. i \in Int /\ p \in Int /\ p + 1 \in Int /\ p <= p + 1
      <4>1. i \in 0 .. Items - 1 /\ m \in 1 .. 254 /\ p \in 0 .. m - 1 /\ Items \in 1 .. 128
        BY <1>1, <2>2, ItemsTyped DEF PageAt
      <4> QED
        BY <4>1
    <3> DEFINE y == p + 1
    <3>2. y \in Int /\ p <= y
      BY <3>1
    <3> HIDE DEF y
    <3>3. Before(i, p) \subseteq Before(i, y)
      BY <1>1, <3>1, <3>2, BeforeSmaller
    <3> QED
      BY <2>2, <3>3 DEF Seen, y
  <2> DEFINE c == Count(i, p)
  <2>4. \/ Lands(c)
        \/ \E x : Lands(x) /\ x + 1 = c
        \/ flow' = flow /\ at' = FrontOf(flow) /\ c = 0
    BY <1>1, <1>2, <1>14, <2>1, <2>2, <2>3, GoesBack
  <2>5. a = n + c /\ c \in Nat /\ c < T
    BY <1>9, <1>14, <2>2 DEF a
  <2> HIDE DEF c
  <2>6. CASE Lands(c)
    <3>1. b = n + c
      BY <1>10, <2>6 DEF b
    <3> QED
      BY <2>5, <3>1 DEF Moved, a, b
  <2>7. CASE \E x : Lands(x) /\ x + 1 = c
    <3>1. PICK x : Lands(x) /\ x + 1 = c
      BY <2>7
    <3>2. b = n + x /\ x \in Nat /\ x < T
      BY <1>10, <3>1 DEF b
    <3>3. a \in 0 .. LineEnd /\ b \in 0 .. LineEnd /\ b = a - 1
      BY <1>5, <1>11, <2>5, <3>1, <3>2
    <3> QED
      BY <1>12, <3>3
  <2>8. CASE flow' = flow /\ at' = FrontOf(flow) /\ c = 0
    <3>1. at' = n /\ n <= n
      BY <1>11, <2>8 DEF n
    <3>2. b = n - 1
      BY <1>8, <1>11, <2>8, <3>1 DEF b
    <3>3. a \in 0 .. LineEnd /\ b \in 0 .. LineEnd /\ b = a - 1
      BY <1>5, <1>11, <2>5, <2>8, <3>2
    <3> QED
      BY <1>12, <3>3
  <2> QED
    BY <2>4, <2>6, <2>7, <2>8
<1>15. ASSUME flow[k] = "end", flow_inside_loop, NEW i, NEW p, NEW m, PageAt(vd, i, p, m), Seen(Before(i, p + 1))
       PROVE  \/ \E x : Lands(x) /\ x = Count(i, p) + 1
              \/ b = Approve /\ Count(i, p) + 1 = T
  <2>1. EnterEnd
    BY <1>15 DEF EnterStep
  <2>2. \/ Lands(Count(i, p) + 1)
        \/ flow' = flow /\ at' = FrontOf(flow) + 4 /\ Count(i, p) + 1 = Total
    BY <1>1, <1>2, <1>15, <2>1, GoesOn
  <2>3. CASE flow' = flow /\ at' = FrontOf(flow) + 4 /\ Count(i, p) + 1 = Total
    <3>1. at' = n + 4 /\ n + 4 > n + 3 /\ (n + 4) - (n + 4) = 0 /\ Approve + 0 = Approve
      BY <1>5, <1>11, <2>3, SMTT(30) DEF n
    <3> DEFINE x == n + 4
    <3>2. x \in 1 .. len /\ x > n + 3 /\ at' = x
      BY <1>11, <3>1
    <3> HIDE DEF x
    <3>3. b = Approve + (x - (n + 4))
      BY <1>8, <2>3, <3>2 DEF b
    <3> QED
      BY <2>3, <3>1, <3>3 DEF T, x
  <2> QED
    BY <2>2, <2>3
<1>16. CASE flow[k] = "end" /\ flow_inside_loop /\ Screen = "inside"
  <2>1. PICK i, p, m : PageAt(vd, i, p, m) /\ Seen(Before(i, p + 1))
    BY <1>1, <1>16 DEF ScreenInv, OnInside
  <2> DEFINE c == Count(i, p)
  <2>2. \/ \E x : Lands(x) /\ x = c + 1
        \/ b = Approve /\ c + 1 = T
    BY <1>15, <1>16, <2>1
  <2>3. a = n + c /\ c \in Nat /\ c < T
    BY <1>9, <1>16, <2>1 DEF a
  <2> HIDE DEF c
  <2>4. CASE \E x : Lands(x) /\ x = c + 1
    <3>1. PICK x : Lands(x) /\ x = c + 1
      BY <2>4
    <3>2. b = n + x /\ x \in Nat /\ x < T
      BY <1>10, <3>1 DEF b
    <3>3. a \in 0 .. LineEnd /\ b \in 0 .. LineEnd /\ b = a + 1
      BY <1>5, <1>11, <2>3, <3>1, <3>2
    <3> QED
      BY <1>12, <3>3
  <2>5. CASE b = Approve /\ c + 1 = T
    <3>1. a \in 0 .. LineEnd /\ b \in 0 .. LineEnd /\ b = a + 1
      BY <1>5, <1>11, <2>3, <2>5
    <3> QED
      BY <1>12, <3>1
  <2> QED
    BY <2>2, <2>4, <2>5
<1>17. CASE flow[k] = "end" /\ Screen \in BackScreens /\ at = n + 4
  <2>1. EnterEnd /\ OnBack
    BY <1>1, <1>17 DEF EnterStep, ScreenInv
  <2>2. a = Approve
    <3>1. at > n + 3 /\ at - (n + 4) = 0 /\ Approve + 0 = Approve
      BY <1>5, <1>11, <1>17
    <3> QED
      BY <1>7, <3>1 DEF a
  <2>3. ASSUME skipped, b \in 0 .. Approve PROVE Moved
    <3>1. Approve \in 0 .. Approve
      BY <1>5, <1>11
    <3> QED
      BY <1>3, <2>2, <2>3, <3>1 DEF Moved, a, b
  <2>4. ASSUME NEW x, Lands(x) PROVE b = n + x /\ x \in Nat /\ b \in 0 .. Approve
    <3>1. b = n + x /\ x \in Nat /\ x < T
      BY <1>10, <2>4 DEF b
    <3> QED
      BY <1>5, <1>11, <3>1
  <2>5. CASE ~flow_inside_loop
    <3>1. PICK x : Lands(x) /\ (x + 1 = Total \/ skipped)
      BY <1>1, <1>2, <2>1, <2>5, ComesBack
    <3>2. CASE x + 1 = Total
      <4>1. b = n + x /\ x \in Nat /\ x + 1 = T
        BY <2>4, <3>1, <3>2 DEF T
      <4>2. a \in 0 .. LineEnd /\ b \in 0 .. LineEnd /\ b = a - 1
        BY <1>5, <1>11, <2>2, <4>1
      <4> QED
        BY <1>12, <4>2
    <3>3. CASE skipped
      BY <2>3, <2>4, <3>1, <3>3
    <3> QED
      BY <3>1, <3>2, <3>3
  <2>6. CASE flow_inside_loop
    <3>1. skipped /\ AtPage(vd)
      BY <2>1, <2>6 DEF OnBack
    <3>2. PICK i, p, m : PageAt(vd, i, p, m)
      BY <3>1 DEF AtPage
    <3>3. Seen(Before(i, p + 1))
      BY <3>1 DEF Seen
    <3>4. \/ \E x : Lands(x) /\ x = Count(i, p) + 1
          \/ b = Approve /\ Count(i, p) + 1 = T
      BY <1>15, <1>17, <2>6, <3>2, <3>3
    <3>5. b \in 0 .. Approve
      <4>1. Approve \in 0 .. Approve
        BY <1>5, <1>11
      <4> QED
        BY <2>4, <3>4, <4>1
    <3> QED
      BY <2>3, <3>1, <3>5
  <2> QED
    BY <1>2, <2>5, <2>6
<1>18. CASE flow[k] \notin LoopScreens
  <2>1. EnterPlain(k)
    BY <1>18 DEF EnterStep, LoopScreens
  <2>2. flow' = flow /\ at' = k /\ k \in 1 .. len
    BY <2>1 DEF EnterPlain, Enter, len
  <2>3. /\ k <= n => b = k - 1
        /\ k > n + 3 => b = Approve + (k - (n + 4))
    BY <1>8, <2>2 DEF b
  <2>4. at \in 1 .. len /\ (k = at - 1 \/ k = at + 1) /\ len <= (n + 3) + back
    BY <1>4 DEF len, n, back
  <2>5. CASE at <= n /\ k <= n
    <3>1. a \in 0 .. LineEnd /\ b \in 0 .. LineEnd /\ (b = a + 1 \/ b = a - 1)
      <4>1. a = at - 1 /\ b = k - 1
        BY <1>7, <2>3, <2>5 DEF a
      <4>2. len \in Int
        BY <1>4, <1>11 DEF len, n
      <4> QED
        BY <1>5, <1>11, <2>2, <2>4, <2>5, <4>1, <4>2
    <3> QED
      BY <1>12, <3>1
  <2>6. CASE at > n + 3 /\ k > n + 3
    <3>1. a \in 0 .. LineEnd /\ b \in 0 .. LineEnd /\ (b = a + 1 \/ b = a - 1)
      <4>1. a = Approve + (at - (n + 4)) /\ b = Approve + (k - (n + 4))
        BY <1>7, <2>3, <2>6 DEF a
      <4>2. len \in Int
        BY <1>4, <1>11 DEF len, n
      <4> QED
        BY <1>5, <1>11, <2>2, <2>4, <2>6, <4>1, <4>2
    <3> QED
      BY <1>12, <3>1
  <2>7. flow[k] \notin {"start", "end"}
    BY <1>18 DEF LoopScreens
  <2> QED
    BY <1>2, <2>5, <2>6, <2>7 DEF n
<1> QED
  BY <1>2, <1>13, <1>14, <1>16, <1>17, <1>18 DEF n

-----------------------------------------------------------------------------
(* The flow stays one that this review shows.                              *)
LEMMA EnterStepFlow ==
    ASSUME NEW k, EnterStep(k)
    PROVE  flow' = flow \/ (flow' = <<"skip">> /\ review.progressive)
<1>1. CASE flow[k] = "start"
  BY <1>1 DEF EnterStep, EnterStart, EnterInside, Enter
<1>2. CASE flow[k] = "end"
  <2>1. EnterEnd
    BY <1>2 DEF EnterStep
  <2> QED
    BY <2>1 DEF EnterEnd, EnterInside, Enter, AsksToSkip
<1>3. CASE flow[k] # "start" /\ flow[k] # "end"
  BY <1>3 DEF EnterStep, EnterPlain, Enter
<1> QED
  BY <1>1, <1>2, <1>3

(* The screen "skip" and the shortcut come up where they are offered.      *)
LEMMA SkipOffered ==
    ASSUME WalkInv, LineInv, SkipToApproval
    PROVE  review.progressive \/ review.shortcut
<1>1. review \in Reviews /\ TypeInv /\ Screen \in {"skip", "shortcut"}
  BY DEF WalkInv, TypeInv, SkipToApproval
<1>2. CASE Screen = "skip"
  <2>1. at # 0 /\ flow = <<"skip">>
    BY <1>1, <1>2, OnSkipScreen DEF Screen
  <2> QED
    BY <2>1 DEF LineInv
<1>3. CASE Screen = "shortcut"
  <2>1. at # 0 /\ Screen # "skip"
    BY <1>3 DEF Screen
  <2>2. flow \in Flows /\ at \in 1 .. Len(flow) /\ flow[at] = "shortcut"
    BY <1>1, <1>3, <2>1, InFlow DEF Screen
  <2>3. Shown(flow)
    BY <1>1, <2>1, <2>2, FlowKnown DEF LineInv
  <2> QED
    BY <1>1, <2>2, <2>3, ShortcutOffered
<1> QED
  BY <1>1, <1>2, <1>3

(* No review, no flow.                                                     *)
LEMMA LineInvInit == Init => LineInv
  BY DEF Init, LineInv

(* Every step keeps the flow one of this review.                           *)
LEMMA LineInvKept == WalkInv /\ LineInv /\ [Next]_vars => LineInv'
<1> SUFFICES ASSUME WalkInv, LineInv, [Next]_vars PROVE LineInv'
  OBVIOUS
<1>0. review \in Reviews /\ TypeInv
  BY DEF WalkInv, TypeInv
<1>1. ASSUME NEW r \in Reviews, Show(r) PROVE LineInv'
  <2>1. review' = r /\ flow' = ShownFlow(r) /\ skipped' = FALSE
    BY <1>1 DEF Show
  <2>2. flow' # <<"skip">>
    <3>1. PICK n : Shape(flow', n)
      BY <2>1, FlowShown
    <3> DEFINE len == Len(flow')
    <3>2. n \in 1 .. 3 /\ len \in n + 4 .. n + 5
      BY <3>1 DEF Shape
    <3> HIDE DEF len
    <3>3. len # 1
      BY <3>2
    <3> QED
      BY <3>3 DEF len
  <2> QED
    BY <2>1, <2>2 DEF LineInv, Shown, Flows
<1>2. CASE Right \/ Left
  <2>1. review' = review /\ skipped' = skipped
    BY <1>2 DEF Right, Left, Unseen
  <2>2. ASSUME NEW k, EnterStep(k), at # 0, Screen # "skip" PROVE LineInv'
    <3>1. flow' = flow \/ (flow' = <<"skip">> /\ review.progressive)
      BY <2>2, EnterStepFlow
    <3>2. flow \in Flows /\ Shown(flow)
      <4>1. flow \in Flows
        BY <1>0, <2>2, InFlow
      <4> QED
        BY <1>0, <2>2, <4>1, FlowKnown DEF LineInv
    <3>3. flow # <<"skip">>
      BY <1>0, <3>2, FlowKnown
    <3> QED
      BY <2>1, <3>1, <3>2, <3>3 DEF LineInv, Shown, Flows
  <2>3. CASE FlowRight \/ FlowLeft
    <3>1. at # 0 /\ Screen # "skip"
      <4>1. \A l : 0 \notin 1 .. l
        OBVIOUS
      <4>2. ~(0 > 1)
        OBVIOUS
      <4> QED
        BY <2>3, <4>1, <4>2 DEF FlowRight, FlowLeft
    <3>2. EnterStep(at + 1) \/ EnterStep(at - 1)
      BY <2>3 DEF FlowRight, FlowLeft
    <3> QED
      BY <2>2, <3>1, <3>2
  <2>4. CASE SkipRight \/ SkipLeft
    <3>1. Screen = "skip" /\ flow' = ReviewFlow(review)
      BY <2>4 DEF SkipRight, SkipLeft, EnterStart, EnterInside, Enter
    <3>2. review.progressive
      <4>1. at # 0 /\ flow = <<"skip">>
        BY <1>0, <3>1, OnSkipScreen DEF Screen
      <4> QED
        BY <4>1 DEF LineInv
    <3>3. flow' # <<"skip">>
      <4>1. ReviewFlow(review) \in Flows
        BY DEF Flows
      <4> QED
        BY <1>0, <3>1, <4>1, FlowKnown
    <3> QED
      BY <2>1, <3>1, <3>2, <3>3 DEF LineInv, Shown, Flows
  <2> QED
    BY <1>2, <2>3, <2>4 DEF Right, Left
<1>3. CASE SkipToApproval
  <2>1. review' = review /\ flow' = ReviewFlow(review)
    BY <1>3 DEF SkipToApproval, Enter
  <2>2. review.progressive \/ review.shortcut
    BY <1>3, SkipOffered
  <2>3. flow' # <<"skip">>
    <3>1. ReviewFlow(review) \in Flows
      BY DEF Flows
    <3> QED
      BY <1>0, <2>1, <3>1, FlowKnown
  <2>4. review.progressive \/ flow' = ShownFlow(review)
    <3> SUFFICES ASSUME ~review.progressive PROVE flow' = ShownFlow(review)
      OBVIOUS
    <3>1. Screen # "skip" \/ (at # 0 /\ flow = <<"skip">>)
      BY <1>0, OnSkipScreen DEF Screen
    <3>2. Screen # "skip"
      BY <3>1 DEF LineInv
    <3>3. Screen = "shortcut" /\ at # 0
      BY <1>3, <3>2 DEF SkipToApproval, Screen
    <3>4. flow \in Flows /\ at \in 1 .. Len(flow) /\ flow[at] = "shortcut"
      BY <1>0, <3>2, <3>3, InFlow DEF Screen
    <3>5. Shown(flow)
      BY <1>0, <3>3, <3>4, FlowKnown DEF LineInv
    <3>6. flow = ReviewFlow(review) /\ flow = ShownFlow(review)
      BY <1>0, <3>4, <3>5, ShortcutOffered DEF Shown
    <3> QED
      BY <2>1, <3>6
  <2> QED
    BY <2>1, <2>2, <2>3, <2>4 DEF LineInv, Shown, Flows
<1>4. CASE Answer
  BY <1>4 DEF Answer, Idle, LineInv
<1>5. CASE IoReset
  BY <1>5 DEF IoReset, Idle, LineInv
<1>6. CASE UNCHANGED vars
  BY <1>6 DEF vars, LineInv, Shown, Flows
<1> QED
  BY <1>1, <1>2, <1>3, <1>4, <1>5, <1>6 DEF Next

-----------------------------------------------------------------------------
(* Each step of the review is one of the line, or none.                    *)
LEMMA ShowOpens ==
    ASSUME WalkInv, NEW r \in Reviews, Show(r)
    PROVE  Abs!AbsNext
<1>1. /\ Screen = "idle" /\ review' = r /\ flow' = ShownFlow(r) /\ at' = 1 /\ answer' = "none"
  BY DEF Show
<1>2. Place = -1
  <2>1. at = 0
    <3>1. CASE at = 1 /\ flow = <<"skip">>
      BY <1>1, <3>1 DEF Screen
    <3>2. CASE flow \in Flows /\ at \in 1 .. Len(flow)
      <4>1. at # 0 => flow[at] \in Screens
        <5>1. Shape(flow, FrontOf(flow))
          BY <3>2, FlowKnown DEF WalkInv, TypeInv
        <5>2. flow \in Seq(Screens)
          BY <5>1 DEF Shape
        <5> QED
          BY <3>2, <5>2, ElementOfSeq
      <4>2. "idle" \notin Screens
        BY DEF Screens, FrontScreens, LoopScreens, BackScreens
      <4> QED
        BY <1>1, <4>1, <4>2 DEF Screen
    <3> QED
      BY <3>1, <3>2 DEF WalkInv, TypeInv, FlowInv, Flows
  <2> QED
    BY <2>1, PlaceIs DEF PlaceAt
<1>3. Place' = 0
  <2>1. PICK n : Shape(flow', n)
    BY <1>1, FlowShown
  <2>2. (flow')[1] \in FrontScreens
    <3>1. n \in 1 .. 3 /\ \A k \in 1 .. n : (flow')[k] \in FrontScreens
      BY <2>1 DEF Shape
    <3>2. 1 \in 1 .. n
      BY <3>1
    <3> QED
      BY <3>1, <3>2
  <2>3. 1 <= LineOf(r).front
    <3> DEFINE e == IF r.progressive THEN ReviewFlow(r) ELSE ShownFlow(r)
    <3>1. PICK l : Shape(e, l)
      BY FlowOfReview, FlowShown
    <3>2. LineOf(r).front = Position(e, "start") - 1
      BY DEF LineOf
    <3> HIDE DEF e
    <3>3. Position(e, "start") = l + 1 /\ l \in 1 .. 3
      BY <3>1, Positions DEF Shape
    <3> QED
      BY <3>2, <3>3
  <2>4. 1 # 0 /\ (flow')[1] \notin {"inside", "skip"} /\ 1 - 1 = 0
    BY <2>2 DEF FrontScreens
  <2>5. PlaceAt(r, flow', 1, vd') = 1 - 1
    BY <2>3, <2>4 DEF PlaceAt
  <2> QED
    BY <1>1, <2>4, <2>5, PlaceIs
<1>4. LineOf(review)' = LineOf(r) /\ LineOf(r) \in AllLines
  BY <1>1 DEF AllLines
<1>5. Abs!Open(LineOf(r))
  BY <1>1, <1>2, <1>3, <1>4 DEF Abs!Open, Abs!Nowhere
<1> QED
  BY <1>4, <1>5 DEF Abs!AbsNext

(* The buttons move along the line.                                        *)
LEMMA ButtonMoves ==
    ASSUME OneFront, SkipsShortItems, WalkInv, LineInv, Right \/ Left
    PROVE  Moved
<1>1. /\ review \in Reviews /\ review' = review /\ skipped' = skipped /\ TypeInv /\ ScreenInv
  BY DEF WalkInv, TypeInv, Right, Left, Unseen
<1> DEFINE len == Len(flow)
<1>2. CASE FlowRight
  <2>1. Screen # "skip" /\ at \in 1 .. len - 1 /\ EnterStep(at + 1)
    BY <1>2 DEF FlowRight
  <2>2. len \in 5 .. 8
    <3>1. at # 0
      <4>1. \A l : 0 \notin 1 .. l
        OBVIOUS
      <4> QED
        BY <2>1, <4>1
    <3> QED
      BY <1>1, <2>1, <3>1, InFlow
  <2> HIDE DEF len
  <2>3. at \in 1 .. len /\ at + 1 \in 1 .. len
    BY <2>1, <2>2
  <2> QED
    BY <1>1, <2>1, <2>3, FlowPlaced DEF len
<1>3. CASE FlowLeft
  <2>1. Screen # "skip" /\ at > 1 /\ EnterStep(at - 1)
    BY <1>3 DEF FlowLeft
  <2>2. at \in 1 .. len /\ len \in 5 .. 8
    BY <1>1, <2>1, InFlow
  <2> HIDE DEF len
  <2>3. at - 1 \in 1 .. len
    BY <2>1, <2>2
  <2> QED
    BY <1>1, <2>1, <2>2, <2>3, FlowPlaced DEF len
<1> DEFINE f == ReviewFlow(review)
<1>4. ASSUME Screen = "skip"
      PROVE  /\ at # 0 /\ flow_inside_loop /\ review.progressive /\ f \in Flows /\ Shown(f)
             /\ \E i : PageAt(vd, i, 0, 1) /\ Seen(Before(i, 0))
  <2>1. at = 1 /\ flow = <<"skip">> /\ flow_inside_loop
    BY <1>1, <1>4, OnSkipScreen
  <2>2. review.progressive
    BY <2>1 DEF LineInv
  <2> QED
    BY <1>1, <1>4, <2>1, <2>2 DEF Shown, Flows, ScreenInv, OnSkip
<1>5. ASSUME Screen = "skip", NEW i, PageAt(vd, i, 0, 1)
      PROVE  Place = Line.front + Count(i, 0)
  <2>1. at # 0 /\ flow[at] \in {"inside", "skip"}
    BY <1>4, <1>5 DEF Screen
  <2>2. PlaceAt(review, flow, at, vd) = Line.front + Count(i, 0)
    BY <1>1, <1>5, <2>1, PlaceInLoop
  <2> QED
    BY <2>2, PlaceIs
<1>6. CASE SkipRight
  <2>1. Screen = "skip" /\ EnterStart(f, NextItem(vd))
    BY <1>6 DEF SkipRight, NextItem
  <2>2. PICK i : PageAt(vd, i, 0, 1) /\ Seen(Before(i, 0))
    BY <1>4, <2>1
  <2> HIDE DEF f
  <2>3. Screen' = "inside" /\ vd' = vd
    BY <1>1, <1>4, <2>1, <2>2, GoesOnReading
  <2>4. Lands(Count(i, 0))
    BY <2>2, <2>3 DEF Lands
  <2>5. Place' = Line.front + Count(i, 0)
    BY <1>1, <2>4, LandsPlace
  <2>6. Place' = Place
    BY <1>5, <2>1, <2>2, <2>5
  <2> QED
    BY <2>6 DEF Moved
<1>7. CASE SkipLeft
  <2>1. Screen = "skip" /\ EnterStart(f, vd)
    BY <1>7 DEF SkipLeft
  <2>2. PICK i : PageAt(vd, i, 0, 1) /\ Seen(Before(i, 0))
    BY <1>4, <2>1
  <2> HIDE DEF f
  <2>3. \/ Lands(Count(i, 0))
        \/ \E n : Lands(n) /\ n + 1 = Count(i, 0)
        \/ flow' = f /\ at' = FrontOf(f) /\ Count(i, 0) = 0
    BY <1>1, <1>4, <2>1, <2>2, GoesBack
  <2> DEFINE a == Place
             b == Place'
             c == Count(i, 0)
             n == Line.front
             back == Line.back
  <2>4. /\ a = n + c /\ c \in Nat /\ c < Total /\ Total \in Nat /\ n \in 1 .. 3 /\ back \in 1 .. 2
        /\ n = FrontOf(f)
        /\ Approve = n + Total /\ LineEnd = Approve + (back - 1)
    <3>1. Place = Line.front + Count(i, 0)
      BY <1>5, <2>1, <2>2
    <3>2. Count(i, 0) \in Nat /\ Count(i, 0) < Total /\ Total \in Nat
      BY <1>1, <2>2, CountNext
    <3>3. Line.front = FrontOf(f) /\ Line.front \in 1 .. 3 /\ Line.back \in 1 .. 2
      BY <1>1, <1>4, <2>1, LineKnown
    <3> QED
      BY <3>1, <3>2, <3>3 DEF Approve, LineEnd
  <2> HIDE DEF a, b, c, n, back
  <2>5. ASSUME NEW x, Lands(x) PROVE b = n + x /\ x \in Nat
    BY <1>1, <2>5, LandsPlace DEF b, n
  <2>6. ASSUME a \in 0 .. LineEnd, b \in 0 .. LineEnd, b = a - 1 PROVE Moved
    BY <2>6 DEF Moved, a, b
  <2>7. CASE Lands(c)
    <3>1. b = a
      BY <2>4, <2>5, <2>7
    <3> QED
      BY <3>1 DEF Moved, a, b
  <2>8. CASE \E x : Lands(x) /\ x + 1 = c
    <3>1. PICK x : Lands(x) /\ x + 1 = c
      BY <2>8
    <3>2. b = n + x /\ x \in Nat
      BY <2>5, <3>1
    <3>3. a \in 0 .. LineEnd /\ b \in 0 .. LineEnd /\ b = a - 1
      BY <2>4, <3>1, <3>2
    <3> QED
      BY <2>6, <3>3
  <2>9. CASE flow' = f /\ at' = FrontOf(f) /\ c = 0
    <3>1. b = n - 1
      <4>1. n \in 1 .. Len(f) /\ n <= n
        <5> DEFINE l == Len(f)
        <5>1. l \in n + 4 .. n + 5
          BY <1>1, <1>4, <2>1, <2>4, FlowKnown
        <5> HIDE DEF l
        <5>2. n \in 1 .. l /\ n <= n
          BY <2>4, <5>1
        <5> QED
          BY <5>2 DEF l
      <4>2. PlaceAt(review, f, n, vd') = n - 1
        BY <1>1, <1>4, <2>1, <2>4, <4>1, PlaceInFlow
      <4> QED
        BY <1>1, <2>4, <2>9, <4>2, PlaceIs DEF b
    <3>2. a \in 0 .. LineEnd /\ b \in 0 .. LineEnd /\ b = a - 1
      BY <2>4, <2>9, <3>1
    <3> QED
      BY <2>6, <3>2
  <2> QED
    BY <2>3, <2>7, <2>8, <2>9 DEF c
<1> QED
  BY <1>2, <1>3, <1>6, <1>7 DEF Right, Left

(* The double press leads to the approval.                                 *)
LEMMA SkipMoves ==
    ASSUME OneFront, WalkInv, LineInv, SkipToApproval
    PROVE  Moved
<1> DEFINE f == ReviewFlow(review)
<1>1. /\ review \in Reviews /\ TypeInv /\ ScreenInv /\ review' = review
      /\ flow' = f /\ at' = Position(f, "approve") /\ f \in Flows
      /\ Screen \in {"skip", "shortcut"}
  BY DEF WalkInv, TypeInv, SkipToApproval, Enter, Flows
<1>2. review.progressive \/ review.shortcut
  BY SkipOffered
<1>3. Shown(f) /\ (Screen = "shortcut" => Shown(flow) /\ flow \in Flows /\ at \in 1 .. Len(flow) /\ flow[at] = "shortcut")
  <2>1. CASE Screen = "skip"
    <3>1. at = 1 /\ flow = <<"skip">>
      BY <1>1, <2>1, OnSkipScreen
    <3> QED
      BY <1>1, <2>1, <3>1 DEF LineInv, Shown
  <2>2. CASE Screen = "shortcut"
    <3>1. at # 0 /\ Screen # "skip"
      BY <2>2 DEF Screen
    <3>2. flow \in Flows /\ at \in 1 .. Len(flow) /\ flow[at] = "shortcut"
      BY <1>1, <2>2, <3>1, InFlow DEF Screen
    <3>3. Shown(flow)
      BY <1>1, <3>1, <3>2, FlowKnown DEF LineInv
    <3>4. flow = f
      BY <1>1, <3>2, <3>3, ShortcutOffered
    <3> QED
      BY <3>2, <3>3, <3>4
  <2> QED
    BY <1>1, <2>1, <2>2
<1> HIDE DEF f
<1>4. /\ Line.skip /\ Line.front = FrontOf(f) /\ Line.front \in 1 .. 3 /\ Total \in Nat
  BY <1>1, <1>2, <1>3, LineKnown, PagesFinite
<1> DEFINE n == Line.front
           a == Place
<1>5. Approve = n + Total /\ n \in 1 .. 3 /\ Total \in Nat
  BY <1>4 DEF Approve
<1>6. Place' = Approve
  <2> DEFINE k == n + 4
             l == Len(f)
  <2>1. at' = k /\ n = FrontOf(f) /\ l \in n + 4 .. n + 5
    BY <1>1, <1>4, FlowKnown
  <2> HIDE DEF n, l
  <2>2. k \in 1 .. l /\ k > n + 3 /\ k - (n + 4) = 0 /\ Approve + 0 = Approve
    BY <1>5, <2>1
  <2> HIDE DEF k
  <2>3. PlaceAt(review, f, k, vd') = Approve + (k - (n + 4))
    BY <1>1, <1>3, <2>1, <2>2, PlaceInFlow DEF l
  <2> QED
    BY <1>1, <2>1, <2>2, <2>3, PlaceIs
<1> HIDE DEF n, a
<1>7. a \in 0 .. Approve
  <2>1. CASE Screen = "skip"
    <3>1. PICK i : PageAt(vd, i, 0, 1)
      BY <1>1, <2>1 DEF ScreenInv, OnSkip
    <3>2. at # 0 /\ flow[at] \in {"inside", "skip"}
      BY <2>1 DEF Screen
    <3> DEFINE c == Count(i, 0)
    <3>3. PlaceAt(review, flow, at, vd) = Line.front + Count(i, 0)
      BY <1>1, <3>1, <3>2, PlaceInLoop
    <3>4. a = n + c
      BY <3>3, PlaceIs DEF a, n
    <3>5. c \in Nat /\ c < Total
      BY <1>1, <3>1, CountNext
    <3> HIDE DEF c
    <3> QED
      BY <1>5, <3>4, <3>5
  <2>2. CASE Screen = "shortcut"
    <3>1. at <= FrontOf(flow) /\ FrontOf(flow) = n
      <4>1. flow[at] \in FrontScreens
        BY <1>3, <2>2 DEF FrontScreens
      <4> QED
        BY <1>1, <1>3, <2>2, <4>1, StepKnown, LineKnown DEF n
    <3>2. PlaceAt(review, flow, at, vd) = at - 1
      BY <1>1, <1>3, <2>2, <3>1, PlaceInFlow
    <3>3. a = at - 1
      BY <3>2, PlaceIs DEF a
    <3>4. at <= n /\ at \in Int /\ 1 <= at
      <4>1. \A l : at \in 1 .. l => at \in Int /\ 1 <= at
        OBVIOUS
      <4> QED
        BY <1>3, <2>2, <3>1, <4>1
    <3> QED
      BY <1>5, <3>3, <3>4
  <2> QED
    BY <1>1, <2>1, <2>2
<1>8. Approve \in 0 .. Approve
  BY <1>5
<1> QED
  BY <1>4, <1>6, <1>7, <1>8 DEF Moved, a

(* Off the review there is no place. *)
LEMMA OffTheLine ==
    ASSUME Idle
    PROVE  Place' = -1
<1>1. at' = 0
  BY DEF Idle
<1> QED
  BY <1>1, PlaceIs DEF PlaceAt

(* An answer closes the review at its end, with what that screen says.     *)
LEMMA AnswerCloses ==
    ASSUME OneFront, WalkInv, LineInv, Answer
    PROVE  Abs!AbsNext
<1>1. /\ review \in Reviews /\ TypeInv /\ review' = review /\ Place' = -1
      /\ Screen \in {"approve", "reject"}
      /\ answer' = IF Screen = "approve" THEN "approved" ELSE "rejected"
  BY OffTheLine DEF WalkInv, TypeInv, Answer
<1>2. at # 0 /\ Screen # "skip" /\ Screen \in BackScreens
  BY <1>1 DEF Screen, BackScreens
<1>3. flow \in Flows /\ at \in 1 .. Len(flow) /\ Screen = flow[at]
  BY <1>1, <1>2, InFlow DEF Screen
<1>4. Shown(flow)
  BY <1>1, <1>2, <1>3, FlowKnown DEF LineInv
<1> DEFINE n == FrontOf(flow)
           a == Place
<1>5. /\ at > n + 3 /\ (at = n + 4 <=> Screen = "approve")
      /\ n \in 1 .. 3 /\ Line.front = n /\ Line.items = Total /\ Total \in Nat
  BY <1>1, <1>2, <1>3, <1>4, StepKnown, FlowKnown, LineKnown, PagesFinite
<1>6. a = Approve + (at - (n + 4))
  <2>1. PlaceAt(review, flow, at, vd) = Approve + (at - (n + 4))
    BY <1>1, <1>3, <1>4, <1>5, PlaceInFlow
  <2> QED
    BY <2>1, PlaceIs
<1>7. Approve = n + Total /\ Approve = LineOf(review).front + LineOf(review).items
  BY <1>5 DEF Approve, Line
<1>8. at \in Int
  <2>1. \A l : at \in 1 .. l => at \in Int
    OBVIOUS
  <2> QED
    BY <1>3, <2>1
<1> HIDE DEF n, a
<1>9. a >= Approve /\ (a = Approve <=> at = n + 4)
  BY <1>5, <1>6, <1>7, <1>8
<1>10. answer' = IF a = Approve THEN "approved" ELSE "rejected"
  BY <1>1, <1>5, <1>9
<1>11. LineOf(review)' = LineOf(review)
  BY <1>1
<1>12. Abs!Close
  BY <1>1, <1>7, <1>9, <1>10, <1>11 DEF Abs!Close, Abs!ApprovePlace, Abs!Nowhere, a
<1> QED
  BY <1>12 DEF Abs!AbsNext

-----------------------------------------------------------------------------
(* The first state is one of the line.                                     *)
LEMMA StartsNowhere == Init => Abs!AbsInit
<1> SUFFICES ASSUME Init PROVE Abs!AbsInit
  OBVIOUS
<1>1. Place = -1
  <2>1. at = 0
    BY DEF Init
  <2> QED
    BY <2>1, PlaceIs DEF PlaceAt
<1>2. LineOf(review) \in AllLines /\ answer = "none"
  BY DEF Init, AllLines
<1> QED
  BY <1>1, <1>2 DEF Abs!AbsInit, Abs!Nowhere

(* A step of the review is a step of the line, or none.                    *)
LEMMA StepOfTheLine ==
    OneFront /\ SkipsShortItems /\ WalkInv /\ LineInv /\ [Next]_vars
        => [Abs!AbsNext]_(Abs!absVars)
<1> SUFFICES ASSUME OneFront, SkipsShortItems, WalkInv, LineInv, [Next]_vars
             PROVE  [Abs!AbsNext]_(Abs!absVars)
  OBVIOUS
<1>0. review \in Reviews
  BY DEF WalkInv, TypeInv
<1>1. ASSUME NEW r \in Reviews, Show(r) PROVE Abs!AbsNext
  BY <1>1, ShowOpens
<1>2. CASE Right \/ Left
  <2>1. Moved
    BY <1>2, ButtonMoves
  <2>2. review' = review /\ answer' = answer
    BY <1>2 DEF Right, Left, Unseen
  <2> QED
    BY <1>0, <2>1, <2>2, MovedIsStep
<1>3. CASE SkipToApproval
  <2>1. Moved
    BY <1>3, SkipMoves
  <2>2. review' = review /\ answer' = answer
    BY <1>3 DEF SkipToApproval
  <2> QED
    BY <1>0, <2>1, <2>2, MovedIsStep
<1>4. CASE Answer
  BY <1>4, AnswerCloses
<1>5. CASE IoReset
  <2>1. Place' = -1
    BY <1>5, OffTheLine DEF IoReset
  <2>2. LineOf(review)' = LineOf(review) /\ answer' = answer
    BY <1>5 DEF IoReset
  <2>3. Abs!Abandon
    BY <2>1, <2>2 DEF Abs!Abandon, Abs!Nowhere
  <2> QED
    BY <2>3 DEF Abs!AbsNext
<1>6. CASE UNCHANGED vars
  <2>1. Place' = Place
    BY <1>6, PlaceIs DEF vars
  <2>2. LineOf(review)' = LineOf(review) /\ answer' = answer
    BY <1>6 DEF vars
  <2> QED
    BY <2>1, <2>2 DEF Abs!absVars
<1> QED
  BY <1>1, <1>2, <1>3, <1>4, <1>5, <1>6 DEF Next

(* ImplementsLine: the five screens that stand for all pages, and the skip *)
(* screen, are the line of ReviewSpec: each press moves by one screen at   *)
(* most, and only a double press on a screen that offers it moves further. *)
THEOREM LineImplemented ==
    ASSUME SkipsShortItems, OneFront PROVE Spec => ImplementsLine
<1>1. WalkInv /\ [Next]_vars => WalkInv'
  BY WalkInvKept
<1>2. WalkInv /\ LineInv /\ [Next]_vars => LineInv'
  BY LineInvKept
<1>3. WalkInv /\ LineInv /\ [Next]_vars => [Abs!AbsNext]_(Abs!absVars)
  BY StepOfTheLine
<1> QED
  BY <1>1, <1>2, <1>3, WalkInvInit, LineInvInit, StartsNowhere, PTL
     DEF Spec, ImplementsLine, Abs!AbsSpec


=============================================================================
