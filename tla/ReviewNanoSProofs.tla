------------------------ MODULE ReviewNanoSProofs -------------------------
(***************************************************************************)
(* What holds of the Nano S review (ReviewNanoS) in every build and for    *)
(* every review the application may ask for: no decision without reading,  *)
(* a stale skip flag that does nothing, and the line of screens.           *)
(*                                                                         *)
(* One invariant carries all of it.  The screen on the display has a place *)
(* in the line: it is an introduction text, a page, or one of the two      *)
(* decisions, and unless the user skipped, the histories hold everything   *)
(* before it (OnLine).  What h_review_update_data makes of a cursor comes  *)
(* first, then where the buttons lead from each kind of screen; the        *)
(* theorems follow from the places alone.                                  *)
(***************************************************************************)
EXTENDS ReviewNanoS, NanoPagingProofs

(* The introduction pages of review r in build b, its items, and what the  *)
(* cursor takes for their number once it is known.                         *)
Intro(b, r) ==
    IF "SHORTCUT" \in b /\ (r.kind = "ADDRESS" \/ ~r.shortcut)
      THEN Max({INTRO_PAGES(b) - 1, 0})
    ELSE IF "BLINDSIGN" \in b /\ (~r.blind \/ r.kind = "ADDRESS") THEN 0
    ELSE IF r.kind = "MSG" THEN 1
    ELSE INTRO_PAGES(b)

Items(r) == ItemsOf(r.pages)

Known(b, r) == Items(r) + Intro(b, r) + 1

(* The decisions come behind the items; the cursor may still take the      *)
(* number of items for 255 when the skip menu leads to them.               *)
Counts(b, r) == {255, Known(b, r)}

OnIntro(b, r, d, k, n) ==
    k \in 0 .. Intro(b, r) - 1 /\ n \in Counts(b, r) /\ d = CursorAt(k, 0, 1, n)

OnPage(b, r, d, i, p, m) ==
    IsPage(r.pages, i, p, m) /\ d = CursorAt(i + Intro(b, r), p, m, Known(b, r))

OnDecision(b, r, d, e, n) ==
    e \in {0, 1} /\ n \in Counts(b, r) /\ d = CursorAt((n - 1) + e, 0, 1, n)

(* The number of introduction pages.                                       *)
LEMMA IntroPages ==
    ASSUME NEW b \in Builds PROVE INTRO_PAGES(b) \in 0 .. 3
<1> DEFINE S == {"REVIEW_SCREEN", "SHORTCUT"}
           T == b \cap S
<1>1. IsFiniteSet(S) /\ Cardinality(S) <= 2
  <2>1. IsFiniteSet({"REVIEW_SCREEN"}) /\ Cardinality({"REVIEW_SCREEN"}) = 1
    BY FS_Singleton
  <2>2. S = {"REVIEW_SCREEN"} \cup {"SHORTCUT"} /\ "SHORTCUT" \notin {"REVIEW_SCREEN"}
    OBVIOUS
  <2>3. IsFiniteSet(S) /\ Cardinality(S) = Cardinality({"REVIEW_SCREEN"}) + 1
    BY <2>1, <2>2, FS_AddElement
  <2> QED
    BY <2>1, <2>3
<1>2. Cardinality(T) \in Nat /\ Cardinality(T) <= Cardinality(S) /\ Cardinality(S) \in Nat
  BY <1>1, FS_Subset, FS_CardinalityType
<1> DEFINE t == Cardinality(T)
           c == Cardinality(S)
<1>3. INTRO_PAGES(b) = IF "BLINDSIGN" \in b THEN 3 ELSE t
  BY DEF INTRO_PAGES
<1>4. t \in 0 .. 3
  <2>1. t \in Nat /\ t <= c /\ c <= 2 /\ c \in Nat
    BY <1>1, <1>2
  <2> HIDE DEF t, c
  <2> QED
    BY <2>1
<1> HIDE DEF t
<1> QED
  BY <1>3, <1>4

(* A review in a build, by its numbers.                                    *)
LEMMA ReviewTyped ==
    ASSUME NEW b \in Builds, NEW r \in Reviews
    PROVE  /\ Intro(b, r) \in 0 .. 3 /\ Intro(b, r) \in Int
           /\ IsItems(r.pages) /\ Items(r) \in 1 .. 128 /\ Items(r) \in Int
           /\ Items(r) = ItemsOf(r.pages) /\ Items(r) = Len(r.pages)
           /\ Known(b, r) \in Int /\ Known(b, r) > 0 /\ Known(b, r) < 133
           /\ ExtraScreens = 1
<1>1. Intro(b, r) \in 0 .. 3
  <2> DEFINE i == INTRO_PAGES(b)
             x == i - 1
  <2>1. i \in 0 .. 3
    BY IntroPages
  <2> HIDE DEF i
  <2>2. Max({x, 0}) \in 0 .. 3
    <3>1. x \in -1 .. 2
      BY <2>1
    <3> HIDE DEF x
    <3>2. \E y \in {x, 0} : \A z \in {x, 0} : y >= z
      BY <3>1
    <3>3. Max({x, 0}) \in {x, 0} /\ Max({x, 0}) >= 0
      BY <3>2 DEF Max
    <3> QED
      BY <3>1, <3>3
  <2> QED
    BY <2>1, <2>2 DEF Intro, i
<1>2. IsItems(r.pages)
  <2>1. r.pages \in Seq(0 .. 254) /\ Len(r.pages) \in 1 .. 128 /\ Last(r.pages) > 0
    BY NanoSAssumption DEF Review
  <2> QED
    BY <2>1 DEF IsItems, Last
<1>3. Items(r) \in 1 .. 128 /\ Items(r) = ItemsOf(r.pages) /\ Items(r) = Len(r.pages)
  BY <1>2, ItemsOfTyped DEF Items
<1>4. Known(b, r) \in Int /\ Known(b, r) > 0 /\ Known(b, r) < 133
  <2> DEFINE n == Items(r)
             i == Intro(b, r)
             k == n + i + 1
  <2>1. n \in 1 .. 128 /\ i \in 0 .. 3
    BY <1>1, <1>3
  <2> HIDE DEF n, i
  <2>2. k \in Int /\ k > 0 /\ k < 133
    BY <2>1
  <2> QED
    BY <2>2 DEF n, i, Known
<1> QED
  BY <1>1, <1>2, <1>3, <1>4, NanoSAssumption

(* The model's own names for them.                                         *)
LEMMA IntroIs ==
    ASSUME NEW r PROVE getIntroPages(build, r) = Intro(build, r)
  BY DEF getIntroPages, Intro

-----------------------------------------------------------------------------
(* What the display comes to: an introduction text, or the error it ends   *)
(* in,                                                                     *)
LEMMA DisplaysIntro ==
    ASSUME build \in Builds, NEW r \in Reviews, NEW k \in 0 .. Intro(build, r) - 1,
           NEW p, NEW c, NEW n \in Counts(build, r), NEW s, NEW t,
           Display(r, CursorAt(k, p, c, n), s, t)
    PROVE  \/ screen' = "error"
           \/ /\ screen' = "review" /\ vd' = CursorAt(k, 0, 1, n)
              /\ shown' = s /\ intros' = t \cup {IntroText(build, r, k)}
              /\ IntroText(build, r, k) # "error"
<1> DEFINE i == Intro(build, r)
           d == CursorAt(k, p, c, n)
           e == CursorAt(k, 0, 1, n)
           u == Update(r, d)
<1>1. k # n - 1 /\ k # n /\ k < i
  <2> DEFINE x == Items(r)
             y == x + i + 1
  <2>1. i \in 0 .. 3 /\ x \in 1 .. 128
    BY ReviewTyped
  <2>2. n \in {255, y} /\ k \in 0 .. i - 1
    BY DEF Counts, Known
  <2> HIDE DEF i, x
  <2> QED
    BY <2>1, <2>2
<1>2. /\ ~is_accept_item(d) /\ ~is_reject_item(d) /\ d.itemIdx = k
      /\ ~is_accept_item(e) /\ ~is_reject_item(e) /\ e.itemIdx = k
  BY <1>1, CursorFields DEF is_accept_item, is_reject_item
<1>3. [[d EXCEPT !.pageCount = 1] EXCEPT !.pageIdx = 0] = e
  <2>1. [d EXCEPT !.pageCount = 1] = CursorAt(k, p, 1, n)
    BY DEF CursorAt
  <2>2. [CursorAt(k, p, 1, n) EXCEPT !.pageIdx = 0] = CursorAt(k, 0, 1, n)
    BY DEF CursorAt
  <2> QED
    BY <2>1, <2>2
<1>4. getIntroPages(build, r) = i
  BY IntroIs
<1> HIDE DEF d, i
<1>5. u = IF IntroText(build, r, k) = "error"
            THEN [err |-> "unknown", vd |-> [d EXCEPT !.pageCount = 1]]
            ELSE [err |-> "ok", vd |-> e]
  <2> HIDE DEF e
  <2> QED
    BY <1>1, <1>2, <1>3, <1>4 DEF Update
<1>6. Class(r, e) = "intro"
  BY <1>1, <1>2, <1>4 DEF Class
<1>7. /\ vd' = u.vd
      /\ screen' = IF u.err = "ok" /\ Class(r, u.vd) # "error" THEN "review" ELSE "error"
      /\ shown' = IF u.err = "ok" /\ Class(r, u.vd) = "page" THEN s \cup {PageAt(r, u.vd)} ELSE s
      /\ intros' = IF u.err = "ok" /\ Class(r, u.vd) = "intro"
                     THEN t \cup {IntroText(build, r, u.vd.itemIdx)} ELSE t
  BY DEF Display, d
<1> HIDE DEF u, e
<1>8. CASE IntroText(build, r, k) = "error"
  <2>1. u.err = "unknown"
    BY <1>5, <1>8
  <2> QED
    BY <1>7, <2>1
<1>9. CASE IntroText(build, r, k) # "error"
  <2>1. u.err = "ok" /\ u.vd = e
    BY <1>5, <1>9
  <2> QED
    BY <1>2, <1>6, <1>7, <1>9, <2>1 DEF e
<1> QED
  BY <1>8, <1>9

(* an approval or a rejection,                                             *)
LEMMA DisplaysDecision ==
    ASSUME build \in Builds, NEW r \in Reviews, NEW e \in {0, 1}, NEW p, NEW c,
           NEW n \in Int, NEW s, NEW t,
           Display(r, CursorAt((n - 1) + e, p, c, n), s, t)
    PROVE  /\ screen' = "review" /\ vd' = CursorAt((n - 1) + e, 0, 1, n)
           /\ shown' = s /\ intros' = t
<1> DEFINE x == (n - 1) + e
           d == CursorAt(x, p, c, n)
           f == CursorAt(x, 0, 1, n)
           u == Update(r, d)
<1>1. x = n - 1 \/ x = n
  OBVIOUS
<1> HIDE DEF x
<1>2. /\ is_accept_item(d) \/ is_reject_item(d)
      /\ is_accept_item(f) \/ is_reject_item(f)
  BY <1>1, CursorFields DEF is_accept_item, is_reject_item
<1>3. [[d EXCEPT !.pageCount = 1] EXCEPT !.pageIdx = 0] = f
  <2>1. [d EXCEPT !.pageCount = 1] = CursorAt(x, p, 1, n)
    BY DEF CursorAt
  <2>2. [CursorAt(x, p, 1, n) EXCEPT !.pageIdx = 0] = CursorAt(x, 0, 1, n)
    BY DEF CursorAt
  <2> QED
    BY <2>1, <2>2
<1>d. Display(r, d, s, t)
  BY DEF x
<1> HIDE DEF d, f
<1>4. u = [err |-> "ok", vd |-> f]
  BY <1>2, <1>3 DEF Update
<1>5. Class(r, f) = "decision"
  BY <1>2 DEF Class
<1> QED
  BY <1>d, <1>4, <1>5 DEF Display, f, x

(* The page that the display comes to, by Comes of NanoPagingProofs.       *)
ShowsPage(r, s, t, i, p, j, q, m) ==
    /\ Comes(r.pages, i, p, j, q, m)
    /\ OnPage(build, r, vd', j, q, m)
    /\ screen' = "review" /\ shown' = s \cup {<<j, q>>} /\ intros' = t

(* a page of an item, the one asked for or the next that exists,         *)
LEMMA DisplaysPage ==
    ASSUME build \in Builds, NEW r \in Reviews, NEW i \in 0 .. Items(r) - 1, NEW p \in 0 .. 255,
           NEW c, NEW n \in Counts(build, r), NEW s, NEW t,
           p = r.pages[i + 1] => p = 0,
           Display(r, CursorAt(i + Intro(build, r), p, c, n), s, t)
    PROVE  \E j, q, m : ShowsPage(r, s, t, i, p, j, q, m)
<1> DEFINE front == Intro(build, r)
           l == Items(r)
           x == i + front
           d == CursorAt(x, p, c, n)
           u == Update(r, d)
           kn == Known(build, r)
<1>0. front \in 0 .. 3 /\ front \in Int /\ l \in 1 .. 128 /\ l \in Int
  BY ReviewTyped
<1>l. IsItems(r.pages) /\ l = ItemsOf(r.pages) /\ l = Len(r.pages)
  BY ReviewTyped
<1>1. x # n - 1 /\ x # n /\ ~(x < front) /\ x - front = i /\ ~(i > l)
  <2> DEFINE y == l + front + 1
  <2>1. n \in {255, y} /\ i \in 0 .. l - 1
    BY DEF Counts, Known
  <2> HIDE DEF front, l
  <2> QED
    BY <1>0, <2>1
<1>i. i \in 0 .. l - 1 /\ x = i + front
  OBVIOUS
<1>d. Display(r, d, s, t) /\ kn = l + front + 1
  BY DEF Known
<1> HIDE DEF l, front, x
<1>2. ~is_accept_item(d) /\ ~is_reject_item(d) /\ d.itemIdx = x
  BY <1>1, CursorFields DEF is_accept_item, is_reject_item
<1>3. [d EXCEPT !.pageCount = 1] = CursorAt(x, p, 1, n)
  BY DEF CursorAt
<1>4. getIntroPages(build, r) = front
  BY IntroIs DEF front
<1> HIDE DEF d
<1>5. u = UpdateItem(CursorAt(x, p, 1, n), r.pages, front)
  BY <1>l, <1>1, <1>2, <1>3, <1>4 DEF Update
<1> HIDE DEF u
<1>6. PICK j, q, m : Updated(r.pages, front, i, p, u, j, q, m)
  <2>1. i \in 0 .. ItemsOf(r.pages) - 1
    BY <1>l, <1>i
  <2>2. \E j, q, m : Updated(r.pages, front, i, p, UpdateItem(CursorAt(i + front, p, 1, n), r.pages, front), j, q, m)
    BY <1>0, <1>l, <2>1, UpdateComes
  <2> QED
    BY <1>5, <1>i, <2>2
<1> DEFINE y == j + front
           f == CursorAt(y, q, m, kn)
<1>7. Comes(r.pages, i, p, j, q, m) /\ u = [err |-> "ok", vd |-> f] /\ IsPage(r.pages, j, q, m)
  BY <1>l, <1>6, <1>d DEF Updated, Comes
<1>8. y # kn - 1 /\ y # kn /\ ~(y < front) /\ y - front = j
  <2>1. j \in 0 .. l - 1
    BY <1>l, <1>7 DEF IsPage
  <2> HIDE DEF kn
  <2> QED
    BY <1>0, <1>d, <2>1
<1> HIDE DEF kn, y
<1>9. /\ ~is_accept_item(f) /\ ~is_reject_item(f) /\ f.itemIdx = y /\ f.pageIdx = q
  BY <1>8, CursorFields DEF is_accept_item, is_reject_item
<1> HIDE DEF f
<1>10. Class(r, f) = "page" /\ PageAt(r, f) = <<j, q>>
  BY <1>4, <1>8, <1>9 DEF Class, PageAt
<1>11. screen' = "review" /\ vd' = f /\ shown' = s \cup {<<j, q>>} /\ intros' = t
  BY <1>7, <1>10, <1>d DEF Display, u
<1>12. OnPage(build, r, vd', j, q, m)
  BY <1>7, <1>11 DEF OnPage, f, y, front, kn
<1> QED
  BY <1>7, <1>11, <1>12 DEF ShowsPage

(* or, one before the approval of a review whose items were not counted    *)
(* yet, an error.                                                          *)
LEMMA DisplaysError ==
    ASSUME build \in Builds, NEW r \in Reviews, NEW p, NEW c, NEW s, NEW t,
           Display(r, CursorAt(253, p, c, 255), s, t)
    PROVE  screen' = "error"
<1> DEFINE front == Intro(build, r)
           l == Items(r)
           d == CursorAt(253, p, c, 255)
           u == Update(r, d)
<1>1. front \in 0 .. 3 /\ l \in 1 .. 128
  BY ReviewTyped
<1>l. l = Len(r.pages)
  BY ReviewTyped
<1>2. ~is_accept_item(d) /\ ~is_reject_item(d) /\ d.itemIdx = 253
  BY CursorFields DEF is_accept_item, is_reject_item
<1>3. getIntroPages(build, r) = front
  BY IntroIs
<1> HIDE DEF front, l, d
<1>4. ~(253 < front) /\ 253 - front > l
  BY <1>1
<1>5. u.err = "no_data"
  BY <1>l, <1>2, <1>3, <1>4 DEF Update
<1> QED
  BY <1>5 DEF Display, d

-----------------------------------------------------------------------------
(* The cursor is at place x of the line, and (sk: unless the user skipped) *)
(* s and t hold the pages and the texts up to there.                       *)
Read(b, r, k, t) ==
    \A x \in 0 .. k - 1 : IntroText(b, r, x) \in t /\ IntroText(b, r, x) # "error"

Told(b, r, s, t) == PagesOf(r.pages) \subseteq s /\ Read(b, r, Intro(b, r), t)

Approve(b, r) == Intro(b, r) + CountOf(r.pages)

AtIntro(b, r, d, t, sk, x, n) ==
    /\ OnIntro(b, r, d, x, n)
    /\ sk \/ Read(b, r, x + 1, t)

AtPage(b, r, d, s, t, sk, x, i, p, m) ==
    /\ OnPage(b, r, d, i, p, m)
    /\ x = Intro(b, r) + CountUpTo(r.pages, i, p)
    /\ sk \/ (PagesUpTo(r.pages, i, p + 1) \subseteq s /\ Read(b, r, Intro(b, r), t))

AtDecision(b, r, d, s, t, sk, x, e, n) ==
    /\ OnDecision(b, r, d, e, n)
    /\ x = Approve(b, r) + e
    /\ n = 255 => sk
    /\ sk \/ Told(b, r, s, t)

OnLine(b, r, d, s, t, sk, x) ==
    \/ \E n : AtIntro(b, r, d, t, sk, x, n)
    \/ \E i, p, m : AtPage(b, r, d, s, t, sk, x, i, p, m)
    \/ \E e, n : AtDecision(b, r, d, s, t, sk, x, e, n)

(* The places are those of the line: the introduction, the pages, then the *)
(* approval and the rejection.                                             *)
LEMMA LineTyped ==
    ASSUME NEW b \in Builds, NEW r \in Reviews, NEW d, NEW s, NEW t, NEW sk, NEW x,
           OnLine(b, r, d, s, t, sk, x)
    PROVE  x \in Int /\ x \in 0 .. Approve(b, r) + 1
<1> DEFINE o == Intro(b, r)
           tot == CountOf(r.pages)
           z == Approve(b, r)
<1>1. IsItems(r.pages) /\ o \in 0 .. 3
  BY ReviewTyped
<1>2. tot \in Nat /\ z = o + tot
  BY <1>1, UpToFinite DEF Approve
<1> HIDE DEF o, tot, z
<1>3. ASSUME NEW n, AtIntro(b, r, d, t, sk, x, n) PROVE x \in 0 .. z + 1
  <2>1. x \in 0 .. o - 1
    BY <1>3 DEF AtIntro, OnIntro, o
  <2> QED
    BY <1>1, <1>2, <2>1
<1>4. ASSUME NEW i, NEW p, NEW m, AtPage(b, r, d, s, t, sk, x, i, p, m) PROVE x \in 0 .. z + 1
  <2> DEFINE c == CountUpTo(r.pages, i, p)
  <2>1. x = o + c /\ IsPage(r.pages, i, p, m)
    BY <1>4 DEF AtPage, OnPage, o
  <2>2. c \in Nat /\ c < tot
    BY <1>1, <2>1, UpToCount DEF OneMorePage, tot
  <2> HIDE DEF c
  <2> QED
    BY <1>1, <1>2, <2>1, <2>2
<1>5. ASSUME NEW e, NEW n, AtDecision(b, r, d, s, t, sk, x, e, n) PROVE x \in 0 .. z + 1
  <2>1. e \in {0, 1} /\ x = z + e
    BY <1>5 DEF AtDecision, OnDecision, z
  <2> QED
    BY <1>1, <1>2, <2>1
<1>6. x \in 0 .. z + 1
  BY <1>3, <1>4, <1>5 DEF OnLine
<1>7. x \in Int
  BY <1>1, <1>2, <1>6
<1> QED
  BY <1>6, <1>7 DEF z

(* The display comes to place x.                                           *)
Lands(r, sk, x) == screen' = "review" /\ OnLine(build, r, vd', shown', intros', sk, x)

(* Asked for an introduction page, the display stands at it.             *)
LEMMA LandsOnIntro ==
    ASSUME build \in Builds, NEW r \in Reviews, NEW k \in 0 .. Intro(build, r) - 1,
           NEW p, NEW c, NEW n \in Counts(build, r), NEW s, NEW t, NEW sk,
           Display(r, CursorAt(k, p, c, n), s, t), sk \/ Read(build, r, k, t)
    PROVE  screen' = "error" \/ Lands(r, sk, k)
<1> SUFFICES ASSUME screen' # "error" PROVE Lands(r, sk, k)
  OBVIOUS
<1>1. /\ screen' = "review" /\ vd' = CursorAt(k, 0, 1, n)
      /\ intros' = t \cup {IntroText(build, r, k)} /\ IntroText(build, r, k) # "error"
  BY DisplaysIntro
<1>2. OnIntro(build, r, vd', k, n)
  BY <1>1 DEF OnIntro
<1>3. sk \/ Read(build, r, k + 1, intros')
  <2>1. ASSUME Read(build, r, k, t), NEW x \in 0 .. (k + 1) - 1
        PROVE  IntroText(build, r, x) \in intros' /\ IntroText(build, r, x) # "error"
    <3> DEFINE o == Intro(build, r)
    <3>1. o \in 0 .. 3 /\ k \in 0 .. o - 1
      BY ReviewTyped
    <3> HIDE DEF o
    <3>2. x = k \/ x \in 0 .. k - 1
      BY <3>1
    <3> QED
      BY <1>1, <2>1, <3>2 DEF Read
  <2> QED
    BY <2>1 DEF Read
<1>4. AtIntro(build, r, vd', intros', sk, k, n)
  BY <1>2, <1>3 DEF AtIntro
<1> QED
  BY <1>1, <1>4 DEF Lands, OnLine

(* Asked for a decision, it stands at that.                              *)
LEMMA LandsOnDecision ==
    ASSUME build \in Builds, NEW r \in Reviews, NEW e \in {0, 1}, NEW p, NEW c,
           NEW n \in Counts(build, r), NEW s, NEW t, NEW sk,
           Display(r, CursorAt((n - 1) + e, p, c, n), s, t),
           n = 255 => sk, sk \/ Told(build, r, s, t)
    PROVE  Lands(r, sk, Approve(build, r) + e)
<1>0. n \in Int
  BY ReviewTyped DEF Counts
<1>1. /\ screen' = "review" /\ vd' = CursorAt((n - 1) + e, 0, 1, n)
      /\ shown' = s /\ intros' = t
  BY <1>0, DisplaysDecision
<1>2. OnDecision(build, r, vd', e, n)
  BY <1>1 DEF OnDecision
<1>3. AtDecision(build, r, vd', shown', intros', sk, Approve(build, r) + e, e, n)
  BY <1>1, <1>2 DEF AtDecision
<1> QED
  BY <1>1, <1>3 DEF Lands, OnLine

(* Asked for page p of item i: the page that has the pages up to there     *)
(* before it, or, where p is behind the last page, the last of these.      *)
LandsAt(r, sk, y, back) ==
    \E x : Lands(r, sk, x) /\ (x = y \/ (back /\ x + 1 = y))

(* A page asked for, in the line.                                        *)
LEMMA LandsOnPage ==
    ASSUME build \in Builds, NEW r \in Reviews, NEW i \in 0 .. Items(r) - 1, NEW p \in 0 .. 255,
           NEW c, NEW n \in Counts(build, r), NEW s, NEW t, NEW sk,
           p = r.pages[i + 1] => p = 0,
           Display(r, CursorAt(i + Intro(build, r), p, c, n), s, t),
           sk \/ (PagesUpTo(r.pages, i, p) \subseteq s /\ Read(build, r, Intro(build, r), t))
    PROVE  LandsAt(r, sk, Intro(build, r) + CountUpTo(r.pages, i, p), p > 0 /\ p >= r.pages[i + 1])
<1> DEFINE o == Intro(build, r)
           ps == r.pages
<1>1. PICK j, q, m : ShowsPage(r, s, t, i, p, j, q, m)
  BY DisplaysPage
<1>2. /\ Comes(ps, i, p, j, q, m) /\ OnPage(build, r, vd', j, q, m)
      /\ screen' = "review" /\ shown' = s \cup {<<j, q>>} /\ intros' = t
      /\ IsPage(ps, j, q, m) /\ m = ps[j + 1]
  BY <1>1 DEF ShowsPage, Comes, IsPage
<1>3. IsItems(ps) /\ o \in 0 .. 3 /\ i \in 0 .. ItemsOf(ps) - 1
  BY ReviewTyped
<1>t. sk \/ (PagesUpTo(ps, i, p) \subseteq s /\ Read(build, r, o, t))
  OBVIOUS
<1> DEFINE a == CountUpTo(ps, j, q)
           x == o + a
           y == o + CountUpTo(ps, i, p)
<1>4. /\ PagesUpTo(ps, j, q + 1) = PagesUpTo(ps, j, q) \cup {<<j, q>>}
      /\ CountUpTo(ps, j, q + 1) = a + 1 /\ a \in Nat
  <2>1. IsPage(ps, j, q, m) /\ IsItems(ps)
    BY <1>2, <1>3, Zenon
  <2>2. OneMorePage(ps, j, q)
    BY <2>1, UpToCount, Zenon
  <2> QED BY <2>2 DEF OneMorePage
<1>5. \/ PagesUpTo(ps, j, q) = PagesUpTo(ps, i, p)
      \/ j = i /\ p >= m /\ PagesUpTo(ps, j, q + 1) = PagesUpTo(ps, i, p)
  <2>1. IsItems(ps) /\ i \in 0 .. ItemsOf(ps) - 1 /\ Comes(ps, i, p, j, q, m)
    BY <1>2, <1>3, Zenon
  <2>2. p \in 0 .. 255
    OBVIOUS
  <2> HIDE DEF ps
  <2> QED BY <2>1, <2>2, ComesTo, SMTT(30)
<1>6. PagesUpTo(ps, j, q) \subseteq PagesUpTo(ps, i, p)
  BY <1>4, <1>5
<1>7. x = y \/ (p > 0 /\ p >= ps[i + 1] /\ x + 1 = y)
  <2>1. CASE PagesUpTo(ps, j, q) = PagesUpTo(ps, i, p)
    BY <2>1 DEF CountUpTo
  <2>2. CASE j = i /\ p >= m /\ PagesUpTo(ps, j, q + 1) = PagesUpTo(ps, i, p)
    <3>1. CountUpTo(ps, i, p) = a + 1
      BY <1>4, <2>2 DEF CountUpTo
    <3>2. m = ps[i + 1] /\ p > 0
      <4>1. m \in 1 .. 254
        BY <1>2 DEF IsPage
      <4> QED
        BY <1>2, <2>2, <4>1
    <3> HIDE DEF a, o
    <3>3. x + 1 = y
      BY <1>3, <1>4, <3>1
    <3> QED
      BY <2>2, <3>2, <3>3
  <2> QED
    BY <1>5, <2>1, <2>2
<1>8. sk \/ (PagesUpTo(ps, j, q + 1) \subseteq shown' /\ Read(build, r, o, intros'))
  BY <1>t, <1>2, <1>4, <1>6
<1>9. AtPage(build, r, vd', shown', intros', sk, x, j, q, m)
  BY <1>2, <1>8 DEF AtPage
<1> HIDE DEF x
<1>10. Lands(r, sk, x)
  BY <1>2, <1>9 DEF Lands, OnLine
<1> HIDE DEF y, ps
<1>11. LandsAt(r, sk, y, p > 0 /\ p >= ps[i + 1])
  BY <1>7, <1>10 DEF LandsAt
<1> QED
  BY <1>11 DEF y, ps

-----------------------------------------------------------------------------
(* From place x, one button comes to x or the place beside it, if not to   *)
(* an error.                                                               *)
Goes(r, sk, x, y) == screen' = "error" \/ Lands(r, sk, x) \/ Lands(r, sk, y)

(* Right from an introduction page.                                        *)
LEMMA IntroAdvances ==
    ASSUME build \in Builds, NEW r \in Reviews, NEW d, NEW s, NEW t, NEW sk, NEW k, NEW n,
           AtIntro(build, r, d, t, sk, k, n), Display(r, h_paging_increase(d), s, t)
    PROVE  Goes(r, sk, k, k + 1)
<1> DEFINE o == Intro(build, r)
           l == Items(r)
           x == k + 1
           kn == l + o + 1
<1>1. /\ k \in 0 .. o - 1 /\ n \in {255, kn} /\ d = CursorAt(k, 0, 1, n)
      /\ sk \/ Read(build, r, x, t)
  BY DEF AtIntro, OnIntro, Counts, Known
<1>2. o \in 0 .. 3 /\ l \in 1 .. 128 /\ ExtraScreens = 1
  BY ReviewTyped
<1> HIDE DEF o, l, x
<1>3. k \in Int /\ n \in Int /\ 0 \in Int /\ 1 \in Int /\ n > 0 /\ k < (n - 1) + ExtraScreens /\ ~(0 + 1 < 1)
  BY <1>1, <1>2
<1>4. h_paging_increase(d) = CursorAt(x, 0, 1, n)
  <2>1. h_paging_increase(CursorAt(k, 0, 1, n)) =
             IF 0 + 1 < 1 THEN CursorAt(k, 0 + 1, 1, n)
             ELSE IF n > 0 /\ k < n - 1 + ExtraScreens THEN CursorAt(k + 1, 0, 1, n)
             ELSE CursorAt(k, 0, 1, n)
    BY <1>3, Increased
  <2> QED
    BY <1>1, <1>3, <2>1 DEF x
<1>5. n \in Counts(build, r)
  BY <1>1 DEF Counts, Known, o, l
<1>6. x \in 0 .. o - 1 \/ (x = o /\ x = 0 + o /\ 0 \in 0 .. l - 1 /\ 0 \in 0 .. 255)
  BY <1>1, <1>2 DEF x
<1>7. CASE x \in 0 .. o - 1
  <2>1. screen' = "error" \/ Lands(r, sk, x)
    BY <1>1, <1>4, <1>5, <1>7, LandsOnIntro DEF o
  <2> QED
    BY <2>1 DEF Goes, x
<1>8. CASE x = o /\ x = 0 + o /\ 0 \in 0 .. l - 1 /\ 0 \in 0 .. 255
  <2>1. /\ PagesUpTo(r.pages, 0, 0) = {} /\ CountUpTo(r.pages, 0, 0) = 0 /\ IsItems(r.pages)
    BY ReviewTyped, UpToEnds, CountEnds
  <2>2. sk \/ (PagesUpTo(r.pages, 0, 0) \subseteq s /\ Read(build, r, o, t))
    BY <1>1, <1>8, <2>1
  <2>3. LandsAt(r, sk, o + CountUpTo(r.pages, 0, 0), 0 > 0 /\ 0 >= r.pages[0 + 1])
    <3>1. Display(r, CursorAt(0 + o, 0, 1, n), s, t)
      BY <1>4, <1>8
    <3> QED
      BY <1>5, <1>8, <2>2, <3>1, LandsOnPage DEF o, l
  <2>4. Lands(r, sk, o + CountUpTo(r.pages, 0, 0))
    BY <2>3 DEF LandsAt
  <2>5. o + CountUpTo(r.pages, 0, 0) = x
    BY <1>2, <1>8, <2>1
  <2> QED
    BY <2>4, <2>5 DEF Goes, x
<1> QED
  BY <1>6, <1>7, <1>8

(* Right from a page.                                                      *)
LEMMA PageAdvances ==
    ASSUME build \in Builds, NEW r \in Reviews, NEW d, NEW s, NEW t, NEW sk, NEW x,
           NEW i, NEW p, NEW m, AtPage(build, r, d, s, t, sk, x, i, p, m),
           Display(r, h_paging_increase(d), s, t)
    PROVE  Goes(r, sk, x, x + 1)
<1> DEFINE o == Intro(build, r)
           l == Items(r)
           ps == r.pages
           kn == l + o + 1
           a == i + o
           b == p + 1
           j == i + 1
           g == a + 1
           c == CountUpTo(ps, i, p)
           f == CountUpTo(ps, i, b)
           w == x + 1
<1>1. /\ i \in 0 .. l - 1 /\ m \in 1 .. 254 /\ p \in 0 .. m - 1 /\ m = ps[j]
      /\ IsPage(ps, i, p, m)
      /\ d = CursorAt(a, p, m, kn) /\ x = o + c
      /\ sk \/ (PagesUpTo(ps, i, b) \subseteq s /\ Read(build, r, o, t))
  BY DEF AtPage, OnPage, IsPage, Items, Known
<1>2. o \in 0 .. 3 /\ l \in 1 .. 128 /\ ExtraScreens = 1
  BY ReviewTyped
<1>3. IsItems(ps) /\ l = ItemsOf(ps)
  BY ReviewTyped
<1>4. f = c + 1 /\ c \in Nat
  BY <1>1, <1>3, UpToCount DEF OneMorePage
<1>g. /\ g = j + o /\ j \in 0 .. l
      /\ j = l => g = (kn - 1) + 0
  BY <1>1, <1>2
<1> HIDE DEF o, l, c, f
<1>5. /\ a \in Int /\ p \in Int /\ m \in Int /\ kn \in Int /\ kn > 0 /\ a < (kn - 1) + ExtraScreens
      /\ i \in Int /\ b \in Int /\ 0 \in 0 .. 255 /\ 0 \in {0, 1} /\ kn # 255
      /\ b < m => b \in 0 .. 255 /\ b # m
      /\ ~(b < m) => m <= b
      /\ w = o + f
  BY <1>1, <1>2, <1>4
<1>6. kn \in Counts(build, r)
  BY DEF Counts, Known, o, l
<1> HIDE DEF a, kn, w, g
<1>7. h_paging_increase(d) = IF b < m THEN CursorAt(a, b, m, kn) ELSE CursorAt(g, 0, m, kn)
  <2>1. h_paging_increase(CursorAt(a, p, m, kn)) =
             IF p + 1 < m THEN CursorAt(a, p + 1, m, kn)
             ELSE IF kn > 0 /\ a < kn - 1 + ExtraScreens THEN CursorAt(a + 1, 0, m, kn)
             ELSE CursorAt(a, p, m, kn)
    BY <1>5, Increased
  <2> QED
    BY <1>1, <1>5, <2>1 DEF g
<1>8. CASE b < m
  <2>1. Display(r, CursorAt(a, b, m, kn), s, t) /\ b # ps[i + 1] /\ b \in 0 .. 255 /\ i \in 0 .. l - 1
    BY <1>1, <1>5, <1>7, <1>8
  <2>2. LandsAt(r, sk, o + f, b > 0 /\ b >= ps[i + 1])
    <3> HIDE DEF b
    <3> QED
      BY <1>1, <1>6, <2>1, LandsOnPage DEF o, l, a, f
  <2>3. ~(b >= ps[i + 1])
    <3>1. ~(b >= m)
      BY <1>5, <1>8
    <3> QED
      BY <1>1, <3>1
  <2>4. Lands(r, sk, o + f)
    BY <2>2, <2>3 DEF LandsAt
  <2> QED
    BY <1>5, <2>4 DEF Goes, w
<1>9. ASSUME ~(b < m)
      PROVE  PagesUpTo(ps, i, b) = PagesUpTo(ps, j, 0) /\ f = CountUpTo(ps, j, 0)
  <2>1. PagesUpTo(ps, i, b) = PagesUpTo(ps, j, 0)
    <3> HIDE DEF b
    <3> QED
      BY <1>1, <1>3, <1>5, <1>9, UpToItemIs
  <2> QED
    BY <2>1 DEF CountUpTo, f
<1>10. CASE ~(b < m) /\ j # l
  <2>1. j \in 0 .. l - 1 /\ 0 \in 0 .. 255
    <3>1. j \in 0 .. l /\ j # l /\ l \in 1 .. 128
      BY <1>2, <1>10, <1>g
    <3> HIDE DEF j
    <3> QED
      BY <3>1
  <2>2. Display(r, CursorAt(g, 0, m, kn), s, t) /\ g = j + o
    BY <1>7, <1>10, <1>g
  <2>3. sk \/ (PagesUpTo(ps, j, 0) \subseteq s /\ Read(build, r, o, t))
    BY <1>1, <1>9, <1>10
  <2>4. LandsAt(r, sk, o + CountUpTo(ps, j, 0), 0 > 0 /\ 0 >= ps[j + 1])
    <3> HIDE DEF j
    <3> QED
      BY <1>6, <2>1, <2>2, <2>3, LandsOnPage DEF o, l
  <2>5. Lands(r, sk, o + CountUpTo(ps, j, 0))
    BY <2>4 DEF LandsAt
  <2> QED
    BY <1>5, <1>9, <1>10, <2>5 DEF Goes, w
<1>11. CASE ~(b < m) /\ j = l
  <2>1. Display(r, CursorAt((kn - 1) + 0, 0, m, kn), s, t)
    BY <1>7, <1>11, <1>g
  <2>2. PagesUpTo(ps, i, b) = PagesOf(ps) /\ f = CountOf(ps)
    BY <1>3, <1>9, <1>11, CountEnds
  <2>3. sk \/ Told(build, r, s, t)
    BY <1>1, <2>2 DEF Told, o
  <2>4. Lands(r, sk, Approve(build, r) + 0)
    BY <1>5, <1>6, <2>1, <2>3, LandsOnDecision
  <2>5. Approve(build, r) + 0 = w
    BY <1>2, <1>4, <1>5, <2>2 DEF Approve, o
  <2> QED
    BY <2>4, <2>5 DEF Goes, w
<1> QED
  BY <1>8, <1>10, <1>11

(* Right from the approval or the rejection.                               *)
LEMMA DecisionAdvances ==
    ASSUME build \in Builds, NEW r \in Reviews, NEW d, NEW s, NEW t, NEW sk, NEW x,
           NEW e, NEW n, AtDecision(build, r, d, s, t, sk, x, e, n),
           Display(r, h_paging_increase(d), s, t)
    PROVE  Goes(r, sk, x, x + 1)
<1> DEFINE z == Approve(build, r)
           a == (n - 1) + e
<1>1. /\ e \in {0, 1} /\ n \in Counts(build, r) /\ d = CursorAt(a, 0, 1, n)
      /\ x = z + e /\ (n = 255 => sk) /\ (sk \/ Told(build, r, s, t))
  BY DEF AtDecision, OnDecision
<1>2. n \in Int /\ n > 0 /\ ExtraScreens = 1
  BY <1>1, ReviewTyped DEF Counts
<1>3. z \in Int
  <2>1. Intro(build, r) \in Int /\ CountOf(r.pages) \in Int
    BY ReviewTyped, UpToFinite
  <2> QED
    BY <2>1 DEF Approve
<1> HIDE DEF z
<1>4. a \in Int /\ 0 \in Int /\ 1 \in Int /\ ~(0 + 1 < 1)
  BY <1>1, <1>2
<1>5. h_paging_increase(CursorAt(a, 0, 1, n)) =
             IF 0 + 1 < 1 THEN CursorAt(a, 0 + 1, 1, n)
             ELSE IF n > 0 /\ a < n - 1 + ExtraScreens THEN CursorAt(a + 1, 0, 1, n)
             ELSE CursorAt(a, 0, 1, n)
  <2> HIDE DEF a
  <2> QED
    BY <1>2, <1>4, Increased
<1>6. h_paging_increase(d) = CursorAt((n - 1) + 1, 0, 1, n)
  <2>1. a < n - 1 + ExtraScreens <=> e = 0
    BY <1>1, <1>2
  <2>2. e = 0 => a + 1 = (n - 1) + 1
    BY <1>2
  <2>3. e = 1 => a = (n - 1) + 1
    BY <1>2
  <2> HIDE DEF a
  <2> QED
    BY <1>1, <1>2, <1>4, <1>5, <2>1, <2>2, <2>3
<1>7. Lands(r, sk, z + 1)
  <2>1. Display(r, CursorAt((n - 1) + 1, 0, 1, n), s, t) /\ 1 \in {0, 1}
    BY <1>6
  <2> QED
    BY <1>1, <2>1, LandsOnDecision DEF z
<1>8. z + 1 = x \/ z + 1 = x + 1
  BY <1>1, <1>3
<1> QED
  BY <1>7, <1>8 DEF Goes

(* Left from an introduction page.                                         *)
LEMMA IntroRetreats ==
    ASSUME build \in Builds, NEW r \in Reviews, NEW d, NEW s, NEW t, NEW sk, NEW k, NEW n,
           AtIntro(build, r, d, t, sk, k, n), Display(r, h_paging_decrease(d), s, t)
    PROVE  Goes(r, sk, k, k - 1)
<1> DEFINE o == Intro(build, r)
           x == k - 1
<1>1. /\ k \in 0 .. o - 1 /\ n \in Counts(build, r) /\ d = CursorAt(k, 0, 1, n)
      /\ sk \/ Read(build, r, k + 1, t)
  BY DEF AtIntro, OnIntro
<1>2. o \in 0 .. 3 /\ Known(build, r) \in Int
  BY ReviewTyped
<1> HIDE DEF o
<1>3. n \in Int
  BY <1>1, <1>2 DEF Counts
<1>4. h_paging_decrease(d) = IF k > 0 THEN CursorAt(x, 255, 1, n) ELSE CursorAt(k, 0, 1, n)
  <2>1. k \in Int /\ 0 \in Int /\ 1 \in Int
    BY <1>1, <1>2
  <2> QED
    BY <1>1, <1>3, <2>1, Decreased
<1>5. /\ k > 0 => x \in 0 .. o - 1
      /\ 0 .. x - 1 \subseteq 0 .. (k + 1) - 1
      /\ 0 .. k - 1 \subseteq 0 .. (k + 1) - 1
  BY <1>1, <1>2
<1>6. sk \/ (Read(build, r, x, t) /\ Read(build, r, k, t))
  <2> HIDE DEF x
  <2> QED
    BY <1>1, <1>5 DEF Read
<1> HIDE DEF x
<1>7. CASE k > 0
  <2>1. screen' = "error" \/ Lands(r, sk, x)
    BY <1>1, <1>4, <1>5, <1>6, <1>7, LandsOnIntro DEF o
  <2> QED
    BY <2>1 DEF Goes, x
<1>8. CASE ~(k > 0)
  <2>1. screen' = "error" \/ Lands(r, sk, k)
    BY <1>1, <1>4, <1>6, <1>8, LandsOnIntro DEF o
  <2> QED
    BY <2>1 DEF Goes
<1> QED
  BY <1>7, <1>8

(* Left from a page.                                                       *)
LEMMA PageRetreats ==
    ASSUME build \in Builds, NEW r \in Reviews, NEW d, NEW s, NEW t, NEW sk, NEW x,
           NEW i, NEW p, NEW m, AtPage(build, r, d, s, t, sk, x, i, p, m),
           Display(r, h_paging_decrease(d), s, t)
    PROVE  Goes(r, sk, x, x - 1)
<1> DEFINE o == Intro(build, r)
           l == Items(r)
           ps == r.pages
           kn == l + o + 1
           a == i + o
           b == p - 1
           j == i - 1
           g == a - 1
           c == CountUpTo(ps, i, p)
           w == x - 1
<1>1. /\ i \in 0 .. l - 1 /\ m \in 1 .. 254 /\ p \in 0 .. m - 1 /\ m = ps[i + 1]
      /\ IsPage(ps, i, p, m)
      /\ d = CursorAt(a, p, m, kn) /\ x = o + c
      /\ sk \/ (PagesUpTo(ps, i, p + 1) \subseteq s /\ Read(build, r, o, t))
  BY DEF AtPage, OnPage, IsPage, Items, Known
<1>2. o \in 0 .. 3 /\ l \in 1 .. 128 /\ ExtraScreens = 1
  BY ReviewTyped
<1>3. IsItems(ps) /\ l = ItemsOf(ps)
  BY ReviewTyped
<1>4. c \in Nat /\ PagesUpTo(ps, i, p + 1) = PagesUpTo(ps, i, p) \cup {<<i, p>>}
  <2>1. IsPage(ps, i, p, m) /\ IsItems(ps)
    BY <1>1, <1>3, Zenon
  <2>2. OneMorePage(ps, i, p)
    BY <2>1, UpToCount, Zenon
  <2> QED BY <2>2 DEF OneMorePage
<1>s. sk \/ (PagesUpTo(ps, i, p) \subseteq s /\ Read(build, r, o, t))
  BY <1>1, <1>4
<1> HIDE DEF o, l, c
<1>5. /\ a \in Int /\ p \in Int /\ m \in Int /\ kn \in Int /\ i \in Int /\ 0 \in 0 .. 255
      /\ i \in 0 .. l - 1
      /\ p # 0 => b \in 0 .. m - 1 /\ b \in 0 .. 255 /\ b # m /\ ~(b >= m)
      /\ i > 0 => j \in 0 .. l - 1 /\ g = j + o /\ a > 0
      /\ a > 0 <=> (i > 0 \/ o > 0)
      /\ (i = 0 /\ o > 0) => g = o - 1 /\ o - 1 \in 0 .. o - 1
      /\ ~(i > 0) => i = 0
      /\ ~(o > 0) => o = 0
  BY <1>1, <1>2
<1>6. kn \in Counts(build, r)
  BY DEF Counts, Known, o, l
<1> HIDE DEF kn
<1>7. h_paging_decrease(d) =
        IF p # 0 THEN CursorAt(a, b, m, kn)
        ELSE IF a > 0 THEN CursorAt(g, 255, m, kn) ELSE CursorAt(a, p, m, kn)
  <2>1. h_paging_decrease(CursorAt(a, p, m, kn)) =
          IF p # 0 THEN CursorAt(a, p - 1, m, kn)
          ELSE IF a > 0 THEN CursorAt(a - 1, 255, m, kn) ELSE CursorAt(a, p, m, kn)
    <3>1. a \in Int /\ p \in Int /\ m \in Int /\ kn \in Int
      BY <1>5
    <3> HIDE DEF a, b, g
    <3> QED
      BY <3>1, Decreased
  <2> QED
    BY <1>1, <2>1
<1>8. CASE p # 0
  <2>1. Display(r, CursorAt(a, b, m, kn), s, t) /\ b # ps[i + 1] /\ b \in 0 .. 255 /\ IsPage(ps, i, b, m)
    BY <1>1, <1>3, <1>5, <1>7, <1>8 DEF IsPage
  <2>2. PagesUpTo(ps, i, b + 1) = PagesUpTo(ps, i, p) /\ c = CountUpTo(ps, i, b) + 1 /\ CountUpTo(ps, i, b) \in Nat
    <3>1. b + 1 = p
      BY <1>5
    <3>2. CountUpTo(ps, i, b + 1) = CountUpTo(ps, i, b) + 1 /\ CountUpTo(ps, i, b) \in Nat
      <4> HIDE DEF b
      <4> QED
        <5> HIDE DEF ps
        <5>1. IsItems(ps) /\ IsPage(ps, i, b, m)
          BY <1>3, <2>1, Zenon
        <5>2. OneMorePage(ps, i, b)
          BY <5>1, UpToCount, Zenon
        <5> QED BY <5>2 DEF OneMorePage
    <3> HIDE DEF b
    <3> QED
      BY <3>1, <3>2 DEF c
  <2>3. PagesUpTo(ps, i, b) \subseteq PagesUpTo(ps, i, b + 1)
    <3>1. PagesUpTo(ps, i, b + 1) = PagesUpTo(ps, i, b) \cup {<<i, b>>}
      <4>1. IsPage(ps, i, b, m)
        BY <2>1
      <4> HIDE DEF b
      <4> QED
        <5> HIDE DEF ps
        <5>1. IsItems(ps) /\ IsPage(ps, i, b, m)
          BY <1>3, <4>1, Zenon
        <5>2. OneMorePage(ps, i, b)
          BY <5>1, UpToCount, Zenon
        <5> QED BY <5>2 DEF OneMorePage
    <3> QED
      BY <3>1
  <2>4. sk \/ (PagesUpTo(ps, i, b) \subseteq s /\ Read(build, r, o, t))
    BY <1>s, <2>2, <2>3
  <2>5. LandsAt(r, sk, o + CountUpTo(ps, i, b), b > 0 /\ b >= ps[i + 1])
    <3> HIDE DEF b
    <3> QED
      BY <1>5, <1>6, <2>1, <2>4, LandsOnPage DEF o, l, a
  <2>6. ~(b >= ps[i + 1])
    <3>1. ~(b >= m)
      BY <1>5, <1>8
    <3> QED
      BY <1>1, <3>1
  <2>7. Lands(r, sk, o + CountUpTo(ps, i, b))
    BY <2>5, <2>6 DEF LandsAt
  <2>8. o + CountUpTo(ps, i, b) = w
    <3> DEFINE f == CountUpTo(ps, i, b)
    <3>1. c = f + 1 /\ f \in Nat /\ x = o + c /\ o \in 0 .. 3
      BY <1>1, <1>2, <2>2
    <3> HIDE DEF f
    <3>2. o + f = w
      BY <3>1
    <3> QED
      BY <3>2 DEF f
  <2> QED
    BY <2>7, <2>8 DEF Goes, w
<1>9. CASE p = 0 /\ i > 0
  <2> DEFINE f == CountUpTo(ps, j, 255)
  <2>1. j \in 0 .. l - 1 /\ g = j + o /\ 255 \in 0 .. 255 /\ j + 1 = i
    BY <1>5, <1>9
  <2>2. Display(r, CursorAt(g, 255, m, kn), s, t)
    BY <1>5, <1>7, <1>9
  <2>3. ps[j + 1] \in 0 .. 254
    <3>1. j + 1 \in 1 .. Len(ps)
      <4>1. i \in 1 .. l
        BY <1>2, <1>5, <1>9
      <4> QED
        BY <2>1, <4>1 DEF l, Items, ItemsOf
    <3> QED
      BY <1>3, <3>1, PagesTyped
  <2>4. PagesUpTo(ps, j, 255) = PagesUpTo(ps, i, 0)
    <3> DEFINE h == ps[j + 1]
    <3>1. h \in Int /\ h <= 255 /\ j \in Int /\ 255 \in Int /\ h = ps[j + 1]
      BY <1>5, <2>3
    <3> HIDE DEF h, j
    <3>2. PagesUpTo(ps, j, 255) = PagesUpTo(ps, j + 1, 0)
      BY <1>3, <3>1, UpToItemIs
    <3> QED
      BY <2>1, <3>2
  <2>5. sk \/ (PagesUpTo(ps, j, 255) \subseteq s /\ Read(build, r, o, t))
    BY <1>s, <1>9, <2>4
  <2>6. ps[j + 1] # 255
    BY <2>3
  <2>7. LandsAt(r, sk, o + CountUpTo(ps, j, 255), 255 > 0 /\ 255 >= ps[j + 1])
    <3> DEFINE big == 255
    <3>1. /\ big = r.pages[j + 1] => big = 0
          /\ big \in 0 .. 255 /\ j \in 0 .. Items(r) - 1 /\ kn \in Counts(build, r)
          /\ Display(r, CursorAt(j + Intro(build, r), big, m, kn), s, t)
          /\ sk \/ (PagesUpTo(r.pages, j, big) \subseteq s /\ Read(build, r, Intro(build, r), t))
      BY <1>6, <2>1, <2>2, <2>5, <2>6 DEF o, l
    <3> HIDE DEF big, j, kn
    <3>2. LandsAt(r, sk, Intro(build, r) + CountUpTo(r.pages, j, big), big > 0 /\ big >= r.pages[j + 1])
      BY <3>1, LandsOnPage, ZenonT(30)
    <3> QED
      BY <3>2 DEF o, big
  <2>8. PICK y : Lands(r, sk, y) /\ (y = o + CountUpTo(ps, j, 255) \/ y + 1 = o + CountUpTo(ps, j, 255))
    BY <2>7 DEF LandsAt
  <2>9. o + CountUpTo(ps, j, 255) = x
    BY <1>1, <1>9, <2>4 DEF CountUpTo, c
  <2>10. Lands(r, sk, x) \/ Lands(r, sk, w)
    <3>1. CASE y = x
      BY <2>8, <3>1
    <3>2. CASE y + 1 = x
      <4>1. y = w
        <5>1. y \in Int
          BY <2>8, LineTyped DEF Lands
        <5> QED
          BY <3>2, <5>1
      <4> QED
        BY <2>8, <4>1
    <3> QED
      BY <2>8, <2>9, <3>1, <3>2
  <2> QED
    BY <2>10 DEF Goes, w
<1>10. CASE p = 0 /\ i = 0
  <2>1. PagesUpTo(ps, 0, 0) = {} /\ CountUpTo(ps, 0, 0) = 0 /\ c = 0
    BY <1>3, <1>10, UpToEnds, CountEnds DEF c
  <2>2. x = o
    BY <1>1, <1>2, <2>1
  <2>3. CASE o > 0
    <3>1. Display(r, CursorAt(o - 1, 255, m, kn), s, t) /\ o - 1 \in 0 .. o - 1 /\ w = o - 1
      BY <1>5, <1>7, <1>10, <2>2, <2>3
    <3>2. sk \/ Read(build, r, o - 1, t)
      <4>1. 0 .. (o - 1) - 1 \subseteq 0 .. o - 1
        BY <1>2
      <4> QED
        BY <1>s, <4>1 DEF Read
    <3> DEFINE h == o - 1
    <3> HIDE DEF h
    <3>3. screen' = "error" \/ Lands(r, sk, h)
      BY <1>6, <3>1, <3>2, LandsOnIntro DEF o, h
    <3> QED
      BY <3>1, <3>3 DEF Goes, h, w
  <2>4. CASE ~(o > 0)
    <3>1. Display(r, CursorAt(a, 0, m, kn), s, t) /\ a = 0 + o /\ 0 \in 0 .. l - 1 /\ 0 \in 0 .. 255
      BY <1>5, <1>7, <1>10, <2>4
    <3>2. sk \/ (PagesUpTo(ps, 0, 0) \subseteq s /\ Read(build, r, o, t))
      BY <1>s, <2>1
    <3>3. LandsAt(r, sk, o + CountUpTo(ps, 0, 0), 0 > 0 /\ 0 >= ps[0 + 1])
      <4>1. Display(r, CursorAt(0 + o, 0, m, kn), s, t)
        BY <3>1
      <4> QED
        BY <1>6, <3>1, <3>2, <4>1, LandsOnPage DEF o, l
    <3>4. Lands(r, sk, o + CountUpTo(ps, 0, 0))
      BY <3>3 DEF LandsAt
    <3>5. o + CountUpTo(ps, 0, 0) = x
      BY <1>2, <2>1, <2>2
    <3> QED
      BY <3>4, <3>5 DEF Goes
  <2> QED
    BY <2>3, <2>4
<1> QED
  BY <1>5, <1>8, <1>9, <1>10

(* Left from the approval or the rejection.                                *)
LEMMA DecisionRetreats ==
    ASSUME build \in Builds, NEW r \in Reviews, NEW d, NEW s, NEW t, NEW sk, NEW x,
           NEW e, NEW n, AtDecision(build, r, d, s, t, sk, x, e, n),
           Display(r, h_paging_decrease(d), s, t)
    PROVE  Goes(r, sk, x, x - 1)
<1> DEFINE o == Intro(build, r)
           l == Items(r)
           ps == r.pages
           kn == l + o + 1
           z == Approve(build, r)
           a == (n - 1) + e
           g == a - 1
           w == x - 1
           tot == CountOf(ps)
<1>1. /\ e \in {0, 1} /\ n \in Counts(build, r) /\ d = CursorAt(a, 0, 1, n)
      /\ x = z + e /\ (n = 255 => sk) /\ (sk \/ Told(build, r, s, t))
      /\ n \in {255, kn} /\ z = o + tot
  BY DEF AtDecision, OnDecision, Counts, Known, Approve
<1>2. o \in 0 .. 3 /\ l \in 1 .. 128
  BY ReviewTyped
<1>3. IsItems(ps) /\ l = ItemsOf(ps)
  BY ReviewTyped
<1>4. tot \in Nat
  BY <1>3, UpToFinite
<1> HIDE DEF o, l, z, tot
<1>5. /\ a \in Int /\ a > 0 /\ 0 \in Int /\ 1 \in Int /\ n \in Int
      /\ e = 1 => g = (n - 1) + 0 /\ w = z + 0
      /\ e = 0 /\ n = 255 => g = 253
      /\ e = 0 /\ n # 255 => g = (l - 1) + o /\ l - 1 \in 0 .. l - 1 /\ x = z
  BY <1>1, <1>2, <1>4
<1>6. h_paging_decrease(d) = CursorAt(g, 255, 1, n)
  <2>1. h_paging_decrease(CursorAt(a, 0, 1, n)) =
          IF 0 # 0 THEN CursorAt(a, 0 - 1, 1, n)
          ELSE IF a > 0 THEN CursorAt(a - 1, 255, 1, n) ELSE CursorAt(a, 0, 1, n)
    <3> HIDE DEF a
    <3> QED
      BY <1>5, Decreased
  <2> QED
    BY <1>1, <1>5, <2>1
<1>7. CASE e = 1
  <2>1. Display(r, CursorAt((n - 1) + 0, 255, 1, n), s, t) /\ 0 \in {0, 1}
    BY <1>5, <1>6, <1>7
  <2>2. Lands(r, sk, z + 0)
    BY <1>1, <2>1, LandsOnDecision DEF z
  <2> QED
    BY <1>5, <1>7, <2>2 DEF Goes, w
<1>8. CASE e = 0 /\ n = 255
  <2>1. Display(r, CursorAt(253, 255, 1, 255), s, t)
    BY <1>5, <1>6, <1>8
  <2>2. screen' = "error"
    BY <2>1, DisplaysError
  <2> QED
    BY <2>2 DEF Goes
<1>9. CASE e = 0 /\ n # 255
  <2> DEFINE j == l - 1
  <2>1. Display(r, CursorAt(j + o, 255, 1, n), s, t) /\ j \in 0 .. l - 1 /\ 255 \in 0 .. 255 /\ j \in Int /\ j + 1 = l
    BY <1>2, <1>5, <1>6, <1>9
  <2>2. ps[j + 1] \in 0 .. 254
    <3>1. j + 1 \in 1 .. Len(ps)
      <4>1. l \in 1 .. l
        BY <1>2
      <4> QED
        BY <2>1, <4>1 DEF l, Items, ItemsOf
    <3> QED
      BY <1>3, <3>1, PagesTyped
  <2> HIDE DEF j
  <2>3. PagesUpTo(ps, j, 255) = PagesOf(ps) /\ CountUpTo(ps, j, 255) = tot
    <3> DEFINE h == ps[j + 1]
    <3>1. h \in Int /\ h <= 255 /\ 255 \in Int /\ h = ps[j + 1]
      BY <2>2
    <3> HIDE DEF h
    <3>2. PagesUpTo(ps, j, 255) = PagesUpTo(ps, j + 1, 0)
      BY <1>3, <2>1, <3>1, UpToItemIs
    <3> QED
      BY <1>3, <2>1, <3>2, CountEnds DEF CountUpTo, CountOf, tot
  <2>4. sk \/ (PagesUpTo(ps, j, 255) \subseteq s /\ Read(build, r, o, t))
    BY <1>1, <2>3 DEF Told, o
  <2>5. LandsAt(r, sk, o + CountUpTo(ps, j, 255), 255 > 0 /\ 255 >= ps[j + 1])
    <3>1. 255 = r.pages[j + 1] => 255 = 0
      BY <2>2
    <3>2. n \in Counts(build, r) /\ j \in 0 .. Items(r) - 1 /\ 255 \in 0 .. 255
      BY <1>1, <2>1 DEF l
    <3>3. Display(r, CursorAt(j + Intro(build, r), 255, 1, n), s, t)
      BY <2>1 DEF o
    <3>4. sk \/ (PagesUpTo(r.pages, j, 255) \subseteq s /\ Read(build, r, Intro(build, r), t))
      BY <2>4 DEF o
    <3> DEFINE big == 255
    <3>a. /\ big = r.pages[j + 1] => big = 0
          /\ big \in 0 .. 255
          /\ Display(r, CursorAt(j + Intro(build, r), big, 1, n), s, t)
          /\ sk \/ (PagesUpTo(r.pages, j, big) \subseteq s /\ Read(build, r, Intro(build, r), t))
      BY <3>1, <3>2, <3>3, <3>4
    <3> HIDE DEF a, g, w, kn, big
    <3>5. LandsAt(r, sk, Intro(build, r) + CountUpTo(r.pages, j, big), big > 0 /\ big >= r.pages[j + 1])
      BY <3>2, <3>a, LandsOnPage, ZenonT(30)
    <3> QED
      BY <3>5 DEF o, big
  <2>6. PICK y : Lands(r, sk, y) /\ (y = o + CountUpTo(ps, j, 255) \/ y + 1 = o + CountUpTo(ps, j, 255))
    BY <2>5 DEF LandsAt
  <2>7. o + CountUpTo(ps, j, 255) = x
    BY <1>1, <1>5, <1>9, <2>3
  <2>8. Lands(r, sk, x) \/ Lands(r, sk, w)
    <3>1. CASE y + 1 = x
      <4>1. y = w
        <5>1. y \in Int
          BY <2>6, LineTyped DEF Lands
        <5> QED
          BY <3>1, <5>1
      <4> QED
        BY <2>6, <4>1
    <3> QED
      BY <2>6, <2>7, <3>1
  <2> QED
    BY <2>8 DEF Goes, w
<1> QED
  BY <1>1, <1>7, <1>8, <1>9

(* The buttons move the cursor by at most one place, or show an error.     *)
LEMMA Advances ==
    ASSUME build \in Builds, NEW r \in Reviews, NEW d, NEW s, NEW t, NEW sk, NEW x,
           OnLine(build, r, d, s, t, sk, x), Display(r, h_paging_increase(d), s, t)
    PROVE  Goes(r, sk, x, x + 1)
<1>1. ASSUME NEW n, AtIntro(build, r, d, t, sk, x, n) PROVE Goes(r, sk, x, x + 1)
  BY <1>1, IntroAdvances
<1>2. ASSUME NEW i, NEW p, NEW m, AtPage(build, r, d, s, t, sk, x, i, p, m)
      PROVE  Goes(r, sk, x, x + 1)
  BY <1>2, PageAdvances
<1>3. ASSUME NEW e, NEW n, AtDecision(build, r, d, s, t, sk, x, e, n)
      PROVE  Goes(r, sk, x, x + 1)
  BY <1>3, DecisionAdvances
<1> QED
  BY <1>1, <1>2, <1>3 DEF OnLine

(* Left: back by one place, or not at all.                               *)
LEMMA Retreats ==
    ASSUME build \in Builds, NEW r \in Reviews, NEW d, NEW s, NEW t, NEW sk, NEW x,
           OnLine(build, r, d, s, t, sk, x), Display(r, h_paging_decrease(d), s, t)
    PROVE  Goes(r, sk, x, x - 1)
<1>1. ASSUME NEW n, AtIntro(build, r, d, t, sk, x, n) PROVE Goes(r, sk, x, x - 1)
  BY <1>1, IntroRetreats
<1>2. ASSUME NEW i, NEW p, NEW m, AtPage(build, r, d, s, t, sk, x, i, p, m)
      PROVE  Goes(r, sk, x, x - 1)
  BY <1>2, PageRetreats
<1>3. ASSUME NEW e, NEW n, AtDecision(build, r, d, s, t, sk, x, e, n)
      PROVE  Goes(r, sk, x, x - 1)
  BY <1>3, DecisionRetreats
<1> QED
  BY <1>1, <1>2, <1>3 DEF OnLine

(* A review opens at the front of the line,                                *)
LEMMA Opens ==
    ASSUME build \in Builds, NEW r \in Reviews, Display(r, h_paging_init, {}, {})
    PROVE  screen' = "error" \/ Lands(r, FALSE, 0)
<1> DEFINE o == Intro(build, r)
           l == Items(r)
           c == CursorAt(0, 0, 1, 255)
<1>1. o \in 0 .. 3 /\ l \in 1 .. 128 /\ IsItems(r.pages)
  BY ReviewTyped
<1>2. h_paging_init = c
  BY DEF h_paging_init, CursorAt
<1>3. 255 \in Counts(build, r) /\ Read(build, r, 0, {})
  BY DEF Counts, Read
<1>4. CASE o > 0
  <2>1. 0 \in 0 .. o - 1
    BY <1>1, <1>4
  <2> HIDE DEF o
  <2>2. screen' = "error" \/ Lands(r, FALSE, 0)
    BY <1>2, <1>3, <2>1, LandsOnIntro DEF o
  <2> QED
    BY <2>2
<1>5. CASE ~(o > 0)
  <2>1. o = 0 /\ 0 \in 0 .. l - 1 /\ 0 \in 0 .. 255 /\ 0 + o = 0
    BY <1>1, <1>5
  <2>2. PagesUpTo(r.pages, 0, 0) = {} /\ CountUpTo(r.pages, 0, 0) = 0
    BY <1>1, UpToEnds, CountEnds
  <2>3. Display(r, CursorAt(0 + o, 0, 1, 255), {}, {})
    BY <1>2, <2>1
  <2> DEFINE y == o + CountUpTo(r.pages, 0, 0)
             back == 0 > 0 /\ 0 >= r.pages[0 + 1]
  <2>4. FALSE \/ (PagesUpTo(r.pages, 0, 0) \subseteq {} /\ Read(build, r, o, {}))
    BY <1>3, <2>1, <2>2
  <2>5. ~back /\ y = 0
    BY <2>1, <2>2
  <2>6. LandsAt(r, FALSE, y, back)
    <3>1. Display(r, CursorAt(0 + Intro(build, r), 0, 1, 255), {}, {})
      BY <2>3
    <3>2. 0 \in 0 .. Items(r) - 1 /\ 0 \in 0 .. 255 /\ 255 \in Counts(build, r)
      BY <1>3, <2>1
    <3>3. FALSE \/ (PagesUpTo(r.pages, 0, 0) \subseteq {} /\ Read(build, r, Intro(build, r), {}))
      BY <2>4
    <3>4. (0 = r.pages[0 + 1]) => 0 = 0
      OBVIOUS
    <3> HIDE DEF c, l
    <3> QED
      BY <3>1, <3>2, <3>3, <3>4, LandsOnPage
  <2> HIDE DEF y, back
  <2>7. Lands(r, FALSE, y)
    BY <2>5, <2>6 DEF LandsAt
  <2> QED
    BY <2>5, <2>7
<1> QED
  BY <1>4, <1>5

(* and skipping leads to the approval.                                     *)
LEMMA Skips ==
    ASSUME build \in Builds, NEW r \in Reviews, NEW d, NEW s, NEW t, NEW sk, NEW x,
           OnLine(build, r, d, s, t, sk, x), Display(r, set_accept_item(d), s, t)
    PROVE  Lands(r, TRUE, Approve(build, r))
<1>0. Known(build, r) \in Int
  BY ReviewTyped
<1>1. PICK i, p, c, n : d = CursorAt(i, p, c, n) /\ n \in Counts(build, r)
  BY DEF OnLine, AtIntro, AtPage, AtDecision, OnIntro, OnPage, OnDecision, Counts
<1>2. n \in Int
  BY <1>0, <1>1 DEF Counts
<1>3. set_accept_item(d) = CursorAt((n - 1) + 0, 0, c, n)
  <2> DEFINE y == n - 1
  <2>1. y = y + 0
    BY <1>2
  <2>2. d.itemCount = n
    BY <1>1, CursorFields
  <2>3. set_accept_item(d) = [d EXCEPT !.itemIdx = y, !.pageIdx = 0]
    BY <2>2 DEF set_accept_item
  <2> HIDE DEF y
  <2>4. [CursorAt(i, p, c, n) EXCEPT !.itemIdx = y] = CursorAt(y, p, c, n)
    BY DEF CursorAt
  <2>5. [CursorAt(y, p, c, n) EXCEPT !.pageIdx = 0] = CursorAt(y, 0, c, n)
    BY DEF CursorAt
  <2>6. set_accept_item(d) = CursorAt(y, 0, c, n)
    BY <1>1, <2>3, <2>4, <2>5
  <2> QED
    BY <2>1, <2>6 DEF y
<1>4. Display(r, CursorAt((n - 1) + 0, 0, c, n), s, t) /\ 0 \in {0, 1}
  BY <1>3
<1>5. Lands(r, TRUE, Approve(build, r) + 0)
  BY <1>1, <1>4, LandsOnDecision
<1>6. Approve(build, r) + 0 = Approve(build, r)
  <2> DEFINE o == Intro(build, r)
             c0 == CountOf(r.pages)
  <2>1. o \in 0 .. 3 /\ IsItems(r.pages)
    BY ReviewTyped
  <2>2. c0 \in Nat
    BY <2>1, UpToFinite
  <2> HIDE DEF o, c0
  <2>3. (o + c0) + 0 = o + c0
    BY <2>1, <2>2
  <2> QED
    BY <2>3 DEF Approve, o, c0
<1> QED
  BY <1>5, <1>6

(* What each kind of place is to the program.                              *)
LEMMA IntroClass ==
    ASSUME build \in Builds, NEW r \in Reviews, NEW d, NEW k, NEW n, OnIntro(build, r, d, k, n)
    PROVE  /\ ~is_accept_item(d) /\ ~is_reject_item(d)
           /\ Class(r, d) = "intro" /\ d.itemIdx = k
<1> DEFINE o == Intro(build, r)
           l == Items(r)
           y == l + o + 1
<1>1. o \in 0 .. 3 /\ l \in 1 .. 128
  BY ReviewTyped
<1>2. k \in 0 .. o - 1 /\ n \in {255, y} /\ d = CursorAt(k, 0, 1, n)
  BY DEF OnIntro, Counts, Known
<1>3. getIntroPages(build, r) = o
  BY IntroIs
<1>4. d.itemIdx = k /\ d.itemCount = n
  BY <1>2, CursorFields
<1> HIDE DEF o, l
<1>5. k # n - 1 /\ k # n /\ k < o
  BY <1>1, <1>2
<1> QED
  BY <1>3, <1>4, <1>5 DEF Class, is_accept_item, is_reject_item

(* Pages,                                                                *)
LEMMA PageClass ==
    ASSUME build \in Builds, NEW r \in Reviews, NEW d, NEW i, NEW p, NEW m,
           OnPage(build, r, d, i, p, m)
    PROVE  /\ ~is_accept_item(d) /\ ~is_reject_item(d)
           /\ Class(r, d) = "page" /\ PageAt(r, d) = <<i, p>>
<1> DEFINE o == Intro(build, r)
           l == Items(r)
           y == l + o + 1
           a == i + o
<1>1. o \in 0 .. 3 /\ l \in 1 .. 128
  BY ReviewTyped
<1>2. i \in 0 .. l - 1 /\ d = CursorAt(a, p, m, y)
  BY DEF OnPage, IsPage, Items, Known
<1>3. getIntroPages(build, r) = o
  BY IntroIs
<1>4. d.itemIdx = a /\ d.itemCount = y /\ d.pageIdx = p
  BY <1>2, CursorFields
<1> HIDE DEF o, l
<1>5. a # y - 1 /\ a # y /\ ~(a < o) /\ a - o = i
  BY <1>1, <1>2
<1> HIDE DEF a, y
<1> QED
  BY <1>3, <1>4, <1>5 DEF Class, PageAt, is_accept_item, is_reject_item

(* and decisions.                                                        *)
LEMMA DecisionClass ==
    ASSUME build \in Builds, NEW r \in Reviews, NEW d, NEW e, NEW n, OnDecision(build, r, d, e, n)
    PROVE  /\ is_accept_item(d) <=> e = 0
           /\ is_reject_item(d) <=> e = 1
           /\ Class(r, d) = "decision" /\ d.itemIdx - (d.itemCount - 1) = e
<1>1. Known(build, r) \in Int
  BY ReviewTyped
<1>2. e \in {0, 1} /\ n \in Int /\ d = CursorAt((n - 1) + e, 0, 1, n)
  BY <1>1 DEF OnDecision, Counts
<1>3. d.itemIdx = (n - 1) + e /\ d.itemCount = n
  BY <1>2, CursorFields
<1>4. /\ ((n - 1) + e = n - 1 <=> e = 0) /\ ((n - 1) + e = n <=> e = 1)
      /\ ((n - 1) + e) - (n - 1) = e
  BY <1>2
<1> QED
  BY <1>2, <1>3, <1>4 DEF Class, is_accept_item, is_reject_item

-----------------------------------------------------------------------------
(* The invariant: the display stands in the line of the review, and unless *)
(* the user skipped, everything up to there has been read.                 *)
Stands(x) == OnLine(build, review, vd, shown, intros, skipped, x)

ModeInv ==
    /\ build \in Builds /\ review \in Reviews
    /\ (screen # "idle" \/ answer # "none") /\ review.blind => "BLINDSIGN" \in build
    /\ is_in_skip_menu /\ screen # "skip" => ~shortcut

StandsInv ==
    /\ screen \in {"idle", "error", "review", "skip"}
    /\ screen # "idle" => answer = "none"
    /\ screen \in {"review", "skip"} => \E x : Stands(x)
    /\ screen = "skip" => review.progressive
    /\ answer \in {"approved", "rejected"} => skipped \/ Told(build, review, shown, intros)

(* One button: from place x to place y, to the skip menu, or to an error.  *)
Walks(x, y) ==
    /\ Stands(x) /\ (y = x \/ y = x + 1 \/ y = x - 1)
    /\ \/ screen' = "error"
       \/ screen' = "review" /\ OnLine(build, review, vd', shown', intros', skipped, y)
       \/ screen' = "skip" /\ review.progressive
          /\ OnLine(build, review, vd', shown', intros', skipped, y)

Button == Right \/ Left \/ SkipRight \/ SkipLeft

(* A button leads from a place to the same or the next one.              *)
LEMMA ButtonWalks ==
    ASSUME ModeInv, StandsInv, Button
    PROVE  \E x, y : Walks(x, y)
<1>1. build \in Builds /\ review \in Reviews /\ screen \in {"review", "skip"}
  BY DEF ModeInv, Button, Right, Left, SkipRight, SkipLeft
<1>2. PICK x : Stands(x)
  BY <1>1 DEF StandsInv
<1> DEFINE y == x + 1
           z == x - 1
<1>3. \/ review.progressive /\ EnterSkipMenu
      \/ Step(h_paging_increase(vd))
      \/ Step(h_paging_decrease(vd))
  BY DEF Button, Right, Left, SkipRight, SkipLeft, should_show_skip_menu_right,
         should_show_skip_menu_left, SkipMenuAllowed
<1>4. CASE review.progressive /\ EnterSkipMenu
  <2>1. Walks(x, x)
    BY <1>2, <1>4 DEF Walks, EnterSkipMenu, Stands
  <2> QED
    BY <2>1
<1>5. CASE Step(h_paging_increase(vd))
  <2>1. Goes(review, skipped, x, y)
    BY <1>1, <1>2, <1>5, Advances DEF Stands, Step
  <2>2. Walks(x, x) \/ Walks(x, y)
    BY <1>2, <2>1 DEF Walks, Goes, Lands
  <2> QED
    BY <2>2
<1>6. CASE Step(h_paging_decrease(vd))
  <2>1. Goes(review, skipped, x, z)
    BY <1>1, <1>2, <1>6, Retreats DEF Stands, Step
  <2>2. Walks(x, x) \/ Walks(x, z)
    BY <1>2, <2>1 DEF Walks, Goes, Lands
  <2> QED
    BY <2>2
<1> QED
  BY <1>3, <1>4, <1>5, <1>6

(* Which decision the two last items are.                                  *)
LEMMA Decided ==
    ASSUME build \in Builds, review \in Reviews, NEW x, Stands(x)
    PROVE  /\ is_accept_item(vd) => x = Approve(build, review) + 0
           /\ is_reject_item(vd) => x = Approve(build, review) + 1
           /\ is_accept_item(vd) \/ is_reject_item(vd) => skipped \/ Told(build, review, shown, intros)
           /\ Class(review, vd) = "decision" => is_accept_item(vd) \/ is_reject_item(vd)
<1>1. Class(review, vd) = "decision" => is_accept_item(vd) \/ is_reject_item(vd)
  BY DEF Class
<1>2. ASSUME NEW n, AtIntro(build, review, vd, intros, skipped, x, n)
      PROVE  ~is_accept_item(vd) /\ ~is_reject_item(vd)
  BY <1>2, IntroClass DEF AtIntro
<1>3. ASSUME NEW i, NEW p, NEW m, AtPage(build, review, vd, shown, intros, skipped, x, i, p, m)
      PROVE  ~is_accept_item(vd) /\ ~is_reject_item(vd)
  BY <1>3, PageClass DEF AtPage
<1>4. ASSUME NEW e, NEW n, AtDecision(build, review, vd, shown, intros, skipped, x, e, n)
      PROVE  /\ is_accept_item(vd) => x = Approve(build, review) + 0
             /\ is_reject_item(vd) => x = Approve(build, review) + 1
             /\ skipped \/ Told(build, review, shown, intros)
  <2>1. is_accept_item(vd) <=> e = 0
    BY <1>4, DecisionClass DEF AtDecision
  <2>2. is_reject_item(vd) <=> e = 1
    BY <1>4, DecisionClass DEF AtDecision
  <2>3. x = Approve(build, review) + e /\ (skipped \/ Told(build, review, shown, intros))
    BY <1>4 DEF AtDecision
  <2> QED
    BY <2>1, <2>2, <2>3
<1> QED
  BY <1>1, <1>2, <1>3, <1>4 DEF Stands, OnLine

(* Before the first review.                                              *)
LEMMA ModeInvInit == Init => ModeInv
  BY DEF Init, ModeInv

(* Every step keeps the modes.                                           *)
LEMMA ModeInvKept == ModeInv /\ StandsInv /\ [Next]_vars => ModeInv'
<1> SUFFICES ASSUME ModeInv, StandsInv, [Next]_vars PROVE ModeInv'
  OBVIOUS
<1>1. ASSUME NEW r \in Reviews, Show(r) PROVE ModeInv'
  BY <1>1 DEF Show, ModeInv, Display
<1>2. CASE Button
  BY <1>2 DEF Button, Right, Left, SkipRight, SkipLeft, Same, EnterSkipMenu, Step, ModeInv
<1>3. CASE SkipBoth
  BY <1>3 DEF SkipBoth, Step, ModeInv
<1>4. CASE Accept \/ Reject
  BY <1>4 DEF Accept, Reject, End, ModeInv
<1>5. CASE BothOnPage
  BY <1>5 DEF BothOnPage, Step, Same, ModeInv
<1>6. CASE ErrorRight
  BY <1>6 DEF ErrorRight, End, ModeInv
<1>7. CASE DisableShortcut
  BY <1>7 DEF DisableShortcut, ModeInv
<1>8. CASE IoReset
  BY <1>8 DEF IoReset, ModeInv
<1>9. CASE UNCHANGED vars
  BY <1>9 DEF vars, ModeInv
<1> QED
  BY <1>1, <1>2, <1>3, <1>4, <1>5, <1>6, <1>7, <1>8, <1>9 DEF Next, Button, Both

(* No review, no place.                                                  *)
LEMMA StandsInvInit == Init => StandsInv
  BY DEF Init, StandsInv

(* A double press on a page does nothing.                                  *)
LEMMA StalePress ==
    ASSUME ModeInv, BothOnPage
    PROVE  UNCHANGED <<vd, screen, shown, intros, build, review, shortcut, answer, skipped>>
  BY DEF BothOnPage, ModeInv, Same

(* Every step keeps the place.                                           *)
LEMMA StandsInvKept == ModeInv /\ StandsInv /\ [Next]_vars => StandsInv'
<1> SUFFICES ASSUME ModeInv, StandsInv, [Next]_vars PROVE StandsInv'
  OBVIOUS
<1>0. build \in Builds /\ review \in Reviews
  BY DEF ModeInv
<1>1. ASSUME NEW r \in Reviews, Show(r) PROVE StandsInv'
  <2>1. screen' = "error" \/ Lands(r, FALSE, 0)
    BY <1>0, <1>1, Opens DEF Show
  <2>2. /\ build' = build /\ review' = r /\ answer' = "none" /\ skipped' = FALSE
    BY <1>1 DEF Show
  <2>3. CASE screen' = "error"
    BY <2>2, <2>3 DEF StandsInv
  <2>4. CASE Lands(r, FALSE, 0)
    <3>1. screen' = "review" /\ OnLine(build', review', vd', shown', intros', skipped', 0)
      BY <2>2, <2>4 DEF Lands
    <3>2. \E x : OnLine(build', review', vd', shown', intros', skipped', x)
      BY <3>1
    <3> QED
      BY <2>2, <3>1, <3>2 DEF StandsInv, Stands
  <2> QED
    BY <2>1, <2>3, <2>4
<1>2. CASE Button
  <2>1. PICK x, y : Walks(x, y)
    BY <1>2, ButtonWalks
  <2>2. UNCHANGED <<build, review, answer, skipped>> /\ screen # "idle"
    BY <1>2 DEF Button, Right, Left, SkipRight, SkipLeft, Same
  <2>3. answer = "none"
    BY <2>2 DEF StandsInv
  <2>4. CASE screen' = "error"
    BY <2>2, <2>3, <2>4 DEF StandsInv
  <2>5. CASE screen' # "error"
    <3>1. /\ screen' \in {"review", "skip"} /\ (screen' = "skip" => review'.progressive)
          /\ OnLine(build', review', vd', shown', intros', skipped', y)
      BY <2>1, <2>2, <2>5 DEF Walks
    <3>2. \E z : OnLine(build', review', vd', shown', intros', skipped', z)
      BY <3>1
    <3> QED
      BY <2>2, <2>3, <3>1, <3>2 DEF StandsInv, Stands
  <2> QED
    BY <2>4, <2>5
<1>3. CASE SkipBoth
  <2>1. PICK x : Stands(x)
    BY <1>3 DEF SkipBoth, StandsInv
  <2>2. Lands(review, TRUE, Approve(build, review))
    BY <1>0, <1>3, <2>1, Skips DEF Stands, SkipBoth, Step
  <2>3. UNCHANGED <<build, review, answer>> /\ skipped' = TRUE /\ answer = "none"
    BY <1>3 DEF SkipBoth, StandsInv
  <2>4. /\ screen' = "review"
        /\ OnLine(build', review', vd', shown', intros', skipped', Approve(build, review))
    BY <2>2, <2>3 DEF Lands
  <2>5. \E z : OnLine(build', review', vd', shown', intros', skipped', z)
    BY <2>4
  <2> QED
    BY <2>3, <2>4, <2>5 DEF StandsInv, Stands
<1>4. CASE Accept \/ Reject
  <2>1. PICK x : Stands(x)
    BY <1>4 DEF Accept, Reject, StandsInv
  <2>2. skipped \/ Told(build, review, shown, intros)
    BY <1>0, <1>4, <2>1, Decided DEF Accept, Reject
  <2>3. UNCHANGED <<build, review, shown, intros, skipped>> /\ screen' = "idle"
    BY <1>4 DEF Accept, Reject, End
  <2> QED
    BY <2>2, <2>3 DEF StandsInv
<1>5. CASE BothOnPage
  BY <1>5, StalePress DEF StandsInv, Stands
<1>6. CASE ErrorRight
  BY <1>6 DEF ErrorRight, End, StandsInv
<1>7. CASE DisableShortcut
  BY <1>7 DEF DisableShortcut, StandsInv
<1>8. CASE IoReset
  BY <1>8 DEF IoReset, StandsInv
<1>9. CASE UNCHANGED vars
  BY <1>9 DEF vars, StandsInv, Stands
<1> QED
  BY <1>1, <1>2, <1>3, <1>4, <1>5, <1>6, <1>7, <1>8, <1>9 DEF Next, Button, Both

-----------------------------------------------------------------------------
(* h_review_update_data has the warning of blind signing in the last       *)
(* branch of an #if, behind those of the review screen and the shortcut: a *)
(* build with the shortcut too would never show it.  (With the review      *)
(* screen only, its other introduction pages end in an error.)             *)
WarnsAlone == \A b \in Builds : ~({"BLINDSIGN", "SHORTCUT"} \subseteq b)

(* Whoever read every introduction text was warned.                        *)
LEMMA WarnsBeforeItems ==
    ASSUME WarnsAlone, NEW b \in Builds, NEW r \in Reviews, NEW t,
           "BLINDSIGN" \in b, r.blind, SignsTransaction(r), Read(b, r, Intro(b, r), t)
    PROVE  Range(BlindTexts) \subseteq t
<1>1. "SHORTCUT" \notin b /\ r.kind \in {"TXN", "GROUP_TXN"}
  BY DEF WarnsAlone, SignsTransaction
<1>2. Intro(b, r) = 3
  BY <1>1 DEF Intro, INTRO_PAGES
<1>3. 0 \in 0 .. 3 - 1 /\ 1 \in 0 .. 3 - 1 /\ 2 \in 0 .. 3 - 1
  OBVIOUS
<1>4. /\ IntroText(b, r, 0) \in t /\ IntroText(b, r, 1) \in t /\ IntroText(b, r, 2) \in t
      /\ IntroText(b, r, 1) # "error"
  BY <1>2, <1>3 DEF Read
<1>5. "REVIEW_SCREEN" \notin b
  BY <1>1, <1>4 DEF IntroText
<1>6. /\ IntroText(b, r, 0) = BlindTexts[1] /\ IntroText(b, r, 1) = BlindTexts[2]
      /\ IntroText(b, r, 2) = BlindTexts[3]
  <2>1. \A k : IntroText(b, r, k) = BlindTexts[k + 1]
    BY <1>1, <1>5 DEF IntroText
  <2>2. 0 + 1 = 1 /\ 1 + 1 = 2 /\ 2 + 1 = 3
    OBVIOUS
  <2> QED
    BY <2>1, <2>2
<1>7. Range(BlindTexts) = {BlindTexts[1], BlindTexts[2], BlindTexts[3]}
  BY DEF Range, BlindTexts
<1> QED
  BY <1>4, <1>6, <1>7

(* ApprovedAfterReading: nobody comes to the items that approve and reject *)
(* but through every page, and before a transaction that is signed blindly *)
(* through the whole warning, or by the double press of the skip menu.     *)
THEOREM ReadingComesFirst ==
    ASSUME WarnsAlone PROVE Spec => []ApprovedAfterReading
<1>1. ModeInv /\ StandsInv => ApprovedAfterReading
  <2> SUFFICES ASSUME ModeInv, StandsInv, At = "decision" \/ answer \in {"approved", "rejected"},
                      ~skipped
               PROVE  /\ PagesOf(review.pages) \subseteq shown
                      /\ review.blind /\ SignsTransaction(review)
                           => Range(BlindTexts) \subseteq intros
    BY DEF ApprovedAfterReading
  <2>1. build \in Builds /\ review \in Reviews
    BY DEF ModeInv
  <2>2. Told(build, review, shown, intros) /\ (review.blind => "BLINDSIGN" \in build)
    <3>1. CASE At = "decision"
      <4>1. screen = "review" /\ Class(review, vd) = "decision"
        BY <3>1 DEF At, StandsInv
      <4>2. PICK x : Stands(x)
        BY <4>1 DEF StandsInv
      <4>3. Told(build, review, shown, intros)
        BY <2>1, <4>1, <4>2, Decided
      <4> QED
        BY <4>1, <4>3 DEF ModeInv
    <3>2. CASE answer \in {"approved", "rejected"}
      BY <3>2 DEF StandsInv, ModeInv
    <3> QED
      BY <3>1, <3>2
  <2>3. PagesOf(review.pages) \subseteq shown /\ Read(build, review, Intro(build, review), intros)
    BY <2>2 DEF Told
  <2> QED
    BY <2>1, <2>2, <2>3, WarnsBeforeItems
<1>2. ModeInv /\ StandsInv /\ [Next]_vars => ModeInv' /\ StandsInv'
  BY ModeInvKept, StandsInvKept
<1> QED
  BY <1>1, <1>2, ModeInvInit, StandsInvInit, PTL DEF Spec

(* StaleSkipHarmless: a flag that outlived its skip menu does not let a    *)
(* double press leave a page: while it is set, the shortcut is not.        *)
THEOREM StalePressKeepsPage == Spec => StaleSkipHarmless
<1>1. ModeInv /\ StandsInv => [BothOnPage => vd' = vd]_vars
  BY StalePress
<1>2. ModeInv /\ StandsInv /\ [Next]_vars => ModeInv' /\ StandsInv'
  BY ModeInvKept, StandsInvKept
<1> QED
  BY <1>1, <1>2, ModeInvInit, StandsInvInit, PTL DEF Spec, StaleSkipHarmless

-----------------------------------------------------------------------------
(* The line of screens (ReviewSpec): the place of the invariant is the one *)
(* that the refinement computes from the cursor.                           *)
OnPlace ==
    build \in Builds /\ review \in Reviews =>
        /\ screen \in {"idle", "error"} => Place = -1
        /\ screen \in {"review", "skip"} => \A x : Stands(x) => Place = x

(* It does so by class: introduction, page or decision.                  *)
LEMMA PlaceKnown == OnPlace
<1> SUFFICES ASSUME build \in Builds, review \in Reviews
             PROVE  /\ screen \in {"idle", "error"} => Place = -1
                    /\ screen \in {"review", "skip"} => \A x : Stands(x) => Place = x
  BY DEF OnPlace
<1>1. screen \in {"idle", "error"} => Place = -1
  BY DEF Place
<1>2. ASSUME screen \in {"review", "skip"}, NEW x, Stands(x) PROVE Place = x
  <2> DEFINE o == Intro(build, review)
             tot == CountOf(review.pages)
             page == PageAt(review, vd)
  <2>1. LineOf(build, review).front = o /\ LineOf(build, review).items = tot
    BY IntroIs DEF LineOf, CountOf, getIntroPages, Intro
  <2>2. o \in 0 .. 3 /\ IsItems(review.pages)
    BY ReviewTyped
  <2>3. tot \in Nat
    BY <2>2, UpToFinite
  <2>4. Place = IF Class(review, vd) = "intro" THEN vd.itemIdx
                ELSE IF Class(review, vd) = "decision"
                  THEN o + tot + vd.itemIdx - (vd.itemCount - 1)
                ELSE IF page \in PagesOf(review.pages)
                  THEN o + Cardinality(PagesUpTo(review.pages, page[1], page[2])) ELSE -2
    <3>1. Class(review, vd) \in {"intro", "decision", "page"}
      BY DEF Class
    <3> HIDE DEF o, tot
    <3>2. CASE Class(review, vd) = "intro"
      BY <1>2, <3>2 DEF Place
    <3>3. CASE Class(review, vd) = "decision"
      BY <1>2, <2>1, <3>3 DEF Place
    <3>4. CASE Class(review, vd) = "page"
      BY <1>2, <2>1, <3>4 DEF Place
    <3> QED
      BY <3>1, <3>2, <3>3, <3>4
  <2> HIDE DEF page, tot
  <2>5. ASSUME NEW n, AtIntro(build, review, vd, intros, skipped, x, n) PROVE Place = x
    <3>1. Class(review, vd) = "intro" /\ vd.itemIdx = x
      BY <2>5, IntroClass DEF AtIntro
    <3> QED
      BY <2>4, <3>1
  <2>6. ASSUME NEW i, NEW p, NEW m, AtPage(build, review, vd, shown, intros, skipped, x, i, p, m)
        PROVE  Place = x
    <3>1. Class(review, vd) = "page" /\ page = <<i, p>>
      BY <2>6, PageClass DEF AtPage, page
    <3>2. <<i, p>> \in PagesOf(review.pages)
      <4>1. IsPage(review.pages, i, p, m)
        BY <2>6 DEF AtPage, OnPage
      <4> QED
        BY <2>2, <4>1, UpToCount DEF OneMorePage
    <3>3. x = o + CountUpTo(review.pages, i, p)
      BY <2>6 DEF AtPage
    <3> QED
      BY <2>4, <3>1, <3>2, <3>3 DEF CountUpTo
  <2>7. ASSUME NEW e, NEW n, AtDecision(build, review, vd, shown, intros, skipped, x, e, n)
        PROVE  Place = x
    <3>1. Class(review, vd) = "decision" /\ vd.itemIdx - (vd.itemCount - 1) = e
      BY <2>7, DecisionClass DEF AtDecision
    <3>2. x = (o + tot) + e /\ e \in {0, 1}
      BY <2>7 DEF AtDecision, OnDecision, Approve, tot
    <3>3. vd.itemIdx \in Int /\ vd.itemCount \in Int
      <4>1. PICK y : y = (n - 1) + e /\ vd = CursorAt(y, 0, 1, n) /\ n \in Counts(build, review)
        BY <2>7 DEF AtDecision, OnDecision
      <4>2. n \in Int
        BY <4>1, ReviewTyped DEF Counts
      <4> QED
        BY <3>2, <4>1, <4>2, CursorFields
    <3> DEFINE f == vd.itemIdx
               g == vd.itemCount
    <3>4. Place = o + tot + f - (g - 1)
      BY <2>4, <3>1
    <3>5. f - (g - 1) = e /\ f \in Int /\ g \in Int
      BY <3>1, <3>3
    <3> HIDE DEF f, g, o
    <3> QED
      BY <2>2, <2>3, <3>2, <3>4, <3>5 DEF o
  <2> QED
    BY <1>2, <2>5, <2>6, <2>7 DEF Stands, OnLine
<1> QED
  BY <1>1, <1>2

(* The line of a review.                                                   *)
LEMMA LineIs ==
    ASSUME NEW b \in Builds, NEW r \in Reviews
    PROVE  /\ LineOf(b, r).front + LineOf(b, r).items = Approve(b, r)
           /\ LineOf(b, r).back = 2 /\ LineOf(b, r) \in AllLines
           /\ Approve(b, r) \in Nat
           /\ r.progressive => LineOf(b, r).skip
<1> DEFINE o == Intro(b, r)
           tot == CountOf(r.pages)
<1>1. LineOf(b, r).front = getIntroPages(b, r) /\ LineOf(b, r).items = tot
      /\ LineOf(b, r).back = 2 /\ (r.progressive => LineOf(b, r).skip)
  BY DEF LineOf, CountOf
<1>2. getIntroPages(b, r) = o
  BY DEF getIntroPages, Intro
<1>3. o \in 0 .. 3 /\ IsItems(r.pages)
  BY ReviewTyped
<1>4. tot \in Nat
  BY <1>3, UpToFinite
<1> HIDE DEF o, tot
<1>5. o + tot \in Nat
  BY <1>3, <1>4
<1> QED
  BY <1>1, <1>2, <1>5 DEF AllLines, Approve, o, tot

(* A place of the invariant is on the line.                                *)
LEMMA StandsOnLine ==
    ASSUME build \in Builds, review \in Reviews, screen \in {"review", "skip"}, NEW x, Stands(x)
    PROVE  Place = x /\ x \in 0 .. Approve(build, review) + 1
<1>1. Place = x
  BY PlaceKnown DEF OnPlace
<1>2. x \in 0 .. Approve(build, review) + 1
  BY LineTyped DEF Stands
<1> QED
  BY <1>1, <1>2

(* Where a step leads, by the same computation.                            *)
LEMMA PlaceNext ==
    ASSUME build' \in Builds, review' \in Reviews
    PROVE  /\ screen' \in {"idle", "error"} => Place' = -1
           /\ \A x : screen' \in {"review", "skip"}
                       /\ OnLine(build', review', vd', shown', intros', skipped', x) => Place' = x
<1>1. OnPlace'
  BY PlaceKnown, PTL
<1> QED
  BY <1>1 DEF OnPlace, Stands

(* The first state is one of the line.                                     *)
LEMMA StartsNowhere == Init => Abs!AbsInit
<1> SUFFICES ASSUME Init PROVE Abs!AbsInit
  OBVIOUS
<1>1. build \in Builds /\ review \in Reviews /\ screen = "idle" /\ answer = "none"
  BY DEF Init
<1>2. Place = -1
  BY <1>1, PlaceKnown DEF OnPlace
<1>3. LineOf(build, review) \in AllLines
  BY <1>1, LineIs
<1> QED
  BY <1>1, <1>2, <1>3 DEF Abs!AbsInit, Abs!Nowhere

(* A review opens at its first screen, or fails to.                        *)
LEMMA ShowOpens ==
    ASSUME ModeInv, StandsInv, ModeInv', NEW r \in Reviews, Show(r)
    PROVE  Abs!AbsNext
<1>1. /\ build \in Builds /\ review \in Reviews /\ build' = build /\ review' = r
      /\ answer' = "none" /\ skipped' = FALSE /\ screen = "idle"
  BY DEF ModeInv, Show
<1>2. Place = -1
  BY <1>1, PlaceKnown DEF OnPlace
<1> DEFINE l == LineOf(build, r)
<1>3. LineOf(build, review)' = l /\ l \in AllLines
  BY <1>1, LineIs DEF LineOf, getIntroPages, INTRO_PAGES
<1>4. screen' = "error" \/ Lands(r, FALSE, 0)
  BY <1>1, Opens DEF Show
<1> HIDE DEF l
<1>5. CASE screen' = "error"
  <2>1. Place' = -1
    BY <1>1, <1>5, PlaceNext
  <2>2. Abs!Refuse(l)
    BY <1>1, <1>2, <1>3, <2>1 DEF Abs!Refuse, Abs!Nowhere
  <2> QED
    BY <1>3, <2>2 DEF Abs!AbsNext
<1>6. CASE Lands(r, FALSE, 0)
  <2>1. Place' = 0
    BY <1>1, <1>6, PlaceNext DEF Lands
  <2>2. Abs!Open(l)
    BY <1>1, <1>2, <1>3, <2>1 DEF Abs!Open, Abs!Nowhere
  <2> QED
    BY <1>3, <2>2 DEF Abs!AbsNext
<1> QED
  BY <1>4, <1>5, <1>6

(* A button moves by one screen, or shows an error.                        *)
LEMMA ButtonMoves ==
    ASSUME ModeInv, StandsInv, Button
    PROVE  [Abs!AbsNext]_(Abs!absVars)
<1>1. /\ build \in Builds /\ review \in Reviews /\ build' = build /\ review' = review
      /\ answer' = answer /\ skipped' = skipped /\ screen \in {"review", "skip"}
  BY DEF ModeInv, Button, Right, Left, SkipRight, SkipLeft, Same
<1>2. PICK x, y : Walks(x, y)
  BY ButtonWalks
<1> DEFINE z == Approve(build, review)
           line == LineOf(build, review)
           a == Place
           b == Place'
           ans == IF answer = "error" THEN "none" ELSE answer
<1>3. a = x /\ x \in 0 .. z + 1
  BY <1>1, <1>2, StandsOnLine DEF Walks
<1>4. /\ line' = line /\ ans' = ans
      /\ line.front + line.items = z /\ line.back = 2 /\ z \in Nat
  BY <1>1, LineIs
<1>5. CASE screen' = "error"
  <2>1. b = -1
    BY <1>1, <1>5, PlaceNext
  <2>2. Abs!Abandon
    BY <1>4, <2>1 DEF Abs!Abandon, Abs!Nowhere
  <2> QED
    BY <2>2 DEF Abs!AbsNext
<1>6. CASE screen' # "error"
  <2>1. screen' \in {"review", "skip"} /\ OnLine(build, review, vd', shown', intros', skipped, y)
    BY <1>2, <1>6 DEF Walks
  <2>2. b = y
    BY <1>1, <2>1, PlaceNext
  <2>3. y \in 0 .. z + 1
    BY <1>1, <2>1, LineTyped
  <2>4. y = x \/ y = x + 1 \/ y = x - 1
    BY <1>2 DEF Walks
  <2> HIDE DEF a, b, z, line, ans
  <2>5. CASE y = x
    BY <1>3, <1>4, <2>2, <2>5 DEF Abs!absVars, a, b, line, ans
  <2>6. CASE y = x + 1 \/ y = x - 1
    <3>1. PICK step \in {-1, 1} : b = a + step
      <4>1. y = x + 1 \/ y = x + (-1)
        BY <1>3, <1>4, <2>4, <2>6
      <4> QED
        BY <1>3, <2>2, <4>1
    <3>2. (line.front + line.items) + line.back - 1 = z + 1 /\ a # -1
      BY <1>3, <1>4
    <3>3. b \in 0 .. (line.front + line.items) + line.back - 1
      BY <2>2, <2>3, <3>2
    <3>4. Abs!Move(step)
      BY <1>4, <3>1, <3>2, <3>3 DEF Abs!Move, Abs!ApprovePlace, Abs!Nowhere, a, b, line, ans
    <3> QED
      BY <3>4 DEF Abs!AbsNext
  <2> QED
    BY <2>4, <2>5, <2>6
<1> QED
  BY <1>5, <1>6

(* The double press of the skip menu leads to the approval.                *)
LEMMA SkipMoves ==
    ASSUME ModeInv, StandsInv, SkipBoth
    PROVE  Abs!AbsNext
<1>1. /\ build \in Builds /\ review \in Reviews /\ build' = build /\ review' = review
      /\ answer' = answer /\ skipped' = TRUE /\ screen = "skip" /\ review.progressive
  BY DEF ModeInv, StandsInv, SkipBoth
<1>2. PICK x : Stands(x)
  BY <1>1 DEF StandsInv
<1> DEFINE z == Approve(build, review)
           line == LineOf(build, review)
           a == Place
           b == Place'
<1>3. a = x /\ x \in 0 .. z + 1
  BY <1>1, <1>2, StandsOnLine
<1>4. Lands(review, TRUE, z)
  BY <1>1, <1>2, Skips DEF Stands, SkipBoth, Step
<1>5. b = z
  BY <1>1, <1>4, PlaceNext DEF Lands
<1>6. line' = line /\ line.front + line.items = z /\ z \in Nat /\ line.skip
  BY <1>1, LineIs
<1> HIDE DEF a, b, z, line
<1>7. a # -1 /\ b \in 0 .. z
  BY <1>3, <1>5, <1>6
<1>8. Abs!Skip
  BY <1>1, <1>5, <1>6, <1>7 DEF Abs!Skip, Abs!ApprovePlace, Abs!Nowhere, a, b, line
<1> QED
  BY <1>8 DEF Abs!AbsNext

(* An answer closes the review at its end.                                 *)
LEMMA AnswerCloses ==
    ASSUME ModeInv, StandsInv, Accept \/ Reject
    PROVE  Abs!AbsNext
<1>1. /\ build \in Builds /\ review \in Reviews /\ build' = build /\ review' = review
      /\ screen = "review" /\ screen' = "idle"
      /\ \/ is_accept_item(vd) /\ answer' = "approved"
         \/ is_reject_item(vd) /\ answer' = "rejected"
  BY DEF ModeInv, Accept, Reject, End
<1>2. PICK x : Stands(x)
  BY <1>1 DEF StandsInv
<1> DEFINE z == Approve(build, review)
           line == LineOf(build, review)
           a == Place
           b == Place'
<1>3. a = x
  BY <1>1, <1>2, StandsOnLine
<1>4. \/ a = z + 0 /\ answer' = "approved"
      \/ a = z + 1 /\ answer' = "rejected"
  BY <1>1, <1>2, <1>3, Decided
<1>5. b = -1
  BY <1>1, PlaceNext
<1>6. line' = line /\ line.front + line.items = z /\ z \in Nat
  BY <1>1, LineIs
<1> HIDE DEF a, b, z, line
<1>7. a >= z /\ answer' = (IF a = z THEN "approved" ELSE "rejected")
  BY <1>4, <1>6
<1>8. Abs!Close
  BY <1>5, <1>6, <1>7 DEF Abs!Close, Abs!ApprovePlace, Abs!Nowhere, a, b, line
<1> QED
  BY <1>8 DEF Abs!AbsNext

(* A step of the review is a step of the line, or none.                    *)
LEMMA StepOfTheLine ==
    ModeInv /\ StandsInv /\ [Next]_vars => [Abs!AbsNext]_(Abs!absVars)
<1> SUFFICES ASSUME ModeInv, StandsInv, [Next]_vars PROVE [Abs!AbsNext]_(Abs!absVars)
  OBVIOUS
<1>0. build \in Builds /\ review \in Reviews
  BY DEF ModeInv
<1>i. ModeInv'
  BY ModeInvKept
<1>1. ASSUME NEW r \in Reviews, Show(r) PROVE Abs!AbsNext
  BY <1>i, <1>1, ShowOpens
<1>2. CASE Button
  BY <1>2, ButtonMoves
<1>3. CASE SkipBoth
  BY <1>3, SkipMoves
<1>4. CASE Accept \/ Reject
  BY <1>4, AnswerCloses
<1>5. CASE BothOnPage
  <2>1. UNCHANGED <<build, review, screen, vd, answer>>
    BY <1>5, StalePress
  <2>2. Place' = Place /\ LineOf(build, review)' = LineOf(build, review)
    BY <2>1 DEF Place, LineOf, getIntroPages, INTRO_PAGES, Class, PageAt,
                is_accept_item, is_reject_item
  <2> QED
    BY <2>1, <2>2 DEF Abs!absVars
<1>6. CASE ErrorRight
  <2>1. /\ screen = "error" /\ screen' = "idle" /\ answer = "none" /\ answer' = "error"
        /\ build' = build /\ review' = review
    BY <1>6 DEF ErrorRight, End, StandsInv
  <2>2. Place = -1 /\ Place' = -1
    BY <1>0, <2>1, PlaceKnown, PlaceNext DEF OnPlace
  <2>3. LineOf(build, review)' = LineOf(build, review)
    BY <2>1
  <2> QED
    BY <2>1, <2>2, <2>3 DEF Abs!absVars
<1>7. CASE DisableShortcut \/ UNCHANGED vars
  <2>1. UNCHANGED <<build, review, screen, vd, answer>>
    BY <1>7 DEF DisableShortcut, vars
  <2>2. Place' = Place /\ LineOf(build, review)' = LineOf(build, review)
    BY <2>1 DEF Place, LineOf, getIntroPages, INTRO_PAGES, Class, PageAt,
                is_accept_item, is_reject_item
  <2> QED
    BY <2>1, <2>2 DEF Abs!absVars
<1>8. CASE IoReset
  <2>1. UNCHANGED <<build, review, answer>> /\ screen' = "idle"
    BY <1>8 DEF IoReset
  <2>2. Place' = -1
    BY <1>0, <2>1, PlaceNext
  <2>3. LineOf(build, review)' = LineOf(build, review)
    BY <2>1
  <2>4. Abs!Abandon
    BY <2>1, <2>2, <2>3 DEF Abs!Abandon, Abs!Nowhere
  <2> QED
    BY <2>4 DEF Abs!AbsNext
<1> QED
  BY <1>1, <1>2, <1>3, <1>4, <1>5, <1>6, <1>7, <1>8 DEF Next, Button, Both

(* ImplementsLine: introduction, pages, approval and rejection are the     *)
(* line of ReviewSpec, whatever the build and the items: each press moves  *)
(* by one screen at most, over items without pages too, an answer is given *)
(* at its end only, and only the skip menu's double press goes further.    *)
THEOREM LineImplemented == Spec => ImplementsLine
<1>1. ModeInv /\ StandsInv /\ [Next]_vars => ModeInv' /\ StandsInv'
  BY ModeInvKept, StandsInvKept
<1>2. ModeInv /\ StandsInv /\ [Next]_vars => [Abs!AbsNext]_(Abs!absVars)
  BY StepOfTheLine
<1> QED
  BY <1>1, <1>2, ModeInvInit, StandsInvInit, StartsNowhere, PTL
     DEF Spec, ImplementsLine, Abs!AbsSpec

=============================================================================
