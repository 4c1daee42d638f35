---------------------------- MODULE ReviewNanoX ----------------------------
(***************************************************************************)
(* app/ui/view_x.c: the review of a transaction, a message or an address   *)
(* on Nano X and Nano S+.  The SDK walks a flow of steps; three of them,   *)
(* start, inside and end, form the loop that walks the items: entering     *)
(* start or end only moves the cursor and jumps to inside, which shows the *)
(* page at the cursor.                                                     *)
(*                                                                         *)
(* The SDK is external: right and left enter the next and the previous     *)
(* step of the flow, if there is one, and a double press calls what the    *)
(* step validates.  The scrolling of a long page inside one step is its    *)
(* own affair.                                                             *)
(***************************************************************************)
EXTENDS NanoPaging, FiniteSetsExt, SequencesExt

CONSTANT Reviews   (* what the application may ask to review *)

(* intent: shown by view_review_show_with_intent with a non-empty intent;  *)
(* progressive: prepared by view_review_init_progressive; blind:           *)
(* app_mode_blindsign_required(); shortcut: app_mode_shortcut().           *)
Review == [pages : Seq(0 .. 254), kind : {"UI", "ADDRESS", "MSG", "TXN"},
           intent : BOOLEAN, progressive : BOOLEAN,
           blind : BOOLEAN, shortcut : BOOLEAN]

ASSUME ReviewsAssumption ==
    /\ Reviews \subseteq Review
    /\ ExtraScreens = 0
    /\ \A r \in Reviews : Len(r.pages) \in 1 .. 128 /\ Last(r.pages) > 0
    (* A blind review has no ux_review_flow_3_step, where both ways to skip *)
    (* start again: what the SDK does then is not known here.               *)
    /\ \A r \in Reviews : r.blind => ~r.progressive /\ ~r.shortcut

VARIABLES
    review,            (* the review asked for last                        *)
    vd,                (* viewdata: the cursor                             *)
    flow_inside_loop,  (* uint8_t flow_inside_loop                         *)
    flow,              (* ux_review_flow                                   *)
    at,                (* CUR_FLOW.index + 1; 0 on the idle screen         *)
    answer,            (* what the user answered last                      *)
    shown,             (* history: the pages shown, as <<item, page>>      *)
    skipped            (* history: the user double-pressed to skip         *)

vars == <<review, vd, flow_inside_loop, flow, at, answer, shown, skipped>>

Screen == IF at = 0 THEN "idle" ELSE flow[at]

-----------------------------------------------------------------------------
(* run_ux_review_flow: the steps of a review.                              *)
BlindWarning(r) ==
    IF r.blind /\ r.kind \in {"MSG", "TXN"} THEN <<"warning", "warning_text">> ELSE << >>

SkipFields(r) == IF r.shortcut /\ r.kind = "TXN" THEN <<"shortcut">> ELSE << >>

Loop == <<"start", "inside", "end">>

ReviewFlow(r) ==
    BlindWarning(r) \o <<"title">> \o SkipFields(r) \o Loop \o <<"approve", "reject">>

(* view_review_show_with_intent_impl builds a flow of its own for some     *)
(* kinds; view_review_show_impl is the case without an intent.             *)
ShownFlow(r) ==
    IF r.intent /\ r.kind \in {"MSG", "TXN"}
      THEN <<"title">> \o Loop \o <<"approve">>
      ELSE ReviewFlow(r)

(* ux_flow_init with a start step. *)
Position(f, step) == CHOOSE k \in DOMAIN f : f[k] = step

-----------------------------------------------------------------------------
Init ==
    /\ review \in Reviews
    /\ vd = [itemIdx |-> 0, pageIdx |-> 0, pageCount |-> 0, itemCount |-> 0]
    /\ flow_inside_loop = FALSE
    /\ flow = << >>
    /\ at = 0
    /\ answer = "none"
    /\ shown = {}
    /\ skipped = FALSE

Show(r) ==
    /\ Screen = "idle"
    /\ review' = r
    /\ vd' = h_paging_decrease(h_paging_init)
    /\ flow_inside_loop' = FALSE
    /\ flow' = ShownFlow(r)
    /\ at' = 1
    /\ answer' = "none"
    /\ shown' = {}
    /\ skipped' = FALSE

Enter(f, k, d, inside) ==
    /\ flow' = f /\ at' = k /\ vd' = d /\ flow_inside_loop' = inside

(* The step inside: h_review_loop_inside, and the page at the cursor. *)
EnterInside(f, d) ==
    /\ Enter(f, Position(f, "inside"), d, TRUE)
    /\ shown' = shown \cup {<<d.itemIdx, d.pageIdx>>}

(* mutant: leaving to the left keeps flow_inside_loop *)
EnterStartStayingInside(f, d) ==
    IF flow_inside_loop /\ ~h_paging_can_decrease(d)
      THEN Enter(f, Position(f, "start") - 1, d, TRUE) /\ UNCHANGED shown
      ELSE LET from == IF flow_inside_loop THEN h_paging_decrease(d) ELSE h_paging_init
           IN  EnterInside(f, UpdateItem(from, review.pages, 0).vd)

(* h_review_loop_start *)
EnterStart(f, d) ==
    IF flow_inside_loop /\ ~h_paging_can_decrease(d)
      THEN Enter(f, Position(f, "start") - 1, d, FALSE) /\ UNCHANGED shown
      ELSE LET from == IF flow_inside_loop THEN h_paging_decrease(d) ELSE h_paging_init
           IN  EnterInside(f, UpdateItem(from, review.pages, 0).vd)

(* h_review_loop_end asks before it shows an item's last page. *)
AsksToSkip(d) ==
    /\ review.progressive
    /\ review.kind \in {"TXN", "MSG"}
    /\ d.pageIdx = d.pageCount - 1
    /\ d.itemIdx > 1 /\ d.itemIdx < d.itemCount - 1

(* h_review_loop_end *)
EnterEnd ==
    LET from == IF flow_inside_loop THEN h_paging_increase(vd) ELSE h_paging_decrease(vd)
        next == UpdateItem(from, review.pages, 0)
    IN  IF flow_inside_loop /\ next.err = "no_data"
          THEN Enter(flow, Position(flow, "approve"), next.vd, FALSE)
               /\ UNCHANGED shown
        ELSE IF flow_inside_loop /\ AsksToSkip(next.vd)
          THEN Enter(<<"skip">>, 1, next.vd, TRUE) /\ UNCHANGED shown
        ELSE EnterInside(flow, next.vd)

(* A step without an init function of the loop. *)
EnterPlain(k) == Enter(flow, k, vd, flow_inside_loop) /\ UNCHANGED shown

EnterStep(k) ==
    CASE flow[k] = "start" -> EnterStart(flow, vd)
      [] flow[k] = "end"   -> EnterEnd
      [] OTHER             -> EnterPlain(k)

-----------------------------------------------------------------------------
(* The buttons, on any screen of a review but "skip".                      *)
FlowRight ==
    /\ Screen # "skip" /\ at \in 1 .. Len(flow) - 1
    /\ EnterStep(at + 1)

FlowLeft ==
    /\ Screen # "skip" /\ at > 1
    /\ EnterStep(at - 1)

(* mutant: viewdata.itemIdx++ is missing *)
SkipRightStaying == Screen = "skip" /\ EnterStart(ReviewFlow(review), vd)

(* handle_button_push, on the screen "skip". *)
SkipRight ==
    /\ Screen = "skip"
    /\ EnterStart(ReviewFlow(review), [vd EXCEPT !.itemIdx = (@ + 1) % 256])

SkipLeft == Screen = "skip" /\ EnterStart(ReviewFlow(review), vd)

(* A double press on the skip screen, or on the shortcut (h_shortcut). *)
SkipToApproval ==
    /\ Screen \in {"skip", "shortcut"}
    /\ LET f == ReviewFlow(review)
       IN  Enter(f, Position(f, "approve"), vd, flow_inside_loop)
    /\ skipped' = TRUE
    /\ UNCHANGED <<review, answer, shown>>

Idle == flow' = << >> /\ at' = 0

(* h_approve and h_reject *)
Answer ==
    /\ Screen \in {"approve", "reject"}
    /\ answer' = IF Screen = "approve" THEN "approved" ELSE "rejected"
    /\ Idle
    /\ UNCHANGED <<review, vd, flow_inside_loop, shown, skipped>>

Unseen == UNCHANGED <<review, answer, skipped>>

Right == (FlowRight \/ SkipRight) /\ Unseen
Left  == (FlowLeft \/ SkipLeft) /\ Unseen

(* The device is unplugged: app_init shows the idle screen. *)
IoReset ==
    /\ Idle
    /\ UNCHANGED <<review, vd, flow_inside_loop, answer, shown, skipped>>

Next ==
    \/ \E r \in Reviews : Show(r)
    \/ Right
    \/ Left
    \/ SkipToApproval
    \/ Answer
    \/ IoReset

Spec == Init /\ [][Next]_vars

-----------------------------------------------------------------------------
(* Type invariant. *)
TypeOK ==
    /\ review \in Reviews
    /\ vd \in Cursor
    /\ flow_inside_loop \in BOOLEAN
    /\ at \in 0 .. Len(flow)
    /\ flow \in {<< >>, <<"skip">>} \cup {ShownFlow(r) : r \in Reviews}
                                    \cup {ReviewFlow(r) : r \in Reviews}
    /\ answer \in {"none", "approved", "rejected"}
    /\ skipped \in BOOLEAN

(* The screens that approve and reject are reached, and an approval given, *)
(* only after every page of every item was on the screen, whatever way the *)
(* user walked, or by an explicit double press on "skip"; "forcing users   *)
(* to review all items" (view_internal.h:195) when no one asks to skip.    *)
ApprovedAfterReading ==
    (Screen \in {"approve", "reject"} \/ answer # "none") /\ ~skipped
        => PagesOf(review.pages) \subseteq shown

(* No screen of the loop is empty or left over from another item. *)
PageExists == Screen \in {"inside", "skip"} => <<vd.itemIdx, vd.pageIdx>> \in PagesOf(review.pages)

(* "Press right to read" (view_x.c:112): right on the skip screen shows    *)
(* the page that the skip screen replaced.                                 *)
RightReads ==
    [][SkipRight /\ Unseen => /\ Screen' = "inside"
                              /\ vd'.itemIdx = vd.itemIdx
                              /\ vd'.pageIdx = vd.pageIdx]_vars

(* A user who from some moment on only presses right, and keeps doing so,  *)
(* comes to the end of the review (if one is open): items without pages,   *)
(* and skip screens that leave and rebuild the flow, never make a cycle.   *)
RightReachesApproval ==
    (<>[][Right]_vars /\ WF_vars(Right)) => <>[](Screen \in {"approve", "reject", "idle"})

-----------------------------------------------------------------------------
(* The review as a line of screens: what the loop of three steps is for.   *)
(* The skip screen leaves for the flow without an intent.                  *)
LineOf(r) ==
    LET f == IF r.progressive THEN ReviewFlow(r) ELSE ShownFlow(r)
    IN  [front |-> Position(f, "start") - 1,
         items |-> Cardinality(PagesOf(r.pages)),
         back  |-> Len(f) - Position(f, "end"),
         skip  |-> r.progressive \/ r.shortcut]

AllLines == {LineOf(r) : r \in Reviews}

(* The skip screen stands for the page that it hides, and a page that does *)
(* not exist has no place in the line.                                     *)
Place ==
    LET line == LineOf(review)
    IN  IF at = 0 THEN -1
        ELSE IF ~PageExists THEN -2
        ELSE IF Screen \in {"inside", "skip"}
          THEN line.front + Cardinality(PagesUpTo(review.pages, vd.itemIdx, vd.pageIdx))
        ELSE IF at <= line.front THEN at - 1
        ELSE line.front + line.items + at - Position(flow, "approve")

Abs == INSTANCE ReviewSpec
         WITH Lines <- AllLines, line <- LineOf(review), place <- Place, answer <- answer

(* No press of a button moves further than one screen along the line of    *)
(* all pages, also where the loop is entered and left, over items without  *)
(* pages and through the skip screen, and every screen of the loop is a    *)
(* page that exists; only a double press on a screen that offers to skip   *)
(* leads from anywhere to the approval, and left from there back.          *)
ImplementsLine == Abs!AbsSpec

=============================================================================
