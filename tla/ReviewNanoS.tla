---------------------------- MODULE ReviewNanoS ----------------------------
(***************************************************************************)
(* app/ui/view_s.c with the Nano S parts of app/ui/view_nano.c: a review   *)
(* is one list of introduction pages, items, an item that approves and one *)
(* that rejects.  The left and right buttons move the cursor, a double     *)
(* press answers, and in progressive reviews a skip menu comes up between  *)
(* items.                                                                  *)
(*                                                                         *)
(* The application is external: its getItem refuses every index that is    *)
(* not one of its items.  HAVE_INSPECT is taken as not defined.            *)
(***************************************************************************)
EXTENDS NanoPaging, FiniteSetsExt, SequencesExt

CONSTANTS
    Builds,    (* the sets of build flags to consider                      *)
    Reviews    (* what the application may ask to review                   *)

Flags == {"REVIEW_SCREEN", "SHORTCUT", "BLINDSIGN"}

Kinds == {"UI", "ADDRESS", "GENERIC", "TXN", "MSG", "GROUP_TXN"}

(* progressive: viewdata.with_confirmation; blind: the value of            *)
(* app_mode_blindsign_required(), shortcut: that of app_mode_shortcut().   *)
Review == [pages : Seq(0 .. 254), kind : Kinds, progressive : BOOLEAN,
           blind : BOOLEAN, shortcut : BOOLEAN]

ASSUME NanoSAssumption ==
    /\ ExtraScreens = 1
    /\ Builds \subseteq SUBSET Flags
    /\ Reviews \subseteq Review
    /\ \A r \in Reviews : Len(r.pages) \in 1 .. 128 /\ Last(r.pages) > 0

VARIABLES
    build,             (* the flags the program is built with; never changes *)
    review,            (* the review asked for last                        *)
    vd,                (* viewdata: the cursor                             *)
    is_in_skip_menu,   (* static bool is_in_skip_menu                      *)
    screen,            (* what is on the display                           *)
    shortcut,          (* app_mode_temporary.shortcut                      *)
    answer,            (* how the last review ended                        *)
    shown,             (* history: the pages shown, as <<item, page>>      *)
    intros,            (* history: the introduction texts shown            *)
    skipped            (* history: the user double-pressed to skip         *)

vars == <<build, review, vd, is_in_skip_menu, screen, shortcut, answer,
          shown, intros, skipped>>

SignsTransaction(r) == r.kind \in {"TXN", "GROUP_TXN"}

-----------------------------------------------------------------------------
(* INTRO_PAGES *)
INTRO_PAGES(flags) ==
    IF "BLINDSIGN" \in flags THEN 3
    ELSE Cardinality(flags \cap {"REVIEW_SCREEN", "SHORTCUT"})

getIntroPages(flags, r) ==
    IF "SHORTCUT" \in flags /\ (r.kind = "ADDRESS" \/ ~r.shortcut)
      THEN Max({INTRO_PAGES(flags) - 1, 0})
    ELSE IF "BLINDSIGN" \in flags /\ (~r.blind \/ r.kind = "ADDRESS") THEN 0
    ELSE IF r.kind = "MSG" THEN 1
    ELSE INTRO_PAGES(flags)

(* The text of introduction page k, or the error it ends in.  "unset": key *)
(* and value are null pointers, what is displayed is undefined.            *)
BlindTexts == <<"warning", "not_verifiable", "could_lose">>

IntroText(flags, r, k) ==
    IF "REVIEW_SCREEN" \in flags
      THEN CASE k = 0 /\ r.kind # "MSG"             -> "please_review"
             [] k = 1 /\ "SHORTCUT" \in flags       -> "skip_fields"
             [] OTHER                               -> "error"
    ELSE IF "SHORTCUT" \in flags THEN "skip_fields"
    ELSE IF "BLINDSIGN" \in flags
      THEN IF r.blind /\ SignsTransaction(r) THEN BlindTexts[k + 1] ELSE "unset"
    ELSE "review_message"

(* mutant: off by one *)
AcceptsOneEarly(d) == d.itemIdx = d.itemCount - 2

is_accept_item(d) == d.itemIdx = d.itemCount - 1
is_reject_item(d) == d.itemIdx = d.itemCount

set_accept_item(d) == [d EXCEPT !.itemIdx = d.itemCount - 1, !.pageIdx = 0]

(* h_review_update_data.  The item loop is asked only for an item that the *)
(* application has or that is one past its last.                           *)
Update(r, d) ==
    LET intro == getIntroPages(build, r)
        one   == [d EXCEPT !.pageCount = 1]
        here  == [err |-> "ok", vd |-> [one EXCEPT !.pageIdx = 0]]
    IN  IF is_accept_item(d) \/ is_reject_item(d) THEN here
        ELSE IF d.itemIdx < intro
          THEN IF IntroText(build, r, d.itemIdx) = "error"
                 THEN [err |-> "unknown", vd |-> one] ELSE here
        ELSE IF d.itemIdx - intro > Len(r.pages)
          THEN [err |-> "no_data", vd |-> [one EXCEPT !.itemCount = Len(r.pages) + intro]]
        ELSE UpdateItem(one, r.pages, intro)

(* What the display shows at cursor d of review r: a decision, an          *)
(* introduction text or a page of an item.                                 *)
Class(r, d) ==
    IF is_accept_item(d) \/ is_reject_item(d) THEN "decision"
    ELSE IF d.itemIdx < getIntroPages(build, r) THEN "intro"
    ELSE "page"

PageAt(r, d) == <<d.itemIdx - getIntroPages(build, r), d.pageIdx>>

(* h_review_update, and what it adds to the histories. *)
Display(r, d, seen, read) ==
    LET u     == Update(r, d)
        class == IF u.err = "ok" THEN Class(r, u.vd) ELSE "error"
    IN  /\ vd' = u.vd
        /\ screen' = IF class = "error" THEN "error" ELSE "review"
        /\ shown' = IF class = "page" THEN seen \cup {PageAt(r, u.vd)} ELSE seen
        /\ intros' = IF class = "intro" THEN read \cup {IntroText(build, r, u.vd.itemIdx)}
                                       ELSE read

-----------------------------------------------------------------------------
Init ==
    /\ build \in Builds
    /\ review \in Reviews
    /\ vd = [itemIdx |-> 0, pageIdx |-> 0, pageCount |-> 0, itemCount |-> 0]
    /\ is_in_skip_menu = FALSE
    /\ screen = "idle"
    /\ shortcut = FALSE
    /\ answer = "none"
    /\ shown = {} /\ intros = {} /\ skipped = FALSE

(* view_review_show_impl.  A review asked for is one that this build can   *)
(* ask for, under the shortcut mode as it is.                              *)
Show(r) ==
    /\ screen = "idle"
    /\ r.blind => "BLINDSIGN" \in build
    /\ r.shortcut = shortcut
    /\ review' = r
    /\ answer' = "none" /\ skipped' = FALSE
    /\ Display(r, h_paging_init, {}, {})
    /\ UNCHANGED <<build, is_in_skip_menu, shortcut>>

SkipMenuAllowed ==
    /\ review.progressive
    /\ review.kind \in {"TXN", "GROUP_TXN", "MSG"}
    /\ ~is_accept_item(vd) /\ ~is_reject_item(vd)
    /\ ~is_in_skip_menu

should_show_skip_menu_right ==
    SkipMenuAllowed /\ vd.pageIdx > 0 /\ vd.pageIdx = vd.pageCount - 1

should_show_skip_menu_left ==
    SkipMenuAllowed /\ vd.itemIdx > 0 /\ vd.pageIdx = 0

EnterSkipMenu ==
    /\ is_in_skip_menu' = TRUE
    /\ screen' = "skip"
    /\ UNCHANGED <<vd, shown, intros>>

(* h_review_button_right, h_review_button_left *)
Step(d) == is_in_skip_menu' = FALSE /\ Display(review, d, shown, intros)

Same == UNCHANGED <<build, review, shortcut, answer, skipped>>

(* view_review_button *)
Right ==
    /\ screen = "review"
    /\ IF should_show_skip_menu_right THEN EnterSkipMenu ELSE Step(h_paging_increase(vd))
    /\ Same

Left ==
    /\ screen = "review"
    /\ IF should_show_skip_menu_left THEN EnterSkipMenu ELSE Step(h_paging_decrease(vd))
    /\ Same

(* mutant: right on the skip menu goes back *)
SkipRightBack == screen = "skip" /\ Step(h_paging_decrease(vd)) /\ Same

(* view_skip_button: on, back, and to the approval. *)
SkipRight == screen = "skip" /\ Step(h_paging_increase(vd)) /\ Same

SkipLeft == screen = "skip" /\ Step(h_paging_decrease(vd)) /\ Same

SkipBoth ==
    /\ screen = "skip"
    /\ Step(set_accept_item(vd))
    /\ skipped' = TRUE
    /\ UNCHANGED <<build, review, shortcut, answer>>

(* The review is over: view_idle_show. *)
End(how) ==
    /\ screen' = "idle" /\ answer' = how
    /\ UNCHANGED <<build, review, vd, shown, intros, skipped>>

(* h_approve.  Accepting the review that shortcut_enabled opens sets the   *)
(* mode.                                                                   *)
Accept ==
    /\ screen = "review" /\ is_accept_item(vd)
    /\ is_in_skip_menu' = FALSE
    /\ shortcut' \in IF review.kind = "UI" /\ "SHORTCUT" \in build
                       THEN {shortcut, TRUE} ELSE {shortcut}
    /\ End("approved")

(* h_reject *)
Reject ==
    /\ screen = "review" /\ is_reject_item(vd)
    /\ is_in_skip_menu' = FALSE
    /\ UNCHANGED shortcut
    /\ End("rejected")

(* A double press on any other page does something only if the flag says   *)
(* that the skip menu is up; h_review_button_both clears it before         *)
(* h_review_action tests it.                                               *)
BothOnPage ==
    /\ screen = "review" /\ ~is_accept_item(vd) /\ ~is_reject_item(vd)
    /\ is_in_skip_menu
    /\ IF shortcut
         THEN Step(set_accept_item(vd))
         ELSE is_in_skip_menu' = FALSE /\ UNCHANGED <<vd, screen, shown, intros>>
    /\ Same

Both == SkipBoth \/ Accept \/ Reject \/ BothOnPage

(* view_error_button: right acknowledges. *)
ErrorRight ==
    /\ screen = "error"
    /\ UNCHANGED <<is_in_skip_menu, shortcut>>
    /\ End("error")

(* h_shortcut_toggle, when the mode is on. *)
DisableShortcut ==
    /\ screen = "idle" /\ shortcut
    /\ shortcut' = FALSE
    /\ UNCHANGED <<build, review, vd, is_in_skip_menu, screen, answer, shown, intros, skipped>>

(* mutant: app_mode_reset forgets the shortcut *)
IoResetKeepingShortcut ==
    /\ screen' = "idle"
    /\ UNCHANGED <<build, review, vd, is_in_skip_menu, shortcut, answer, shown, intros, skipped>>

(* The device is unplugged: app_init resets the modes and shows the idle   *)
(* screen.                                                                 *)
IoReset ==
    /\ screen' = "idle"
    /\ shortcut' = FALSE
    /\ UNCHANGED <<build, review, vd, is_in_skip_menu, answer, shown, intros, skipped>>

Next ==
    \/ \E r \in Reviews : Show(r)
    \/ Right \/ Left
    \/ SkipRight \/ SkipLeft
    \/ Both
    \/ ErrorRight
    \/ DisableShortcut
    \/ IoReset

Spec == Init /\ [][Next]_vars

-----------------------------------------------------------------------------
At == IF screen = "review" THEN Class(review, vd) ELSE screen

(* Nobody comes to the items that approve and reject without having seen   *)
(* every page, except by the double press of the skip menu: neither the    *)
(* skip menu's left and right, which move from where it came up, nor a     *)
(* flag left over from an aborted review opens another way; nor, before a  *)
(* transaction that is signed blindly, every part of the warning.          *)
ApprovedAfterReading ==
    (At = "decision" \/ answer \in {"approved", "rejected"}) /\ ~skipped
        => /\ PagesOf(review.pages) \subseteq shown
           /\ review.blind /\ SignsTransaction(review) => Range(BlindTexts) \subseteq intros

(* is_in_skip_menu may outlive its screen (an unplugged device), but then  *)
(* a double press on a page of the next review still does not leave it:    *)
(* the mode that would make it jump to the approval cannot be set without  *)
(* clearing the flag first.                                                *)
StaleSkipHarmless == [][BothOnPage => vd' = vd]_vars

(* A user who from some moment on presses only right, and goes on, comes   *)
(* to the end of the list (if a review is open): the skip menus and the    *)
(* items without pages never make a cycle.                                 *)
RightReachesEnd ==
    LET Forward == Right \/ SkipRight \/ ErrorRight
    IN  (<>[][Forward]_vars /\ WF_vars(Forward))
            => <>[](screen = "idle" \/ (screen = "review" /\ is_reject_item(vd)))

-----------------------------------------------------------------------------
(* The list as a line of screens, see ReviewSpec: introduction pages count *)
(* as items, the approving and the rejecting item are at its back.         *)
LineOf(flags, r) ==
    [front |-> getIntroPages(flags, r), items |-> Cardinality(PagesOf(r.pages)), back |-> 2,
     skip  |-> r.progressive \/ r.shortcut]

AllLines == {LineOf(b, r) : b \in Builds, r \in Reviews}

(* The skip menu hides the screen it came from, the error screen is no     *)
(* part of the review, and a page that does not exist has no place in it.  *)
Place ==
    LET line  == LineOf(build, review)
        class == Class(review, vd)
        page  == PageAt(review, vd)
    IN  IF screen \in {"idle", "error"} THEN -1
        ELSE CASE class = "intro"    -> vd.itemIdx
               [] class = "page" /\ page \in PagesOf(review.pages) ->
                    line.front + Cardinality(PagesUpTo(review.pages, page[1], page[2]))
               [] class = "decision" -> line.front + line.items + vd.itemIdx - (vd.itemCount - 1)
               [] OTHER              -> -2

Abs == INSTANCE ReviewSpec
         WITH Lines <- AllLines, line <- LineOf(build, review), place <- Place,
              answer <- IF answer = "error" THEN "none" ELSE answer

(* Every press moves at most one screen along the line of introduction,    *)
(* pages, approval, rejection, also over items without pages and through   *)
(* the skip menu, and every page on the display is one that exists; only   *)
(* the double press that skips leads from anywhere to the approval.        *)
ImplementsLine == Abs!AbsSpec

=============================================================================
