---------------------------- MODULE ReviewNbgl -----------------------------
(***************************************************************************)
(* app/ui/view_nbgl.c: reviews on Stax, Flex and Apex.  The SDK's library  *)
(* draws the screens; it asks for tag/value pairs by their number, several *)
(* for one screen, and the code turns a number into an item and a page.    *)
(* To do so it needs the page counts of all items before, which it caches. *)
(*                                                                         *)
(* The library is external: it goes over the pairs forward and back, some  *)
(* number of them to a screen, and ends in a question.  The application is *)
(* external: its items have pages or cannot be shown (pages 0).            *)
(***************************************************************************)
EXTENDS Integers, FiniteSets, SequencesExt

CONSTANTS
    Reviews,              (* what the application may ask to review          *)
    NB_MAX_DISPLAYED_PAIRS_IN_REVIEW,
    MAX_CACHED_ITEMS,
    MAX_CHARS,            (* MAX_CHARS_PER_VALUE1_LINE, MAX_CHARS_SUBMSG_LINE *)
    MaxAnswers            (* bound: no "Ok" is pressed after so many answers  *)

Kinds == {"UI", "ADDRESS", "GENERIC", "TXN", "MSG"}

(* intent: the length of the text view_review_show_with_intent is given;   *)
(* none: the review is shown by view_review_show.                          *)
NoIntent == -1

Review == [kind : Kinds, pages : Seq(0 .. 255), intent : Nat \cup {NoIntent}]

(* Before the first review: viewfuncAccept is NULL, review_type is 0. *)
NoReview == [kind |-> "UI", pages |-> << >>, intent |-> NoIntent]

ASSUME ReviewsAssumption ==
    /\ Reviews \subseteq Review
    /\ \A r \in Reviews : Len(r.pages) \in 1 .. 128
    /\ NB_MAX_DISPLAYED_PAIRS_IN_REVIEW \in 1 .. 255
    /\ MAX_CACHED_ITEMS \in 1 .. 255
    /\ MAX_CHARS \in Nat \ {0}
    /\ MaxAnswers \in Nat

VARIABLES
    review,           (* the review asked for last                           *)
    screen,           (* what the library shows                              *)
    range,            (* the numbers of the pairs on the screen              *)
    nbPairs,          (* pairList.nbPairs                                    *)
    pageCountCache,
    slots,            (* viewdata.keys and viewdata.values                   *)
    intro_message, approval_label,
    seen,             (* history: what was on the screen in this review      *)
    answers           (* history: the answers given since it was asked for   *)

vars == <<review, screen, range, nbPairs, pageCountCache, slots,
          intro_message, approval_label, seen, answers>>

Slot == 0 .. NB_MAX_DISPLAYED_PAIRS_IN_REVIEW - 1

(* The text in a slot: a page of an item, nothing, or "ERROR SHOWING DATA". *)
Blank == <<-1, 0>>
Error == <<-2, 0>>

-----------------------------------------------------------------------------
(* The page counts.  A lookup is the cache after it, the count, and what   *)
(* the slot in use holds then: on a miss the item is written there.        *)
NoCounts == [i \in 0 .. MAX_CACHED_ITEMS - 1 |-> 0]

Cached(c, i) == c.valid /\ i < c.itemCount /\ i < MAX_CACHED_ITEMS /\ c.pageCounts[i] > 0

(* mutant: the counts of an earlier review are not cleared *)
StoreOverOld(c, i, n) ==
    [valid      |-> TRUE,
     itemCount  |-> IF i >= c.itemCount THEN i + 1 ELSE c.itemCount,
     pageCounts |-> [c.pageCounts EXCEPT ![i] = n]]

StoreCount(c, i, n) ==
    LET base == IF c.valid THEN c
                ELSE [valid |-> TRUE, itemCount |-> 0, pageCounts |-> NoCounts]
    IN  [base EXCEPT !.pageCounts[i] = n,
                     !.itemCount = IF i >= @ THEN i + 1 ELSE @]

get_item_page_count(r, c, i, text) ==
    LET n == r.pages[i + 1]
    IN  IF Cached(c, i) THEN [cache |-> c, count |-> c.pageCounts[i], text |-> text]
        ELSE [cache |-> IF n > 0 /\ i < MAX_CACHED_ITEMS THEN StoreCount(c, i, n) ELSE c,
              count |-> n,
              text  |-> IF n > 0 THEN <<i, 0>> ELSE Blank]

(* The loops are functions of the number of turns they have made. *)

(* mutant: the first pair is not counted *)
PairsOneLess(r, c, text) ==
    LET after[k \in 0 .. Len(r.pages)] ==
          IF k = 0 THEN [cache |-> c, text |-> text, pairs |-> 0]
          ELSE LET s == after[k - 1]
                   g == get_item_page_count(r, s.cache, k - 1, s.text)
               IN  [cache |-> g.cache, text |-> g.text,
                    pairs |-> IF k = 1 THEN g.count - 1 ELSE (s.pairs + g.count) % 256]
    IN  after[Len(r.pages)]

(* The sum is a uint8_t. *)
get_pair_number(r, c, text) ==
    LET after[k \in 0 .. Len(r.pages)] ==
          IF k = 0 THEN [cache |-> c, text |-> text, pairs |-> 0]
          ELSE LET s == after[k - 1]
                   g == get_item_page_count(r, s.cache, k - 1, s.text)
               IN  [cache |-> g.cache, text |-> g.text, pairs |-> (s.pairs + g.count) % 256]
    IN  after[Len(r.pages)]

(* A turn of h_review_update_data: the loop stops at the item that has     *)
(* page itemIdx of all pages, or at one without pages.                     *)
Turn(r, s, i, itemIdx) ==
    LET g == get_item_page_count(r, s.cache, i, s.text)
        t == [s EXCEPT !.cache = g.cache, !.text = g.text]
    IN  IF s.err # "going" THEN s
        ELSE IF g.count = 0 THEN [t EXCEPT !.err = "no_data"]
        ELSE IF s.accPages + g.count > itemIdx
          THEN [t EXCEPT !.err = "ok", !.text = <<i, itemIdx - s.accPages>>]
        ELSE [t EXCEPT !.accPages = (@ + g.count) % 256]

h_review_update_data(r, c, itemIdx, text) ==
    LET after[k \in 0 .. Len(r.pages)] ==
          IF k = 0 THEN [cache |-> c, text |-> text, accPages |-> 0, err |-> "going"]
          ELSE Turn(r, after[k - 1], k - 1, itemIdx)
    IN  after[Len(r.pages)]

internalIndex(index) == index % NB_MAX_DISPLAYED_PAIRS_IN_REVIEW

(* Pair number index is fetched into slot k. *)
Fetch(r, st, index, k) ==
    LET u == h_review_update_data(r, st.cache, index, st.slots[k])
    IN  [cache |-> u.cache, slots |-> [st.slots EXCEPT ![k] = u.text]]

(* update_item_callback, called for each pair of a screen in order. *)
FetchRange(r, st, from, to) ==
    LET after[k \in 0 .. to - from + 1] ==
          IF k = 0 THEN st
          ELSE Fetch(r, after[k - 1], from + k - 1, internalIndex(from + k - 1))
    IN  after[to - from + 1]

Pairs == [cache |-> pageCountCache, slots |-> slots]

(* What the library shows on a screen of pairs. *)
OnScreen(s, from, to) == {s[internalIndex(i)] : i \in from .. to}

-----------------------------------------------------------------------------
(* The texts around a review: the message of its first screen and the      *)
(* label of its last one.  An intent that does not fit is cut.             *)
Fixed == [text |-> "default", cut |-> FALSE]
IntentText(before, intent, after) ==
    [text |-> "intent", cut |-> before + intent + after >= MAX_CHARS]

IntroFor(r) ==
    IF r.intent > 0 THEN IntentText(IF r.kind = "MSG" THEN 18 ELSE 22, r.intent, 0) ELSE Fixed

LabelFor(r) ==
    IF r.intent > 0 THEN IntentText(IF r.kind = "MSG" THEN 16 ELSE 20, r.intent, 1) ELSE Fixed

Texts(r) == intro_message' = IntroFor(r) /\ approval_label' = LabelFor(r)

Invalidated == [pageCountCache EXCEPT !.valid = FALSE, !.itemCount = 0]

(* config_useCaseAddressReview: one slot for each item; there are no more  *)
(* slots than pairs on a screen, and no store behind them is modelled.     *)
AddressReview(r, c) ==
    LET n     == Len(r.pages)
        last  == IF n - 1 \in Slot THEN n - 1 ELSE NB_MAX_DISPLAYED_PAIRS_IN_REVIEW - 1
        slot0 == IF n > NB_MAX_DISPLAYED_PAIRS_IN_REVIEW
                   THEN [slots EXCEPT ![0] = Error] ELSE slots
        rest  == FetchRange(r, [cache |-> c, slots |-> slot0], 1, last)
        all   == Fetch(r, rest, 0, 0)
    IN  /\ screen' = "address"
        /\ range' = <<0, n - 1>>
        /\ nbPairs' = n
        /\ pageCountCache' = all.cache
        /\ slots' = all.slots
        /\ seen' = OnScreen(all.slots, 0, last)

(* config_useCaseReview, config_useCaseMessageReview and                   *)
(* config_useCaseReviewLight: the pairs are only counted.                  *)
PairReview(r, c) ==
    LET s == get_pair_number(r, c, slots[0])
    IN  /\ screen' = "title"
        /\ range' = <<0, -1>>
        /\ nbPairs' = s.pairs
        /\ pageCountCache' = s.cache
        /\ slots' = [slots EXCEPT ![0] = s.text]
        /\ seen' = {}

ConfigReview(c) ==
    /\ screen' = "configuration"
    /\ pageCountCache' = c
    /\ seen' = {}
    /\ UNCHANGED <<range, nbPairs, slots>>

(* The host asks when it waits for nothing: it has its answer, whatever is *)
(* still on the screen, or the screen is a configuration, of which it does *)
(* not know.                                                               *)
HostMayAsk ==
    \/ screen = "idle"
    \/ answers # << >>
    \/ review.kind = "UI" /\ screen \notin {"error", "custom_error", "blindsign_error"}

(* view_review_show_impl and view_review_show_with_intent_impl; the second *)
(* knows only messages and transactions.                                   *)
Show(r) ==
    /\ HostMayAsk
    /\ review' = r
    /\ Texts(r)
    /\ answers' = << >>
    /\ CASE r.intent = NoIntent /\ r.kind = "UI"      -> ConfigReview(Invalidated)
         [] r.intent = NoIntent /\ r.kind = "ADDRESS" -> AddressReview(r, Invalidated)
         [] OTHER                                     -> PairReview(r, Invalidated)

-----------------------------------------------------------------------------
Init ==
    /\ review = NoReview
    /\ screen = "idle"
    /\ range = <<0, -1>>
    /\ nbPairs = 0
    /\ pageCountCache = [valid |-> FALSE, itemCount |-> 0, pageCounts |-> NoCounts]
    /\ slots = [k \in Slot |-> Blank]
    /\ intro_message = Fixed /\ approval_label = Fixed
    /\ seen = {}
    /\ answers = << >>

Unchanged == UNCHANGED <<review, nbPairs, intro_message, approval_label, answers>>

(* The library asks for the pairs of a screen and shows them. *)
ShowPairs(from, to) ==
    LET f == FetchRange(review, Pairs, from, to)
    IN  /\ to - from + 1 \in 1 .. NB_MAX_DISPLAYED_PAIRS_IN_REVIEW
        /\ screen' = "pairs"
        /\ range' = <<from, to>>
        /\ pageCountCache' = f.cache
        /\ slots' = f.slots
        /\ seen' = seen \cup OnScreen(f.slots, from, to)
        /\ Unchanged

Forward ==
    /\ screen \in {"title", "pairs"}
    /\ IF range[2] + 1 < nbPairs
         THEN \E to \in range[2] + 1 .. nbPairs - 1 : ShowPairs(range[2] + 1, to)
         ELSE /\ screen' = "question"
              /\ UNCHANGED <<range, pageCountCache, slots, seen>> /\ Unchanged

Back ==
    \/ /\ screen = "question" /\ nbPairs > 0
       /\ ShowPairs(range[1], range[2])
    \/ /\ screen = "pairs" /\ range[1] > 0
       /\ \E from \in 0 .. range[1] - 1 : ShowPairs(from, range[1] - 1)
    \/ /\ screen = "pairs" /\ range[1] = 0
       /\ screen' = "title" /\ range' = <<0, -1>>
       /\ UNCHANGED <<pageCountCache, slots, seen>> /\ Unchanged

(* review_configuration: after an error the error is shown, and then the   *)
(* question over it, with the error as its text.                           *)
review_configuration ==
    /\ screen = "configuration"
    /\ LET u    == h_review_update_data(review, pageCountCache, 0, slots[0])
           text == IF u.err = "ok" THEN u.text ELSE Error
       IN  /\ pageCountCache' = u.cache
           /\ slots' = [slots EXCEPT ![0] = text]
           /\ seen' = {text}
    /\ screen' = "setting"
    /\ UNCHANGED range /\ Unchanged

NewRequest ==
    /\ answers' = << >>
    /\ UNCHANGED <<review, range, nbPairs, pageCountCache, intro_message, approval_label>>

(* view_error_show: the application answers a request by an error. *)
view_error_show ==
    /\ HostMayAsk
    /\ screen' = "error"
    /\ slots' = [slots EXCEPT ![0] = Error]
    /\ seen' = {Error}
    /\ NewRequest

(* view_custom_error_show; view_blindsign_error_show, whose texts are      *)
(* constants.                                                              *)
OtherErrorShow(s) ==
    /\ HostMayAsk
    /\ screen' = s
    /\ slots' = IF s = "custom_error" THEN [slots EXCEPT ![0] = Blank] ELSE slots
    /\ seen' = {}
    /\ NewRequest

(* reviewAddressChoice, reviewTransactionChoice, reviewMessageChoice and   *)
(* reviewGenericChoice: the answer is given when the status screen ends.   *)
Choice(confirm) ==
    /\ \/ screen \in {"question", "address"}
       \/ screen \in {"title", "pairs"} /\ ~confirm
    /\ screen' = IF confirm THEN "approving" ELSE "rejecting"
    /\ UNCHANGED <<range, pageCountCache, slots, seen>> /\ Unchanged

Answer(a) ==
    /\ screen' = "idle"
    /\ answers' = Append(answers, a)
    /\ UNCHANGED <<review, range, nbPairs, pageCountCache, slots, intro_message, approval_label, seen>>

(* mutant: the screen is left as it is *)
ApproveKeepingScreen ==
    /\ answers' = Append(answers, "approved")
    /\ UNCHANGED <<review, screen, range, nbPairs, pageCountCache, slots,
                   intro_message, approval_label, seen>>

h_approve == Answer("approved")

(* A rejected configuration is answered by nobody. *)
h_reject == Answer(IF review.kind = "UI" THEN "silence" ELSE "rejected")

StatusEnds ==
    \/ screen = "approving" /\ h_approve
    \/ screen = "rejecting" /\ h_reject

(* confirm_setting: viewfuncAccept runs without h_approve, and nothing is  *)
(* drawn: the screen stays, with its "Ok", unless the application's        *)
(* callback shows the idle screen.                                         *)
confirm_setting(confirm) ==
    /\ screen \in {"setting", "error"}
    /\ IF confirm /\ review # NoReview
         THEN /\ Len(answers) < MaxAnswers
              /\ answers' = Append(answers, "accepted")
              /\ screen' \in {screen, "idle"}
              /\ UNCHANGED <<review, range, nbPairs, pageCountCache, slots,
                             intro_message, approval_label, seen>>
         ELSE h_reject

(* The user cancels before the configuration was shown. *)
CancelConfiguration == screen = "configuration" /\ h_reject

(* confirm_error *)
confirm_error == screen = "custom_error" /\ Answer("error")

goto_settings(confirm) ==
    /\ screen = "blindsign_error"
    /\ screen' = IF confirm THEN "settings" ELSE "idle"
    /\ answers' = Append(answers, "error")
    /\ UNCHANGED <<review, range, nbPairs, pageCountCache, slots, intro_message, approval_label, seen>>

LeaveSettings ==
    /\ screen = "settings" /\ screen' = "idle"
    /\ UNCHANGED <<range, pageCountCache, slots, seen>> /\ Unchanged

(* The device is unplugged: app_init shows the idle screen. *)
IoReset ==
    /\ screen' = "idle"
    /\ UNCHANGED <<range, pageCountCache, slots, seen>> /\ Unchanged

Next ==
    \/ \E r \in Reviews : Show(r)
    \/ Forward \/ Back
    \/ review_configuration \/ CancelConfiguration
    \/ view_error_show
    \/ \E s \in {"custom_error", "blindsign_error"} : OtherErrorShow(s)
    \/ \E confirm \in BOOLEAN : Choice(confirm) \/ confirm_setting(confirm) \/ goto_settings(confirm)
    \/ StatusEnds \/ confirm_error \/ LeaveSettings
    \/ IoReset

Spec == Init /\ [][Next]_vars

-----------------------------------------------------------------------------
(* The pages of a review, in the order in which they are numbered. *)
AllPages(r) ==
    FlattenSeq([i \in DOMAIN r.pages |-> [p \in 1 .. r.pages[i] |-> <<i - 1, p - 1>>]])

(* A cached count is the one the application would give now: no count of   *)
(* an earlier review survives in a gap that the present one left.          *)
CacheTruthful ==
    /\ pageCountCache.itemCount <= MAX_CACHED_ITEMS
    /\ screen # "idle" =>
      \A i \in 0 .. Len(review.pages) - 1 :
        Cached(pageCountCache, i) => pageCountCache.pageCounts[i] = review.pages[i + 1]

(* Items without pages end the numbering, and more than 255 pages wrap it. *)
Numbered(r) == (\A i \in DOMAIN r.pages : r.pages[i] > 0) /\ Len(AllPages(r)) < 256

(* Every pair on a screen is the page its number stands for: none is       *)
(* overwritten by another of the same screen, left from an earlier screen  *)
(* or counted from a wrong item.                                           *)
PairsTrue ==
    screen = "pairs" /\ Numbered(review) =>
      \A i \in range[1] .. range[2] : slots[internalIndex(i)] = AllPages(review)[i + 1]

(* The accept callback has been called, with h_approve or without.         *)
Accepted == ToSet(answers) \cap {"approved", "accepted"} # {}

(* No review whose pages have numbers is approved before all of it was on  *)
(* the screen: "without ever silently hiding bytes from the signer"        *)
(* (view_internal.h:55).  Exempt is what has shown the error screen.       *)
ApprovedAfterReading ==
    Accepted /\ Error \notin seen /\ Numbered(review) => ToSet(AllPages(review)) \subseteq seen

(* The first and the last screen speak of this review: of its intent if it *)
(* has one, of no earlier one; and an intent cut off in the question was   *)
(* cut off visibly on the first screen too.                                *)
TextsOfThisReview ==
    screen \in {"title", "pairs", "question"} =>
      /\ (approval_label.text = "intent") = (review.intent > 0)
      /\ intro_message.text = approval_label.text
      /\ approval_label.cut => intro_message.cut

(* What is on the screen belongs to this review: pairs, counts and texts.  *)
NothingFromElsewhere == PairsTrue /\ CacheTruthful /\ TextsOfThisReview

(* An answer is final, whichever screens led to it: after a rejection, an  *)
(* error or an approval by h_approve no button of this request answers     *)
(* again.  Only the accept callback that confirm_setting calls may be      *)
(* followed by another answer, of the same screen.                         *)
AnswersFinal == \A k \in DOMAIN answers : k < Len(answers) => answers[k] = "accepted"

=============================================================================
