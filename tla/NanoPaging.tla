----------------------------- MODULE NanoPaging -----------------------------
(***************************************************************************)
(* app/ui/view.c, app/ui/view_nano.c: the cursor that walks the items of a *)
(* review and the pages of an item, shared by the Nano screens.            *)
(*                                                                         *)
(* The items under review are a sequence pages: pages[i + 1] is the number *)
(* of pages of item i, 0 for an item that has nothing to show.  The cursor *)
(* is the part of viewdata that the paging functions touch; they take it   *)
(* and return it.                                                          *)
(***************************************************************************)
EXTENDS Integers, Sequences

CONSTANT ExtraScreens   (* INCLUDE_ACTIONS_COUNT: 1 on Nano S, 0 on Nano X *)

ASSUME ExtraScreensAssumption == ExtraScreens \in {0, 1}

Cursor == [itemIdx : 0 .. 255, pageIdx : 0 .. 255,
           pageCount : 0 .. 255, itemCount : 0 .. 255]

(* h_review_update_data will cap a page index this large. *)
LastPage == 255

(* mutant: the count of an unknown number of items does not fit a byte *)
InitOverflowing == [itemIdx |-> 0, pageIdx |-> 0, pageCount |-> 1, itemCount |-> 256]

h_paging_init == [itemIdx |-> 0, pageIdx |-> 0, pageCount |-> 1, itemCount |-> 255]

HasNextPage(vd) == vd.pageIdx + 1 < vd.pageCount

HasNextItem(vd) == vd.itemCount > 0 /\ vd.itemIdx < vd.itemCount - 1 + ExtraScreens

(* mutant: the page index is kept when the item changes *)
IncreaseKeepingPage(vd) ==
    IF HasNextPage(vd) THEN [vd EXCEPT !.pageIdx = @ + 1]
    ELSE IF HasNextItem(vd) THEN [vd EXCEPT !.itemIdx = @ + 1]
    ELSE vd

h_paging_increase(vd) ==
    IF HasNextPage(vd) THEN [vd EXCEPT !.pageIdx = @ + 1]
    ELSE IF HasNextItem(vd) THEN [vd EXCEPT !.itemIdx = @ + 1, !.pageIdx = 0]
    ELSE vd

h_paging_can_decrease(vd) == vd.pageIdx # 0 \/ vd.itemIdx > 0

h_paging_decrease(vd) ==
    IF vd.pageIdx # 0 THEN [vd EXCEPT !.pageIdx = @ - 1]
    ELSE IF vd.itemIdx > 0 THEN [vd EXCEPT !.itemIdx = @ - 1, !.pageIdx = LastPage]
    ELSE vd

-----------------------------------------------------------------------------
(* h_review_update_data, from its loop on: an item without pages is left   *)
(* for the one after it.                                                   *)
FirstShown(pages, item) ==
    CHOOSE j \in item .. Len(pages) :
      /\ j = Len(pages) \/ pages[j + 1] > 0
      /\ \A k \in item .. j - 1 : pages[k + 1] = 0

(* mutant: the page after the last one *)
CappedTooHigh(pageIdx, pageCount) == IF pageIdx > pageCount THEN pageCount ELSE pageIdx

(* A page index out of range is set to the last page; the test is >, so    *)
(* that the index pageCount itself passes.                                 *)
CappedPage(pageIdx, pageCount) ==
    IF pageIdx > pageCount THEN pageCount - 1 ELSE pageIdx

(* The item at the cursor, or the first one after it that has pages; past  *)
(* the last item the application answers zxerr_no_data.  intro is the      *)
(* number of introduction screens counted as items.                        *)
UpdateItem(vd, pages, intro) ==
    LET from    == vd.itemIdx - intro
        item    == FirstShown(pages, from)
        pageIdx == IF item = from THEN vd.pageIdx ELSE 0
    IN  IF item = Len(pages)
          THEN [err |-> "no_data",
                vd  |-> [itemIdx   |-> item + intro, pageIdx |-> pageIdx,
                         pageCount |-> IF item = from THEN vd.pageCount ELSE 0,
                         itemCount |-> Len(pages) + intro]]
          ELSE [err |-> "ok",
                vd  |-> [itemIdx   |-> item + intro,
                         pageIdx   |-> CappedPage(pageIdx, pages[item + 1]),
                         pageCount |-> pages[item + 1],
                         itemCount |-> Len(pages) + intro + 1]]

-----------------------------------------------------------------------------
(* The pages of a review, as <<item, page>>, and those up to a page.       *)
PagesOf(pages) == UNION {{i} \X (0 .. pages[i + 1] - 1) : i \in 0 .. Len(pages) - 1}

PagesUpTo(pages, i, p) == {pg \in PagesOf(pages) : pg[1] < i \/ (pg[1] = i /\ pg[2] < p)}

=============================================================================
