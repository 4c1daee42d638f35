------------------------------ MODULE Inspect ------------------------------
(***************************************************************************)
(* app/ui/view_inspect_x.c, app/ui/view_nano_inspect.c: from a page of a   *)
(* review on Nano X the user can open the items nested in it, and the      *)
(* items nested in those.  Each list is a flow of its own: "Go to root",   *)
(* the items, "BACK".  The trace remembers through which item every list   *)
(* was entered.                                                            *)
(*                                                                         *)
(* The application is external: it says which items have nested items, how *)
(* many, and their pages.  How the user walks the review itself is         *)
(* ReviewNanoX; here he may stand on any of its pages.                     *)
(***************************************************************************)
EXTENDS NanoPaging

CONSTANTS
    MAX_DEPTH,   (* the length of inner_state_t.trace                       *)
    Tree         (* Tree[1]: the items of the review, Tree[d + 2]: those of *)
                 (* every list at level d                                   *)

Item == [pages : 1 .. 254, nested : BOOLEAN]

ASSUME TreeAssumption ==
    /\ ExtraScreens = 0
    /\ MAX_DEPTH \in 1 .. 255
    /\ Tree \in Seq(Seq(Item))
    /\ Len(Tree) > 1 /\ \A d \in DOMAIN Tree : Len(Tree[d]) \in 1 .. 128

VARIABLES
    at,        (* the screen: idle, page (of the review), root, item, back  *)
    vd,        (* viewdata: the cursor of the review                        *)
    level,     (* innerField.level                                          *)
    trace,     (* innerField.trace                                          *)
    paging,    (* innerField.paging: the cursor of the list                 *)
    flow_inside_inspect_loop,
    path       (* history: the items through which the open lists were entered *)

vars == <<at, vd, level, trace, paging, flow_inside_inspect_loop, path>>

RootPages == [i \in DOMAIN Tree[1] |-> Tree[1][i].pages]

(* Where the user may stand in the review. *)
RootCursors ==
    UNION {{[itemIdx |-> i, pageIdx |-> p, pageCount |-> RootPages[i + 1], itemCount |-> Len(RootPages) + 1] :
              p \in 0 .. RootPages[i + 1] - 1} : i \in 0 .. Len(RootPages) - 1}

(* The items of a list at level l. *)
ListAt(l) == Tree[l + 2]

(* viewfuncCanInspectItem for item i of the list at level l - 1, of the    *)
(* review for level 0.                                                     *)
CanInspectItem(l, i) == l + 2 <= Len(Tree) /\ Tree[l + 1][i + 1].nested

-----------------------------------------------------------------------------
FirstOfList == [itemIdx |-> 0, pageIdx |-> 0, pageCount |-> 1, itemCount |-> 255]

(* h_increase, with no extra screens: as h_paging_increase does. *)
h_increase(p) == h_paging_increase(p)

(* mutant: one item too many *)
CanIncreaseOneMore(p) == HasNextPage(p) \/ p.itemIdx < p.itemCount

h_can_increase(p) == HasNextPage(p) \/ HasNextItem(p)

h_can_decrease(p) == p.pageIdx # 0 \/ p.itemIdx > 0

(* h_decrease goes back to the first page of the item before. *)
h_decrease(p) ==
    IF p.pageIdx # 0 THEN [p EXCEPT !.pageIdx = @ - 1]
    ELSE IF p.itemIdx > 0 THEN [p EXCEPT !.itemIdx = @ - 1, !.pageIdx = 0]
    ELSE p

(* h_inspect_update_data, in the list at level l. *)
h_inspect_update_data(l, p) ==
    [p EXCEPT !.itemCount = Len(ListAt(l)),
              !.pageCount = IF p.itemIdx < Len(ListAt(l))
                              THEN ListAt(l)[p.itemIdx + 1].pages ELSE @]

(* h_inspect_loop_start, and the step it leads to. *)
EnterStart(l, p, inside) ==
    IF inside /\ ~h_can_decrease(p)
      THEN /\ at' = "root" /\ flow_inside_inspect_loop' = FALSE
           /\ paging' = p
      ELSE /\ at' = "item" /\ flow_inside_inspect_loop' = TRUE
           /\ paging' = h_inspect_update_data(l, IF inside THEN h_decrease(p) ELSE p)

(* h_inspect_loop_end *)
EnterEnd(l, p, inside) ==
    IF inside /\ ~h_can_increase(p)
      THEN /\ at' = "back" /\ flow_inside_inspect_loop' = FALSE
           /\ paging' = p
      ELSE /\ at' = "item" /\ flow_inside_inspect_loop' = TRUE
           /\ paging' = h_inspect_update_data(l, IF inside THEN h_increase(p) ELSE p)

(* view_inspect_show_impl: the flow starts at its start step. *)
ShowList(l, p, inside) ==
    EnterStart(l, h_inspect_update_data(l, p), inside)

-----------------------------------------------------------------------------
Init ==
    /\ at = "idle"
    /\ vd \in RootCursors
    /\ level = 0
    /\ trace = [k \in 0 .. MAX_DEPTH - 1 |-> 0]
    /\ paging = [itemIdx |-> 0, pageIdx |-> 0, pageCount |-> 0, itemCount |-> 0]
    /\ flow_inside_inspect_loop = FALSE
    /\ path = << >>

Inner == <<level, trace, paging, flow_inside_inspect_loop, path>>

(* A review is opened, or its user walks to another of its pages. *)
Walk ==
    /\ at \in {"idle", "page"}
    /\ at' = "page"
    /\ vd' \in RootCursors
    /\ UNCHANGED Inner

(* mutant: the cursor of the review is not put forward *)
RootTxnNoIncrease(l, t) ==
    /\ at' = "page"
    /\ level' = 0
    /\ trace' = t
    /\ vd' = UpdateItem(h_paging_decrease([vd EXCEPT !.itemIdx = t[0]]), RootPages, 0).vd
    /\ path' = << >>
    /\ UNCHANGED <<paging, flow_inside_inspect_loop>>

(* h_rootTxn: the review goes on in its start step, which takes back the   *)
(* step forward.                                                           *)
h_rootTxn(l, t) ==
    /\ at' = "page"
    /\ level' = 0
    /\ trace' = t
    /\ LET forward == h_paging_increase([vd EXCEPT !.itemIdx = t[0]])
       IN  vd' = UpdateItem(h_paging_decrease(forward), RootPages, 0).vd
    /\ path' = << >>
    /\ UNCHANGED <<paging, flow_inside_inspect_loop>>

(* inspect_init, on a double press on a page of the review. *)
inspect_init ==
    LET root == [trace EXCEPT ![0] = vd.itemIdx]
    IN  /\ at = "page"
        /\ \/ /\ ~CanInspectItem(0, vd.itemIdx)
              /\ h_rootTxn(0, root)
           \/ /\ CanInspectItem(0, vd.itemIdx)
              /\ level' = 0
              /\ trace' = root
              /\ path' = <<vd.itemIdx>>
              /\ ShowList(0, FirstOfList, flow_inside_inspect_loop)
              /\ UNCHANGED vd

(* The array has MAX_DEPTH elements; the byte behind it is paging.itemIdx, *)
(* which h_inspect overwrites in its next statement.                       *)
Traced(l) == IF l < MAX_DEPTH THEN trace[l] ELSE paging.itemIdx

(* mutant: the element is stored before the level goes up *)
InspectStoringEarly ==
    /\ at = "item"
    /\ level < MAX_DEPTH /\ CanInspectItem(level + 1, paging.itemIdx)
    /\ level' = level + 1
    /\ trace' = [trace EXCEPT ![level] = paging.itemIdx]
    /\ path' = Append(path, paging.itemIdx)
    /\ ShowList(level + 1, [FirstOfList EXCEPT !.pageIdx = paging.pageIdx], FALSE)
    /\ UNCHANGED vd

(* h_inspect: open the items nested in this one.  If that is not possible  *)
(* the same item is shown again.  The index of the page stays as it is.    *)
h_inspect ==
    /\ at = "item"
    /\ level < MAX_DEPTH /\ CanInspectItem(level + 1, paging.itemIdx)
    /\ level' = level + 1
    /\ trace' = IF level + 1 < MAX_DEPTH
                  THEN [trace EXCEPT ![level + 1] = paging.itemIdx] ELSE trace
    /\ path' = Append(path, paging.itemIdx)
    /\ ShowList(level + 1, [FirstOfList EXCEPT !.pageIdx = paging.pageIdx], FALSE)
    /\ UNCHANGED vd

(* h_back, on the screen "BACK". *)
h_back ==
    /\ at = "back"
    /\ \/ /\ level > 1
          /\ level' = level - 1
          /\ path' = SubSeq(path, 1, level)
          /\ ShowList(level - 1,
                      [paging EXCEPT !.itemIdx = Traced(level), !.pageCount = 1, !.itemCount = 255],
                      FALSE)
          /\ UNCHANGED <<vd, trace>>
       \/ /\ level <= 1
          /\ h_rootTxn(level, trace)

(* A double press on "Go to root". *)
GoToRoot == at = "root" /\ h_rootTxn(level, trace)

Outer == UNCHANGED <<vd, level, trace, path>>

Right ==
    /\ \/ at = "root" /\ EnterStart(level, paging, flow_inside_inspect_loop)
       \/ at = "item" /\ EnterEnd(level, paging, flow_inside_inspect_loop)
    /\ Outer

Left ==
    /\ \/ at = "item" /\ EnterStart(level, paging, flow_inside_inspect_loop)
       \/ at = "back" /\ EnterEnd(level, paging, flow_inside_inspect_loop)
    /\ Outer

(* The device is unplugged: the idle screen. *)
IoReset ==
    /\ at' = "idle"
    /\ path' = << >>
    /\ UNCHANGED <<vd, level, trace, paging, flow_inside_inspect_loop>>

Next ==
    \/ Walk
    \/ inspect_init \/ h_inspect \/ h_back \/ GoToRoot
    \/ Right \/ Left
    \/ IoReset

Spec == Init /\ [][Next]_vars

-----------------------------------------------------------------------------
Inspecting == at \in {"root", "item", "back"}

(* The trace is the way back: while lists are open it holds, level by      *)
(* level, the items through which they were entered, and nothing is lost   *)
(* by going in and out again.                                              *)
TraceIsPath ==
    Inspecting => /\ level = Len(path) - 1
                  /\ \A k \in 0 .. level : Traced(k) = path[k + 1]

(* The page shown is one the item has: "be sure we are not out of bounds"  *)
(* (view_nano.c:300), which the cursor of the lists does not check.        *)
InnerPageExists ==
    at = "item" => /\ paging.itemIdx < Len(ListAt(level))
                   /\ paging.pageIdx < paging.pageCount

(* On every screen of the lists, the user can go back the way she came,    *)
(* and stands on something that is there.                                  *)
KnowsWhereItIs == TraceIsPath /\ InnerPageExists

(* Leaving the inspection, from whatever depth, by "Go to root" or "BACK", *)
(* shows the very page of the review where it began.                       *)
ReturnsToPage == [][at' = "page" /\ ~Walk => vd' = vd]_vars

(* BACK from the third list on, or a deeper one, shows the item through    *)
(* which the list was entered, in the list above.  BACK from the second    *)
(* list shows no item of the first: like BACK from the first it ends the   *)
(* inspection, on the page of the review where it began.                   *)
BackLeadsUp ==
    [][h_back => IF level > 1
                   THEN at' = "item" /\ level' = level - 1 /\ paging'.itemIdx = path[level + 1]
                   ELSE at' = "page" /\ vd' = vd]_vars

(* The ways out of a list: to the page of the review where the inspection  *)
(* began, or from below the second list one list up.                       *)
ReturnsWhereItBegan == ReturnsToPage /\ BackLeadsUp

(* A user who from some moment on presses only right, and goes on, comes   *)
(* to BACK, and one who presses only left to "Go to root".                 *)
WalkEnds ==
    /\ (<>[][Right]_vars /\ WF_vars(Right)) => <>[](at \notin {"root", "item"})
    /\ (<>[][Left]_vars /\ WF_vars(Left)) => <>[](at \notin {"item", "back"})

=============================================================================
