----------------------------- MODULE MCInspect -----------------------------
(* Trees of up to four levels of two or three items. *)
EXTENDS Inspect

Plain(n)  == [pages |-> n, nested |-> FALSE]
Nested(n) == [pages |-> n, nested |-> TRUE]

(* Every list is in bounds of the trace; a nested item has one page, and   *)
(* so has the last one of a list.                                          *)
ShallowTree ==
    << <<Plain(1), Nested(2), Nested(1)>>,
       <<Plain(2), Nested(1), Nested(1)>>,
       <<Nested(1), Plain(3), Plain(1)>>,
       <<Plain(1), Plain(1)>> >>

=============================================================================
