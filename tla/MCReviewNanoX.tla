--------------------------- MODULE MCReviewNanoX ---------------------------
(* Reviews small enough for TLC: up to five items of up to three pages. *)
EXTENDS ReviewNanoX

Base(pages, kind) ==
    [pages |-> pages, kind |-> kind, intent |-> FALSE, progressive |-> FALSE,
     blind |-> FALSE, shortcut |-> FALSE]

Kinds == {"UI", "ADDRESS", "MSG", "TXN"}

(* No item is empty and nothing is skipped. *)
LinearReviews ==
    {[Base(pages, kind) EXCEPT !.intent = i, !.blind = b] :
        pages \in {<<1>>, <<3>>, <<1, 2, 1>>, <<3, 1>>},
        kind \in Kinds, i \in BOOLEAN, b \in BOOLEAN}

(* Items without pages come first, or between others; the user may use the *)
(* shortcut.                                                               *)
GappedReviews ==
    {[Base(pages, kind) EXCEPT !.shortcut = s] :
        pages \in {<<0, 1, 2>>, <<1, 0, 0, 3>>, <<0, 0, 2, 0, 1>>, <<2, 1>>},
        kind \in {"ADDRESS", "TXN"}, s \in BOOLEAN}

(* The skip screen comes up, in front of items of one page. *)
ProgressiveReviews ==
    {[Base(pages, kind) EXCEPT !.progressive = TRUE, !.intent = i] :
        pages \in {<<1, 1, 1, 1>>, <<2, 3, 1, 1>>, <<1, 0, 1, 0, 1>>, <<1, 2>>},
        kind \in Kinds, i \in BOOLEAN}

AllReviews == LinearReviews \cup GappedReviews \cup ProgressiveReviews

=============================================================================
