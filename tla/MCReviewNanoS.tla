--------------------------- MODULE MCReviewNanoS ---------------------------
(* Reviews small enough for TLC: up to four items of up to three pages, in *)
(* the builds a Nano S application can choose.                             *)
EXTENDS ReviewNanoS

AllBuilds == {{}, {"SHORTCUT"}, {"REVIEW_SCREEN"}, {"REVIEW_SCREEN", "SHORTCUT"}, {"BLINDSIGN"}}

Base(pages, kind) ==
    [pages |-> pages, kind |-> kind, progressive |-> FALSE, blind |-> FALSE, shortcut |-> FALSE]

(* Items without pages come first, between others or not at all; the skip  *)
(* menu, the shortcut, the blind warning also under a skip menu, messages, *)
(* reviews that fail.                                                      *)
AllReviews ==
    {[Base(pages, kind) EXCEPT !.progressive = p, !.shortcut = s] :
        pages \in {<<0, 1, 2>>, <<3, 0, 0, 1>>, <<1, 2, 2>>},
        kind \in {"UI", "TXN", "MSG"}, p \in BOOLEAN, s \in BOOLEAN}
    \cup {[Base(pages, kind) EXCEPT !.progressive = p, !.blind = TRUE] :
             pages \in {<<1, 2>>, <<3>>}, kind \in {"ADDRESS", "TXN", "GROUP_TXN"}, p \in BOOLEAN}
    \cup {Base(<<1, 2, 1>>, "ADDRESS")}

=============================================================================
