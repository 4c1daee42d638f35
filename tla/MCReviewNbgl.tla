--------------------------- MODULE MCReviewNbgl ----------------------------
(* Reviews of up to four items; screens of up to two pairs.  Items past    *)
(* the second are not cached.                                              *)
EXTENDS ReviewNbgl

R(kind, pages, intent) == [kind |-> kind, pages |-> pages, intent |-> intent]

(* Reviews whose items all have pages, fewer than 256; an address and a    *)
(* configuration have one page for each item.                              *)
SoundReviews ==
    {R(kind, pages, intent) : kind \in {"TXN", "MSG"}, pages \in {<<1>>, <<2, 1, 1, 2>>, <<1, 3>>},
                              intent \in {NoIntent, 5}}
    \cup {R("GENERIC", <<2, 1>>, NoIntent), R("ADDRESS", <<1>>, NoIntent),
          R("ADDRESS", <<1, 1>>, NoIntent), R("UI", <<1>>, NoIntent)}

(* Reviews that may have items without pages, and intents around the       *)
(* length at which they are cut.                                           *)
GappedReviews ==
    {R(kind, pages, intent) : kind \in {"TXN", "MSG"}, pages \in {<<0, 2>>, <<2, 1>>, <<1, 0, 1>>},
                              intent \in {NoIntent, 0, 2, 3, 4}}

AllReviews == SoundReviews \cup GappedReviews

=============================================================================
