----------------------------- MODULE MCEvmKeys -----------------------------
(* Signatures with numbers of all lengths, and some with a wrong marker or *)
(* length; a transaction of the second type.                               *)
EXTENDS EvmKeys

Digits(first, n) == [k \in 1 .. n |-> IF k = 1 THEN first ELSE k % 5]

Numbers == {Digits(1, 1), Digits(200, 1), Digits(1, 31), Digits(127, 32), Digits(128, 32)}

Sound == {[r |-> r, s |-> s, der |-> DerSignature(r, s)] : r \in Numbers, s \in Numbers}

Longest == DerSignature(Digits(128, 32), Digits(128, 32))

Wrong ==
    {[r |-> << >>, s |-> << >>, der |-> [Longest EXCEPT ![at[1]] = at[2]]] :
        at \in {<<1, 49>>, <<2, 5>>, <<2, 71>>, <<3, 3>>, <<4, 0>>, <<4, 34>>, <<38, 3>>, <<39, 34>>, <<39, 0>>}}
    \cup {[r |-> << >>, s |-> << >>,
           der |-> <<48, 70, 2, 40>> \o [k \in 1 .. 40 |-> 1] \o <<2, 33>> \o [k \in 1 .. 27 |-> 1]]}

AllSignatures == Sound \cup Wrong

Type2 == [tx_type |-> "eip1559", chain_id_decoded |-> <<5>>]

=============================================================================
