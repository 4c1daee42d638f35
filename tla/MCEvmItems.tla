---------------------------- MODULE MCEvmItems ----------------------------
(***************************************************************************)
(* Pages of three characters, messages of up to four pages, printable or   *)
(* not, and amounts around the decimals of their tokens.                   *)
(***************************************************************************)
EXTENDS EvmItems

MCMessages == {<< >>, <<72>>, <<72, 105, 33>>, <<72, 105, 33, 32, 97, 98, 99>>, <<72, 127>>, <<0, 72, 105>>,
               <<72, 105, 128, 200>>, <<97, 98, 99, 100>>, <<54, 49>>, <<31, 1, 2, 3, 4>>}
MCPaths    == {<<[index |-> 44, hardened |-> TRUE], [index |-> 60, hardened |-> FALSE]>>, << >>}
MCAddress  == <<48, 97, 49, 98>>
MCAmounts  == {0, 1, 10, 99, 100, 1050, 12000, 1234567}
MCTokens   == {[symbol |-> <<85, 32>>, decimals |-> 0], [symbol |-> <<85, 32>>, decimals |-> 1],
               [symbol |-> <<68, 65, 32>>, decimals |-> 3], [symbol |-> <<63>>, decimals |-> 6]}

=============================================================================
