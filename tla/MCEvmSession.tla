---------------------------- MODULE MCEvmSession ----------------------------
(***************************************************************************)
(* EvmSession scaled down for TLC: bytes are 0..7, list markers 3..6 stand *)
(* for 0xC0..0xF7 (lists of 0 to 3 bytes), marker 7 for 0xF8 (one length   *)
(* byte follows), an EIP-191 length prefix is one byte and counts modulo 8 *)
(* and the buffer holds fewer bytes than that modulus.                     *)
(***************************************************************************)
EXTENDS EvmSession

CONSTANTS e0, e1, a, b

MCPathElem == {e0, e1, a, b}

(* Two valid paths, a foreign one, a short one and a truncated one.        *)
Good    == [len |-> 3, elems |-> <<e0, e1, a>>]
Other   == [len |-> 4, elems |-> <<e0, e1, b, a>>]
Foreign == [len |-> 3, elems |-> <<b, e1, a>>]
Short   == [len |-> 2, elems |-> <<e0, e1>>]
Cut     == [len |-> 4, elems |-> <<e0, e1, b>>]
NoPath  == [len |-> 0, elems |-> << >>]

(* Transactions: whole in one chunk, with one byte missing, with a version *)
(* byte, with a long header (five bytes, or eight: too large for the       *)
(* buffer), with trailing bytes, and with a broken header.                 *)
EthFirst == {<<4, 0>>, <<5, 0>>, <<1, 5, 2>>, <<7, 3>>, <<7, 6, 0>>,
             <<4, 0, 0>>, <<7>>, <<1>>, <<0, 0>>}

(* Messages: empty, whole, one and three bytes missing, longer than        *)
(* announced, longer than the buffer, and without a length. The first byte *)
(* 5 also reads as a list marker, so that mixed sessions go on.            *)
Eip191First == {<<0>>, <<1, 0>>, <<3, 2, 0>>, <<4, 0>>, <<5, 2>>, <<1, 0, 0>>,
                <<7, 0, 0>>, << >>}

Rest == {<< >>, <<0>>, <<2, 0>>, <<0, 2, 2>>}

Req(ins, p1, path, data) ==
    [ins |-> ins, p1 |-> p1, p2 |-> 0, short |-> FALSE, path |-> path, data |-> data]

Odd(ins, p1, p2, short) ==
    [ins |-> ins, p1 |-> p1, p2 |-> p2, short |-> short, path |-> NoPath, data |-> << >>]

Signers == {"SignEth", "SignEip191"}

MCRequests ==
    {Req("SignEth", "first", Good, d) : d \in EthFirst}
    \cup {Req("SignEip191", "first", Good, d) : d \in Eip191First}
    \cup {Req(i, "first", p, <<5, 0>>) : i \in Signers, p \in {Other, Foreign, Short, Cut}}
    \cup {Req(i, "more", NoPath, d) : i \in Signers, d \in Rest}
    \cup {Odd(i, "other", 0, FALSE) : i \in Signers}
    \cup {Odd(i, "more", 1, FALSE) : i \in Signers}
    \cup {Odd(i, "first", 0, TRUE) : i \in Signers}
    \cup {Req("GetAddrEth", k, p, << >>) : k \in {"first", "other"},
                                          p \in {Good, Other, Foreign, Cut}}
    \cup {[Req("GetAddrEth", "first", Other, << >>) EXCEPT !.p2 = 2]}

=============================================================================
