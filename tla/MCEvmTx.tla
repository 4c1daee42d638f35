------------------------------ MODULE MCEvmTx ------------------------------
(* Transactions the host encodes, of all types, and others that are almost *)
(* right: a field too many or too few, bytes behind, chain ids of every    *)
(* length, calls that look like a transfer.                                *)
EXTENDS EvmTx

Repeat(b, n) == [k \in 1 .. n |-> b]

Token   == Repeat(17, 20)
Unlisted == Repeat(200, 20)

Transfer(padding) == <<169, 5, 156, 187>> \o padding \o Repeat(34, 20) \o Repeat(0, 31) \o <<9>>

Calls ==
    {<< >>, <<1>>, Transfer(Repeat(0, 12)), Transfer(Repeat(0, 11) \o <<1>>),
     <<169, 5, 156, 188>> \o Repeat(0, 64), Tail(Transfer(Repeat(0, 12)))}

EncodeItems(items) == EncodeList(FoldLeft(LAMBDA bytes, i : bytes \o EncodeString(i), << >>, items))

Legacy(to, call, rest) == EncodeItems(<<<<7>>, <<1, 2>>, <<82, 8>>, to, <<3>>, call>> \o rest)

Eip155(id, sig) == Legacy(Token, << >>, <<id, sig, sig>>)

Eip1559(id, call, rest) ==
    <<2>> \o EncodeItems(<<id, <<7>>, <<1>>, <<2>>, <<82, 8>>, Token, <<3>>, call, << >>>> \o rest)

Eip2930(id, call, rest) ==
    <<1>> \o EncodeItems(<<id, <<7>>, <<1>>, <<82, 8>>, Token, <<3>>, call, << >>>> \o rest)

(* 5, 1, 137, 300, 2^31 - 1, 2^63, and those that are not supported. *)
AllNetworks == {<<5>>, <<1>>, <<137>>, <<1, 44>>, <<127, 255, 255, 255>>, <<128>> \o Repeat(0, 7)}
ChainIds == AllNetworks \cup {<< >>, <<0>>, <<6>>, <<0, 5>>, <<1, 45>>, <<128>> \o Repeat(0, 8)}

AllTokens == {Token}

Sound ==
    {Legacy(to, call, rest) : to \in {Token, Unlisted, << >>}, call \in Calls,
                              rest \in {<< >>, <<<<5>>, << >>, << >>>>}}
    \cup {Eip155(id, sig) : id \in ChainIds, sig \in {<< >>, <<0>>, <<1>>}}
    \cup {Eip1559(id, call, << >>) : id \in ChainIds, call \in {<< >>, <<1>>}}
    \cup {Eip2930(id, call, << >>) : id \in {<<5>>, <<6>>}, call \in Calls}

Damaged ==
    {Legacy(Token, << >>, rest) :
        rest \in {<<<<5>>>>, <<<<5>>, << >>>>, <<<<5>>, << >>, << >>, << >>>>, <<<<5>>, <<0>>, << >>>>}}
    \cup {Eip1559(<<5>>, << >>, <<<<1>>>>), Eip2930(<<5>>, << >>, <<<<1>>>>)}
    \cup {Legacy(Token, << >>, << >>) \o <<0>>, Tail(Eip1559(<<5>>, << >>, << >>)),
          <<3>> \o Tail(Eip1559(<<5>>, << >>, << >>)), <<2>>, << >>, <<2, 5>>,
          Front(Eip2930(<<5>>, << >>, << >>)), EncodeList(<< >>)}

SomeRequests == Sound \cup Damaged

(* One transaction on every supported network, but the two that are not    *)
(* to be used.                                                             *)
OnePerNetwork == {Eip155(id, << >>) : id \in AllNetworks \ {<<1>>}}

(* "Check allowed values for chain id using external configuration": a     *)
(* transaction without data on an allowed chain is not refused for its     *)
(* chain id.                                                               *)
SupportedChainsAccepted ==
    sent \in OnePerNetwork => verdict \notin {"unexpected_error", "invalid_chain_id"}

=============================================================================
