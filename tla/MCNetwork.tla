------------------------------ MODULE MCNetwork ------------------------------
EXTENDS Network

\* p2 and p3 are told apart only by what a name does not keep.
MCNick == [p \in Peers |-> CASE p = "p1" -> <<"a">> [] p = "p2" -> <<"b", "c">>
                             [] OTHER -> <<"b", "d">>]
MCHome == [p \in Peers |-> CASE p = "p1" -> "a1" [] p = "p2" -> "a2" [] OTHER -> "a3"]
MCTyped == {<<"x", "tab", "y">>, <<"tab">>}
=============================================================================
