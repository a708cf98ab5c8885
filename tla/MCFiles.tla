------------------------------ MODULE MCFiles ------------------------------
(* A tree with a directory in a directory, the devices, and figures on a     *)
(* screen of six by five pixels.                                             *)
EXTENDS DevFs

File(name) == [name |-> name, dev |-> 0]
Inner == Dir(<<>>, <<File("b")>>)
Outer == Dir(<<[name |-> "a", dir |-> Inner]>>, <<File("b")>>)
MCDirectories == {Inner, Outer, Dir(<<[name |-> "a", dir |-> Outer]>>, <<File("c")>>)}
MCTrees == {[name |-> "fs", root |-> Dir(<<[name |-> "a", dir |-> Outer]>>, <<File("c")>>)]}
MCPaths == {<<"">>, <<"dev">>, <<"dev", "null">>, <<"dev", "null", "b">>, <<"dev", "drma">>,
            <<"dev", "drmb">>, <<"fs", "a">>, <<"fs", "a", "a", "b">>, <<"fs", "a", "b">>,
            <<"fs", "c", "b">>, <<"fs", "c">>, <<"fs", "">>}
Points == (0 .. Width - 1) \X (0 .. Height - 1)
MCFigures == {[kind |-> k, p |-> p, q |-> q] : k \in {"line", "rect", "fill"}, p \in Points, q \in Points}
             \cup {[kind |-> "circle", p |-> p, q |-> <<r, 0>>] : p \in Points, r \in 0 .. 3}
             \cup {[kind |-> "char", p |-> p, q |-> <<f, 65>>] : p \in Points, f \in {0, 1}}
MCTransfers == [at : {0, 4, 30}, size : {0, 3}]
MCGlyph == (65 :> {<<0, 0>>, <<1, 1>>})
MCFallback == (65 :> {<<0, 0>>})
=============================================================================
