----------------------------- MODULE MCDisplay -----------------------------
(* Two by three characters of 2 x 4 pixels, on a screen that is one pixel    *)
(* wider than that.                                                          *)
EXTENDS Vt

A == 65
\* Letters, one in another color with a return and a line feed, a tab, and
\* backspaces that go left of the line; numbers in each conversion.
MCCalls == {[fmt |-> f, args |-> <<>>] :
              f \in {<<A, BEL, 18, BEL, 3, A, CR>>, <<HT, A, LF>>, <<BS, BS, A>>}}
           \cup {[fmt |-> <<37, 120>>, args |-> <<175>>], [fmt |-> <<37, 105>>, args |-> <<20>>]}

MCGlyph == [ch \in 0 .. 127 |-> IF ch = A THEN {<<0, 0>>, <<1, 3>>} ELSE {<<1, 1>>}]
MCFallback == [ch \in 0 .. 127 |-> {<<0, 0>>, <<0, 1>>}]
=============================================================================
