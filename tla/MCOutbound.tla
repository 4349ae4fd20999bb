------------------------------ MODULE MCOutbound ------------------------------
(* A small instance of Outbound for TLC: a text that is cut at a line break, one *)
(* that is cut in the middle of a line, and an empty one.                        *)
EXTENDS Outbound

SomeTexts == {<<"x", "n", "x">>, <<"x", "x", "x">>, <<>>}
=============================================================================
