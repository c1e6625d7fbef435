---------------------------- MODULE MCDirectory ----------------------------
(* Instances of Directory for TLC.                                         *)
EXTENDS Directory, TLC

CONSTANTS c1, c2, s1, s2, x, y

TwoCreators == {c1, c2}
TwoSeconds == {s1, s2}
TwoNames == {x, y}
\* Two names that compete for one second, and a later second.
ThreeBases == {<<s1, x>>, <<s1, y>>, <<s2, x>>}
CreatorSymmetry == Permutations(TwoCreators)
=============================================================================
