------------------------------ MODULE MCImport ------------------------------
(* Instances of Import for TLC.                                            *)
EXTENDS Import, TLC

CONSTANTS i1, i2, a, b

TwoImporters == {i1, i2}
TwoContents == {a, b}
ImporterSymmetry == Permutations(TwoImporters)

\* 01_x, 1_x, 2_y and 9_z, whose number does not fit the version.
FourStems == 1..4
TheirDigits == <<1, 1, 2, 9>>
TheirDescs == <<"x", "x", "y", "z">>
Four == 4
OneTwo == {1, 2}
NoStems == {}

Nothing == [up |-> Missing, down |-> Missing]
PairOf(c) == [up |-> c, down |-> a]
Dir(s, t, u, w) == <<s, t, u, w>>

\* Pairs of both versions, one edited; a version removed; the same version spelled
\* twice, in a way the scan accepts and one it refuses; half a pair.
SomeDirs ==
  { Dir(Nothing, PairOf(a), PairOf(a), Nothing),
    Dir(Nothing, PairOf(b), PairOf(a), PairOf(b)),
    Dir(Nothing, PairOf(a), Nothing, Nothing),
    Dir(PairOf(b), PairOf(a), Nothing, Nothing),
    Dir([up |-> Missing, down |-> a], PairOf(a), PairOf(a), Nothing),
    Dir(Nothing, [up |-> a, down |-> Missing], PairOf(a), Nothing) }
=============================================================================
