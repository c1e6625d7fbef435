------------------------------ MODULE MCLegacy ------------------------------
(* Instances of LegacyMigrate for TLC.                                     *)
EXTENDS LegacyMigrate, TLC

CONSTANTS p1, p2

TwoProcesses == {p1, p2}
ProcessSymmetry == Permutations(TwoProcesses)
Numbers == {1, 2}
Timestamps == {3, 4}
FirstNumber == {1}
AllCommands == {"up", "down", "reset", "import"}
All == {9}

None == {}
UpOnly == {"up"}
DownOnly == {"down"}
Pair == {"up", "down"}
\* Every pair; one pair with a timestamp, and halves of the others; half a pair
\* with a timestamp, which fails every scan.
SomeDirs == {<<Pair, Pair, Pair, Pair>>, <<UpOnly, DownOnly, Pair, DownOnly>>,
             <<DownOnly, None, UpOnly, Pair>>}
=============================================================================
