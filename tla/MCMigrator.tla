----------------------------- MODULE MCMigrator -----------------------------
(* Instances of Migrator for TLC.                                          *)
EXTENDS Migrator, TLC

CONSTANTS r1, r2, a, b

OneRunner == {r1}
TwoRunners == {r1, r2}
OneContent == {a}
TwoContents == {a, b}

\* Runners are interchangeable, and so are contents.
RunnerSymmetry == Permutations(TwoRunners)
ContentSymmetry == Permutations(TwoContents)

OneMig == {1}
TwoMigs == {1, 2}
ThreeMigs == {1, 2, 3}
NoMigs == {}
BaselineOne == {1}
OneLate == {2}
All == {9}

StepAndAll == {1, 9}
UpDown == {"up", "down"}
UpRefresh == {"up", "refresh"}
UpReset == {"up", "reset"}
UpAndMark == {"up", "down", "mark-rolled-back"}
PlansAndRemovals == PlanCommands \cup {"remove-failed", "forget"}
UpAndRepair == {"up", "down"} \cup RepairCommands
=============================================================================
