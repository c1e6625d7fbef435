----------------------------- MODULE MCMetadata -----------------------------
(* Instances of Metadata for TLC.                                          *)
EXTENDS Metadata, TLC

CONSTANTS r1, r2, s1, s2

OneRunner == {r1}
TwoRunners == {r1, r2}
OneScope == {s1}
TwoScopes == {s1, s2}

\* Runners are interchangeable, and so are scopes.
Symmetry == Permutations(TwoRunners) \cup Permutations(TwoScopes)
RunnerSymmetry == Permutations(TwoRunners)

OneMig == {1}
TwoMigs == {1, 2}
NoScopes == {}
AllScopes == Scope
LastScope == {s2}
ImportedOrLast == {0, 2}
Imported == {0}
Previews == {"preview"}
Adoption == {"write", "adopt"}
All == {"write", "preview", "status", "adopt"}
=============================================================================
