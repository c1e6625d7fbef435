------------------------------ MODULE Planner ------------------------------
(***************************************************************************)
(* The planner of lamigrate (planner.go, planner_refresh.go): which        *)
(* migrations a command will roll back and which it will apply, computed   *)
(* from one scan of the migration directory and one read of the metadata   *)
(* table.  It has no state of its own: every operator is a function of     *)
(* the scanned files and of the columns of the metadata table, which the   *)
(* module Migrator keeps in variables.                                     *)
(*                                                                         *)
(* A migration is named by its timestamp, so that the order of discovery   *)
(* is the order of the numbers.  A Content value stands for the exact      *)
(* bytes of an (up, down) pair of files and, SHA-256 being collision-free  *)
(* for every purpose here, for the pair of checksums of those bytes.       *)
(***************************************************************************)
EXTENDS Naturals, FiniteSets

CONSTANTS
  Mig,                  \* the migrations of one tracking table
  Baseline,             \* those recorded by an import: batch 0, no source here
  Content,              \* what the pair of files of a migration may contain
  Limits,               \* the step limits a caller may give; a large one is "all"
  IgnoreMissingSource,  \* Options.IgnoreMissingSource
  IgnoreChecksumDrift   \* Options.IgnoreChecksumDrift

ASSUME MigAssumption == Mig \subseteq Nat \ {0} /\ Baseline \subseteq Mig
ASSUME ContentAssumption == {"missing", "none", "partial"} \cap Content = {}
ASSUME OptionAssumption ==
  /\ Limits \subseteq Nat \ {0}
  /\ IgnoreMissingSource \in BOOLEAN
  /\ IgnoreChecksumDrift \in BOOLEAN

Missing == "missing"      \* no pair of files, or no checksum

Dirty == {"applying", "apply_failed", "rolling_back", "rollback_failed"}
RowState == {"absent", "applied"} \cup Dirty

-----------------------------------------------------------------------------
(* Selections.  FirstN is the prefix of a list sorted by timestamp, LastN  *)
(* the prefix of a list sorted by descending row id: the two orders in     *)
(* which the code walks pending files and applied rows.                    *)

FirstN(S, n) == {m \in S : Cardinality({k \in S : k < m}) < n}

LastN(S, n, rowid) == {m \in S : Cardinality({k \in S : rowid[k] > rowid[m]}) < n}

IsFirst(m, S) == m \in S /\ \A k \in S : m <= k

IsLast(m, S, rowid) == m \in S /\ \A k \in S : rowid[k] <= rowid[m]

-----------------------------------------------------------------------------
(* What the metadata table and the scan say.                               *)

Rows(state) == {m \in Mig : state[m] # "absent"}

IsDirty(s) == s \in Dirty

\* The slip of treating a failed attempt as finished business.
GlobalDriftCheckForgivesFailures(state, sum, scan) ==
  \A m \in Rows(state) :
    /\ state[m] \notin {"applying", "rolling_back"}
    /\ m \notin Baseline =>
         IF scan[m] = Missing THEN IgnoreMissingSource
                              ELSE IgnoreChecksumDrift \/ scan[m] = sum[m]

\* The slip of letting IgnoreMissingSource forgive drift as well.
GlobalDriftCheckOfPresence(state, sum, scan) ==
  \A m \in Rows(state) : ~IsDirty(state[m]) /\ (m \in Baseline \/ IgnoreMissingSource)

\* Every recorded migration is clean and, unless it is a baseline, has the
\* source it was applied from.
GlobalDriftCheck(state, sum, scan) ==
  \A m \in Rows(state) :
    /\ ~IsDirty(state[m])
    /\ m \notin Baseline =>
         IF scan[m] = Missing THEN IgnoreMissingSource
                              ELSE IgnoreChecksumDrift \/ scan[m] = sum[m]

Pending(state, scan) == {m \in Mig : scan[m] # Missing /\ state[m] = "absent"}

Rollbackable(state) == Rows(state) \ Baseline

\* The slip of ordering by name instead of by execution.
DownCandidatesByName(state, batch) ==
  {m \in Rollbackable(state) : \A k \in Rollbackable(state) : k <= m}

\* The rows of the latest non-baseline batch.
DownCandidates(state, batch) ==
  {m \in Rollbackable(state) : \A k \in Rollbackable(state) : batch[k] <= batch[m]}
=============================================================================
