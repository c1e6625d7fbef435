------------------------------- MODULE Import -------------------------------
(***************************************************************************)
(* The reconciled import of a database that golang-migrate has managed     *)
(* (import_v2.go).  An importer scans the legacy directory, initialises    *)
(* the metadata, takes the advisory lock, reads the one row of             *)
(* golang-migrate's own table and inserts a baseline for every version at  *)
(* or below it, all in one transaction.                                    *)
(*                                                                         *)
(* The lock cannot stop golang-migrate, nor a developer who edits the      *)
(* directory: both act at any time here.  Every statement is one step; it  *)
(* may fail, the acknowledgement of the COMMIT may be lost, the server may *)
(* end the session and the process may die between any two steps.          *)
(***************************************************************************)
EXTENDS Integers, FiniteSets, Functions

CONSTANTS
  Importer,     \* calls of PreviewGolangMigrateImport and ImportGolangMigrate
  Stem,         \* file names without extension, numbered in directory order
  Digits,       \* the number each stem starts with, leading zeros dropped
  Desc,         \* the description after it
  Malformed,    \* stems whose description is not snake case
  MaxVersion,   \* the largest value of the version's unsigned type
  Content,      \* what a file can contain
  Missing,      \* no such file
  Dirs,         \* bound: the directories there may be, one at a time
  SrcVersions   \* bound: the versions golang-migrate's row may show

ASSUME StemAssumption ==
  /\ Stem \subseteq Nat /\ IsFiniteSet(Stem)
  /\ Digits \in [Stem -> Nat] /\ MaxVersion \in Nat
ASSUME NameAssumption == Malformed \subseteq Stem /\ DOMAIN Desc = Stem
ASSUME ContentAssumption == Missing \notin Content
ASSUME DirsAssumption ==
  Dirs \subseteq [Stem -> [up : Content \cup {Missing}, down : Content \cup {Missing}]]
ASSUME SrcAssumption == SrcVersions \subseteq Nat
ASSUME ImporterAssumption == "free" \notin Importer

Free == "free"            \* nobody holds the advisory lock
NoTuple == [version |-> 0, dirty |-> TRUE]  \* nothing read yet
NoOrigin == <<>>          \* no whole import in the table

-----------------------------------------------------------------------------
(* The scan of the legacy directory, an operator of what ReadDir lists.    *)

\* strconv.ParseUint, whose range error the scan drops: the value saturates.
VersionOf(s) == IF Digits[s] > MaxVersion THEN MaxVersion ELSE Digits[s]

Present(d) == {s \in Stem : d[s].up # Missing \/ d[s].down # Missing}

Versions(d) == {VersionOf(s) : s \in Present(d)}

SpellingsOf(d, v) == {s \in Present(d) : VersionOf(s) = v}

\* Only the entry seen last is remembered for a version and description, so a
\* duplicate shows where two files in a row have the same extension; within a
\* stem the down file comes first.
DuplicateInARow(d, s, t) ==
  /\ s < t
  /\ \A u \in SpellingsOf(d, VersionOf(s)) : ~(s < u /\ u < t)
  /\ (d[s].up = Missing) # (d[t].down = Missing)

\* The stem of the entry seen last gives the names of both files of the pair.
Winner(d, v) == CHOOSE s \in SpellingsOf(d, v) : \A t \in SpellingsOf(d, v) : t <= s

ScanAcceptsHalfPairs(d) ==
  \A v \in Versions(d) :
    /\ \A s, t \in SpellingsOf(d, v) : Desc[s] = Desc[t] /\ ~DuplicateInARow(d, s, t)
    /\ SpellingsOf(d, v) \cap Malformed = {}

\* scanLegacyImportDir refuses several descriptions or duplicates of a version,
\* a malformed description, and a pair that lacks a file.
ScanAccepts(d) ==
  \A v \in Versions(d) :
    /\ \A s, t \in SpellingsOf(d, v) : Desc[s] = Desc[t] /\ ~DuplicateInARow(d, s, t)
    /\ SpellingsOf(d, v) \cap Malformed = {}
    /\ d[Winner(d, v)].up # Missing
    /\ d[Winner(d, v)].down # Missing

\* The candidates: the pair of files, by checksum, of each version.
Candidates(d) == [v \in Versions(d) |-> d[Winner(d, v)]]

\* Versions above the recorded one are unresolved: reported, never imported.
Baselines(c, version) == Restrict(c, {v \in DOMAIN c : v <= version})

-----------------------------------------------------------------------------
VARIABLES
  src,        \* golang-migrate's table: its set of rows, normally one
  dir,        \* the legacy directory
  meta,       \* are lamigrate's metadata tables there?
  rows,       \* the golang_migrate baselines of the state table, by version
  lockOwner,  \* the importer whose session holds the advisory lock
  pc,         \* where a call is
  op,         \* which of the two calls it is
  scan,       \* the candidates its scan found
  seen,       \* the tuple it read before it planned
  inserted,   \* the versions its open transaction has inserted
  verdict,    \* how its call ends
  \* history
  moved,      \* the calls during whose transaction the tool wrote its table
  origin      \* the candidates and the tuple the baselines were imported from

vars == <<src, dir, meta, rows, lockOwner, pc, op, scan, seen, inserted, verdict,
          moved, origin>>

Pair == [up : Content, down : Content]
Tuple == [version : SrcVersions, dirty : BOOLEAN]
BaselineSets == UNION {[V -> Pair] : V \in SUBSET {VersionOf(s) : s \in Stem}}
Pcs == {"idle", "scan", "bootstrap", "lock", "read", "plan", "reread", "begin",
        "insert", "release"}
Verdicts == {"none", "error", "conflict", "planned", "empty", "noop", "imported"}

TypeOK ==
  /\ src \in SUBSET Tuple
  /\ dir \in Dirs
  /\ meta \in BOOLEAN
  /\ rows \in BaselineSets
  /\ lockOwner \in Importer \cup {Free}
  /\ pc \in [Importer -> Pcs]
  /\ op \in [Importer -> {"preview", "import"}]
  /\ scan \in [Importer -> BaselineSets]
  /\ seen \in [Importer -> Tuple \cup {NoTuple}]
  /\ inserted \in [Importer -> SUBSET {VersionOf(s) : s \in Stem}]
  /\ verdict \in [Importer -> Verdicts]
  /\ moved \subseteq Importer
  /\ origin = NoOrigin \/ origin \in BaselineSets \X Tuple

Init ==
  /\ src \in {{t} : t \in Tuple} \cup {{}}
  /\ dir \in Dirs
  /\ meta \in BOOLEAN
  /\ rows = <<>>
  /\ lockOwner = Free
  /\ pc = [i \in Importer |-> "idle"]
  /\ op = [i \in Importer |-> "preview"]
  /\ scan = [i \in Importer |-> <<>>]
  /\ seen = [i \in Importer |-> NoTuple]
  /\ inserted = [i \in Importer |-> {}]
  /\ verdict = [i \in Importer |-> "none"]
  /\ moved = {}
  /\ origin = NoOrigin

database == <<src, dir, meta, rows>>
call == <<op, scan, seen, inserted>>

Goto(i, p) == pc' = [pc EXCEPT ![i] = p]

\* What a call that was not made, or is over, remembers.
Forget(i) ==
  /\ op' = [op EXCEPT ![i] = "preview"]
  /\ scan' = [scan EXCEPT ![i] = <<>>]
  /\ seen' = [seen EXCEPT ![i] = NoTuple]
  /\ inserted' = [inserted EXCEPT ![i] = {}]
  /\ moved' = moved \ {i}

\* The call is over but for the lock and the session.
End(i, v) ==
  /\ Goto(i, "release")
  /\ verdict' = [verdict EXCEPT ![i] = v]
  /\ Forget(i)

\* A step that only moves on.
Continue(i, p) ==
  /\ Goto(i, p)
  /\ UNCHANGED <<call, verdict, moved>>

\* The call returns.
Return(i) ==
  /\ Goto(i, "idle")
  /\ verdict' = [verdict EXCEPT ![i] = "none"]
  /\ Forget(i)
  /\ UNCHANGED origin

FreedBy(i) == IF lockOwner = i THEN Free ELSE lockOwner

\* A call whose options are valid; an import is called with the attestation
\* that the source is quiesced, whether or not that is true.
Call(i, o) ==
  /\ pc[i] = "idle"
  /\ op' = [op EXCEPT ![i] = o]
  /\ Goto(i, "scan")
  /\ UNCHANGED <<database, lockOwner, scan, seen, inserted, verdict, moved, origin>>

\* scanLegacyImportDir, before the lock and before any connection.
ScanLegacyDir(i) ==
  /\ pc[i] = "scan"
  /\ IF ScanAccepts(dir)
       THEN /\ scan' = [scan EXCEPT ![i] = Candidates(dir)]
            /\ Goto(i, "bootstrap")
            /\ UNCHANGED <<op, seen, inserted, verdict, moved>>
       ELSE End(i, "error")
  /\ UNCHANGED <<database, lockOwner, origin>>

\* Initialising the metadata, on sessions of its own.  A preview does it too,
\* and ignores its failure.
Bootstrap(i) ==
  /\ pc[i] = "bootstrap"
  /\ meta' \in {meta, TRUE}
  /\ IF meta' \/ op[i] = "preview" THEN Continue(i, "lock") ELSE End(i, "error")
  /\ UNCHANGED <<src, dir, rows, lockOwner, origin>>

\* GET_LOCK: granted, or timed out.
AcquireLock(i) ==
  /\ pc[i] = "lock"
  /\ IF lockOwner = Free THEN lockOwner' = i /\ Continue(i, "read")
                         ELSE UNCHANGED lockOwner /\ End(i, "error")
  /\ UNCHANGED <<database, origin>>

\* readGolangMigrateSource wants exactly one row.
ReadSource(i) ==
  /\ pc[i] = "read"
  /\ \/ \E t \in Tuple :
          /\ src = {t}
          /\ seen' = [seen EXCEPT ![i] = t]
          /\ Goto(i, "plan")
          /\ UNCHANGED <<op, scan, inserted, verdict, moved>>
     \/ Cardinality(src) # 1 /\ End(i, "error")
  /\ UNCHANGED <<database, lockOwner, origin>>

IsMatchOfVersions(existing, planned) == DOMAIN existing = DOMAIN planned

\* isExactImportMatch: the same identities and the same checksums.
IsExactImportMatch(existing, planned) == existing = planned

\* No table, no baselines.
DestinationBaselines == IF meta THEN rows ELSE <<>>

\* The slip of comparing the table with everything the directory has.
VerdictOfAllCandidates(i) ==
  LET planned == Baselines(scan[i], seen[i].version)
  IN CASE seen[i].dirty                     -> "error"
       [] ~seen[i].dirty /\ planned = <<>>  -> "empty"
       [] ~seen[i].dirty /\ planned # <<>> /\ DestinationBaselines # <<>> ->
            IF IsExactImportMatch(DestinationBaselines, scan[i]) THEN "noop" ELSE "conflict"
       [] OTHER                             -> "planned"

\* buildImportPlan.
Verdict(i) ==
  LET planned == Baselines(scan[i], seen[i].version)
  IN CASE seen[i].dirty                     -> "error"
       [] ~seen[i].dirty /\ planned = <<>>  -> "empty"
       [] ~seen[i].dirty /\ planned # <<>> /\ DestinationBaselines # <<>> ->
            IF IsExactImportMatch(DestinationBaselines, planned) THEN "noop" ELSE "conflict"
       [] OTHER                             -> "planned"

BuildPlan(i) ==
  /\ pc[i] = "plan"
  /\ IF Verdict(i) = "planned" /\ op[i] = "import" THEN Continue(i, "reread")
                                                  ELSE End(i, Verdict(i))
  /\ UNCHANGED <<database, lockOwner, origin>>

\* The source must not have moved since it was read.
RereadSource(i) ==
  /\ pc[i] = "reread"
  /\ IF src = {seen[i]} THEN Continue(i, "begin") ELSE End(i, "error")
  /\ UNCHANGED <<database, lockOwner, origin>>

\* The slip of trusting the check made before the transaction.
BeginTrustingPlan(i) ==
  /\ pc[i] = "begin"
  /\ Continue(i, "insert")
  /\ UNCHANGED <<database, lockOwner, origin>>

\* START TRANSACTION and the last read of the source, inside it; a source that
\* moved is a ROLLBACK.
Begin(i) ==
  /\ pc[i] = "begin"
  /\ IF src = {seen[i]} THEN Continue(i, "insert") ELSE End(i, "error")
  /\ UNCHANGED <<database, lockOwner, origin>>

Planned(i) == Baselines(scan[i], seen[i].version)

\* One INSERT, in ascending order of versions.
InsertBaseline(i) ==
  /\ pc[i] = "insert"
  /\ \E v \in DOMAIN Planned(i) \ inserted[i] :
       /\ \A w \in DOMAIN Planned(i) \ inserted[i] : v <= w
       /\ inserted' = [inserted EXCEPT ![i] = @ \cup {v}]
  /\ UNCHANGED <<database, lockOwner, pc, op, scan, seen, verdict, moved, origin>>

\* COMMIT; its acknowledgement may be lost, which the call reports as an error.
Commit(i) ==
  /\ pc[i] = "insert"
  /\ inserted[i] = DOMAIN Planned(i)
  /\ rows' = Planned(i)
  /\ origin' = <<scan[i], seen[i]>>
  /\ End(i, "imported") \/ End(i, "error")
  /\ UNCHANGED <<src, dir, meta, lockOwner>>

\* A statement fails: the transaction, if any, is rolled back.
Fail(i) ==
  /\ pc[i] \notin {"idle", "release"}
  /\ End(i, "error")
  /\ UNCHANGED <<database, lockOwner, origin>>

\* RELEASE_LOCK and the end of the session; the call returns.
Release(i) ==
  /\ pc[i] = "release"
  /\ lockOwner' = FreedBy(i)
  /\ Return(i)
  /\ UNCHANGED database

\* The server ends the session: its transaction is rolled back and its lock
\* freed, and the next statement of the call fails.
LoseSession(i) ==
  /\ lockOwner = i
  /\ lockOwner' = Free
  /\ End(i, IF pc[i] = "release" THEN verdict[i] ELSE "error")
  /\ UNCHANGED <<database, origin>>

\* The process dies.
Crash(i) ==
  /\ pc[i] # "idle"
  /\ lockOwner' = FreedBy(i)
  /\ Return(i)
  /\ UNCHANGED database

\* golang-migrate, or a manual writer, writes the source table: clean or dirty,
\* at any version, or without a row once everything is rolled back.
WriteSource ==
  /\ src' \in {{t} : t \in Tuple} \cup {{}}
  /\ src' # src
  /\ moved' = moved \cup {i \in Importer : pc[i] = "insert"}
  /\ UNCHANGED <<dir, meta, rows, lockOwner, pc, call, verdict, origin>>

\* A developer edits, adds or removes legacy files.
EditLegacyDir ==
  /\ dir' \in Dirs \ {dir}
  /\ UNCHANGED <<src, meta, rows, lockOwner, pc, call, verdict, moved, origin>>

\* A repair drops the row of a baseline, under the lock.
ForgetBaseline(v) ==
  /\ lockOwner = Free
  /\ rows' = Restrict(rows, DOMAIN rows \ {v})
  /\ origin' = NoOrigin
  /\ UNCHANGED <<src, dir, meta, lockOwner, pc, call, verdict, moved>>

Next ==
  \/ \E i \in Importer :
       \/ Call(i, "preview") \/ Call(i, "import")
       \/ ScanLegacyDir(i) \/ Bootstrap(i) \/ AcquireLock(i)
       \/ ReadSource(i) \/ BuildPlan(i) \/ RereadSource(i)
       \/ Begin(i) \/ InsertBaseline(i) \/ Commit(i)
       \/ Fail(i) \/ Release(i) \/ LoseSession(i) \/ Crash(i)
  \/ WriteSource \/ EditLegacyDir
  \/ \E v \in DOMAIN rows : ForgetBaseline(v)

Spec == Init /\ [][Next]_vars

-----------------------------------------------------------------------------
(* Properties.                                                             *)

\* architecture.md 13, item 12: the baselines appear all at once, in a table
\* that has none, for a clean source; and unless golang-migrate wrote its table
\* while the transaction was open, which the attestation excludes, they are the
\* versions it has applied at that very moment.
ImportsCleanSource ==
  [][\A v \in DOMAIN rows' : v \notin DOMAIN rows =>
       /\ rows = <<>>
       /\ \E i \in Importer :
            /\ lockOwner = i
            /\ ~seen[i].dirty
            /\ rows' = Baselines(scan[i], seen[i].version)
            /\ i \in moved \/ src = {seen[i]}]_vars

\* architecture.md 13, item 13 and the paragraph on a lost COMMIT: whatever
\* happened to the call that imported, a call that finds the same source and
\* the same directory is never refused for a conflict.
SameImportIsAccepted ==
  [][\A i \in Importer :
       verdict[i] = "none" /\ verdict'[i] = "conflict" =>
         origin # <<scan[i], seen[i]>>]_vars

\* An import that reports success leaves the baselines of the directory it
\* scanned, with their checksums, and no baseline above the version it read.
SuccessIsExact ==
  [][\A i \in Importer :
       op[i] = "import" /\ verdict[i] = "none" /\ verdict'[i] \in {"imported", "noop"} =>
         /\ rows' = Restrict(scan[i], {v \in DOMAIN scan[i] : v <= seen[i].version})
         /\ meta]_vars
=============================================================================
