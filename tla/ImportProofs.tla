---------------------------- MODULE ImportProofs ----------------------------
(***************************************************************************)
(* Theorems about Import, for any number of importers, any directories,    *)
(* and any behaviour of golang-migrate and of developers.  What an         *)
(* importer read before some waits is still good when it commits:          *)
(*                                                                         *)
(*   HoldInv    from the first read of the source it holds the lock, so    *)
(*              the table it found empty stays empty                       *)
(*   SourceInv  the source is as it was read, or was written during the    *)
(*              open transaction                                           *)
(*   OriginInv  the baselines in the table are those of one scan and one   *)
(*              tuple                                                      *)
(***************************************************************************)
EXTENDS Import, NumberTheorems

\* One step that involves importer i, its own or one that is done to it.
Step(i) ==
  \/ Call(i, "preview") \/ Call(i, "import")
  \/ ScanLegacyDir(i) \/ Bootstrap(i) \/ AcquireLock(i)
  \/ ReadSource(i) \/ BuildPlan(i) \/ RereadSource(i)
  \/ Begin(i) \/ InsertBaseline(i) \/ Commit(i)
  \/ Fail(i) \/ Release(i) \/ LoseSession(i) \/ Crash(i)

Beside ==
  \/ WriteSource \/ EditLegacyDir
  \/ \E v \in DOMAIN rows : ForgetBaseline(v)

\* The variables of importers have a value for each.
Shape ==
  /\ pc \in [Importer -> Pcs]
  /\ verdict \in [Importer -> Verdicts]
  /\ DOMAIN op = Importer /\ DOMAIN scan = Importer
  /\ DOMAIN seen = Importer /\ DOMAIN inserted = Importer
  /\ moved \subseteq Importer

PlannedPcs == {"reread", "begin", "insert"}
HeldPcs == {"read", "plan"} \cup PlannedPcs

Hold(i) ==
  /\ pc[i] \in HeldPcs => lockOwner = i
  /\ pc[i] \in {"lock"} \cup HeldPcs /\ op[i] = "import" => meta
  /\ pc[i] \in PlannedPcs => ~seen[i].dirty /\ rows = <<>> /\ meta

Source(i) == pc[i] = "insert" => i \in moved \/ src = {seen[i]}

HoldInv == \A i \in Importer : Hold(i)
SourceInv == \A i \in Importer : Source(i)
OriginInv == \A c, t : origin = <<c, t>> => rows = Baselines(c, t.version)

ImportInv == Shape /\ HoldInv /\ SourceInv /\ OriginInv

-----------------------------------------------------------------------------
(* The verdict of a plan.                                                  *)

\* An import goes on only from an empty table and a clean source; what it calls
\* done is there; what it calls a conflict differs from what is planned.
LEMMA VerdictMeaning ==
  ASSUME NEW i \in Importer
  PROVE  /\ Verdict(i) = "planned" => ~seen[i].dirty /\ DestinationBaselines = <<>>
         /\ Verdict(i) = "noop" => DestinationBaselines = Planned(i)
         /\ Verdict(i) = "conflict" =>
              DestinationBaselines # Planned(i) /\ DestinationBaselines # <<>>
         /\ Verdict(i) \in {"error", "empty", "noop", "conflict", "planned"}
<1>. DEFINE p == Baselines(scan[i], seen[i].version)
<1>1. CASE seen[i].dirty
  BY <1>1 DEF Verdict
<1>2. CASE ~seen[i].dirty /\ p = <<>>
  BY <1>2 DEF Verdict
<1>3. CASE ~seen[i].dirty /\ p # <<>> /\ DestinationBaselines # <<>>
  BY <1>3 DEF Verdict, Planned, IsExactImportMatch
<1>4. CASE ~seen[i].dirty /\ p # <<>> /\ DestinationBaselines = <<>>
  BY <1>4 DEF Verdict
<1>. QED
  BY <1>1, <1>2, <1>3, <1>4

-----------------------------------------------------------------------------
(* One step.                                                               *)

LEMMA ShapeStep == ASSUME Shape, NEW i \in Importer, Step(i) PROVE Shape'
<1>. USE VerdictMeaning DEF Shape, Pcs, Verdicts, Goto, Continue, End, Forget, Return, call
<1>1. CASE Call(i, "preview")
  BY <1>1 DEF Call
<1>2. CASE Call(i, "import")
  BY <1>2 DEF Call
<1>3. CASE ScanLegacyDir(i)
  BY <1>3 DEF ScanLegacyDir
<1>4. CASE Bootstrap(i)
  BY <1>4 DEF Bootstrap
<1>5. CASE AcquireLock(i)
  BY <1>5 DEF AcquireLock
<1>6. CASE ReadSource(i)
  BY <1>6 DEF ReadSource
<1>7. CASE BuildPlan(i)
  BY <1>7 DEF BuildPlan
<1>8. CASE RereadSource(i)
  BY <1>8 DEF RereadSource
<1>9. CASE Begin(i)
  BY <1>9 DEF Begin
<1>10. CASE InsertBaseline(i)
  BY <1>10 DEF InsertBaseline
<1>11. CASE Commit(i)
  BY <1>11 DEF Commit
<1>12. CASE Fail(i)
  BY <1>12 DEF Fail
<1>13. CASE Release(i)
  BY <1>13 DEF Release
<1>14. CASE LoseSession(i)
  BY <1>14 DEF LoseSession
<1>15. CASE Crash(i)
  BY <1>15 DEF Crash
<1>. QED
  BY <1>1, <1>2, <1>3, <1>4, <1>5, <1>6, <1>7, <1>8, <1>9, <1>10, <1>11, <1>12, <1>13,
     <1>14, <1>15 DEF Step

\* A step of one importer leaves the local state of the others alone.
LEMMA Frame ==
  ASSUME Shape, NEW i \in Importer, Step(i), NEW j \in Importer \ {i}
  PROVE  /\ pc'[j] = pc[j] /\ op'[j] = op[j] /\ scan'[j] = scan[j] /\ seen'[j] = seen[j]
         /\ verdict'[j] = verdict[j] /\ (j \in moved => j \in moved')
<1>. USE DEF Shape, Goto, Continue, End, Forget, Return, call
<1>1. CASE Call(i, "preview")
  BY <1>1 DEF Call
<1>2. CASE Call(i, "import")
  BY <1>2 DEF Call
<1>3. CASE ScanLegacyDir(i)
  BY <1>3 DEF ScanLegacyDir
<1>4. CASE Bootstrap(i)
  BY <1>4 DEF Bootstrap
<1>5. CASE AcquireLock(i)
  BY <1>5 DEF AcquireLock
<1>6. CASE ReadSource(i)
  BY <1>6 DEF ReadSource
<1>7. CASE BuildPlan(i)
  BY <1>7 DEF BuildPlan
<1>8. CASE RereadSource(i)
  BY <1>8 DEF RereadSource
<1>9. CASE Begin(i)
  BY <1>9 DEF Begin
<1>10. CASE InsertBaseline(i)
  BY <1>10 DEF InsertBaseline
<1>11. CASE Commit(i)
  BY <1>11 DEF Commit
<1>12. CASE Fail(i)
  BY <1>12 DEF Fail
<1>13. CASE Release(i)
  BY <1>13 DEF Release
<1>14. CASE LoseSession(i)
  BY <1>14 DEF LoseSession
<1>15. CASE Crash(i)
  BY <1>15 DEF Crash
<1>. QED
  BY <1>1, <1>2, <1>3, <1>4, <1>5, <1>6, <1>7, <1>8, <1>9, <1>10, <1>11, <1>12, <1>13,
     <1>14, <1>15 DEF Step

\* Who waits gets the lock when it is free; nobody but a holder writes.
LEMMA SharedEffect ==
  ASSUME Shape, NEW i \in Importer, Step(i)
  PROVE  /\ src' = src /\ (meta => meta')
         /\ lockOwner # Free /\ lockOwner # i => lockOwner' = lockOwner
         /\ rows' = rows \/ Commit(i)
         /\ origin' = origin \/ Commit(i)
<1>. USE DEF Shape, Return, FreedBy, database
<1>1. CASE Call(i, "preview")
  BY <1>1 DEF Call
<1>2. CASE Call(i, "import")
  BY <1>2 DEF Call
<1>3. CASE ScanLegacyDir(i)
  BY <1>3 DEF ScanLegacyDir
<1>4. CASE Bootstrap(i)
  <2>1. meta' = meta \/ meta' = TRUE
    BY <1>4 DEF Bootstrap
  <2>2. meta => meta'
    BY <2>1, Zenon
  <2>. QED
    BY <1>4, <2>2 DEF Bootstrap
<1>5. CASE AcquireLock(i)
  BY <1>5 DEF AcquireLock
<1>6. CASE ReadSource(i)
  BY <1>6 DEF ReadSource
<1>7. CASE BuildPlan(i)
  BY <1>7 DEF BuildPlan
<1>8. CASE RereadSource(i)
  BY <1>8 DEF RereadSource
<1>9. CASE Begin(i)
  BY <1>9 DEF Begin
<1>10. CASE InsertBaseline(i)
  BY <1>10 DEF InsertBaseline
<1>11. CASE Commit(i)
  BY <1>11 DEF Commit
<1>12. CASE Fail(i)
  BY <1>12 DEF Fail
<1>13. CASE Release(i)
  BY <1>13 DEF Release
<1>14. CASE LoseSession(i)
  BY <1>14 DEF LoseSession
<1>15. CASE Crash(i)
  BY <1>15 DEF Crash
<1>. QED
  BY <1>1, <1>2, <1>3, <1>4, <1>5, <1>6, <1>7, <1>8, <1>9, <1>10, <1>11, <1>12, <1>13,
     <1>14, <1>15 DEF Step

\* What an importer knows after its own step.
LEMMA OwnStep ==
  ASSUME Shape, NEW i \in Importer, Step(i), Hold(i), Source(i)
  PROVE  Hold(i)' /\ Source(i)'
<1>. USE DEF Shape, Hold, Source, HeldPcs, PlannedPcs, Goto, Continue, End, Forget, Return,
         call, database
<1>1. CASE Call(i, "preview")
  BY <1>1 DEF Call
<1>2. CASE Call(i, "import")
  BY <1>2 DEF Call
<1>3. CASE ScanLegacyDir(i)
  BY <1>3 DEF ScanLegacyDir
<1>4. CASE Bootstrap(i)
  BY <1>4 DEF Bootstrap
<1>5. CASE AcquireLock(i)
  BY <1>5 DEF AcquireLock
<1>6. CASE ReadSource(i)
  BY <1>6 DEF ReadSource
<1>7. CASE BuildPlan(i)
  <2>1. CASE Verdict(i) = "planned" /\ op[i] = "import"
    <3>1. ~seen[i].dirty /\ DestinationBaselines = <<>> /\ meta
      BY <1>7, <2>1, VerdictMeaning DEF BuildPlan
    <3>. QED
      BY <1>7, <2>1, <3>1 DEF BuildPlan, DestinationBaselines
  <2>2. CASE ~(Verdict(i) = "planned" /\ op[i] = "import")
    BY <1>7, <2>2 DEF BuildPlan
  <2>. QED
    BY <2>1, <2>2
<1>8. CASE RereadSource(i)
  BY <1>8 DEF RereadSource
<1>9. CASE Begin(i)
  BY <1>9 DEF Begin
<1>10. CASE InsertBaseline(i)
  BY <1>10 DEF InsertBaseline
<1>11. CASE Commit(i)
  BY <1>11 DEF Commit
<1>12. CASE Fail(i)
  BY <1>12 DEF Fail
<1>13. CASE Release(i)
  BY <1>13 DEF Release
<1>14. CASE LoseSession(i)
  BY <1>14 DEF LoseSession
<1>15. CASE Crash(i)
  BY <1>15 DEF Crash
<1>. QED
  BY <1>1, <1>2, <1>3, <1>4, <1>5, <1>6, <1>7, <1>8, <1>9, <1>10, <1>11, <1>12, <1>13,
     <1>14, <1>15 DEF Step

\* Where a call learns how it ends.
LEMMA OwnVerdict ==
  ASSUME Shape, NEW i \in Importer, Step(i), verdict[i] = "none",
         verdict'[i] \in {"imported", "noop", "conflict"}
  PROVE  \/ BuildPlan(i) /\ verdict'[i] = Verdict(i)
         \/ Commit(i) /\ verdict'[i] = "imported"
<1>. USE DEF Shape, Goto, Continue, End, Forget, Return, call
<1>1. CASE Call(i, "preview")
  BY <1>1 DEF Call
<1>2. CASE Call(i, "import")
  BY <1>2 DEF Call
<1>3. CASE ScanLegacyDir(i)
  BY <1>3 DEF ScanLegacyDir
<1>4. CASE Bootstrap(i)
  BY <1>4 DEF Bootstrap
<1>5. CASE AcquireLock(i)
  BY <1>5 DEF AcquireLock
<1>6. CASE ReadSource(i)
  BY <1>6 DEF ReadSource
<1>7. CASE BuildPlan(i)
  BY <1>7 DEF BuildPlan
<1>8. CASE RereadSource(i)
  BY <1>8 DEF RereadSource
<1>9. CASE Begin(i)
  BY <1>9 DEF Begin
<1>10. CASE InsertBaseline(i)
  BY <1>10 DEF InsertBaseline
<1>11. CASE Commit(i)
  BY <1>11 DEF Commit
<1>12. CASE Fail(i)
  BY <1>12 DEF Fail
<1>13. CASE Release(i)
  BY <1>13 DEF Release
<1>14. CASE LoseSession(i)
  BY <1>14 DEF LoseSession
<1>15. CASE Crash(i)
  BY <1>15 DEF Crash
<1>. QED
  BY <1>1, <1>2, <1>3, <1>4, <1>5, <1>6, <1>7, <1>8, <1>9, <1>10, <1>11, <1>12, <1>13,
     <1>14, <1>15 DEF Step

LEMMA VerdictEffect ==
  ASSUME ImportInv, [Next]_vars, NEW i \in Importer, verdict[i] = "none",
         verdict'[i] \in {"imported", "noop", "conflict"}
  PROVE  \/ BuildPlan(i) /\ verdict'[i] = Verdict(i)
         \/ Commit(i) /\ verdict'[i] = "imported"
<1>1. verdict'[i] # verdict[i]
  OBVIOUS
<1>2. ~Beside /\ ~UNCHANGED vars
  BY <1>1 DEF Beside, WriteSource, EditLegacyDir, ForgetBaseline, vars
<1>3. PICK j \in Importer : Step(j)
  BY <1>2 DEF Next, Step, Beside
<1>4. Step(i) /\ Shape
  BY <1>1, <1>3, Frame DEF ImportInv
<1>. QED
  BY <1>4, OwnVerdict

\* The baselines that appear are those the holder of the lock planned.
LEMMA CommitEffect ==
  ASSUME NEW i \in Importer, Commit(i)
  PROVE  /\ rows' = Baselines(scan[i], seen[i].version)
         /\ origin' = <<scan[i], seen[i]>>
         /\ pc[i] = "insert"
  BY DEF Commit, Planned

LEMMA ImportInvStep == ImportInv /\ [Next]_vars => ImportInv'
<1>. SUFFICES ASSUME ImportInv, [Next]_vars PROVE ImportInv'
  OBVIOUS
<1>. USE DEF ImportInv
<1>1. ASSUME NEW i \in Importer, Step(i) PROVE ImportInv'
  <2>1. Hold(i)' /\ Source(i)'
    BY <1>1, OwnStep DEF HoldInv, SourceInv
  <2>2. ASSUME NEW j \in Importer \ {i} PROVE Hold(j)' /\ Source(j)'
    <3>1. Hold(j) /\ Source(j) /\ Hold(i)
      BY DEF HoldInv, SourceInv
    <3>2. /\ pc'[j] = pc[j] /\ op'[j] = op[j] /\ seen'[j] = seen[j]
          /\ (j \in moved => j \in moved')
      BY <1>1, <2>2, Frame
    <3>3. pc[j] \in HeldPcs => lockOwner' = lockOwner /\ rows' = rows
      <4>1. pc[j] \in HeldPcs => lockOwner = j /\ lockOwner # Free /\ lockOwner # i
        BY <2>2, <3>1, ImporterAssumption DEF Hold, Free
      <4>2. Commit(i) => lockOwner = i
        BY <3>1 DEF Commit, Hold, HeldPcs, PlannedPcs
      <4>. QED
        BY <1>1, <4>1, <4>2, SharedEffect
    <3>4. src' = src /\ (meta => meta')
      BY <1>1, SharedEffect
    <3>. QED
      BY <3>1, <3>2, <3>3, <3>4 DEF Hold, Source, HeldPcs, PlannedPcs
  <2>3. OriginInv'
    <3>1. ASSUME NEW c, NEW t, origin' = <<c, t>> PROVE rows' = Baselines(c, t.version)
      <4>1. CASE Commit(i)
        BY <3>1, <4>1, CommitEffect
      <4>2. CASE rows' = rows /\ origin' = origin
        BY <3>1, <4>2 DEF OriginInv
      <4>. QED
        BY <1>1, <4>1, <4>2, SharedEffect
    <3>. QED
      BY <3>1 DEF OriginInv, Baselines
  <2>. QED
    BY <1>1, <2>1, <2>2, <2>3, ShapeStep DEF HoldInv, SourceInv
<1>2. CASE WriteSource
  BY <1>2 DEF WriteSource, call, Shape, HoldInv, Hold, SourceInv, Source, OriginInv, Baselines
<1>3. CASE EditLegacyDir
  BY <1>3 DEF EditLegacyDir, call, Shape, HoldInv, Hold, SourceInv, Source, OriginInv, Baselines
<1>4. ASSUME NEW v \in DOMAIN rows, ForgetBaseline(v) PROVE ImportInv'
  <2>1. /\ lockOwner = Free /\ origin' = <<>>
        /\ UNCHANGED <<src, meta, lockOwner, pc, call, verdict, moved>>
    BY <1>4 DEF ForgetBaseline, NoOrigin
  <2>2. \A i \in Importer : pc[i] \notin HeldPcs
    BY <2>1, ImporterAssumption DEF HoldInv, Hold, Free
  <2>3. OriginInv'
    BY <2>1 DEF OriginInv
  <2>. QED
    BY <2>1, <2>2, <2>3 DEF call, Shape, HoldInv, Hold, HeldPcs, SourceInv, Source
<1>5. CASE UNCHANGED vars
  BY <1>5 DEF vars, Shape, HoldInv, Hold, SourceInv, Source, OriginInv, Baselines
<1>. QED
  BY <1>1, <1>2, <1>3, <1>4, <1>5 DEF Next, Step

LEMMA ImportInvHolds == Spec => []ImportInv
<1>1. Init => ImportInv
  BY DEF Init, ImportInv, Shape, Pcs, Verdicts, HoldInv, Hold, HeldPcs, PlannedPcs, SourceInv,
     Source, OriginInv, NoOrigin
<1>. QED
  BY <1>1, ImportInvStep, PTL DEF Spec

-----------------------------------------------------------------------------
(* Types.                                                                  *)

VersionsThere == {VersionOf(s) : s \in Stem}

\* The file that stands for a version is one of those that spell it.
LEMMA WinnerIs ==
  ASSUME NEW d, NEW v \in Versions(d)
  PROVE  Winner(d, v) \in SpellingsOf(d, v)
<1>1. SpellingsOf(d, v) \in SUBSET Stem /\ SpellingsOf(d, v) # {}
  BY DEF SpellingsOf, Versions, Present
<1>2. SpellingsOf(d, v) \in SUBSET Nat /\ IsFiniteSet(SpellingsOf(d, v))
  BY <1>1, StemAssumption, FS_Subset
<1>3. \E n \in SpellingsOf(d, v) : \A k \in SpellingsOf(d, v) : k <= n
  BY <1>1, <1>2, GreatestNatural
<1>. QED
  BY <1>3 DEF Winner

\* A directory that the scan accepts gives a whole pair for each version.
LEMMA CandidatesAre ==
  ASSUME NEW d \in Dirs, ScanAccepts(d)
  PROVE  Candidates(d) \in BaselineSets
<1>1. ASSUME NEW v \in Versions(d) PROVE d[Winner(d, v)] \in Pair
  <2>1. Winner(d, v) \in Stem
    BY WinnerIs DEF SpellingsOf, Present
  <2>2. d[Winner(d, v)].up # Missing /\ d[Winner(d, v)].down # Missing
    BY DEF ScanAccepts
  <2>3. d[Winner(d, v)] \in [up : Content \cup {Missing}, down : Content \cup {Missing}]
    BY <2>1, DirsAssumption
  <2>. QED
    BY <2>2, <2>3 DEF Pair
<1>2. Candidates(d) \in [Versions(d) -> Pair]
  BY <1>1 DEF Candidates
<1>3. Versions(d) \in SUBSET VersionsThere
  BY DEF Versions, Present, VersionsThere
<1>. QED
  BY <1>2, <1>3 DEF BaselineSets, VersionsThere

\* What is planned of the candidates is a set of baselines too, as is none.
LEMMA BaselinesAre ==
  ASSUME NEW c \in BaselineSets, NEW v
  PROVE  /\ Baselines(c, v) \in BaselineSets
         /\ DOMAIN Baselines(c, v) \subseteq VersionsThere
<1>1. PICK V \in SUBSET VersionsThere : c \in [V -> Pair]
  BY DEF BaselineSets, VersionsThere
<1>. DEFINE W == {w \in DOMAIN c : w <= v}
<1>2. W \in SUBSET VersionsThere /\ Baselines(c, v) \in [W -> Pair]
  BY <1>1 DEF Baselines, Restrict
<1>. QED
  BY <1>2 DEF BaselineSets, VersionsThere

LEMMA RestrictionsAre ==
  ASSUME NEW c \in BaselineSets, NEW D \in SUBSET (DOMAIN c)
  PROVE  Restrict(c, D) \in BaselineSets
<1>1. PICK V \in SUBSET VersionsThere : c \in [V -> Pair]
  BY DEF BaselineSets, VersionsThere
<1>2. D \in SUBSET VersionsThere /\ Restrict(c, D) \in [D -> Pair]
  BY <1>1 DEF Restrict
<1>. QED
  BY <1>2 DEF BaselineSets, VersionsThere

LEMMA NoneAreBaselines == <<>> \in BaselineSets
<1>1. <<>> \in [{} -> Pair] /\ {} \in SUBSET VersionsThere
  OBVIOUS
<1>. QED
  BY <1>1 DEF BaselineSets, VersionsThere

\* From the read of the source on, an importer has a tuple.
SeenInv == \A i \in Importer : pc[i] \in {"plan"} \cup PlannedPcs => seen[i] \in Tuple

DatabaseTypes ==
  /\ src \in SUBSET Tuple
  /\ dir \in Dirs
  /\ meta \in BOOLEAN
  /\ rows \in BaselineSets
  /\ lockOwner \in Importer \cup {Free}
  /\ moved \subseteq Importer
  /\ origin = NoOrigin \/ origin \in BaselineSets \X Tuple

CallTypes ==
  /\ pc \in [Importer -> Pcs]
  /\ op \in [Importer -> {"preview", "import"}]
  /\ scan \in [Importer -> BaselineSets]
  /\ seen \in [Importer -> Tuple \cup {NoTuple}]
  /\ inserted \in [Importer -> SUBSET VersionsThere]
  /\ verdict \in [Importer -> Verdicts]
  /\ SeenInv

LEMMA TypesSplit == TypeOK /\ SeenInv <=> DatabaseTypes /\ CallTypes
  BY DEF TypeOK, DatabaseTypes, CallTypes, VersionsThere

\* A call that ends, or goes on as it is.
LEMMA EndTypes ==
  ASSUME CallTypes, NEW i \in Importer, NEW v \in Verdicts, End(i, v)
  PROVE  CallTypes' /\ moved' \subseteq moved
  BY NoneAreBaselines
  DEF CallTypes, End, Goto, Forget, SeenInv, PlannedPcs, Pcs

LEMMA ReturnTypes ==
  ASSUME CallTypes, NEW i \in Importer, Return(i)
  PROVE  CallTypes' /\ moved' \subseteq moved /\ UNCHANGED origin
  BY NoneAreBaselines
  DEF CallTypes, Return, Goto, Forget, SeenInv, PlannedPcs, Pcs, Verdicts

LEMMA ContinueTypes ==
  ASSUME CallTypes, NEW i \in Importer, NEW p \in Pcs, Continue(i, p),
         p \in {"plan"} \cup PlannedPcs => seen[i] \in Tuple
  PROVE  CallTypes' /\ UNCHANGED moved
  BY DEF CallTypes, Continue, Goto, call, SeenInv

LEMMA TypeOwnStep ==
  ASSUME DatabaseTypes, CallTypes, NEW i \in Importer, Step(i)
  PROVE  DatabaseTypes' /\ CallTypes'
<1>v. \A v \in Verdicts : End(i, v) => CallTypes' /\ moved' \subseteq moved
  BY EndTypes
<1>e. "error" \in Verdicts /\ "imported" \in Verdicts
  BY DEF Verdicts
<1>1. ASSUME NEW o \in {"preview", "import"}, Call(i, o)
      PROVE  DatabaseTypes' /\ CallTypes'
  BY <1>1 DEF Call, Goto, database, DatabaseTypes, CallTypes, SeenInv, PlannedPcs, Pcs
<1>2. CASE ScanLegacyDir(i)
  <2>1. CASE ScanAccepts(dir)
    <3>1. Candidates(dir) \in BaselineSets
      BY <2>1, CandidatesAre DEF DatabaseTypes
    <3>. QED
      BY <1>2, <2>1, <3>1 DEF ScanLegacyDir, Goto, database, DatabaseTypes, CallTypes,
         SeenInv, PlannedPcs, Pcs
  <2>2. CASE ~ScanAccepts(dir)
    BY <1>2, <1>e, <1>v, <2>2 DEF ScanLegacyDir, database, DatabaseTypes
  <2>. QED
    BY <2>1, <2>2
<1>3. CASE Bootstrap(i)
  <2>1. CallTypes' /\ moved' \subseteq moved
    BY <1>3, <1>e, <1>v, ContinueTypes DEF Bootstrap, PlannedPcs, Pcs
  <2>2. meta' \in BOOLEAN
    BY <1>3, Zenon DEF Bootstrap, DatabaseTypes
  <2>. QED
    BY <1>3, <2>1, <2>2 DEF Bootstrap, DatabaseTypes
<1>4. CASE AcquireLock(i)
  BY <1>4, <1>e, <1>v, ContinueTypes DEF AcquireLock, database, DatabaseTypes, PlannedPcs, Pcs
<1>5. CASE ReadSource(i)
  <2>1. CASE Cardinality(src) # 1 /\ End(i, "error")
    BY <1>5, <1>e, <1>v, <2>1 DEF ReadSource, database, DatabaseTypes
  <2>2. ASSUME NEW t \in Tuple, seen' = [seen EXCEPT ![i] = t], Goto(i, "plan"),
               UNCHANGED <<op, scan, inserted, verdict, moved>>
        PROVE  DatabaseTypes' /\ CallTypes'
    BY <1>5, <2>2 DEF ReadSource, Goto, database, DatabaseTypes, CallTypes, SeenInv,
       PlannedPcs, Pcs
  <2>. QED
    BY <1>5, <2>1, <2>2 DEF ReadSource
<1>6. CASE BuildPlan(i)
  <2>1. Verdict(i) \in Verdicts
    BY VerdictMeaning DEF Verdicts
  <2>2. seen[i] \in Tuple
    BY <1>6 DEF BuildPlan, CallTypes, SeenInv
  <2>. QED
    BY <1>6, <1>v, <2>1, <2>2, ContinueTypes
    DEF BuildPlan, database, DatabaseTypes, PlannedPcs, Pcs
<1>7. CASE RereadSource(i)
  BY <1>7, <1>e, <1>v, ContinueTypes
  DEF RereadSource, database, DatabaseTypes, CallTypes, SeenInv, PlannedPcs, Pcs
<1>8. CASE Begin(i)
  BY <1>8, <1>e, <1>v, ContinueTypes
  DEF Begin, database, DatabaseTypes, CallTypes, SeenInv, PlannedPcs, Pcs
<1>9. CASE InsertBaseline(i)
  <2>1. DOMAIN Planned(i) \subseteq VersionsThere
    BY BaselinesAre DEF Planned, CallTypes
  <2>. QED
    BY <1>9, <2>1 DEF InsertBaseline, database, DatabaseTypes, CallTypes, SeenInv
<1>10. CASE Commit(i)
  <2>1. rows' \in BaselineSets /\ scan[i] \in BaselineSets /\ seen[i] \in Tuple
    BY <1>10, BaselinesAre DEF Commit, Planned, CallTypes, SeenInv, PlannedPcs
  <2>2. origin' \in BaselineSets \X Tuple
    BY <1>10, <2>1 DEF Commit
  <2>. QED
    BY <1>10, <1>e, <1>v, <2>1, <2>2 DEF Commit, DatabaseTypes
<1>11. CASE Fail(i)
  BY <1>11, <1>e, <1>v DEF Fail, database, DatabaseTypes
<1>12. CASE Release(i)
  BY <1>12, ReturnTypes DEF Release, FreedBy, database, DatabaseTypes
<1>13. CASE LoseSession(i)
  <2>1. (IF pc[i] = "release" THEN verdict[i] ELSE "error") \in Verdicts
    BY <1>e DEF CallTypes
  <2>. QED
    BY <1>13, <1>v, <2>1 DEF LoseSession, database, DatabaseTypes
<1>14. CASE Crash(i)
  BY <1>14, ReturnTypes DEF Crash, FreedBy, database, DatabaseTypes
<1>. QED
  BY <1>1, <1>2, <1>3, <1>4, <1>5, <1>6, <1>7, <1>8, <1>9, <1>10, <1>11, <1>12, <1>13,
     <1>14 DEF Step

LEMMA TypeStep == DatabaseTypes /\ CallTypes /\ [Next]_vars => DatabaseTypes' /\ CallTypes'
<1>. SUFFICES ASSUME DatabaseTypes, CallTypes, [Next]_vars
              PROVE  DatabaseTypes' /\ CallTypes'
  OBVIOUS
<1>1. ASSUME NEW i \in Importer, Step(i) PROVE DatabaseTypes' /\ CallTypes'
  BY <1>1, TypeOwnStep
<1>2. CASE WriteSource
  BY <1>2 DEF WriteSource, call, DatabaseTypes, CallTypes, SeenInv
<1>3. CASE EditLegacyDir
  BY <1>3 DEF EditLegacyDir, call, DatabaseTypes, CallTypes, SeenInv
<1>4. ASSUME NEW v \in DOMAIN rows, ForgetBaseline(v) PROVE DatabaseTypes' /\ CallTypes'
  <2>1. rows' \in BaselineSets
    BY <1>4, RestrictionsAre DEF ForgetBaseline, DatabaseTypes
  <2>. QED
    BY <1>4, <2>1 DEF ForgetBaseline, call, DatabaseTypes, CallTypes, SeenInv
<1>5. CASE UNCHANGED vars
  BY <1>5 DEF vars, DatabaseTypes, CallTypes, SeenInv
<1>. QED
  BY <1>1, <1>2, <1>3, <1>4, <1>5 DEF Next, Step

-----------------------------------------------------------------------------
(* The theorems.                                                           *)

\* Every variable keeps its type: what is imported are whole pairs under versions
\* of the directory, and what was imported came from a tuple that was read.
THEOREM ImportTypeCorrect == Spec => []TypeOK
<1>1. Init => DatabaseTypes /\ CallTypes
  <2>. SUFFICES ASSUME Init PROVE DatabaseTypes /\ CallTypes
    OBVIOUS
  <2>1. DatabaseTypes
    BY NoneAreBaselines DEF Init, DatabaseTypes
  <2>2. CallTypes
    BY NoneAreBaselines DEF Init, CallTypes, SeenInv, PlannedPcs, Pcs, Verdicts
  <2>. QED
    BY <2>1, <2>2
<1>2. DatabaseTypes /\ CallTypes => TypeOK
  BY TypesSplit
<1>. QED
  BY <1>1, <1>2, TypeStep, PTL DEF Spec

\* Baselines appear all at once, in an empty table, and only for a clean source
\* that was still as it was read when the transaction began.
THEOREM ImportsCleanSourceHolds == Spec => ImportsCleanSource
<1>1. ImportInv /\ [Next]_vars =>
        [\A v \in DOMAIN rows' : v \notin DOMAIN rows =>
           /\ rows = <<>>
           /\ \E i \in Importer :
                /\ lockOwner = i
                /\ ~seen[i].dirty
                /\ rows' = Baselines(scan[i], seen[i].version)
                /\ i \in moved \/ src = {seen[i]}]_vars
  <2>. SUFFICES ASSUME ImportInv, [Next]_vars,
                       NEW v \in DOMAIN rows', v \notin DOMAIN rows
                PROVE  /\ rows = <<>>
                       /\ \E i \in Importer :
                            /\ lockOwner = i
                            /\ ~seen[i].dirty
                            /\ rows' = Baselines(scan[i], seen[i].version)
                            /\ i \in moved \/ src = {seen[i]}
    OBVIOUS
  <2>1. ASSUME NEW i \in Importer, Commit(i)
        PROVE  /\ rows = <<>> /\ lockOwner = i /\ ~seen[i].dirty
               /\ rows' = Baselines(scan[i], seen[i].version)
               /\ i \in moved \/ src = {seen[i]}
    BY <2>1, CommitEffect DEF ImportInv, HoldInv, Hold, SourceInv, Source, HeldPcs, PlannedPcs
  <2>2. \E i \in Importer : Commit(i)
    <3>1. rows' # rows
      OBVIOUS
    <3>2. ~Beside /\ ~UNCHANGED vars
      BY <3>1 DEF Beside, WriteSource, EditLegacyDir, ForgetBaseline, Restrict, vars
    <3>3. PICK i \in Importer : Step(i)
      BY <3>2 DEF Next, Step, Beside
    <3>. QED
      BY <3>1, <3>3, SharedEffect DEF ImportInv
  <2>. QED
    BY <2>1, <2>2
<1>. QED
  BY <1>1, ImportInvHolds, PTL DEF Spec, ImportsCleanSource

\* A call that finds the source and the directory of the import before it is
\* never refused, whatever that import was told about its COMMIT.
THEOREM SameImportIsAcceptedHolds == Spec => SameImportIsAccepted
<1>1. ImportInv /\ [Next]_vars =>
        [\A i \in Importer :
           verdict[i] = "none" /\ verdict'[i] = "conflict" =>
             origin # <<scan[i], seen[i]>>]_vars
  <2>. SUFFICES ASSUME ImportInv, [Next]_vars, NEW i \in Importer,
                       verdict[i] = "none", verdict'[i] = "conflict"
                PROVE  origin # <<scan[i], seen[i]>>
    OBVIOUS
  <2>1. BuildPlan(i) /\ Verdict(i) = "conflict"
    BY VerdictEffect
  <2>2. rows # Planned(i)
    BY <2>1, VerdictMeaning DEF DestinationBaselines
  <2>. QED
    BY <2>2 DEF ImportInv, OriginInv, Planned
<1>. QED
  BY <1>1, ImportInvHolds, PTL DEF Spec, SameImportIsAccepted

\* An import that reports success leaves what it scanned, up to the version it
\* read, with the checksums it computed.
THEOREM SuccessIsExactHolds == Spec => SuccessIsExact
<1>1. ImportInv /\ [Next]_vars =>
        [\A i \in Importer :
           op[i] = "import" /\ verdict[i] = "none" /\ verdict'[i] \in {"imported", "noop"} =>
             /\ rows' = Restrict(scan[i], {v \in DOMAIN scan[i] : v <= seen[i].version})
             /\ meta]_vars
  <2>. SUFFICES ASSUME ImportInv, [Next]_vars, NEW i \in Importer, op[i] = "import",
                       verdict[i] = "none", verdict'[i] \in {"imported", "noop"}
                PROVE  rows' = Planned(i) /\ meta
    BY DEF Planned, Baselines
  <2>1. CASE Commit(i)
    BY <2>1, CommitEffect DEF Planned, ImportInv, HoldInv, Hold, HeldPcs, PlannedPcs
  <2>2. CASE BuildPlan(i) /\ Verdict(i) = "noop"
    <3>1. meta /\ rows' = rows
      BY <2>2 DEF BuildPlan, database, ImportInv, HoldInv, Hold, HeldPcs
    <3>. QED
      BY <2>2, <3>1, VerdictMeaning DEF DestinationBaselines
  <2>. QED
    BY <2>1, <2>2, VerdictEffect, VerdictMeaning
<1>. QED
  BY <1>1, ImportInvHolds, PTL DEF Spec, SuccessIsExact
=============================================================================
