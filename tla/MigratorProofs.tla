--------------------------- MODULE MigratorProofs ---------------------------
(***************************************************************************)
(* Theorems about Migrator, for any number of runners, migrations and      *)
(* contents, any options, and migration SQL that keeps its contract or     *)
(* does not.  The inductive invariant is built in layers, each proved with *)
(* the layers before it as assumptions:                                    *)
(*                                                                         *)
(*   TypeInv     types, the condition of a plan, a checksum in every row   *)
(*   LockInv     who is past GET_LOCK on a live session holds the lock     *)
(*   DirtyInv    what a lock holder may rely on about the other rows       *)
(*   RecordedInv the bytes in work are those the row has checksums of      *)
(*   RepairInv   the row a repair is about to change is the one it read    *)
(*   TruthInv    what a clean row, or one about to be clean, says is true  *)
(*   BatchInv    the batch of a lock holder is the latest one              *)
(***************************************************************************)
EXTENDS Migrator, TLAPS

\* One step that involves runner r, its own or one that is done to it.
Step(r) == Run(r) \/ Start(r) \/ SqlReleasesLock(r) \/ LoseSession(r) \/ Crash(r)

\* A migration is in work, and its row is not clean.
WorkPcs == {"verify", "exec", "inspect", "cleanup", "markDone", "markFailed"}
ForwardPcs == {"allocateBatch", "insertIntent"}

\* The condition of a plan that is being executed.
PlanOf(r) ==
  /\ \A m \in down[r] \cup up[r] : bytes[r][m] \in Content
  /\ pc[r] \in WorkPcs \cup {"markRollingBack"} => cur[r] \in down[r] \cup up[r]
  /\ pc[r] = "markRollingBack" => Rolling(r)
  /\ pc[r] \in ForwardPcs => down[r] = {}
  /\ pc[r] \in RepairPcs \/ (pc[r] = "lock" /\ cmd[r] \in RepairCommands) => cur[r] \in Mig

PlanInv == \A r \in Runner : PlanOf(r)

\* A row that is there has the checksums of some content.
SumInv == \A m \in Rows(state) : sum[m] \in Content

TypeInv == TypeOK /\ PlanInv /\ SumInv

-----------------------------------------------------------------------------
(* Facts about the operators the actions are built from.                   *)

\* The values of the program counter, as one set.
LEMMA PcsFact ==
  Pcs = {"idle", "lock", "scan", "plan", "allocateBatch", "insertIntent",
         "verifyDownChecksums", "markRollingBack", "verify", "exec", "inspect", "cleanup",
         "markDone", "markFailed", "view", "repair", "repairDelete", "release"}
  BY DEF Pcs, PlanPcs, BetweenPcs, OutcomePcs, RepairPcs

\* What the planner selects from is made of migrations, and so is what it selects.
LEMMA Selections ==
  /\ Rollbackable(state) \in SUBSET Mig
  /\ DownCandidates(state, batch) \in SUBSET Mig
  /\ \A r : Pending(state, scan[r]) \in SUBSET Mig
  /\ \A S \in SUBSET Mig : \A n, f : FirstN(S, n) \in SUBSET Mig /\ LastN(S, n, f) \in SUBSET Mig
  BY DEF Rollbackable, DownCandidates, Pending, Rows, FirstN, LastN

\* A step of one runner leaves the local state of the others alone.
LEMMA Frame ==
  ASSUME TypeOK, NEW r \in Runner, Step(r), NEW s \in Runner \ {r}
  PROVE  <<pc[s], cmd[s], sess[s], scan[s], bytes[s], down[s], up[s], cur[s],
  myBatch[s]>>'
           = <<pc[s], cmd[s], sess[s], scan[s], bytes[s], down[s], up[s], cur[s],
           myBatch[s]>>
<1>. USE DEF TypeOK, Goto, rows, plan
<1>1. CASE Start(r)
  BY <1>1 DEF Start
<1>2. CASE AcquireLock(r)
  BY <1>2 DEF AcquireLock
<1>3. CASE LockTimeout(r)
  BY <1>3 DEF LockTimeout, Return
<1>4. CASE Release(r)
  BY <1>4 DEF Release, Return
<1>5. CASE Scan(r)
  BY <1>5 DEF Scan
<1>6. CASE BuildUpPlan(r)
  BY <1>6 DEF BuildUpPlan, BuildPlan
<1>7. CASE BuildDownPlan(r)
  BY <1>7 DEF BuildDownPlan, BuildPlan
<1>8. CASE BuildResetPlan(r)
  BY <1>8 DEF BuildResetPlan, BuildPlan
<1>9. CASE BuildRefreshPlan(r)
  BY <1>9 DEF BuildRefreshPlan, BuildPlan
<1>10. CASE AllocateBatch(r)
  BY <1>10 DEF AllocateBatch, Acknowledged
<1>11. CASE InsertIntent(r)
  BY <1>11 DEF InsertIntent, Acknowledged
<1>12. CASE VerifyDownChecksums(r)
  BY <1>12 DEF VerifyDownChecksums
<1>13. CASE MarkRollingBack(r)
  BY <1>13 DEF MarkRollingBack, Acknowledged
<1>14. CASE Verify(r)
  BY <1>14 DEF Verify
<1>15. CASE ExecSql(r)
  BY <1>15 DEF ExecSql
<1>16. CASE SqlReleasesLock(r)
  BY <1>16 DEF SqlReleasesLock
<1>17. CASE Inspect(r)
  BY <1>17 DEF Inspect
<1>18. CASE CleanupSession(r)
  BY <1>18 DEF CleanupSession
<1>19. CASE ImplicitCommit(r)
  BY <1>19 DEF ImplicitCommit
<1>20. CASE MarkApplied(r)
  BY <1>20 DEF MarkApplied, Advance, Acknowledged
<1>21. CASE RemoveRow(r)
  BY <1>21 DEF RemoveRow, Advance, Acknowledged
<1>22. CASE MarkFailed(r)
  BY <1>22 DEF MarkFailed
<1>23. CASE BuildRepairView(r)
  BY <1>23 DEF BuildRepairView
<1>24. CASE MarkAppliedByRepair(r)
  BY <1>24 DEF MarkAppliedByRepair
<1>25. CASE MarkRolledBackByRepair(r)
  BY <1>25 DEF MarkRolledBackByRepair, Acknowledged
<1>26. CASE RemoveRowByRepair(r)
  BY <1>26 DEF RemoveRowByRepair
<1>27. CASE Abort(r)
  BY <1>27 DEF Abort
<1>28. CASE LoseSession(r)
  BY <1>28 DEF LoseSession
<1>29. CASE Crash(r)
  BY <1>29 DEF Crash, Return
<1>. QED
  BY <1>1, <1>2, <1>3, <1>4, <1>5, <1>6, <1>7, <1>8, <1>9, <1>10, <1>11, <1>12, <1>13,
     <1>14, <1>15, <1>16, <1>17, <1>18, <1>19, <1>20, <1>21, <1>22, <1>23, <1>24, <1>25,
          <1>26, <1>27, <1>28, <1>29 DEF Step, Run

\* The only steps of a runner that write the table.
LEMMA RowWriters ==
  ASSUME NEW r, Step(r)
  PROVE  \/ UNCHANGED <<state, batch, rowid, sum>>
         \/ InsertIntent(r) \/ MarkRollingBack(r) \/ MarkApplied(r) \/ RemoveRow(r)
         \/ MarkFailed(r) \/ MarkAppliedByRepair(r) \/ MarkRolledBackByRepair(r)
         \/ RemoveRowByRepair(r)
  BY DEF Step, Run, rows, Start, AcquireLock, LockTimeout, Release, Scan, BuildUpPlan,
     BuildDownPlan, BuildResetPlan, BuildRefreshPlan, AllocateBatch, VerifyDownChecksums,
     Verify, ExecSql, SqlReleasesLock, Inspect, CleanupSession, ImplicitCommit,
     BuildRepairView, Abort, LoseSession, Crash, BuildPlan

-----------------------------------------------------------------------------
(* Types.                                                                  *)

\* The parts of TypeOK about the plan and the session of a runner that returns.
LEMMA ReturnType ==
  ASSUME TypeOK, NEW r \in Runner, Return(r)
  PROVE  /\ pc' \in [Runner -> Pcs]
         /\ cmd' \in [Runner -> PlanCommands \cup RepairCommands \cup {"none"}]
         /\ sess' \in [Runner -> SessionState]
         /\ scan' \in [Runner -> [Mig -> Content \cup {Missing}]]
         /\ bytes' \in [Runner -> [Mig -> Content \cup {Missing}]]
         /\ down' \in [Runner -> SUBSET Mig]
         /\ up' \in [Runner -> SUBSET Mig]
         /\ cur' \in [Runner -> Mig \cup {NoMig}]
         /\ myBatch' \in [Runner -> Nat]
  BY PcsFact DEF Return, TypeOK, Goto, NoFiles, SessionState

\* A plan that is accepted has the types of a plan, and bytes for what it will do.
LEMMA BuildPlanType ==
  ASSUME TypeInv, NEW r \in Runner, NEW D \in SUBSET Mig, NEW U \in SUBSET Mig,
         BuildPlan(r, D, U)
  PROVE  TypeOK' /\ PlanOf(r)'
<1>. USE DEF TypeInv, TypeOK, Goto, BuildPlan
<1>1. pc' \in [Runner -> Pcs] /\ pc'[r] = NextPc(r, D, U)
  BY PcsFact DEF NextPc
<1>2. bytes' \in [Runner -> [Mig -> Content \cup {Missing}]]
  OBVIOUS
<1>3. /\ down' \in [Runner -> SUBSET Mig] /\ down'[r] = D
      /\ up' \in [Runner -> SUBSET Mig] /\ up'[r] = U
  OBVIOUS
<1>4. TypeOK'
  BY <1>1, <1>2, <1>3 DEF rows
<1>5. \A m \in D \cup U : bytes'[r][m] = file[m] /\ file[m] \in Content
  BY DEF Missing
<1>6. PlanOf(r)'
  BY <1>1, <1>3, <1>5 DEF PlanOf, NextPc, WorkPcs, ForwardPcs, RepairPcs
<1>. QED
  BY <1>4, <1>6

\* The same for each command's way to a plan.
LEMMA PlansType ==
  ASSUME TypeInv, NEW r \in Runner,
         BuildUpPlan(r) \/ BuildDownPlan(r) \/ BuildResetPlan(r) \/ BuildRefreshPlan(r)
  PROVE  TypeOK' /\ PlanOf(r)'
<1>1. CASE BuildUpPlan(r)
  BY <1>1, Selections, BuildPlanType DEF BuildUpPlan
<1>2. CASE BuildDownPlan(r)
  <2>1. ASSUME NEW n, BuildPlan(r, LastN(DownCandidates(state, batch), n, rowid), {})
        PROVE  TypeOK' /\ PlanOf(r)'
    BY <2>1, Selections, BuildPlanType
  <2>2. ASSUME NEW m \in Rollbackable(state), BuildPlan(r, {m}, {})
        PROVE  TypeOK' /\ PlanOf(r)'
    BY <2>2, Selections, BuildPlanType
  <2>. QED
    BY <1>2, <2>1, <2>2 DEF BuildDownPlan
<1>3. CASE BuildResetPlan(r)
  BY <1>3, Selections, BuildPlanType DEF BuildResetPlan
<1>4. CASE BuildRefreshPlan(r)
  <2>1. ASSUME NEW n, BuildPlan(r, LastN(Rollbackable(state), n, rowid),
                                   FirstN(Pending(state, scan[r]), n))
        PROVE  TypeOK' /\ PlanOf(r)'
    BY <2>1, Selections, BuildPlanType
  <2>2. ASSUME NEW m, BuildPlan(r, Rollbackable(state), {k \in Pending(state,
       scan[r]) : k <= m})
        PROVE  TypeOK' /\ PlanOf(r)'
    BY <2>2, Selections, BuildPlanType
  <2>. QED
    BY <1>4, <2>1, <2>2 DEF BuildRefreshPlan
<1>. QED
  BY <1>1, <1>2, <1>3, <1>4

LEMMA DeleteRowType ==
  ASSUME TypeOK, NEW m, DeleteRow(m)
  PROVE  /\ state' \in [Mig -> RowState]
         /\ batch' \in [Mig -> Nat]
         /\ rowid' \in [Mig -> Nat]
         /\ sum' \in [Mig -> Content \cup {Missing}]
         /\ nextId' \in Nat
  BY DEF DeleteRow, TypeOK, SetState, RowState

\* Migration SQL, whole or in part, leaves something a schema can show.
LEMMA EffectsType ==
  ASSUME TypeInv, NEW r \in Runner, pc[r] \in {"exec", "markDone", "markFailed"}
  PROVE  Completed(r) \cup CutShort(r) \subseteq Effect
<1>1. cur[r] \in Mig /\ bytes[r][cur[r]] \in Content
  BY DEF TypeInv, PlanInv, PlanOf, WorkPcs, TypeOK
<1>. QED
  BY <1>1 DEF Completed, CutShort, TypeInv, TypeOK, Effect

LEMMA TypeOKStep ==
  ASSUME TypeInv, NEW r \in Runner, Step(r)
  PROVE  TypeOK'
<1>. USE DEF TypeInv, TypeOK, Goto, rows, plan
<1>1. CASE Start(r)
  <2>1. cmd' \in [Runner -> PlanCommands \cup RepairCommands \cup {"none"}]
    BY <1>1, CommandAssumption DEF Start
  <2>2. cur' \in [Runner -> Mig \cup {NoMig}]
    BY <1>1 DEF Start
  <2>3. pc' \in [Runner -> Pcs] /\ sess' \in [Runner -> SessionState]
    BY <1>1, PcsFact DEF Start, SessionState, SqlAftermath
  <2>. QED
    BY <1>1, <2>1, <2>2, <2>3 DEF Start
<1>2. CASE AcquireLock(r)
  BY <1>2, PcsFact DEF AcquireLock, FirstPc
<1>3. CASE LockTimeout(r)
  BY <1>3, ReturnType DEF LockTimeout
<1>4. CASE Release(r)
  BY <1>4, ReturnType DEF Release, FreedBy
<1>5. CASE Scan(r)
  BY <1>5, PcsFact DEF Scan
<1>6. CASE BuildUpPlan(r)
  BY <1>6, PlansType
<1>7. CASE BuildDownPlan(r)
  BY <1>7, PlansType
<1>8. CASE BuildResetPlan(r)
  BY <1>8, PlansType
<1>9. CASE BuildRefreshPlan(r)
  BY <1>9, PlansType
<1>10. CASE AllocateBatch(r)
  <2>1. pc' \in [Runner -> Pcs]
    BY <1>10, PcsFact DEF AllocateBatch, Acknowledged
  <2>2. nextBatch' \in Nat /\ myBatch' \in [Runner -> Nat]
    BY <1>10 DEF AllocateBatch
  <2>. QED
    BY <1>10, <2>1, <2>2 DEF AllocateBatch
<1>11. CASE InsertIntent(r)
  <2>1. PICK m \in up[r] : /\ SetState(m, "applying")
                          /\ sum' = [sum EXCEPT ![m] = bytes[r][m]]
                          /\ batch' = [batch EXCEPT ![m] = myBatch[r]]
                          /\ rowid' = [rowid EXCEPT ![m] = nextId]
                          /\ cur' = [cur EXCEPT ![r] = m]
    BY <1>11 DEF InsertIntent
  <2>2. pc' \in [Runner -> Pcs]
    <3>1. Goto(r, "verify") \/ Goto(r, "release")
      BY <1>11 DEF InsertIntent, Acknowledged
    <3>. QED
      BY <3>1, PcsFact
  <2>5. nextId' \in Nat
    BY <1>11 DEF InsertIntent
  <2>3. state' \in [Mig -> RowState]
    BY <2>1 DEF SetState, RowState, Dirty
  <2>4. /\ sum' \in [Mig -> Content \cup {Missing}]
        /\ batch' \in [Mig -> Nat] /\ rowid' \in [Mig -> Nat]
        /\ cur' \in [Runner -> Mig \cup {NoMig}]
    BY <2>1
  <2>. QED
    BY <1>11, <2>2, <2>3, <2>4, <2>5 DEF InsertIntent
<1>12. CASE VerifyDownChecksums(r)
  BY <1>12, PcsFact DEF VerifyDownChecksums
<1>13. CASE MarkRollingBack(r)
  BY <1>13, PcsFact DEF MarkRollingBack, Acknowledged, SetState, RowState, Dirty
<1>14. CASE Verify(r)
  BY <1>14, PcsFact DEF Verify
<1>15. CASE ExecSql(r)
  <2>1. PICK after \in SqlAftermath, e \in Completed(r) \cup CutShort(r) :
          /\ sess' = [sess EXCEPT ![r] = after]
          /\ schema' = [schema EXCEPT ![cur[r]] = e]
          /\ Goto(r, "inspect") \/ Goto(r, "cleanup")
    BY <1>15 DEF ExecSql
  <2>2. pc' \in [Runner -> Pcs] /\ sess' \in [Runner -> SessionState]
    BY <2>1, PcsFact DEF SessionState
  <2>3. schema' \in [Mig -> Effect]
    <3>1. e \in Effect
      BY <1>15, EffectsType DEF ExecSql
    <3>. QED
      BY <2>1, <3>1
  <2>. QED
    BY <1>15, <2>2, <2>3 DEF ExecSql
<1>16. CASE SqlReleasesLock(r)
  BY <1>16, PcsFact DEF SqlReleasesLock
<1>17. CASE Inspect(r)
  BY <1>17, PcsFact DEF Inspect
<1>18. CASE CleanupSession(r)
  BY <1>18, PcsFact DEF CleanupSession, SessionState, SqlAftermath
<1>19. CASE ImplicitCommit(r)
  <2>1. sess' \in [Runner -> SessionState]
    BY <1>19 DEF ImplicitCommit, SessionState, SqlAftermath
  <2>2. schema' \in [Mig -> Effect]
    BY <1>19, EffectsType DEF ImplicitCommit
  <2>. QED
    BY <1>19, <2>1, <2>2 DEF ImplicitCommit
<1>20. CASE MarkApplied(r)
  BY <1>20, PcsFact DEF MarkApplied, Advance, NextPc, Acknowledged, SetState, RowState
<1>21. CASE RemoveRow(r)
  <2>1. pc' \in [Runner -> Pcs]
    BY <1>21, PcsFact DEF RemoveRow, Advance, NextPc, Acknowledged
  <2>. QED
    BY <1>21, <2>1, DeleteRowType DEF RemoveRow, Advance
<1>22. CASE MarkFailed(r)
  BY <1>22, PcsFact DEF MarkFailed, SetState, RowState, Dirty
<1>23. CASE BuildRepairView(r)
  BY <1>23, PcsFact DEF BuildRepairView
<1>24. CASE MarkAppliedByRepair(r)
  BY <1>24, PcsFact DEF MarkAppliedByRepair, SetState, RowState
<1>25. CASE MarkRolledBackByRepair(r)
  <2>1. pc' \in [Runner -> Pcs]
    BY <1>25, PcsFact DEF MarkRolledBackByRepair, Acknowledged
  <2>2. cur[r] \in Mig
    BY <1>25 DEF MarkRolledBackByRepair, PlanInv, PlanOf, RepairPcs
  <2>3. state' \in [Mig -> RowState]
    BY <1>25, <2>2 DEF MarkRolledBackByRepair, SetState, RowState
  <2>. QED
    BY <1>25, <2>1, <2>2, <2>3 DEF MarkRolledBackByRepair
<1>26. CASE RemoveRowByRepair(r)
  <2>1. pc' \in [Runner -> Pcs]
    BY <1>26, PcsFact DEF RemoveRowByRepair
  <2>2. cur[r] \in Mig
    BY <1>26 DEF RemoveRowByRepair, PlanInv, PlanOf, RepairPcs
  <2>3. overridden' \in {overridden, overridden \cup {cur[r]}, overridden \ {cur[r]}}
    BY <1>26 DEF RemoveRowByRepair
  <2>4. overridden' \subseteq Mig
    BY <2>2, <2>3
  <2>5. DeleteRow(cur[r])
    BY <1>26 DEF RemoveRowByRepair
  <2>. QED
    BY <1>26, <2>1, <2>4, <2>5, DeleteRowType DEF RemoveRowByRepair
<1>27. CASE Abort(r)
  BY <1>27, PcsFact DEF Abort
<1>28. CASE LoseSession(r)
  <2>1. sess' \in [Runner -> SessionState]
    BY <1>28 DEF LoseSession, SessionState
  <2>2. schema' \in [Mig -> Effect]
    BY <1>28, EffectsType DEF LoseSession, Interrupted
  <2>. QED
    BY <1>28, <2>1, <2>2 DEF LoseSession, FreedBy
<1>29. CASE Crash(r)
  <2>1. schema' \in [Mig -> Effect]
    BY <1>29, EffectsType DEF Crash, Interrupted
  <2>. QED
    BY <1>29, <2>1, ReturnType DEF Crash, FreedBy
<1>. QED
  BY <1>1, <1>2, <1>3, <1>4, <1>5, <1>6, <1>7, <1>8, <1>9, <1>10, <1>11, <1>12, <1>13,
     <1>14, <1>15, <1>16, <1>17, <1>18, <1>19, <1>20, <1>21, <1>22, <1>23, <1>24,
     <1>25, <1>26, <1>27, <1>28, <1>29 DEF Step, Run

-----------------------------------------------------------------------------
(* Plans and checksums.                                                    *)

LEMMA PlanStep ==
  ASSUME TypeInv, NEW r \in Runner, Step(r)
  PROVE  PlanOf(r)'
<1>. USE DEF TypeInv, TypeOK, PlanInv, PlanOf, Goto, Rolling, WorkPcs, ForwardPcs,
     RepairPcs,
     rows, plan
<1>1. CASE Start(r)
  BY <1>1 DEF Start
<1>2. CASE AcquireLock(r)
  BY <1>2 DEF AcquireLock, FirstPc
<1>3. CASE LockTimeout(r)
  BY <1>3 DEF LockTimeout, Return
<1>4. CASE Release(r)
  BY <1>4 DEF Release, Return
<1>5. CASE Scan(r)
  BY <1>5 DEF Scan
<1>6. CASE BuildUpPlan(r)
  BY <1>6, PlansType
<1>7. CASE BuildDownPlan(r)
  BY <1>7, PlansType
<1>8. CASE BuildResetPlan(r)
  BY <1>8, PlansType
<1>9. CASE BuildRefreshPlan(r)
  BY <1>9, PlansType
<1>10. CASE AllocateBatch(r)
  BY <1>10 DEF AllocateBatch, Acknowledged
<1>11. CASE InsertIntent(r)
  BY <1>11 DEF InsertIntent, Acknowledged
<1>12. CASE VerifyDownChecksums(r)
  BY <1>12 DEF VerifyDownChecksums
<1>13. CASE MarkRollingBack(r)
  BY <1>13 DEF MarkRollingBack, Acknowledged
<1>14. CASE Verify(r)
  BY <1>14 DEF Verify
<1>15. CASE ExecSql(r)
  BY <1>15 DEF ExecSql
<1>16. CASE SqlReleasesLock(r)
  BY <1>16 DEF SqlReleasesLock
<1>17. CASE Inspect(r)
  BY <1>17 DEF Inspect
<1>18. CASE CleanupSession(r)
  BY <1>18 DEF CleanupSession
<1>19. CASE ImplicitCommit(r)
  BY <1>19 DEF ImplicitCommit
<1>20. CASE MarkApplied(r)
  BY <1>20 DEF MarkApplied, Advance, NextPc, Acknowledged
<1>21. CASE RemoveRow(r)
  BY <1>21 DEF RemoveRow, Advance, NextPc, DeleteRow, Acknowledged
<1>22. CASE MarkFailed(r)
  BY <1>22 DEF MarkFailed
<1>23. CASE BuildRepairView(r)
  BY <1>23 DEF BuildRepairView
<1>24. CASE MarkAppliedByRepair(r)
  BY <1>24 DEF MarkAppliedByRepair
<1>25. CASE MarkRolledBackByRepair(r)
  BY <1>25 DEF MarkRolledBackByRepair, Acknowledged
<1>26. CASE RemoveRowByRepair(r)
  BY <1>26 DEF RemoveRowByRepair, DeleteRow
<1>27. CASE Abort(r)
  BY <1>27 DEF Abort
<1>28. CASE LoseSession(r)
  BY <1>28 DEF LoseSession
<1>29. CASE Crash(r)
  BY <1>29 DEF Crash, Return
<1>. QED
  BY <1>1, <1>2, <1>3, <1>4, <1>5, <1>6, <1>7, <1>8, <1>9, <1>10, <1>11, <1>12, <1>13,
     <1>14, <1>15, <1>16, <1>17, <1>18, <1>19, <1>20, <1>21, <1>22, <1>23, <1>24,
     <1>25, <1>26, <1>27, <1>28, <1>29 DEF Step, Run

LEMMA SumStep ==
  ASSUME TypeInv, NEW r \in Runner, Step(r)
  PROVE  SumInv'
<1>. USE DEF TypeInv, TypeOK, PlanInv, PlanOf, SumInv, Rows, SetState, WorkPcs,
     ForwardPcs, RepairPcs
<1>1. CASE UNCHANGED <<state, sum>>
  BY <1>1
<1>2. CASE InsertIntent(r)
  BY <1>2 DEF InsertIntent
<1>3. CASE MarkRollingBack(r)
  BY <1>3 DEF MarkRollingBack
<1>4. CASE MarkApplied(r)
  BY <1>4 DEF MarkApplied
<1>5. CASE RemoveRow(r)
  BY <1>5 DEF RemoveRow, DeleteRow
<1>6. CASE MarkFailed(r)
  BY <1>6 DEF MarkFailed
<1>7. CASE MarkAppliedByRepair(r)
  BY <1>7 DEF MarkAppliedByRepair
<1>8. CASE MarkRolledBackByRepair(r)
  BY <1>8 DEF MarkRolledBackByRepair
<1>9. CASE RemoveRowByRepair(r)
  BY <1>9 DEF RemoveRowByRepair, DeleteRow
<1>. QED
  BY <1>1, <1>2, <1>3, <1>4, <1>5, <1>6, <1>7, <1>8, <1>9, RowWriters

-----------------------------------------------------------------------------
(* The first layer.                                                        *)

LEMMA TypeInit == Init => TypeInv
<1>. SUFFICES ASSUME Init PROVE TypeInv
  OBVIOUS
<1>1. TypeOK
  BY MigAssumption, PcsFact
  DEF Init, Directories, TypeOK, RowState, Effect, Missing, SessionState, NoFiles
<1>2. PlanInv
  BY DEF Init, PlanInv, PlanOf, WorkPcs, ForwardPcs, RepairPcs
<1>3. SumInv
  BY DEF Init, SumInv, Rows
<1>. QED
  BY <1>1, <1>2, <1>3 DEF TypeInv

LEMMA TypeStep == TypeInv /\ [Next]_vars => TypeInv'
<1>. SUFFICES ASSUME TypeInv, [Next]_vars PROVE TypeInv'
  OBVIOUS
<1>1. ASSUME NEW r \in Runner, Step(r) PROVE TypeInv'
  <2>1. ASSUME NEW s \in Runner PROVE PlanOf(s)'
    <3>1. CASE s = r
      BY <1>1, <3>1, PlanStep
    <3>2. CASE s # r
      BY <1>1, <3>2, Frame DEF TypeInv, PlanInv, PlanOf, Rolling
    <3>. QED
      BY <3>1, <3>2
  <2>. QED
    BY <1>1, <2>1, TypeOKStep, SumStep DEF TypeInv, PlanInv
<1>2. ASSUME NEW m \in Editable, EditFile(m) PROVE TypeInv'
  <2>1. file' \in [Mig -> Content \cup {Missing}]
    BY <1>2 DEF EditFile, TypeInv, TypeOK
  <2>2. UNCHANGED <<rows, nextBatch, schema, lockOwner, pc, cmd, sess, plan, cur,
       myBatch, overridden>>
    BY <1>2 DEF EditFile
  <2>. QED
    BY <2>1, <2>2 DEF TypeInv, TypeOK, PlanInv, PlanOf, SumInv, Rows, Rolling, rows, plan
<1>3. ASSUME NEW m \in Mig, Compensate(m) PROVE TypeInv'
  <2>1. sum[m] \in Effect
    BY <1>3 DEF Compensate, TypeInv, SumInv, Rows, IsDirty, Dirty, Effect
  <2>2. schema' \in [Mig -> Effect]
    BY <1>3, <2>1 DEF Compensate, TypeInv, TypeOK, Effect
  <2>. QED
    BY <1>3, <2>2 DEF Compensate, TypeInv, TypeOK, PlanInv, PlanOf, SumInv, Rows,
       Rolling, rows, plan
<1>4. CASE UNCHANGED vars
  BY <1>4 DEF vars, TypeInv, TypeOK, PlanInv, PlanOf, SumInv, Rows, Rolling
<1>. QED
  BY <1>1, <1>2, <1>3, <1>4 DEF Next, Step

LEMMA TypeInvHolds == Spec => []TypeInv
  BY TypeInit, TypeStep, PTL DEF Spec

\* Every variable keeps its type: no row is ever in a state the table's CHECK
\* would refuse, and no runner at a place the code does not have.
THEOREM TypeCorrect == Spec => []TypeOK
  BY TypeInvHolds, PTL DEF TypeInv

-----------------------------------------------------------------------------
(* The lock.  UnsurePcs is where a runner may be after migration SQL gave  *)
(* its lock away and before anybody noticed.                               *)

UnsurePcs == {"exec", "inspect", "cleanup", "markFailed"}

Holding(r) ==
  /\ Live(r) /\ pc[r] \notin {"idle", "lock", "release"}
  /\ SqlMayReleaseLock => pc[r] \notin UnsurePcs

LockInv == \A r \in Runner : Holding(r) => lockOwner = r

\* Only the runner itself loses the lock, and taking it needs it free.
LEMMA LockStep ==
  ASSUME TypeInv, LockInv, NEW r \in Runner, Step(r)
  PROVE  /\ Holding(r)' => lockOwner' = r
         /\ lockOwner' # lockOwner => lockOwner \in {r, Free} /\ lockOwner' \in {r, Free}
         /\ lockOwner' # lockOwner /\ lockOwner = Free => AcquireLock(r)
<1>. USE DEF TypeInv, TypeOK, LockInv, Holding, UnsurePcs, Live, Goto, FreedBy, rows, plan
<1>1. CASE Start(r)
  BY <1>1 DEF Start
<1>2. CASE AcquireLock(r)
  BY <1>2 DEF AcquireLock, FirstPc
<1>3. CASE LockTimeout(r)
  BY <1>3 DEF LockTimeout, Return
<1>4. CASE Release(r)
  BY <1>4 DEF Release, Return
<1>5. CASE Scan(r)
  BY <1>5 DEF Scan
<1>6. CASE BuildUpPlan(r)
  BY <1>6 DEF BuildUpPlan, BuildPlan, NextPc, Planning
<1>7. CASE BuildDownPlan(r)
  BY <1>7 DEF BuildDownPlan, BuildPlan, NextPc, Planning
<1>8. CASE BuildResetPlan(r)
  BY <1>8 DEF BuildResetPlan, BuildPlan, NextPc, Planning
<1>9. CASE BuildRefreshPlan(r)
  BY <1>9 DEF BuildRefreshPlan, BuildPlan, NextPc, Planning
<1>10. CASE AllocateBatch(r)
  BY <1>10 DEF AllocateBatch, Acknowledged
<1>11. CASE InsertIntent(r)
  BY <1>11 DEF InsertIntent, Acknowledged
<1>12. CASE VerifyDownChecksums(r)
  BY <1>12 DEF VerifyDownChecksums
<1>13. CASE MarkRollingBack(r)
  BY <1>13 DEF MarkRollingBack, Acknowledged
<1>14. CASE Verify(r)
  BY <1>14 DEF Verify
<1>15. CASE ExecSql(r)
  BY <1>15 DEF ExecSql
<1>16. CASE SqlReleasesLock(r)
  BY <1>16 DEF SqlReleasesLock
<1>17. CASE Inspect(r)
  BY <1>17 DEF Inspect
<1>18. CASE CleanupSession(r)
  BY <1>18 DEF CleanupSession
<1>19. CASE ImplicitCommit(r)
  BY <1>19 DEF ImplicitCommit
<1>20. CASE MarkApplied(r)
  BY <1>20 DEF MarkApplied, Advance, NextPc, Acknowledged
<1>21. CASE RemoveRow(r)
  BY <1>21 DEF RemoveRow, Advance, NextPc, DeleteRow, Acknowledged
<1>22. CASE MarkFailed(r)
  BY <1>22 DEF MarkFailed
<1>23. CASE BuildRepairView(r)
  BY <1>23 DEF BuildRepairView
<1>24. CASE MarkAppliedByRepair(r)
  BY <1>24 DEF MarkAppliedByRepair
<1>25. CASE MarkRolledBackByRepair(r)
  BY <1>25 DEF MarkRolledBackByRepair, Acknowledged
<1>26. CASE RemoveRowByRepair(r)
  BY <1>26 DEF RemoveRowByRepair, DeleteRow
<1>27. CASE Abort(r)
  BY <1>27 DEF Abort
<1>28. CASE LoseSession(r)
  BY <1>28 DEF LoseSession
<1>29. CASE Crash(r)
  BY <1>29 DEF Crash, Return
<1>. QED
  BY <1>1, <1>2, <1>3, <1>4, <1>5, <1>6, <1>7, <1>8, <1>9, <1>10, <1>11, <1>12, <1>13,
     <1>14, <1>15, <1>16, <1>17, <1>18, <1>19, <1>20, <1>21, <1>22, <1>23, <1>24,
     <1>25, <1>26, <1>27, <1>28, <1>29 DEF Step, Run

LEMMA LockInvStep == TypeInv /\ LockInv /\ [Next]_vars => LockInv'
<1>. SUFFICES ASSUME TypeInv, LockInv, [Next]_vars PROVE LockInv'
  OBVIOUS
<1>1. ASSUME NEW r \in Runner, Step(r) PROVE LockInv'
  <2>1. ASSUME NEW s \in Runner \ {r}, Holding(s)' PROVE lockOwner' = s
    <3>1. Holding(s)
      BY <1>1, <2>1, Frame DEF Holding, Live, TypeInv
    <3>2. lockOwner = s /\ s # Free
      BY <3>1, RunnerAssumption DEF LockInv, Free
    <3>. QED
      BY <1>1, <2>1, <3>2, LockStep
  <2>. QED
    BY <1>1, <2>1, LockStep DEF LockInv
<1>2. CASE (\E m \in Editable : EditFile(m)) \/ (\E m \in Mig : Compensate(m)) \/ UNCHANGED vars
  BY <1>2 DEF EditFile, Compensate, vars, LockInv, Holding, Live
<1>. QED
  BY <1>1, <1>2 DEF Next, Step

LEMMA LockInvHolds == Spec => []LockInv
<1>1. Init => LockInv
  BY DEF Init, LockInv, Holding, Live
<1>. QED
  BY <1>1, TypeInvHolds, LockInvStep, PTL DEF Spec

\* With trusted SQL there is a single writer, whatever sessions the server ends
\* under a runner that does not know.
THEOREM SingleWriterHolds == Spec => []SingleWriter
<1>1. LockInv => SingleWriter
  BY DEF LockInv, SingleWriter, Holding, Writing
<1>. QED
  BY <1>1, LockInvHolds, PTL

-----------------------------------------------------------------------------
(* A runner that is not called, or still waits, has no lock.               *)

OutsidePcs == {"idle", "lock"}

Unlocked == \A r \in Runner : lockOwner = r => pc[r] \notin OutsidePcs

\* Nobody goes outside, or stays there, with the lock.
LEMMA UnlockedStep ==
  ASSUME TypeOK, Unlocked, NEW r \in Runner, Step(r)
  PROVE  /\ lockOwner' = r => pc'[r] \notin OutsidePcs
         /\ \A s \in Runner \ {r} : lockOwner' = s => lockOwner = s
<1>. USE RunnerAssumption DEF TypeOK, Unlocked, OutsidePcs, Goto, FreedBy, Free, rows, plan
<1>1. CASE Start(r)
  BY <1>1 DEF Start
<1>2. CASE AcquireLock(r)
  BY <1>2 DEF AcquireLock, FirstPc
<1>3. CASE LockTimeout(r)
  BY <1>3 DEF LockTimeout, Return
<1>4. CASE Release(r)
  BY <1>4 DEF Release, Return
<1>5. CASE Scan(r)
  BY <1>5 DEF Scan
<1>6. CASE BuildUpPlan(r)
  BY <1>6 DEF BuildUpPlan, BuildPlan, NextPc, Planning
<1>7. CASE BuildDownPlan(r)
  BY <1>7 DEF BuildDownPlan, BuildPlan, NextPc, Planning
<1>8. CASE BuildResetPlan(r)
  BY <1>8 DEF BuildResetPlan, BuildPlan, NextPc, Planning
<1>9. CASE BuildRefreshPlan(r)
  BY <1>9 DEF BuildRefreshPlan, BuildPlan, NextPc, Planning
<1>10. CASE AllocateBatch(r)
  BY <1>10 DEF AllocateBatch, Acknowledged
<1>11. CASE InsertIntent(r)
  BY <1>11 DEF InsertIntent, Acknowledged
<1>12. CASE VerifyDownChecksums(r)
  BY <1>12 DEF VerifyDownChecksums
<1>13. CASE MarkRollingBack(r)
  BY <1>13 DEF MarkRollingBack, Acknowledged
<1>14. CASE Verify(r)
  BY <1>14 DEF Verify
<1>15. CASE ExecSql(r)
  BY <1>15 DEF ExecSql
<1>16. CASE SqlReleasesLock(r)
  BY <1>16 DEF SqlReleasesLock
<1>17. CASE Inspect(r)
  BY <1>17 DEF Inspect
<1>18. CASE CleanupSession(r)
  BY <1>18 DEF CleanupSession
<1>19. CASE ImplicitCommit(r)
  BY <1>19 DEF ImplicitCommit
<1>20. CASE MarkApplied(r)
  BY <1>20 DEF MarkApplied, Advance, NextPc, Acknowledged
<1>21. CASE RemoveRow(r)
  BY <1>21 DEF RemoveRow, Advance, NextPc, DeleteRow, Acknowledged
<1>22. CASE MarkFailed(r)
  BY <1>22 DEF MarkFailed
<1>23. CASE BuildRepairView(r)
  BY <1>23 DEF BuildRepairView
<1>24. CASE MarkAppliedByRepair(r)
  BY <1>24 DEF MarkAppliedByRepair
<1>25. CASE MarkRolledBackByRepair(r)
  BY <1>25 DEF MarkRolledBackByRepair, Acknowledged
<1>26. CASE RemoveRowByRepair(r)
  BY <1>26 DEF RemoveRowByRepair, DeleteRow
<1>27. CASE Abort(r)
  BY <1>27 DEF Abort
<1>28. CASE LoseSession(r)
  BY <1>28 DEF LoseSession
<1>29. CASE Crash(r)
  BY <1>29 DEF Crash, Return
<1>. QED
  BY <1>1, <1>2, <1>3, <1>4, <1>5, <1>6, <1>7, <1>8, <1>9, <1>10, <1>11, <1>12, <1>13,
     <1>14, <1>15, <1>16, <1>17, <1>18, <1>19, <1>20, <1>21, <1>22, <1>23, <1>24,
     <1>25, <1>26, <1>27, <1>28, <1>29 DEF Step, Run

\* Whatever failed, a command that has returned holds no lock, also with SQL that
\* gives the lock away and a server that ends sessions.
THEOREM ReturnedIsUnlockedHolds == Spec => []ReturnedIsUnlocked
<1>1. Init => Unlocked
  BY RunnerAssumption DEF Init, Unlocked, Free
<1>2. TypeInv /\ Unlocked /\ [Next]_vars => Unlocked'
  <2>. SUFFICES ASSUME TypeInv, Unlocked, [Next]_vars PROVE Unlocked'
    OBVIOUS
  <2>1. ASSUME NEW r \in Runner, Step(r) PROVE Unlocked'
    <3>1. ASSUME NEW s \in Runner \ {r}, lockOwner' = s PROVE pc'[s] \notin OutsidePcs
      <4>1. lockOwner = s
        BY <2>1, <3>1, UnlockedStep DEF TypeInv
      <4>2. pc'[s] = pc[s]
        BY <2>1, <3>1, Frame DEF TypeInv
      <4>. QED
        BY <4>1, <4>2 DEF Unlocked
    <3>2. lockOwner' = r => pc'[r] \notin OutsidePcs
      BY <2>1, UnlockedStep DEF TypeInv
    <3>. QED
      BY <3>1, <3>2 DEF Unlocked
  <2>2. CASE (\E m \in Editable : EditFile(m)) \/ (\E m \in Mig : Compensate(m)) \/ UNCHANGED vars
    BY <2>2 DEF EditFile, Compensate, vars, Unlocked
  <2>. QED
    BY <2>1, <2>2 DEF Next, Step
<1>3. Unlocked => ReturnedIsUnlocked
  BY DEF Unlocked, OutsidePcs, ReturnedIsUnlocked
<1>. QED
  BY <1>1, <1>2, <1>3, TypeInvHolds, PTL DEF Spec

-----------------------------------------------------------------------------
(* Dirty rows.  Who holds the lock and has planned knows that no row is    *)
(* dirty, or that only the row of the migration in work is.                *)

Quiet == \A m \in Mig : ~IsDirty(state[m])

InWork(r) == IF Rolling(r) THEN {"rolling_back", "rollback_failed"}
                           ELSE {"applying", "apply_failed"}

DirtyOf(r) ==
  Live(r) /\ lockOwner = r =>
    /\ pc[r] \in BetweenPcs => Quiet
    /\ pc[r] \in WorkPcs => /\ state[cur[r]] \in InWork(r)
                           /\ \A m \in Mig \ {cur[r]} : ~IsDirty(state[m])

DirtyInv == OneInFlight /\ \A r \in Runner : DirtyOf(r)

\* A runner without the lock can at most record the failure of an attempt.
LEMMA OutsiderStep ==
  ASSUME TypeInv, LockInv, NEW r \in Runner, Step(r), lockOwner # r, NEW m \in Mig
  PROVE  \/ state'[m] = state[m]
         \/ state[m] = "applying" /\ state'[m] = "apply_failed"
         \/ state[m] = "rolling_back" /\ state'[m] = "rollback_failed"
<1>1. ~Holding(r)
  BY DEF LockInv
<1>2. CASE MarkFailed(r)
  BY <1>2 DEF MarkFailed, SetState, TypeInv, TypeOK
<1>3. CASE state' = state
  BY <1>3
<1>. QED
  BY <1>1, <1>2, <1>3, RowWriters
  DEF Holding, Live, UnsurePcs, InsertIntent, MarkRollingBack, MarkApplied, RemoveRow,
      MarkAppliedByRepair, MarkRolledBackByRepair, RemoveRowByRepair

\* No step dirties a row while another one is dirty.
LEMMA OneInFlightStep ==
  ASSUME TypeInv, LockInv, DirtyInv, NEW r \in Runner, Step(r)
  PROVE  OneInFlight'
<1>. USE DEF TypeInv, TypeOK, LockInv, DirtyInv, DirtyOf, OneInFlight, SetState, IsDirty,
     Dirty
<1>1. CASE InsertIntent(r)
  <2>1. Quiet
    BY <1>1 DEF InsertIntent, Holding, Live, UnsurePcs, BetweenPcs
  <2>. QED
    BY <1>1, <2>1 DEF InsertIntent, Quiet
<1>2. CASE MarkRollingBack(r)
  <2>1. Quiet
    BY <1>2 DEF MarkRollingBack, Holding, Live, UnsurePcs, BetweenPcs
  <2>. QED
    BY <1>2, <2>1 DEF MarkRollingBack, Quiet
<1>3. CASE \A m \in Mig : IsDirty(state'[m]) => IsDirty(state[m])
  BY <1>3
<1>4. CASE MarkApplied(r)
  BY <1>3, <1>4 DEF MarkApplied
<1>5. CASE RemoveRow(r)
  BY <1>3, <1>5 DEF RemoveRow, DeleteRow
<1>6. CASE MarkFailed(r)
  BY <1>3, <1>6 DEF MarkFailed
<1>7. CASE MarkAppliedByRepair(r)
  BY <1>3, <1>7 DEF MarkAppliedByRepair
<1>8. CASE MarkRolledBackByRepair(r)
  BY <1>3, <1>8 DEF MarkRolledBackByRepair
<1>9. CASE RemoveRowByRepair(r)
  BY <1>3, <1>9 DEF RemoveRowByRepair, DeleteRow
<1>. QED
  BY <1>1, <1>2, <1>3, <1>4, <1>5, <1>6, <1>7, <1>8, <1>9, RowWriters

\* The integrity check of a plan finds no dirty row.
LEMMA PlanIsQuiet ==
  ASSUME TypeInv, NEW r \in Runner,
         BuildUpPlan(r) \/ BuildDownPlan(r) \/ BuildResetPlan(r) \/ BuildRefreshPlan(r)
  PROVE  Quiet' /\ pc'[r] \notin WorkPcs
<1>1. PICK D, U : BuildPlan(r, D, U)
  BY DEF BuildUpPlan, BuildDownPlan, BuildResetPlan, BuildRefreshPlan
<1>2. Quiet'
  BY <1>1 DEF BuildPlan, GlobalDriftCheck, Quiet, Rows, rows, IsDirty, Dirty
<1>3. pc'[r] = NextPc(r, D, U)
  BY <1>1 DEF BuildPlan, Goto, TypeInv, TypeOK
<1>. QED
  BY <1>2, <1>3 DEF NextPc, WorkPcs

LEMMA DirtyOwnStep ==
  ASSUME TypeInv, LockInv, DirtyInv, NEW r \in Runner, Step(r)
  PROVE  DirtyOf(r)'
<1>. USE DEF TypeInv, TypeOK, LockInv, DirtyInv, DirtyOf, InWork, Rolling, Quiet,
     Holding, Live,
     Goto, SetState, WorkPcs, BetweenPcs, UnsurePcs, IsDirty, Dirty, rows, plan
<1>1. CASE Start(r)
  BY <1>1 DEF Start
<1>2. CASE AcquireLock(r)
  BY <1>2 DEF AcquireLock, FirstPc
<1>3. CASE LockTimeout(r)
  BY <1>3 DEF LockTimeout, Return
<1>4. CASE Release(r)
  BY <1>4 DEF Release, Return
<1>5. CASE Scan(r)
  BY <1>5 DEF Scan
<1>6. CASE BuildUpPlan(r)
  BY <1>6, PlanIsQuiet
<1>7. CASE BuildDownPlan(r)
  BY <1>7, PlanIsQuiet
<1>8. CASE BuildResetPlan(r)
  BY <1>8, PlanIsQuiet
<1>9. CASE BuildRefreshPlan(r)
  BY <1>9, PlanIsQuiet
<1>10. CASE AllocateBatch(r)
  BY <1>10 DEF AllocateBatch, Acknowledged
<1>11. CASE InsertIntent(r)
  BY <1>11 DEF InsertIntent, Acknowledged, PlanInv, PlanOf, ForwardPcs
<1>12. CASE VerifyDownChecksums(r)
  BY <1>12 DEF VerifyDownChecksums
<1>13. CASE MarkRollingBack(r)
  BY <1>13 DEF MarkRollingBack, Acknowledged, PlanInv, PlanOf
<1>14. CASE Verify(r)
  BY <1>14 DEF Verify
<1>15. CASE ExecSql(r)
  BY <1>15 DEF ExecSql
<1>16. CASE SqlReleasesLock(r)
  BY <1>16 DEF SqlReleasesLock, Free
<1>17. CASE Inspect(r)
  BY <1>17 DEF Inspect
<1>18. CASE CleanupSession(r)
  BY <1>18 DEF CleanupSession
<1>19. CASE ImplicitCommit(r)
  BY <1>19 DEF ImplicitCommit
<1>20. CASE MarkApplied(r)
  BY <1>20 DEF MarkApplied, Advance, NextPc, Acknowledged
<1>21. CASE RemoveRow(r)
  BY <1>21 DEF RemoveRow, Advance, NextPc, DeleteRow, Acknowledged
<1>22. CASE MarkFailed(r)
  BY <1>22 DEF MarkFailed
<1>23. CASE BuildRepairView(r)
  BY <1>23 DEF BuildRepairView
<1>24. CASE MarkAppliedByRepair(r)
  BY <1>24 DEF MarkAppliedByRepair
<1>25. CASE MarkRolledBackByRepair(r)
  BY <1>25 DEF MarkRolledBackByRepair, Acknowledged
<1>26. CASE RemoveRowByRepair(r)
  BY <1>26 DEF RemoveRowByRepair, DeleteRow
<1>27. CASE Abort(r)
  BY <1>27 DEF Abort
<1>28. CASE LoseSession(r)
  BY <1>28 DEF LoseSession, FreedBy
<1>29. CASE Crash(r)
  BY <1>29 DEF Crash, Return
<1>. QED
  BY <1>1, <1>2, <1>3, <1>4, <1>5, <1>6, <1>7, <1>8, <1>9, <1>10, <1>11, <1>12, <1>13,
     <1>14, <1>15, <1>16, <1>17, <1>18, <1>19, <1>20, <1>21, <1>22, <1>23, <1>24,
     <1>25, <1>26, <1>27, <1>28, <1>29 DEF Step, Run

LEMMA DirtyInvStep == TypeInv /\ LockInv /\ DirtyInv /\ [Next]_vars => DirtyInv'
<1>. SUFFICES ASSUME TypeInv, LockInv, DirtyInv, [Next]_vars PROVE DirtyInv'
  OBVIOUS
<1>1. ASSUME NEW r \in Runner, Step(r) PROVE DirtyInv'
  <2>1. ASSUME NEW s \in Runner \ {r} PROVE DirtyOf(s)'
    <3>1. SUFFICES ASSUME Live(s)', lockOwner' = s PROVE DirtyOf(s)'
      BY DEF DirtyOf
    <3>2. /\ Live(s) /\ pc'[s] = pc[s] /\ cur'[s] = cur[s] /\ down'[s] = down[s]
      BY <1>1, <3>1, Frame DEF Live, TypeInv
    <3>3. lockOwner = s /\ lockOwner # r
      BY <1>1, <3>1, LockStep, RunnerAssumption DEF Free
    <3>4. ASSUME NEW m \in Mig
          PROVE  \/ state'[m] = state[m]
                 \/ state[m] = "applying" /\ state'[m] = "apply_failed"
                 \/ state[m] = "rolling_back" /\ state'[m] = "rollback_failed"
      BY <1>1, <3>3, OutsiderStep
    <3>5. pc[s] \in WorkPcs => cur[s] \in Mig
      BY DEF TypeInv, TypeOK, PlanInv, PlanOf
    <3>. QED
      BY <3>2, <3>3, <3>4, <3>5 DEF DirtyInv, DirtyOf, InWork, Rolling, Quiet, IsDirty,
         Dirty
  <2>. QED
    BY <1>1, <2>1, OneInFlightStep, DirtyOwnStep DEF DirtyInv
<1>2. CASE (\E m \in Editable : EditFile(m)) \/ (\E m \in Mig : Compensate(m)) \/ UNCHANGED vars
  BY <1>2 DEF EditFile, Compensate, vars, rows, plan, DirtyInv, DirtyOf, OneInFlight,
     InWork,
     Rolling, Quiet, Live
<1>. QED
  BY <1>1, <1>2 DEF Next, Step

LEMMA DirtyInvHolds == Spec => []DirtyInv
<1>1. Init => DirtyInv
  BY DEF Init, DirtyInv, DirtyOf, OneInFlight, Live, IsDirty, Dirty
<1>. QED
  BY <1>1, TypeInvHolds, LockInvHolds, DirtyInvStep, PTL DEF Spec

\* At most one migration of the scope is ever unresolved, even if migration SQL
\* gives the lock away.
THEOREM OneInFlightHolds == Spec => []OneInFlight
  BY DirtyInvHolds, PTL DEF DirtyInv

\* While trusted migration SQL runs, its row is dirty.
THEOREM IntentBeforeSqlHolds == Spec => []IntentBeforeSql
<1>1. TypeInv /\ LockInv /\ DirtyInv => IntentBeforeSql
  BY DEF TypeInv, LockInv, DirtyInv, DirtyOf, IntentBeforeSql, Holding, InWork, WorkPcs,
     IsDirty, Dirty
<1>. QED
  BY <1>1, TypeInvHolds, LockInvHolds, DirtyInvHolds, PTL

-----------------------------------------------------------------------------
(* What is recorded.  A runner in the midst of a migration works with the  *)
(* bytes whose checksums its row has, because nobody else can write the    *)
(* row and, if they were edited, the rollback did not begin.               *)

Recorded(r) ==
  Live(r) /\ pc[r] \in WorkPcs \cup {"markRollingBack"} => sum[cur[r]] = bytes[r][cur[r]]

RecordedInv == ~IgnoreChecksumDrift /\ ~SqlMayReleaseLock => \A r \in Runner : Recorded(r)

\* With trusted SQL, a runner without the lock changes nothing that matters.
LEMMA OutsiderWritesNothing ==
  ASSUME TypeInv, LockInv, ~SqlMayReleaseLock, NEW r \in Runner, Step(r), lockOwner # r
  PROVE  UNCHANGED <<state, sum, schema, overridden>>
<1>. USE DEF TypeInv, TypeOK, LockInv, Holding, Live, rows
<1>1. CASE Start(r)
  BY <1>1 DEF Start
<1>2. CASE AcquireLock(r)
  BY <1>2 DEF AcquireLock
<1>3. CASE LockTimeout(r)
  BY <1>3 DEF LockTimeout
<1>4. CASE Release(r)
  BY <1>4 DEF Release
<1>5. CASE Scan(r)
  BY <1>5 DEF Scan
<1>6. CASE BuildUpPlan(r)
  BY <1>6 DEF BuildUpPlan, BuildPlan
<1>7. CASE BuildDownPlan(r)
  BY <1>7 DEF BuildDownPlan, BuildPlan
<1>8. CASE BuildResetPlan(r)
  BY <1>8 DEF BuildResetPlan, BuildPlan
<1>9. CASE BuildRefreshPlan(r)
  BY <1>9 DEF BuildRefreshPlan, BuildPlan
<1>10. CASE AllocateBatch(r)
  BY <1>10 DEF AllocateBatch
<1>11. CASE InsertIntent(r)
  BY <1>11 DEF InsertIntent
<1>12. CASE VerifyDownChecksums(r)
  BY <1>12 DEF VerifyDownChecksums
<1>13. CASE MarkRollingBack(r)
  BY <1>13 DEF MarkRollingBack
<1>14. CASE Verify(r)
  BY <1>14 DEF Verify
<1>15. CASE ExecSql(r)
  BY <1>15 DEF ExecSql
<1>16. CASE SqlReleasesLock(r)
  BY <1>16 DEF SqlReleasesLock
<1>17. CASE Inspect(r)
  BY <1>17 DEF Inspect
<1>18. CASE CleanupSession(r)
  BY <1>18 DEF CleanupSession
<1>19. CASE ImplicitCommit(r)
  BY <1>19 DEF ImplicitCommit
<1>20. CASE MarkApplied(r)
  BY <1>20 DEF MarkApplied
<1>21. CASE RemoveRow(r)
  BY <1>21 DEF RemoveRow
<1>22. CASE MarkFailed(r)
  BY <1>22 DEF MarkFailed
<1>23. CASE BuildRepairView(r)
  BY <1>23 DEF BuildRepairView
<1>24. CASE MarkAppliedByRepair(r)
  BY <1>24 DEF MarkAppliedByRepair
<1>25. CASE MarkRolledBackByRepair(r)
  BY <1>25 DEF MarkRolledBackByRepair
<1>26. CASE RemoveRowByRepair(r)
  BY <1>26 DEF RemoveRowByRepair
<1>27. CASE Abort(r)
  BY <1>27 DEF Abort
<1>28. CASE LoseSession(r)
  BY <1>28 DEF LoseSession, Interrupted
<1>29. CASE Crash(r)
  BY <1>29 DEF Crash, Interrupted
<1>. QED
  BY <1>1, <1>2, <1>3, <1>4, <1>5, <1>6, <1>7, <1>8, <1>9, <1>10, <1>11, <1>12, <1>13,
     <1>14, <1>15, <1>16, <1>17, <1>18, <1>19, <1>20, <1>21, <1>22, <1>23, <1>24,
     <1>25, <1>26, <1>27, <1>28, <1>29 DEF Step, Run

LEMMA RecordedOwnStep ==
  ASSUME TypeInv, LockInv, RecordedInv, ~IgnoreChecksumDrift, ~SqlMayReleaseLock,
         NEW r \in Runner, Step(r)
  PROVE  Recorded(r)'
<1>. USE DEF TypeInv, TypeOK, PlanInv, PlanOf, RecordedInv, Recorded, Live, Goto, WorkPcs,
     ForwardPcs, rows, plan
<1>1. CASE Start(r)
  BY <1>1 DEF Start
<1>2. CASE AcquireLock(r)
  BY <1>2 DEF AcquireLock, FirstPc
<1>3. CASE LockTimeout(r)
  BY <1>3 DEF LockTimeout, Return
<1>4. CASE Release(r)
  BY <1>4 DEF Release, Return
<1>5. CASE Scan(r)
  BY <1>5 DEF Scan
<1>6. CASE BuildUpPlan(r)
  BY <1>6 DEF BuildUpPlan, BuildPlan, NextPc
<1>7. CASE BuildDownPlan(r)
  BY <1>7 DEF BuildDownPlan, BuildPlan, NextPc
<1>8. CASE BuildResetPlan(r)
  BY <1>8 DEF BuildResetPlan, BuildPlan, NextPc
<1>9. CASE BuildRefreshPlan(r)
  BY <1>9 DEF BuildRefreshPlan, BuildPlan, NextPc
<1>10. CASE AllocateBatch(r)
  BY <1>10 DEF AllocateBatch, Acknowledged
<1>11. CASE InsertIntent(r)
  BY <1>11 DEF InsertIntent, Acknowledged, SetState
<1>12. CASE VerifyDownChecksums(r)
  BY <1>12 DEF VerifyDownChecksums
<1>13. CASE MarkRollingBack(r)
  BY <1>13 DEF MarkRollingBack, Acknowledged, SetState
<1>14. CASE Verify(r)
  BY <1>14 DEF Verify
<1>15. CASE ExecSql(r)
  BY <1>15 DEF ExecSql
<1>16. CASE SqlReleasesLock(r)
  BY <1>16 DEF SqlReleasesLock
<1>17. CASE Inspect(r)
  BY <1>17 DEF Inspect
<1>18. CASE CleanupSession(r)
  BY <1>18 DEF CleanupSession
<1>19. CASE ImplicitCommit(r)
  BY <1>19 DEF ImplicitCommit
<1>20. CASE MarkApplied(r)
  BY <1>20 DEF MarkApplied, Advance, NextPc, Acknowledged
<1>21. CASE RemoveRow(r)
  BY <1>21 DEF RemoveRow, Advance, NextPc, DeleteRow, Acknowledged
<1>22. CASE MarkFailed(r)
  BY <1>22 DEF MarkFailed
<1>23. CASE BuildRepairView(r)
  BY <1>23 DEF BuildRepairView
<1>24. CASE MarkAppliedByRepair(r)
  BY <1>24 DEF MarkAppliedByRepair
<1>25. CASE MarkRolledBackByRepair(r)
  BY <1>25 DEF MarkRolledBackByRepair, Acknowledged
<1>26. CASE RemoveRowByRepair(r)
  BY <1>26 DEF RemoveRowByRepair, DeleteRow
<1>27. CASE Abort(r)
  BY <1>27 DEF Abort
<1>28. CASE LoseSession(r)
  BY <1>28 DEF LoseSession
<1>29. CASE Crash(r)
  BY <1>29 DEF Crash, Return
<1>. QED
  BY <1>1, <1>2, <1>3, <1>4, <1>5, <1>6, <1>7, <1>8, <1>9, <1>10, <1>11, <1>12, <1>13,
     <1>14, <1>15, <1>16, <1>17, <1>18, <1>19, <1>20, <1>21, <1>22, <1>23, <1>24,
     <1>25, <1>26, <1>27, <1>28, <1>29 DEF Step, Run

LEMMA RecordedInvStep == TypeInv /\ LockInv /\ RecordedInv /\ [Next]_vars => RecordedInv'
<1>. SUFFICES ASSUME TypeInv, LockInv, RecordedInv, [Next]_vars,
                     ~IgnoreChecksumDrift, ~SqlMayReleaseLock
              PROVE  \A r \in Runner : Recorded(r)'
  BY DEF RecordedInv
<1>1. ASSUME NEW r \in Runner, Step(r), NEW s \in Runner PROVE Recorded(s)'
  <2>1. CASE s = r
    BY <1>1, <2>1, RecordedOwnStep
  <2>2. CASE s # r
    <3>1. SUFFICES ASSUME Live(s)', pc'[s] \in WorkPcs \cup {"markRollingBack"}
                   PROVE  sum'[cur'[s]] = bytes'[s][cur'[s]]
      BY DEF Recorded
    <3>2. /\ Live(s) /\ pc[s] \in WorkPcs \cup {"markRollingBack"}
          /\ cur'[s] = cur[s] /\ bytes'[s] = bytes[s]
      BY <1>1, <2>2, <3>1, Frame DEF Live, TypeInv
    <3>3. lockOwner = s
      BY <3>2 DEF LockInv, Holding, WorkPcs
    <3>. QED
      BY <1>1, <2>2, <3>2, <3>3, OutsiderWritesNothing DEF RecordedInv, Recorded
  <2>. QED
    BY <2>1, <2>2
<1>2. CASE (\E m \in Editable : EditFile(m)) \/ (\E m \in Mig : Compensate(m)) \/ UNCHANGED vars
  BY <1>2 DEF EditFile, Compensate, vars, rows, plan, RecordedInv, Recorded, Live
<1>. QED
  BY <1>1, <1>2 DEF Next, Step

LEMMA RecordedInvHolds == Spec => []RecordedInv
<1>1. Init => RecordedInv
  BY DEF Init, RecordedInv, Recorded, WorkPcs
<1>. QED
  BY <1>1, TypeInvHolds, LockInvHolds, RecordedInvStep, PTL DEF Spec

\* Down SQL that runs is that of the recorded pair, whenever files were edited.
THEOREM RollbackRunsRecordedSqlHolds == Spec => []RollbackRunsRecordedSql
<1>1. RecordedInv => RollbackRunsRecordedSql
  BY DEF RecordedInv, Recorded, RollbackRunsRecordedSql, WorkPcs
<1>. QED
  BY <1>1, RecordedInvHolds, PTL

-----------------------------------------------------------------------------
(* Repairs.  From the check of the row to the change of it nobody else     *)
(* writes, and between the two transactions of mark-rolled-back no row is  *)
(* dirty.                                                                  *)

\* A plan is accepted.
PlanMade(r) == BuildUpPlan(r) \/ BuildDownPlan(r) \/ BuildResetPlan(r) \/ BuildRefreshPlan(r)

\* A plan leads to executing it or to releasing the lock.
LEMMA PlanIsNoRepair ==
  ASSUME TypeOK, NEW r \in Runner, PlanMade(r)
  PROVE  pc'[r] \notin RepairPcs
<1>1. PICK D, U : BuildPlan(r, D, U)
  BY DEF PlanMade, BuildUpPlan, BuildDownPlan, BuildResetPlan, BuildRefreshPlan
<1>. QED
  BY <1>1 DEF BuildPlan, NextPc, Goto, RepairPcs, TypeOK

\* With trusted SQL, a runner without the lock leaves the table alone.
LEMMA OutsiderKeepsRows ==
  ASSUME LockInv, ~SqlMayReleaseLock, NEW r \in Runner, Step(r), lockOwner # r
  PROVE  UNCHANGED <<state, batch, rowid, sum>>
<1>1. ~Holding(r)
  BY DEF LockInv
<1>. QED
  BY <1>1, RowWriters
  DEF Holding, Live, InsertIntent, MarkRollingBack, MarkApplied, RemoveRow, MarkFailed,
      MarkAppliedByRepair, MarkRolledBackByRepair, RemoveRowByRepair

\* Who holds the lock is not disturbed by the steps of the others.
LEMMA Bystander ==
  ASSUME TypeInv, LockInv, ~SqlMayReleaseLock, NEW r \in Runner, Step(r),
         NEW s \in Runner \ {r}, Live(s)', pc'[s] \notin {"idle", "lock", "release"}
  PROVE  /\ Live(s) /\ lockOwner = s
         /\ UNCHANGED <<state, batch, rowid, sum, schema, overridden>>
         /\ <<pc[s], cmd[s], sess[s], scan[s], bytes[s], down[s], up[s], cur[s],
              myBatch[s]>>'
              = <<pc[s], cmd[s], sess[s], scan[s], bytes[s], down[s], up[s], cur[s],
                  myBatch[s]>>
<1>1. <<pc[s], cmd[s], sess[s], scan[s], bytes[s], down[s], up[s], cur[s], myBatch[s]>>'
        = <<pc[s], cmd[s], sess[s], scan[s], bytes[s], down[s], up[s], cur[s], myBatch[s]>>
  BY Frame DEF TypeInv
<1>2. Live(s) /\ Holding(s)
  BY <1>1 DEF Live, Holding
<1>3. lockOwner = s
  BY <1>2 DEF LockInv
<1>. QED
  BY <1>1, <1>2, <1>3, OutsiderKeepsRows, OutsiderWritesNothing

\* The steps that are no runner's leave rows and runners alone.
Environment == (\E m \in Editable : EditFile(m)) \/ (\E m \in Mig : Compensate(m))

LEMMA EnvironmentFrame ==
  ASSUME Environment \/ UNCHANGED vars
  PROVE  UNCHANGED <<state, batch, rowid, sum, nextBatch, nextId, lockOwner, pc, cmd, sess,
                     scan, bytes, down, up, cur, myBatch, overridden>>
  BY DEF Environment, EditFile, Compensate, vars, rows, plan

RepairOf(r) ==
  /\ pc[r] \in RepairPcs => cmd[r] \in RepairCommands
  /\ pc[r] = "repairDelete" => cmd[r] = "mark-rolled-back"
  /\ ~SqlMayReleaseLock /\ Live(r) =>
       /\ pc[r] = "repair" => RepairAllows(cmd[r], state[cur[r]])
       /\ pc[r] = "repairDelete" => state[cur[r]] = "applied" /\ Quiet

RepairInv == \A r \in Runner : RepairOf(r)

LEMMA RepairOwnStep ==
  ASSUME TypeInv, DirtyInv, RepairInv, NEW r \in Runner, Step(r)
  PROVE  RepairOf(r)'
<1>. USE DEF TypeInv, TypeOK, RepairInv, RepairOf, RepairPcs, Live, Goto, rows, plan
<1>1. CASE Start(r)
  BY <1>1 DEF Start
<1>2. CASE AcquireLock(r)
  BY <1>2 DEF AcquireLock, FirstPc
<1>3. CASE LockTimeout(r) \/ Release(r) \/ Crash(r)
  BY <1>3 DEF LockTimeout, Release, Crash, Return
<1>4. CASE Scan(r)
  BY <1>4 DEF Scan
<1>5. CASE PlanMade(r)
  BY <1>5, PlanIsNoRepair
<1>6. CASE AllocateBatch(r)
  BY <1>6 DEF AllocateBatch, Acknowledged
<1>7. CASE InsertIntent(r)
  BY <1>7 DEF InsertIntent, Acknowledged
<1>8. CASE VerifyDownChecksums(r) \/ Verify(r)
  BY <1>8 DEF VerifyDownChecksums, Verify
<1>9. CASE MarkRollingBack(r)
  BY <1>9 DEF MarkRollingBack, Acknowledged
<1>10. CASE ExecSql(r) \/ SqlReleasesLock(r)
  BY <1>10 DEF ExecSql, SqlReleasesLock
<1>11. CASE Inspect(r) \/ CleanupSession(r)
  BY <1>11 DEF Inspect, CleanupSession
<1>12. CASE ImplicitCommit(r)
  BY <1>12 DEF ImplicitCommit
<1>13. CASE MarkApplied(r)
  BY <1>13 DEF MarkApplied, Advance, NextPc, Acknowledged
<1>14. CASE RemoveRow(r)
  BY <1>14 DEF RemoveRow, Advance, NextPc, Acknowledged
<1>15. CASE MarkFailed(r) \/ Abort(r)
  BY <1>15 DEF MarkFailed, Abort
<1>16. CASE BuildRepairView(r)
  BY <1>16 DEF BuildRepairView
<1>17. CASE MarkAppliedByRepair(r) \/ RemoveRowByRepair(r)
  BY <1>17 DEF MarkAppliedByRepair, RemoveRowByRepair
<1>18. CASE MarkRolledBackByRepair(r)
  <2>1. cmd'[r] = "mark-rolled-back" /\ cmd'[r] \in RepairCommands
    BY <1>18 DEF MarkRolledBackByRepair, RepairCommands
  <2>2. pc'[r] # "repair"
    BY <1>18 DEF MarkRolledBackByRepair, Acknowledged
  <2>3. cur[r] \in Mig /\ cur'[r] = cur[r] /\ IsDirty(state[cur[r]])
    BY <1>18 DEF MarkRolledBackByRepair, PlanInv, PlanOf, IsDirty, Dirty
  <2>4. state' = [state EXCEPT ![cur[r]] = "applied"]
    BY <1>18 DEF MarkRolledBackByRepair, SetState
  <2>5. state'[cur'[r]] = "applied" /\ Quiet'
    BY <2>3, <2>4 DEF DirtyInv, OneInFlight, Quiet, IsDirty, Dirty
  <2>. QED
    BY <2>1, <2>2, <2>5
<1>19. CASE LoseSession(r)
  BY <1>19 DEF LoseSession
<1>. QED
  BY <1>1, <1>2, <1>3, <1>4, <1>5, <1>6, <1>7, <1>8, <1>9, <1>10, <1>11, <1>12, <1>13,
     <1>14, <1>15, <1>16, <1>17, <1>18, <1>19 DEF Step, Run, PlanMade

LEMMA RepairInvStep == TypeInv /\ LockInv /\ DirtyInv /\ RepairInv /\ [Next]_vars => RepairInv'
<1>. SUFFICES ASSUME TypeInv, LockInv, DirtyInv, RepairInv, [Next]_vars PROVE RepairInv'
  OBVIOUS
<1>1. ASSUME NEW r \in Runner, Step(r), NEW s \in Runner PROVE RepairOf(s)'
  <2>1. CASE s = r
    BY <1>1, <2>1, RepairOwnStep
  <2>2. CASE s # r
    <3>1. pc'[s] = pc[s] /\ cmd'[s] = cmd[s] /\ cur'[s] = cur[s] /\ sess'[s] = sess[s]
      BY <1>1, <2>2, Frame DEF TypeInv
    <3>2. ~SqlMayReleaseLock /\ Live(s)' /\ pc'[s] \in RepairPcs => state' = state
      BY <1>1, <2>2, Bystander DEF RepairPcs
    <3>. QED
      BY <3>1, <3>2 DEF RepairInv, RepairOf, RepairPcs, RepairAllows, Live, Quiet
  <2>. QED
    BY <2>1, <2>2
<1>2. CASE Environment \/ UNCHANGED vars
  BY <1>2, EnvironmentFrame DEF RepairInv, RepairOf, RepairAllows, Live, Quiet
<1>. QED
  BY <1>1, <1>2 DEF Next, Step, Environment, RepairInv

LEMMA RepairInvHolds == Spec => []RepairInv
<1>1. Init => RepairInv
  BY DEF Init, RepairInv, RepairOf, RepairPcs
<1>. QED
  BY <1>1, TypeInvHolds, LockInvHolds, DirtyInvHolds, RepairInvStep, PTL DEF Spec

-----------------------------------------------------------------------------
(* Clean rows tell the truth.  What the schema shows of a migration in     *)
(* work, and of one an operator is about to repair, is what the row will   *)
(* say of it once it is clean.                                             *)

Trust == ~IgnoreChecksumDrift /\ ~SqlMayReleaseLock /\ InspectionIsCurrent

\* The schema after migration SQL that reported no error.
DoneSchema(r) == IF Rolling(r) THEN schema[cur[r]] = NoEffect
                               ELSE schema[cur[r]] = bytes[r][cur[r]]

\* The repairs whose operator looked at the schema.
SqlRepairs == {"mark-applied", "mark-rolled-back", "remove-failed"}

TruthOf(r) ==
  Live(r) =>
    /\ pc[r] \in {"inspect", "markDone"} /\ sess[r] # "opentx" => DoneSchema(r)
    /\ pc[r] = "repair" /\ cmd[r] \in SqlRepairs => OperatorSaw(cmd[r], cur[r])
    /\ pc[r] = "repairDelete" => schema[cur[r]] = NoEffect

TruthInv == Trust => /\ \A m \in Mig \ overridden : TrueRow(m)
                     /\ \A r \in Runner : TruthOf(r)

\* A runner keeps its own part of the invariant.
LEMMA TruthOwnStep ==
  ASSUME TypeInv, RecordedInv, TruthInv, Trust, NEW r \in Runner, Step(r)
  PROVE  TruthOf(r)'
<1>. USE DEF TypeInv, TypeOK, PlanInv, PlanOf, TruthInv, Trust, RecordedInv, Recorded,
     TruthOf,
     DoneSchema, Rolling, Live, Goto, WorkPcs, RepairPcs, SetState, rows, plan
<1>1. CASE Start(r)
  BY <1>1 DEF Start
<1>2. CASE AcquireLock(r)
  BY <1>2 DEF AcquireLock, FirstPc
<1>3. CASE LockTimeout(r)
  BY <1>3 DEF LockTimeout, Return
<1>4. CASE Release(r)
  BY <1>4 DEF Release, Return
<1>5. CASE Scan(r)
  BY <1>5 DEF Scan
<1>6. CASE BuildUpPlan(r)
  BY <1>6 DEF BuildUpPlan, BuildPlan, NextPc
<1>7. CASE BuildDownPlan(r)
  BY <1>7 DEF BuildDownPlan, BuildPlan, NextPc
<1>8. CASE BuildResetPlan(r)
  BY <1>8 DEF BuildResetPlan, BuildPlan, NextPc
<1>9. CASE BuildRefreshPlan(r)
  BY <1>9 DEF BuildRefreshPlan, BuildPlan, NextPc
<1>10. CASE AllocateBatch(r)
  BY <1>10 DEF AllocateBatch, Acknowledged
<1>11. CASE InsertIntent(r)
  BY <1>11 DEF InsertIntent, Acknowledged, SetState
<1>12. CASE VerifyDownChecksums(r)
  BY <1>12 DEF VerifyDownChecksums
<1>13. CASE MarkRollingBack(r)
  BY <1>13 DEF MarkRollingBack, Acknowledged, SetState
<1>14. CASE Verify(r)
  BY <1>14 DEF Verify
<1>15. CASE ExecSql(r)
  BY <1>15 DEF ExecSql, Completed
<1>16. CASE SqlReleasesLock(r)
  BY <1>16 DEF SqlReleasesLock
<1>17. CASE Inspect(r)
  BY <1>17 DEF Inspect
<1>18. CASE CleanupSession(r)
  BY <1>18 DEF CleanupSession
<1>19. CASE ImplicitCommit(r)
  <2>1. cur[r] \in Mig
    BY <1>19 DEF ImplicitCommit
  <2>2. pc[r] = "markDone" => schema'[cur[r]] \in Completed(r)
    BY <1>19, <2>1 DEF ImplicitCommit
  <2>3. pc' = pc /\ cur' = cur /\ down' = down /\ bytes' = bytes
    BY <1>19 DEF ImplicitCommit
  <2>. QED
    BY <1>19, <2>2, <2>3 DEF ImplicitCommit, Completed
<1>20. CASE MarkApplied(r)
  BY <1>20 DEF MarkApplied, Advance, NextPc, Acknowledged
<1>21. CASE RemoveRow(r)
  BY <1>21 DEF RemoveRow, Advance, NextPc, DeleteRow, Acknowledged
<1>22. CASE MarkFailed(r)
  BY <1>22 DEF MarkFailed
<1>23. CASE BuildRepairView(r)
  BY <1>23 DEF BuildRepairView, OperatorSaw, SqlRepairs
<1>24. CASE MarkAppliedByRepair(r)
  BY <1>24 DEF MarkAppliedByRepair
<1>25. CASE MarkRolledBackByRepair(r)
  BY <1>25 DEF MarkRolledBackByRepair, Acknowledged, OperatorSaw, SqlRepairs
<1>26. CASE RemoveRowByRepair(r)
  BY <1>26 DEF RemoveRowByRepair, DeleteRow
<1>27. CASE Abort(r)
  BY <1>27 DEF Abort
<1>28. CASE LoseSession(r)
  BY <1>28 DEF LoseSession
<1>29. CASE Crash(r)
  BY <1>29 DEF Crash, Return
<1>. QED
  BY <1>1, <1>2, <1>3, <1>4, <1>5, <1>6, <1>7, <1>8, <1>9, <1>10, <1>11, <1>12, <1>13,
     <1>14, <1>15, <1>16, <1>17, <1>18, <1>19, <1>20, <1>21, <1>22, <1>23, <1>24,
     <1>25, <1>26, <1>27, <1>28, <1>29 DEF Step, Run

\* The row of a migration in work is not clean.
LEMMA DirtyCur ==
  ASSUME TypeInv, LockInv, DirtyInv, Trust, NEW r \in Runner, Live(r), pc[r] \in WorkPcs
  PROVE  state[cur[r]] \notin {"applied", "absent"}
  BY DEF TypeInv, LockInv, DirtyInv, DirtyOf, Holding, InWork, WorkPcs, Trust

\* No step of a runner makes a clean row lie.
LEMMA TrueRowStep ==
  ASSUME TypeInv, LockInv, DirtyInv, RecordedInv, RepairInv, TruthInv, Trust,
         NEW r \in Runner, Step(r), NEW m \in Mig \ overridden'
  PROVE  TrueRow(m)'
<1>. USE DEF TypeInv, TypeOK, PlanInv, PlanOf, TruthInv, Trust, RecordedInv, Recorded,
     TruthOf,
     TrueRow, DoneSchema, Rolling, Live, Goto, WorkPcs, RepairPcs, SetState, rows, plan
<1>1. CASE Start(r)
  BY <1>1 DEF Start
<1>2. CASE AcquireLock(r)
  BY <1>2 DEF AcquireLock, FirstPc
<1>3. CASE LockTimeout(r)
  BY <1>3 DEF LockTimeout, Return
<1>4. CASE Release(r)
  BY <1>4 DEF Release, Return
<1>5. CASE Scan(r)
  BY <1>5 DEF Scan
<1>6. CASE BuildUpPlan(r)
  BY <1>6 DEF BuildUpPlan, BuildPlan
<1>7. CASE BuildDownPlan(r)
  BY <1>7 DEF BuildDownPlan, BuildPlan
<1>8. CASE BuildResetPlan(r)
  BY <1>8 DEF BuildResetPlan, BuildPlan
<1>9. CASE BuildRefreshPlan(r)
  BY <1>9 DEF BuildRefreshPlan, BuildPlan
<1>10. CASE AllocateBatch(r)
  BY <1>10 DEF AllocateBatch
<1>11. CASE InsertIntent(r)
  BY <1>11 DEF InsertIntent, Acknowledged, SetState
<1>12. CASE VerifyDownChecksums(r)
  BY <1>12 DEF VerifyDownChecksums
<1>13. CASE MarkRollingBack(r)
  BY <1>13 DEF MarkRollingBack
<1>14. CASE Verify(r)
  BY <1>14 DEF Verify
<1>15. CASE ExecSql(r)
  BY <1>15, DirtyCur DEF ExecSql
<1>16. CASE SqlReleasesLock(r)
  BY <1>16 DEF SqlReleasesLock
<1>17. CASE Inspect(r)
  BY <1>17 DEF Inspect
<1>18. CASE CleanupSession(r)
  BY <1>18 DEF CleanupSession
<1>19. CASE ImplicitCommit(r)
  <2>1. state[cur[r]] \notin {"applied", "absent"}
    BY <1>19, DirtyCur DEF ImplicitCommit
  <2>2. m # cur[r] => schema'[m] = schema[m]
    BY <1>19 DEF ImplicitCommit
  <2>. QED
    BY <1>19, <2>1, <2>2 DEF ImplicitCommit
<1>20. CASE MarkApplied(r)
  <2>1. schema[cur[r]] = sum[cur[r]]
    BY <1>20 DEF MarkApplied
  <2>2. /\ UNCHANGED <<schema, sum, overridden>>
        /\ state' = [state EXCEPT ![cur[r]] = "applied"]
    BY <1>20 DEF MarkApplied
  <2>. QED
    BY <2>1, <2>2
<1>21. CASE RemoveRow(r)
  BY <1>21 DEF RemoveRow, Advance, DeleteRow
<1>22. CASE MarkFailed(r)
  BY <1>22 DEF MarkFailed
<1>23. CASE BuildRepairView(r)
  BY <1>23 DEF BuildRepairView, OperatorSaw, SqlRepairs
<1>24. CASE MarkAppliedByRepair(r)
  BY <1>24 DEF MarkAppliedByRepair, OperatorSaw, SqlRepairs
<1>25. CASE MarkRolledBackByRepair(r)
  BY <1>25 DEF MarkRolledBackByRepair, OperatorSaw, SqlRepairs
<1>26. CASE RemoveRowByRepair(r)
  <2>1. cmd[r] = "remove-failed" => IsDirty(state[cur[r]])
    BY <1>26 DEF RemoveRowByRepair, RepairInv, RepairOf, RepairAllows, IsDirty, Dirty
  <2>. QED
    BY <1>26, <2>1 DEF RemoveRowByRepair, DeleteRow, OperatorSaw, SqlRepairs, IsDirty, Dirty
<1>27. CASE Abort(r)
  BY <1>27 DEF Abort
<1>28. CASE LoseSession(r)
  BY <1>28, DirtyCur DEF LoseSession, Interrupted
<1>29. CASE Crash(r)
  BY <1>29, DirtyCur DEF Crash, Interrupted
<1>. QED
  BY <1>1, <1>2, <1>3, <1>4, <1>5, <1>6, <1>7, <1>8, <1>9, <1>10, <1>11, <1>12, <1>13,
     <1>14, <1>15, <1>16, <1>17, <1>18, <1>19, <1>20, <1>21, <1>22, <1>23, <1>24,
     <1>25, <1>26, <1>27, <1>28, <1>29 DEF Step, Run

LEMMA TruthInvStep ==
  TypeInv /\ LockInv /\ DirtyInv /\ RecordedInv /\ RepairInv /\ TruthInv /\ [Next]_vars
    => TruthInv'
<1>. SUFFICES ASSUME TypeInv, LockInv, DirtyInv, RecordedInv, RepairInv, TruthInv,
                     [Next]_vars, Trust
              PROVE  /\ \A m \in Mig \ overridden' : TrueRow(m)'
                     /\ \A r \in Runner : TruthOf(r)'
  BY DEF TruthInv
<1>1. ASSUME NEW r \in Runner, Step(r), NEW s \in Runner PROVE TruthOf(s)'
  <2>1. CASE s = r
    BY <1>1, <2>1, TruthOwnStep
  <2>2. CASE s # r
    <3>1. SUFFICES ASSUME Live(s)', pc'[s] \in {"inspect", "markDone", "repair",
         "repairDelete"}
                   PROVE  TruthOf(s)'
      BY DEF TruthOf
    <3>2. <<pc[s], cmd[s], sess[s], bytes[s], down[s], cur[s]>>'
            = <<pc[s], cmd[s], sess[s], bytes[s], down[s], cur[s]>>
      BY <1>1, <2>2, Frame DEF TypeInv
    <3>3. lockOwner = s
      BY <3>1, <3>2 DEF LockInv, Holding, Live, Trust
    <3>4. UNCHANGED <<state, sum, schema, overridden>>
      BY <1>1, <2>2, <3>3, OutsiderWritesNothing DEF Trust
    <3>5. cmd[s] \in SqlRepairs /\ OperatorSaw(cmd[s], cur[s]) => OperatorSaw(cmd[s],
         cur[s])'
      BY <3>2, <3>4 DEF OperatorSaw, SqlRepairs
    <3>. QED
      BY <3>2, <3>4, <3>5 DEF TruthInv, TruthOf, DoneSchema, Rolling, Live
  <2>. QED
    BY <2>1, <2>2
<1>2. ASSUME NEW k \in Editable, EditFile(k)
      PROVE  TruthInv'
  BY <1>2 DEF EditFile, TruthInv, TruthOf, TrueRow, DoneSchema, OperatorSaw, SqlRepairs,
     Rolling, Live, rows, plan
<1>3. ASSUME NEW k \in Mig, Compensate(k)
      PROVE  TruthInv'
  <2>1. \A m \in Mig \ overridden' : TrueRow(m)'
    BY <1>3 DEF Compensate, TruthInv, TrueRow, TypeInv, TypeOK, IsDirty, Dirty, rows
  <2>2. ASSUME NEW r \in Runner PROVE TruthOf(r)'
    <3>1. ~Holding(r)
      BY <1>3, RunnerAssumption DEF Compensate, LockInv, Free
    <3>. QED
      BY <1>3, <3>1 DEF Compensate, TruthOf, Holding, Live, Trust
  <2>. QED
    BY <2>1, <2>2 DEF TruthInv
<1>4. CASE UNCHANGED vars
  BY <1>4 DEF vars, TruthInv, TruthOf, TrueRow, DoneSchema, OperatorSaw, SqlRepairs,
     Rolling, Live
<1>. QED
  BY <1>1, <1>2, <1>3, <1>4, TrueRowStep DEF Next, Step, TruthInv, Trust

LEMMA TruthInvHolds == Spec => []TruthInv
<1>1. Init => TruthInv
  BY DEF Init, TruthInv, TruthOf, TrueRow, Live
<1>. QED
  BY <1>1, TypeInvHolds, LockInvHolds, DirtyInvHolds, RecordedInvHolds, RepairInvHolds,
     TruthInvStep, PTL DEF Spec

\* A clean row tells the truth about the schema, through crashes, lost sessions
\* and lost acknowledgements, unless a repair decided otherwise.
THEOREM CleanRowsAreTrueHolds == Spec => []CleanRowsAreTrue
<1>1. TruthInv => CleanRowsAreTrue
  BY DEF TruthInv, CleanRowsAreTrue, Trust
<1>. QED
  BY <1>1, TruthInvHolds, PTL

-----------------------------------------------------------------------------
(* Batches.  Whoever holds the lock and has a batch has the latest one.    *)

BatchOf(r) ==
  /\ pc[r] \in {"idle", "lock"} => myBatch[r] = 0
  /\ Live(r) /\ lockOwner = r /\ myBatch[r] # 0 => myBatch[r] = nextBatch - 1
  /\ pc[r] = "insertIntent" => myBatch[r] # 0

BatchInv == nextBatch > 0 /\ nextId > 0 /\ BatchOrder /\ \A r \in Runner : BatchOf(r)

\* A plan goes to insert intents only with a batch.
LEMMA PlanBatch ==
  ASSUME TypeInv, NEW r \in Runner,
         BuildUpPlan(r) \/ BuildDownPlan(r) \/ BuildResetPlan(r) \/ BuildRefreshPlan(r)
  PROVE  /\ UNCHANGED <<lockOwner, sess, myBatch, nextBatch>>
         /\ pc'[r] \notin {"idle", "lock"}
         /\ pc'[r] = "insertIntent" => myBatch[r] # 0
<1>1. PICK D, U : BuildPlan(r, D, U)
  BY DEF BuildUpPlan, BuildDownPlan, BuildResetPlan, BuildRefreshPlan
<1>. QED
  BY <1>1 DEF BuildPlan, NextPc, Goto, TypeInv, TypeOK

\* A runner keeps its own part of the invariant.
LEMMA BatchOwnStep ==
  ASSUME TypeInv, LockInv, BatchInv, NEW r \in Runner, Step(r)
  PROVE  BatchOf(r)'
<1>. USE DEF TypeInv, TypeOK, BatchInv, BatchOf, Live, Goto, rows, plan
<1>1. CASE Start(r)
  BY <1>1 DEF Start
<1>2. CASE AcquireLock(r)
  BY <1>2 DEF AcquireLock, FirstPc
<1>3. CASE LockTimeout(r)
  BY <1>3 DEF LockTimeout, Return
<1>4. CASE Release(r)
  BY <1>4 DEF Release, Return
<1>5. CASE Scan(r)
  BY <1>5 DEF Scan
<1>6. CASE BuildUpPlan(r)
  BY <1>6, PlanBatch
<1>7. CASE BuildDownPlan(r)
  BY <1>7, PlanBatch
<1>8. CASE BuildResetPlan(r)
  BY <1>8, PlanBatch
<1>9. CASE BuildRefreshPlan(r)
  BY <1>9, PlanBatch
<1>10. CASE AllocateBatch(r)
  BY <1>10 DEF AllocateBatch, Acknowledged
<1>11. CASE InsertIntent(r)
  BY <1>11 DEF InsertIntent, Acknowledged
<1>12. CASE VerifyDownChecksums(r)
  BY <1>12 DEF VerifyDownChecksums
<1>13. CASE MarkRollingBack(r)
  BY <1>13 DEF MarkRollingBack, Acknowledged
<1>14. CASE Verify(r)
  BY <1>14 DEF Verify
<1>15. CASE ExecSql(r)
  BY <1>15 DEF ExecSql
<1>16. CASE SqlReleasesLock(r)
  BY <1>16 DEF SqlReleasesLock
<1>17. CASE Inspect(r)
  BY <1>17 DEF Inspect
<1>18. CASE CleanupSession(r)
  BY <1>18 DEF CleanupSession
<1>19. CASE ImplicitCommit(r)
  BY <1>19 DEF ImplicitCommit
<1>20. CASE MarkApplied(r)
  BY <1>20 DEF MarkApplied, Advance, NextPc, Acknowledged
<1>21. CASE RemoveRow(r)
  BY <1>21 DEF RemoveRow, Advance, NextPc, DeleteRow, Acknowledged
<1>22. CASE MarkFailed(r)
  BY <1>22 DEF MarkFailed
<1>23. CASE BuildRepairView(r)
  BY <1>23 DEF BuildRepairView
<1>24. CASE MarkAppliedByRepair(r)
  BY <1>24 DEF MarkAppliedByRepair
<1>25. CASE MarkRolledBackByRepair(r)
  BY <1>25 DEF MarkRolledBackByRepair, Acknowledged
<1>26. CASE RemoveRowByRepair(r)
  BY <1>26 DEF RemoveRowByRepair, DeleteRow
<1>27. CASE Abort(r)
  BY <1>27 DEF Abort
<1>28. CASE LoseSession(r)
  BY <1>28 DEF LoseSession, FreedBy
<1>29. CASE Crash(r)
  BY <1>29 DEF Crash, Return
<1>. QED
  BY <1>1, <1>2, <1>3, <1>4, <1>5, <1>6, <1>7, <1>8, <1>9, <1>10, <1>11, <1>12, <1>13,
     <1>14, <1>15, <1>16, <1>17, <1>18, <1>19, <1>20, <1>21, <1>22, <1>23, <1>24,
     <1>25, <1>26, <1>27, <1>28, <1>29 DEF Step, Run

\* The counters grow, and only under the lock.
LEMMA CounterStep ==
  ASSUME TypeInv, LockInv, NEW r \in Runner, Step(r)
  PROVE  /\ nextBatch' \in {nextBatch, nextBatch + 1}
         /\ nextId' \in {nextId, nextId + 1}
         /\ nextBatch' # nextBatch => lockOwner = r
<1>. USE DEF TypeInv, TypeOK, LockInv, Holding, UnsurePcs, Live, rows
<1>1. CASE Start(r)
  BY <1>1 DEF Start
<1>2. CASE AcquireLock(r)
  BY <1>2 DEF AcquireLock
<1>3. CASE LockTimeout(r)
  BY <1>3 DEF LockTimeout
<1>4. CASE Release(r)
  BY <1>4 DEF Release
<1>5. CASE Scan(r)
  BY <1>5 DEF Scan
<1>6. CASE BuildUpPlan(r)
  BY <1>6 DEF BuildUpPlan, BuildPlan
<1>7. CASE BuildDownPlan(r)
  BY <1>7 DEF BuildDownPlan, BuildPlan
<1>8. CASE BuildResetPlan(r)
  BY <1>8 DEF BuildResetPlan, BuildPlan
<1>9. CASE BuildRefreshPlan(r)
  BY <1>9 DEF BuildRefreshPlan, BuildPlan
<1>10. CASE AllocateBatch(r)
  BY <1>10 DEF AllocateBatch
<1>11. CASE InsertIntent(r)
  BY <1>11 DEF InsertIntent
<1>12. CASE VerifyDownChecksums(r)
  BY <1>12 DEF VerifyDownChecksums
<1>13. CASE MarkRollingBack(r)
  BY <1>13 DEF MarkRollingBack
<1>14. CASE Verify(r)
  BY <1>14 DEF Verify
<1>15. CASE ExecSql(r)
  BY <1>15 DEF ExecSql
<1>16. CASE SqlReleasesLock(r)
  BY <1>16 DEF SqlReleasesLock
<1>17. CASE Inspect(r)
  BY <1>17 DEF Inspect
<1>18. CASE CleanupSession(r)
  BY <1>18 DEF CleanupSession
<1>19. CASE ImplicitCommit(r)
  BY <1>19 DEF ImplicitCommit
<1>20. CASE MarkApplied(r)
  BY <1>20 DEF MarkApplied
<1>21. CASE RemoveRow(r)
  BY <1>21 DEF RemoveRow, DeleteRow
<1>22. CASE MarkFailed(r)
  BY <1>22 DEF MarkFailed
<1>23. CASE BuildRepairView(r)
  BY <1>23 DEF BuildRepairView
<1>24. CASE MarkAppliedByRepair(r)
  BY <1>24 DEF MarkAppliedByRepair
<1>25. CASE MarkRolledBackByRepair(r)
  BY <1>25 DEF MarkRolledBackByRepair
<1>26. CASE RemoveRowByRepair(r)
  BY <1>26 DEF RemoveRowByRepair, DeleteRow
<1>27. CASE Abort(r)
  BY <1>27 DEF Abort
<1>28. CASE LoseSession(r)
  BY <1>28 DEF LoseSession
<1>29. CASE Crash(r)
  BY <1>29 DEF Crash
<1>. QED
  BY <1>1, <1>2, <1>3, <1>4, <1>5, <1>6, <1>7, <1>8, <1>9, <1>10, <1>11, <1>12, <1>13,
     <1>14, <1>15, <1>16, <1>17, <1>18, <1>19, <1>20, <1>21, <1>22, <1>23, <1>24,
     <1>25, <1>26, <1>27, <1>28, <1>29 DEF Step, Run

\* But for an insert, a step writes nothing but the states of the rows it leaves.
LEMMA OldRows ==
  ASSUME TypeOK, NEW r \in Runner, Step(r)
  PROVE  \/ InsertIntent(r)
         \/ /\ Rollbackable(state)' \subseteq Rollbackable(state)
            /\ \A m \in Rollbackable(state)' :
                 batch'[m] = batch[m] /\ rowid'[m] = rowid[m] /\ sum'[m] = sum[m]
<1>. USE DEF TypeOK, Rollbackable, Rows, SetState
<1>1. CASE MarkRollingBack(r)
  BY <1>1 DEF MarkRollingBack
<1>2. CASE MarkApplied(r)
  BY <1>2 DEF MarkApplied
<1>3. CASE RemoveRow(r)
  BY <1>3 DEF RemoveRow, DeleteRow
<1>4. CASE MarkFailed(r)
  BY <1>4 DEF MarkFailed
<1>5. CASE MarkAppliedByRepair(r)
  BY <1>5 DEF MarkAppliedByRepair
<1>6. CASE MarkRolledBackByRepair(r)
  BY <1>6 DEF MarkRolledBackByRepair
<1>7. CASE RemoveRowByRepair(r)
  BY <1>7 DEF RemoveRowByRepair, DeleteRow
<1>8. CASE UNCHANGED <<state, batch, rowid, sum>>
  BY <1>8
<1>. QED
  BY <1>1, <1>2, <1>3, <1>4, <1>5, <1>6, <1>7, <1>8, RowWriters

\* A row is inserted with the latest batch and the latest id.
LEMMA BatchOrderStep ==
  ASSUME TypeInv, LockInv, BatchInv, NEW r \in Runner, Step(r)
  PROVE  BatchOrder'
<1>0. nextBatch' \in {nextBatch, nextBatch + 1} /\ nextId' \in {nextId, nextId + 1}
  BY CounterStep
<1>. USE DEF TypeInv, TypeOK, BatchInv, BatchOrder, Rollbackable, Rows, SetState
<1>1. CASE InsertIntent(r)
  <2>1. myBatch[r] = nextBatch - 1 /\ myBatch[r] # 0
    BY <1>1 DEF InsertIntent, BatchOf, LockInv, Holding, Live, UnsurePcs
  <2>2. PICK m \in up[r] :
          /\ state' = [state EXCEPT ![m] = "applying"]
          /\ batch' = [batch EXCEPT ![m] = myBatch[r]]
          /\ rowid' = [rowid EXCEPT ![m] = nextId]
    BY <1>1 DEF InsertIntent
  <2>3. nextId' = nextId + 1 /\ nextBatch' = nextBatch /\ m \in Mig
    BY <1>1 DEF InsertIntent
  <2>4. nextBatch - 1 \in Nat \ {0} /\ nextBatch \in Nat /\ nextId \in Nat \ {0}
    BY <2>1
  <2>5. ASSUME NEW k \in Rollbackable(state)'
        PROVE  \/ k = m /\ batch'[k] = nextBatch - 1 /\ rowid'[k] = nextId
               \/ /\ k \in Rollbackable(state) /\ k # m
                  /\ batch'[k] = batch[k] /\ rowid'[k] = rowid[k]
    BY <2>1, <2>2, <2>3
  <2>6. \A k \in Rollbackable(state) : /\ batch[k] \in 1..(nextBatch - 1)
                                       /\ rowid[k] \in 1..(nextId - 1)
    OBVIOUS
  <2>. HIDE DEF TypeInv, TypeOK, BatchInv, BatchOrder, Rollbackable, Rows
  <2>7. ASSUME NEW k \in Rollbackable(state)'
        PROVE  batch'[k] \in 1..(nextBatch' - 1) /\ rowid'[k] \in 1..(nextId' - 1)
    BY <2>4, <2>3, <2>5, <2>6
  <2>8. ASSUME NEW k \in Rollbackable(state)', NEW n \in Rollbackable(state)'
        PROVE  /\ k # n => rowid'[k] # rowid'[n]
               /\ rowid'[k] < rowid'[n] => batch'[k] <= batch'[n]
    <3>1. CASE k = m /\ n = m
      BY <2>7, <3>1
    <3>2. CASE k # m /\ n # m
      BY <2>5, <3>2 DEF BatchInv, BatchOrder
    <3>3. CASE k = m /\ n # m
      BY <2>5, <2>6, <2>4, <3>3
    <3>4. CASE k # m /\ n = m
      BY <2>5, <2>6, <2>4, <3>4
    <3>. QED
      BY <3>1, <3>2, <3>3, <3>4
  <2>. QED
    BY <2>7, <2>8 DEF BatchOrder
<1>2. CASE /\ Rollbackable(state)' \subseteq Rollbackable(state)
           /\ \A m \in Rollbackable(state)' : batch'[m] = batch[m] /\ rowid'[m] = rowid[m]
  BY <1>2, <1>0
<1>. QED
  BY <1>1, <1>2, OldRows

LEMMA BatchInvStep == TypeInv /\ LockInv /\ BatchInv /\ [Next]_vars => BatchInv'
<1>. SUFFICES ASSUME TypeInv, LockInv, BatchInv, [Next]_vars PROVE BatchInv'
  OBVIOUS
<1>1. ASSUME NEW r \in Runner, Step(r) PROVE BatchInv'
  <2>1. ASSUME NEW s \in Runner \ {r} PROVE BatchOf(s)'
    <3>1. <<pc[s], sess[s], myBatch[s]>>' = <<pc[s], sess[s], myBatch[s]>>
      BY <1>1, <2>1, Frame DEF TypeInv
    <3>2. lockOwner' = s => lockOwner = s /\ nextBatch' = nextBatch
      BY <1>1, <2>1, LockStep, CounterStep, RunnerAssumption DEF Free
    <3>. QED
      BY <3>1, <3>2 DEF BatchInv, BatchOf, Live
  <2>2. nextBatch' \in {nextBatch, nextBatch + 1} /\ nextId' \in {nextId, nextId + 1}
    BY <1>1, CounterStep
  <2>3. nextBatch' > 0 /\ nextId' > 0
    BY <2>2 DEF BatchInv, TypeInv, TypeOK
  <2>. QED
    BY <1>1, <2>1, <2>3, BatchOwnStep, BatchOrderStep DEF BatchInv
<1>2. CASE (\E m \in Editable : EditFile(m)) \/ (\E m \in Mig : Compensate(m)) \/ UNCHANGED vars
  BY <1>2 DEF EditFile, Compensate, vars, rows, plan, BatchInv, BatchOf, BatchOrder,
     Rollbackable, Rows, Live
<1>. QED
  BY <1>1, <1>2 DEF Next, Step

LEMMA BatchInvHolds == Spec => []BatchInv
<1>1. Init => BatchInv
  BY DEF Init, BatchInv, BatchOf, BatchOrder, Rollbackable, Rows, Live
<1>. QED
  BY <1>1, TypeInvHolds, LockInvHolds, BatchInvStep, PTL DEF Spec

\* Row ids and batch numbers agree, even if migration SQL gives the lock away:
\* the latest batch is the tail of the execution order.
THEOREM BatchOrderHolds == Spec => []BatchOrder
  BY BatchInvHolds, PTL DEF BatchInv
=============================================================================
