----------------------------- MODULE PlanProofs -----------------------------
(***************************************************************************)
(* Theorems about Migrator that follow a plan from the moment it is made   *)
(* to the step that ends it: what is rolled back and in which order, what  *)
(* drift blocks, what becomes of baselines, which rows a step may touch.   *)
(* They rest on the invariants of MigratorProofs and add these:            *)
(*                                                                         *)
(*   BaselineInv  no plan, no repair but a forget names a baseline         *)
(*   FiniteInv    the rows that can be rolled back are finitely many       *)
(*   LifoInv      a rollback set is the top of the execution order         *)
(*   DriftInv     all rows but this invocation's own agree with its scan   *)
(***************************************************************************)
EXTENDS MigratorProofs, FiniteSetTheorems

-----------------------------------------------------------------------------
(* Steps as a plan sees them.                                              *)

\* Between the intent of one migration and its outcome.
WorkStep(r) ==
  /\ Live(r) /\ pc[r] \in WorkPcs /\ pc'[r] \in WorkPcs
  /\ UNCHANGED <<state, batch, rowid, sum, cmd, plan, cur, myBatch>>

PlanPoints == BetweenPcs \cup WorkPcs

Executing(r) == Live(r) /\ pc[r] \in PlanPoints

\* What a runner that executes a plan has just done.
LEMMA ExecutingSteps ==
  ASSUME TypeOK, NEW r \in Runner, Step(r), Executing(r)'
  PROVE  \/ PlanMade(r) \/ AllocateBatch(r) \/ InsertIntent(r) \/ VerifyDownChecksums(r)
         \/ MarkRollingBack(r) \/ MarkApplied(r) \/ RemoveRow(r) \/ WorkStep(r)
<1>. USE DEF TypeOK, Executing, PlanPoints, BetweenPcs, WorkPcs, Live, Goto, rows
<1>1. CASE Start(r)
  BY <1>1 DEF Start
<1>2. CASE AcquireLock(r)
  BY <1>2 DEF AcquireLock, FirstPc
<1>3. CASE LockTimeout(r) \/ Release(r) \/ Crash(r)
  BY <1>3 DEF LockTimeout, Release, Crash, Return
<1>4. CASE Scan(r)
  BY <1>4 DEF Scan
<1>5. CASE Verify(r)
  BY <1>5 DEF Verify, WorkStep
<1>6. CASE ExecSql(r)
  BY <1>6 DEF ExecSql, WorkStep
<1>7. CASE SqlReleasesLock(r)
  BY <1>7 DEF SqlReleasesLock, WorkStep
<1>8. CASE Inspect(r)
  BY <1>8 DEF Inspect, WorkStep
<1>9. CASE CleanupSession(r)
  BY <1>9 DEF CleanupSession, WorkStep
<1>10. CASE ImplicitCommit(r)
  BY <1>10 DEF ImplicitCommit, WorkStep
<1>11. CASE MarkFailed(r)
  BY <1>11 DEF MarkFailed
<1>12. CASE BuildRepairView(r)
  BY <1>12 DEF BuildRepairView
<1>13. CASE MarkAppliedByRepair(r)
  BY <1>13 DEF MarkAppliedByRepair
<1>14. CASE MarkRolledBackByRepair(r)
  BY <1>14 DEF MarkRolledBackByRepair, Acknowledged
<1>15. CASE RemoveRowByRepair(r)
  BY <1>15 DEF RemoveRowByRepair
<1>16. CASE Abort(r)
  BY <1>16 DEF Abort
<1>17. CASE LoseSession(r)
  BY <1>17 DEF LoseSession
<1>. QED
  BY <1>1, <1>2, <1>3, <1>4, <1>5, <1>6, <1>7, <1>8, <1>9, <1>10, <1>11, <1>12, <1>13,
     <1>14, <1>15, <1>16, <1>17 DEF Step, Run, PlanMade

\* What a command plans to roll back and to apply.  Down by name aside, the rows
\* it rolls back are none, all, or the last of all or of the latest batch.
Latest(D) ==
  \/ D \in {{}, Rollbackable(state)}
  \/ \E n \in Limits : D \in {LastN(Rollbackable(state), n, rowid),
                              LastN(DownCandidates(state, batch), n, rowid)}

LEMMA PlanWays ==
  ASSUME NEW r, PlanMade(r)
  PROVE  \E D, U : /\ BuildPlan(r, D, U)
                   /\ D \subseteq Rollbackable(state)
                   /\ U \subseteq Pending(state, scan[r])
                   /\ cmd[r] # "down_name" => Latest(D)
<1>. DEFINE Way(D, U) == /\ BuildPlan(r, D, U)
                         /\ D \subseteq Rollbackable(state)
                         /\ U \subseteq Pending(state, scan[r])
                         /\ cmd[r] # "down_name" => Latest(D)
<1>1. \A S, n, f : FirstN(S, n) \subseteq S /\ LastN(S, n, f) \subseteq S
  BY DEF FirstN, LastN
<1>2. DownCandidates(state, batch) \subseteq Rollbackable(state)
  BY DEF DownCandidates
<1>3. CASE BuildUpPlan(r)
  <2>1. PICK n \in Limits : BuildPlan(r, {}, FirstN(Pending(state, scan[r]), n))
    BY <1>3 DEF BuildUpPlan
  <2>2. Way({}, FirstN(Pending(state, scan[r]), n))
    BY <1>1, <2>1 DEF Latest
  <2>. QED
    BY <2>2
<1>4. CASE BuildDownPlan(r)
  <2>1. ASSUME NEW n \in Limits,
               BuildPlan(r, LastN(DownCandidates(state, batch), n, rowid), {})
        PROVE  Way(LastN(DownCandidates(state, batch), n, rowid), {})
    BY <1>1, <1>2, <2>1 DEF Latest
  <2>2. ASSUME NEW m \in Rollbackable(state), BuildPlan(r, {m}, {}), cmd[r] = "down_name"
        PROVE  Way({m}, {})
    BY <2>2
  <2>. HIDE DEF Way
  <2>3. \E D, U : Way(D, U)
    BY <1>4, <2>1, <2>2 DEF BuildDownPlan, Planning
  <2>. QED
    BY <2>3 DEF Way
<1>5. CASE BuildResetPlan(r)
  <2>1. Way(Rollbackable(state), {})
    BY <1>5 DEF BuildResetPlan, Latest
  <2>. QED
    BY <2>1
<1>6. CASE BuildRefreshPlan(r)
  <2>1. ASSUME NEW n \in Limits, BuildPlan(r, LastN(Rollbackable(state), n, rowid),
                                              FirstN(Pending(state, scan[r]), n))
        PROVE  Way(LastN(Rollbackable(state), n, rowid), FirstN(Pending(state, scan[r]), n))
    BY <1>1, <2>1 DEF Latest
  <2>2. ASSUME NEW m, BuildPlan(r, Rollbackable(state),
                                   {k \in Pending(state, scan[r]) : k <= m})
        PROVE  Way(Rollbackable(state), {k \in Pending(state, scan[r]) : k <= m})
    BY <2>2 DEF Latest
  <2>. QED
    BY <1>6, <2>1, <2>2 DEF BuildRefreshPlan
<1>. QED
  BY <1>3, <1>4, <1>5, <1>6 DEF PlanMade

-----------------------------------------------------------------------------
(* Clean rows and the lock.                                                *)

\* Only who holds the lock makes a row clean, and goes on from there.
LEMMA CleanWriter ==
  ASSUME TypeInv, LockInv, NEW r \in Runner, Step(r),
         NEW m \in Mig, state'[m] # state[m], ~IsDirty(state'[m])
  PROVE  lockOwner = r /\ pc'[r] # pc[r]
<1>. USE DEF TypeInv, TypeOK, LockInv, Holding, Live, UnsurePcs, Goto, SetState, IsDirty,
     Dirty
<1>1. CASE InsertIntent(r)
  BY <1>1 DEF InsertIntent
<1>2. CASE MarkRollingBack(r)
  BY <1>2 DEF MarkRollingBack
<1>3. CASE MarkApplied(r)
  BY <1>3, PcsFact DEF MarkApplied, Advance, NextPc, Acknowledged
<1>4. CASE RemoveRow(r)
  BY <1>4, PcsFact DEF RemoveRow, Advance, NextPc, Acknowledged
<1>5. CASE MarkFailed(r)
  BY <1>5 DEF MarkFailed
<1>6. CASE MarkAppliedByRepair(r)
  BY <1>6 DEF MarkAppliedByRepair
<1>7. CASE MarkRolledBackByRepair(r)
  BY <1>7 DEF MarkRolledBackByRepair, Acknowledged
<1>8. CASE RemoveRowByRepair(r)
  BY <1>8 DEF RemoveRowByRepair
<1>. QED
  BY <1>1, <1>2, <1>3, <1>4, <1>5, <1>6, <1>7, <1>8, RowWriters

\* Even if migration SQL gives the lock away, a row turns clean only by a step
\* of the runner whose session holds it.
THEOREM HolderWritesCleanHolds == Spec => HolderWritesClean
<1>1. TypeInv /\ LockInv /\ [Next]_vars =>
        [\A m \in Mig : state'[m] # state[m] /\ ~IsDirty(state'[m]) =>
           lockOwner # Free /\ pc'[lockOwner] # pc[lockOwner]]_vars
  <2>. SUFFICES ASSUME TypeInv, LockInv, Next, NEW m \in Mig,
                       state'[m] # state[m], ~IsDirty(state'[m])
                PROVE  lockOwner # Free /\ pc'[lockOwner] # pc[lockOwner]
    OBVIOUS
  <2>1. CASE Environment
    BY <2>1, EnvironmentFrame
  <2>2. ASSUME NEW r \in Runner, Step(r)
        PROVE  lockOwner # Free /\ pc'[lockOwner] # pc[lockOwner]
    BY <2>2, CleanWriter, RunnerAssumption DEF Free
  <2>. QED
    BY <2>1, <2>2 DEF Next, Step, Environment
<1>. QED
  BY <1>1, TypeInvHolds, LockInvHolds, PTL DEF Spec, HolderWritesClean

-----------------------------------------------------------------------------
(* What a dirty row blocks.                                                *)

\* The only steps that touch the schema.
LEMMA SchemaWriters ==
  ASSUME TypeInv, NEW r \in Runner, Step(r), schema' # schema
  PROVE  /\ Live(r) /\ pc[r] \in {"exec", "markDone", "markFailed"}
         /\ \E e \in Effect : schema' = [schema EXCEPT ![cur[r]] = e]
         /\ UNCHANGED <<state, sum, overridden>>
<1>. USE DEF Live, rows
<1>1. CASE ExecSql(r)
  BY <1>1, EffectsType DEF ExecSql
<1>2. CASE ImplicitCommit(r)
  <2>1. PICK e \in Completed(r) \cup CutShort(r) : schema' = [schema EXCEPT ![cur[r]] = e]
    BY <1>2 DEF ImplicitCommit
  <2>2. e \in Effect
    BY <1>2, <2>1, EffectsType DEF ImplicitCommit
  <2>. QED
    BY <1>2, <2>1, <2>2 DEF ImplicitCommit
<1>3. CASE LoseSession(r)
  BY <1>3, EffectsType DEF LoseSession, Interrupted
<1>4. CASE Crash(r)
  BY <1>4, EffectsType DEF Crash, Interrupted
<1>. QED
  BY <1>1, <1>2, <1>3, <1>4
  DEF Step, Run, Start, AcquireLock, LockTimeout, Release, Scan, BuildUpPlan,
      BuildDownPlan, BuildResetPlan, BuildRefreshPlan, BuildPlan, AllocateBatch,
      InsertIntent, VerifyDownChecksums, MarkRollingBack, Verify, SqlReleasesLock,
      Inspect, CleanupSession, MarkApplied, RemoveRow, MarkFailed, BuildRepairView,
      MarkAppliedByRepair, MarkRolledBackByRepair, RemoveRowByRepair, Abort

\* With trusted SQL, a runner past GET_LOCK on a live session has the lock.
LEMMA TrustedHolder ==
  ASSUME LockInv, ~SqlMayReleaseLock, NEW r \in Runner, Live(r),
         pc[r] \notin {"idle", "lock", "release"}
  PROVE  lockOwner = r
  BY DEF LockInv, Holding

\* The migration in work is the one whose row is dirty.
LEMMA WorkIsDirty ==
  ASSUME TypeInv, LockInv, DirtyInv, ~SqlMayReleaseLock, NEW r \in Runner, Live(r),
         pc[r] \in WorkPcs
  PROVE  /\ cur[r] \in Mig /\ IsDirty(state[cur[r]])
         /\ \A m \in Mig : IsDirty(state[m]) => m = cur[r]
  BY TrustedHolder DEF TypeInv, TypeOK, PlanInv, PlanOf, DirtyInv, DirtyOf, InWork,
     WorkPcs, IsDirty, Dirty

\* A dirty row keeps every runner from touching another migration.
LEMMA BlockedStep ==
  ASSUME TypeInv, LockInv, DirtyInv, RepairInv, ~SqlMayReleaseLock,
         NEW r \in Runner, Step(r), NEW m \in Mig, NEW n \in Mig, IsDirty(state[m]), m # n
  PROVE  /\ schema'[n] = schema[n]
         /\ state'[n] = state[n] \/ (cmd[r] = "forget" /\ cur[r] = n)
<1>1. schema'[n] = schema[n]
  <2>1. CASE schema' = schema
    BY <2>1
  <2>2. CASE schema' # schema
    <3>1. Live(r) /\ pc[r] \in WorkPcs /\ \E e : schema' = [schema EXCEPT ![cur[r]] = e]
      BY <2>2, SchemaWriters DEF WorkPcs
    <3>2. m = cur[r]
      BY <3>1, WorkIsDirty
    <3>. QED
      BY <3>1, <3>2
  <2>. QED
    BY <2>1, <2>2
<1>2. ASSUME Live(r), pc[r] \in WorkPcs, \E v : state' = [state EXCEPT ![cur[r]] = v]
      PROVE  state'[n] = state[n]
  BY <1>2, WorkIsDirty
<1>3. Live(r) /\ pc[r] \in BetweenPcs => FALSE
  BY TrustedHolder DEF DirtyInv, DirtyOf, Quiet, BetweenPcs
<1>4. CASE InsertIntent(r) \/ MarkRollingBack(r)
  BY <1>3, <1>4 DEF InsertIntent, MarkRollingBack, BetweenPcs
<1>5. CASE MarkApplied(r)
  BY <1>2, <1>5 DEF MarkApplied, SetState, Live, WorkPcs
<1>6. CASE RemoveRow(r)
  BY <1>2, <1>6 DEF RemoveRow, DeleteRow, SetState, Live, WorkPcs
<1>7. CASE MarkFailed(r)
  BY <1>2, <1>7 DEF MarkFailed, SetState, Live, WorkPcs
<1>8. ASSUME Live(r), pc[r] \in RepairPcs, \E v : state' = [state EXCEPT ![cur[r]] = v],
             IsDirty(state[cur[r]])
      PROVE  state'[n] = state[n]
  <2>1. cur[r] \in Mig
    BY <1>8 DEF TypeInv, PlanInv, PlanOf
  <2>2. cur[r] = m
    BY <1>8, <2>1 DEF DirtyInv, OneInFlight
  <2>. QED
    BY <1>8, <2>2
<1>9. CASE MarkAppliedByRepair(r) \/ MarkRolledBackByRepair(r)
  BY <1>8, <1>9 DEF MarkAppliedByRepair, MarkRolledBackByRepair, SetState, RepairPcs,
     IsDirty, Dirty
<1>10. CASE RemoveRowByRepair(r)
  <2>1. Live(r) /\ state' = [state EXCEPT ![cur[r]] = "absent"]
    BY <1>10 DEF RemoveRowByRepair, DeleteRow, SetState
  <2>2. pc[r] # "repairDelete"
    BY <2>1 DEF RepairInv, RepairOf, Quiet
  <2>3. pc[r] = "repair" /\ cmd[r] \in {"remove-failed", "forget"}
    BY <1>10, <2>2 DEF RemoveRowByRepair
  <2>4. cmd[r] = "remove-failed" => IsDirty(state[cur[r]])
    BY <2>1, <2>3 DEF RepairInv, RepairOf, RepairAllows
  <2>5. CASE cmd[r] = "remove-failed"
    BY <1>1, <1>8, <2>1, <2>3, <2>4, <2>5 DEF RepairPcs
  <2>6. CASE cmd[r] = "forget"
    BY <1>1, <2>1, <2>6 DEF TypeInv, TypeOK
  <2>. QED
    BY <2>3, <2>5, <2>6
<1>. QED
  BY <1>1, <1>4, <1>5, <1>6, <1>7, <1>9, <1>10, RowWriters

\* While a migration is unresolved nothing happens to another one, whoever runs
\* or retries, but that an operator may make lamigrate forget its row.
THEOREM DirtyBlocksOthersHolds == Spec => DirtyBlocksOthers
<1>1. TypeInv /\ LockInv /\ DirtyInv /\ RepairInv /\ [Next]_vars =>
        [\A m, n \in Mig : IsDirty(state[m]) /\ m # n /\ ~SqlMayReleaseLock =>
           /\ schema'[n] = schema[n]
           /\ state'[n] = state[n] \/ \E r \in Runner : cmd[r] = "forget" /\ cur[r] = n]_vars
  <2>. SUFFICES ASSUME TypeInv, LockInv, DirtyInv, RepairInv, Next, NEW m \in Mig,
                       NEW n \in Mig, IsDirty(state[m]), m # n, ~SqlMayReleaseLock
                PROVE  /\ schema'[n] = schema[n]
                       /\ \/ state'[n] = state[n]
                          \/ \E r \in Runner : cmd[r] = "forget" /\ cur[r] = n
    OBVIOUS
  <2>1. ASSUME NEW r \in Runner, Step(r)
        PROVE  /\ schema'[n] = schema[n]
               /\ state'[n] = state[n] \/ \E q \in Runner : cmd[q] = "forget" /\ cur[q] = n
    BY <2>1, BlockedStep
  <2>2. ASSUME NEW k \in Mig, Compensate(k)
        PROVE  schema'[n] = schema[n] /\ state'[n] = state[n]
    BY <2>2 DEF Compensate, DirtyInv, OneInFlight, TypeInv, TypeOK, rows
  <2>3. ASSUME NEW k, EditFile(k)
        PROVE  schema'[n] = schema[n] /\ state'[n] = state[n]
    BY <2>3 DEF EditFile, rows
  <2>. QED
    BY <2>1, <2>2, <2>3 DEF Next, Step
<1>. QED
  BY <1>1, TypeInvHolds, LockInvHolds, DirtyInvHolds, RepairInvHolds, PTL
  DEF Spec, DirtyBlocksOthers

-----------------------------------------------------------------------------
(* Baselines.  None is ever in a plan: it has no file to be applied from    *)
(* and is passed over when rows are selected for rollback.  Repairs other  *)
(* than a forget want a dirty row, which a baseline never has.             *)

BaselineOf(r) ==
  \A m \in Baseline :
    /\ m \notin down[r] \cup up[r]
    /\ scan[r][m] = Missing
    /\ (pc[r] = "repair" /\ cmd[r] # "forget") \/ pc[r] = "repairDelete" => cur[r] # m

BaselineInv ==
  /\ file \in Directories
  /\ BaselinesStay
  /\ \A r \in Runner : BaselineOf(r)

\* A plan names no baseline.
LEMMA PlanSparesBaselines ==
  ASSUME TypeInv, BaselineInv, NEW r \in Runner, PlanMade(r)
  PROVE  /\ BaselineOf(r)'
         /\ file' = file
<1>1. /\ Rollbackable(state) \cap Baseline = {}
      /\ DownCandidates(state, batch) \subseteq Rollbackable(state)
      /\ Pending(state, scan[r]) \cap Baseline = {}
  BY DEF Rollbackable, DownCandidates, Pending, BaselineInv, BaselineOf
<1>3. PICK D, U : /\ BuildPlan(r, D, U)
                  /\ D \subseteq Rollbackable(state) /\ U \subseteq Pending(state, scan[r])
  BY PlanWays
<1>4. down'[r] = D /\ up'[r] = U /\ scan' = scan /\ cur' = cur /\ file' = file
  BY <1>3 DEF BuildPlan, TypeInv, TypeOK
<1>5. pc'[r] \notin RepairPcs
  BY PlanIsNoRepair DEF TypeInv
<1>. QED
  BY <1>1, <1>3, <1>4, <1>5 DEF BaselineInv, BaselineOf, RepairPcs

LEMMA BaselineOwnStep ==
  ASSUME TypeInv, RepairInv, BaselineInv, NEW r \in Runner, Step(r)
  PROVE  BaselineOf(r)'
<1>. USE MigAssumption DEF TypeInv, TypeOK, BaselineInv, BaselineOf, Goto, rows, plan
<1>1. CASE Start(r)
  BY <1>1 DEF Start
<1>2. CASE AcquireLock(r)
  BY <1>2 DEF AcquireLock, FirstPc
<1>3. CASE LockTimeout(r) \/ Release(r) \/ Crash(r)
  BY <1>3 DEF LockTimeout, Release, Crash, Return, NoFiles
<1>4. CASE Scan(r)
  BY <1>4 DEF Scan, Directories
<1>5. CASE PlanMade(r)
  BY <1>5, PlanSparesBaselines
<1>6. CASE AllocateBatch(r) \/ InsertIntent(r)
  <2>1. scan' = scan /\ down' = down /\ up' = up /\ pc'[r] \notin RepairPcs
    BY <1>6 DEF AllocateBatch, InsertIntent, Acknowledged, RepairPcs
  <2>. QED
    BY <2>1 DEF RepairPcs
<1>7. CASE VerifyDownChecksums(r) \/ Verify(r)
  BY <1>7 DEF VerifyDownChecksums, Verify
<1>8. CASE MarkRollingBack(r)
  BY <1>8 DEF MarkRollingBack, Acknowledged
<1>9. CASE ExecSql(r) \/ SqlReleasesLock(r)
  BY <1>9 DEF ExecSql, SqlReleasesLock
<1>10. CASE Inspect(r) \/ CleanupSession(r)
  BY <1>10 DEF Inspect, CleanupSession
<1>11. CASE ImplicitCommit(r)
  BY <1>11 DEF ImplicitCommit
<1>12. CASE MarkApplied(r) \/ RemoveRow(r)
  <2>1. /\ down'[r] \subseteq down[r] /\ up'[r] \subseteq up[r] /\ scan' = scan
        /\ pc'[r] \notin RepairPcs
    BY <1>12 DEF MarkApplied, RemoveRow, Advance, NextPc, Acknowledged, RepairPcs
  <2>. QED
    BY <2>1 DEF RepairPcs
<1>13. CASE MarkFailed(r) \/ Abort(r)
  BY <1>13 DEF MarkFailed, Abort
<1>14. CASE BuildRepairView(r)
  <2>1. cmd[r] # "forget" => IsDirty(state[cur[r]])
    BY <1>14 DEF BuildRepairView, RepairAllows, RepairInv, RepairOf, RepairPcs,
       RepairCommands, IsDirty, Dirty
  <2>2. cmd[r] # "forget" => cur[r] \notin Baseline
    BY <2>1 DEF BaselinesStay
  <2>. QED
    BY <1>14, <2>2 DEF BuildRepairView
<1>15. CASE MarkAppliedByRepair(r) \/ RemoveRowByRepair(r)
  BY <1>15 DEF MarkAppliedByRepair, RemoveRowByRepair
<1>16. CASE MarkRolledBackByRepair(r)
  BY <1>16 DEF MarkRolledBackByRepair, Acknowledged
<1>17. CASE LoseSession(r)
  BY <1>17 DEF LoseSession
<1>. QED
  BY <1>1, <1>2, <1>3, <1>4, <1>5, <1>6, <1>7, <1>8, <1>9, <1>10, <1>11, <1>12,
     <1>13, <1>14, <1>15, <1>16, <1>17 DEF Step, Run, PlanMade

\* Only a repair overrides.
LEMMA OverrideWriters ==
  ASSUME NEW r, Step(r)
  PROVE  overridden' = overridden \/ MarkRolledBackByRepair(r) \/ RemoveRowByRepair(r)
  BY DEF Step, Run, Start, AcquireLock, LockTimeout, Release, Scan, BuildUpPlan,
     BuildDownPlan, BuildResetPlan, BuildRefreshPlan, BuildPlan, AllocateBatch,
     InsertIntent, VerifyDownChecksums, MarkRollingBack, Verify, ExecSql, SqlReleasesLock,
     Inspect, CleanupSession, ImplicitCommit, MarkApplied, RemoveRow, MarkFailed,
     BuildRepairView, MarkAppliedByRepair, Abort, LoseSession, Crash

\* No step of a runner but a forget touches the row of a baseline.
LEMMA BaselineRowStep ==
  ASSUME TypeInv, RepairInv, BaselineInv, NEW r \in Runner, Step(r)
  PROVE  BaselinesStay'
<1>1. ASSUME \A m \in Baseline : /\ state'[m] = state[m]
                                 /\ m \in overridden => m \in overridden'
      PROVE  BaselinesStay'
  BY <1>1 DEF BaselineInv, BaselinesStay
<1>2. ASSUME pc[r] \in WorkPcs \cup {"markRollingBack"}
      PROVE  cur[r] \notin Baseline
  BY <1>2 DEF TypeInv, PlanInv, PlanOf, BaselineInv, BaselineOf
<1>3. CASE InsertIntent(r)
  <2>1. \A m \in up[r] : m \notin Baseline
    BY DEF BaselineInv, BaselineOf
  <2>. QED
    BY <1>1, <1>3, <2>1 DEF InsertIntent, SetState, TypeInv, TypeOK
<1>4. ASSUME cur[r] \notin Baseline, \E v : state' = [state EXCEPT ![cur[r]] = v],
             overridden' \in {overridden, overridden \cup {cur[r]}}
      PROVE  BaselinesStay'
  BY <1>1, <1>4, MigAssumption DEF TypeInv, TypeOK
<1>5. CASE MarkRollingBack(r)
  BY <1>2, <1>4, <1>5 DEF MarkRollingBack, SetState
<1>6. CASE MarkApplied(r)
  BY <1>2, <1>4, <1>6 DEF MarkApplied, SetState, WorkPcs
<1>7. CASE RemoveRow(r)
  BY <1>2, <1>4, <1>7 DEF RemoveRow, DeleteRow, SetState, WorkPcs
<1>8. CASE MarkFailed(r)
  BY <1>2, <1>4, <1>8 DEF MarkFailed, SetState, WorkPcs
<1>9. CASE MarkAppliedByRepair(r) \/ MarkRolledBackByRepair(r)
  <2>1. cur[r] \notin Baseline
    BY <1>9 DEF MarkAppliedByRepair, MarkRolledBackByRepair, BaselineInv, BaselineOf
  <2>. QED
    BY <1>4, <1>9, <2>1 DEF MarkAppliedByRepair, MarkRolledBackByRepair, SetState
<1>10. CASE RemoveRowByRepair(r)
  <2>1. state' = [state EXCEPT ![cur[r]] = "absent"] /\ pc[r] \in {"repair", "repairDelete"}
    BY <1>10 DEF RemoveRowByRepair, DeleteRow, SetState
  <2>2. CASE cur[r] \notin Baseline
    BY <1>1, <1>10, <2>1, <2>2 DEF RemoveRowByRepair, TypeInv, TypeOK
  <2>3. CASE cur[r] \in Baseline
    <3>1. pc[r] = "repair" /\ cmd[r] = "forget"
      BY <2>1, <2>3 DEF BaselineInv, BaselineOf
    <3>2. overridden' = overridden \cup {cur[r]}
      BY <1>10, <3>1 DEF RemoveRowByRepair
    <3>. QED
      BY <2>1, <3>2 DEF BaselineInv, BaselinesStay, IsDirty, Dirty, TypeInv, TypeOK
  <2>. QED
    BY <2>2, <2>3
<1>11. CASE state' = state /\ overridden' = overridden
  BY <1>1, <1>11
<1>. QED
  BY <1>3, <1>5, <1>6, <1>7, <1>8, <1>9, <1>10, <1>11, RowWriters, OverrideWriters

LEMMA BaselineInvStep ==
  TypeInv /\ RepairInv /\ BaselineInv /\ [Next]_vars => BaselineInv'
<1>. SUFFICES ASSUME TypeInv, RepairInv, BaselineInv, [Next]_vars PROVE BaselineInv'
  OBVIOUS
<1>1. ASSUME NEW r \in Runner, Step(r) PROVE BaselineInv'
  <2>1. ASSUME NEW s \in Runner \ {r} PROVE BaselineOf(s)'
    BY <1>1, <2>1, Frame DEF TypeInv, BaselineInv, BaselineOf
  <2>2. file' = file
    BY <1>1
    DEF Step, Return, Run, Start, AcquireLock, LockTimeout, Release, Scan, BuildUpPlan,
        BuildDownPlan, BuildResetPlan, BuildRefreshPlan, BuildPlan, AllocateBatch,
        InsertIntent, VerifyDownChecksums, MarkRollingBack, Verify, ExecSql,
        SqlReleasesLock, Inspect, CleanupSession, ImplicitCommit, MarkApplied, RemoveRow,
        MarkFailed, BuildRepairView, MarkAppliedByRepair, MarkRolledBackByRepair,
        RemoveRowByRepair, Abort, LoseSession, Crash
  <2>. QED
    BY <1>1, <2>1, <2>2, BaselineOwnStep, BaselineRowStep DEF BaselineInv, Directories
<1>2. CASE Environment \/ UNCHANGED vars
  <2>1. ASSUME NEW m \in Editable, EditFile(m) PROVE file' \in Directories
    BY <2>1, BoundAssumption, MigAssumption DEF EditFile, BaselineInv, Directories
  <2>2. file' = file \/ \E m \in Editable : EditFile(m)
    BY <1>2 DEF Environment, Compensate, vars
  <2>3. file' \in Directories
    BY <2>1, <2>2 DEF BaselineInv
  <2>. QED
    BY <1>2, <2>3, EnvironmentFrame DEF BaselineInv, BaselinesStay, BaselineOf
<1>. QED
  BY <1>1, <1>2 DEF Next, Step, Environment

LEMMA BaselineInvHolds == Spec => []BaselineInv
<1>1. Init => BaselineInv
  BY MigAssumption
  DEF Init, BaselineInv, BaselinesStay, BaselineOf, NoFiles, IsDirty, Dirty
<1>. QED
  BY <1>1, TypeInvHolds, RepairInvHolds, BaselineInvStep, PTL DEF Spec

\* No command rolls back a baseline or leaves its row dirty, even if migration
\* SQL gives the lock away; only a forget drops the row.
THEOREM BaselinesStayHolds == Spec => []BaselinesStay
  BY BaselineInvHolds, PTL DEF BaselineInv

-----------------------------------------------------------------------------
(* The order of a rollback.                                                *)

\* LastN of a finite set is its top part.
LEMMA LastNIsTop ==
  ASSUME NEW S, IsFiniteSet(S), NEW f, \A k \in S : f[k] \in Nat, NEW n \in Nat,
         NEW d \in LastN(S, n, f), NEW k \in S \ LastN(S, n, f)
  PROVE  f[k] < f[d]
<1>. DEFINE Above(j) == {i \in S : f[i] > f[j]}
<1>1. \A j \in S : IsFiniteSet(Above(j)) /\ Cardinality(Above(j)) \in Nat
  BY FS_Subset, FS_CardinalityType
<1>2. Cardinality(Above(d)) < n /\ ~(Cardinality(Above(k)) < n) /\ d \in S
  BY DEF LastN
<1>3. ASSUME f[d] <= f[k] PROVE FALSE
  <2>1. Above(k) \in SUBSET Above(d)
    BY <1>2, <1>3
  <2>2. Cardinality(Above(k)) <= Cardinality(Above(d))
    BY <1>1, <1>2, <2>1, FS_Subset
  <2>. QED
    BY <1>1, <1>2, <2>2
<1>. QED
  BY <1>2, <1>3

FiniteInv == IsFiniteSet(Rollbackable(state))

LEMMA FiniteInvStep == TypeInv /\ FiniteInv /\ [Next]_vars => FiniteInv'
<1>. SUFFICES ASSUME TypeInv, FiniteInv, [Next]_vars PROVE FiniteInv'
  OBVIOUS
<1>1. ASSUME NEW m, Rollbackable(state)' \subseteq Rollbackable(state) \cup {m}
      PROVE  FiniteInv'
  BY <1>1, FS_AddElement, FS_Subset DEF FiniteInv
<1>2. ASSUME NEW r \in Runner, Step(r) PROVE FiniteInv'
  <2>1. CASE InsertIntent(r)
    <3>1. PICK m \in up[r] : state' = [state EXCEPT ![m] = "applying"]
      BY <2>1 DEF InsertIntent, SetState
    <3>. QED
      BY <1>1, <3>1 DEF Rollbackable, Rows, TypeInv, TypeOK
  <2>. QED
    BY <1>1, <1>2, <2>1, OldRows DEF TypeInv
<1>3. CASE Environment \/ UNCHANGED vars
  BY <1>3, EnvironmentFrame DEF FiniteInv, Rollbackable, Rows
<1>. QED
  BY <1>2, <1>3 DEF Next, Step, Environment

LEMMA FiniteInvHolds == Spec => []FiniteInv
<1>1. Init => FiniteInv
  <2>. SUFFICES ASSUME Init PROVE FiniteInv
    OBVIOUS
  <2>1. Rollbackable(state) = {}
    BY DEF Init, Rollbackable, Rows
  <2>. QED
    BY <2>1, FS_EmptySet DEF FiniteInv
<1>. QED
  BY <1>1, TypeInvHolds, FiniteInvStep, PTL DEF Spec

LifoOf(r) ==
  Executing(r) =>
    /\ cmd[r] # "down_name" =>
         \A d \in down[r], n \in Rollbackable(state) \ down[r] : rowid[n] < rowid[d]
    /\ pc[r] \in WorkPcs \cup {"markRollingBack"} /\ Rolling(r) =>
         IsLast(cur[r], down[r], rowid)

LifoInv == ~SqlMayReleaseLock => \A r \in Runner : LifoOf(r)

\* What a plan rolls back is above what it leaves.
LEMMA LatestIsTop ==
  ASSUME TypeInv, BatchInv, FiniteInv, NEW D \in SUBSET Rollbackable(state), Latest(D),
         NEW d \in D, NEW n \in Rollbackable(state) \ D
  PROVE  rowid[n] < rowid[d]
<1>. DEFINE R == Rollbackable(state)
            C == DownCandidates(state, batch)
<1>1. /\ IsFiniteSet(R) /\ IsFiniteSet(C) /\ C \subseteq R
      /\ \A k \in R : rowid[k] \in Nat /\ batch[k] \in Nat
  <2>1. C \subseteq R /\ R \subseteq Mig
    BY DEF DownCandidates, Rollbackable, Rows
  <2>. QED
    BY <2>1, FS_Subset DEF FiniteInv, TypeInv, TypeOK
<1>2. ASSUME NEW i \in Limits, D = LastN(R, i, rowid)
      PROVE  rowid[n] < rowid[d]
  BY <1>1, <1>2, OptionAssumption, LastNIsTop
<1>3. ASSUME NEW i \in Limits, D = LastN(C, i, rowid)
      PROVE  rowid[n] < rowid[d]
  <2>1. CASE n \in C
    BY <1>1, <1>3, <2>1, OptionAssumption, LastNIsTop
  <2>2. CASE n \notin C
    <3>1. PICK k \in R : ~(batch[k] <= batch[n])
      BY <2>2 DEF DownCandidates
    <3>2. batch[k] <= batch[d]
      BY <1>3 DEF LastN, DownCandidates
    <3>3. ~(batch[d] <= batch[n])
      BY <1>1, <3>1, <3>2
    <3>4. n # d /\ rowid[n] # rowid[d] /\ ~(rowid[d] < rowid[n])
      BY <3>3 DEF BatchInv, BatchOrder
    <3>. QED
      BY <1>1, <3>4
  <2>. QED
    BY <2>1, <2>2
<1>. QED
  BY <1>2, <1>3 DEF Latest

LEMMA LifoOwnStep ==
  ASSUME TypeInv, LockInv, BatchInv, FiniteInv, LifoInv, ~SqlMayReleaseLock,
         NEW r \in Runner, Step(r)
  PROVE  LifoOf(r)'
<1>. SUFFICES ASSUME Executing(r)' PROVE LifoOf(r)'
  BY DEF LifoOf
<1>. USE DEF TypeInv, TypeOK, LifoInv, LifoOf, Goto, Rolling, rows, plan
<1>1. CASE PlanMade(r)
  <2>1. PICK D, U : /\ BuildPlan(r, D, U)
                    /\ D \subseteq Rollbackable(state)
                    /\ cmd[r] # "down_name" => Latest(D)
    BY <1>1, PlanWays
  <2>2. /\ pc'[r] = NextPc(r, D, U) /\ down'[r] = D
        /\ UNCHANGED <<state, rowid, cmd>>
    BY <2>1 DEF BuildPlan
  <2>3. cmd[r] # "down_name" => \A d \in D, n \in Rollbackable(state) \ D : rowid[n] < rowid[d]
    BY <2>1, LatestIsTop
  <2>. HIDE DEF TypeInv, TypeOK
  <2>. QED
    BY <2>2, <2>3 DEF NextPc, WorkPcs
<1>2. CASE AllocateBatch(r)
  BY <1>2 DEF AllocateBatch, Acknowledged, Executing, PlanPoints, BetweenPcs, WorkPcs, Live
<1>3. CASE InsertIntent(r)
  <2>1. down[r] = {} /\ down' = down
    BY <1>3 DEF InsertIntent, PlanInv, PlanOf, ForwardPcs
  <2>. QED
    BY <2>1
<1>4. CASE VerifyDownChecksums(r)
  <2>1. Executing(r)
    BY <1>4 DEF VerifyDownChecksums, Executing, PlanPoints, BetweenPcs
  <2>. QED
    BY <1>4, <2>1 DEF VerifyDownChecksums
<1>5. CASE MarkRollingBack(r) \/ MarkApplied(r) \/ RemoveRow(r) \/ WorkStep(r)
  <2>1. Executing(r) /\ cmd' = cmd
    BY <1>5 DEF MarkRollingBack, MarkApplied, RemoveRow, WorkStep, Executing, PlanPoints,
       BetweenPcs, WorkPcs, Live
  <2>2. /\ Rollbackable(state)' \subseteq Rollbackable(state)
        /\ \A m \in Rollbackable(state)' : rowid'[m] = rowid[m]
    BY <1>5, OldRows DEF InsertIntent, MarkRollingBack, MarkApplied, RemoveRow, WorkStep,
       WorkPcs
  <2>3. CASE MarkRollingBack(r)
    BY <2>1, <2>2, <2>3 DEF MarkRollingBack
  <2>4. CASE MarkApplied(r)
    <3>1. down'[r] = down[r] /\ rowid' = rowid
      BY <2>4 DEF MarkApplied, Advance
    <3>2. pc'[r] \notin WorkPcs \cup {"markRollingBack"}
      BY <2>4 DEF MarkApplied, Advance, NextPc, Acknowledged, WorkPcs
    <3>. QED
      BY <2>1, <2>2, <3>1, <3>2
  <2>5. CASE RemoveRow(r)
    <3>1. /\ down'[r] = down[r] \ {cur[r]} /\ cur[r] \in Mig
          /\ state' = [state EXCEPT ![cur[r]] = "absent"]
          /\ rowid' = [rowid EXCEPT ![cur[r]] = 0]
      BY <2>5 DEF RemoveRow, DeleteRow, SetState, Advance
    <3>2. pc'[r] \notin WorkPcs \cup {"markRollingBack"}
      BY <2>5 DEF RemoveRow, Advance, NextPc, Acknowledged, WorkPcs
    <3>3. cur[r] \notin Rollbackable(state)'
      BY <3>1 DEF Rollbackable, Rows
    <3>. QED
      BY <2>1, <2>2, <3>1, <3>2, <3>3
  <2>6. CASE WorkStep(r)
    BY <2>1, <2>2, <2>6 DEF WorkStep
  <2>. QED
    BY <1>5, <2>3, <2>4, <2>5, <2>6
<1>. QED
  BY <1>1, <1>2, <1>3, <1>4, <1>5, ExecutingSteps

LEMMA LifoInvStep ==
  TypeInv /\ LockInv /\ BatchInv /\ FiniteInv /\ LifoInv /\ [Next]_vars => LifoInv'
<1>. SUFFICES ASSUME TypeInv, LockInv, BatchInv, FiniteInv, LifoInv, ~SqlMayReleaseLock,
                     [Next]_vars
              PROVE  \A r \in Runner : LifoOf(r)'
  BY DEF LifoInv
<1>1. ASSUME NEW r \in Runner, Step(r), NEW s \in Runner PROVE LifoOf(s)'
  <2>1. CASE s = r
    BY <1>1, <2>1, LifoOwnStep
  <2>2. CASE s # r /\ Executing(s)'
    <3>1. Live(s)' /\ pc'[s] \notin {"idle", "lock", "release"}
      BY <2>2 DEF Executing, PlanPoints, BetweenPcs, WorkPcs
    <3>2. /\ UNCHANGED <<state, rowid>>
          /\ <<pc[s], cmd[s], sess[s], down[s], cur[s]>>'
               = <<pc[s], cmd[s], sess[s], down[s], cur[s]>>
      BY <1>1, <2>2, <3>1, Bystander
    <3>. QED
      BY <3>2 DEF LifoInv, LifoOf, Executing, Live, Rolling, IsLast, Rollbackable, Rows
  <2>. QED
    BY <2>1, <2>2 DEF LifoOf
<1>2. CASE Environment \/ UNCHANGED vars
  BY <1>2, EnvironmentFrame
  DEF LifoInv, LifoOf, Executing, Live, Rolling, IsLast, Rollbackable, Rows
<1>. QED
  BY <1>1, <1>2 DEF Next, Step, Environment

LEMMA LifoInvHolds == Spec => []LifoInv
<1>1. Init => LifoInv
  BY DEF Init, LifoInv, LifoOf, Executing, Live
<1>. QED
  BY <1>1, TypeInvHolds, LockInvHolds, BatchInvHolds, FiniteInvHolds, LifoInvStep, PTL
  DEF Spec

\* With trusted SQL, what is rolled back is the migration executed last of all
\* that are applied, whatever was planned; but for a rollback by name.
THEOREM RollbackIsLifoHolds == Spec => []RollbackIsLifo
<1>1. TypeInv /\ LifoInv => RollbackIsLifo
  <2>. SUFFICES ASSUME TypeInv, LifoInv, ~SqlMayReleaseLock, NEW r \in Runner, Live(r),
                       pc[r] = "exec", Rolling(r), cmd[r] # "down_name",
                       NEW n \in Rollbackable(state)
                PROVE  rowid[n] <= rowid[cur[r]]
    BY DEF RollbackIsLifo
  <2>1. LifoOf(r) /\ Executing(r) /\ pc[r] \in WorkPcs
    BY DEF LifoInv, Executing, PlanPoints, WorkPcs
  <2>2. CASE n \in down[r]
    BY <2>1, <2>2 DEF LifoOf, IsLast
  <2>3. CASE n \notin down[r]
    <3>1. rowid[n] < rowid[cur[r]] /\ rowid[n] \in Nat /\ rowid[cur[r]] \in Nat
      BY <2>1, <2>3 DEF LifoOf, Rolling, TypeInv, TypeOK, Rollbackable, Rows
    <3>. QED
      BY <3>1
  <2>. QED
    BY <2>2, <2>3
<1>. QED
  BY <1>1, TypeInvHolds, LifoInvHolds, PTL

-----------------------------------------------------------------------------
(* What drift blocks.                                                      *)

\* The row agrees with the scan, as far as the options want it to.
Agrees(r, n) ==
  IF scan[r][n] = Missing THEN IgnoreMissingSource
                          ELSE IgnoreChecksumDrift \/ scan[r][n] = sum[n]

DriftOf(r) ==
  Executing(r) =>
    /\ pc[r] = "allocateBatch" => myBatch[r] = 0
    /\ \A n \in Rollbackable(state) : batch[n] = myBatch[r] \/ Agrees(r, n)

DriftInv == ~SqlMayReleaseLock => \A r \in Runner : DriftOf(r)

LEMMA DriftOwnStep ==
  ASSUME TypeInv, BatchInv, DriftInv, ~SqlMayReleaseLock, NEW r \in Runner, Step(r)
  PROVE  DriftOf(r)'
<1>. SUFFICES ASSUME Executing(r)' PROVE DriftOf(r)'
  BY DEF DriftOf
<1>. USE DEF TypeInv, TypeOK, DriftInv, DriftOf, Goto, rows, plan
<1>1. CASE PlanMade(r)
  <2>1. PICK D, U : BuildPlan(r, D, U)
    BY <1>1, PlanWays
  <2>2. \A n \in Rollbackable(state) : Agrees(r, n)
    BY <2>1 DEF BuildPlan, GlobalDriftCheck, Agrees, Rollbackable
  <2>3. pc'[r] = NextPc(r, D, U) /\ UNCHANGED <<state, batch, sum, scan, myBatch>>
    BY <2>1 DEF BuildPlan
  <2>. QED
    BY <2>2, <2>3 DEF NextPc, Agrees, Rollbackable, Rows
<1>2. CASE AllocateBatch(r)
  <2>1. Executing(r) /\ myBatch[r] = 0
    BY <1>2 DEF AllocateBatch, Executing, PlanPoints, BetweenPcs, Live
  <2>2. \A n \in Rollbackable(state) : Agrees(r, n)
    BY <2>1 DEF BatchInv, BatchOrder
  <2>3. pc'[r] # "allocateBatch" /\ UNCHANGED <<state, batch, sum, scan>>
    BY <1>2 DEF AllocateBatch, Acknowledged
  <2>. QED
    BY <2>2, <2>3 DEF Agrees, Rollbackable, Rows
<1>3. CASE InsertIntent(r)
  <2>1. PICK m \in up[r] : /\ state' = [state EXCEPT ![m] = "applying"]
                           /\ sum' = [sum EXCEPT ![m] = bytes[r][m]]
                           /\ batch' = [batch EXCEPT ![m] = myBatch[r]]
    BY <1>3 DEF InsertIntent, SetState
  <2>2. Executing(r) /\ m \in Mig /\ pc'[r] # "allocateBatch" /\ UNCHANGED <<scan, myBatch>>
    BY <1>3 DEF InsertIntent, Acknowledged, Executing, PlanPoints, BetweenPcs, Live
  <2>3. ASSUME NEW n \in Rollbackable(state)'
        PROVE  batch'[n] = myBatch'[r] \/ Agrees(r, n)'
    <3>1. CASE n = m
      BY <2>1, <2>2, <3>1
    <3>2. CASE n # m
      BY <2>1, <2>2, <2>3, <3>2 DEF Agrees, Rollbackable, Rows
    <3>. QED
      BY <3>1, <3>2
  <2>. QED
    BY <2>2, <2>3
<1>4. CASE \/ VerifyDownChecksums(r) \/ MarkRollingBack(r) \/ MarkApplied(r)
           \/ RemoveRow(r) \/ WorkStep(r)
  <2>1. Executing(r) /\ UNCHANGED <<scan, myBatch>>
    BY <1>4 DEF VerifyDownChecksums, MarkRollingBack, MarkApplied, RemoveRow, Advance,
       WorkStep, Executing, PlanPoints, BetweenPcs, WorkPcs, Live
  <2>2. pc'[r] = "allocateBatch" => myBatch[r] = 0
    BY <1>4 DEF VerifyDownChecksums, MarkRollingBack, MarkApplied, RemoveRow, Advance,
       NextPc, Acknowledged, WorkStep, WorkPcs
  <2>3. /\ Rollbackable(state)' \subseteq Rollbackable(state)
        /\ \A n \in Rollbackable(state)' : batch'[n] = batch[n] /\ sum'[n] = sum[n]
    BY <1>4, OldRows DEF InsertIntent, VerifyDownChecksums, MarkRollingBack, MarkApplied,
       RemoveRow, WorkStep, WorkPcs
  <2>. QED
    BY <2>1, <2>2, <2>3 DEF Agrees
<1>. QED
  BY <1>1, <1>2, <1>3, <1>4, ExecutingSteps

LEMMA DriftInvStep == TypeInv /\ LockInv /\ BatchInv /\ DriftInv /\ [Next]_vars => DriftInv'
<1>. SUFFICES ASSUME TypeInv, LockInv, BatchInv, DriftInv, ~SqlMayReleaseLock, [Next]_vars
              PROVE  \A r \in Runner : DriftOf(r)'
  BY DEF DriftInv
<1>1. ASSUME NEW r \in Runner, Step(r), NEW s \in Runner PROVE DriftOf(s)'
  <2>1. CASE s = r
    BY <1>1, <2>1, DriftOwnStep
  <2>2. CASE s # r /\ Executing(s)'
    <3>1. Live(s)' /\ pc'[s] \notin {"idle", "lock", "release"}
      BY <2>2 DEF Executing, PlanPoints, BetweenPcs, WorkPcs
    <3>2. /\ UNCHANGED <<state, batch, sum>>
          /\ <<pc[s], sess[s], scan[s], myBatch[s]>>' = <<pc[s], sess[s], scan[s], myBatch[s]>>
      BY <1>1, <2>2, <3>1, Bystander
    <3>. QED
      BY <3>2 DEF DriftInv, DriftOf, Executing, Live, Agrees, Rollbackable, Rows
  <2>. QED
    BY <2>1, <2>2 DEF DriftOf
<1>2. CASE Environment \/ UNCHANGED vars
  BY <1>2, EnvironmentFrame
  DEF DriftInv, DriftOf, Executing, Live, Agrees, Rollbackable, Rows
<1>. QED
  BY <1>1, <1>2 DEF Next, Step, Environment

LEMMA DriftInvHolds == Spec => []DriftInv
<1>1. Init => DriftInv
  BY DEF Init, DriftInv, DriftOf, Executing, Live
<1>. QED
  BY <1>1, TypeInvHolds, LockInvHolds, BatchInvHolds, DriftInvStep, PTL DEF Spec

\* With trusted SQL, migration SQL runs only while every row that was there
\* before the command agrees with the directory it scanned, files edited
\* meanwhile or not.
THEOREM DriftBlocksSqlHolds == Spec => []DriftBlocksSql
<1>1. DriftInv => DriftBlocksSql
  BY DEF DriftInv, DriftOf, DriftBlocksSql, Executing, PlanPoints, WorkPcs, Agrees
<1>. QED
  BY <1>1, DriftInvHolds, PTL
=============================================================================
