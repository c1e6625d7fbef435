---------------------------- MODULE LedgerProofs ----------------------------
(***************************************************************************)
(* Migrator implements Ledger: forget the runners, and every step of the   *)
(* execution protocol is a step of the ledger or changes nothing of it.    *)
(* One lemma per step of the ledger names the steps that implement it.     *)
(***************************************************************************)
EXTENDS PlanProofs

Invariants ==
  TypeInv /\ LockInv /\ DirtyInv /\ RecordedInv /\ TruthInv /\ RepairInv /\ BaselineInv

-----------------------------------------------------------------------------
(* The row of a migration in work says exactly in which direction: that an *)
(* attempt failed is written by the step that ends it.                     *)

ExactOf(r) ==
  Live(r) /\ pc[r] \in WorkPcs =>
    state[cur[r]] = IF Rolling(r) THEN "rolling_back" ELSE "applying"

ExactInv == ~SqlMayReleaseLock => \A r \in Runner : ExactOf(r)

LEMMA ExactOwnStep ==
  ASSUME TypeInv, ExactInv, ~SqlMayReleaseLock, NEW r \in Runner, Step(r)
  PROVE  ExactOf(r)'
<1>. SUFFICES ASSUME Live(r)', pc'[r] \in WorkPcs PROVE ExactOf(r)'
  BY DEF ExactOf
<1>. USE DEF TypeInv, TypeOK, PlanInv, PlanOf, ExactInv, ExactOf, Rolling, Goto, rows, plan
<1>1. CASE PlanMade(r)
  <2>1. PICK D, U : BuildPlan(r, D, U)
    BY <1>1, PlanWays
  <2>2. pc'[r] = NextPc(r, D, U)
    BY <2>1 DEF BuildPlan
  <2>. QED
    BY <2>2 DEF NextPc, WorkPcs
<1>2. CASE AllocateBatch(r) \/ VerifyDownChecksums(r)
  BY <1>2 DEF AllocateBatch, VerifyDownChecksums, Acknowledged, WorkPcs
<1>3. CASE InsertIntent(r)
  BY <1>3 DEF InsertIntent, SetState, ForwardPcs
<1>4. CASE MarkRollingBack(r)
  BY <1>4 DEF MarkRollingBack, SetState
<1>5. CASE MarkApplied(r) \/ RemoveRow(r)
  BY <1>5 DEF MarkApplied, RemoveRow, Advance, NextPc, Acknowledged, WorkPcs
<1>6. CASE WorkStep(r)
  BY <1>6 DEF WorkStep
<1>7. Executing(r)'
  BY DEF Executing, PlanPoints
<1>. QED
  BY <1>1, <1>2, <1>3, <1>4, <1>5, <1>6, <1>7, ExecutingSteps

LEMMA ExactInvStep == TypeInv /\ LockInv /\ ExactInv /\ [Next]_vars => ExactInv'
<1>. SUFFICES ASSUME TypeInv, LockInv, ExactInv, ~SqlMayReleaseLock, [Next]_vars
              PROVE  \A r \in Runner : ExactOf(r)'
  BY DEF ExactInv
<1>1. ASSUME NEW r \in Runner, Step(r), NEW s \in Runner PROVE ExactOf(s)'
  <2>1. CASE s = r
    BY <1>1, <2>1, ExactOwnStep
  <2>2. CASE s # r /\ Live(s)' /\ pc'[s] \in WorkPcs
    <3>1. /\ state' = state
          /\ <<pc[s], sess[s], down[s], cur[s]>>' = <<pc[s], sess[s], down[s], cur[s]>>
      BY <1>1, <2>2, Bystander DEF WorkPcs
    <3>. QED
      BY <3>1 DEF ExactInv, ExactOf, Live, Rolling
  <2>. QED
    BY <2>1, <2>2 DEF ExactOf
<1>2. CASE Environment \/ UNCHANGED vars
  BY <1>2, EnvironmentFrame DEF ExactInv, ExactOf, Live, Rolling
<1>. QED
  BY <1>1, <1>2 DEF Next, Step, Environment

LEMMA ExactInvHolds == Spec => []ExactInv
<1>1. Init => ExactInv
  BY DEF Init, ExactInv, ExactOf, Live
<1>. QED
  BY <1>1, TypeInvHolds, LockInvHolds, ExactInvStep, PTL DEF Spec

-----------------------------------------------------------------------------
(* Steps of the ledger.                                                    *)

\* The intent row begins an application.
LEMMA ImplementsBeginApply ==
  ASSUME Trust, Invariants, NEW r \in Runner, InsertIntent(r)
  PROVE  \E m \in Mig : L!BeginApply(m)
<1>1. Quiet
  BY TrustedHolder
  DEF Invariants, Trust, InsertIntent, DirtyInv, DirtyOf, BetweenPcs
<1>2. PICK m \in up[r] : /\ state[m] = "absent"
                         /\ state' = [state EXCEPT ![m] = "applying"]
                         /\ sum' = [sum EXCEPT ![m] = bytes[r][m]]
  BY DEF InsertIntent, SetState
<1>3. m \in Mig /\ bytes[r][m] \in Content
  BY DEF Invariants, TypeInv, TypeOK, PlanInv, PlanOf
<1>4. UNCHANGED <<schema, overridden>>
  BY DEF InsertIntent
<1>. QED
  BY <1>1, <1>2, <1>3, <1>4 DEF L!BeginApply, L!Quiet, L!Dirty, L!ApplyDirty,
     L!RollbackDirty, Quiet, IsDirty, Dirty

\* Marking a row as being rolled back begins a rollback, and never of a baseline.
LEMMA ImplementsBeginRollback ==
  ASSUME Trust, Invariants, NEW r \in Runner, MarkRollingBack(r)
  PROVE  cur[r] \in Mig /\ L!BeginRollback(cur[r])
<1>1. Quiet
  BY TrustedHolder
  DEF Invariants, Trust, MarkRollingBack, DirtyInv, DirtyOf, BetweenPcs
<1>2. cur[r] \in down[r] /\ cur[r] \in Mig /\ cur[r] \notin Baseline
  BY DEF Invariants, MarkRollingBack, TypeInv, TypeOK, PlanInv, PlanOf, Rolling, BaselineInv,
     BaselineOf
<1>3. /\ state[cur[r]] = "applied"
      /\ state' = [state EXCEPT ![cur[r]] = "rolling_back"]
      /\ UNCHANGED <<sum, schema, overridden>>
  BY DEF MarkRollingBack, SetState
<1>. QED
  BY <1>1, <1>2, <1>3 DEF L!BeginRollback, L!Become, L!Quiet, L!Dirty, L!ApplyDirty,
     L!RollbackDirty, Quiet, IsDirty, Dirty

\* Whatever runs, resumes or cuts short migration SQL is a change under a dirty row.
LEMMA ImplementsChange ==
  ASSUME Trust, Invariants, NEW r \in Runner, Step(r), schema' # schema
  PROVE  cur[r] \in Mig /\ L!Change(cur[r])
<1>1. /\ Live(r) /\ pc[r] \in WorkPcs
      /\ \E e \in Effect : schema' = [schema EXCEPT ![cur[r]] = e]
      /\ UNCHANGED <<state, sum, overridden>>
  BY SchemaWriters DEF Invariants, WorkPcs
<1>2. cur[r] \in Mig /\ IsDirty(state[cur[r]])
  BY <1>1, WorkIsDirty DEF Invariants, Trust
<1>. QED
  BY <1>1, <1>2 DEF L!Change, L!Dirty, L!ApplyDirty, L!RollbackDirty, L!Effect, L!NoEffect,
     Effect, NoEffect, Partial, IsDirty, Dirty

\* So is what an operator does by hand.
LEMMA CompensateIsChange ==
  ASSUME Invariants, NEW m \in Mig, Compensate(m)
  PROVE  L!Change(m)
<1>1. sum[m] \in Effect /\ IsDirty(state[m])
  BY DEF Invariants, Compensate, TypeInv, SumInv, Rows, IsDirty, Dirty, Effect
<1>. QED
  BY <1>1 DEF Compensate, rows, L!Change, L!Dirty, L!ApplyDirty, L!RollbackDirty, L!Effect,
     L!NoEffect, Effect, NoEffect, Partial, IsDirty, Dirty

\* A migration is recorded as applied when the schema has what was recorded.
LEMMA ImplementsApplied ==
  ASSUME Trust, Invariants, NEW r \in Runner, MarkApplied(r)
  PROVE  cur[r] \in Mig /\ L!Applied(cur[r])
<1>1. Live(r) /\ pc[r] \in WorkPcs /\ pc[r] = "markDone" /\ sess[r] = "clean" /\ ~Rolling(r)
  BY DEF MarkApplied, Live, WorkPcs
<1>2. cur[r] \in Mig
  BY <1>1 DEF Invariants, TypeInv, TypeOK, PlanInv, PlanOf
<1>3. schema[cur[r]] = sum[cur[r]]
  BY <1>1 DEF Invariants, Trust, TruthInv, TruthOf, DoneSchema, RecordedInv, Recorded
<1>. QED
  BY <1>2, <1>3 DEF MarkApplied, SetState, L!Applied, L!Become

\* A row is removed when its rollback has undone everything.
LEMMA ImplementsRolledBack ==
  ASSUME Trust, Invariants, ExactInv, NEW r \in Runner, RemoveRow(r)
  PROVE  cur[r] \in Mig /\ L!RolledBack(cur[r])
<1>1. Live(r) /\ pc[r] \in WorkPcs /\ pc[r] = "markDone" /\ sess[r] = "clean" /\ Rolling(r)
  BY DEF RemoveRow, Live, WorkPcs
<1>2. cur[r] \in Mig
  BY <1>1 DEF Invariants, TypeInv, TypeOK, PlanInv, PlanOf
<1>3. schema[cur[r]] = NoEffect
  BY <1>1 DEF Invariants, Trust, TruthInv, TruthOf, DoneSchema
<1>4. state[cur[r]] = "rolling_back"
  BY <1>1 DEF Trust, ExactInv, ExactOf
<1>. QED
  BY <1>2, <1>3, <1>4
  DEF RemoveRow, DeleteRow, SetState, Missing, NoEffect, L!RolledBack, L!Become, L!NoEffect

\* The failure of an attempt is recorded as one.
LEMMA ImplementsFailed ==
  ASSUME Invariants, NEW r \in Runner, MarkFailed(r)
  PROVE  cur[r] \in Mig /\ L!Failed(cur[r])
<1>1. cur[r] \in Mig
  BY DEF Invariants, MarkFailed, TypeInv, TypeOK, PlanInv, PlanOf, WorkPcs
<1>. QED
  BY <1>1 DEF MarkFailed, SetState, L!Failed, L!Become

\* Repairs settle or override.
LEMMA RepairedMig ==
  ASSUME Invariants, NEW r \in Runner, pc[r] \in RepairPcs
  PROVE  cur[r] \in Mig
  BY DEF Invariants, TypeInv, TypeOK, PlanInv, PlanOf

LEMMA ImplementsSettle ==
  ASSUME Trust, Invariants, NEW r \in Runner, MarkAppliedByRepair(r)
  PROVE  cur[r] \in Mig /\ L!Settle(cur[r])
<1>1. cur[r] \in Mig
  BY RepairedMig DEF MarkAppliedByRepair, RepairPcs
<1>2. schema[cur[r]] = sum[cur[r]]
  BY DEF MarkAppliedByRepair, Invariants, Trust, TruthInv, TruthOf, SqlRepairs, OperatorSaw
<1>. QED
  BY <1>1, <1>2 DEF MarkAppliedByRepair, SetState, L!Settle, L!Become, L!ApplyDirty

LEMMA ImplementsOverride ==
  ASSUME Invariants, NEW r \in Runner, MarkRolledBackByRepair(r)
  PROVE  cur[r] \in Mig /\ L!Override(cur[r])
<1>1. cur[r] \in Mig
  BY RepairedMig DEF MarkRolledBackByRepair, RepairPcs
<1>. QED
  BY <1>1 DEF MarkRolledBackByRepair, SetState, L!Override, L!Become, L!RollbackDirty

LEMMA ImplementsRemoval ==
  ASSUME Trust, Invariants, NEW r \in Runner, RemoveRowByRepair(r)
  PROVE  cur[r] \in Mig /\ (L!Settle(cur[r]) \/ L!Override(cur[r]))
<1>. DEFINE m == cur[r]
<1>1. m \in Mig
  BY RepairedMig DEF RemoveRowByRepair, RepairPcs
<1>2. /\ state' = [state EXCEPT ![m] = "absent"] /\ sum' = [sum EXCEPT ![m] = "missing"]
      /\ UNCHANGED schema
      /\ Live(r)
  BY DEF RemoveRowByRepair, DeleteRow, SetState, Missing
<1>3. L!Become(m, "absent") /\ state'[m] = "absent"
  BY <1>1, <1>2 DEF L!Become, Invariants, TypeInv, TypeOK
<1>4. CASE pc[r] = "repairDelete"
  <2>1. overridden' = overridden \ {m}
    BY <1>4 DEF RemoveRowByRepair
  <2>2. state[m] = "applied" /\ schema[m] = "none"
    BY <1>2, <1>4
    DEF Invariants, Trust, RepairInv, RepairOf, TruthInv, TruthOf, NoEffect
  <2>. QED
    BY <1>1, <1>3, <2>1, <2>2 DEF L!Override, L!NoEffect
<1>5. CASE pc[r] = "repair" /\ cmd[r] = "remove-failed"
  <2>1. IsDirty(state[m])
    BY <1>2, <1>5 DEF Invariants, Trust, RepairInv, RepairOf, RepairAllows
  <2>2. CASE state[m] \in {"applying", "apply_failed"}
    <3>1. schema[m] = "none" /\ overridden' = overridden
      BY <1>2, <1>5, <2>2 DEF RemoveRowByRepair, Invariants, Trust, TruthInv, TruthOf,
         SqlRepairs, OperatorSaw, NoEffect
    <3>. QED
      BY <1>1, <1>3, <2>2, <3>1 DEF L!Settle, L!ApplyDirty, L!NoEffect
  <2>3. CASE state[m] \notin {"applying", "apply_failed"}
    <3>1. state[m] \in {"rolling_back", "rollback_failed"}
      BY <2>1, <2>3 DEF IsDirty, Dirty
    <3>2. overridden' = overridden \cup {m}
      BY <1>5, <3>1 DEF RemoveRowByRepair
    <3>. QED
      BY <1>1, <1>3, <3>1, <3>2 DEF L!Override, L!RollbackDirty
  <2>. QED
    BY <2>2, <2>3
<1>6. CASE pc[r] = "repair" /\ cmd[r] = "forget"
  <2>1. state[m] = "applied" /\ overridden' = overridden \cup {m}
    BY <1>6 DEF RemoveRowByRepair
  <2>. QED
    BY <1>1, <1>3, <2>1 DEF L!Override
<1>. QED
  BY <1>4, <1>5, <1>6 DEF RemoveRowByRepair

-----------------------------------------------------------------------------
(* The refinement.                                                         *)

LEMMA LedgerInit == Init => L!Init
  BY DEF Init, L!Init, L!NoEffect, NoEffect, Missing

LEMMA LedgerStep ==
  Trust /\ Invariants /\ ExactInv /\ [Next]_vars => [L!Next]_(L!vars)
<1>. SUFFICES ASSUME Trust, Invariants, ExactInv, [Next]_vars
              PROVE  L!Next \/ UNCHANGED <<state, sum, schema, overridden>>
  BY DEF L!vars
<1>1. ASSUME NEW r \in Runner, Step(r)
      PROVE  L!Next \/ UNCHANGED <<state, sum, schema, overridden>>
  <2>1. CASE schema' # schema
    BY <1>1, <2>1, ImplementsChange DEF L!Next
  <2>2. CASE InsertIntent(r)
    BY <2>2, ImplementsBeginApply DEF L!Next
  <2>3. CASE MarkRollingBack(r)
    BY <2>3, ImplementsBeginRollback DEF L!Next
  <2>4. CASE MarkApplied(r)
    BY <2>4, ImplementsApplied DEF L!Next
  <2>5. CASE RemoveRow(r)
    BY <2>5, ImplementsRolledBack DEF L!Next
  <2>6. CASE MarkFailed(r)
    BY <2>6, ImplementsFailed DEF L!Next
  <2>7. CASE MarkAppliedByRepair(r)
    BY <2>7, ImplementsSettle DEF L!Next
  <2>8. CASE MarkRolledBackByRepair(r)
    BY <2>8, ImplementsOverride DEF L!Next
  <2>9. CASE RemoveRowByRepair(r)
    BY <2>9, ImplementsRemoval DEF L!Next
  <2>. QED
    BY <1>1, <2>1, <2>2, <2>3, <2>4, <2>5, <2>6, <2>7, <2>8, <2>9, RowWriters,
       OverrideWriters
<1>2. ASSUME NEW m \in Mig, Compensate(m) PROVE L!Next
  BY <1>2, CompensateIsChange DEF L!Next
<1>3. ASSUME NEW m, EditFile(m) PROVE UNCHANGED <<state, sum, schema, overridden>>
  BY <1>3 DEF EditFile, rows
<1>. QED
  BY <1>1, <1>2, <1>3 DEF Next, Step, vars

\* Whoever runs, fails, crashes or repairs, the table and the schema behave as
\* the ledger: one migration in flight, the schema changed only under a row that
\* says so, rows that turn clean only when the schema agrees or an operator
\* decides; given that SQL, operators and options deserve the trust.
THEOREM ImplementsLedger == Trust => (Spec => LedgerSpec)
<1>. SUFFICES ASSUME Trust PROVE Spec => LedgerSpec
  OBVIOUS
<1>1. Invariants /\ ExactInv /\ [Next]_vars => [L!Next]_(L!vars)
  BY LedgerStep
<1>2. Spec => []Invariants
  BY TypeInvHolds, LockInvHolds, DirtyInvHolds, RecordedInvHolds, TruthInvHolds,
     RepairInvHolds, BaselineInvHolds, PTL DEF Invariants
<1>. QED
  BY <1>1, <1>2, ExactInvHolds, LedgerInit, PTL DEF Spec, LedgerSpec, L!Spec
=============================================================================
