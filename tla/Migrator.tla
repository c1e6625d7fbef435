------------------------------ MODULE Migrator ------------------------------
(***************************************************************************)
(* The execution protocol of lamigrate: several runners (processes that    *)
(* use the library or the CLI) run up, down, reset, refresh and repair     *)
(* against one tracking table of one MySQL database, each on a session of  *)
(* its own, under one advisory lock.                                       *)
(*                                                                         *)
(* Every statement a runner sends is one step.  It may fail, its           *)
(* acknowledgement may be lost, the server may end the session, and the    *)
(* process may die between any two steps.  Migration SQL is not atomic:    *)
(* it takes effect between the step that finds the intent row durable      *)
(* (Verify) and the one that records the outcome.                          *)
(*                                                                         *)
(* Not here: creating the metadata tables, which every command does before *)
(* (Init is an initialised scope), adoption and import.                    *)
(***************************************************************************)
EXTENDS Planner

CONSTANTS
  Runner,               \* processes that use the tracking table
  Commands,             \* the commands they may start
  PerfSchema,           \* may the user read performance_schema?
  SqlMayReleaseLock,    \* may migration SQL break the trusted-SQL contract?
  InspectionIsCurrent,  \* does what an operator inspected still hold when the
                        \* repair it led to has the lock?
  Editable,             \* bound: the migrations whose files are edited meanwhile
  MaxId,                \* bound: ids the AUTO_INCREMENT column hands out
  MaxBatch              \* bound: batches the control row hands out

RepairCommands == {"mark-applied", "mark-rolled-back", "remove-failed", "forget"}
PlanCommands == {"up", "down", "down_name", "reset", "refresh", "refresh_name"}

ASSUME CommandAssumption == Commands \subseteq PlanCommands \cup RepairCommands
ASSUME RunnerAssumption == "free" \notin Runner
ASSUME EnvironmentAssumption ==
  {PerfSchema, SqlMayReleaseLock, InspectionIsCurrent} \subseteq BOOLEAN
ASSUME BoundAssumption ==
  Editable \subseteq Mig \ Baseline /\ MaxId \in Nat /\ MaxBatch \in Nat

Free == "free"            \* nobody holds the advisory lock
NoMig == 0                \* no migration is being worked on
NoEffect == "none"        \* the schema does not have the migration
Partial == "partial"      \* the schema has some of its statements' effects
Effect == Content \cup {NoEffect, Partial}

VARIABLES
  \* the metadata tables
  state,        \* column state of a migration's row, "absent" without a row
  batch,        \* column batch
  rowid,        \* column id; baselines keep 0, their order is never used
  sum,          \* columns up_checksum and down_checksum
  nextBatch,    \* next_batch of the control row
  nextId,       \* the AUTO_INCREMENT counter of the table
  \* the rest of the database and the migration directory
  schema,       \* whose SQL the database schema shows, for each migration
  lockOwner,    \* the session that holds the advisory lock
  file,         \* the pair of files of each migration
  \* the runners
  pc,           \* where a runner is
  cmd,          \* the command it runs
  sess,         \* the condition of its session
  scan,         \* the checksums its scan of the directory computed
  bytes,        \* the file contents its plan retains
  down,         \* migrations its plan has yet to roll back
  up,           \* migrations its plan has yet to apply
  cur,          \* the migration it works on
  myBatch,      \* the batch allocated to this invocation, 0 before
  \* history
  overridden    \* migrations whose row a repair made differ from the schema

rows == <<state, batch, rowid, sum, nextId>>
plan == <<scan, bytes, down, up>>
vars == <<state, batch, rowid, sum, nextBatch, nextId, schema, lockOwner, file,
          pc, cmd, sess, scan, bytes, down, up, cur, myBatch, overridden>>

PlanPcs == {"scan", "plan"}
BetweenPcs == {"allocateBatch", "insertIntent", "verifyDownChecksums", "markRollingBack"}
OutcomePcs == {"inspect", "cleanup", "markFailed"}
RepairPcs == {"view", "repair", "repairDelete"}
Pcs == {"idle", "lock", "release", "verify", "exec", "markDone"}
         \cup PlanPcs \cup BetweenPcs \cup OutcomePcs \cup RepairPcs

SqlAftermath == {"clean", "opentx", "noautocommit", "wrongdb"}
SessionState == SqlAftermath \cup {"closed", "lost"}

NoFiles == [m \in Mig |-> Missing]

TypeOK ==
  /\ state \in [Mig -> RowState]
  /\ batch \in [Mig -> Nat]
  /\ rowid \in [Mig -> Nat]
  /\ sum \in [Mig -> Content \cup {Missing}]
  /\ nextBatch \in Nat
  /\ nextId \in Nat
  /\ schema \in [Mig -> Effect]
  /\ lockOwner \in Runner \cup {Free}
  /\ file \in [Mig -> Content \cup {Missing}]
  /\ pc \in [Runner -> Pcs]
  /\ cmd \in [Runner -> PlanCommands \cup RepairCommands \cup {"none"}]
  /\ sess \in [Runner -> SessionState]
  /\ scan \in [Runner -> [Mig -> Content \cup {Missing}]]
  /\ bytes \in [Runner -> [Mig -> Content \cup {Missing}]]
  /\ down \in [Runner -> SUBSET Mig]
  /\ up \in [Runner -> SUBSET Mig]
  /\ cur \in [Runner -> Mig \cup {NoMig}]
  /\ myBatch \in [Runner -> Nat]
  /\ overridden \subseteq Mig

\* A baseline has a name that no file of this directory can have.
Directories == {f \in [Mig -> Content \cup {Missing}] : \A m \in Baseline : f[m] = Missing}

Init ==
  /\ \E c \in Content :
       /\ sum = [m \in Mig |-> IF m \in Baseline THEN c ELSE Missing]
       /\ schema = [m \in Mig |-> IF m \in Baseline THEN c ELSE NoEffect]
  /\ state = [m \in Mig |-> IF m \in Baseline THEN "applied" ELSE "absent"]
  /\ batch = [m \in Mig |-> 0]
  /\ rowid = [m \in Mig |-> 0]
  /\ nextBatch = 1
  /\ nextId = 1
  /\ lockOwner = Free
  /\ file \in Directories
  /\ pc = [r \in Runner |-> "idle"]
  /\ cmd = [r \in Runner |-> "none"]
  /\ sess = [r \in Runner |-> "closed"]
  /\ scan = [r \in Runner |-> NoFiles]
  /\ bytes = [r \in Runner |-> NoFiles]
  /\ down = [r \in Runner |-> {}]
  /\ up = [r \in Runner |-> {}]
  /\ cur = [r \in Runner |-> NoMig]
  /\ myBatch = [r \in Runner |-> 0]
  /\ overridden = {}

-----------------------------------------------------------------------------
(* Sessions and the advisory lock.                                         *)

Live(r) == sess[r] \notin {"closed", "lost"}

Goto(r, p) == pc' = [pc EXCEPT ![r] = p]

FreedBy(r) == IF lockOwner = r THEN Free ELSE lockOwner

\* The command returns: its session is closed and its plan forgotten.
Return(r) ==
  /\ Goto(r, "idle")
  /\ cmd' = [cmd EXCEPT ![r] = "none"]
  /\ sess' = [sess EXCEPT ![r] = "closed"]
  /\ scan' = [scan EXCEPT ![r] = NoFiles]
  /\ bytes' = [bytes EXCEPT ![r] = NoFiles]
  /\ down' = [down EXCEPT ![r] = {}]
  /\ up' = [up EXCEPT ![r] = {}]
  /\ cur' = [cur EXCEPT ![r] = NoMig]
  /\ myBatch' = [myBatch EXCEPT ![r] = 0]

\* What the instructions of each repair (repair.go:404-484) ask the operator to
\* have seen before confirming.  What show says of an applying row is laxer: it
\* names remove-failed for a partial effect too (repair.go:373).  A forget also
\* asks for the schema to be compensated, which nothing enforces: the operator
\* here may leave it as it is.
OperatorSaw(c, m) ==
  CASE c = "mark-applied"     -> schema[m] = sum[m]
    [] c = "mark-rolled-back" -> schema[m] = NoEffect
    [] c = "remove-failed"    -> schema[m] = IF state[m] \in {"applying", "apply_failed"}
                                               THEN NoEffect ELSE sum[m]
    [] c = "forget"           -> file[m] = Missing

\* A runner is called: newPrivateSession, then the capability probes.  A repair
\* is called by an operator who has inspected the migration it names.
Start(r) ==
  /\ pc[r] = "idle"
  /\ \E c \in Commands :
       /\ cmd' = [cmd EXCEPT ![r] = c]
       /\ IF c \in RepairCommands
            THEN \E m \in Mig : OperatorSaw(c, m) /\ cur' = [cur EXCEPT ![r] = m]
            ELSE UNCHANGED cur
  /\ sess' = [sess EXCEPT ![r] = "clean"]
  /\ Goto(r, "lock")
  /\ UNCHANGED <<rows, nextBatch, schema, lockOwner, file, plan, myBatch, overridden>>

FirstPc(r) == IF cmd[r] \in RepairCommands THEN "view" ELSE "scan"

\* The slip of taking a GET_LOCK result of 0 (timed out) for success.
AcquireLockIgnoringResult(r) ==
  /\ pc[r] = "lock" /\ Live(r)
  /\ lockOwner' = IF lockOwner = Free THEN r ELSE lockOwner
  /\ Goto(r, FirstPc(r))
  /\ UNCHANGED <<rows, nextBatch, schema, file, cmd, sess, plan, cur, myBatch, overridden>>

\* GET_LOCK returns 1.
AcquireLock(r) ==
  /\ pc[r] = "lock" /\ Live(r)
  /\ lockOwner = Free
  /\ lockOwner' = r
  /\ Goto(r, FirstPc(r))
  /\ UNCHANGED <<rows, nextBatch, schema, file, cmd, sess, plan, cur, myBatch, overridden>>

\* GET_LOCK returns 0 after its timeout: the session is closed, ErrLockTimeout.
LockTimeout(r) ==
  /\ pc[r] = "lock"
  /\ lockOwner # Free
  /\ Return(r)
  /\ UNCHANGED <<rows, nextBatch, schema, lockOwner, file, overridden>>

\* The slip of returning without RELEASE_LOCK or closing the session.
ReleaseKeepingLock(r) ==
  /\ pc[r] = "release"
  /\ Return(r)
  /\ UNCHANGED <<rows, nextBatch, schema, lockOwner, file, overridden>>

\* The operation has returned: releaseLock on a context of its own, then
\* closeSession.  A session that is closed holds no lock, whatever
\* RELEASE_LOCK answered.
Release(r) ==
  /\ pc[r] = "release"
  /\ lockOwner' = FreedBy(r)
  /\ Return(r)
  /\ UNCHANGED <<rows, nextBatch, schema, file, overridden>>

-----------------------------------------------------------------------------
(* Planning, under the lock (planner.go, planner_refresh.go).              *)

\* scanMigrations and validateSourceFiles: the directory, not the database.
Scan(r) ==
  /\ pc[r] = "scan"
  /\ scan' = [scan EXCEPT ![r] = file]
  /\ Goto(r, "plan")
  /\ UNCHANGED <<rows, nextBatch, schema, lockOwner, file, cmd, sess, bytes, down, up,
                 cur, myBatch, overridden>>

\* Where execution goes with D left to roll back and U left to apply.
NextPc(r, D, U) ==
  IF D # {} THEN "verifyDownChecksums"
  ELSE IF U = {} THEN "release"
  ELSE IF myBatch[r] = 0 THEN "allocateBatch" ELSE "insertIntent"

\* readAppliedMigrations and the global check, then the plan: the files of
\* the selected migrations are read again, after the scan.
BuildPlan(r, D, U) ==
  /\ GlobalDriftCheck(state, sum, scan[r])
  /\ \A m \in D \cup U : scan[r][m] # Missing /\ file[m] # Missing
  /\ bytes' = [bytes EXCEPT ![r] = [m \in Mig |-> IF m \in D \cup U THEN file[m]
                                                                  ELSE Missing]]
  /\ down' = [down EXCEPT ![r] = D]
  /\ up' = [up EXCEPT ![r] = U]
  /\ Goto(r, NextPc(r, D, U))
  /\ UNCHANGED <<rows, nextBatch, schema, lockOwner, file, cmd, sess, scan, cur,
                 myBatch, overridden>>

Planning(r, commands) == pc[r] = "plan" /\ Live(r) /\ cmd[r] \in commands

BuildUpPlan(r) ==
  /\ Planning(r, {"up"})
  /\ \E n \in Limits : BuildPlan(r, {}, FirstN(Pending(state, scan[r]), n))

\* Down by limit or by batch takes rows of the latest batch, down by name one row.
BuildDownPlan(r) ==
  \/ /\ Planning(r, {"down"})
     /\ \E n \in Limits : BuildPlan(r, LastN(DownCandidates(state, batch), n, rowid), {})
  \/ /\ Planning(r, {"down_name"})
     /\ \E m \in Rollbackable(state) : BuildPlan(r, {m}, {})

BuildResetPlan(r) ==
  /\ Planning(r, {"reset"})
  /\ BuildPlan(r, Rollbackable(state), {})

\* Refresh plans both halves at once, so what it will roll back is not pending.
BuildRefreshPlan(r) ==
  /\ Planning(r, {"refresh", "refresh_name"})
  /\ Rollbackable(state) # {}
  /\ \/ /\ cmd[r] = "refresh"
        /\ \E n \in Limits : BuildPlan(r, LastN(Rollbackable(state), n, rowid),
                                          FirstN(Pending(state, scan[r]), n))
     \/ /\ cmd[r] = "refresh_name"
        /\ \E m \in Pending(state, scan[r]) :
             BuildPlan(r, Rollbackable(state), {k \in Pending(state, scan[r]) : k <= m})

-----------------------------------------------------------------------------
(* Metadata transactions.  One conditional mutation and its COMMIT are one *)
(* step; the acknowledgement may be lost, in which case the mutation is    *)
(* durable and the command stops.  A transaction that fails, or affects no *)
(* row, is the step Abort.                                                 *)

Acknowledged(r, p) == Goto(r, p) \/ Goto(r, "release")

Rolling(r) == cur[r] \in down[r]

SetState(m, s) == state' = [state EXCEPT ![m] = s]

\* assertSessionClean: without performance_schema an open transaction is not seen.
SessionLooksClean(r) == sess[r] = "clean" \/ (sess[r] = "opentx" /\ ~PerfSchema)

\* The slip of computing the batch from a read that does not advance the counter.
AllocateBatchReadOnly(r) ==
  /\ pc[r] = "allocateBatch" /\ Live(r)
  /\ nextBatch < MaxBatch
  /\ myBatch' = [myBatch EXCEPT ![r] = nextBatch]
  /\ Goto(r, "insertIntent")
  /\ UNCHANGED <<rows, nextBatch, schema, lockOwner, file, cmd, sess, plan, cur, overridden>>

\* One batch per forward phase, before its first intent row.
AllocateBatch(r) ==
  /\ pc[r] = "allocateBatch" /\ Live(r)
  /\ nextBatch < MaxBatch
  /\ nextBatch' = nextBatch + 1
  /\ myBatch' = [myBatch EXCEPT ![r] = nextBatch]
  /\ Acknowledged(r, "insertIntent")
  /\ UNCHANGED <<rows, schema, lockOwner, file, cmd, sess, plan, cur, overridden>>

\* The intent row: state applying, the checksums of the bytes about to run.
InsertIntent(r) ==
  /\ pc[r] = "insertIntent" /\ Live(r)
  /\ nextId < MaxId
  /\ \E m \in up[r] :
       /\ IsFirst(m, up[r])
       /\ state[m] = "absent"
       /\ SetState(m, "applying")
       /\ sum' = [sum EXCEPT ![m] = bytes[r][m]]
       /\ batch' = [batch EXCEPT ![m] = myBatch[r]]
       /\ rowid' = [rowid EXCEPT ![m] = nextId]
       /\ cur' = [cur EXCEPT ![r] = m]
  /\ nextId' = nextId + 1
  /\ Acknowledged(r, "verify")
  /\ UNCHANGED <<nextBatch, schema, lockOwner, file, cmd, sess, plan, myBatch, overridden>>

\* The slip of trusting the checksums the planner compared.
VerifyDownChecksumsOfScan(r) ==
  /\ pc[r] = "verifyDownChecksums" /\ Live(r)
  /\ \E m \in down[r] :
       /\ IsLast(m, down[r], rowid)
       /\ state[m] # "absent"
       /\ IgnoreChecksumDrift \/ sum[m] = scan[r][m]
       /\ cur' = [cur EXCEPT ![r] = m]
  /\ Goto(r, "markRollingBack")
  /\ UNCHANGED <<rows, nextBatch, schema, lockOwner, file, cmd, sess, plan, myBatch, overridden>>

\* The slip of recording the rollback after its SQL.
VerifyDownChecksumsThenExec(r) ==
  /\ pc[r] = "verifyDownChecksums" /\ Live(r)
  /\ \E m \in down[r] : IsLast(m, down[r], rowid) /\ cur' = [cur EXCEPT ![r] = m]
  /\ Goto(r, "exec")
  /\ UNCHANGED <<rows, nextBatch, schema, lockOwner, file, cmd, sess, plan, myBatch, overridden>>

\* The next row of the rollback set, in descending id: what its plan retained
\* must be what was applied.
VerifyDownChecksums(r) ==
  /\ pc[r] = "verifyDownChecksums" /\ Live(r)
  /\ \E m \in down[r] :
       /\ IsLast(m, down[r], rowid)
       /\ state[m] # "absent"
       /\ IgnoreChecksumDrift \/ sum[m] = bytes[r][m]
       /\ cur' = [cur EXCEPT ![r] = m]
  /\ Goto(r, "markRollingBack")
  /\ UNCHANGED <<rows, nextBatch, schema, lockOwner, file, cmd, sess, plan, myBatch, overridden>>

MarkRollingBack(r) ==
  /\ pc[r] = "markRollingBack" /\ Live(r)
  /\ state[cur[r]] = "applied"
  /\ SetState(cur[r], "rolling_back")
  /\ Acknowledged(r, "verify")
  /\ UNCHANGED <<batch, rowid, sum, nextId, nextBatch, schema, lockOwner, file, cmd, sess,
                 plan, cur, myBatch, overridden>>

\* verifyIntentCommitted (or the re-read of rolling_back), verifyLockOwnership.
Verify(r) ==
  /\ pc[r] = "verify" /\ Live(r)
  /\ state[cur[r]] = IF Rolling(r) THEN "rolling_back" ELSE "applying"
  /\ lockOwner = r
  /\ Goto(r, "exec")
  /\ UNCHANGED <<rows, nextBatch, schema, lockOwner, file, cmd, sess, plan, cur, myBatch,
                 overridden>>

-----------------------------------------------------------------------------
(* Migration SQL and the inspection of the session after it.               *)

\* What the schema shows of cur[r] when all the statements took effect.  Down
\* SQL undoes the up SQL it was recorded with; any other may leave remains.
Completed(r) ==
  IF ~Rolling(r) THEN {bytes[r][cur[r]]}
  ELSE IF bytes[r][cur[r]] = sum[cur[r]] THEN {NoEffect} ELSE {NoEffect, Partial}

\* ... and when they stopped on the way: DDL commits as it goes.
CutShort(r) == {schema[cur[r]], Partial}

\* The slip of dropping the error of the statements.
ExecSqlIgnoringError(r) ==
  /\ pc[r] = "exec" /\ Live(r)
  /\ \E e \in Completed(r) \cup CutShort(r) : schema' = [schema EXCEPT ![cur[r]] = e]
  /\ Goto(r, "inspect")
  /\ UNCHANGED <<rows, nextBatch, lockOwner, file, cmd, sess, plan, cur, myBatch, overridden>>

\* The statements return.  They may leave the session in a transaction, with
\* autocommit off or in another database.
ExecSql(r) ==
  /\ pc[r] = "exec" /\ Live(r)
  /\ \E after \in SqlAftermath :
       /\ sess' = [sess EXCEPT ![r] = after]
       /\ \/ /\ Goto(r, "inspect")
             /\ \E e \in IF after = "opentx" THEN CutShort(r) ELSE Completed(r) :
                  schema' = [schema EXCEPT ![cur[r]] = e]
          \/ /\ Goto(r, "cleanup")     \* a statement failed
             /\ \E e \in CutShort(r) : schema' = [schema EXCEPT ![cur[r]] = e]
  /\ UNCHANGED <<rows, nextBatch, lockOwner, file, cmd, plan, cur, myBatch, overridden>>

\* SQL outside the trusted contract releases the advisory lock as it runs.
SqlReleasesLock(r) ==
  /\ SqlMayReleaseLock
  /\ pc[r] = "exec" /\ Live(r) /\ lockOwner = r
  /\ lockOwner' = Free
  /\ UNCHANGED <<rows, nextBatch, schema, file, pc, cmd, sess, plan, cur, myBatch, overridden>>

\* The slip of not inspecting the session after migration SQL.
InspectNothing(r) ==
  /\ pc[r] = "inspect" /\ Live(r)
  /\ Goto(r, "markDone")
  /\ UNCHANGED <<rows, nextBatch, schema, lockOwner, file, cmd, sess, plan, cur, myBatch,
                 overridden>>

\* inspectAndVerifyPostExecution after SQL that reported no error.
Inspect(r) ==
  /\ pc[r] = "inspect" /\ Live(r)
  /\ IF SessionLooksClean(r) /\ lockOwner = r THEN Goto(r, "markDone")
                                              ELSE Goto(r, "cleanup")
  /\ UNCHANGED <<rows, nextBatch, schema, lockOwner, file, cmd, sess, plan, cur, myBatch,
                 overridden>>

\* cleanupSessionState: ROLLBACK, restore autocommit, check the database and
\* the lock.  Without performance_schema it returns before any of that.
CleanupSession(r) ==
  /\ pc[r] = "cleanup" /\ Live(r)
  /\ IF PerfSchema THEN /\ sess[r] # "wrongdb"
                        /\ lockOwner = r
                        /\ sess' = [sess EXCEPT ![r] = "clean"]
                   ELSE UNCHANGED sess
  /\ Goto(r, "markFailed")
  /\ UNCHANGED <<rows, nextBatch, schema, lockOwner, file, cmd, plan, cur, myBatch, overridden>>

\* Nobody saw the open transaction: the BEGIN of the next metadata transaction
\* commits it.
ImplicitCommit(r) ==
  /\ pc[r] \in {"markDone", "markFailed"}
  /\ sess[r] = "opentx" /\ ~PerfSchema
  /\ \E e \in IF pc[r] = "markDone" THEN Completed(r) ELSE Completed(r) \cup CutShort(r) :
       schema' = [schema EXCEPT ![cur[r]] = e]
  /\ sess' = [sess EXCEPT ![r] = "clean"]
  /\ UNCHANGED <<rows, nextBatch, lockOwner, file, pc, cmd, plan, cur, myBatch, overridden>>

\* The migration is done; the next one of the plan, or the end of it.
Advance(r) ==
  LET D == down[r] \ {cur[r]}
      U == IF Rolling(r) THEN up[r] ELSE up[r] \ {cur[r]}
  IN /\ down' = [down EXCEPT ![r] = D]
     /\ up' = [up EXCEPT ![r] = U]
     /\ cur' = [cur EXCEPT ![r] = NoMig]
     /\ Acknowledged(r, NextPc(r, D, U))
     /\ UNCHANGED <<scan, bytes>>

\* markApplied and the read that verifies it.
MarkApplied(r) ==
  /\ pc[r] = "markDone" /\ ~Rolling(r) /\ sess[r] = "clean"
  /\ state[cur[r]] = "applying"
  /\ SetState(cur[r], "applied")
  /\ Advance(r)
  /\ UNCHANGED <<batch, rowid, sum, nextId, nextBatch, schema, lockOwner, file, cmd, sess,
                 myBatch, overridden>>

DeleteRow(m) ==
  /\ state[m] # "absent"
  /\ SetState(m, "absent")
  /\ batch' = [batch EXCEPT ![m] = 0]
  /\ rowid' = [rowid EXCEPT ![m] = 0]
  /\ sum' = [sum EXCEPT ![m] = Missing]
  /\ UNCHANGED nextId

\* removeRow, whose DELETE names the migration and no state, and verifyRowDeleted.
RemoveRow(r) ==
  /\ pc[r] = "markDone" /\ Rolling(r) /\ sess[r] = "clean"
  /\ DeleteRow(cur[r])
  /\ Advance(r)
  /\ UNCHANGED <<nextBatch, schema, lockOwner, file, cmd, sess, myBatch, overridden>>

\* The slip of writing a state the column does not have.
MarkFailedWithoutDirection(r) ==
  /\ pc[r] = "markFailed" /\ sess[r] = "clean"
  /\ IsDirty(state[cur[r]])
  /\ SetState(cur[r], "failed")
  /\ Goto(r, "release")
  /\ UNCHANGED <<batch, rowid, sum, nextId, nextBatch, schema, lockOwner, file, cmd, sess,
                 plan, cur, myBatch, overridden>>

\* markFailed and markRollbackFailed; nothing is executed after a failure.
MarkFailed(r) ==
  /\ pc[r] = "markFailed" /\ sess[r] = "clean"
  /\ IF Rolling(r)
       THEN state[cur[r]] = "rolling_back" /\ SetState(cur[r], "rollback_failed")
       ELSE state[cur[r]] = "applying" /\ SetState(cur[r], "apply_failed")
  /\ Goto(r, "release")
  /\ UNCHANGED <<batch, rowid, sum, nextId, nextBatch, schema, lockOwner, file, cmd, sess,
                 plan, cur, myBatch, overridden>>

-----------------------------------------------------------------------------
(* Repair (repair.go, repair_metadata.go): a runner that changes one row   *)
(* and executes no migration SQL.                                          *)

\* The slip of a remove-failed that does not ask whether anything failed.
RepairAllowsAnyRemoval(c, s) ==
  CASE c = "mark-applied"     -> s \in {"applying", "apply_failed"}
    [] c = "mark-rolled-back" -> s \in {"rolling_back", "rollback_failed"}
    [] c = "remove-failed"    -> s # "absent"
    [] c = "forget"           -> s = "applied"

\* The state buildRepairView demands of the row.
RepairAllows(c, s) ==
  CASE c = "mark-applied"     -> s \in {"applying", "apply_failed"}
    [] c = "mark-rolled-back" -> s \in {"rolling_back", "rollback_failed"}
    [] c = "remove-failed"    -> IsDirty(s)
    [] c = "forget"           -> s = "applied"

\* The state of the row is checked; that it is the row the operator saw is not.
BuildRepairView(r) ==
  /\ pc[r] = "view" /\ Live(r)
  /\ RepairAllows(cmd[r], state[cur[r]])
  /\ InspectionIsCurrent => OperatorSaw(cmd[r], cur[r])
  /\ Goto(r, "repair")
  /\ UNCHANGED <<rows, nextBatch, schema, lockOwner, file, cmd, sess, plan, cur, myBatch,
                 overridden>>

MarkAppliedByRepair(r) ==
  /\ pc[r] = "repair" /\ Live(r) /\ cmd[r] = "mark-applied"
  /\ state[cur[r]] \in {"applying", "apply_failed"}
  /\ SetState(cur[r], "applied")
  /\ Goto(r, "release")
  /\ UNCHANGED <<batch, rowid, sum, nextId, nextBatch, schema, lockOwner, file, cmd, sess,
                 plan, cur, myBatch, overridden>>

\* The first of the two transactions of mark-rolled-back: until the second
\* deletes it, the row says applied.  (A clean irreversible row, one without a
\* down checksum, would skip the first; no writer stores such a row.)
MarkRolledBackByRepair(r) ==
  /\ pc[r] = "repair" /\ Live(r) /\ cmd[r] = "mark-rolled-back"
  /\ state[cur[r]] \in {"rolling_back", "rollback_failed"}
  /\ SetState(cur[r], "applied")
  /\ overridden' = overridden \cup {cur[r]}
  /\ Acknowledged(r, "repairDelete")
  /\ UNCHANGED <<batch, rowid, sum, nextId, nextBatch, schema, lockOwner, file, cmd, sess,
                 plan, cur, myBatch>>

\* The second transaction, and the only one of remove-failed and forget.
RemoveRowByRepair(r) ==
  /\ Live(r)
  /\ \/ pc[r] = "repairDelete" /\ overridden' = overridden \ {cur[r]}
     \/ /\ pc[r] = "repair" /\ cmd[r] = "remove-failed"
        /\ overridden' = IF state[cur[r]] \in {"rolling_back", "rollback_failed"}
                           THEN overridden \cup {cur[r]} ELSE overridden
     \/ /\ pc[r] = "repair" /\ cmd[r] = "forget"
        /\ state[cur[r]] = "applied"
        /\ overridden' = overridden \cup {cur[r]}
  /\ DeleteRow(cur[r])
  /\ Goto(r, "release")
  /\ UNCHANGED <<nextBatch, schema, lockOwner, file, cmd, sess, plan, cur, myBatch>>

-----------------------------------------------------------------------------
(* Failures and the environment.                                           *)

\* The slip of starting over on a new session until it works.
AbortAndRetry(r) ==
  /\ pc[r] \notin {"idle", "release", "exec"}
  /\ lockOwner' = FreedBy(r)
  /\ sess' = [sess EXCEPT ![r] = "clean"]
  /\ Goto(r, "lock")
  /\ UNCHANGED <<rows, nextBatch, schema, file, cmd, plan, cur, myBatch, overridden>>

\* An error ends the command: a statement that fails or is cancelled, a
\* transaction that affects no row, a refusal of the planner, a file that
\* cannot be read.  While migration SQL runs, only the loss of the session does.
Abort(r) ==
  /\ pc[r] \notin {"idle", "release"}
  /\ pc[r] = "exec" => ~Live(r)
  /\ Goto(r, "release")
  /\ UNCHANGED <<rows, nextBatch, schema, lockOwner, file, cmd, sess, plan, cur, myBatch,
                 overridden>>

\* Migration SQL in flight when its session or its client goes away: the server
\* holds the advisory lock until the statements have stopped, so their effect
\* and the end of the session are one step.
Interrupted(r) ==
  IF pc[r] = "exec" /\ Live(r)
    THEN \E e \in Completed(r) \cup CutShort(r) : schema' = [schema EXCEPT ![cur[r]] = e]
    ELSE UNCHANGED schema

\* The server ends the session; the runner finds out at its next statement.
LoseSession(r) ==
  /\ pc[r] # "idle" /\ Live(r)
  /\ sess' = [sess EXCEPT ![r] = "lost"]
  /\ lockOwner' = FreedBy(r)
  /\ Interrupted(r)
  /\ UNCHANGED <<rows, nextBatch, file, pc, cmd, plan, cur, myBatch, overridden>>

\* The process dies; a later Start is another process.
Crash(r) ==
  /\ pc[r] # "idle"
  /\ lockOwner' = FreedBy(r)
  /\ Interrupted(r)
  /\ Return(r)
  /\ UNCHANGED <<rows, nextBatch, file, overridden>>

\* A developer edits, adds or removes a migration, at any time.
EditFile(m) ==
  /\ \E c \in Content \cup {Missing} : file' = [file EXCEPT ![m] = c]
  /\ UNCHANGED <<rows, nextBatch, schema, lockOwner, pc, cmd, sess, plan, cur, myBatch,
                 overridden>>

\* Before a repair the operator, alone on the scope, completes or undoes by
\* hand what a dirty migration left.
Compensate(m) ==
  /\ lockOwner = Free /\ IsDirty(state[m])
  /\ \E e \in {NoEffect, sum[m]} : schema' = [schema EXCEPT ![m] = e]
  /\ UNCHANGED <<rows, nextBatch, lockOwner, file, pc, cmd, sess, plan, cur, myBatch,
                 overridden>>

-----------------------------------------------------------------------------
\* What a runner does by itself once it is called.
Run(r) ==
  \/ AcquireLock(r) \/ LockTimeout(r) \/ Release(r) \/ Scan(r)
  \/ BuildUpPlan(r) \/ BuildDownPlan(r) \/ BuildResetPlan(r) \/ BuildRefreshPlan(r)
  \/ AllocateBatch(r) \/ InsertIntent(r)
  \/ VerifyDownChecksums(r) \/ MarkRollingBack(r)
  \/ Verify(r) \/ ExecSql(r) \/ Inspect(r) \/ CleanupSession(r) \/ ImplicitCommit(r)
  \/ MarkApplied(r) \/ RemoveRow(r) \/ MarkFailed(r)
  \/ BuildRepairView(r) \/ MarkAppliedByRepair(r) \/ MarkRolledBackByRepair(r)
  \/ RemoveRowByRepair(r)
  \/ Abort(r)

Next ==
  \/ \E r \in Runner : Run(r) \/ Start(r) \/ SqlReleasesLock(r) \/ LoseSession(r) \/ Crash(r)
  \/ \E m \in Editable : EditFile(m)
  \/ \E m \in Mig : Compensate(m)

Spec == Init /\ [][Next]_vars

\* A process that was called keeps executing, and its statements return.
\* Nobody need call it, and nothing need fail.
FairSpec == Spec /\ \A r \in Runner : WF_vars(Run(r))

-----------------------------------------------------------------------------
(* Properties.                                                             *)

\* Runners that hold the right to write: past GET_LOCK, not yet returning.
Writing(r) == Live(r) /\ pc[r] \notin {"idle", "lock", "release"}

\* architecture.md 5.1: with trusted SQL, two live sessions never are both
\* between GET_LOCK and RELEASE_LOCK, although the server may end a session
\* whose runner does not know and hand the lock to another.
SingleWriter ==
  ~SqlMayReleaseLock => \A r, s \in Runner : Writing(r) /\ Writing(s) => r = s

\* A dirty row blocks every intent (9.1), so whatever crashes and whoever
\* retries, at most one migration of the scope is ever unresolved.
OneInFlight == \A m, n \in Mig : IsDirty(state[m]) /\ IsDirty(state[n]) => m = n

\* While a migration is unresolved, whoever runs or retries, nothing happens to
\* the row or the schema of another one, but for a forget (architecture.md 9.1).
DirtyBlocksOthers ==
  [][\A m, n \in Mig : IsDirty(state[m]) /\ m # n /\ ~SqlMayReleaseLock =>
       /\ schema'[n] = schema[n]
       /\ state'[n] = state[n] \/ \E r \in Runner : cmd[r] = "forget" /\ cur[r] = n]_vars

\* architecture.md 5.2: while migration SQL runs, the row of its migration is
\* durably dirty, so that a crash at any point of it blocks later writes.
IntentBeforeSql ==
  ~SqlMayReleaseLock =>
    \A r \in Runner : pc[r] = "exec" /\ Live(r) => IsDirty(state[cur[r]])

\* architecture.md 10.2: even if migration SQL gives the lock away, a row turns
\* clean only by a step of the runner whose session holds it.
HolderWritesClean ==
  [][\A m \in Mig : state'[m] # state[m] /\ ~IsDirty(state'[m]) =>
       lockOwner # Free /\ pc'[lockOwner] # pc[lockOwner]]_vars

TrueRow(m) ==
  /\ state[m] = "applied" => schema[m] = sum[m]
  /\ state[m] = "absent" => schema[m] = NoEffect

\* A clean row tells the truth: applied means the schema has exactly the SQL
\* whose checksum is recorded, no row means it has nothing, and anything in
\* between is under a dirty row; unless a repair decided otherwise.
CleanRowsAreTrue ==
  ~IgnoreChecksumDrift /\ ~SqlMayReleaseLock /\ InspectionIsCurrent =>
    \A m \in Mig \ overridden : TrueRow(m)

\* The batch of a row was handed out by the control row, and rows of later
\* batches have later ids: the latest batch is the tail of the execution order.
BatchOrder ==
  \A m, n \in Rollbackable(state) :
    /\ batch[m] \in 1..(nextBatch - 1)
    /\ rowid[m] \in 1..(nextId - 1)
    /\ m # n => rowid[m] # rowid[n]
    /\ rowid[m] < rowid[n] => batch[m] <= batch[n]

\* architecture.md 11.3: except by name, what is rolled back is always the
\* migration executed last among all that are applied, over all batches; with SQL
\* that gives the lock away, another runner may have applied more since the plan.
RollbackIsLifo ==
  ~SqlMayReleaseLock => \A r \in Runner :
    pc[r] = "exec" /\ Live(r) /\ Rolling(r) /\ cmd[r] # "down_name" =>
      \A n \in Rollbackable(state) : rowid[n] <= rowid[cur[r]]

\* architecture.md 5.5 and 11.3: the down SQL that runs is that of the recorded
\* pair, whenever the files were edited between the scan, the plan and now.
RollbackRunsRecordedSql ==
  ~IgnoreChecksumDrift /\ ~SqlMayReleaseLock =>
    \A r \in Runner : pc[r] = "exec" /\ Live(r) /\ Rolling(r) => bytes[r][cur[r]] = sum[cur[r]]

\* architecture.md 5.6: with trusted SQL, migration SQL runs only if every other
\* row, those of this invocation aside, agreed with the directory when it was
\* scanned.
DriftBlocksSql ==
  ~SqlMayReleaseLock => \A r \in Runner : pc[r] = "exec" /\ Live(r) =>
    \A n \in Rollbackable(state) \ {cur[r]} :
      \/ batch[n] = myBatch[r]
      \/ IF scan[r][n] = Missing THEN IgnoreMissingSource
                                 ELSE IgnoreChecksumDrift \/ scan[r][n] = sum[n]

\* A baseline belongs to the tool it was imported from: no command rolls it
\* back, and only a forget may drop its row.
BaselinesStay ==
  \A m \in Baseline :
    /\ state[m] # "absent" \/ m \in overridden
    /\ ~IsDirty(state[m])

\* Every step is a step of the abstract ledger, or changes nothing it shows.
L == INSTANCE Ledger WITH row <- state, recorded <- sum
LedgerSpec == L!Spec

\* Whatever failed on the way, a command that has returned holds no lock; as
\* commands return, the lock comes back.
ReturnedIsUnlocked == \A r \in Runner : lockOwner = r => pc[r] # "idle"

\* A command returns: it cannot wait for the lock forever, and cannot run
\* through its plan forever.
CommandsReturn == \A r \in Runner : pc[r] # "idle" ~> pc[r] = "idle"

-----------------------------------------------------------------------------
(* What the documentation says and the code does not do: each of these is  *)
(* checked by a run that finds it violated.                                *)

\* architecture.md 5.2: a crash leaves a non-clean state that blocks later
\* writes, so when nobody is at work a row that says applied is true.
CrashLeavesDirty ==
  lockOwner = Free => \A m \in Mig : state[m] = "applied" => schema[m] = sum[m]

\* refresh_target.go: what a refresh rolls back it applies again.
RefreshReapplies ==
  \A r \in Runner : cmd[r] = "refresh" => down[r] \subseteq up[r]

\* types.go: with IgnoreMissingSource an orphaned row does not block a reset.
OrphansDoNotBlockReset ==
  \A r \in Runner :
    Planning(r, {"reset"}) /\ file = scan[r] /\ GlobalDriftCheck(state, sum, scan[r]) =>
      ENABLED BuildResetPlan(r)
=============================================================================
