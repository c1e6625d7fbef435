------------------------------ MODULE Metadata ------------------------------
(***************************************************************************)
(* How the metadata tables of lamigrate come to be: the two-phase          *)
(* bootstrap that every command runs, and the adoption of a table that the *)
(* prototype of lamigrate left.  Several runners work on several tracking  *)
(* tables (scopes) of one database that share lamigrate_control, and the   *)
(* deprecated Migrate type may be in use at the same time.                 *)
(*                                                                         *)
(* A scope has one advisory lock, and bootstrap has one more for the whole *)
(* database.  MySQL gives a lock to a session and a command may have two   *)
(* sessions: what it holds on one it waits for on the other.               *)
(*                                                                         *)
(* A row is its migration and its batch here.  The module Migrator has the *)
(* rest of it, and the execution that this module reduces to Allocate and  *)
(* Apply.                                                                  *)
(***************************************************************************)
EXTENDS Naturals

CONSTANTS
  Scope,            \* tracking tables
  Runner,           \* processes that use the library
  Mig,              \* migrations, in the order of their row ids
  Commands,         \* the commands they may start
  Legacy,           \* the scopes that the deprecated Migrate type works on
  MayDie,           \* scopes where an adoption may end between RENAME and the control row
  PreviewMayLose,   \* may the outer session of a preview or a status end early?
  MaxBatch,         \* bound: batches
  OldBatches,       \* bound: batches in prototypes and of the deprecated type's rows
  Free,             \* the holder of a lock that nobody holds
  NoRow, NoTable, NoScope  \* the absence of a row, a table, a scope

ASSUME MigAssumption == Mig \subseteq Nat
ASSUME CommandAssumption == Commands \subseteq {"write", "preview", "status", "adopt"}
ASSUME EnvironmentAssumption ==
  /\ Legacy \subseteq Scope
  /\ MayDie \subseteq Scope
  /\ PreviewMayLose \in BOOLEAN
ASSUME MaxBatchAssumption == MaxBatch \in Nat \ {0}
ASSUME OldBatchAssumption == OldBatches \subseteq 0..MaxBatch

\* "prototype" is the exact shape adoption knows, "legacy" the four columns of
\* the deprecated type, which has other types and another name for its key.
Shape == {"absent", "prototype", "legacy", "v1"}
Contents == [Mig -> (0..MaxBatch) \cup {NoRow}]

ASSUME AbsenceAssumption ==
  /\ Free \notin Runner
  /\ NoRow \notin Nat
  /\ NoTable \notin Contents
  /\ NoScope \notin Scope

Empty == [m \in Mig |-> NoRow]

VARIABLES
  control,    \* does the table lamigrate_control exist?
  next,       \* next_batch of the control row of a scope, 0 without one
  shape,      \* the shape of the tracking table
  rows,       \* its rows
  temp,       \* the temporary table of an adoption
  backup,     \* the table the prototype is renamed to
  lock,       \* who holds the advisory lock of a scope
  bootLock,   \* who holds the advisory lock of bootstrap
  pc, cmd, on,  \* where a runner is, its command and its scope
  seen,       \* what the inventory of phase B found
  mine,       \* rows an adoption has read
  left,       \* migrations whose row it has yet to copy
  myBatch     \* the batch allocated to this invocation

tables == <<control, next, shape, rows, temp, backup>>
locks == <<lock, bootLock>>
call == <<cmd, on>>
work == <<seen, mine, left, myBatch>>
vars == <<tables, locks, pc, call, work>>

Waits == {"outerLock", "phaseA", "phaseB"}
PhaseB == {"inventoryB", "createControl", "createState", "insertRow"}
BootPcs == {"phaseA", "inventoryA", "phaseB"} \cup PhaseB
AdoptPcs == {"detect", "ensureControl", "read", "copy", "swap", "adoptRow", "recover"}
Pcs == {"idle", "outerLock", "allocate", "apply", "report"} \cup BootPcs \cup AdoptPcs

Nothing == [control |-> FALSE, shape |-> "absent"]

TypeOK ==
  /\ control \in BOOLEAN
  /\ next \in [Scope -> 0..(MaxBatch + 1)]
  /\ shape \in [Scope -> Shape]
  /\ rows \in [Scope -> Contents]
  /\ temp \in [Scope -> Contents \cup {NoTable}]
  /\ backup \in [Scope -> Contents \cup {NoTable}]
  /\ lock \in [Scope -> Runner \cup {Free}]
  /\ bootLock \in Runner \cup {Free}
  /\ pc \in [Runner -> Pcs]
  /\ cmd \in [Runner -> Commands \cup {"none"}]
  /\ on \in [Runner -> Scope \cup {NoScope}]
  /\ seen \in [Runner -> [control : BOOLEAN, shape : Shape]]
  /\ mine \in [Runner -> Contents]
  /\ left \in [Runner -> SUBSET Mig]
  /\ myBatch \in [Runner -> 0..MaxBatch]

\* A fresh database, in which some scopes have a prototype table with history.
Init ==
  /\ control = FALSE
  /\ next = [s \in Scope |-> 0]
  /\ shape \in [Scope -> {"absent", "prototype"}]
  /\ rows \in [Scope -> [Mig -> OldBatches \cup {NoRow}]]
  /\ \A s \in Scope : shape[s] = "absent" => rows[s] = Empty
  /\ temp = [s \in Scope |-> NoTable]
  /\ backup = [s \in Scope |-> NoTable]
  /\ lock = [s \in Scope |-> Free]
  /\ bootLock = Free
  /\ pc = [r \in Runner |-> "idle"]
  /\ cmd = [r \in Runner |-> "none"]
  /\ on = [r \in Runner |-> NoScope]
  /\ seen = [r \in Runner |-> Nothing]
  /\ mine = [r \in Runner |-> Empty]
  /\ left = [r \in Runner |-> {}]
  /\ myBatch = [r \in Runner |-> 0]

-----------------------------------------------------------------------------
Recorded(t) == {m \in Mig : t[m] # NoRow}
Batches(t) == {t[m] : m \in Recorded(t)}

At(r, p) == pc[r] = p
Goto(r, p) == pc' = [pc EXCEPT ![r] = p]
Holds(r) == lock[on[r]] = r

LocksWithout(r) ==
  /\ lock' = [s \in Scope |-> IF lock[s] = r THEN Free ELSE lock[s]]
  /\ bootLock' = IF bootLock = r THEN Free ELSE bootLock

Forget(r) ==
  /\ cmd' = [cmd EXCEPT ![r] = "none"]
  /\ seen' = [seen EXCEPT ![r] = Nothing]
  /\ mine' = [mine EXCEPT ![r] = Empty]
  /\ left' = [left EXCEPT ![r] = {}]
  /\ myBatch' = [myBatch EXCEPT ![r] = 0]
  /\ on' = [on EXCEPT ![r] = NoScope]

\* The command returns: its sessions are closed and hold nothing.
Return(r) == Goto(r, "idle") /\ LocksWithout(r) /\ Forget(r)

\* Bootstrap refuses.  Status reports what it can all the same, on the session
\* it began with.
Refuse(r) ==
  IF cmd[r] = "status" /\ Holds(r)
    THEN /\ Goto(r, "report")
         /\ bootLock' = IF bootLock = r THEN Free ELSE bootLock
         /\ UNCHANGED <<lock, call, work>>
    ELSE Return(r)

\* Writers run bootstrap before they take the lock of the scope; previews and
\* status run it under that lock; adoption does not run it.
Start(r) ==
  /\ At(r, "idle")
  /\ \E c \in Commands, s \in Scope :
       /\ cmd' = [cmd EXCEPT ![r] = c]
       /\ on' = [on EXCEPT ![r] = s]
       /\ Goto(r, IF c = "write" THEN "phaseA" ELSE "outerLock")
  /\ UNCHANGED <<tables, locks, work>>

AcquireOuterLock(r) ==
  /\ At(r, "outerLock") /\ lock[on[r]] = Free
  /\ lock' = [lock EXCEPT ![on[r]] = r]
  /\ Goto(r, CASE cmd[r] = "write" -> "allocate"
               [] cmd[r] = "adopt" -> "detect"
               [] OTHER -> "phaseA")
  /\ UNCHANGED <<tables, bootLock, call, work>>

Wanted(r) == IF At(r, "phaseA") THEN bootLock ELSE lock[on[r]]

\* GET_LOCK gives up.
LockTimeout(r) ==
  /\ pc[r] \in Waits
  /\ Wanted(r) # Free
  /\ Refuse(r)
  /\ UNCHANGED tables

-----------------------------------------------------------------------------
(* Bootstrap (metadata_bootstrap.go).                                      *)

AcquireBootstrapLock(r) ==
  /\ At(r, "phaseA") /\ bootLock = Free
  /\ bootLock' = r
  /\ Goto(r, "inventoryA")
  /\ UNCHANGED <<tables, lock, call, work>>

\* The bootstrap has done its work; a preview or status still has its lock.
Booted(r) == Goto(r, IF cmd[r] = "write" THEN "outerLock" ELSE "report")

\* The slip of looking at the tables and not at the control row.
InventoryAOfTables(r) ==
  /\ At(r, "inventoryA")
  /\ \/ control /\ shape[on[r]] = "v1" /\ Booted(r)
     \/ shape[on[r]] \in {"absent", "v1"} /\ ~(control /\ shape[on[r]] = "v1")
          /\ Goto(r, "phaseB")
  /\ bootLock' = Free
  /\ UNCHANGED <<tables, lock, call, work>>

\* The slip of entering phase B with the lock of phase A.
InventoryAKeepingLock(r) ==
  /\ At(r, "inventoryA")
  /\ shape[on[r]] \in {"absent", "v1"}
  /\ Goto(r, "phaseB")
  /\ UNCHANGED <<tables, locks, call, work>>

\* Phase A reads, gives the lock back and decides.  Nothing keeps what it read
\* from changing before phase B.
InventoryA(r) ==
  /\ At(r, "inventoryA")
  /\ IF control /\ next[on[r]] # 0 /\ shape[on[r]] = "v1"
       THEN Booted(r) /\ bootLock' = Free /\ UNCHANGED <<lock, call, work>>
     ELSE IF shape[on[r]] \in {"prototype", "legacy"}
       THEN Refuse(r)
       ELSE Goto(r, "phaseB") /\ bootLock' = Free /\ UNCHANGED <<lock, call, work>>
  /\ UNCHANGED tables

AcquireScopeLock(r) ==
  /\ At(r, "phaseB") /\ lock[on[r]] = Free
  /\ lock' = [lock EXCEPT ![on[r]] = r]
  /\ Goto(r, "inventoryB")
  /\ UNCHANGED <<tables, bootLock, call, work>>

InventoryB(r) ==
  /\ At(r, "inventoryB")
  /\ IF shape[on[r]] \in {"prototype", "legacy"}
       THEN Return(r)
       ELSE /\ seen' = [seen EXCEPT ![r] = [control |-> control, shape |-> shape[on[r]]]]
            /\ Goto(r, "createControl")
            /\ UNCHANGED <<locks, call, mine, left, myBatch>>
  /\ UNCHANGED tables

\* CREATE TABLE IF NOT EXISTS, unless the inventory found the table.
CreateControl(r) ==
  /\ At(r, "createControl")
  /\ control' = (control \/ ~seen[r].control)
  /\ Goto(r, "createState")
  /\ UNCHANGED <<next, shape, rows, temp, backup, locks, call, work>>

\* The slip of trusting CREATE TABLE IF NOT EXISTS to have created the table.
CreateStateUnvalidated(r) ==
  /\ At(r, "createState")
  /\ shape' = [shape EXCEPT ![on[r]] = IF @ = "absent" THEN "v1" ELSE @]
  /\ Goto(r, "insertRow")
  /\ UNCHANGED <<control, next, rows, temp, backup, locks, call, work>>

\* The same for the tracking table.  Somebody may have created another table of
\* that name meanwhile: validateTableShape finds out.
CreateState(r) ==
  /\ At(r, "createState")
  /\ shape' = [shape EXCEPT ![on[r]] = IF @ = "absent" THEN "v1" ELSE @]
  /\ IF seen[r].shape = "absent" /\ shape'[on[r]] # "v1"
       THEN Return(r)
       ELSE Goto(r, "insertRow") /\ UNCHANGED <<locks, call, work>>
  /\ UNCHANGED <<control, next, rows, temp, backup>>

\* The slip of writing the control row whether or not there is one.
InsertControlRowAlways(r) ==
  /\ At(r, "insertRow")
  /\ next' = [next EXCEPT ![on[r]] = 1]
  /\ lock' = [lock EXCEPT ![on[r]] = Free]
  /\ Booted(r)
  /\ UNCHANGED <<control, shape, rows, temp, backup, bootLock, call, work>>

\* INSERT IGNORE, then the check of the row against no batch at all; the
\* session of phase B is closed.
InsertControlRow(r) ==
  /\ At(r, "insertRow")
  /\ next' = [next EXCEPT ![on[r]] = IF @ = 0 THEN 1 ELSE @]
  /\ lock' = [lock EXCEPT ![on[r]] = Free]
  /\ Booted(r)
  /\ UNCHANGED <<control, shape, rows, temp, backup, bootLock, call, work>>

\* What follows under the lock of a preview or status only reads.
Report(r) ==
  /\ At(r, "report")
  /\ Return(r)
  /\ UNCHANGED tables

\* allocateBatch, for a writer that has something to do.
Allocate(r) ==
  /\ At(r, "allocate")
  /\ next[on[r]] \in 1..MaxBatch
  /\ next' = [next EXCEPT ![on[r]] = @ + 1]
  /\ myBatch' = [myBatch EXCEPT ![r] = next[on[r]]]
  /\ Goto(r, "apply")
  /\ UNCHANGED <<control, shape, rows, temp, backup, locks, call, seen, mine, left>>

Apply(r) ==
  /\ At(r, "apply")
  /\ \E m \in Mig \ Recorded(rows[on[r]]) :
       rows' = [rows EXCEPT ![on[r]][m] = myBatch[r]]
  /\ Return(r)
  /\ UNCHANGED <<control, next, shape, temp, backup>>

-----------------------------------------------------------------------------
(* Adoption (adoption.go, adoption_recovery.go), under the lock of the     *)
(* scope.  One backup name per scope, and so one temporary name.           *)

\* The exact columns, types and key that the prototype had.
IsPrototype(s) == shape[s] = "prototype"

Interrupted(s) == shape[s] = "v1" /\ control /\ next[s] = 0

Detect(r) ==
  /\ At(r, "detect")
  /\ \/ IsPrototype(on[r]) /\ Goto(r, "ensureControl") /\ UNCHANGED <<locks, call, work>>
     \/ Interrupted(on[r]) /\ Goto(r, "recover") /\ UNCHANGED <<locks, call, work>>
     \/ ~IsPrototype(on[r]) /\ ~Interrupted(on[r]) /\ Return(r)
  /\ UNCHANGED tables

EnsureControl(r) ==
  /\ At(r, "ensureControl")
  /\ control' = TRUE
  /\ Goto(r, "read")
  /\ UNCHANGED <<next, shape, rows, temp, backup, locks, call, work>>

\* The backup name must be free and the prototype have rows; then the rows are
\* mapped to their files and the temporary table is created if it is not there.
ReadPrototype(r) ==
  /\ At(r, "read")
  /\ backup[on[r]] = NoTable
  /\ Recorded(rows[on[r]]) # {}
  /\ mine' = [mine EXCEPT ![r] = rows[on[r]]]
  /\ left' = [left EXCEPT ![r] = Recorded(rows[on[r]])]
  /\ temp' = [temp EXCEPT ![on[r]] = IF @ = NoTable THEN Empty ELSE @]
  /\ Goto(r, "copy")
  /\ UNCHANGED <<control, next, shape, rows, backup, locks, call, seen, myBatch>>

\* Rows are inserted by ascending id, each a statement of its own.
CopyRow(r) ==
  /\ At(r, "copy")
  /\ \E m \in left[r] :
       /\ \A k \in left[r] : m <= k
       /\ temp[on[r]][m] = NoRow
       /\ temp' = [temp EXCEPT ![on[r]][m] = mine[r][m]]
       /\ left' = [left EXCEPT ![r] = @ \ {m}]
  /\ UNCHANGED <<control, next, shape, rows, backup, locks, pc, call, seen, mine, myBatch>>

\* The slip of not verifying the count.
VerifyCopyNever(r) ==
  /\ At(r, "copy")
  /\ Goto(r, "swap")
  /\ UNCHANGED <<tables, locks, call, work>>

\* The temporary table has the migrations that were read, no more and no less.
VerifyCopy(r) ==
  /\ At(r, "copy") /\ left[r] = {}
  /\ Recorded(temp[on[r]]) = Recorded(mine[r])
  /\ Goto(r, "swap")
  /\ UNCHANGED <<tables, locks, call, work>>

\* One RENAME TABLE for both.
Swap(r) ==
  /\ At(r, "swap")
  /\ temp[on[r]] # NoTable /\ backup[on[r]] = NoTable
  /\ backup' = [backup EXCEPT ![on[r]] = rows[on[r]]]
  /\ rows' = [rows EXCEPT ![on[r]] = temp[on[r]]]
  /\ shape' = [shape EXCEPT ![on[r]] = "v1"]
  /\ temp' = [temp EXCEPT ![on[r]] = NoTable]
  /\ Goto(r, "adoptRow")
  /\ UNCHANGED <<control, next, locks, call, work>>

\* The slip of adding one to what is the next batch already.
BatchAfterTheNext(t) == CHOOSE n \in 2..(MaxBatch + 2) :
                          /\ \A b \in Batches(t) : b + 1 < n
                          /\ n = 2 \/ n - 2 \in Batches(t)

BatchAfter(t) == CHOOSE n \in 1..(MaxBatch + 1) :
                   /\ \A b \in Batches(t) : b < n
                   /\ n = 1 \/ n - 1 \in Batches(t)

\* The control row, from the batches that were read; it must not exist.
InsertAdoptedRow(r) ==
  /\ At(r, "adoptRow")
  /\ next[on[r]] = 0
  /\ next' = [next EXCEPT ![on[r]] = BatchAfter(mine[r])]
  /\ Return(r)
  /\ UNCHANGED <<control, shape, rows, temp, backup>>

\* doRecoverAdoption: the backup is there, the table is not empty, and the
\* control row is made from its rows.
RecoverAdoption(r) ==
  /\ At(r, "recover")
  /\ Interrupted(on[r])
  /\ backup[on[r]] # NoTable
  /\ Recorded(rows[on[r]]) # {}
  /\ next' = [next EXCEPT ![on[r]] = BatchAfter(rows[on[r]])]
  /\ Return(r)
  /\ UNCHANGED <<control, shape, rows, temp, backup>>

-----------------------------------------------------------------------------
\* An error, the end of a session that the runner notices at its next
\* statement, or the end of the process.
Stop(r) ==
  /\ pc[r] # "idle"
  /\ At(r, "adoptRow") => on[r] \in MayDie
  /\ Return(r)
  /\ UNCHANGED tables

\* The server ends the session on which a preview or a status holds the lock,
\* while its bootstrap is at work on another.
LoseOuterSession(r) ==
  /\ PreviewMayLose
  /\ cmd[r] \in {"preview", "status"}
  /\ pc[r] \in {"phaseA", "inventoryA", "phaseB"} /\ Holds(r)
  /\ lock' = [lock EXCEPT ![on[r]] = Free]
  /\ UNCHANGED <<tables, bootLock, pc, call, work>>

\* The deprecated Migrate type, which takes no lock: New creates its table, Up
\* inserts a row for each migration, without state or checksum, its import rows
\* of batch 0, Down and Reset delete rows.  A call has read its batch before it
\* executed the SQL: the rows may have come and gone since, so that the batch may
\* be any.  A v1 table refuses the row and suffers the deletion.
LegacyEnsureTable(s) ==
  /\ shape[s] = "absent"
  /\ shape' = [shape EXCEPT ![s] = "legacy"]
  /\ UNCHANGED <<control, next, rows, temp, backup, locks, pc, call, work>>

LegacyRecord(s) ==
  /\ shape[s] \in {"legacy", "prototype"}
  /\ \E m \in Mig \ Recorded(rows[s]), b \in OldBatches :
       rows' = [rows EXCEPT ![s][m] = b]
  /\ UNCHANGED <<control, next, shape, temp, backup, locks, pc, call, work>>

LegacyRemove(s) ==
  /\ \E m \in Recorded(rows[s]) : rows' = [rows EXCEPT ![s][m] = NoRow]
  /\ UNCHANGED <<control, next, shape, temp, backup, locks, pc, call, work>>

Bootstrap(r) ==
  \/ AcquireBootstrapLock(r) \/ InventoryA(r) \/ AcquireScopeLock(r) \/ InventoryB(r)
  \/ CreateControl(r) \/ CreateState(r) \/ InsertControlRow(r)

Adopt(r) ==
  \/ Detect(r) \/ EnsureControl(r) \/ ReadPrototype(r) \/ CopyRow(r) \/ VerifyCopy(r)
  \/ Swap(r) \/ InsertAdoptedRow(r) \/ RecoverAdoption(r)

Run(r) ==
  \/ AcquireOuterLock(r) \/ LockTimeout(r) \/ Bootstrap(r) \/ Adopt(r)
  \/ Report(r) \/ Allocate(r) \/ Apply(r) \/ Stop(r)

Next ==
  \/ \E r \in Runner : Start(r) \/ Run(r) \/ LoseOuterSession(r)
  \/ \E s \in Legacy : LegacyEnsureTable(s) \/ LegacyRecord(s) \/ LegacyRemove(s)

Spec == Init /\ [][Next]_vars

-----------------------------------------------------------------------------
(* Properties.                                                             *)

\* A command that was told the metadata is ready finds it ready, whoever
\* initialised, adopted or used the scope and the database meanwhile.
BootstrapDelivers ==
  \A r \in Runner : pc[r] \in {"allocate", "apply"} =>
    control /\ shape[on[r]] = "v1" /\ next[on[r]] # 0

\* architecture.md 9: only a table with the v1 layout has a control row, also
\* when a table of another layout appears between the inventory and CREATE.
ControlRowMeansV1 ==
  \A s \in Scope : next[s] # 0 => control /\ shape[s] = "v1"

\* architecture.md 9: gaps in the batches are acceptable, reuse is not.  However
\* late a second bootstrap arrives, next_batch never falls.
NextBatchNeverFalls == [][\A s \in Scope : next'[s] >= next[s]]_vars

\* architecture.md 9: next_batch is above every batch of the table, so that the
\* next writer joins no batch of another.  Holds where no adoption dies half-way.
NextBatchIsFree ==
  \A s \in Scope \ MayDie : next[s] # 0 => \A b \in Batches(rows[s]) : b < next[s]

\* architecture.md 9.3: whatever an adoption goes through, a migration that was
\* recorded stays recorded, with its batch.  (If the prototype is not in use.)
HistoryIsKept ==
  [][\A s \in Scope \ Legacy :
       \A m \in Recorded(rows[s]) : rows'[s][m] = rows[s][m]]_vars

\* architecture.md 9, no command holds both locks: no two runners ever wait for
\* each other's, although a preview does take the lock of bootstrap under its own.
WaitsFor(r, q) == pc[r] \in Waits /\ Wanted(r) = q
NoCircularWait == ~ \E r, q \in Runner : r # q /\ WaitsFor(r, q) /\ WaitsFor(q, r)

-----------------------------------------------------------------------------
(* What the documentation says and the code does not do: each of these is  *)
(* checked by a run that finds it violated.                                *)

\* architecture.md 9.3: ordinary commands never synthesize control state for a
\* table whose adoption was interrupted, so no batch of it is handed out again.
AdoptedBatchesAreFree ==
  \A s \in Scope : next[s] # 0 => \A b \in Batches(rows[s]) : b < next[s]

\* execute_impl.go: bootstrap never waits for the lock its own command holds.
NobodyWaitsForItself == \A r \in Runner : ~WaitsFor(r, r)
=============================================================================
