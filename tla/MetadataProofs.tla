--------------------------- MODULE MetadataProofs ---------------------------
(***************************************************************************)
(* Theorems about Metadata, for any number of runners, scopes, migrations  *)
(* and batches, whatever other programs do beside and wherever adoptions   *)
(* and sessions end.  The inductive invariant is built in layers, each     *)
(* proved with the layers before it as assumptions:                        *)
(*                                                                         *)
(*   TypeInv  types, and who holds which lock where                        *)
(*   Grows    (of a step) tables of the v1 layout, the control table and   *)
(*            its rows stay, and next_batch does not fall                  *)
(*   V1Inv    so what a runner knows of them stays true while it waits     *)
(*   CopyInv  what an adoption has copied agrees with the prototype        *)
(*   FreeInv  rows without a control row are those an adoption is about to *)
(*            make one for, from what it has read                          *)
(***************************************************************************)
EXTENDS Metadata, NumberTheorems

-----------------------------------------------------------------------------
(* The batch after those of a table, by the least-number principle.        *)

\* The batch after a table is above every batch of it, whatever is in the table.
LEMMA BatchAfterIsAbove ==
  ASSUME NEW t \in Contents
  PROVE  BatchAfter(t) \in 1..(MaxBatch + 1) /\ \A b \in Batches(t) : b < BatchAfter(t)
<1>. DEFINE Above == {n \in 1..(MaxBatch + 1) : \A b \in Batches(t) : b < n}
            Is(n) == n = 1 \/ n - 1 \in Batches(t)
<1>1. Batches(t) \in SUBSET (0..MaxBatch)
  BY AbsenceAssumption DEF Contents, Batches, Recorded
<1>2. MaxBatch + 1 \in Above
  BY <1>1, MaxBatchAssumption
<1>3. PICK n \in Above : \A k \in Above : n <= k
  <2>1. Above \in SUBSET Nat
    BY MaxBatchAssumption
  <2>. QED
    BY <1>2, <2>1, LeastNatural
<1>4. n \in 1..(MaxBatch + 1) /\ \A b \in Batches(t) : b < n
  BY <1>3
<1>5. Is(n)
  <2>. SUFFICES ASSUME n # 1 PROVE n - 1 \in Batches(t)
    OBVIOUS
  <2>1. n - 1 \in 1..(MaxBatch + 1) /\ n - 1 \notin Above
    BY <1>3, <1>4, MaxBatchAssumption
  <2>2. PICK b \in Batches(t) : ~(b < n - 1)
    BY <2>1
  <2>. QED
    BY <1>1, <1>4, <2>2, MaxBatchAssumption
<1>6. \E k \in 1..(MaxBatch + 1) : (\A b \in Batches(t) : b < k) /\ Is(k)
  BY <1>4, <1>5
<1>. QED
  BY <1>6 DEF BatchAfter
-----------------------------------------------------------------------------
(* Who holds which lock where.  The lock of bootstrap is held for the      *)
(* inventory of phase A and nowhere else; the lock of a scope is held by a *)
(* command on that scope, in every place that writes.                      *)

WritingPcs == AdoptPcs \cup PhaseB \cup {"allocate", "apply"}

HolderOf(r) ==
  /\ pc[r] # "idle" => on[r] \in Scope
  /\ pc[r] \in WritingPcs => lock[on[r]] = r
  /\ bootLock = r <=> pc[r] = "inventoryA"
  /\ \A s \in Scope : lock[s] = r =>
       /\ on[r] = s /\ pc[r] \notin {"idle", "outerLock"}
       /\ cmd[r] = "write" => pc[r] \in WritingPcs

HolderInv == \A r \in Runner : HolderOf(r)

\* The temporary table is there while rows are copied to it.
TempInv ==
  \A r \in Runner : pc[r] \in {"copy", "swap"} => temp[on[r]] \in Contents

TypeInv == TypeOK /\ HolderInv /\ TempInv

LEMMA PcsFact ==
  /\ Pcs = {"idle", "outerLock", "allocate", "apply", "report", "phaseA", "inventoryA", "phaseB",
            "inventoryB", "createControl", "createState", "insertRow", "detect",
            "ensureControl", "read", "copy", "swap", "adoptRow", "recover"}
  /\ WritingPcs = Pcs \ {"idle", "outerLock", "report", "phaseA", "inventoryA", "phaseB"}
  BY DEF Pcs, BootPcs, PhaseB, AdoptPcs, WritingPcs

\* One step of a runner.
Step(r) == Start(r) \/ Run(r) \/ LoseOuterSession(r)

\* A step leaves the place, the call, the work and the locks of q alone.
Spares(q) ==
  /\ pc'[q] = pc[q] /\ cmd'[q] = cmd[q] /\ on'[q] = on[q] /\ seen'[q] = seen[q]
  /\ mine'[q] = mine[q] /\ left'[q] = left[q] /\ myBatch'[q] = myBatch[q]
  /\ bootLock = q <=> bootLock' = q
  /\ \A s \in Scope : lock[s] = q <=> lock'[s] = q

LEMMA Frame ==
  ASSUME TypeOK, HolderInv, NEW r \in Runner, Step(r), NEW q \in Runner \ {r}
  PROVE  Spares(q)
<1>. USE AbsenceAssumption DEF TypeOK, call, work, locks, Goto, Spares
<1>1. CASE Return(r)
  BY <1>1 DEF Return, LocksWithout, Forget
<1>2. CASE Refuse(r)
  BY <1>1, <1>2 DEF Refuse
<1>3. CASE Start(r)
  BY <1>3 DEF Start
<1>4. CASE AcquireOuterLock(r) \/ AcquireScopeLock(r)
  BY <1>4 DEF AcquireOuterLock, AcquireScopeLock
<1>5. CASE AcquireBootstrapLock(r)
  BY <1>5 DEF AcquireBootstrapLock
<1>6. CASE InventoryA(r)
  <2>1. bootLock # q
    BY <1>6 DEF InventoryA, HolderInv, HolderOf, At
  <2>. QED
    BY <1>2, <1>6, <2>1 DEF InventoryA, Booted
<1>12. CASE InventoryB(r)
  BY <1>1, <1>12 DEF InventoryB
<1>13. CASE CreateControl(r) \/ CreateState(r)
  BY <1>1, <1>13 DEF CreateControl, CreateState
<1>14. CASE InsertControlRow(r)
  <2>1. on[r] \in Scope /\ lock[on[r]] = r
    BY <1>14, PcsFact DEF InsertControlRow, HolderInv, HolderOf, At
  <2>. QED
    BY <1>14, <2>1 DEF InsertControlRow, Booted
<1>7. CASE Detect(r) \/ EnsureControl(r) \/ VerifyCopy(r) \/ Swap(r) \/ Allocate(r)
  BY <1>1, <1>7 DEF Detect, EnsureControl, VerifyCopy, Swap, Allocate
<1>8. CASE ReadPrototype(r)
  BY <1>8 DEF ReadPrototype
<1>9. CASE CopyRow(r)
  BY <1>9 DEF CopyRow
<1>10. CASE LoseOuterSession(r)
  BY <1>10 DEF LoseOuterSession, Holds
<1>11. CASE LockTimeout(r)
  BY <1>2, <1>11 DEF LockTimeout
<1>. QED
  BY <1>1, <1>3, <1>4, <1>5, <1>6, <1>7, <1>8, <1>9, <1>10, <1>11,
     <1>12, <1>13, <1>14
  DEF Step, Run, Bootstrap, Adopt, InsertAdoptedRow, RecoverAdoption, Report, Apply, Stop
-----------------------------------------------------------------------------
(* The locks: an induction of its own, on the types of a few variables.    *)

\* Leaving a command leaves no lock behind.
LEMMA ReturnHolder ==
  ASSUME TypeInv, NEW r \in Runner, Return(r)
  PROVE  HolderOf(r)'
<1>1. pc'[r] = "idle"
  BY DEF Return, Goto, TypeInv, TypeOK
<1>2. bootLock' # r /\ \A s \in Scope : lock'[s] # r
  BY AbsenceAssumption DEF Return, LocksWithout, TypeInv, TypeOK
<1>. QED
  BY <1>1, <1>2, PcsFact DEF HolderOf

\* A status that bootstrap refuses goes on with the lock it began with.
LEMMA RefuseHolder ==
  ASSUME TypeInv, NEW r \in Runner, pc[r] # "idle", Refuse(r)
  PROVE  HolderOf(r)'
<1>1. CASE cmd[r] = "status" /\ Holds(r)
  <2>1. /\ pc'[r] = "report" /\ on' = on /\ cmd' = cmd /\ cmd[r] = "status"
        /\ lock' = lock /\ bootLock' # r
        /\ on[r] \in Scope
    BY <1>1, AbsenceAssumption DEF Refuse, Goto, call, TypeInv, TypeOK, HolderInv, HolderOf
  <2>. QED
    BY <2>1, PcsFact DEF HolderOf, TypeInv, HolderInv
<1>2. CASE Return(r)
  BY <1>2, ReturnHolder
<1>. QED
  BY <1>1, <1>2 DEF Refuse

\* The acting runner holds what its new place requires and nothing else.
LEMMA HolderOwnStep ==
  ASSUME TypeInv, NEW r \in Runner, Step(r)
  PROVE  HolderOf(r)'
<1>t. /\ lock \in [Scope -> Runner \cup {Free}] /\ bootLock \in Runner \cup {Free}
      /\ pc \in [Runner -> Pcs] /\ on \in [Runner -> Scope \cup {NoScope}]
      /\ cmd \in [Runner -> Commands \cup {"none"}] /\ HolderOf(r)
  BY DEF TypeInv, TypeOK, HolderInv
<1>. USE <1>t, AbsenceAssumption, PcsFact DEF HolderOf, call, work, locks, Goto, At
<1>1. CASE Return(r)
  BY <1>1, ReturnHolder
<1>2. CASE pc[r] # "idle" /\ Refuse(r)
  BY <1>2, RefuseHolder
<1>3. CASE Start(r)
  BY <1>3 DEF Start
<1>4. CASE AcquireOuterLock(r)
  BY <1>4 DEF AcquireOuterLock
<1>5. CASE AcquireScopeLock(r)
  BY <1>5 DEF AcquireScopeLock
<1>6. CASE AcquireBootstrapLock(r)
  BY <1>6 DEF AcquireBootstrapLock
<1>7. CASE InventoryA(r)
  <2>1. CASE Refuse(r)
    BY <1>2, <1>7, <2>1 DEF InventoryA
  <2>2. CASE ~Refuse(r)
    <3>1. /\ pc'[r] \in {"outerLock", "report", "phaseB"} /\ bootLock' = Free
          /\ lock' = lock /\ on' = on
      BY <1>7, <2>2 DEF InventoryA, Booted
    <3>2. cmd' = cmd /\ (pc'[r] = "outerLock" => cmd[r] = "write")
      BY <1>7, <2>2 DEF InventoryA, Booted
    <3>. QED
      BY <1>7, <3>1, <3>2 DEF InventoryA
  <2>. QED
    BY <2>1, <2>2
<1>8. CASE InventoryB(r)
  BY <1>1, <1>8 DEF InventoryB
<1>9. CASE CreateControl(r) \/ CreateState(r)
  BY <1>1, <1>9 DEF CreateControl, CreateState
<1>10. CASE InsertControlRow(r)
  BY <1>10 DEF InsertControlRow, Booted
<1>11. CASE Detect(r) \/ EnsureControl(r) \/ VerifyCopy(r) \/ Swap(r)
  BY <1>1, <1>11 DEF Detect, EnsureControl, VerifyCopy, Swap
<1>12. CASE ReadPrototype(r) \/ CopyRow(r)
  BY <1>12 DEF ReadPrototype, CopyRow
<1>13. CASE Allocate(r)
  BY <1>13 DEF Allocate
<1>14. CASE LoseOuterSession(r)
  BY <1>14 DEF LoseOuterSession, Holds
<1>15. CASE LockTimeout(r)
  BY <1>2, <1>15 DEF LockTimeout, Waits
<1>. QED
  BY <1>1, <1>3, <1>4, <1>5, <1>6, <1>7, <1>8, <1>9, <1>10, <1>11, <1>12, <1>13, <1>14, <1>15
  DEF Step, Run, Bootstrap, Adopt, InsertAdoptedRow, RecoverAdoption, Report, Apply, Stop

LEMMA HolderStep ==
  ASSUME TypeInv, NEW r \in Runner, Step(r)
  PROVE  HolderInv'
<1>1. ASSUME NEW q \in Runner \ {r} PROVE HolderOf(q)'
  <2>1. Spares(q) /\ HolderOf(q)
    BY Frame DEF TypeInv, HolderInv
  <2>. QED
    BY <2>1, PcsFact DEF Spares, HolderOf
<1>. QED
  BY <1>1, HolderOwnStep DEF HolderInv
-----------------------------------------------------------------------------
(* Types.                                                                  *)

LEMMA ReturnType ==
  ASSUME TypeOK, NEW r \in Runner, Return(r)
  PROVE  /\ lock' \in [Scope -> Runner \cup {Free}] /\ bootLock' \in Runner \cup {Free}
         /\ pc' \in [Runner -> Pcs] /\ cmd' \in [Runner -> Commands \cup {"none"}]
         /\ on' \in [Runner -> Scope \cup {NoScope}]
         /\ seen' \in [Runner -> [control : BOOLEAN, shape : Shape]]
         /\ mine' \in [Runner -> Contents] /\ left' \in [Runner -> SUBSET Mig]
         /\ myBatch' \in [Runner -> 0..MaxBatch]
<1>1. Nothing \in [control : BOOLEAN, shape : Shape] /\ Empty \in Contents /\ 0 \in 0..MaxBatch
  BY MaxBatchAssumption DEF Nothing, Shape, Empty, Contents
<1>. QED
  BY <1>1, PcsFact DEF Return, LocksWithout, Forget, Goto, TypeOK

\* The types of what a runner is and has, and of the locks.
RunnerTypes ==
  /\ lock \in [Scope -> Runner \cup {Free}] /\ bootLock \in Runner \cup {Free}
  /\ pc \in [Runner -> Pcs] /\ cmd \in [Runner -> Commands \cup {"none"}]
  /\ on \in [Runner -> Scope \cup {NoScope}]
  /\ seen \in [Runner -> [control : BOOLEAN, shape : Shape]]
  /\ mine \in [Runner -> Contents] /\ left \in [Runner -> SUBSET Mig]
  /\ myBatch \in [Runner -> 0..MaxBatch]

\* The types of the tables.
TableTypes ==
  /\ control \in BOOLEAN /\ next \in [Scope -> 0..(MaxBatch + 1)]
  /\ shape \in [Scope -> Shape] /\ rows \in [Scope -> Contents]
  /\ temp \in [Scope -> Contents \cup {NoTable}] /\ backup \in [Scope -> Contents \cup {NoTable}]

LEMMA TypesSplit == TypeOK <=> RunnerTypes /\ TableTypes
  BY DEF TypeOK, RunnerTypes, TableTypes

LEMMA RefuseType ==
  ASSUME TypeOK, NEW r \in Runner, Refuse(r)
  PROVE  RunnerTypes'
<1>1. CASE Return(r)
  BY <1>1, ReturnType DEF RunnerTypes
<1>2. CASE ~Return(r)
  BY <1>2, PcsFact DEF Refuse, Goto, call, work, TypeOK, RunnerTypes
<1>. QED
  BY <1>1, <1>2

LEMMA RunnerTypesStep ==
  ASSUME TypeInv, NEW r \in Runner, Step(r)
  PROVE  RunnerTypes'
<1>t. RunnerTypes /\ TypeOK /\ HolderOf(r)
  BY TypesSplit DEF TypeInv, HolderInv
<1>. USE <1>t, PcsFact DEF RunnerTypes, call, work, locks, Goto, At
<1>1. CASE Return(r)
  BY <1>1, ReturnType
<1>2. CASE Refuse(r)
  BY <1>2, RefuseType
<1>3. CASE Start(r)
  BY <1>3 DEF Start
<1>4. CASE AcquireOuterLock(r)
  <2>1. /\ \E p \in {"allocate", "detect", "phaseA"} : pc' = [pc EXCEPT ![r] = p]
        /\ lock' = [lock EXCEPT ![on[r]] = r] /\ UNCHANGED <<bootLock, call, work>>
    BY <1>4 DEF AcquireOuterLock
  <2>. QED
    BY <2>1
<1>16. CASE AcquireScopeLock(r)
  BY <1>16 DEF AcquireScopeLock
<1>5. CASE AcquireBootstrapLock(r)
  BY <1>5 DEF AcquireBootstrapLock
<1>6. CASE InventoryA(r)
  BY <1>2, <1>6 DEF InventoryA, Booted
<1>7. CASE InventoryB(r)
  <2>1. [control |-> control, shape |-> shape[on[r]]] \in [control : BOOLEAN, shape : Shape]
    BY <1>7 DEF InventoryB, TypeOK, HolderOf
  <2>2. CASE ~Return(r)
    <3>1. /\ seen' = [seen EXCEPT ![r] = [control |-> control, shape |-> shape[on[r]]]]
          /\ pc' = [pc EXCEPT ![r] = "createControl"]
          /\ UNCHANGED <<locks, call, mine, left, myBatch>>
      BY <1>7, <2>2 DEF InventoryB
    <3>2. seen' \in [Runner -> [control : BOOLEAN, shape : Shape]]
      BY <2>1, <3>1
    <3>. QED
      BY <3>1, <3>2
  <2>. QED
    BY <1>1, <2>2
<1>8. CASE CreateControl(r) \/ CreateState(r)
  BY <1>1, <1>8 DEF CreateControl, CreateState
<1>9. CASE InsertControlRow(r)
  BY <1>9 DEF InsertControlRow, Booted
<1>10. CASE Detect(r) \/ EnsureControl(r) \/ VerifyCopy(r) \/ Swap(r)
  BY <1>1, <1>10 DEF Detect, EnsureControl, VerifyCopy, Swap
<1>11. CASE ReadPrototype(r)
  <2>1. rows[on[r]] \in Contents /\ Recorded(rows[on[r]]) \in SUBSET Mig
    BY <1>11 DEF ReadPrototype, TypeOK, HolderOf, Recorded
  <2>. QED
    BY <1>11, <2>1 DEF ReadPrototype
<1>12. CASE CopyRow(r)
  BY <1>12 DEF CopyRow
<1>13. CASE Allocate(r)
  BY <1>13 DEF Allocate
<1>14. CASE LoseOuterSession(r)
  BY <1>14 DEF LoseOuterSession
<1>15. CASE LockTimeout(r)
  BY <1>2, <1>15 DEF LockTimeout
<1>. QED
  BY <1>1, <1>3, <1>4, <1>5, <1>6, <1>7, <1>8, <1>9, <1>10, <1>11, <1>12, <1>13, <1>14, <1>15,
     <1>16
  DEF Step, Run, Bootstrap, Adopt, InsertAdoptedRow, RecoverAdoption, Report, Apply, Stop

\* The rows of a table, one of them rewritten, are rows of a table.
LEMMA WriteRow ==
  ASSUME NEW t \in Contents, NEW m \in Mig, NEW b \in (0..MaxBatch) \cup {NoRow}
  PROVE  [t EXCEPT ![m] = b] \in Contents
  BY DEF Contents

LEMMA TableTypesStep ==
  ASSUME TypeInv, NEW r \in Runner, Step(r)
  PROVE  TableTypes'
<1>t. TableTypes /\ RunnerTypes /\ HolderOf(r)
  BY TypesSplit DEF TypeInv, HolderInv
<1>. USE <1>t, PcsFact DEF TableTypes, tables, At
<1>1. CASE UNCHANGED tables
  BY <1>1
<1>2. CASE CreateControl(r) \/ EnsureControl(r)
  BY <1>2 DEF CreateControl, EnsureControl, RunnerTypes
<1>3. CASE CreateState(r)
  BY <1>3 DEF CreateState, Shape
<1>4. CASE InsertControlRow(r)
  <2>1. \A n \in 0..(MaxBatch + 1) : (IF n = 0 THEN 1 ELSE n) \in 0..(MaxBatch + 1)
    BY MaxBatchAssumption
  <2>2. next' \in [Scope -> 0..(MaxBatch + 1)]
    BY <1>4, <2>1 DEF InsertControlRow
  <2>. QED
    BY <1>4, <2>2 DEF InsertControlRow
<1>5. CASE Allocate(r)
  BY <1>5, MaxBatchAssumption DEF Allocate, HolderOf
<1>6. CASE Apply(r)
  <2>1. PICK m \in Mig : rows' = [rows EXCEPT ![on[r]][m] = myBatch[r]]
    BY <1>6 DEF Apply
  <2>2. on[r] \in Scope /\ [rows[on[r]] EXCEPT ![m] = myBatch[r]] \in Contents
    BY <1>6, WriteRow DEF Apply, HolderOf, RunnerTypes
  <2>. QED
    BY <1>6, <2>1, <2>2 DEF Apply
<1>7. CASE ReadPrototype(r)
  <2>1. Empty \in Contents
    BY DEF Empty, Contents
  <2>. QED
    BY <1>7, <2>1 DEF ReadPrototype
<1>8. CASE CopyRow(r)
  <2>1. PICK m \in left[r] : temp' = [temp EXCEPT ![on[r]][m] = mine[r][m]]
    BY <1>8 DEF CopyRow
  <2>2. m \in Mig /\ mine[r][m] \in (0..MaxBatch) \cup {NoRow}
    BY DEF RunnerTypes, Contents
  <2>3. on[r] \in Scope /\ temp[on[r]] \in Contents
    BY <1>8 DEF CopyRow, HolderOf, TypeInv, TempInv
  <2>4. [temp[on[r]] EXCEPT ![m] = mine[r][m]] \in Contents
    BY <2>2, <2>3, WriteRow
  <2>. QED
    BY <1>8, <2>1, <2>3, <2>4 DEF CopyRow
<1>9. CASE Swap(r)
  <2>1. on[r] \in Scope /\ temp[on[r]] \in Contents
    BY <1>9 DEF Swap, HolderOf, TypeInv, TempInv
  <2>. QED
    BY <1>9, <2>1 DEF Swap, Shape
<1>10. CASE InsertAdoptedRow(r)
  <2>1. BatchAfter(mine[r]) \in 0..(MaxBatch + 1)
    BY BatchAfterIsAbove, MaxBatchAssumption DEF RunnerTypes
  <2>. QED
    BY <1>10, <2>1 DEF InsertAdoptedRow
<1>11. CASE RecoverAdoption(r)
  <2>1. on[r] \in Scope /\ rows[on[r]] \in Contents
    BY <1>11 DEF RecoverAdoption, HolderOf
  <2>2. BatchAfter(rows[on[r]]) \in 0..(MaxBatch + 1)
    BY <2>1, BatchAfterIsAbove, MaxBatchAssumption
  <2>. QED
    BY <1>11, <2>1, <2>2 DEF RecoverAdoption
<1>. QED
  BY <1>1, <1>2, <1>3, <1>4, <1>5, <1>6, <1>7, <1>8, <1>9, <1>10, <1>11
  DEF Step, Run, Bootstrap, Adopt, Start, AcquireOuterLock, LockTimeout, AcquireBootstrapLock,
      InventoryA, AcquireScopeLock, InventoryB, Detect, VerifyCopy, Report, Stop,
      LoseOuterSession

\* Nobody but the holder of the lock touches the temporary table.
LEMMA TempStep ==
  ASSUME TypeInv, NEW r \in Runner, Step(r)
  PROVE  TempInv'
<1>. SUFFICES ASSUME NEW q \in Runner, pc'[q] \in {"copy", "swap"}
              PROVE  temp'[on'[q]] \in Contents
  BY DEF TempInv
<1>t. TableTypes /\ RunnerTypes /\ HolderOf(r) /\ HolderOf(q) /\ TableTypes'
  BY TypesSplit, TableTypesStep DEF TypeInv, HolderInv
<1>1. CASE q = r
  <2>1. Return(r) \/ Refuse(r) => pc'[r] \notin {"copy", "swap"}
    BY <1>t DEF Return, Refuse, Goto, RunnerTypes
  <2>2. CASE ReadPrototype(r)
    <3>1. Empty \in Contents
      BY DEF Empty, Contents
    <3>. QED
      BY <1>1, <1>t, <2>2, <3>1, PcsFact
      DEF ReadPrototype, HolderOf, TableTypes, At, call
  <2>3. CASE CopyRow(r)
    <3>1. PICK m \in left[r] : temp' = [temp EXCEPT ![on[r]][m] = mine[r][m]]
      BY <2>3 DEF CopyRow
    <3>2. m \in Mig /\ mine[r][m] \in (0..MaxBatch) \cup {NoRow}
      BY <1>t DEF RunnerTypes, Contents
    <3>3. on[r] \in Scope /\ temp[on[r]] \in Contents /\ on' = on
      BY <1>t, <2>3 DEF CopyRow, HolderOf, TypeInv, TempInv, At, call
    <3>4. [temp[on[r]] EXCEPT ![m] = mine[r][m]] \in Contents
      BY <3>2, <3>3, WriteRow
    <3>. QED
      BY <1>1, <1>t, <3>1, <3>3, <3>4 DEF TableTypes
  <2>4. CASE VerifyCopy(r)
    BY <1>1, <2>4 DEF VerifyCopy, TypeInv, TempInv, At, tables, call
  <2>5. CASE LoseOuterSession(r)
    BY <1>1, <2>5 DEF LoseOuterSession
  <2>. QED
    BY <1>1, <1>t, <2>1, <2>2, <2>3, <2>4, <2>5
    DEF Step, Run, Bootstrap, Adopt, Start, AcquireOuterLock, LockTimeout, AcquireBootstrapLock,
        InventoryA, AcquireScopeLock, InventoryB, CreateControl, CreateState, InsertControlRow,
        Booted, Detect, EnsureControl, Swap, InsertAdoptedRow, RecoverAdoption, Report, Allocate,
        Apply, Stop, Goto, RunnerTypes
<1>2. CASE q # r
  <2>1. Spares(q)
    BY <1>2, Frame DEF TypeInv
  <2>2. /\ on[q] \in Scope /\ lock[on[q]] = q /\ on'[q] = on[q] /\ temp[on[q]] \in Contents
    BY <1>t, <2>1, PcsFact DEF Spares, HolderOf, TypeInv, TempInv
  <2>3. pc[r] \in WritingPcs => on[r] # on[q] /\ on[r] \in Scope
    BY <1>2, <1>t, <2>2, PcsFact DEF HolderOf
  <2>4. temp' = temp \/ \E x : pc[r] \in WritingPcs /\ temp' = [temp EXCEPT ![on[r]] = x]
    BY PcsFact
    DEF Step, Run, Bootstrap, Adopt, Start, AcquireOuterLock, LockTimeout, AcquireBootstrapLock,
        InventoryA, AcquireScopeLock, InventoryB, CreateControl, CreateState, InsertControlRow,
        Detect, EnsureControl, ReadPrototype, CopyRow, VerifyCopy, Swap, InsertAdoptedRow,
        RecoverAdoption, Report, Allocate, Apply, Stop, LoseOuterSession, tables, At
  <2>. QED
    BY <1>t, <2>2, <2>3, <2>4 DEF TableTypes
<1>. QED
  BY <1>1, <1>2

LEMMA TypeInit == Init => TypeInv
<1>. SUFFICES ASSUME Init PROVE TypeInv
  OBVIOUS
<1>1. Nothing \in [control : BOOLEAN, shape : Shape] /\ Empty \in Contents /\ 0 \in 0..MaxBatch
  BY MaxBatchAssumption DEF Nothing, Shape, Empty, Contents
<1>2. TypeOK
  <2>1. shape \in [Scope -> Shape] /\ next \in [Scope -> 0..(MaxBatch + 1)]
    BY MaxBatchAssumption DEF Init, Shape
  <2>2. /\ pc \in [Runner -> Pcs] /\ seen \in [Runner -> [control : BOOLEAN, shape : Shape]]
        /\ mine \in [Runner -> Contents] /\ myBatch \in [Runner -> 0..MaxBatch]
    BY <1>1, PcsFact DEF Init
  <2>3. [Mig -> OldBatches \cup {NoRow}] \subseteq Contents
    BY OldBatchAssumption DEF Contents
  <2>4. rows \in [Scope -> Contents]
    BY <2>3 DEF Init
  <2>. QED
    BY <2>1, <2>2, <2>4 DEF Init, TypeOK
<1>3. HolderInv /\ TempInv
  BY AbsenceAssumption, PcsFact DEF Init, HolderInv, HolderOf, TempInv
<1>. QED
  BY <1>2, <1>3 DEF TypeInv

\* What the deprecated type does to the tables, which is all it does.
LegacyStep(s) == LegacyEnsureTable(s) \/ LegacyRecord(s) \/ LegacyRemove(s)

LEMMA LegacyTypes ==
  ASSUME TypeInv, NEW s \in Legacy, LegacyStep(s)
  PROVE  /\ UNCHANGED <<control, next, temp, backup, locks, pc, call, work>>
         /\ rows' \in [Scope -> Contents] /\ shape' \in [Scope -> Shape]
         /\ shape' = shape \/ (shape[s] = "absent" /\ shape' = [shape EXCEPT ![s] = "legacy"])
<1>. s \in Scope /\ rows \in [Scope -> Contents] /\ shape \in [Scope -> Shape]
  BY EnvironmentAssumption DEF TypeInv, TypeOK
<1>1. CASE LegacyEnsureTable(s)
  BY <1>1 DEF LegacyEnsureTable, Shape
<1>2. CASE LegacyRecord(s)
  <2>1. PICK m \in Mig, b \in 0..MaxBatch : rows' = [rows EXCEPT ![s][m] = b]
    BY <1>2, OldBatchAssumption DEF LegacyRecord
  <2>2. [rows[s] EXCEPT ![m] = b] \in Contents
    BY WriteRow, MaxBatchAssumption
  <2>. QED
    BY <1>2, <2>1, <2>2 DEF LegacyRecord
<1>3. CASE LegacyRemove(s)
  <2>1. PICK m \in Mig : rows' = [rows EXCEPT ![s][m] = NoRow]
    BY <1>3 DEF LegacyRemove, Recorded
  <2>2. [rows[s] EXCEPT ![m] = NoRow] \in Contents
    BY WriteRow
  <2>. QED
    BY <1>3, <2>1, <2>2 DEF LegacyRemove
<1>. QED
  BY <1>1, <1>2, <1>3 DEF LegacyStep

LEMMA TypeStep == TypeInv /\ [Next]_vars => TypeInv'
<1>. SUFFICES ASSUME TypeInv, [Next]_vars PROVE TypeInv'
  OBVIOUS
<1>1. ASSUME NEW r \in Runner, Step(r) PROVE TypeInv'
  <2>1. TypeOK'
    BY <1>1, RunnerTypesStep, TableTypesStep DEF TypeOK, RunnerTypes, TableTypes
  <2>. QED
    BY <1>1, <2>1, HolderStep, TempStep DEF TypeInv
<1>2. ASSUME NEW s \in Legacy, LegacyStep(s) PROVE TypeInv'
  BY <1>2, LegacyTypes DEF TypeInv, TypeOK, HolderInv, HolderOf, TempInv, locks, call, work
<1>3. CASE UNCHANGED vars
  BY <1>3 DEF vars, tables, locks, call, work, TypeInv, TypeOK, HolderInv, HolderOf, TempInv
<1>. QED
  BY <1>1, <1>2, <1>3 DEF Next, Step, LegacyStep

LEMMA TypeInvHolds == Spec => []TypeInv
  BY TypeInit, TypeStep, PTL DEF Spec

\* Every variable keeps its type: no batch outgrows what the control row can
\* hold, and no runner is at a place the code does not have.
THEOREM MetadataTypeCorrect == Spec => []TypeOK
  BY TypeInvHolds, PTL DEF TypeInv

\* Two runners never wait for each other, whatever scopes they are on: who waits
\* for bootstrap waits for a runner that waits for nothing, and who waits for a
\* scope waits for a runner of the same scope.
THEOREM NoCircularWaitHolds == Spec => []NoCircularWait
<1>1. TypeInv => NoCircularWait
  <2>. SUFFICES ASSUME TypeInv, NEW r \in Runner, NEW q \in Runner, r # q,
                       WaitsFor(r, q), WaitsFor(q, r)
                PROVE  FALSE
    BY DEF NoCircularWait
  <2>1. HolderOf(r) /\ HolderOf(q)
    BY DEF TypeInv, HolderInv
  <2>2. /\ pc[r] \in {"outerLock", "phaseB"} /\ lock[on[r]] = q
        /\ pc[q] \in {"outerLock", "phaseB"} /\ lock[on[q]] = r
    BY <2>1 DEF WaitsFor, Wanted, Waits, At, HolderOf
  <2>. QED
    BY <2>1, <2>2 DEF HolderOf
<1>. QED
  BY <1>1, TypeInvHolds, PTL

-----------------------------------------------------------------------------
(* The tables.  What bootstrap and adoption find and make only grows, so   *)
(* what a runner has seen of it stays true.                                *)

\* No step takes a control table, a v1 table or a batch away.
Grows ==
  /\ control => control'
  /\ \A s \in Scope : /\ shape[s] = "v1" => shape'[s] = "v1"
                      /\ next'[s] >= next[s]

LEMMA GrowsOwnStep ==
  ASSUME TypeInv, NEW r \in Runner, Step(r)
  PROVE  Grows
<1>t. TableTypes /\ TableTypes' /\ HolderOf(r) /\ RunnerTypes
  BY TypesSplit, TableTypesStep DEF TypeInv, HolderInv
<1>n. \A s \in Scope : next[s] \in Nat /\ next'[s] \in Nat
  BY <1>t, MaxBatchAssumption DEF TableTypes
<1>1. CASE UNCHANGED <<control, shape, next>>
  BY <1>1, <1>n DEF Grows
<1>2. CASE CreateControl(r) \/ EnsureControl(r)
  <2>1. control => control'
    BY <1>2, Zenon DEF CreateControl, EnsureControl
  <2>2. shape' = shape /\ next' = next
    BY <1>2 DEF CreateControl, EnsureControl
  <2>. QED
    BY <2>1, <2>2, <1>n DEF Grows
<1>3. CASE CreateState(r) \/ Swap(r)
  BY <1>3, <1>t, <1>n, PcsFact DEF CreateState, Swap, Grows, TableTypes, HolderOf, At
<1>4. CASE InsertControlRow(r) \/ Allocate(r)
  BY <1>4, <1>t, <1>n, PcsFact DEF InsertControlRow, Allocate, Grows, TableTypes, HolderOf, At
<1>5. CASE InsertAdoptedRow(r) \/ RecoverAdoption(r)
  <2>1. /\ control' = control /\ shape' = shape
        /\ \A s \in Scope : s # on[r] => next'[s] = next[s]
        /\ next[on[r]] = 0
    BY <1>5, <1>t DEF InsertAdoptedRow, RecoverAdoption, Interrupted, TableTypes
  <2>. QED
    BY <2>1, <1>n DEF Grows
<1>. QED
  BY <1>1, <1>2, <1>3, <1>4, <1>5
  DEF Step, Run, Bootstrap, Adopt, Start, AcquireOuterLock, LockTimeout, AcquireBootstrapLock,
      InventoryA, AcquireScopeLock, InventoryB, Detect, ReadPrototype, CopyRow, VerifyCopy,
      Report, Apply, Stop, LoseOuterSession, tables

LEMMA GrowsStep == TypeInv /\ [Next]_vars => Grows
<1>. SUFFICES ASSUME TypeInv, [Next]_vars PROVE Grows
  OBVIOUS
<1>n. \A s \in Scope : next[s] \in Nat
  BY MaxBatchAssumption DEF TypeInv, TypeOK
<1>1. ASSUME NEW r \in Runner, Step(r) PROVE Grows
  BY <1>1, GrowsOwnStep
<1>2. ASSUME NEW s \in Legacy, LegacyStep(s) PROVE Grows
  BY <1>2, <1>n, LegacyTypes, EnvironmentAssumption DEF Grows, TypeInv, TypeOK
<1>3. CASE UNCHANGED vars
  BY <1>3, <1>n DEF vars, tables, Grows
<1>. QED
  BY <1>1, <1>2, <1>3 DEF Next, Step, LegacyStep

\* Batches are never taken back: not by a second bootstrap, not by an adoption
\* or a recovery that comes late.
THEOREM NextBatchNeverFallsHolds == Spec => NextBatchNeverFalls
<1>1. TypeInv /\ [Next]_vars => [\A s \in Scope : next'[s] >= next[s]]_vars
  BY GrowsStep DEF Grows
<1>. QED
  BY <1>1, TypeInvHolds, PTL DEF Spec, NextBatchNeverFalls

-----------------------------------------------------------------------------
(* Tables of the v1 layout: what bootstrap and adoption know as they go.   *)

Ready(s) == control /\ shape[s] = "v1" /\ next[s] # 0

ProgressOf(r) ==
  /\ pc[r] \in {"createControl", "createState"} =>
       /\ seen[r].shape \in {"absent", "v1"}
       /\ seen[r].shape = "v1" => shape[on[r]] = "v1"
  /\ pc[r] = "createControl" /\ seen[r].control => control
  /\ pc[r] \in {"createState", "insertRow", "read", "copy", "swap", "adoptRow"} => control
  /\ pc[r] \in {"insertRow", "adoptRow"} => shape[on[r]] = "v1"
  /\ pc[r] \in {"allocate", "apply"} => cmd[r] = "write"
  /\ cmd[r] = "write" /\ pc[r] \in {"outerLock", "allocate", "apply"} => Ready(on[r])

V1Inv == ControlRowMeansV1 /\ \A r \in Runner : ProgressOf(r)

\* Whatever a runner knows survives the steps of the others.
LEMMA ProgressFrame ==
  ASSUME TypeInv, Grows, NEW q \in Runner, Spares(q), ProgressOf(q)
  PROVE  ProgressOf(q)'
<1>1. pc[q] # "idle" => on[q] \in Scope
  BY DEF TypeInv, HolderInv, HolderOf
<1>2. \A s \in Scope : Ready(s) => Ready(s)'
  BY MaxBatchAssumption DEF Grows, Ready, TypeInv, TypeOK
<1>. QED
  BY <1>1, <1>2 DEF Spares, Grows, ProgressOf, Ready

LEMMA ProgressOwnStep ==
  ASSUME TypeInv, TypeInv', Grows, V1Inv, NEW r \in Runner, Step(r)
  PROVE  ProgressOf(r)'
<1>t. /\ pc \in [Runner -> Pcs] /\ cmd \in [Runner -> Commands \cup {"none"}]
      /\ on \in [Runner -> Scope \cup {NoScope}] /\ shape \in [Scope -> Shape]
      /\ next \in [Scope -> 0..(MaxBatch + 1)] /\ HolderOf(r) /\ ProgressOf(r)
      /\ seen \in [Runner -> [control : BOOLEAN, shape : Shape]]
  BY DEF TypeInv, TypeOK, HolderInv, V1Inv
<1>r. \A s \in Scope : Ready(s) => Ready(s)'
  BY MaxBatchAssumption DEF Grows, Ready, TypeInv, TypeOK
<1>. USE <1>t, PcsFact DEF call, work, locks, tables, Goto, At, ProgressOf
<1>1. CASE Return(r)
  BY <1>1 DEF Return
<1>2. CASE Refuse(r)
  BY <1>1, <1>2 DEF Refuse
<1>3. CASE Start(r)
  BY <1>3 DEF Start
<1>4. CASE AcquireOuterLock(r)
  <2>1. /\ cmd' = cmd /\ on' = on /\ seen' = seen /\ pc[r] = "outerLock" /\ on[r] \in Scope
        /\ pc'[r] = IF cmd[r] = "write" THEN "allocate"
                    ELSE IF cmd[r] = "adopt" THEN "detect" ELSE "phaseA"
    BY <1>4 DEF AcquireOuterLock, HolderOf
  <2>. QED
    BY <1>r, <2>1
<1>5. CASE AcquireBootstrapLock(r) \/ AcquireScopeLock(r) \/ LoseOuterSession(r)
  BY <1>5 DEF AcquireBootstrapLock, AcquireScopeLock, LoseOuterSession
<1>6. CASE InventoryA(r)
  <2>1. on[r] \in Scope /\ UNCHANGED tables
    BY <1>6 DEF InventoryA, HolderOf
  <2>2. CASE control /\ next[on[r]] # 0 /\ shape[on[r]] = "v1"
    <3>1. /\ pc'[r] \in {"outerLock", "report"} /\ cmd' = cmd /\ on' = on
      BY <1>6, <2>2 DEF InventoryA, Booted
    <3>. QED
      BY <2>1, <2>2, <3>1 DEF Ready
  <2>3. CASE ~(control /\ next[on[r]] # 0 /\ shape[on[r]] = "v1")
    BY <1>2, <1>6, <2>3 DEF InventoryA
  <2>. QED
    BY <2>2, <2>3
<1>7. CASE InventoryB(r)
  <2>1. CASE Return(r)
    BY <1>1, <2>1
  <2>2. CASE ~Return(r)
    <3>1. /\ seen' = [seen EXCEPT ![r] = [control |-> control, shape |-> shape[on[r]]]]
          /\ pc' = [pc EXCEPT ![r] = "createControl"] /\ UNCHANGED <<tables, call>>
          /\ shape[on[r]] \notin {"prototype", "legacy"}
      BY <1>7, <2>2 DEF InventoryB
    <3>2. on[r] \in Scope /\ shape[on[r]] \in {"absent", "v1"}
      BY <1>7, <3>1 DEF InventoryB, HolderOf, Shape
    <3>3. seen'[r].control = control /\ seen'[r].shape = shape[on[r]]
      BY <3>1
    <3>. QED
      BY <3>1, <3>2, <3>3
  <2>. QED
    BY <2>1, <2>2
<1>8. CASE CreateControl(r)
  <2>1. control'
    BY <1>8 DEF CreateControl
  <2>2. pc'[r] = "createState" /\ shape' = shape /\ UNCHANGED <<call, work>>
    BY <1>8 DEF CreateControl
  <2>. QED
    BY <1>8, <2>1, <2>2 DEF CreateControl
<1>9. CASE CreateState(r)
  <2>1. CASE Return(r)
    BY <1>1, <2>1
  <2>2. CASE ~Return(r)
    <3>1. /\ pc'[r] = "insertRow" /\ control' = control /\ control /\ UNCHANGED call
          /\ ~(seen[r].shape = "absent" /\ shape'[on[r]] # "v1")
      BY <1>9, <2>2 DEF CreateState
    <3>2. on[r] \in Scope /\ (shape[on[r]] = "v1" => shape'[on[r]] = "v1")
      BY <1>9 DEF CreateState, HolderOf, Grows
    <3>3. shape'[on[r]] = "v1"
      BY <1>9, <3>1, <3>2 DEF CreateState
    <3>. QED
      BY <3>1, <3>3
  <2>. QED
    BY <2>1, <2>2
<1>10. CASE InsertControlRow(r)
  <2>1. /\ on[r] \in Scope /\ control /\ shape[on[r]] = "v1"
        /\ pc'[r] \in {"outerLock", "report"} /\ on' = on /\ cmd' = cmd
        /\ control' = control /\ shape' = shape /\ next'[on[r]] # 0
    BY <1>10, MaxBatchAssumption DEF InsertControlRow, Booted, HolderOf
  <2>. QED
    BY <2>1 DEF Ready
<1>11. CASE Allocate(r)
  BY <1>11, <1>r DEF Allocate, HolderOf
<1>12. CASE Detect(r)
  BY <1>1, <1>12 DEF Detect
<1>13. CASE EnsureControl(r) \/ ReadPrototype(r) \/ CopyRow(r) \/ VerifyCopy(r)
  BY <1>13 DEF EnsureControl, ReadPrototype, CopyRow, VerifyCopy
<1>14. CASE Swap(r)
  BY <1>14 DEF Swap, HolderOf
<1>15. CASE LockTimeout(r)
  BY <1>2, <1>15 DEF LockTimeout
<1>. QED
  BY <1>1, <1>3, <1>4, <1>5, <1>6, <1>7, <1>8, <1>9, <1>10, <1>11, <1>12, <1>13, <1>14, <1>15
  DEF Step, Run, Bootstrap, Adopt, InsertAdoptedRow, RecoverAdoption, Report, Apply, Stop

LEMMA ControlRowStep ==
  ASSUME TypeInv, Grows, V1Inv, NEW r \in Runner, Step(r)
  PROVE  ControlRowMeansV1'
<1>t. HolderOf(r) /\ ProgressOf(r) /\ next \in [Scope -> 0..(MaxBatch + 1)]
  BY DEF TypeInv, TypeOK, HolderInv, V1Inv
<1>1. next' = next
        \/ \E n : /\ next' = [next EXCEPT ![on[r]] = n] /\ on[r] \in Scope
                  /\ control /\ shape[on[r]] = "v1"
  <2>1. CASE InsertControlRow(r) \/ InsertAdoptedRow(r)
    BY <1>t, <2>1 DEF InsertControlRow, InsertAdoptedRow, ProgressOf, HolderOf, At
  <2>2. CASE Allocate(r)
    BY <1>t, <2>2 DEF Allocate, ProgressOf, HolderOf, At, Ready
  <2>3. CASE RecoverAdoption(r)
    BY <1>t, <2>3 DEF RecoverAdoption, Interrupted, HolderOf, At
  <2>. QED
    BY <2>1, <2>2, <2>3
    DEF Step, Run, Bootstrap, Adopt, Start, AcquireOuterLock, LockTimeout, AcquireBootstrapLock,
        InventoryA, AcquireScopeLock, InventoryB, CreateControl, CreateState, Detect,
        EnsureControl, ReadPrototype, CopyRow, VerifyCopy, Swap, Report, Apply, Stop,
        LoseOuterSession, tables
<1>. QED
  BY <1>t, <1>1 DEF V1Inv, ControlRowMeansV1, Grows

LEMMA V1Init == Init => V1Inv
  BY DEF Init, V1Inv, ControlRowMeansV1, ProgressOf

LEMMA V1Step == TypeInv /\ V1Inv /\ [Next]_vars => V1Inv'
<1>. SUFFICES ASSUME TypeInv, V1Inv, [Next]_vars PROVE V1Inv'
  OBVIOUS
<1>g. Grows /\ TypeInv'
  BY GrowsStep, TypeStep
<1>1. ASSUME NEW r \in Runner, Step(r) PROVE V1Inv'
  <2>1. ASSUME NEW q \in Runner \ {r} PROVE ProgressOf(q)'
    BY <1>1, <1>g, Frame, ProgressFrame DEF TypeInv, V1Inv
  <2>. QED
    BY <1>1, <1>g, <2>1, ProgressOwnStep, ControlRowStep DEF V1Inv
<1>2. ASSUME NEW s \in Legacy, LegacyStep(s) PROVE V1Inv'
  <2>1. /\ UNCHANGED <<control, next, pc, call, work, locks>>
        /\ \A k \in Scope : shape[k] = "v1" => shape'[k] = "v1"
    BY <1>2, <1>g, LegacyTypes DEF Grows
  <2>2. ASSUME NEW q \in Runner PROVE ProgressOf(q)'
    <3>1. Spares(q)
      BY <2>1 DEF Spares, call, work, locks
    <3>. QED
      BY <1>g, <3>1, ProgressFrame DEF V1Inv
  <2>. QED
    BY <2>1, <2>2 DEF V1Inv, ControlRowMeansV1
<1>3. CASE UNCHANGED vars
  BY <1>3 DEF vars, tables, locks, call, work, V1Inv, ControlRowMeansV1, ProgressOf, Ready
<1>. QED
  BY <1>1, <1>2, <1>3 DEF Next, Step, LegacyStep

LEMMA V1InvHolds == Spec => []V1Inv
  BY V1Init, V1Step, TypeInvHolds, PTL DEF Spec

\* A control row is only ever made for a table of the v1 layout, whatever other
\* programs create between the inventory and CREATE TABLE IF NOT EXISTS.
THEOREM ControlRowMeansV1Holds == Spec => []ControlRowMeansV1
  BY V1InvHolds, PTL DEF V1Inv

\* A writer past bootstrap has a control table, a v1 table and a control row,
\* whoever did what between its bootstrap and its lock.
THEOREM BootstrapDeliversHolds == Spec => []BootstrapDelivers
<1>1. V1Inv => BootstrapDelivers
  BY DEF V1Inv, ProgressOf, Ready, BootstrapDelivers
<1>. QED
  BY <1>1, V1InvHolds, PTL

-----------------------------------------------------------------------------
(* History.  On a scope that the deprecated type leaves alone, the rows of *)
(* a prototype stand still, and what adoption has copied agrees with them. *)

CopyOf(r) ==
  /\ pc[r] \in {"ensureControl", "read", "copy", "swap"} => shape[on[r]] = "prototype"
  /\ pc[r] \in {"copy", "swap"} /\ on[r] \notin Legacy => mine[r] = rows[on[r]]
  /\ pc[r] = "swap" => Recorded(temp[on[r]]) = Recorded(mine[r])

CopyIsTrue(s) ==
  shape[s] = "prototype" /\ temp[s] # NoTable =>
    \A m \in Recorded(temp[s]) : temp[s][m] = rows[s][m]

CopyInv ==
  /\ \A r \in Runner : CopyOf(r)
  /\ \A s \in Scope \ Legacy : CopyIsTrue(s)

\* A runner changes no table but that of its scope, and that under the lock.
LEMMA TablesFrame ==
  ASSUME TypeInv, NEW r \in Runner, Step(r), NEW s \in Scope,
         pc[r] \in WritingPcs => s # on[r]
  PROVE  shape'[s] = shape[s] /\ rows'[s] = rows[s] /\ temp'[s] = temp[s]
<1>. USE PcsFact DEF TypeInv, TypeOK, At
<1>1. CASE UNCHANGED <<shape, rows, temp>>
  BY <1>1
<1>2. CASE CreateState(r) \/ Apply(r)
  BY <1>2 DEF CreateState, Apply
<1>3. CASE ReadPrototype(r) \/ CopyRow(r) \/ Swap(r)
  BY <1>3 DEF ReadPrototype, CopyRow, Swap
<1>. QED
  BY <1>1, <1>2, <1>3
  DEF Step, Run, Bootstrap, Adopt, Start, AcquireOuterLock, LockTimeout, AcquireBootstrapLock,
      InventoryA, AcquireScopeLock, InventoryB, CreateControl, InsertControlRow, Detect,
      EnsureControl, VerifyCopy, InsertAdoptedRow, RecoverAdoption, Report, Allocate, Stop,
      LoseOuterSession, tables

LEMMA CopyFrame ==
  ASSUME TypeInv, CopyInv, NEW r \in Runner, Step(r), NEW q \in Runner \ {r}
  PROVE  CopyOf(q)'
<1>1. CASE pc[q] \notin {"ensureControl", "read", "copy", "swap"}
  BY <1>1, Frame DEF TypeInv, Spares, CopyOf
<1>2. CASE pc[q] \in {"ensureControl", "read", "copy", "swap"}
  <2>1. on[q] \in Scope /\ (pc[r] \in WritingPcs => on[q] # on[r])
    BY <1>2, PcsFact DEF TypeInv, HolderInv, HolderOf
  <2>2. shape'[on[q]] = shape[on[q]] /\ rows'[on[q]] = rows[on[q]] /\ temp'[on[q]] = temp[on[q]]
    BY <2>1, TablesFrame
  <2>. QED
    BY <2>2, Frame DEF TypeInv, Spares, CopyInv, CopyOf, Recorded
<1>. QED
  BY <1>1, <1>2

LEMMA CopyOwnStep ==
  ASSUME TypeInv, CopyInv, NEW r \in Runner, Step(r)
  PROVE  CopyOf(r)'
<1>t. RunnerTypes /\ TableTypes /\ HolderOf(r) /\ CopyOf(r)
  BY TypesSplit DEF TypeInv, HolderInv, CopyInv
<1>. USE <1>t, PcsFact DEF At, Goto, CopyOf, call, work, locks, tables
<1>1. CASE Return(r) \/ Refuse(r)
  BY <1>1 DEF Return, Refuse, RunnerTypes
<1>2. CASE Detect(r)
  BY <1>1, <1>2 DEF Detect, IsPrototype, RunnerTypes
<1>3. CASE EnsureControl(r)
  BY <1>3 DEF EnsureControl, RunnerTypes
<1>4. CASE ReadPrototype(r)
  BY <1>4 DEF ReadPrototype, RunnerTypes
<1>5. CASE CopyRow(r)
  BY <1>5 DEF CopyRow, RunnerTypes
<1>6. CASE VerifyCopy(r)
  BY <1>6 DEF VerifyCopy, RunnerTypes, Recorded
<1>7. CASE LoseOuterSession(r)
  BY <1>7 DEF LoseOuterSession, RunnerTypes
<1>8. CASE pc'[r] \notin {"ensureControl", "read", "copy", "swap"}
  BY <1>8
<1>. QED
  BY <1>1, <1>2, <1>3, <1>4, <1>5, <1>6, <1>7, <1>8
  DEF Step, Run, Bootstrap, Adopt, Start, AcquireOuterLock, LockTimeout, AcquireBootstrapLock,
      InventoryA, AcquireScopeLock, InventoryB, CreateControl, CreateState, InsertControlRow,
      Booted, Swap, InsertAdoptedRow, RecoverAdoption, Report, Allocate, Apply, Stop, RunnerTypes

LEMMA CopyTrueStep ==
  ASSUME TypeInv, V1Inv, CopyInv, NEW r \in Runner, Step(r), NEW s \in Scope \ Legacy
  PROVE  CopyIsTrue(s)'
<1>t. /\ TableTypes /\ RunnerTypes /\ HolderOf(r) /\ CopyOf(r) /\ CopyIsTrue(s) /\ ProgressOf(r)
      /\ shape[s] \in Shape
  BY TypesSplit DEF TypeInv, HolderInv, CopyInv, V1Inv, TableTypes
<1>1. CASE shape'[s] = shape[s] /\ rows'[s] = rows[s] /\ temp'[s] = temp[s]
  BY <1>t, <1>1 DEF CopyIsTrue, Recorded
<1>2. CASE s # on[r] \/ pc[r] \notin WritingPcs
  BY <1>1, <1>2, TablesFrame
<1>3. CASE shape'[s] # "prototype"
  BY <1>3 DEF CopyIsTrue
<1>4. CASE s = on[r] /\ ReadPrototype(r)
  <2>1. /\ shape' = shape /\ rows' = rows
        /\ temp'[s] = IF temp[s] = NoTable THEN Empty ELSE temp[s]
    BY <1>t, <1>4 DEF ReadPrototype, TableTypes
  <2>2. Recorded(Empty) = {}
    BY DEF Recorded, Empty
  <2>3. CASE temp[s] = NoTable
    <3>1. temp'[s] = Empty
      BY <2>1, <2>3
    <3>. QED
      BY <2>2, <3>1 DEF CopyIsTrue
  <2>4. CASE temp[s] # NoTable
    BY <1>1, <2>1, <2>4
  <2>. QED
    BY <2>3, <2>4
<1>5. CASE s = on[r] /\ CopyRow(r)
  <2>1. PICK m \in left[r] : temp' = [temp EXCEPT ![on[r]][m] = mine[r][m]]
    BY <1>5 DEF CopyRow
  <2>2. /\ shape' = shape /\ rows' = rows /\ mine[r] = rows[s] /\ temp[s] \in Contents
        /\ shape[s] = "prototype" /\ temp[s] # NoTable
    BY <1>t, <1>5, AbsenceAssumption DEF CopyRow, CopyOf, TypeInv, TempInv, At
  <2>3. temp'[s] = [temp[s] EXCEPT ![m] = rows[s][m]]
    BY <1>t, <1>5, <2>1, <2>2 DEF TableTypes
  <2>4. \A k \in Recorded(temp[s]) : temp[s][k] = rows[s][k]
    BY <1>t, <2>2 DEF CopyIsTrue
  <2>5. ASSUME NEW k \in Recorded(temp'[s]) PROVE temp'[s][k] = rows[s][k]
    BY <2>2, <2>3, <2>4, <2>5 DEF Recorded, Contents
  <2>. QED
    BY <2>2, <2>5 DEF CopyIsTrue
<1>6. CASE s = on[r] /\ Swap(r)
  BY <1>t, <1>3, <1>6 DEF Swap, TableTypes
<1>7. CASE s = on[r] /\ CreateState(r)
  <2>1. rows' = rows /\ temp' = temp /\ shape'[s] = IF shape[s] = "absent" THEN "v1" ELSE shape[s]
    BY <1>t, <1>7 DEF CreateState, TableTypes
  <2>. QED
    BY <1>1, <1>3, <2>1
<1>8. CASE s = on[r] /\ Apply(r)
  <2>1. shape' = shape /\ shape[s] = "v1"
    BY <1>t, <1>8 DEF Apply, ProgressOf, Ready, At
  <2>. QED
    BY <1>3, <2>1
<1>9. CASE UNCHANGED <<shape, rows, temp>>
  BY <1>1, <1>9
<1>. QED
  BY <1>2, <1>4, <1>5, <1>6, <1>7, <1>8, <1>9
  DEF Step, Run, Bootstrap, Adopt, Start, AcquireOuterLock, LockTimeout, AcquireBootstrapLock,
      InventoryA, AcquireScopeLock, InventoryB, CreateControl, InsertControlRow, Detect,
      EnsureControl, VerifyCopy, InsertAdoptedRow, RecoverAdoption, Report, Allocate, Stop,
      LoseOuterSession, tables

LEMMA CopyInit == Init => CopyInv
  BY DEF Init, CopyInv, CopyOf, CopyIsTrue

\* The deprecated type leaves a prototype a prototype, and its scopes are its own.
LEMMA CopyLegacy ==
  ASSUME TypeInv, CopyInv, NEW s \in Legacy, LegacyStep(s)
  PROVE  CopyInv'
<1>1. /\ UNCHANGED <<pc, call, work, temp>> /\ TableTypes
      /\ \A k \in Scope : shape[k] = "prototype" => shape'[k] = "prototype"
      /\ \A k \in Scope \ Legacy : shape'[k] = shape[k] /\ rows'[k] = rows[k]
  BY TypesSplit, EnvironmentAssumption
  DEF LegacyStep, LegacyEnsureTable, LegacyRecord, LegacyRemove, TypeInv, TableTypes
<1>2. ASSUME NEW r \in Runner PROVE CopyOf(r)'
  <2>1. /\ pc' = pc /\ on' = on /\ mine' = mine /\ temp' = temp
        /\ pc[r] # "idle" => on[r] \in Scope
    BY <1>1 DEF call, work, TypeInv, HolderInv, HolderOf
  <2>. QED
    BY <1>1, <2>1 DEF CopyInv, CopyOf, Recorded
<1>3. ASSUME NEW k \in Scope \ Legacy PROVE CopyIsTrue(k)'
  BY <1>1 DEF CopyInv, CopyIsTrue, Recorded
<1>. QED
  BY <1>2, <1>3 DEF CopyInv

LEMMA CopyStep == TypeInv /\ V1Inv /\ CopyInv /\ [Next]_vars => CopyInv'
<1>. SUFFICES ASSUME TypeInv, V1Inv, CopyInv, [Next]_vars PROVE CopyInv'
  OBVIOUS
<1>1. ASSUME NEW r \in Runner, Step(r) PROVE CopyInv'
  BY <1>1, CopyOwnStep, CopyFrame, CopyTrueStep DEF CopyInv
<1>2. ASSUME NEW s \in Legacy, LegacyStep(s) PROVE CopyInv'
  BY <1>2, CopyLegacy
<1>3. CASE UNCHANGED vars
  BY <1>3 DEF vars, tables, locks, call, work, CopyInv, CopyOf, CopyIsTrue, Recorded
<1>. QED
  BY <1>1, <1>2, <1>3 DEF Next, Step, LegacyStep

\* One step of a runner keeps every row of a scope outside Legacy.
LEMMA HistoryOwnStep ==
  ASSUME TypeInv, V1Inv, CopyInv, NEW r \in Runner, Step(r), NEW s \in Scope \ Legacy,
         NEW m \in Recorded(rows[s])
  PROVE  rows'[s][m] = rows[s][m]
<1>t. TableTypes /\ RunnerTypes /\ HolderOf(r) /\ CopyOf(r) /\ CopyIsTrue(s)
  BY TypesSplit DEF TypeInv, HolderInv, CopyInv
<1>1. CASE Swap(r) /\ s = on[r]
  <2>1. /\ rows'[s] = temp[s] /\ temp[s] # NoTable /\ shape[s] = "prototype"
        /\ mine[r] = rows[s] /\ Recorded(temp[s]) = Recorded(mine[r])
    BY <1>1, <1>t DEF Swap, At, CopyOf, TableTypes
  <2>. QED
    BY <1>t, <2>1 DEF CopyIsTrue
<1>2. CASE Apply(r) /\ s = on[r]
  <2>1. PICK k \in Mig \ Recorded(rows[on[r]]) : rows' = [rows EXCEPT ![on[r]][k] = myBatch[r]]
    BY <1>2 DEF Apply
  <2>2. rows'[s] = [rows[s] EXCEPT ![k] = myBatch[r]] /\ k # m
    BY <1>2, <1>t, <2>1 DEF TableTypes
  <2>. QED
    BY <2>2, <1>t DEF TableTypes, Contents
<1>3. CASE s # on[r] \/ pc[r] \notin WritingPcs
  BY <1>3, TablesFrame
<1>4. CASE UNCHANGED rows
  BY <1>4
<1>. QED
  BY <1>1, <1>2, <1>3, <1>4
  DEF Step, Run, Bootstrap, Adopt, Start, AcquireOuterLock, LockTimeout, AcquireBootstrapLock,
      InventoryA, AcquireScopeLock, InventoryB, CreateControl, CreateState, InsertControlRow,
      Detect, EnsureControl, ReadPrototype, CopyRow, VerifyCopy, InsertAdoptedRow,
      RecoverAdoption, Report, Allocate, Stop, LoseOuterSession, tables

LEMMA HistoryStep ==
  TypeInv /\ V1Inv /\ CopyInv /\ [Next]_vars =>
    \A s \in Scope \ Legacy : \A m \in Recorded(rows[s]) : rows'[s][m] = rows[s][m]
<1>. SUFFICES ASSUME TypeInv, V1Inv, CopyInv, [Next]_vars,
                     NEW s \in Scope \ Legacy, NEW m \in Recorded(rows[s])
              PROVE  rows'[s][m] = rows[s][m]
  OBVIOUS
<1>1. ASSUME NEW r \in Runner, Step(r) PROVE rows'[s][m] = rows[s][m]
  BY <1>1, HistoryOwnStep
<1>2. ASSUME NEW k \in Legacy, LegacyStep(k) PROVE rows'[s][m] = rows[s][m]
  BY <1>2, TypesSplit
  DEF LegacyStep, LegacyEnsureTable, LegacyRecord, LegacyRemove, TypeInv, TableTypes
<1>3. CASE UNCHANGED vars
  BY <1>3 DEF vars, tables
<1>. QED
  BY <1>1, <1>2, <1>3 DEF Next, Step, LegacyStep

\* A recorded migration keeps its row and its batch through every adoption,
\* whole, interrupted, resumed or recovered, wherever the deprecated type is
\* not at work on the same table.
THEOREM HistoryIsKeptHolds == Spec => HistoryIsKept
  BY CopyInit, CopyStep, TypeInvHolds, V1InvHolds, HistoryStep, PTL DEF Spec, HistoryIsKept

-----------------------------------------------------------------------------
(* Batches.  A v1 table without a control row is empty or in the hands of  *)
(* the adoption that will write the row, unless that one may die; and what *)
(* it writes the row from is what it has made the table of.                *)

FreeOf(r) ==
  /\ pc[r] = "copy" =>
       \A m \in Recorded(mine[r]) \ left[r] : temp[on[r]][m] = mine[r][m]
  /\ pc[r] = "swap" => \A m \in Recorded(temp[on[r]]) : temp[on[r]][m] = mine[r][m]
  /\ pc[r] = "adoptRow" => \A m \in Recorded(rows[on[r]]) : rows[on[r]][m] = mine[r][m]
  /\ pc[r] = "apply" => myBatch[r] < next[on[r]]

\* The control row is above the rows of the table.
Above(s) == next[s] # 0 => \A m \in Recorded(rows[s]) : rows[s][m] < next[s]

Adopting(s) == \E r \in Runner : pc[r] = "adoptRow" /\ on[r] = s

FreeIn(s) ==
  /\ shape[s] = "absent" => Recorded(rows[s]) = {}
  /\ s \notin MayDie =>
       /\ Above(s)
       /\ shape[s] = "v1" /\ next[s] = 0 => Recorded(rows[s]) = {} \/ Adopting(s)

FreeInv == (\A r \in Runner : FreeOf(r)) /\ \A s \in Scope : FreeIn(s)

\* A runner writes no control row but that of its scope, and that under the lock.
LEMMA NextFrame ==
  ASSUME TypeInv, NEW r \in Runner, Step(r), NEW s \in Scope,
         pc[r] \in WritingPcs => s # on[r]
  PROVE  next'[s] = next[s]
<1>. USE PcsFact DEF TypeInv, TypeOK, At
<1>1. CASE UNCHANGED next
  BY <1>1
<1>2. CASE InsertControlRow(r) \/ InsertAdoptedRow(r) \/ RecoverAdoption(r) \/ Allocate(r)
  BY <1>2 DEF InsertControlRow, InsertAdoptedRow, RecoverAdoption, Allocate
<1>. QED
  BY <1>1, <1>2
  DEF Step, Run, Bootstrap, Adopt, Start, AcquireOuterLock, LockTimeout, AcquireBootstrapLock,
      InventoryA, AcquireScopeLock, InventoryB, CreateControl, CreateState, Detect,
      EnsureControl, ReadPrototype, CopyRow, VerifyCopy, Swap, Report, Apply, Stop,
      LoseOuterSession, tables

LEMMA FreeFrame ==
  ASSUME TypeInv, Grows, FreeInv, NEW r \in Runner, Step(r), NEW q \in Runner \ {r}
  PROVE  FreeOf(q)'
<1>1. CASE pc[q] \notin {"copy", "swap", "adoptRow", "apply"}
  BY <1>1, Frame DEF TypeInv, Spares, FreeOf
<1>2. CASE pc[q] \in {"copy", "swap", "adoptRow", "apply"}
  <2>1. on[q] \in Scope /\ (pc[r] \in WritingPcs => on[q] # on[r])
    BY <1>2, PcsFact DEF TypeInv, HolderInv, HolderOf
  <2>2. rows'[on[q]] = rows[on[q]] /\ temp'[on[q]] = temp[on[q]] /\ next'[on[q]] = next[on[q]]
    BY <2>1, TablesFrame, NextFrame
  <2>. QED
    BY <2>2, Frame DEF TypeInv, Spares, FreeInv, FreeOf, Recorded
<1>. QED
  BY <1>1, <1>2

LEMMA FreeOwnStep ==
  ASSUME TypeInv, CopyInv, FreeInv, NEW r \in Runner, Step(r)
  PROVE  FreeOf(r)'
<1>t. RunnerTypes /\ TableTypes /\ HolderOf(r) /\ CopyOf(r) /\ FreeOf(r)
  BY TypesSplit DEF TypeInv, HolderInv, CopyInv, FreeInv
<1>. USE <1>t, PcsFact DEF At, Goto, FreeOf, call, work, locks, tables
<1>1. CASE Return(r) \/ Refuse(r)
  BY <1>1 DEF Return, Refuse, RunnerTypes
<1>2. CASE ReadPrototype(r)
  BY <1>2 DEF ReadPrototype, RunnerTypes
<1>3. CASE CopyRow(r)
  <2>1. PICK m \in left[r] : /\ temp' = [temp EXCEPT ![on[r]][m] = mine[r][m]]
                             /\ left' = [left EXCEPT ![r] = @ \ {m}]
    BY <1>3 DEF CopyRow
  <2>2. /\ pc[r] = "copy" /\ on[r] \in Scope /\ temp[on[r]] \in Contents /\ m \in Mig
        /\ UNCHANGED <<pc, on, mine>>
    BY <1>3 DEF CopyRow, TypeInv, TempInv, HolderOf, RunnerTypes
  <2>3. /\ temp'[on[r]] = [temp[on[r]] EXCEPT ![m] = mine[r][m]]
        /\ left'[r] = left[r] \ {m}
    BY <2>1, <2>2 DEF TableTypes, RunnerTypes
  <2>4. ASSUME NEW k \in Recorded(mine[r]) \ left'[r] PROVE temp'[on[r]][k] = mine[r][k]
    BY <2>2, <2>3 DEF Recorded, Contents
  <2>. QED
    BY <2>2, <2>4
<1>4. CASE VerifyCopy(r)
  <2>1. /\ pc'[r] = "swap" /\ pc[r] = "copy" /\ left[r] = {}
        /\ Recorded(temp[on[r]]) = Recorded(mine[r]) /\ UNCHANGED <<temp, on, mine>>
    BY <1>4 DEF VerifyCopy, RunnerTypes
  <2>. QED
    BY <2>1 DEF Recorded
<1>5. CASE Swap(r)
  <2>1. /\ pc'[r] = "adoptRow" /\ pc[r] = "swap" /\ on[r] \in Scope
        /\ rows'[on[r]] = temp[on[r]] /\ UNCHANGED <<on, mine>>
    BY <1>5 DEF Swap, RunnerTypes, TableTypes, HolderOf
  <2>. QED
    BY <2>1 DEF Recorded
<1>6. CASE Allocate(r)
  <2>1. /\ pc'[r] = "apply" /\ on[r] \in Scope /\ next[on[r]] \in Nat /\ on' = on
        /\ next'[on[r]] = next[on[r]] + 1 /\ myBatch'[r] = next[on[r]]
    BY <1>6, MaxBatchAssumption DEF Allocate, RunnerTypes, TableTypes, HolderOf
  <2>. QED
    BY <2>1
<1>7. CASE pc'[r] \notin {"copy", "swap", "adoptRow", "apply"}
  BY <1>7
<1>8. CASE LoseOuterSession(r)
  BY <1>7, <1>8 DEF LoseOuterSession
<1>. QED
  BY <1>1, <1>2, <1>3, <1>4, <1>5, <1>6, <1>7, <1>8
  DEF Step, Run, Bootstrap, Adopt, Start, AcquireOuterLock, LockTimeout, AcquireBootstrapLock,
      InventoryA, AcquireScopeLock, InventoryB, CreateControl, CreateState, InsertControlRow,
      Booted, Detect, EnsureControl, InsertAdoptedRow, RecoverAdoption, Report, Apply, Stop,
      RunnerTypes

\* Elsewhere than on its scope under the lock, a runner disturbs nothing.
LEMMA FreeInElsewhere ==
  ASSUME TypeInv, FreeInv, NEW r \in Runner, Step(r), NEW s \in Scope,
         pc[r] \in WritingPcs => s # on[r]
  PROVE  FreeIn(s)'
<1>1. shape'[s] = shape[s] /\ rows'[s] = rows[s] /\ next'[s] = next[s]
  BY TablesFrame, NextFrame
<1>2. Adopting(s) => Adopting(s)'
  <2>. SUFFICES ASSUME NEW q \in Runner, pc[q] = "adoptRow", on[q] = s
                PROVE  pc'[q] = "adoptRow" /\ on'[q] = s
    BY DEF Adopting
  <2>1. q # r
    BY PcsFact
  <2>. QED
    BY <2>1, Frame DEF TypeInv, Spares
<1>. QED
  BY <1>1, <1>2 DEF FreeInv, FreeIn, Above, Recorded

\* On its scope it keeps the control row above the rows.
LEMMA FreeInOwnStep ==
  ASSUME TypeInv, V1Inv, CopyInv, FreeInv, NEW r \in Runner, Step(r),
         pc[r] \in WritingPcs, NEW s \in Scope, s = on[r]
  PROVE  FreeIn(s)'
<1>t. /\ RunnerTypes /\ TableTypes /\ HolderOf(r) /\ CopyOf(r) /\ FreeOf(r) /\ ProgressOf(r)
      /\ FreeIn(s) /\ s \in Scope /\ next[s] \in Nat /\ shape[s] \in Shape
      /\ rows[s] \in Contents
  BY TypesSplit, MaxBatchAssumption
  DEF TypeInv, HolderInv, CopyInv, FreeInv, V1Inv, TableTypes
<1>a. Adopting(s) => pc[r] = "adoptRow"
  BY PcsFact DEF Adopting, TypeInv, HolderInv, HolderOf
<1>1. CASE UNCHANGED <<shape, rows, next>> /\ (pc[r] = "adoptRow" => s \in MayDie)
  BY <1>1, <1>t, <1>a DEF FreeIn, Above, Recorded
<1>2. CASE CreateState(r)
  <2>1. /\ UNCHANGED <<rows, next>> /\ pc[r] # "adoptRow"
        /\ shape'[s] = IF shape[s] = "absent" THEN "v1" ELSE shape[s]
    BY <1>2, <1>t DEF CreateState, TableTypes, At
  <2>. QED
    BY <2>1, <1>t, <1>a DEF FreeIn, Above, Recorded
<1>3. CASE InsertControlRow(r)
  <2>1. /\ UNCHANGED <<rows, shape>> /\ pc[r] # "adoptRow" /\ shape[s] = "v1"
        /\ next'[s] = IF next[s] = 0 THEN 1 ELSE next[s]
    BY <1>3, <1>t DEF InsertControlRow, TableTypes, ProgressOf, At
  <2>. QED
    BY <2>1, <1>t, <1>a DEF FreeIn, Above, Recorded
<1>4. CASE Allocate(r)
  <2>1. /\ UNCHANGED <<rows, shape>> /\ pc[r] # "adoptRow" /\ next[s] # 0
        /\ next'[s] = next[s] + 1
    BY <1>4, <1>t DEF Allocate, TableTypes, At
  <2>2. ASSUME s \notin MayDie, NEW m \in Recorded(rows[s]) PROVE rows[s][m] < next'[s]
    <3>1. rows[s][m] < next[s] /\ rows[s][m] \in Nat
      BY <2>1, <2>2, <1>t, AbsenceAssumption DEF FreeIn, Above, Recorded, Contents
    <3>. QED
      BY <2>1, <3>1, <1>t
  <2>. QED
    BY <2>1, <2>2, <1>t DEF FreeIn, Above, Recorded
<1>5. CASE Apply(r)
  <2>1. PICK m \in Mig : rows' = [rows EXCEPT ![s][m] = myBatch[r]]
    BY <1>5 DEF Apply
  <2>2. /\ UNCHANGED <<next, shape>> /\ shape[s] = "v1" /\ next[s] # 0
        /\ myBatch[r] < next[s]
        /\ rows'[s] = [rows[s] EXCEPT ![m] = myBatch[r]]
    BY <1>5, <1>t, <2>1 DEF Apply, TableTypes, ProgressOf, Ready, FreeOf, At
  <2>3. ASSUME s \notin MayDie, NEW k \in Recorded(rows[s])' PROVE rows'[s][k] < next[s]
    BY <2>2, <2>3, <1>t DEF FreeIn, Above, Recorded, Contents
  <2>. QED
    BY <2>2, <2>3 DEF FreeIn, Above
<1>6. CASE Swap(r)
  <2>1. shape[s] = "prototype" /\ next' = next /\ shape'[s] = "v1"
    BY <1>6, <1>t DEF Swap, CopyOf, TableTypes, At
  <2>2. next[s] = 0
    BY <2>1, <1>t DEF V1Inv, ControlRowMeansV1
  <2>3. pc'[r] = "adoptRow" /\ on'[r] = s
    BY <1>6, <1>t DEF Swap, Goto, call, RunnerTypes
  <2>. QED
    BY <2>1, <2>2, <2>3 DEF FreeIn, Above, Adopting
<1>7. CASE InsertAdoptedRow(r)
  <2>1. /\ UNCHANGED <<rows, shape>> /\ shape[s] = "v1"
        /\ next'[s] = BatchAfter(mine[r])
        /\ \A m \in Recorded(rows[s]) : rows[s][m] = mine[r][m]
    BY <1>7, <1>t DEF InsertAdoptedRow, TableTypes, ProgressOf, FreeOf, At
  <2>2. /\ BatchAfter(mine[r]) \in Nat \ {0}
        /\ \A b \in Batches(mine[r]) : b < BatchAfter(mine[r])
    BY <1>t, BatchAfterIsAbove, MaxBatchAssumption DEF RunnerTypes
  <2>3. \A m \in Recorded(rows[s]) : rows[s][m] \in Batches(mine[r])
    BY <2>1 DEF Batches, Recorded
  <2>. QED
    BY <2>1, <2>2, <2>3 DEF FreeIn, Above, Recorded
<1>8. CASE RecoverAdoption(r)
  <2>1. /\ UNCHANGED <<rows, shape>> /\ shape[s] = "v1"
        /\ next'[s] = BatchAfter(rows[s])
    BY <1>8, <1>t DEF RecoverAdoption, Interrupted, TableTypes
  <2>2. /\ BatchAfter(rows[s]) \in Nat \ {0}
        /\ \A b \in Batches(rows[s]) : b < BatchAfter(rows[s])
    BY <1>t, BatchAfterIsAbove, MaxBatchAssumption
  <2>3. \A m \in Recorded(rows[s]) : rows[s][m] \in Batches(rows[s])
    BY DEF Batches
  <2>. QED
    BY <2>1, <2>2, <2>3 DEF FreeIn, Above, Recorded
<1>. QED
  BY <1>1, <1>2, <1>3, <1>4, <1>5, <1>6, <1>7, <1>8, PcsFact
  DEF Step, Run, Bootstrap, Adopt, Start, AcquireOuterLock, LockTimeout, AcquireBootstrapLock,
      InventoryA, AcquireScopeLock, InventoryB, CreateControl, Detect, EnsureControl,
      ReadPrototype, CopyRow, VerifyCopy, Report, Stop, LoseOuterSession, Waits, tables, At

\* The deprecated type writes no row where there is a control row, and no batch
\* into a table that has been adopted.
LEMMA FreeLegacy ==
  ASSUME TypeInv, V1Inv, CopyInv, FreeInv, NEW s \in Legacy, LegacyStep(s)
  PROVE  FreeInv'
<1>t. /\ UNCHANGED <<next, temp, pc, on, mine, left, myBatch>> /\ TableTypes
      /\ s \in Scope
  BY TypesSplit, LegacyTypes, EnvironmentAssumption DEF TypeInv, call, work
<1>1. ASSUME NEW k \in Scope
      PROVE  \/ shape'[k] = shape[k] /\ rows'[k] = rows[k]
             \/ /\ shape[k] = "absent" /\ shape'[k] = "legacy"
                /\ rows'[k] = rows[k]
             \/ shape'[k] = shape[k] /\ shape[k] \in {"legacy", "prototype"}
             \/ /\ shape'[k] = shape[k]
                /\ \E m \in Mig : rows'[k] = [rows[k] EXCEPT ![m] = NoRow]
  <2>1. CASE LegacyEnsureTable(s)
    BY <1>t, <2>1 DEF LegacyEnsureTable, TableTypes
  <2>2. CASE LegacyRecord(s)
    <3>1. PICK m \in Mig, b \in 0..MaxBatch : rows' = [rows EXCEPT ![s][m] = b]
      BY <2>2, OldBatchAssumption DEF LegacyRecord
    <3>2. shape' = shape /\ shape[s] \in {"legacy", "prototype"}
      BY <2>2 DEF LegacyRecord
    <3>. QED
      BY <1>t, <3>1, <3>2 DEF TableTypes
  <2>3. CASE LegacyRemove(s)
    <3>1. PICK m \in Mig : rows' = [rows EXCEPT ![s][m] = NoRow]
      BY <2>3 DEF LegacyRemove, Recorded
    <3>2. shape' = shape
      BY <2>3 DEF LegacyRemove
    <3>3. CASE k = s
      <4>1. rows'[k] = [rows[k] EXCEPT ![m] = NoRow]
        BY <1>t, <3>1, <3>3 DEF TableTypes
      <4>. QED
        BY <3>2, <4>1
    <3>4. CASE k # s
      BY <1>t, <3>1, <3>2, <3>4 DEF TableTypes
    <3>. QED
      BY <3>3, <3>4
  <2>. QED
    BY <2>1, <2>2, <2>3 DEF LegacyStep
<1>2. ASSUME NEW k \in Scope, shape[k] = "v1" \/ next[k] # 0
      PROVE  \A m \in Recorded(rows[k])' : m \in Recorded(rows[k]) /\ rows'[k][m] = rows[k][m]
  <2>1. shape[k] = "v1"
    BY <1>2 DEF V1Inv, ControlRowMeansV1
  <2>2. rows'[k] = rows[k] \/ \E m \in Mig : rows'[k] = [rows[k] EXCEPT ![m] = NoRow]
    BY <1>1, <2>1
  <2>3. rows[k] \in Contents
    BY <1>t DEF TableTypes
  <2>4. ASSUME NEW d \in Mig, rows'[k] = [rows[k] EXCEPT ![d] = NoRow],
               NEW m \in Recorded(rows[k])'
        PROVE  m \in Recorded(rows[k]) /\ rows'[k][m] = rows[k][m]
    BY <2>3, <2>4 DEF Recorded, Contents
  <2>5. CASE rows'[k] = rows[k]
    BY <2>5 DEF Recorded
  <2>6. CASE \E d \in Mig : rows'[k] = [rows[k] EXCEPT ![d] = NoRow]
    <3>1. PICK d \in Mig : rows'[k] = [rows[k] EXCEPT ![d] = NoRow]
      BY <2>6
    <3>. QED
      BY <2>4, <3>1 DEF Recorded
  <2>. QED
    BY <2>2, <2>5, <2>6
<1>3. ASSUME NEW r \in Runner PROVE FreeOf(r)'
  <2>1. pc[r] = "adoptRow" => shape[on[r]] = "v1" /\ on[r] \in Scope
    BY DEF V1Inv, ProgressOf, TypeInv, HolderInv, HolderOf
  <2>2. ASSUME pc[r] = "adoptRow", NEW k \in Scope, k = on[r], NEW m \in Mig,
               rows'[k][m] # NoRow
        PROVE  rows'[k][m] = mine[r][m]
    <3>1. m \in Recorded(rows[k]) /\ rows'[k][m] = rows[k][m]
      BY <1>2, <2>1, <2>2 DEF Recorded
    <3>. QED
      BY <2>2, <3>1 DEF FreeInv, FreeOf
  <2>. QED
    BY <1>t, <2>1, <2>2 DEF FreeInv, FreeOf, Recorded
<1>4. ASSUME NEW k \in Scope PROVE FreeIn(k)'
  <2>1. Adopting(k)' <=> Adopting(k)
    BY <1>t DEF Adopting
  <2>2. FreeIn(k) /\ next'[k] = next[k]
    BY <1>t DEF FreeInv
  <2>3. shape'[k] = "absent" => Recorded(rows[k])' = {}
    BY <1>1, <1>t, <2>2 DEF FreeIn, Recorded, TableTypes, Contents
  <2>4. k \notin MayDie => Above(k)'
    BY <1>2, <2>2 DEF FreeIn, Above
  <2>5. shape'[k] = "v1" => shape[k] = "v1" /\ Recorded(rows[k])' \subseteq Recorded(rows[k])
    BY <1>1, <1>2
  <2>. QED
    BY <2>1, <2>2, <2>3, <2>4, <2>5 DEF FreeIn
<1>. QED
  BY <1>3, <1>4 DEF FreeInv

LEMMA FreeStep == TypeInv /\ V1Inv /\ CopyInv /\ FreeInv /\ [Next]_vars => FreeInv'
<1>. SUFFICES ASSUME TypeInv, V1Inv, CopyInv, FreeInv, [Next]_vars PROVE FreeInv'
  OBVIOUS
<1>1. ASSUME NEW r \in Runner, Step(r) PROVE FreeInv'
  <2>1. ASSUME NEW s \in Scope PROVE FreeIn(s)'
    BY <1>1, <2>1, FreeInElsewhere, FreeInOwnStep
  <2>. QED
    BY <1>1, <2>1, FreeOwnStep, FreeFrame, GrowsStep DEF FreeInv
<1>2. ASSUME NEW s \in Legacy, LegacyStep(s) PROVE FreeInv'
  BY <1>2, FreeLegacy
<1>3. CASE UNCHANGED vars
  BY <1>3 DEF vars, tables, locks, call, work, FreeInv, FreeOf, FreeIn, Above, Adopting,
     Recorded
<1>. QED
  BY <1>1, <1>2, <1>3 DEF Next, Step, LegacyStep

LEMMA FreeInit == Init => FreeInv
<1>. SUFFICES ASSUME Init PROVE FreeInv
  OBVIOUS
<1>1. \A s \in Scope : shape[s] # "v1" /\ next[s] = 0
  BY DEF Init
<1>2. \A s \in Scope : shape[s] = "absent" => Recorded(rows[s]) = {}
  BY DEF Init, Recorded, Empty
<1>3. \A r \in Runner : pc[r] = "idle"
  BY DEF Init
<1>. QED
  BY <1>1, <1>2, <1>3 DEF FreeInv, FreeOf, FreeIn, Above

\* next_batch is above every batch of the table, whoever bootstraps, adopts,
\* recovers or uses the deprecated type, wherever no adoption dies half-way.
THEOREM NextBatchIsFreeHolds == Spec => []NextBatchIsFree
<1>1. FreeInv => NextBatchIsFree
  BY DEF FreeInv, FreeIn, Above, NextBatchIsFree, Batches
<1>. QED
  BY <1>1, FreeInit, FreeStep, TypeInvHolds, V1InvHolds, CopyInit, CopyStep, PTL DEF Spec
=============================================================================
