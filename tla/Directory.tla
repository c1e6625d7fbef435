------------------------------ MODULE Directory ------------------------------
(***************************************************************************)
(* The migration directory (file.go): processes create pairs of files in   *)
(* it while another one scans it.  A creator stages both files under       *)
(* hidden names, links the down file, then the up file, which is what a    *)
(* scan looks for, and syncs the directory after each link.                *)
(*                                                                         *)
(* A process may die between any two steps.  A power loss also takes any   *)
(* names the directory has not synced, and brings back any it removed, in  *)
(* whatever combination.                                                   *)
(***************************************************************************)
CONSTANTS
  Creator,      \* processes that create migrations
  Second,       \* what their clocks may show
  Name,         \* the names, normalised, of the migrations they create
  Base,         \* bound: which names they may create in which seconds
  NoName        \* what the name of a lock file has instead

ASSUME NameAssumption == NoName \notin Name
ASSUME BaseAssumption == Base \subseteq Second \X Name /\ Base # {}

Entry == (Second \X Name \X {"up", "down"}) \cup (Second \X {NoName} \X {"lock"})

NoBase == CHOOSE b \in Base : TRUE     \* where a creator creates nothing

Up(b) == <<b[1], b[2], "up">>
Down(b) == <<b[1], b[2], "down">>

\* The slip of a lock for each name.
LockOfName(b) == <<b[1], b[2], "lock">>

\* The lock of a second.
Lock(b) == <<b[1], NoName, "lock">>

VARIABLES
  home,     \* the directory's own name in its parent: absent, volatile, durable
  files,    \* the names the directory shows
  disk,     \* the names it would show after a power loss, files not synced aside
  whole,    \* the names whose bytes are on disk
  pc,       \* where a creator is
  base,     \* the migration it creates
  ok,       \* has its creation succeeded?
  todo,     \* up files the scanner listed and has not inspected
  scan,     \* how far the scanner is
  \* history
  kept,     \* pairs reported created, in a directory that was there before
  removed   \* has an up file gone, or the directory, since the scan began?

vars == <<home, files, disk, whole, pc, base, ok, todo, scan, kept, removed>>
storage == <<home, files, disk, whole>>
creators == <<pc, base, ok>>
scanner == <<todo, scan>>

Pcs == {"idle", "check", "lock", "recheck", "stage", "linkDown", "syncDown",
        "linkUp", "syncUp", "withdraw", "syncWithdrawal", "unlock"}

TypeOK ==
  /\ home \in {"absent", "volatile", "durable"}
  /\ files \subseteq Entry
  /\ disk \subseteq Entry
  /\ whole \subseteq Entry
  /\ pc \in [Creator -> Pcs]
  /\ base \in [Creator -> Base]
  /\ ok \in [Creator -> BOOLEAN]
  /\ todo \subseteq Base
  /\ scan \in {"idle", "inspect", "done", "failed"}
  /\ kept \subseteq Base
  /\ removed \in BOOLEAN

Init ==
  /\ home \in {"absent", "durable"}
  /\ files = {}
  /\ disk = {}
  /\ whole = {}
  /\ pc = [c \in Creator |-> "idle"]
  /\ base = [c \in Creator |-> NoBase]
  /\ ok = [c \in Creator |-> FALSE]
  /\ todo = {}
  /\ scan = "idle"
  /\ kept = {}
  /\ removed = FALSE

-----------------------------------------------------------------------------
(* Creating a pair.                                                        *)

Goto(c, p) == pc' = [pc EXCEPT ![c] = p]

\* The call returns, or its process dies.
Return(c) ==
  /\ Goto(c, "idle")
  /\ base' = [base EXCEPT ![c] = NoBase]
  /\ ok' = [ok EXCEPT ![c] = FALSE]

Continue(c, p) == Goto(c, p) /\ UNCHANGED <<base, ok>>

\* ensureTimestampAvailable: no .sql file of that second, whatever its name.
TimestampAvailable(b) ==
  \A o \in Base : o[1] = b[1] => Up(o) \notin files /\ Down(o) \notin files

\* A name is given, the clock read, and the directory made if it is not there;
\* its parent is not synced.
Create(c) ==
  /\ pc[c] = "idle"
  /\ \E b \in Base : base' = [base EXCEPT ![c] = b]
  /\ home' = IF home = "absent" THEN "volatile" ELSE home
  /\ Goto(c, "check")
  /\ UNCHANGED <<files, disk, whole, ok, scanner, kept, removed>>

Check(c) ==
  /\ pc[c] = "check"
  /\ IF TimestampAvailable(base[c]) THEN Continue(c, "lock") ELSE Return(c)
  /\ UNCHANGED <<storage, scanner, kept, removed>>

\* The lock file is created exclusively: one creator for each second.
TakeLock(c) ==
  /\ pc[c] = "lock"
  /\ IF Lock(base[c]) \in files
       THEN Return(c) /\ UNCHANGED files
       ELSE Continue(c, "recheck") /\ files' = files \cup {Lock(base[c])}
  /\ UNCHANGED <<home, disk, whole, scanner, kept, removed>>

\* The slip of trusting the check made before the lock.
RecheckNothing(c) ==
  /\ pc[c] = "recheck"
  /\ Continue(c, "stage")
  /\ UNCHANGED <<storage, scanner, kept, removed>>

Recheck(c) ==
  /\ pc[c] = "recheck"
  /\ Continue(c, IF TimestampAvailable(base[c]) THEN "stage" ELSE "unlock")
  /\ UNCHANGED <<storage, scanner, kept, removed>>

\* The slip of renaming into place what may still be in the page cache.
StageUnsynced(c) ==
  /\ pc[c] = "stage"
  /\ Continue(c, "linkDown")
  /\ UNCHANGED <<storage, scanner, kept, removed>>

\* Both files are written under hidden names, and synced.
Stage(c) ==
  /\ pc[c] = "stage"
  /\ whole' = whole \cup {Up(base[c]), Down(base[c])}
  /\ Continue(c, "linkDown")
  /\ UNCHANGED <<home, files, disk, scanner, kept, removed>>

\* A link gives a staged file its name; it fails if the name is taken.
Link(c, e, p) ==
  /\ IF e \in files THEN Continue(c, "unlock") /\ UNCHANGED files
                    ELSE Continue(c, p) /\ files' = files \cup {e}
  /\ UNCHANGED <<home, disk, whole, scanner, kept, removed>>

LinkDown(c) == pc[c] = "linkDown" /\ Link(c, Down(base[c]), "syncDown")
LinkUp(c) == pc[c] = "linkUp" /\ Link(c, Up(base[c]), "syncUp")

\* What may be left of a change from one set of names to another.
Between(A, B) == {X \in SUBSET (A \cup B) : A \cap B \subseteq X}

\* syncDirectory: all of the directory is on disk, or, if it fails, some of it.
Sync(c, p, failing) ==
  /\ \/ Continue(c, p) /\ disk' = files
     \/ Continue(c, failing) /\ disk' \in Between(disk, files)
  /\ UNCHANGED <<home, files, whole, scanner, kept, removed>>

\* The slip of syncing once, at the end.
SyncDownLater(c) ==
  /\ pc[c] = "syncDown"
  /\ Continue(c, "linkUp")
  /\ UNCHANGED <<storage, scanner, kept, removed>>

\* A down file whose sync failed is left behind.
SyncDown(c) == pc[c] = "syncDown" /\ Sync(c, "linkUp", "unlock")

\* The slip of leaving the last sync to the kernel.
SyncUpLater(c) ==
  /\ pc[c] = "syncUp"
  /\ Goto(c, "unlock")
  /\ ok' = [ok EXCEPT ![c] = TRUE]
  /\ UNCHANGED <<storage, base, scanner, kept, removed>>

\* The pair is created once its up file is on disk too.
SyncUp(c) ==
  /\ pc[c] = "syncUp"
  /\ \/ Goto(c, "unlock") /\ ok' = [ok EXCEPT ![c] = TRUE] /\ disk' = files
     \/ Goto(c, "withdraw") /\ UNCHANGED ok /\ disk' \in Between(disk, files)
  /\ UNCHANGED <<home, files, whole, base, scanner, kept, removed>>

\* The slip of cleaning up both files, the down file first.
WithdrawDown(c) ==
  /\ pc[c] = "withdraw"
  /\ files' = files \ {Down(base[c])}
  /\ Continue(c, "syncWithdrawal")
  /\ UNCHANGED <<home, disk, whole, scanner, kept, removed>>

\* When the last sync fails the up file is removed again, the down file kept.
Withdraw(c) ==
  /\ pc[c] = "withdraw"
  /\ files' = files \ {Up(base[c])}
  /\ Continue(c, "syncWithdrawal")
  /\ removed' = TRUE
  /\ UNCHANGED <<home, disk, whole, scanner, kept>>

SyncWithdrawal(c) == pc[c] = "syncWithdrawal" /\ Sync(c, "unlock", "unlock")

\* A step that cannot be done ends the creation; the clean-up still runs.
Fail(c) ==
  /\ pc[c] \notin {"idle", "unlock", "syncDown", "syncUp", "syncWithdrawal"}
  /\ IF pc[c] \in {"check", "lock"} THEN Return(c) ELSE Continue(c, "unlock")
  /\ UNCHANGED <<storage, scanner, kept, removed>>

\* The deferred removals: the staged names, then the lock file.
Unlock(c) ==
  /\ pc[c] = "unlock"
  /\ files' = files \ {Lock(base[c])}
  /\ kept' = IF ok[c] /\ home = "durable" THEN kept \cup {base[c]} ELSE kept
  /\ Return(c)
  /\ UNCHANGED <<home, disk, whole, scanner, removed>>

-----------------------------------------------------------------------------
(* Scanning (scanMigrations).                                              *)

\* ReadDir: the up files are what a scan looks for.
ReadDir ==
  /\ scan # "inspect" /\ home # "absent"
  /\ todo' = {b \in Base : Up(b) \in files}
  /\ scan' = "inspect"
  /\ removed' = FALSE
  /\ UNCHANGED <<storage, creators, kept>>

\* The next up file: its down file must be there, and both are read.
Inspect ==
  /\ scan = "inspect"
  /\ \E b \in todo :
       IF {Up(b), Down(b)} \subseteq files
         THEN todo' = todo \ {b} /\ UNCHANGED scan
         ELSE todo' = {} /\ scan' = "failed"
  /\ UNCHANGED <<storage, creators, kept, removed>>

EndScan ==
  /\ scan = "inspect" /\ todo = {}
  /\ scan' = "done"
  /\ UNCHANGED <<storage, creators, todo, kept, removed>>

-----------------------------------------------------------------------------
(* Failures.                                                               *)

\* The process dies; its lock file stays.
Crash(c) ==
  /\ pc[c] # "idle"
  /\ Return(c)
  /\ UNCHANGED <<storage, scanner, kept, removed>>

\* Every process dies, and so does what was not synced; a directory that was
\* made and never synced into its parent may be gone with all of it.
PowerLoss ==
  /\ \/ /\ home' = IF home = "volatile" THEN "durable" ELSE home
        /\ files' \in Between(disk, files)
     \/ /\ home = "volatile"
        /\ home' = "absent"
        /\ files' = {}
  /\ disk' = files'
  /\ whole' = whole \cap files'
  /\ pc' = [c \in Creator |-> "idle"]
  /\ base' = [c \in Creator |-> NoBase]
  /\ ok' = [c \in Creator |-> FALSE]
  /\ todo' = {}
  /\ scan' = "idle"
  /\ UNCHANGED <<kept, removed>>

Next ==
  \/ \E c \in Creator :
       \/ Create(c) \/ Check(c) \/ TakeLock(c) \/ Recheck(c) \/ Stage(c)
       \/ LinkDown(c) \/ SyncDown(c) \/ LinkUp(c) \/ SyncUp(c)
       \/ Withdraw(c) \/ SyncWithdrawal(c) \/ Fail(c) \/ Unlock(c) \/ Crash(c)
  \/ ReadDir \/ Inspect \/ EndScan
  \/ PowerLoss

Spec == Init /\ [][Next]_vars

-----------------------------------------------------------------------------
(* Properties.                                                             *)

\* The comment on publishMigrationPair: whatever dies, and when, there is at
\* most a down file without its up file, never a runnable up file alone; and a
\* name that can be seen has its bytes on disk.
NeverUpOnly ==
  \A b \in Base : Up(b) \in files => Down(b) \in files /\ {Up(b), Down(b)} \subseteq whole

\* The comment in createMigrationAt: creators that run at the same time, or
\* after one another in one second, never share a timestamp.
OneNameASecond ==
  \A b, o \in Base :
    /\ b[1] = o[1]
    /\ {Up(b), Down(b)} \cap files # {}
    /\ {Up(o), Down(o)} \cap files # {}
    => b = o

\* A pair that was reported created is there for good, in a directory that was
\* itself there for good: neither a crash nor a power loss takes either file.
CreatedPairsStay ==
  \A b \in kept : {Up(b), Down(b)} \subseteq files \cap whole

\* A scan, which takes no lock, fails over a creation only if the creation gave
\* its up file up again.
ScanMeetsPairs == scan = "failed" => removed
=============================================================================
