# Models of lamigrate

lamigrate applies SQL migrations to a MySQL database from a Go library and a
command line tool.  Migration SQL is not transactional in MySQL, so everything
the program promises rests on a protocol: an advisory lock, a durable row that
is written before the SQL runs and settled after it, and a counter of batches.
This directory models that protocol, the life of the tables it needs, the
directory the migrations come from and the import of another tool's history,
checks the models with TLC, and proves their main safety properties with TLAPS.

Section and line numbers refer to `architecture.md` and the Go files at the
root of the repository.

## 1. Inventory

| Component | State | Operations | Talks to |
|---|---|---|---|
| Planner (`planner.go`, `planner_refresh.go`, targets) | none; reads rows and a scan | up, down (latest batch or by name), reset, refresh plans; integrity check | rows, migration directory |
| Execution (`execute_*.go`, `metadata_batch.go`) | rows, control row, the schema itself | allocate batch, insert intent, run SQL, inspect and clean the session, mark applied / failed, mark rolling back, delete row | the server, one session |
| Lock and sessions (`lock_*.go`, `mysql_session.go`) | advisory lock of a scope, one private session per command | acquire with timeout, verify ownership, release, close | the server |
| Repair (`repair*.go`) | one row | show, mark-applied, mark-rolled-back, remove-failed, forget | rows, operator |
| Metadata and bootstrap (`metadata*.go`, `lock_bootstrap.go`) | `lamigrate_control`, tracking table | two-phase creation, validation | the server, two locks |
| Adoption (`adoption*.go`) | prototype table, temporary table, backup, control row | copy, verify, RENAME, control row, recovery | bootstrap of other processes |
| Import (`import_v2.go`) | baseline rows | scan the legacy directory, read the table of golang-migrate, plan, insert baselines; preview | another tool's table, lock, bootstrap |
| Migration directory (`file.go`, `file_validate.go`) | pairs of files, a lock file for each second | scan, create a pair | developers, the file system |
| Status and previews (`status.go`, `preview_impl.go`) | none, but they run bootstrap | status, previews | lock, bootstrap |
| Deprecated type `Migrate` (`lamigrate.go`, `import_legacy.go`) | its own four-column table | up, down, reset, import, no lock | the same database |
| Probes, construction, CLI | none | option and capability checks, rendering | |

Processes interact only through the database (tables, advisory locks, the
schema that migration SQL changes) and the migration directory.  Each process
runs one command at a time and its statements are sequential, so the unit of
interleaving is a statement.

What is hard:

* the server ends a session (KILL, `wait_timeout`, network) and frees its lock
  while the runner does not know yet; the process dies between two statements;
* a COMMIT takes effect and its acknowledgement is lost;
* SQL of a migration stops half-way, leaves a transaction open, changes the
  session, or gives the advisory lock away;
* files change between the scan, the plan and the execution;
* operators decide on a repair from what they saw before the lock was taken;
* bootstrap works in two phases under two locks, and nothing keeps what the
  first phase read;
* adoption ends between RENAME and the control row, and the next command may
  not be an adoption;
* other programs use the same tables without the locks: golang-migrate its own,
  the deprecated type any;
* a pair of files is two names, published by several calls, while others scan;
  a power loss takes the names that were not synced;
* a call without lock and intent row dies between its SQL and its row.

`PROJECT.json` lists each of these as a hazard at the line where it bites, with
the properties that would catch it.

What makes each component correct:

* planner: rollback order is the reverse of execution order; drift blocks;
  baselines are never rolled back;
* execution: a dirty row is durable before SQL runs, at most one row is dirty,
  a clean row says what the schema shows;
* lock: one writer; commands return and the lock comes back;
* repair: legal transitions, on the attempt that was inspected;
* bootstrap and adoption: a command that was told the metadata is ready finds
  it ready; batches are not handed out twice; history survives;
* import: baselines appear all at once, for a clean source that had not moved,
  and a rerun is exact or refused;
* migration directory: no up file without its down file, one name a second, what
  was reported created stays, a concurrent scan does not stumble over it;
* deprecated type: its table is false only of what calls broke off on or shared,
  and of imported migrations that were rolled back and imported again; alone, its
  batches and its order are right.

## 2. Modules

| Module | Models |
|---|---|
| `Planner` | selection and integrity check as operators on rows and a scan |
| `Migrator` (extends `Planner`) | lock, sessions, execution, repair; several runners on one initialised scope |
| `Ledger` | what the tracking table promises, with no runners, locks or files |
| `MigratorProofs` (extends `Migrator`) | theorems: lock, dirty rows, truth, batches |
| `PlanProofs` (extends `MigratorProofs`) | theorems: plans, repairs, baselines |
| `LedgerProofs` (extends `PlanProofs`) | theorem: `Migrator` implements `Ledger` |
| `Metadata` | bootstrap, adoption, previews and status as users of bootstrap, the deprecated type as a neighbour; several scopes |
| `MetadataProofs` (extends `Metadata`) | theorems |
| `Import` | the import of golang-migrate's history, with that tool and developers beside |
| `ImportProofs` (extends `Import`) | theorems |
| `Directory` | creation of pairs of files against the file system, and their scan |
| `DirectoryProofs` (extends `Directory`) | theorems |
| `LegacyMigrate` | the deprecated type, several processes without a lock |
| `LegacyProofs` (extends `LegacyMigrate`) | theorems |
| `NumberTheorems` | least, greatest and n-th members of sets of naturals |
| `MCMigrator`, `MCMetadata`, `MCImport`, `MCDirectory`, `MCLegacy` | instances for TLC |

The modules meet in what they share.  `Migrator` has the baselines that
`Import` inserts and the edits of files that `Directory` makes atomic;
`Metadata` has the execution of `Migrator` reduced to batches and the table of
`LegacyMigrate` as a shape.

`PROJECT.json` maps every definition to the lines it stands for.

### Migrator

A migration is a number: its place in the order of names.  A row is
`state[m]`, `batch[m]`, `rowid[m]` (the AUTO_INCREMENT id), `sum[m]` (both
checksums, as the content they are the checksums of); `"absent"` is no row.
`schema[m]` is what the database shows of the migration: nothing, the whole of
some content, or part of one.  `file[m]` is its pair of files.  A runner has a
program counter `pc[r]` named after the next call of the code, its command, the
condition of its session, and its plan (`scan`, `bytes`, `down`, `up`).

One action is one statement, or one call whose statements nobody else can tell
apart.  Every metadata transaction ends in one of three ways: committed and
acknowledged, committed and not acknowledged, not committed; the second and
third leave the runner in the same place (`Acknowledged`).  `Abort` is every
error return.  `LoseSession` ends the session and frees the lock, `Crash`
also ends the runner, and both leave SQL that was running at any point of its
effect (`Interrupted`: the server keeps the lock until the statement stops).
`SqlReleasesLock` is migration SQL that breaks its contract.

Choices worth knowing:

* a pair of files is edited and read as a whole, and the rows are read by one
  query; a plan reads each file once and keeps the bytes, as the code does;
* the effect of SQL is none, partial or complete; DDL commits implicitly, so
  nothing is rolled back by a failure except an open transaction;
* without performance_schema, a session whose default database was changed can
  only fail (table names are not qualified), and one with an open transaction
  goes on, and BEGIN commits it (`ImplicitCommit`);
* a baseline is named `golang-migrate:<version>`, which no file of the directory
  can be called (`upPattern`), so no file is ever there for it (`Directories`);
* `overridden` is history: the migrations whose row an operator made to differ
  from the schema on purpose (`forget`);
* `InspectionIsCurrent` is the assumption that what the operator inspected
  still holds when the repair has the lock.  The code does not enforce it; the
  run with repairs assumes it.  Without it `CleanRowsAreTrue` fails: a repair
  named for one attempt deletes the row of another.

### Metadata

One lock per scope and one of bootstrap; a runner waiting for one is in
`phaseA`, `phaseB` or `outerLock`.  Writers run bootstrap first and take the
lock afterwards; previews and status run it *inside* their own lock, on other
sessions.  `shape[s]` is absent, the exact prototype, the table of the
deprecated type, or v1.  `rows`, `temp` and `backup` are tables from migration
to batch.  Execution is reduced to `Allocate` and `Apply`, which is all of it
that the batches and the tables show.  The constants `MayDie` (the scopes on
which an adoption may end between RENAME and the control row) and
`PreviewMayLose` say which environment a run has, because two of the documented
promises fail in it.  `NextBatchIsFree` therefore speaks of `Scope \ MayDie`.

### Import

A file name is its number without leading zeros (`Digits`), its description and
its place in the directory (`Stem`); a file is its content, which stands for
its checksum.  `ScanAccepts` and `Candidates` are the scan: numbers beyond the
type saturate, duplicates are noticed where two files in a row have the same
extension, and the file seen last names the pair.  A call then runs
bootstrap, waits for the lock, reads the source, plans, reads the source twice
more, inserts row by row in a transaction and commits.  `WriteSource` is
golang-migrate and `EditLegacyDir` a developer: both act at any time, as
nothing stops them.  `ForgetBaseline` is the repair of that name.  `moved` and
`origin` are history: in whose open transaction the source was written, and
from what scan and tuple the baselines in the table came.

### Directory

`files` is what the directory shows, `disk` what would be left of it after a
power loss, `whole` the files whose bytes are synced, `home` the directory's own
name in its parent.  `disk` and `files` differ between a link and the sync after
it, and by any part of the difference once a sync failed (`Between`).  The
staged files have hidden names which no scan looks at; their removal is part of
`Unlock`.  `Crash` leaves the lock file, after which no migration of that second
can be created.  A creation has the clock's second and a name from `Base`.

### LegacyMigrate

The tracking table is a sequence of rows in the order of ids.  `v1` says that it
is the table of today's lamigrate, on which the INSERT of the deprecated type
always fails (columns without default).  `spoiled` is history: the migrations
that a call executed and did not record, or that two calls had in their plans
at the same time.  `undone` is history too: the numbered migrations that a reset
rolled back.  Nothing keeps a later import from marking one of them as applied
again, also when one call follows another and none fails, so `RowsTellTheTruth`
excepts their rows, and says so.  `overlap` says whether two calls ever ran at once; the
action properties speak of calls that never had a rival, the invariant
`RowsTellTheTruth` of all.  A listing of files or of rows is the ascending
sequence of a set (`Ascending`, `RowsAt`), chosen and not computed, so that it
can be reasoned about.

## 3. Runs

| Run | Instance | Shows |
|---|---|---|
| `Exec_race` | 2 runners, 2 migrations, up, down and repairs | single writer, one in flight, intent before SQL, true rows, batch order, dirty blocks others; `Migrator` implements `Ledger` |
| `Exec_plans` | 1 runner, 3 migrations of which 1 baseline, 2 contents, every plan, remove-failed and forget, edits, IgnoreMissingSource, no performance_schema | true rows, LIFO, recorded SQL, drift blocks, baselines stay; `Migrator` implements `Ledger` |
| `Exec_live` | 2 runners, up and down; SQL gives the lock away; no performance_schema; weak fairness of each called process | one in flight, only the holder writes a clean row, commands return, without their lock |
| `Meta` | 2 runners, 2 scopes with 1 migration, prototype or fresh; on one of them the deprecated type is in use and adoptions die; sessions are lost | bootstrap delivers, next_batch never falls and is free, history is kept, no circular wait, only v1 tables have a control row |
| `Import` | 2 importers, 4 file names for 3 versions, 2 contents, 6 directories, a source with versions 1 and 2 | baselines appear at once and for a clean source, a rerun is accepted, success is exact |
| `Files` | 2 creators, a scanner, 3 names in 2 seconds | no up file alone, one name a second, created pairs stay, scans meet pairs |
| `Legacy` | 2 processes, 2 timestamped and 2 numbered migrations, 3 directories, both tables | true rows but for what was spoiled or undone and imported again; batches, order and success of a call without rival |

The bounds and why they are enough:

* two runners: every property about actors is about a pair, and a third runner
  can only do what the second, having returned, does as another process;
* two migrations (three with a baseline): order and the blocking of others need
  two; a batch of two is what separates "latest batch" from "latest row";
* two contents where edits matter: recorded and changed;
* `MaxId` and `MaxBatch` are one or two above the number of migrations, so that
  rows are applied again after a rollback and gaps appear;
* one migration in `Meta`: its properties relate a row to its batch and to the
  control row; what needs several rows (a copy that stops half-way) is proved
  for any number.  `MaxBatch` bounds the adopted and the allocated batches; the
  run reaches an adoption followed by a writer and two writers in sequence.
  `OldBatches` bounds the batches of the rows that older versions leave, in a
  prototype table and from the deprecated type: 0 of its import, after which
  writers follow, and the highest, after which the next batch is at its bound.
  A call of the type inserts the batch it read earlier, any of them;
* `Dirs` and `Stem` of `Import`: 01_x and 1_x are one version, 9_z does not fit
  its type (`MaxVersion` is 4, `SrcVersions` 1 and 2); among the directories are one with
  an edited pair, one with a removed version, a version spelled twice in a way
  the scan accepts and in one it refuses, and half a pair;
* `Base` of `Directory`: two names that compete for one second, and a later
  second; `Second` and `Name` have no other use;
* `Dirs` of `LegacyMigrate`: all pairs, halves that are tolerated, and half a
  pair that fails every scan.  `MaySpoil` ends an execution, at the next call,
  once another migration than these is spoiled (here, the first of the
  numbered): what remains are calls upon a table that tells the truth of the
  others, and upon what a broken reset left.  `MaxBatch` bounds the calls of up
  that record anything.  `Commands` and `Limits` bound what is called.

Symmetry is used on runners, importers, creators, processes and contents, only
in runs without liveness.  Deadlock is checked in all of them.

The proofs need none of these bounds: `MaxId` and `MaxBatch` are any naturals.

### Where the documents and the code disagree

Each has a run that TLC finds violated; `PROJECT.json` quotes the lines.

| Run | In short |
|---|---|
| `Claim_refresh` | refresh rolls back and applies nothing again: its pending list is computed from the rows before the rollback |
| `Claim_crash` | mark-rolled-back in two transactions: a crash between them leaves a clean applied row without schema |
| `Claim_orphan` | IgnoreMissingSource lets an orphan through the check and reset fails on it |
| `Claim_adopt` | after an adoption that died, an ordinary up makes the control row with batch 1 |
| `Claim_preview` | a preview or status of an uninitialised scope waits for the lock it holds, until the timeout |

The models contain further ones that have no run of their own:

* without performance_schema an open transaction goes unnoticed and is
  committed by the next metadata transaction (`ImplicitCommit`), where section
  11.2 has it rolled back;
* a repair acts on whatever attempt it finds (`InspectionIsCurrent`);
* what `show` says of an `applying` row names remove-failed for "no effect or
  partial effect" (`repair.go:373`), where the instructions of the repair itself
  want no effect (`repair.go:461`; `cli-reference.md:176`).  The operator of the
  model follows the latter (`OperatorSaw`): who follows the former leaves part of
  the schema behind without a row, and no property could hold of it;
* down by name rolls back the one migration named, from whatever batch
  (`planner.go:138` and `BuildDownPlan`), where `cli-reference.md:56`,
  `down_target.go:16` and `execute_impl.go:57` promise it and all that came after
  it in the latest batch.  That is why `RollbackIsLifo` excepts `down_name`;
* a preview or a status holds the lock of its scope and that of bootstrap at
  once, where section 9 says no command does (`AcquireBootstrapLock`);
* the control table is created under the lock of a scope only, so two scopes
  may both create it (`CreateControl`); IF NOT EXISTS makes that harmless;
* status can create metadata: only its own lock keeps it from doing so, and a
  lost session removes that obstacle (`LoseOuterSession`);
* a retried adoption fails on rows that its first attempt left in the temporary
  table (`CopyRow`);
* adoption does not recognise the table of the deprecated type, whose column
  types and key name differ (`IsPrototype`), while bootstrap asks for adoption.

Of the import (section 13 of `architecture.md`), in `Import`:

* the recorded version need not have a pair (item 6; `Baselines` takes what
  there is at or below it);
* versions above the recorded one are left out and do not block (item 7);
* two spellings of a version are refused only where two files in a row have the
  same extension (item 8; `DuplicateInARow`), so the pair of one version may be
  made of the entry seen last;
* a preview bootstraps the metadata (item 10 and `import_v2.go:110-111`;
  `Bootstrap`), and goes on when that fails;
* only baselines are compared with the table: rows of timestamped migrations,
  dirty ones too, do not block an import (item 11 and section 9.1, which has
  every dirty row block an import; `DestinationBaselines`);
* a lost acknowledgement is reported as an ordinary error, not as
  outcome-unknown (the paragraph after item 13; `Commit`).  The import that
  follows is right nevertheless (`SameImportIsAccepted`).

Of the deprecated type, in `LegacyMigrate`:

* the command `import` (`cmd/lamigrate/main.go:93`) is this type's import, not
  the reconciled one: it makes a table of the prototype's kind, which bootstrap
  then wants adopted and adoption refuses;
* up on a table of today's lamigrate runs the SQL of a migration and then cannot
  record it (`Record`), and every later call runs it again;
* reset rolls imported rows back too, and a later import marks them as applied
  again (`Delete`, `undone`);
* its calls spoil one another (`Contended`): nothing stops a second process
  between the plan of the first and its rows.

Of the directory, in `Directory`:

* `CreateMigration` takes a lock file of the second and looks for the timestamp
  again under it (`file.go:208-227`), so two processes cannot share a second
  (`OneNameASecond`, which the run checks with two creators and the theorem
  states for any number).  `known-limitations.md:146-149` says the opposite: that
  developers can create files with the same timestamp and the check "does not
  prevent concurrent creation by separate processes".  That is right of separate
  checkouts of the directory, which no lock file connects, and wrong of
  processes on one directory;
* a down file without its up file is passed over by the scan (`ScanMeetsPairs`,
  `migration-format.md:286`, `TestScanMigrationsIgnoresDownOnlyOrphan`), where
  `migration-format.md:93` says that discovery rejects it;
* a directory that `CreateMigration` makes is not synced into its parent, so a
  power loss may take it with everything in it (`PowerLoss`); `CreatedPairsStay`
  speaks of directories that were there.

## 4. Fairness

`FairSpec` gives each runner weak fairness of `Run(r)`: a process that was
called keeps executing, its statements return (the server answers or the
connection fails), and GET_LOCK gives up after its timeout.  It does not assume
that anybody is called, that the lock is ever free, or that SQL succeeds or
fails.  Go's scheduler and the blocking calls of `database/sql` justify it; the
code has no loop that waits for another process other than GET_LOCK.

That a command that returned holds no lock is a matter of safety
(`ReturnedIsUnlocked`); with `CommandsReturn` it gives that the lock comes back.
The other modules have no fairness: their calls take no locks but those of
`Migrator` and `Metadata`, or none, and a call that stops is one of their
behaviours.

## 5. What is proved

Every safety property that a run checks is also a theorem, for every value of
the constants that satisfies the assumptions named in the modules: any sets of
runners, processes, migrations, scopes, contents and names, any options and
bounds.  The assumptions say how the data is made (migrations are numbers, in the
order of their names; a baseline has no file), that the names of one directory
and the rows of one import are finitely many (`StemAssumption` of `Import`,
`NameAssumption` of `LegacyMigrate`), and that a call without a limit has a limit
no plan reaches (`BoundAssumption` there).

### The execution protocol

| Theorem (`MigratorProofs`) | Says |
|---|---|
| `TypeCorrect` | types |
| `SingleWriterHolds` | one live session between GET_LOCK and RELEASE_LOCK, with trusted SQL |
| `OneInFlightHolds` | at most one dirty row, also with SQL that gives the lock away |
| `IntentBeforeSqlHolds` | a dirty row whenever trusted SQL runs |
| `RollbackRunsRecordedSqlHolds` | the down SQL that runs has the recorded checksum |
| `CleanRowsAreTrueHolds` | a clean row says what the schema shows |
| `BatchOrderHolds` | batches grow with ids and come from the control row |
| `ReturnedIsUnlockedHolds` | a command that returned holds no lock, also with SQL that gives it away |

| Theorem (`PlanProofs`) | Says |
|---|---|
| `HolderWritesCleanHolds` | only the holder of the lock writes a clean row, also with SQL that gives the lock away |
| `DirtyBlocksOthersHolds` | an unresolved migration keeps every step off all others, but for a forget |
| `BaselinesStayHolds` | baselines are never rolled back or dirty, and only a forget drops one |
| `RollbackIsLifoHolds` | what is rolled back is what was executed last |
| `DriftBlocksSqlHolds` | SQL runs only if the rows agreed with the directory |

| Theorem (`LedgerProofs`) | Says |
|---|---|
| `ImplementsLedger` | every step of the protocol is a step of `Ledger`, or changes nothing of it |

None of the properties is inductive: what a runner will write depends on what
it read some steps ago.  The inductive invariant comes in layers, each proved
with the ones above it as assumptions:

1. `TypeInv`: types; the condition of a plan (the migration in work is one of
   its plan, whose bytes it has); every row has checksums of some content;
2. `LockInv`: who is past GET_LOCK on a live session holds the lock;
3. `DirtyInv`: one dirty row at most, and what a holder may rely on about the
   others: none dirty before its intent, only its own after it;
4. `RecordedInv`: the bytes in work are those whose checksums the row has;
5. `RepairInv`: the row a repair is about to change is as it was when the repair
   was allowed;
6. `TruthInv`: clean rows are true, and a row about to be made clean will be;
7. `BatchInv`: the batch of a holder is the latest that was handed out;
8. `BaselineInv`: no scan has a baseline, so no plan has one; and a repair other
   than a forget wants a dirty row, which a baseline never has;
9. `FiniteInv`: the rows that can be rolled back are finitely many, since each
   got there by a step; without it there need be no last one;
10. `LifoInv`: what a plan has still to roll back has higher ids than all that it
    leaves, and the migration in work has the highest of them;
11. `DriftInv`: from the plan to the last step of its execution, all rows but
    those of its own batch agree with the scan it was made from;
12. `ExactInv`: during the work on a migration its row says in which direction
    (`applying`, `rolling_back`), with trusted SQL.

The pattern of each layer is the same: a step of another runner does not touch
what the layer says of this one (`Frame`, `OutsiderStep`), because writing needs
the lock; the runner's own step is a case per action.  With SQL that gives the
lock away, layer 2 only speaks of runners that have not run SQL since they last
verified the lock (outside `UnsurePcs`).  What remains is that a runner without
the lock can do no more than turn its own dirty row into the failed form
(`OutsiderStep`), which keeps it dirty, and that is why `OneInFlight`,
`BatchOrder`, `HolderWritesClean` and `BaselinesStay` need no trust.

`RollbackIsLifo` and `DriftBlocksSql` do: when SQL gives the lock away, another
runner may apply a migration while the first one still executes its plan, which
then is neither the top of the order nor all there is.  They are stated for
trusted SQL.

The refinement takes the whole of this as its assumption, and one lemma per
action of `Ledger` says which steps implement it.  It is proved under `Trust`:
SQL that keeps the lock, operators whose inspection still holds, and no
IgnoreChecksumDrift, with which a rollback may run SQL that was not recorded.

### Metadata

`MetadataProofs`, for any part of the scopes in use by the deprecated type,
adoptions that die or do not, sessions that are lost or are not:

| Theorem | Says |
|---|---|
| `MetadataTypeCorrect` | types; the batch after an adopted table is defined |
| `NoCircularWaitHolds` | no two runners wait for each other's lock |
| `NextBatchNeverFallsHolds` | next_batch of a scope never falls |
| `ControlRowMeansV1Holds` | only v1 tables have a control row |
| `BootstrapDeliversHolds` | a writer past bootstrap finds all it needs |
| `HistoryIsKeptHolds` | adoption keeps every row and its batch |
| `NextBatchIsFreeHolds` | no row has a batch that is yet to be handed out, where no adoption dies |

1. `TypeInv` adds to the types who holds which lock where: the lock of
   bootstrap in `inventoryA` only, and the lock of the scope in every place
   that writes (`WritingPcs`).  A waiting writer therefore holds nothing, and a
   runner that waits for a scope does not hold the lock of bootstrap: no circle.
2. `Grows` is a fact about every step: a v1 table stays v1, the control table
   stays, next_batch does not fall.
3. `V1Inv` lists what bootstrap knows at each of its steps.  It needs no lock,
   only `Grows`: what was read before a wait is still true after it.  That is
   the argument for reading in phase A and acting in phase B.
4. `CopyInv`: while a prototype has a temporary table, the two agree on every
   row the latter has, also on rows that an earlier attempt left.  At the swap
   they have the same migrations, and so the same rows.  This needs the lock
   (`TablesFrame`) and the deprecated type to stay away, which is why the
   property speaks of `Scope \ Legacy`.
5. `FreeInv`: what an adoption has copied is what it read, also in the table it
   then makes the control row for; a v1 table with rows and without control row
   has an adoption at that step.  The deprecated type does not matter here: on a
   v1 table it can only delete, and what it adds to a prototype that is being
   copied does not reach the copy.

`BatchAfter` is a CHOOSE of the least number above the batches of a table; that
there is one follows from the well-foundedness of the naturals
(`LeastNatural` of `NumberTheorems`).

### Directory and import

`DirectoryProofs`, for any number of creators, seconds and names:

| Theorem | Says |
|---|---|
| `TypeCorrect` | types |
| `NeverUpOnlyHolds` | no up file is seen without its down file and the bytes of both |
| `OneNameASecondHolds` | no two migrations share a second |
| `CreatedPairsStayHolds` | both files of a migration reported created stay |
| `ScanMeetsPairsHolds` | a scan fails only over an up file that was withdrawn |

The invariant is `DirInv`.  `PairInv` has to speak of `disk` as well as of
`files`, since a power loss shows any mixture of the two: an up file in either
has its down file in both.  `LockInv` makes a second one creator's; hence what
the check under the lock found stays true until the link (`OwnInv`), and hence
an up file that is withdrawn is not one that was reported (`KeptInv`).  The
lemmas on effects (`FilesEffect`, `DiskEffect`, `LockEffect`) say once, for all
actions, what a creator's step does to the directory.

`ImportProofs`, for any number of importers, any directories and sources:

| Theorem | Says |
|---|---|
| `ImportsCleanSourceHolds` | baselines appear at once, in an empty table, for a clean source that had not moved |
| `SameImportIsAcceptedHolds` | the import that the baselines came from is accepted again |
| `SuccessIsExactHolds` | success leaves exactly what was scanned, up to the version read |

`ImportInv`: who has read the source holds the lock (`HoldInv`), so a table
found empty stays empty until the commit; the source is as it was read, or was
written during the open transaction (`SourceInv`); the baselines in the table
are those of one scan and one tuple (`OriginInv`).  `Baselines` is never looked
into for these three: the argument is about when it is computed and from what.

`ImportTypeCorrect` is about what it is.  Which file of a version names the pair
is a CHOOSE of the one seen last; the files are finitely many numbers, so there is
a last one (`GreatestNatural`), and a version of the scan has its two files in
the directory.  `SeenInv` adds that a plan is made from a tuple that was read.

### The deprecated type

`LegacyProofs`, for any number of processes, migrations and directories:

| Theorem | Says |
|---|---|
| `LegacyTypeCorrect` | types; a migration has one row |
| `RowsTellTheTruthHolds` | the table is true of all that no call broke off on and no two calls shared |
| `BatchIsOneCallHolds` | without overlap, a batch is what one up inserted |
| `LegacyRollbackIsLifoHolds` | without overlap, rows go in the reverse order, imported ones last |
| `SuccessIsCompleteHolds` | without overlap, success means that all is done |

There is no lock to argue with, so the invariants say what a process can rely on
about a migration as long as no one else has it in a plan:

1. `WorkInv`: who executes has something left to do; an import never executes,
   and touches numbered files only;
2. `ApartInv`: what is in two plans at once is spoiled (or `undone`, which the
   property passes over as well; `Excused` is both);
3. `DoneInv`: who is about to insert or delete a row has had the effect that the
   row will claim, an import because golang-migrate had it;
4. `PlainInv`: where nobody is at work, row and effect go together.

A step touches the migration at the head of its plan and no other (`StepEffect`).
The other three theorems rest on `SerialInv`, which says of calls that never had
a rival: one process at most is in a call (`Alone`); batches ascend with the ids
(`InOrder`); the batch of an up is above all of them, or all its rows are this
call's (`UpOf`); in the plan of a rollback a row comes behind all that have
higher ids (`BackOf`, `Behind`), which survives the deletion of the first; and
what a call found is in the table or in its plan (`GoalOf`).  That a plan is
`Behind` is a matter of listings: `Ascending`, `RowsAt` and `Reverse` keep or
reverse the order (`RowsAtOrder`, `ReversedIsBehind`).

## 6. What is only model-checked

Liveness: `CommandsReturn`, which needs fairness and ENABLED, is out of the
prover's reach.  The claims that fail need no proof: a run shows their
counterexample.  Without `InspectionIsCurrent`
and with IgnoreChecksumDrift the refinement is neither proved nor checked, since
the code does not give it.

## 7. Not modelled, and the plan

Not modelled: parsing, checksums, templates and identifiers; rendering; the CLI
(its argument parsing and exit codes surround the calls modelled); option
validation; the capability probes (reads that pass or fail a command, which
`Abort` and `Stop` cover); the contents of views.

Order of work, most important first; the first ten are done.

1. `Planner`, `Migrator`, `Ledger`: the protocol and what it promises.
2. `MigratorProofs`: types, lock, dirty rows, truth, batches.
3. `Metadata`: bootstrap and adoption, with other programs beside.
4. `MetadataProofs`: locks, growth, bootstrap, history.
5. `Import`: validation and insertion of baselines while the tool that owns the
   source table writes it.
6. `Directory`: publication of a pair of files, with crashes, power losses and a
   concurrent scan.
7. `LegacyMigrate`: the deprecated type, two processes without a lock.
8. `DirectoryProofs`: names, pairs, scans.
9. `ImportProofs`: baselines.
10. `PlanProofs`, `LedgerProofs`, `LegacyProofs` and the rest of the theorems:
   the refinement of `Ledger`, plans and baselines, free batches, the deprecated
   type.
11. The planner against a definition on sequences (batches sorted, reversed,
   limited), over all small tables.
