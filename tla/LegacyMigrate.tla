---------------------------- MODULE LegacyMigrate ----------------------------
(***************************************************************************)
(* The deprecated type Migrate (lamigrate.go, import_legacy.go).  It keeps *)
(* a four-column table, takes no lock and writes no intent: a call plans,  *)
(* then runs the SQL of one migration after another and inserts or deletes *)
(* its row afterwards.  Its import marks numbered files of golang-migrate  *)
(* as applied, in batch 0.                                                 *)
(*                                                                         *)
(* Several processes may call it.  A statement may fail, with or without   *)
(* its effect, and a process may die between any two of them.              *)
(***************************************************************************)
EXTENDS Integers, FiniteSets, Sequences, SequencesExt

CONSTANTS
  Process,    \* those who call it
  Timed,      \* migrations with a timestamp, in the order of their names
  Numbered,   \* files of golang-migrate, in the order of their numbers
  Commands,   \* bound: the commands that are called
  Limits,     \* bound: how many migrations a call of up or down is limited to
  Dirs,       \* bound: which files there may be, at one time
  MaxBatch,   \* bound on batches
  MaySpoil    \* bound: no calls once a migration other than these is spoiled

Name == Timed \cup Numbered

ASSUME NameAssumption ==
  /\ Name \subseteq Nat /\ IsFiniteSet(Name)
  /\ Timed \cap Numbered = {}
ASSUME DirsAssumption == Dirs \subseteq [Name -> SUBSET {"up", "down"}]
ASSUME BoundAssumption ==
  /\ MaxBatch \in Nat \ {0} /\ MaySpoil \subseteq Name
  /\ Limits \subseteq Nat \ {0}
  /\ \E n \in Limits : n >= Cardinality(Timed) /\ \A k \in Limits : k <= n
ASSUME CommandsAssumption == Commands \subseteq {"up", "down", "reset", "import"}

VARIABLES
  v1,       \* did the lamigrate of today make the tracking table?
  rows,     \* the tracking table, in the order of ids
  schema,   \* what the database shows of a migration: none, some or all of it
  files,    \* the files of the directory
  pc,       \* where a process is
  op,       \* the command it executes
  limit,    \* how many migrations it may touch
  todo,     \* the migrations left to do
  batch,    \* the batch of an up
  \* history
  found,    \* the files its plan came from
  mine,     \* the rows its call has inserted
  spoiled,  \* migrations whose call broke off half-way, or met another on them
  undone,   \* numbered migrations that were rolled back
  overlap   \* have two calls ever run at once?

vars == <<v1, rows, schema, files, pc, op, limit, todo, batch, found, mine, spoiled,
          undone, overlap>>
database == <<v1, rows, schema>>
call == <<op, limit, todo, batch, found, mine>>

NoLimit == CHOOSE n \in Limits : \A k \in Limits : k <= n

Row == [name : Name, batch : 0..MaxBatch]

TypeOK ==
  /\ v1 \in BOOLEAN
  /\ rows \in Seq(Row)
  /\ \A i, j \in DOMAIN rows : rows[i].name = rows[j].name => i = j
  /\ schema \in [Name -> {"none", "part", "all"}]
  /\ files \in Dirs
  /\ pc \in [Process -> {"idle", "plan", "batch", "execute", "record", "done"}]
  /\ op \in [Process -> {"up", "down", "reset", "import"}]
  /\ limit \in [Process -> Limits]
  /\ todo \in [Process -> Seq(Name)]
  /\ batch \in [Process -> 0..MaxBatch]
  /\ found \in [Process -> SUBSET Name]
  /\ mine \in [Process -> SUBSET Name]
  /\ spoiled \subseteq Name
  /\ undone \subseteq Numbered
  /\ overlap \in BOOLEAN

\* A set of numbers, from the least to the greatest.
Ascending(S) == CHOOSE s \in [1..Cardinality(S) -> S] :
                  \A i, j \in DOMAIN s : i < j => s[i] < s[j]

\* A new table, in a database golang-migrate has managed; or one of today's
\* lamigrate, which has applied some migrations in its first batch.
Init ==
  /\ \/ v1 = FALSE /\ rows = <<>>
     \/ /\ v1 = TRUE
        /\ \E A \in SUBSET Timed :
             rows = [i \in DOMAIN Ascending(A) |->
                       [name |-> Ascending(A)[i], batch |-> 1]]
  /\ schema = [m \in Name |->
       IF m \in Numbered \/ \E i \in DOMAIN rows : rows[i].name = m THEN "all" ELSE "none"]
  /\ files \in Dirs
  /\ pc = [p \in Process |-> "idle"]
  /\ op = [p \in Process |-> "up"]
  /\ limit = [p \in Process |-> NoLimit]
  /\ todo = [p \in Process |-> <<>>]
  /\ batch = [p \in Process |-> 0]
  /\ found = [p \in Process |-> {}]
  /\ mine = [p \in Process |-> {}]
  /\ spoiled = {}
  /\ undone = {}
  /\ overlap = FALSE

-----------------------------------------------------------------------------
(* What a call plans.                                                      *)

Tracked == {rows[i].name : i \in DOMAIN rows}

\* scanMigrations: an up file with a timestamp needs its down file.
ScanFails == \E m \in Timed : files[m] = {"up"}

\* One of two files is enough for scanLegacyMigrations.
LegacyFiles == {m \in Numbered : files[m] # {}}

Limited(s, n) == SubSeq(s, 1, IF n < Len(s) THEN n ELSE Len(s))

Names(s) == [i \in DOMAIN s |-> s[i].name]

\* The rows at these positions, in the order of ids.
RowsAt(I) == [k \in DOMAIN Ascending(I) |-> rows[Ascending(I)[k]]]

TimedFiles == {m \in Timed : "up" \in files[m]}

Pending(n) == Limited(Ascending(TimedFiles \ Tracked), n)

\* COALESCE(MAX(batch), 0)
LastBatch == IF rows = <<>> THEN 0
             ELSE CHOOSE b \in 0..MaxBatch :
                    /\ \E i \in DOMAIN rows : rows[i].batch = b
                    /\ \A i \in DOMAIN rows : rows[i].batch <= b

\* The slip of leaving out that imported migrations are no batch.
LastBatchOfAny(n) ==
  Limited(Reverse(Names(RowsAt({i \in DOMAIN rows : rows[i].batch = LastBatch}))), n)

\* appliedInLastBatch: WHERE batch = (the last one) AND batch > 0 ORDER BY id DESC.
AppliedInLastBatch(n) ==
  LET I == {i \in DOMAIN rows : rows[i].batch = LastBatch /\ rows[i].batch > 0}
  IN Limited(Reverse(Names(RowsAt(I))), n)

\* The slip of forgetting to reverse.
AllInOrder == Names(rows)

AllReversed == Reverse(Names(rows))

\* The slip of stopping at the first file that is already there.
UpToFirstTracked ==
  Ascending({m \in LegacyFiles : \A n \in LegacyFiles : n <= m => n \notin Tracked})

ToImport == Ascending(LegacyFiles \ Tracked)

-----------------------------------------------------------------------------
(* The steps of a call.                                                    *)

Goto(p, l) == pc' = [pc EXCEPT ![p] = l]

\* The call returns, or its process is gone.
Return(p) ==
  /\ Goto(p, "idle")
  /\ op' = [op EXCEPT ![p] = "up"]
  /\ limit' = [limit EXCEPT ![p] = NoLimit]
  /\ todo' = [todo EXCEPT ![p] = <<>>]
  /\ batch' = [batch EXCEPT ![p] = 0]
  /\ found' = [found EXCEPT ![p] = {}]
  /\ mine' = [mine EXCEPT ![p] = {}]

\* Migrations that this plan and that of another call have in common.
Contended(p, s) == ToSet(s) \cap UNION {ToSet(todo[q]) : q \in Process \ {p}}

\* The next migration, or the end.
Proceed(p, s, l) ==
  /\ todo' = [todo EXCEPT ![p] = s]
  /\ Goto(p, IF s = <<>> THEN "done" ELSE l)
  /\ UNCHANGED <<op, limit, batch>>

Call(p, o, n) ==
  /\ pc[p] = "idle" /\ spoiled \subseteq MaySpoil
  /\ Goto(p, "plan")
  /\ op' = [op EXCEPT ![p] = o]
  /\ limit' = [limit EXCEPT ![p] = n]
  /\ overlap' = (overlap \/ \E q \in Process \ {p} : pc[q] # "idle")
  /\ UNCHANGED <<database, files, todo, batch, found, mine, spoiled, undone>>

\* The scan and the query of the rows.
PlanCall(p, F, s, l) ==
  /\ pc[p] = "plan"
  /\ Proceed(p, s, l)
  /\ found' = [found EXCEPT ![p] = F]
  /\ spoiled' = spoiled \cup Contended(p, s)
  /\ UNCHANGED <<database, files, mine, undone, overlap>>

PlanUp(p) ==
  op[p] = "up" /\ ~ScanFails /\ PlanCall(p, TimedFiles, Pending(limit[p]), "batch")
PlanDown(p) == op[p] = "down" /\ PlanCall(p, {}, AppliedInLastBatch(limit[p]), "execute")
PlanReset(p) == op[p] = "reset" /\ PlanCall(p, {}, AllReversed, "execute")
PlanImport(p) == op[p] = "import" /\ PlanCall(p, LegacyFiles, ToImport, "record")

\* The slip of joining the last batch.
NextBatchJoining(p) ==
  /\ pc[p] = "batch"
  /\ batch' = [batch EXCEPT ![p] = IF LastBatch = 0 THEN 1 ELSE LastBatch]
  /\ Goto(p, "execute")
  /\ UNCHANGED <<database, files, op, limit, todo, found, mine, spoiled, undone, overlap>>

\* nextBatch: a query of its own, which reserves nothing.
NextBatch(p) ==
  /\ pc[p] = "batch"
  /\ LastBatch < MaxBatch
  /\ batch' = [batch EXCEPT ![p] = LastBatch + 1]
  /\ Goto(p, "execute")
  /\ UNCHANGED <<database, files, op, limit, todo, found, mine, spoiled, undone, overlap>>

\* readSQL of an up file; findDownFile scans the directory anew, and does not
\* find a down file with a timestamp whose up file is gone.
SqlIsThere(p, m) ==
  IF op[p] = "up" THEN "up" \in files[m]
  ELSE /\ ~ScanFails
       /\ IF m \in Timed THEN files[m] = {"up", "down"} ELSE "down" \in files[m]

Effect(p) == IF op[p] = "up" THEN "all" ELSE "none"

\* The slip of not looking at the error of the SQL.
ExecuteAnyway(p) ==
  LET m == Head(todo[p])
  IN /\ pc[p] = "execute"
     /\ SqlIsThere(p, m)
     /\ \E e \in {schema[m], "part", Effect(p)} : schema' = [schema EXCEPT ![m] = e]
     /\ Goto(p, "record")
     /\ UNCHANGED <<v1, rows, files, call, spoiled, undone, overlap>>

\* The SQL of the next migration has its effect, or fails with none or a part.
Execute(p) ==
  LET m == Head(todo[p])
  IN /\ pc[p] = "execute"
     /\ SqlIsThere(p, m)
     /\ \/ /\ schema' = [schema EXCEPT ![m] = Effect(p)]
           /\ Goto(p, "record")
           /\ UNCHANGED <<call, spoiled>>
        \/ Return(p) /\ UNCHANGED <<schema, spoiled>>
        \/ /\ schema' = [schema EXCEPT ![m] = "part"]
           /\ spoiled' = spoiled \cup {m}
           /\ Return(p)
     /\ UNCHANGED <<v1, rows, files, undone, overlap>>

\* The slip of a table whose names are not unique.
RecordTwice(p) ==
  LET m == Head(todo[p])
  IN /\ pc[p] = "record" /\ op[p] \in {"up", "import"}
     /\ ~v1
     /\ rows' = Append(rows, [name |-> m, batch |-> batch[p]])
     /\ Proceed(p, Tail(todo[p]), IF op[p] = "up" THEN "execute" ELSE "record")
     /\ mine' = [mine EXCEPT ![p] = @ \cup {m}]
     /\ UNCHANGED <<v1, schema, files, found, spoiled, undone, overlap>>

\* recordMigration: the table of today's lamigrate has columns without default,
\* and a migration has one row.
Record(p) ==
  LET m == Head(todo[p])
  IN /\ pc[p] = "record" /\ op[p] \in {"up", "import"}
     /\ ~v1 /\ m \notin Tracked
     /\ rows' = Append(rows, [name |-> m, batch |-> batch[p]])
     /\ \/ /\ Proceed(p, Tail(todo[p]), IF op[p] = "up" THEN "execute" ELSE "record")
           /\ mine' = [mine EXCEPT ![p] = @ \cup {m}]
           /\ UNCHANGED found
        \/ Return(p)
     /\ UNCHANGED <<v1, schema, files, spoiled, undone, overlap>>

\* removeMigration: the rows of that name, if any.
Delete(p) ==
  LET m == Head(todo[p])
  IN /\ pc[p] = "record" /\ op[p] \in {"down", "reset"}
     /\ rows' = RowsAt({i \in DOMAIN rows : rows[i].name # m})
     /\ \/ Proceed(p, Tail(todo[p]), "execute") /\ UNCHANGED <<found, mine>>
        \/ Return(p)
     /\ undone' = undone \cup ({m} \cap Numbered)
     /\ UNCHANGED <<v1, schema, files, spoiled, overlap>>

\* What the call has executed and not recorded.
Broken(p) == IF pc[p] = "record" /\ op[p] # "import" THEN {Head(todo[p])} ELSE {}

\* A statement or a file cannot be had, or the process dies.
BreakOff(p) ==
  /\ pc[p] \notin {"idle", "done"}
  /\ Return(p)
  /\ spoiled' = spoiled \cup Broken(p)
  /\ UNCHANGED <<database, files, undone, overlap>>

Finish(p) ==
  /\ pc[p] = "done"
  /\ Return(p)
  /\ UNCHANGED <<database, files, spoiled, undone, overlap>>

\* A developer adds, edits or removes files.
EditFiles ==
  /\ files' \in Dirs \ {files}
  /\ UNCHANGED <<database, pc, call, spoiled, undone, overlap>>

Next ==
  \/ \E p \in Process :
       \/ \E o \in Commands, n \in Limits : Call(p, o, n)
       \/ PlanUp(p) \/ PlanDown(p) \/ PlanReset(p) \/ PlanImport(p)
       \/ NextBatch(p) \/ Execute(p) \/ Record(p) \/ Delete(p) \/ BreakOff(p) \/ Finish(p)
  \/ EditFiles

Spec == Init /\ [][Next]_vars

-----------------------------------------------------------------------------
(* Properties.                                                             *)

InWork(m) == \E p \in Process : pc[p] = "record" /\ Head(todo[p]) = m

\* The table says what the database shows of a migration, unless a call broke
\* off between its SQL and its row, or two calls had it in their plans at once;
\* and unless a reset has rolled back a numbered one: the import that follows
\* marks it as applied, with no failure and no second call involved.
RowsTellTheTruth ==
  \A m \in Name \ spoiled : ~InWork(m) =>
    /\ m \in Timed => IF m \in Tracked THEN schema[m] = "all" ELSE schema[m] = "none"
    /\ m \in Tracked => schema[m] = "all" \/ m \in undone

\* A row is inserted in a batch that only has rows of the same call, unless
\* calls have overlapped: down undoes what one up did.
BatchIsOneCall ==
  [][\A p \in Process :
       ~overlap /\ pc[p] = "record" /\ op[p] = "up" /\ Len(rows') > Len(rows) =>
         \A i \in DOMAIN rows : rows[i].batch = batch[p] => rows[i].name \in mine[p]]_vars

\* Rows go in the reverse of the order they came in; down passes over imported
\* ones, which only reset takes.
RollbackIsLifo ==
  [][\A p \in Process :
       ~overlap /\ pc[p] = "record" /\ Len(rows') < Len(rows) =>
         LET m == Head(todo[p])
         IN /\ op[p] = "reset" => rows[Len(rows)].name = m
            /\ op[p] = "down" =>
                 /\ m \in Timed
                 /\ \A i, j \in DOMAIN rows : rows[i].name = m /\ i < j => rows[j].batch = 0]_vars

\* A call that reports success has done all it was asked for, whatever earlier
\* calls left behind: an import has every numbered file it found in the table, an
\* up every migration it found, and a reset leaves no row.
SuccessIsComplete ==
  [][\A p \in Process :
       ~overlap /\ pc[p] # "done" /\ pc'[p] = "done" /\ limit[p] = NoLimit =>
         /\ found'[p] \subseteq Tracked'
         /\ op[p] = "reset" => rows' = <<>>]_vars
=============================================================================
