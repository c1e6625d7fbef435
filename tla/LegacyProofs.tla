---------------------------- MODULE LegacyProofs ----------------------------
(***************************************************************************)
(* Theorems about LegacyMigrate: for any number of processes, migrations   *)
(* and directories, what the deprecated type leaves in its table is what   *)
(* the database shows, outside of what calls broke off on or shared and of *)
(* numbered migrations that were rolled back and imported again; and as    *)
(* long as calls follow one another, batches, rollbacks and successes are  *)
(* what a caller takes them for.                                           *)
(*                                                                         *)
(*   WorkInv    who executes has something to execute, an import never     *)
(*   ApartInv   what is in two plans at once is excused                    *)
(*   DoneInv    who is about to write a row has had the effect it claims,  *)
(*              an import because golang-migrate had it                    *)
(*   PlainInv   row and effect go together where nobody is at work         *)
(*   SerialInv  without overlap: batches ascend in the table; the batch of *)
(*              an up is above all of them; a rollback has in front of a   *)
(*              row those that came after it; what a call found is in the  *)
(*              table or still to do                                       *)
(***************************************************************************)
EXTENDS LegacyMigrate, SequenceTheorems, NumberTheorems

-----------------------------------------------------------------------------
(* Sequences and sets of numbers.                                          *)

\* A finite set of numbers has an ascending listing.
LEMMA AscendingIs ==
  ASSUME NEW S \in SUBSET Nat, IsFiniteSet(S)
  PROVE  /\ Ascending(S) \in [1..Cardinality(S) -> S]
         /\ Cardinality(S) \in Nat
         /\ \A i, j \in 1..Cardinality(S) : i < j => Ascending(S)[i] < Ascending(S)[j]
<1>. DEFINE n == Cardinality(S)
<1>1. PICK f \in [S -> 1..n] :
        /\ \A x, y \in S : x < y => f[x] < f[y]
        /\ \A i \in 1..n : \E x \in S : f[x] = i
  BY RankIsOnto
<1>. DEFINE s == [i \in 1..n |-> CHOOSE x \in S : f[x] = i]
<1>2. n \in Nat
  BY FS_CardinalityType
<1>3. \A i \in 1..n : s[i] \in S /\ f[s[i]] = i
  BY <1>1
<1>4. s \in [1..n -> S]
  BY <1>3
<1>5. ASSUME NEW i \in 1..n, NEW j \in 1..n, i < j PROVE s[i] < s[j]
  <2>. HIDE DEF s
  <2>1. s[i] \in S /\ s[j] \in S /\ f[s[i]] = i /\ f[s[j]] = j
    BY <1>3
  <2>2. f[s[i]] \in Nat /\ f[s[j]] \in Nat /\ i \in Nat /\ j \in Nat
    BY <1>2, <2>1
  <2>3. ~(s[j] < s[i])
    <3>1. s[j] < s[i] => f[s[j]] < f[s[i]]
      BY <1>1, <2>1, Zenon
    <3>. QED
      BY <1>5, <2>1, <2>2, <3>1
  <2>4. s[i] # s[j]
    BY <1>5, <2>1, <2>2
  <2>5. s[i] \in Nat /\ s[j] \in Nat
    BY <2>1
  <2>. QED
    BY <2>3, <2>4, <2>5
<1>6. \E t \in [1..n -> S] : \A i, j \in DOMAIN t : i < j => t[i] < t[j]
  <2>. HIDE DEF s
  <2>1. DOMAIN s = 1..n
    BY <1>4
  <2>. QED
    BY <1>4, <1>5, <2>1
<1>7. /\ Ascending(S) \in [1..n -> S]
      /\ \A i, j \in DOMAIN Ascending(S) : i < j => Ascending(S)[i] < Ascending(S)[j]
  BY <1>6 DEF Ascending
<1>. QED
  BY <1>2, <1>7

\* It has every element of the set at one place.
LEMMA AscendingLists ==
  ASSUME NEW S \in SUBSET Nat, IsFiniteSet(S)
  PROVE  /\ Ascending(S) \in Seq(S) /\ ToSet(Ascending(S)) = S
         /\ \A i, j \in DOMAIN Ascending(S) : Ascending(S)[i] = Ascending(S)[j] => i = j
<1>. DEFINE n == Cardinality(S)
            a == Ascending(S)
<1>1. /\ a \in [1..n -> S] /\ n \in Nat
      /\ \A i, j \in 1..n : i < j => a[i] < a[j]
  BY AscendingIs
<1>. HIDE DEF a
<1>2. \A i, j \in 1..n : a[i] = a[j] => i = j
  <2>. SUFFICES ASSUME NEW i \in 1..n, NEW j \in 1..n, i # j PROVE a[i] # a[j]
    OBVIOUS
  <2>1. i < j \/ j < i
    BY <1>1
  <2>2. a[i] \in Nat /\ a[j] \in Nat
    BY <1>1
  <2>. QED
    BY <1>1, <2>1, <2>2
<1>3. a \in Injection(1..n, S)
  BY <1>1, <1>2 DEF Injection, IsInjective
<1>4. IsFiniteSet(1..n) /\ Cardinality(1..n) = n
  <2>1. 1 \in Int /\ n \in Int
    BY <1>1
  <2>2. IsFiniteSet(1..n) /\ Cardinality(1..n) = IF 1 > n THEN 0 ELSE n - 1 + 1
    BY <2>1, FS_Interval
  <2>. QED
    BY <1>1, <2>2
<1>5. a \in Surjection(1..n, S)
  BY <1>3, <1>4, FS_Injection
<1>6. a \in Seq(S)
  BY <1>1
<1>7. DOMAIN a = 1..n
  BY <1>1
<1>8. ToSet(a) = S
  BY <1>1, <1>5, <1>7 DEF Surjection, ToSet
<1>9. \A i, j \in DOMAIN a : a[i] = a[j] => i = j
  BY <1>2, <1>7
<1>. QED
  BY <1>6, <1>8, <1>9 DEF a

\* What a limit leaves of a plan is part of it.
LEMMA LimitedIs ==
  ASSUME NEW S, NEW s \in Seq(S), NEW n \in Nat
  PROVE  /\ Limited(s, n) \in Seq(S) /\ ToSet(Limited(s, n)) \subseteq ToSet(s)
         /\ DOMAIN Limited(s, n) = 1..(IF n < Len(s) THEN n ELSE Len(s))
         /\ \A i \in DOMAIN Limited(s, n) : i \in DOMAIN s /\ Limited(s, n)[i] = s[i]
<1>. DEFINE k == IF n < Len(s) THEN n ELSE Len(s)
<1>1. Len(s) \in Nat /\ DOMAIN s = 1..Len(s) /\ k \in 0..Len(s)
  BY LenProperties
<1>2. \A i \in 1..k : s[i] \in S
  BY <1>1, ElementOfSeq
<1>3. /\ SubSeq(s, 1, k) \in Seq(S)
      /\ Len(SubSeq(s, 1, k)) = k
      /\ \A i \in 1..k : SubSeq(s, 1, k)[i] = s[i]
  <2>. HIDE DEF k
  <2>1. k \in Int /\ 1 \in Int
    BY <1>1
  <2>2. /\ SubSeq(s, 1, k) \in Seq(S)
        /\ Len(SubSeq(s, 1, k)) = IF 1 <= k THEN k - 1 + 1 ELSE 0
        /\ \A i \in 1..(k - 1 + 1) : SubSeq(s, 1, k)[i] = s[1 + i - 1]
    BY <1>2, <2>1, SubSeqProperties
  <2>. QED
    BY <1>1, <2>2
<1>4. DOMAIN SubSeq(s, 1, k) = 1..k
  BY <1>3, LenProperties
<1>. HIDE DEF k
<1>5. ToSet(SubSeq(s, 1, k)) \subseteq ToSet(s)
  BY <1>1, <1>3, <1>4 DEF ToSet
<1>6. \A i \in 1..k : i \in DOMAIN s
  BY <1>1
<1>. QED
  BY <1>3, <1>4, <1>5, <1>6 DEF Limited, k

\* Reversing changes the order and nothing else.
LEMMA ReverseIs ==
  ASSUME NEW S, NEW s \in Seq(S)
  PROVE  Reverse(s) \in Seq(S) /\ ToSet(Reverse(s)) \subseteq ToSet(s)
<1>1. Len(s) \in Nat /\ DOMAIN s = 1..Len(s)
  BY LenProperties
<1>2. \A i \in 1..Len(s) : (Len(s) - i) + 1 \in 1..Len(s)
  BY <1>1
<1>3. \A i \in 1..Len(s) : s[(Len(s) - i) + 1] \in S
  BY <1>2, ElementOfSeq
<1>4. Reverse(s) \in [1..Len(s) -> S]
  BY <1>3 DEF Reverse
<1>5. Reverse(s) \in Seq(S)
  BY <1>1, <1>4
<1>6. ToSet(Reverse(s)) \subseteq ToSet(s)
  BY <1>1, <1>2, <1>4 DEF ToSet, Reverse
<1>. QED
  BY <1>5, <1>6

\* The first of a plan and the rest of it.
LEMMA HeadTailIs ==
  ASSUME NEW S, NEW s \in Seq(S), s # <<>>
  PROVE  /\ Head(s) \in S /\ Head(s) \in ToSet(s)
         /\ Tail(s) \in Seq(S) /\ ToSet(Tail(s)) \subseteq ToSet(s)
<1>1. /\ Head(s) \in S /\ Tail(s) \in Seq(S) /\ Len(Tail(s)) = Len(s) - 1
      /\ \A i \in 1..Len(Tail(s)) : Tail(s)[i] = s[i + 1]
  BY HeadTailProperties
<1>2. Len(s) \in Nat \ {0} /\ DOMAIN s = 1..Len(s)
  BY LenProperties, EmptySeq
<1>3. Head(s) = s[1]
  OBVIOUS
<1>4. DOMAIN Tail(s) = 1..Len(Tail(s))
  BY <1>1, LenProperties
<1>5. ToSet(Tail(s)) \subseteq ToSet(s)
  BY <1>1, <1>2, <1>4 DEF ToSet
<1>. QED
  BY <1>1, <1>2, <1>3, <1>5 DEF ToSet

\* A plan names the elements of the set it lists.
LEMMA ToSetIs ==
  ASSUME NEW S, NEW s \in Seq(S)
  PROVE  ToSet(s) \subseteq S
<1>1. DOMAIN s = 1..Len(s)
  BY LenProperties
<1>. QED
  BY <1>1, ElementOfSeq DEF ToSet

-----------------------------------------------------------------------------
(* The table and the plans made from it.                                   *)

NamesOnce(t) == \A i, j \in DOMAIN t : t[i].name = t[j].name => i = j

\* The rows at some positions are rows of the table, each once.
LEMMA RowsAtIs ==
  ASSUME rows \in Seq(Row), NamesOnce(rows), NEW I \in SUBSET (DOMAIN rows)
  PROVE  /\ RowsAt(I) \in Seq(Row) /\ NamesOnce(RowsAt(I))
         /\ {RowsAt(I)[k].name : k \in DOMAIN RowsAt(I)} = {rows[i].name : i \in I}
<1>. DEFINE a == Ascending(I)
            t == RowsAt(I)
<1>1. DOMAIN rows = 1..Len(rows) /\ Len(rows) \in Nat
  BY LenProperties
<1>2. I \in SUBSET Nat /\ IsFiniteSet(I)
  <2>1. 1 \in Int /\ Len(rows) \in Int
    BY <1>1
  <2>2. IsFiniteSet(1..Len(rows))
    BY <2>1, FS_Interval
  <2>. QED
    BY <1>1, <2>2, FS_Subset
<1>3. /\ a \in Seq(I) /\ ToSet(a) = I
      /\ \A i, j \in DOMAIN a : a[i] = a[j] => i = j
  BY <1>2, AscendingLists
<1>4. DOMAIN a = 1..Len(a) /\ Len(a) \in Nat
  BY <1>3, LenProperties
<1>5. t = [k \in DOMAIN a |-> rows[a[k]]]
  BY DEF RowsAt
<1>. HIDE DEF a, t
<1>6. \A k \in DOMAIN a : a[k] \in I /\ a[k] \in DOMAIN rows
  BY <1>3 DEF ToSet
<1>7. \A i \in DOMAIN rows : rows[i] \in Row
  BY <1>1, ElementOfSeq
<1>8. t \in [1..Len(a) -> Row]
  BY <1>4, <1>5, <1>6, <1>7
<1>9. t \in Seq(Row)
  BY <1>4, <1>8
<1>10. DOMAIN t = DOMAIN a /\ \A k \in DOMAIN a : t[k] = rows[a[k]]
  BY <1>5
<1>11. NamesOnce(t)
  BY <1>3, <1>6, <1>10 DEF NamesOnce
<1>12. \A i \in I : \E k \in DOMAIN a : a[k] = i
  BY <1>3 DEF ToSet
<1>13. {t[k].name : k \in DOMAIN t} = {rows[i].name : i \in I}
  BY <1>6, <1>10, <1>12
<1>. QED
  BY <1>9, <1>11, <1>13 DEF t

\* They keep their order: a gives the position that each of them comes from.
LEMMA RowsAtOrder ==
  ASSUME rows \in Seq(Row), NEW I \in SUBSET (DOMAIN rows)
  PROVE  \E a \in [DOMAIN RowsAt(I) -> I] :
           /\ \A k \in DOMAIN RowsAt(I) : RowsAt(I)[k] = rows[a[k]]
           /\ \A k, l \in DOMAIN RowsAt(I) : k < l => a[k] < a[l]
           /\ \A i \in I : \E k \in DOMAIN RowsAt(I) : a[k] = i
<1>. DEFINE a == Ascending(I)
            t == RowsAt(I)
<1>1. DOMAIN rows = 1..Len(rows) /\ Len(rows) \in Nat
  BY LenProperties
<1>2. I \in SUBSET Nat /\ IsFiniteSet(I)
  <2>1. 1 \in Int /\ Len(rows) \in Int
    BY <1>1
  <2>2. IsFiniteSet(1..Len(rows))
    BY <2>1, FS_Interval
  <2>. QED
    BY <1>1, <2>2, FS_Subset
<1>3. /\ a \in [1..Cardinality(I) -> I] /\ ToSet(a) = I
      /\ \A k, l \in 1..Cardinality(I) : k < l => a[k] < a[l]
  BY <1>2, AscendingIs, AscendingLists
<1>4. t = [k \in DOMAIN a |-> rows[a[k]]]
  BY DEF RowsAt
<1>. HIDE DEF a, t
<1>5. DOMAIN t = 1..Cardinality(I) /\ DOMAIN a = DOMAIN t
  BY <1>3, <1>4
<1>6. \A i \in I : \E k \in DOMAIN a : a[k] = i
  BY <1>3 DEF ToSet
<1>7. \E b \in [DOMAIN t -> I] :
        /\ \A k \in DOMAIN t : t[k] = rows[b[k]]
        /\ \A k, l \in DOMAIN t : k < l => b[k] < b[l]
        /\ \A i \in I : \E k \in DOMAIN t : b[k] = i
  <2>1. a \in [DOMAIN t -> I]
    BY <1>3, <1>5
  <2>2. \A k \in DOMAIN t : t[k] = rows[a[k]]
    BY <1>4, <1>5
  <2>3. \A k, l \in DOMAIN t : k < l => a[k] < a[l]
    BY <1>3, <1>5
  <2>4. \A i \in I : \E k \in DOMAIN t : a[k] = i
    BY <1>5, <1>6
  <2>. QED
    BY <2>1, <2>2, <2>3, <2>4, Zenon
<1>. QED
  BY <1>7 DEF t

\* The last batch is a batch, and the greatest.
LEMMA LastBatchIs ==
  ASSUME rows \in Seq(Row)
  PROVE  LastBatch \in 0..MaxBatch /\ \A i \in DOMAIN rows : rows[i].batch <= LastBatch
<1>. SUFFICES ASSUME rows # <<>>
              PROVE  /\ LastBatch \in 0..MaxBatch
                     /\ \A i \in DOMAIN rows : rows[i].batch <= LastBatch
  <2>1. rows = <<>> => LastBatch = 0 /\ DOMAIN rows = {}
    BY DEF LastBatch
  <2>. QED
    BY <2>1, BoundAssumption
<1>. DEFINE B == {rows[i].batch : i \in DOMAIN rows}
<1>1. DOMAIN rows = 1..Len(rows) /\ Len(rows) \in Nat \ {0}
  BY LenProperties, EmptySeq
<1>2. \A i \in DOMAIN rows : rows[i].batch \in 0..MaxBatch
  <2>1. \A i \in DOMAIN rows : rows[i] \in Row
    BY <1>1, ElementOfSeq
  <2>. QED
    BY <2>1 DEF Row
<1>3. B \in SUBSET (0..MaxBatch) /\ B \in SUBSET Nat /\ B # {}
  BY <1>1, <1>2
<1>4. IsFiniteSet(B)
  <2>1. IsFiniteSet(0..MaxBatch)
    BY BoundAssumption, FS_Interval
  <2>. QED
    BY <1>3, <2>1, FS_Subset
<1>5. PICK g \in B : \A b \in B : b <= g
  BY <1>3, <1>4, GreatestNatural
<1>6. g \in 0..MaxBatch
  BY <1>3
<1>7. \E b \in 0..MaxBatch :
        /\ \E i \in DOMAIN rows : rows[i].batch = b
        /\ \A i \in DOMAIN rows : rows[i].batch <= b
  <2>1. \A i \in DOMAIN rows : rows[i].batch <= g
    BY <1>5
  <2>. QED
    BY <1>5, <1>6, <2>1
<1>. QED
  BY <1>7 DEF LastBatch

\* A plan is a sequence of migrations: of files to apply or to import, of rows
\* to roll back.
LEMMA PlansAre ==
  ASSUME rows \in Seq(Row), NamesOnce(rows), NEW n \in Nat
  PROVE  /\ Pending(n) \in Seq(Name) /\ ToSet(Pending(n)) \subseteq TimedFiles
         /\ AppliedInLastBatch(n) \in Seq(Name)
         /\ AllReversed \in Seq(Name)
         /\ ToImport \in Seq(Name) /\ ToSet(ToImport) = LegacyFiles \ Tracked
<1>1. ASSUME NEW S \in SUBSET Name
      PROVE  Ascending(S) \in Seq(Name) /\ ToSet(Ascending(S)) = S
  <2>1. S \in SUBSET Nat /\ IsFiniteSet(S)
    BY NameAssumption, FS_Subset
  <2>2. Ascending(S) \in Seq(S) /\ ToSet(Ascending(S)) = S
    BY <2>1, AscendingLists
  <2>. QED
    BY <2>2, SeqMonotonic
<1>2. ASSUME NEW t \in Seq(Row) PROVE Reverse(Names(t)) \in Seq(Name)
  <2>1. DOMAIN t = 1..Len(t) /\ Len(t) \in Nat
    BY LenProperties
  <2>2. \A i \in DOMAIN t : t[i] \in Row
    BY <2>1, ElementOfSeq
  <2>3. \A i \in DOMAIN t : t[i].name \in Name
    BY <2>2 DEF Row
  <2>4. Names(t) \in [1..Len(t) -> Name]
    BY <2>1, <2>3 DEF Names
  <2>5. Names(t) \in Seq(Name)
    BY <2>1, <2>4
  <2>. QED
    BY <2>5, ReverseIs
<1>3. Pending(n) \in Seq(Name) /\ ToSet(Pending(n)) \subseteq TimedFiles
  <2>1. TimedFiles \ Tracked \in SUBSET Name
    BY DEF TimedFiles, Name
  <2>2. /\ Ascending(TimedFiles \ Tracked) \in Seq(Name)
        /\ ToSet(Ascending(TimedFiles \ Tracked)) = TimedFiles \ Tracked
    BY <1>1, <2>1
  <2>. QED
    BY <2>2, LimitedIs DEF Pending
<1>4. AppliedInLastBatch(n) \in Seq(Name)
  <2>. DEFINE I == {i \in DOMAIN rows : rows[i].batch = LastBatch /\ rows[i].batch > 0}
  <2>1. I \in SUBSET (DOMAIN rows)
    OBVIOUS
  <2>. HIDE DEF I
  <2>2. RowsAt(I) \in Seq(Row)
    BY <2>1, RowsAtIs
  <2>3. Limited(Reverse(Names(RowsAt(I))), n) \in Seq(Name)
    BY <1>2, <2>2, LimitedIs
  <2>. QED
    BY <2>3 DEF AppliedInLastBatch, I
<1>5. AllReversed \in Seq(Name)
  BY <1>2 DEF AllReversed
<1>6. ToImport \in Seq(Name) /\ ToSet(ToImport) = LegacyFiles \ Tracked
  <2>1. LegacyFiles \ Tracked \in SUBSET Name
    BY DEF LegacyFiles, Name
  <2>. QED
    BY <1>1, <2>1 DEF ToImport
<1>. QED
  BY <1>3, <1>4, <1>5, <1>6

-----------------------------------------------------------------------------
(* Types, and what a process has to do where it is.                        *)

Working(p) ==
  /\ pc[p] \in {"batch", "execute", "record"} => todo[p] # <<>>
  /\ pc[p] \in {"idle", "plan", "done"} => todo[p] = <<>>
  /\ op[p] = "import" =>
       pc[p] \notin {"batch", "execute"} /\ ToSet(todo[p]) \subseteq Numbered
  /\ op[p] = "up" => ToSet(todo[p]) \subseteq Timed

WorkInv == \A p \in Process : Working(p)

TypeInv == TypeOK /\ WorkInv

\* One step of one process.
Step(p) ==
  \/ \E o \in Commands, n \in Limits : Call(p, o, n)
  \/ PlanUp(p) \/ PlanDown(p) \/ PlanReset(p) \/ PlanImport(p)
  \/ NextBatch(p) \/ Execute(p) \/ Record(p) \/ Delete(p) \/ BreakOff(p) \/ Finish(p)

\* What every process remembers of its call.
CallTypes ==
  /\ pc \in [Process -> {"idle", "plan", "batch", "execute", "record", "done"}]
  /\ op \in [Process -> {"up", "down", "reset", "import"}]
  /\ limit \in [Process -> Limits]
  /\ todo \in [Process -> Seq(Name)]
  /\ batch \in [Process -> 0..MaxBatch]
  /\ found \in [Process -> SUBSET Name]
  /\ mine \in [Process -> SUBSET Name]

TableTypes ==
  /\ v1 \in BOOLEAN
  /\ rows \in Seq(Row) /\ NamesOnce(rows)
  /\ schema \in [Name -> {"none", "part", "all"}]
  /\ files \in Dirs
  /\ spoiled \subseteq Name
  /\ undone \subseteq Numbered
  /\ overlap \in BOOLEAN

LEMMA TypesSplit == TypeOK <=> CallTypes /\ TableTypes
  BY DEF TypeOK, CallTypes, TableTypes, NamesOnce

LEMMA NoLimitIs == NoLimit \in Limits
  BY BoundAssumption DEF NoLimit

\* A call that is over remembers nothing.
LEMMA ReturnTypes ==
  ASSUME CallTypes, NEW p \in Process, Return(p)
  PROVE  CallTypes' /\ pc'[p] = "idle" /\ todo'[p] = <<>> /\ op'[p] = "up"
  BY NoLimitIs, BoundAssumption, EmptySeq DEF CallTypes, Return, Goto

\* A call that goes on has the plan it goes on with.
LEMMA ProceedTypes ==
  ASSUME CallTypes, NEW p \in Process, NEW s \in Seq(Name),
         NEW l \in {"batch", "execute", "record"}, Proceed(p, s, l),
         found' \in [Process -> SUBSET Name], mine' \in [Process -> SUBSET Name]
  PROVE  /\ CallTypes' /\ todo'[p] = s /\ UNCHANGED op
         /\ pc'[p] = IF s = <<>> THEN "done" ELSE l
  BY DEF CallTypes, Proceed, Goto

\* The first migration of the plan of a process that executes.
LEMMA HeadIs ==
  ASSUME TypeInv, NEW p \in Process, pc[p] \in {"execute", "record"}
  PROVE  /\ Head(todo[p]) \in Name /\ Head(todo[p]) \in ToSet(todo[p])
         /\ Tail(todo[p]) \in Seq(Name) /\ ToSet(Tail(todo[p])) \subseteq ToSet(todo[p])
<1>1. todo[p] \in Seq(Name) /\ todo[p] # <<>>
  BY TypesSplit DEF TypeInv, WorkInv, Working, CallTypes
<1>. QED
  BY <1>1, HeadTailIs

\* Nobody else's call changes.
LEMMA OthersStay ==
  ASSUME CallTypes, NEW p \in Process, Step(p), NEW q \in Process \ {p}
  PROVE  /\ pc'[q] = pc[q] /\ op'[q] = op[q] /\ todo'[q] = todo[q]
         /\ batch'[q] = batch[q] /\ found'[q] = found[q] /\ mine'[q] = mine[q]
<1>. USE DEF CallTypes, Goto, Return, Proceed, call
<1>1. ASSUME NEW o \in Commands, NEW n \in Limits, Call(p, o, n)
      PROVE  /\ pc'[q] = pc[q] /\ op'[q] = op[q] /\ todo'[q] = todo[q]
             /\ batch'[q] = batch[q] /\ found'[q] = found[q] /\ mine'[q] = mine[q]
  BY <1>1 DEF Call
<1>2. CASE PlanUp(p)
  BY <1>2 DEF PlanUp, PlanCall
<1>3. CASE PlanDown(p)
  BY <1>3 DEF PlanDown, PlanCall
<1>4. CASE PlanReset(p)
  BY <1>4 DEF PlanReset, PlanCall
<1>5. CASE PlanImport(p)
  BY <1>5 DEF PlanImport, PlanCall
<1>6. CASE NextBatch(p)
  BY <1>6 DEF NextBatch
<1>7. CASE Execute(p)
  BY <1>7 DEF Execute
<1>8. CASE Record(p)
  BY <1>8 DEF Record
<1>9. CASE Delete(p)
  BY <1>9 DEF Delete
<1>10. CASE BreakOff(p)
  BY <1>10 DEF BreakOff
<1>11. CASE Finish(p)
  BY <1>11 DEF Finish
<1>. QED
  BY <1>1, <1>2, <1>3, <1>4, <1>5, <1>6, <1>7, <1>8, <1>9, <1>10, <1>11 DEF Step

\* A plan: what it is, and where the process goes with it.
LEMMA PlanTypes ==
  ASSUME TypeInv, NEW p \in Process, NEW s \in Seq(Name), NEW F \in SUBSET Name,
         NEW l \in {"batch", "execute", "record"}, PlanCall(p, F, s, l)
  PROVE  /\ CallTypes' /\ TableTypes' /\ todo'[p] = s /\ UNCHANGED op
         /\ pc'[p] = IF s = <<>> THEN "done" ELSE l
<1>1. CallTypes /\ TableTypes
  BY TypesSplit DEF TypeInv
<1>2. Proceed(p, s, l) /\ UNCHANGED <<database, files, mine, undone, overlap>>
  BY DEF PlanCall
<1>3. found' \in [Process -> SUBSET Name] /\ mine' \in [Process -> SUBSET Name]
  BY <1>1, <1>2 DEF PlanCall, CallTypes
<1>4. /\ CallTypes' /\ todo'[p] = s /\ UNCHANGED op
      /\ pc'[p] = IF s = <<>> THEN "done" ELSE l
  BY <1>1, <1>2, <1>3, ProceedTypes
<1>5. spoiled' \subseteq Name
  <2>1. ToSet(s) \subseteq Name
    BY ToSetIs
  <2>. QED
    BY <1>1, <2>1 DEF PlanCall, Contended, TableTypes
<1>6. TableTypes'
  BY <1>1, <1>2, <1>5 DEF TableTypes, database
<1>. QED
  BY <1>4, <1>6

\* A row of a migration that has none, and the rows without one migration.
LEMMA RecordTypes ==
  ASSUME TypeInv, NEW p \in Process, Record(p)
  PROVE  /\ rows' \in Seq(Row) /\ NamesOnce(rows')
         /\ Tracked' = Tracked \cup {Head(todo[p])}
<1>. DEFINE m == Head(todo[p])
            row == [name |-> m, batch |-> batch[p]]
<1>1. /\ CallTypes /\ TableTypes /\ m \in Name
      /\ m \notin Tracked /\ rows' = Append(rows, row)
  <2>1. CallTypes /\ TableTypes
    BY TypesSplit DEF TypeInv
  <2>2. pc[p] = "record" /\ m \notin Tracked /\ rows' = Append(rows, row)
    BY DEF Record
  <2>. QED
    BY <2>1, <2>2, HeadIs
<1>2. row \in Row
  BY <1>1 DEF Row, CallTypes
<1>. HIDE DEF row
<1>3. /\ rows' \in Seq(Row) /\ Len(rows') = Len(rows) + 1
      /\ \A i \in 1..Len(rows) : rows'[i] = rows[i]
      /\ rows'[Len(rows) + 1] = row
  BY <1>1, <1>2, AppendProperties DEF TableTypes
<1>4. /\ DOMAIN rows = 1..Len(rows) /\ Len(rows) \in Nat
      /\ DOMAIN rows' = 1..(Len(rows) + 1)
  BY <1>1, <1>3, LenProperties DEF TableTypes
<1>5. row.name = m
  BY DEF row
<1>. HIDE DEF m
<1>6. NamesOnce(rows')
  BY <1>1, <1>3, <1>4, <1>5 DEF NamesOnce, TableTypes, Tracked
<1>7. Tracked' = Tracked \cup {m}
  BY <1>3, <1>4, <1>5 DEF Tracked
<1>. QED
  BY <1>3, <1>6, <1>7 DEF m

LEMMA DeleteTypes ==
  ASSUME TypeInv, NEW p \in Process, Delete(p)
  PROVE  /\ rows' \in Seq(Row) /\ NamesOnce(rows')
         /\ Tracked' = Tracked \ {Head(todo[p])}
<1>. DEFINE m == Head(todo[p])
            I == {i \in DOMAIN rows : rows[i].name # m}
<1>1. rows \in Seq(Row) /\ NamesOnce(rows)
  BY TypesSplit DEF TypeInv, TableTypes
<1>2. rows' = RowsAt(I) /\ I \in SUBSET (DOMAIN rows)
  BY DEF Delete
<1>3. /\ rows' \in Seq(Row) /\ NamesOnce(rows')
      /\ {rows'[k].name : k \in DOMAIN rows'} = {rows[i].name : i \in I}
  <2>. HIDE DEF I
  <2>. QED
    BY <1>1, <1>2, RowsAtIs
<1>4. {rows[i].name : i \in I} = Tracked \ {m}
  BY DEF Tracked
<1>. QED
  BY <1>3, <1>4 DEF Tracked

LEMMA TypeOwnStep ==
  ASSUME TypeInv, NEW p \in Process, Step(p)
  PROVE  CallTypes' /\ TableTypes' /\ Working(p)'
<1>t. /\ CallTypes /\ TableTypes /\ Working(p) /\ limit[p] \in Nat
      /\ todo[p] \in Seq(Name)
  BY TypesSplit, BoundAssumption DEF TypeInv, WorkInv, CallTypes
<1>n. ToSet(<<>>) = {}
  BY DEF ToSet
<1>1. ASSUME NEW o \in Commands, NEW n \in Limits, Call(p, o, n)
      PROVE  CallTypes' /\ TableTypes' /\ Working(p)'
  BY <1>1, <1>t, <1>n, CommandsAssumption
  DEF Call, Goto, database, CallTypes, TableTypes, Working
<1>2. CASE PlanUp(p)
  <2>1. /\ Pending(limit[p]) \in Seq(Name) /\ ToSet(Pending(limit[p])) \subseteq Timed
        /\ TimedFiles \in SUBSET Name
    BY <1>t, PlansAre DEF TableTypes, TimedFiles, Name
  <2>2. op[p] = "up" /\ PlanCall(p, TimedFiles, Pending(limit[p]), "batch")
    BY <1>2 DEF PlanUp
  <2>. QED
    BY <2>1, <2>2, PlanTypes DEF Working
<1>3. CASE PlanDown(p)
  <2>1. AppliedInLastBatch(limit[p]) \in Seq(Name) /\ {} \in SUBSET Name
    BY <1>t, PlansAre DEF TableTypes
  <2>2. op[p] = "down" /\ PlanCall(p, {}, AppliedInLastBatch(limit[p]), "execute")
    BY <1>3 DEF PlanDown
  <2>. QED
    BY <2>1, <2>2, PlanTypes DEF Working
<1>4. CASE PlanReset(p)
  <2>1. AllReversed \in Seq(Name) /\ {} \in SUBSET Name
    BY <1>t, PlansAre DEF TableTypes
  <2>2. op[p] = "reset" /\ PlanCall(p, {}, AllReversed, "execute")
    BY <1>4 DEF PlanReset
  <2>. QED
    BY <2>1, <2>2, PlanTypes DEF Working
<1>5. CASE PlanImport(p)
  <2>1. /\ ToImport \in Seq(Name) /\ ToSet(ToImport) \subseteq Numbered
        /\ LegacyFiles \in SUBSET Name
    BY <1>t, PlansAre DEF TableTypes, LegacyFiles, Name
  <2>2. op[p] = "import" /\ PlanCall(p, LegacyFiles, ToImport, "record")
    BY <1>5 DEF PlanImport
  <2>. QED
    BY <2>1, <2>2, PlanTypes DEF Working
<1>6. CASE NextBatch(p)
  <2>1. LastBatch \in 0..MaxBatch /\ LastBatch + 1 \in 0..MaxBatch
    BY <1>6, <1>t, LastBatchIs, BoundAssumption DEF NextBatch, TableTypes
  <2>. QED
    BY <1>6, <1>t, <2>1 DEF NextBatch, Goto, database, CallTypes, TableTypes, Working
<1>7. CASE Execute(p)
  <2>. DEFINE m == Head(todo[p])
  <2>1. m \in Name
    BY <1>7, HeadIs DEF Execute
  <2>2. \/ UNCHANGED call /\ Goto(p, "record")
        \/ Return(p)
    BY <1>7 DEF Execute
  <2>3. op[p] # "import" /\ todo[p] # <<>>
    BY <1>7, <1>t DEF Execute, Working
  <2>4. CallTypes' /\ Working(p)'
    <3>1. CASE UNCHANGED call /\ Goto(p, "record")
      BY <3>1, <1>t, <2>3 DEF call, Goto, CallTypes, Working
    <3>2. CASE Return(p)
      BY <3>2, <1>t, <1>n, ReturnTypes DEF Working
    <3>. QED
      BY <2>2, <3>1, <3>2
  <2>5. UNCHANGED <<v1, rows, files, undone, overlap>> /\ spoiled' \subseteq Name
    BY <1>7, <1>t, <2>1 DEF Execute, TableTypes
  <2>6. schema' \in [Name -> {"none", "part", "all"}]
    BY <1>7, <1>t, <2>1 DEF Execute, Effect, TableTypes
  <2>. QED
    BY <1>t, <2>4, <2>5, <2>6 DEF TableTypes
<1>8. CASE Record(p)
  <2>. DEFINE m == Head(todo[p])
              l == IF op[p] = "up" THEN "execute" ELSE "record"
  <2>1. /\ m \in Name /\ Tail(todo[p]) \in Seq(Name)
        /\ ToSet(Tail(todo[p])) \subseteq ToSet(todo[p])
    BY <1>8, HeadIs DEF Record
  <2>2. UNCHANGED <<v1, schema, files, spoiled, undone, overlap>>
    BY <1>8 DEF Record
  <2>3. TableTypes'
    BY <1>8, <1>t, <2>2, RecordTypes DEF TableTypes
  <2>4. CASE Return(p)
    BY <2>4, <1>t, <1>n, <2>3, ReturnTypes DEF Working
  <2>5. CASE /\ Proceed(p, Tail(todo[p]), l) /\ UNCHANGED found
             /\ mine' = [mine EXCEPT ![p] = @ \cup {m}]
    <3>1. found' \in [Process -> SUBSET Name] /\ mine' \in [Process -> SUBSET Name]
      BY <1>t, <2>1, <2>5 DEF CallTypes
    <3>2. /\ CallTypes' /\ todo'[p] = Tail(todo[p]) /\ UNCHANGED op
          /\ pc'[p] = IF Tail(todo[p]) = <<>> THEN "done" ELSE l
      BY <1>t, <2>1, <2>5, <3>1, ProceedTypes
    <3>3. op[p] \in {"up", "import"}
      BY <1>8 DEF Record
    <3>. QED
      BY <1>t, <2>1, <2>3, <3>2, <3>3 DEF Working
  <2>. QED
    BY <1>8, <2>4, <2>5 DEF Record
<1>9. CASE Delete(p)
  <2>. DEFINE m == Head(todo[p])
  <2>1. m \in Name /\ Tail(todo[p]) \in Seq(Name)
    BY <1>9, HeadIs DEF Delete
  <2>2. UNCHANGED <<v1, schema, files, spoiled, overlap>> /\ undone' \subseteq Numbered
    BY <1>9, <1>t DEF Delete, TableTypes, Name
  <2>3. TableTypes'
    BY <1>9, <1>t, <2>2, DeleteTypes DEF TableTypes
  <2>4. CASE Return(p)
    BY <2>4, <1>t, <1>n, <2>3, ReturnTypes DEF Working
  <2>5. CASE Proceed(p, Tail(todo[p]), "execute") /\ UNCHANGED <<found, mine>>
    <3>1. found' \in [Process -> SUBSET Name] /\ mine' \in [Process -> SUBSET Name]
      BY <1>t, <2>5 DEF CallTypes
    <3>2. /\ CallTypes' /\ todo'[p] = Tail(todo[p]) /\ UNCHANGED op
          /\ pc'[p] = IF Tail(todo[p]) = <<>> THEN "done" ELSE "execute"
      BY <1>t, <2>1, <2>5, <3>1, ProceedTypes
    <3>3. op[p] \in {"down", "reset"}
      BY <1>9 DEF Delete
    <3>. QED
      BY <2>3, <3>2, <3>3 DEF Working
  <2>. QED
    BY <1>9, <2>4, <2>5 DEF Delete
<1>10. CASE BreakOff(p)
  <2>1. Broken(p) \subseteq Name
    BY HeadIs DEF Broken
  <2>2. TableTypes'
    BY <1>10, <1>t, <2>1 DEF BreakOff, database, TableTypes
  <2>. QED
    BY <1>10, <1>t, <1>n, <2>2, ReturnTypes DEF BreakOff, Working
<1>11. CASE Finish(p)
  <2>1. TableTypes'
    BY <1>11, <1>t DEF Finish, database, TableTypes
  <2>. QED
    BY <1>11, <1>t, <1>n, <2>1, ReturnTypes DEF Finish, Working
<1>. QED
  BY <1>1, <1>2, <1>3, <1>4, <1>5, <1>6, <1>7, <1>8, <1>9, <1>10, <1>11 DEF Step

LEMMA TypeStep == TypeInv /\ [Next]_vars => TypeInv'
<1>. SUFFICES ASSUME TypeInv, [Next]_vars PROVE TypeInv'
  OBVIOUS
<1>t. CallTypes /\ TableTypes /\ WorkInv
  BY TypesSplit DEF TypeInv
<1>1. ASSUME NEW p \in Process, Step(p) PROVE TypeInv'
  <2>1. CallTypes' /\ TableTypes' /\ Working(p)'
    BY <1>1, TypeOwnStep
  <2>2. ASSUME NEW q \in Process \ {p} PROVE Working(q)'
    BY <1>1, <1>t, OthersStay DEF WorkInv, Working
  <2>3. TypeOK' <=> CallTypes' /\ TableTypes'
    BY DEF TypeOK, CallTypes, TableTypes, NamesOnce
  <2>. QED
    BY <2>1, <2>2, <2>3 DEF TypeInv, WorkInv
<1>2. CASE EditFiles
  BY <1>2, <1>t DEF EditFiles, database, call, TypeInv, TypeOK, CallTypes, TableTypes,
     NamesOnce, WorkInv, Working
<1>3. CASE UNCHANGED vars
  BY <1>3 DEF vars, TypeInv, TypeOK, WorkInv, Working
<1>. QED
  BY <1>1, <1>2, <1>3 DEF Next, Step

LEMMA TypeInit == Init => TypeInv
<1>. SUFFICES ASSUME Init PROVE TypeInv
  OBVIOUS
<1>1. rows \in Seq(Row) /\ NamesOnce(rows)
  <2>1. CASE rows = <<>>
    BY <2>1, EmptySeq DEF NamesOnce
  <2>2. ASSUME NEW A \in SUBSET Timed,
               rows = [i \in DOMAIN Ascending(A) |->
                         [name |-> Ascending(A)[i], batch |-> 1]]
        PROVE  rows \in Seq(Row) /\ NamesOnce(rows)
    <3>. DEFINE a == Ascending(A)
    <3>1. A \in SUBSET Nat /\ A \in SUBSET Name /\ IsFiniteSet(A)
      BY NameAssumption, FS_Subset DEF Name
    <3>2. a \in Seq(A) /\ \A i, j \in DOMAIN a : a[i] = a[j] => i = j
      BY <3>1, AscendingLists
    <3>. HIDE DEF a
    <3>3. DOMAIN a = 1..Len(a) /\ Len(a) \in Nat /\ \A i \in DOMAIN a : a[i] \in Name
      BY <3>1, <3>2, LenProperties, ElementOfSeq
    <3>4. rows = [i \in 1..Len(a) |-> [name |-> a[i], batch |-> 1]]
      BY <2>2, <3>3 DEF a
    <3>5. rows \in [1..Len(a) -> Row]
      BY <3>3, <3>4, BoundAssumption DEF Row
    <3>6. rows \in Seq(Row)
      BY <3>3, <3>5
    <3>7. NamesOnce(rows)
      BY <3>2, <3>3, <3>4 DEF NamesOnce
    <3>. QED
      BY <3>6, <3>7
  <2>. QED
    BY <2>1, <2>2 DEF Init
<1>2. v1 \in BOOLEAN /\ schema \in [Name -> {"none", "part", "all"}]
  BY DEF Init
<1>3. CallTypes
  BY NoLimitIs, BoundAssumption, EmptySeq DEF Init, CallTypes
<1>4. TableTypes
  BY <1>1, <1>2 DEF Init, TableTypes
<1>5. WorkInv
  BY DEF Init, WorkInv, Working, ToSet
<1>. QED
  BY <1>3, <1>4, <1>5, TypesSplit DEF TypeInv

LEMMA TypeInvHolds == Spec => []TypeInv
  BY TypeInit, TypeStep, PTL DEF Spec

\* Every variable keeps its type: a migration has one row, plans name
\* migrations, and no batch outgrows its bound.
THEOREM LegacyTypeCorrect == Spec => []TypeOK
  BY TypeInvHolds, PTL DEF TypeInv

-----------------------------------------------------------------------------
(* What the table says is what the database shows.                         *)

\* What the property passes over.
Excused == spoiled \cup undone

ApartInv ==
  \A p, q \in Process : p # q => ToSet(todo[p]) \cap ToSet(todo[q]) \subseteq Excused

Done(p) ==
  /\ pc[p] = "record" /\ op[p] = "up" /\ Head(todo[p]) \notin Excused =>
       schema[Head(todo[p])] = "all"
  /\ pc[p] = "record" /\ op[p] \in {"down", "reset"} /\ Head(todo[p]) \notin Excused =>
       schema[Head(todo[p])] = "none"
  /\ op[p] = "import" => \A m \in ToSet(todo[p]) \ Excused : schema[m] = "all"

DoneInv == \A p \in Process : Done(p)

\* A migration nobody is at: its row and its effect go together, and the effect
\* of golang-migrate stays.
Plain(m) ==
  /\ m \in Timed => IF m \in Tracked THEN schema[m] = "all" ELSE schema[m] = "none"
  /\ m \in Tracked \/ m \in Numbered => schema[m] = "all"

PlainInv == \A m \in Name \ Excused : ~InWork(m) => Plain(m)

TruthInv == ApartInv /\ DoneInv /\ PlainInv

\* The migration a process is at.
AtHead(p, m) == pc[p] \in {"execute", "record"} /\ m = Head(todo[p])

\* A step changes the effect and the row of the migration its process is at, and
\* of no other.
LEMMA StepEffect ==
  ASSUME TypeInv, NEW p \in Process, Step(p)
  PROVE  /\ Excused \subseteq Excused'
         /\ \A m \in Name : schema'[m] = schema[m] \/ AtHead(p, m)
         /\ \A m \in Name : (m \in Tracked' <=> m \in Tracked) \/ AtHead(p, m)
<1>t. CallTypes /\ TableTypes
  BY TypesSplit DEF TypeInv
<1>. USE DEF database, call, Tracked, Excused
<1>1. ASSUME NEW o \in Commands, NEW n \in Limits, Call(p, o, n)
      PROVE  UNCHANGED <<rows, schema, Excused>>
  BY <1>1 DEF Call
<1>2. CASE PlanUp(p)
  BY <1>2 DEF PlanUp, PlanCall
<1>3. CASE PlanDown(p)
  BY <1>3 DEF PlanDown, PlanCall
<1>4. CASE PlanReset(p)
  BY <1>4 DEF PlanReset, PlanCall
<1>5. CASE PlanImport(p)
  BY <1>5 DEF PlanImport, PlanCall
<1>6. CASE NextBatch(p)
  BY <1>6 DEF NextBatch
<1>7. CASE Execute(p)
  <2>1. UNCHANGED rows /\ Excused \subseteq Excused'
    BY <1>7 DEF Execute
  <2>2. \E e \in {"none", "part", "all"} :
          schema' = schema \/ schema' = [schema EXCEPT ![Head(todo[p])] = e]
    BY <1>7 DEF Execute, Effect
  <2>. QED
    BY <1>7, <1>t, <2>1, <2>2 DEF AtHead, Execute, TableTypes
<1>8. CASE Record(p)
  <2>1. UNCHANGED <<schema, Excused>> /\ AtHead(p, Head(todo[p]))
    BY <1>8 DEF Record, AtHead
  <2>2. {rows'[i].name : i \in DOMAIN rows'} = Tracked \cup {Head(todo[p])}
    BY <1>8, RecordTypes
  <2>. QED
    BY <2>1, <2>2 DEF AtHead
<1>9. CASE Delete(p)
  <2>1. UNCHANGED schema /\ Excused \subseteq Excused' /\ AtHead(p, Head(todo[p]))
    BY <1>9 DEF Delete, AtHead
  <2>2. {rows'[i].name : i \in DOMAIN rows'} = Tracked \ {Head(todo[p])}
    BY <1>9, DeleteTypes
  <2>. QED
    BY <2>1, <2>2 DEF AtHead
<1>10. CASE BreakOff(p)
  BY <1>10 DEF BreakOff
<1>11. CASE Finish(p)
  BY <1>11 DEF Finish
<1>. QED
  BY <1>1, <1>2, <1>3, <1>4, <1>5, <1>6, <1>7, <1>8, <1>9, <1>10, <1>11 DEF Step

\* A plan names what no other plan names, or spoils it; from then on it shrinks.
LEMMA PlansShrink ==
  ASSUME TypeInv, NEW p \in Process, Step(p)
  PROVE  \/ ToSet(todo'[p]) \subseteq ToSet(todo[p])
         \/ Contended(p, todo'[p]) \subseteq Excused'
<1>t. CallTypes /\ todo[p] \in Seq(Name)
  BY TypesSplit DEF TypeInv, CallTypes
<1>n. ToSet(<<>>) = {}
  BY DEF ToSet
<1>. DEFINE Goal == \/ ToSet(todo'[p]) \subseteq ToSet(todo[p])
                    \/ Contended(p, todo'[p]) \subseteq Excused'
<1>0. Return(p) => Goal
  BY <1>t, <1>n DEF Return, CallTypes
<1>p. ASSUME NEW F, NEW s, NEW l, PlanCall(p, F, s, l) PROVE Goal
  BY <1>p, <1>t DEF PlanCall, Proceed, CallTypes, Excused
<1>1. ASSUME NEW o \in Commands, NEW n \in Limits, Call(p, o, n) PROVE Goal
  BY <1>1 DEF Call
<1>2. CASE PlanUp(p)
  BY <1>2, <1>p DEF PlanUp
<1>3. CASE PlanDown(p)
  BY <1>3, <1>p DEF PlanDown
<1>4. CASE PlanReset(p)
  BY <1>4, <1>p DEF PlanReset
<1>5. CASE PlanImport(p)
  BY <1>5, <1>p DEF PlanImport
<1>6. CASE NextBatch(p)
  BY <1>6 DEF NextBatch
<1>7. CASE Execute(p)
  BY <1>7, <1>0 DEF Execute, call
<1>8. CASE Record(p)
  <2>1. ToSet(Tail(todo[p])) \subseteq ToSet(todo[p])
    BY <1>8, HeadIs DEF Record
  <2>. QED
    BY <1>8, <1>0, <1>t, <2>1 DEF Record, Proceed, CallTypes
<1>9. CASE Delete(p)
  <2>1. ToSet(Tail(todo[p])) \subseteq ToSet(todo[p])
    BY <1>9, HeadIs DEF Delete
  <2>. QED
    BY <1>9, <1>0, <1>t, <2>1 DEF Delete, Proceed, CallTypes
<1>10. CASE BreakOff(p)
  BY <1>10, <1>0 DEF BreakOff
<1>11. CASE Finish(p)
  BY <1>11, <1>0 DEF Finish
<1>. QED
  BY <1>1, <1>2, <1>3, <1>4, <1>5, <1>6, <1>7, <1>8, <1>9, <1>10, <1>11 DEF Step

LEMMA ApartStep ==
  ASSUME TypeInv, ApartInv, NEW p \in Process, Step(p)
  PROVE  ApartInv'
<1>1. Excused \subseteq Excused'
  BY StepEffect
<1>2. \A q \in Process \ {p} : todo'[q] = todo[q]
  BY OthersStay, TypesSplit DEF TypeInv
<1>3. ASSUME NEW q \in Process \ {p}
      PROVE  ToSet(todo'[p]) \cap ToSet(todo'[q]) \subseteq Excused'
  <2>1. CASE ToSet(todo'[p]) \subseteq ToSet(todo[p])
    BY <1>1, <1>2, <2>1 DEF ApartInv
  <2>2. CASE Contended(p, todo'[p]) \subseteq Excused'
    BY <1>2, <2>2 DEF Contended
  <2>. QED
    BY <2>1, <2>2, PlansShrink
<1>4. ASSUME NEW q \in Process \ {p}, NEW r \in Process \ {p}, q # r
      PROVE  ToSet(todo'[q]) \cap ToSet(todo'[r]) \subseteq Excused'
  BY <1>1, <1>2, <1>4 DEF ApartInv
<1>5. ASSUME NEW q \in Process, NEW r \in Process, q # r
      PROVE  ToSet(todo'[q]) \cap ToSet(todo'[r]) \subseteq Excused'
  BY <1>3, <1>4, <1>5
<1>. QED
  BY <1>5 DEF ApartInv, ToSet

\* What a process is at, no other process has to do, or it is excused.
LEMMA OthersApart ==
  ASSUME TypeInv, ApartInv, NEW p \in Process, NEW q \in Process \ {p}, NEW m \in Name,
         AtHead(p, m), m \in ToSet(todo[q])
  PROVE  m \in Excused
  BY HeadIs DEF AtHead, ApartInv

LEMMA DoneElsewhere ==
  ASSUME TypeInv, ApartInv, NEW p \in Process, Step(p), NEW q \in Process \ {p}, Done(q)
  PROVE  Done(q)'
<1>1. pc'[q] = pc[q] /\ op'[q] = op[q] /\ todo'[q] = todo[q] /\ Excused \subseteq Excused'
  BY StepEffect, OthersStay, TypesSplit DEF TypeInv
<1>2. ASSUME NEW m \in ToSet(todo[q]), m \notin Excused PROVE schema'[m] = schema[m]
  <2>1. m \in Name
    BY <1>2, TypesSplit, ToSetIs DEF TypeInv, CallTypes
  <2>. QED
    BY <1>2, <2>1, StepEffect, OthersApart
<1>3. pc[q] = "record" => Head(todo[q]) \in ToSet(todo[q])
  BY HeadIs
<1>. QED
  BY <1>1, <1>2, <1>3 DEF Done, ToSet

\* An import plans what golang-migrate applied and nobody else is at.
LEMMA ImportPlan ==
  ASSUME TypeInv, TruthInv, NEW p \in Process, PlanImport(p)
  PROVE  \A m \in ToSet(todo'[p]) \ Excused' : schema'[m] = "all"
<1>1. /\ PlanCall(p, LegacyFiles, ToImport, "record") /\ CallTypes /\ TableTypes
      /\ limit[p] \in Nat
  BY TypesSplit, BoundAssumption DEF PlanImport, TypeInv, CallTypes
<1>2. ToImport \in Seq(Name) /\ ToSet(ToImport) = LegacyFiles \ Tracked
  BY <1>1, PlansAre DEF TableTypes
<1>3. /\ todo'[p] = ToImport /\ UNCHANGED schema /\ pc[p] = "plan"
      /\ Excused' = Excused \cup Contended(p, ToImport)
  BY <1>1 DEF PlanCall, Proceed, CallTypes, database, Excused
<1>4. ASSUME NEW m \in ToSet(ToImport), m \notin Excused' PROVE schema[m] = "all"
  <2>1. m \in Numbered /\ m \in Name /\ m \notin Excused
    BY <1>2, <1>3, <1>4 DEF LegacyFiles, Name
  <2>2. ~InWork(m)
    <3>. SUFFICES ASSUME NEW q \in Process, pc[q] = "record", Head(todo[q]) = m PROVE FALSE
      BY DEF InWork
    <3>1. q # p /\ m \in ToSet(todo[q])
      BY <1>3, HeadIs
    <3>. QED
      BY <1>3, <1>4, <3>1 DEF Contended
  <2>. QED
    BY <2>1, <2>2 DEF TruthInv, PlainInv, Plain
<1>. QED
  BY <1>3, <1>4

\* Who comes to write a row has had the effect, and what is left of an import is
\* as it was when it was planned.
LEMMA DoneOwnStep ==
  ASSUME TypeInv, TruthInv, NEW p \in Process, Step(p)
  PROVE  Done(p)'
<1>t. CallTypes /\ TableTypes /\ Working(p) /\ Done(p)
  BY TypesSplit DEF TypeInv, WorkInv, TruthInv, DoneInv
<1>n. ToSet(<<>>) = {}
  BY DEF ToSet
<1>0. Return(p) => Done(p)'
  BY <1>t, ReturnTypes DEF Done
<1>1. ASSUME NEW o \in Commands, NEW n \in Limits, Call(p, o, n) PROVE Done(p)'
  BY <1>1, <1>t, <1>n DEF Call, Goto, CallTypes, Working, Done
<1>2. CASE PlanUp(p)
  BY <1>2, <1>t DEF PlanUp, PlanCall, Proceed, Goto, CallTypes, Done
<1>3. CASE PlanDown(p)
  BY <1>3, <1>t DEF PlanDown, PlanCall, Proceed, Goto, CallTypes, Done
<1>4. CASE PlanReset(p)
  BY <1>4, <1>t DEF PlanReset, PlanCall, Proceed, Goto, CallTypes, Done
<1>5. CASE PlanImport(p)
  <2>1. op'[p] = "import"
    BY <1>5, <1>t DEF PlanImport, PlanCall, Proceed
  <2>2. \A m \in ToSet(todo'[p]) \ Excused' : schema'[m] = "all"
    BY <1>5, ImportPlan
  <2>. QED
    BY <2>1, <2>2 DEF Done, ToSet
<1>6. CASE NextBatch(p)
  BY <1>6, <1>t DEF NextBatch, Goto, database, CallTypes, Done, Excused
<1>7. CASE Execute(p)
  <2>1. op[p] # "import" /\ Head(todo[p]) \in Name
    BY <1>7, <1>t, HeadIs DEF Execute, Working
  <2>2. CASE schema' = [schema EXCEPT ![Head(todo[p])] = Effect(p)] /\ UNCHANGED call
    <3>1. todo'[p] = todo[p] /\ op'[p] = op[p]
      BY <2>2 DEF call
    <3>2. schema'[Head(todo[p])] = IF op[p] = "up" THEN "all" ELSE "none"
      BY <1>t, <2>1, <2>2 DEF Effect, TableTypes
    <3>. QED
      BY <2>1, <3>1, <3>2 DEF Done
  <2>. QED
    BY <1>0, <1>7, <2>2 DEF Execute
<1>8. CASE Record(p)
  <2>. DEFINE l == IF op[p] = "up" THEN "execute" ELSE "record"
  <2>1. CASE Proceed(p, Tail(todo[p]), l)
    <3>1. /\ todo'[p] = Tail(todo[p]) /\ op'[p] = op[p] /\ UNCHANGED <<schema, Excused>>
          /\ ToSet(Tail(todo[p])) \subseteq ToSet(todo[p])
          /\ Tail(todo[p]) \in Seq(Name)
      BY <1>8, <1>t, <2>1, HeadIs DEF Record, Proceed, CallTypes, Excused
    <3>2. op[p] = "up" => pc'[p] # "record"
      BY <1>t, <2>1 DEF Proceed, Goto, CallTypes
    <3>3. op[p] \in {"up", "import"}
      BY <1>8 DEF Record
    <3>. QED
      BY <1>t, <3>1, <3>2, <3>3 DEF Done, ToSet
  <2>. QED
    BY <1>0, <1>8, <2>1 DEF Record
<1>9. CASE Delete(p)
  <2>1. CASE Proceed(p, Tail(todo[p]), "execute")
    BY <1>9, <1>t, <2>1 DEF Delete, Proceed, Goto, CallTypes, Done
  <2>. QED
    BY <1>0, <1>9, <2>1 DEF Delete
<1>10. CASE BreakOff(p)
  BY <1>0, <1>10 DEF BreakOff
<1>11. CASE Finish(p)
  BY <1>0, <1>11 DEF Finish
<1>. QED
  BY <1>1, <1>2, <1>3, <1>4, <1>5, <1>6, <1>7, <1>8, <1>9, <1>10, <1>11 DEF Step

\* The migration a process was at, once it has gone on.
LEMMA PlainAtHead ==
  ASSUME TypeInv, TruthInv, NEW p \in Process, Step(p), NEW m \in Name,
         AtHead(p, m), m \notin Excused', ~InWork(m)'
  PROVE  Plain(m)'
<1>t. CallTypes /\ TableTypes /\ Working(p) /\ Done(p) /\ m \notin Excused
  BY TypesSplit, StepEffect DEF TypeInv, WorkInv, TruthInv, DoneInv
<1>h. m = Head(todo[p]) /\ m \in ToSet(todo[p]) /\ pc[p] \in {"execute", "record"}
  BY HeadIs DEF AtHead
<1>1. CASE Execute(p) \/ (BreakOff(p) /\ pc[p] = "execute")
  <2>1. UNCHANGED <<rows, schema>> /\ pc[p] = "execute"
    <3>1. ~(Goto(p, "record") /\ UNCHANGED call)
      BY <1>h, <1>t DEF Goto, call, InWork, CallTypes
    <3>2. ~(spoiled' = spoiled \cup {Head(todo[p])})
      BY <1>h DEF Excused
    <3>. QED
      BY <1>1, <3>1, <3>2 DEF Execute, BreakOff, database
  <2>2. ~InWork(m)
    <3>. SUFFICES ASSUME NEW q \in Process, pc[q] = "record", Head(todo[q]) = m PROVE FALSE
      BY DEF InWork
    <3>1. q # p /\ m \in ToSet(todo[q])
      BY <2>1, HeadIs
    <3>. QED
      BY <1>t, <3>1, OthersApart DEF TruthInv
  <2>. QED
    BY <1>t, <2>1, <2>2 DEF TruthInv, PlainInv, Plain, Tracked
<1>2. CASE Record(p)
  <2>1. m \in {rows'[i].name : i \in DOMAIN rows'}
    BY <1>2, <1>h, RecordTypes DEF Tracked
  <2>2. schema'[m] = schema[m] /\ schema[m] = "all"
    BY <1>2, <1>h, <1>t DEF Record, Done
  <2>. QED
    BY <2>1, <2>2 DEF Plain, Tracked
<1>3. CASE Delete(p)
  <2>1. m \notin {rows'[i].name : i \in DOMAIN rows'}
    BY <1>3, <1>h, DeleteTypes DEF Tracked
  <2>2. m \notin Numbered /\ schema'[m] = schema[m] /\ schema[m] = "none"
    BY <1>3, <1>h, <1>t DEF Delete, Done, Excused
  <2>. QED
    BY <2>1, <2>2 DEF Plain, Tracked
<1>4. CASE BreakOff(p) /\ pc[p] = "record"
  <2>1. op[p] = "import" /\ UNCHANGED <<rows, schema>>
    BY <1>4, <1>h DEF BreakOff, Broken, database, Excused
  <2>2. m \in Numbered /\ m \notin Timed /\ schema[m] = "all"
    BY <1>h, <1>t, <2>1, NameAssumption DEF Working, Done
  <2>. QED
    BY <2>1, <2>2 DEF Plain
<1>. QED
  BY <1>1, <1>2, <1>3, <1>4, <1>h DEF Step, Call, PlanUp, PlanDown, PlanReset, PlanImport,
     PlanCall, NextBatch, Finish

LEMMA TruthOwnStep ==
  ASSUME TypeInv, TruthInv, NEW p \in Process, Step(p)
  PROVE  TruthInv'
<1>1. ApartInv'
  BY ApartStep DEF TruthInv
<1>2. DoneInv'
  <2>1. \A q \in Process \ {p} : Done(q)'
    BY DoneElsewhere DEF TruthInv, DoneInv
  <2>. QED
    BY <2>1, DoneOwnStep DEF DoneInv
<1>3. ASSUME NEW m \in Name, m \notin Excused', ~InWork(m)' PROVE Plain(m)'
  <2>1. CASE AtHead(p, m)
    BY <1>3, <2>1, PlainAtHead
  <2>2. CASE ~AtHead(p, m)
    <3>1. schema'[m] = schema[m] /\ (m \in Tracked' <=> m \in Tracked) /\ m \notin Excused
      BY <1>3, <2>2, StepEffect
    <3>2. ~InWork(m)
      <4>. SUFFICES ASSUME NEW q \in Process, pc[q] = "record", Head(todo[q]) = m
                    PROVE  FALSE
        BY DEF InWork
      <4>1. q # p
        BY <2>2 DEF AtHead
      <4>2. pc'[q] = pc[q] /\ todo'[q] = todo[q]
        BY <4>1, OthersStay, TypesSplit DEF TypeInv
      <4>. QED
        BY <1>3, <4>2 DEF InWork
    <3>3. Plain(m)
      BY <3>1, <3>2 DEF TruthInv, PlainInv
    <3>. QED
      BY <3>1, <3>3 DEF Plain
  <2>. QED
    BY <2>1, <2>2
<1>4. PlainInv'
  BY <1>3 DEF PlainInv
<1>. QED
  BY <1>1, <1>2, <1>4 DEF TruthInv

LEMMA TruthStep == TypeInv /\ TruthInv /\ [Next]_vars => TruthInv'
<1>. SUFFICES ASSUME TypeInv, TruthInv, [Next]_vars PROVE TruthInv'
  OBVIOUS
<1>1. ASSUME NEW p \in Process, Step(p) PROVE TruthInv'
  BY <1>1, TruthOwnStep
<1>2. CASE UNCHANGED <<rows, schema, pc, op, todo, spoiled, undone>>
  BY <1>2 DEF TruthInv, ApartInv, DoneInv, Done, PlainInv, Plain, InWork, Tracked, Excused,
     ToSet
<1>3. EditFiles \/ UNCHANGED vars => UNCHANGED <<rows, schema, pc, op, todo, spoiled, undone>>
  BY DEF EditFiles, database, call, vars
<1>. QED
  BY <1>1, <1>2, <1>3 DEF Next, Step

LEMMA TruthInit == Init => TruthInv
<1>. SUFFICES ASSUME Init PROVE TruthInv
  OBVIOUS
<1>1. ToSet(<<>>) = {}
  BY DEF ToSet
<1>2. ApartInv /\ DoneInv
  BY <1>1 DEF Init, ApartInv, DoneInv, Done
<1>3. ASSUME NEW m \in Name PROVE Plain(m)
  BY NameAssumption DEF Init, Plain, Tracked
<1>. QED
  BY <1>2, <1>3 DEF TruthInv, PlainInv

\* The table says what the database shows, with two exceptions: a migration on
\* which a call broke off half-way or that two calls had in their plans; and a
\* numbered one that was rolled back, which an import marks as applied again.
THEOREM RowsTellTheTruthHolds == Spec => []RowsTellTheTruth
<1>1. TypeInv /\ PlainInv => RowsTellTheTruth
  BY TypesSplit, NameAssumption
  DEF TypeInv, TableTypes, PlainInv, Plain, RowsTellTheTruth, Excused
<1>. QED
  BY <1>1, TruthInit, TruthStep, TypeInvHolds, PTL DEF Spec, TruthInv

-----------------------------------------------------------------------------
(* One call after another.                                                 *)

Alone == \A p, q \in Process : p # q => pc[p] = "idle" \/ pc[q] = "idle"

Resting(p) == pc[p] = "idle" => op[p] = "up" /\ batch[p] = 0 /\ found[p] = {}

\* Batches ascend with the ids, but for imported rows, and those have batch 0.
InOrder ==
  /\ \A i, j \in DOMAIN rows : i < j /\ rows[j].batch # 0 => rows[i].batch <= rows[j].batch
  /\ \A i \in DOMAIN rows : rows[i].batch # 0 => rows[i].name \in Timed

\* The batch of an up is above all others, and what is in it is its own.
UpOf(p) ==
  /\ op[p] = "import" => batch[p] = 0
  /\ op[p] = "up" /\ pc[p] \in {"execute", "record"} =>
       \A i \in DOMAIN rows : /\ rows[i].batch <= batch[p]
                              /\ rows[i].batch = batch[p] => rows[i].name \in mine[p]

\* A rollback takes a row after those that follow it, all of them or those that
\* are not imported.
Behind(s, all) ==
  \A l \in DOMAIN s, i, j \in DOMAIN rows :
    rows[i].name = s[l] /\ i < j /\ (all \/ rows[j].batch # 0) =>
      \E k \in DOMAIN s : k < l /\ s[k] = rows[j].name

BackOf(p) ==
  /\ op[p] = "down" => Behind(todo[p], FALSE) /\ ToSet(todo[p]) \subseteq Timed
  /\ op[p] = "reset" => Behind(todo[p], TRUE)
  /\ op[p] = "reset" /\ pc[p] # "plan" => Tracked \subseteq ToSet(todo[p])
  /\ op[p] \in {"down", "reset"} => found[p] = {}

\* What a call without a limit has found is recorded or still to do.
GoalOf(p) ==
  pc[p] # "plan" /\ limit[p] = NoLimit => found[p] \subseteq Tracked \cup ToSet(todo[p])

SerialOf(p) == Resting(p) /\ UpOf(p) /\ BackOf(p) /\ GoalOf(p)

SerialInv == ~overlap => Alone /\ InOrder /\ \A p \in Process : SerialOf(p)

\* Rows in reverse: what follows a row comes before it.
LEMMA ReversedIsBehind ==
  ASSUME rows \in Seq(Row), NamesOnce(rows), NEW t \in Seq(Row),
         NEW a \in [DOMAIN t -> DOMAIN rows],
         \A k \in DOMAIN t : t[k] = rows[a[k]],
         \A k, l \in DOMAIN t : k < l => a[k] < a[l],
         NEW l \in DOMAIN Reverse(Names(t)), NEW i \in DOMAIN rows, NEW q \in DOMAIN t,
         rows[i].name = Reverse(Names(t))[l], i < a[q]
  PROVE  \E k \in DOMAIN Reverse(Names(t)) : k < l /\ Reverse(Names(t))[k] = rows[a[q]].name
<1>. DEFINE N == Len(t)
<1>1. /\ DOMAIN t = 1..N /\ N \in Nat
      /\ DOMAIN rows = 1..Len(rows) /\ Len(rows) \in Nat
  BY LenProperties
<1>2. Names(t) = [k \in 1..N |-> t[k].name]
  BY <1>1 DEF Names
<1>3. Len(Names(t)) = N
  BY <1>1, <1>2
<1>4. Reverse(Names(t)) = [k \in 1..N |-> Names(t)[(N - k) + 1]]
  BY <1>3 DEF Reverse
<1>5. \A k \in 1..N : (N - k) + 1 \in 1..N
  BY <1>1
<1>6. /\ DOMAIN Reverse(Names(t)) = 1..N
      /\ \A k \in 1..N : Reverse(Names(t))[k] = rows[a[(N - k) + 1]].name
  <2>1. \A y \in 1..N : Names(t)[y] = rows[a[y]].name
    BY <1>1, <1>2
  <2>2. \A k \in 1..N : Reverse(Names(t))[k] = Names(t)[(N - k) + 1]
    BY <1>4
  <2>. QED
    BY <1>4, <1>5, <2>1, <2>2
<1>. DEFINE x == (N - l) + 1
            k == (N - q) + 1
<1>7. /\ l \in 1..N /\ x \in 1..N /\ k \in 1..N /\ q \in 1..N
      /\ x = (N - l) + 1 /\ (N - k) + 1 = q
  BY <1>1, <1>5, <1>6
<1>. HIDE DEF N, x, k
<1>8. i = a[x]
  <2>1. rows[i].name = rows[a[x]].name /\ a[x] \in DOMAIN rows
    BY <1>1, <1>6, <1>7
  <2>. QED
    BY <2>1 DEF NamesOnce
<1>9. x < q
  <2>1. q < x => a[q] < a[x]
    BY <1>1, <1>7
  <2>2. a[q] \in Nat /\ a[x] \in Nat
    BY <1>1, <1>7
  <2>3. q # x /\ ~(a[q] < a[x])
    BY <1>8, <2>2
  <2>. QED
    BY <1>1, <1>7, <2>1, <2>3
<1>10. k < l /\ Reverse(Names(t))[k] = rows[a[q]].name
  BY <1>1, <1>6, <1>7, <1>9
<1>. QED
  BY <1>6, <1>7, <1>10

\* The first of a plan come after what they follow, too.
LEMMA LimitedIsBehind ==
  ASSUME NEW s \in Seq(Name), NEW n \in Nat, NEW all \in BOOLEAN, Behind(s, all)
  PROVE  Behind(Limited(s, n), all)
<1>. DEFINE u == Limited(s, n)
<1>1. /\ DOMAIN u = 1..(IF n < Len(s) THEN n ELSE Len(s)) /\ Len(s) \in Nat
      /\ DOMAIN s = 1..Len(s)
      /\ \A i \in DOMAIN u : i \in DOMAIN s /\ u[i] = s[i]
  BY LimitedIs, LenProperties
<1>. HIDE DEF u
<1>2. ASSUME NEW l \in DOMAIN u, NEW i \in DOMAIN rows, NEW j \in DOMAIN rows,
             rows[i].name = u[l], i < j, all \/ rows[j].batch # 0
      PROVE  \E k \in DOMAIN u : k < l /\ u[k] = rows[j].name
  <2>1. PICK k \in DOMAIN s : k < l /\ s[k] = rows[j].name
    BY <1>1, <1>2 DEF Behind
  <2>2. k \in DOMAIN u
    BY <1>1, <2>1
  <2>. QED
    BY <1>1, <2>1, <2>2
<1>. QED
  BY <1>2 DEF Behind, u

\* The plans of down and of reset.
LEMMA BackPlans ==
  ASSUME rows \in Seq(Row), NamesOnce(rows), InOrder, NEW n \in Nat
  PROVE  /\ Behind(AppliedInLastBatch(n), FALSE)
         /\ ToSet(AppliedInLastBatch(n)) \subseteq Timed
         /\ Behind(AllReversed, TRUE) /\ Tracked \subseteq ToSet(AllReversed)
<1>1. /\ DOMAIN rows = 1..Len(rows) /\ Len(rows) \in Nat
      /\ \A i \in DOMAIN rows : rows[i] \in Row
  BY LenProperties, ElementOfSeq
<1>. DEFINE I == {i \in DOMAIN rows : rows[i].batch = LastBatch /\ rows[i].batch > 0}
            t == RowsAt(I)
            s == Reverse(Names(t))
<1>2. I \in SUBSET (DOMAIN rows)
  OBVIOUS
<1>. HIDE DEF I
<1>3. PICK a \in [DOMAIN t -> I] :
        /\ \A k \in DOMAIN t : t[k] = rows[a[k]]
        /\ \A k, l \in DOMAIN t : k < l => a[k] < a[l]
        /\ \A i \in I : \E k \in DOMAIN t : a[k] = i
  BY <1>2, RowsAtOrder
<1>4. t \in Seq(Row) /\ a \in [DOMAIN t -> DOMAIN rows]
  BY <1>2, <1>3, RowsAtIs
<1>. HIDE DEF t
<1>5. s \in Seq(Name) /\ ToSet(s) \subseteq Timed
  <2>1. DOMAIN t = 1..Len(t) /\ Len(t) \in Nat
    BY <1>4, LenProperties
  <2>2. \A k \in DOMAIN t : t[k].name \in Timed
    <3>1. \A i \in I : rows[i].name \in Timed
      BY <1>1 DEF I, InOrder, Row
    <3>. QED
      BY <1>3, <3>1
  <2>3. Names(t) \in [1..Len(t) -> Timed]
    BY <2>1, <2>2 DEF Names
  <2>4. Names(t) \in Seq(Timed)
    BY <2>1, <2>3
  <2>5. s \in Seq(Timed)
    BY <2>4, ReverseIs
  <2>. QED
    BY <2>5, ToSetIs, SeqMonotonic DEF Name
<1>6. Behind(s, FALSE)
  <2>. SUFFICES ASSUME NEW l \in DOMAIN s, NEW i \in DOMAIN rows, NEW j \in DOMAIN rows,
                       rows[i].name = s[l], i < j, rows[j].batch # 0
                PROVE  \E k \in DOMAIN s : k < l /\ s[k] = rows[j].name
    BY DEF Behind
  <2>1. i \in I
    <3>1. s[l] \in ToSet(s) /\ ToSet(s) \subseteq {t[k].name : k \in DOMAIN t}
      <4>1. Names(t) \in Seq({t[k].name : k \in DOMAIN t})
        <5>1. DOMAIN t = 1..Len(t) /\ Len(t) \in Nat
          BY <1>4, LenProperties
        <5>2. Names(t) \in [1..Len(t) -> {t[k].name : k \in DOMAIN t}]
          BY <5>1 DEF Names
        <5>. QED
          BY <5>1, <5>2
      <4>. QED
        BY <4>1, ReverseIs, ToSetIs DEF ToSet
    <3>2. PICK k \in DOMAIN t : s[l] = t[k].name
      BY <3>1
    <3>3. i = a[k]
      BY <1>3, <1>4, <3>2 DEF NamesOnce
    <3>. QED
      BY <1>3, <3>3
  <2>2. j \in I
    <3>1. rows[i].batch = LastBatch /\ rows[i].batch <= rows[j].batch
      BY <2>1 DEF I, InOrder
    <3>2. rows[j].batch <= LastBatch
      BY LastBatchIs
    <3>3. rows[j].batch \in Nat /\ LastBatch \in Nat
      BY <1>1, LastBatchIs DEF Row
    <3>. QED
      BY <3>1, <3>2, <3>3 DEF I
  <2>3. PICK q \in DOMAIN t : a[q] = j
    BY <1>3, <2>2
  <2>4. rows[i].name = Reverse(Names(t))[l] /\ i < a[q]
    BY <2>3
  <2>5. /\ \A k \in DOMAIN t : t[k] = rows[a[k]]
        /\ \A k, m \in DOMAIN t : k < m => a[k] < a[m]
    BY <1>3
  <2>6. \E k \in DOMAIN s : k < l /\ s[k] = rows[a[q]].name
    BY <1>4, <2>4, <2>5, ReversedIsBehind, Zenon
  <2>. QED
    BY <2>3, <2>6
<1>7. /\ Behind(AppliedInLastBatch(n), FALSE)
      /\ ToSet(AppliedInLastBatch(n)) \subseteq Timed
  <2>1. AppliedInLastBatch(n) = Limited(s, n)
    BY DEF AppliedInLastBatch, I, t
  <2>2. Behind(Limited(s, n), FALSE)
    BY <1>5, <1>6, LimitedIsBehind
  <2>. HIDE DEF s
  <2>. QED
    BY <1>5, <2>1, <2>2, LimitedIs
<1>8. Behind(AllReversed, TRUE)
  <2>. DEFINE b == [i \in DOMAIN rows |-> i]
  <2>1. /\ b \in [DOMAIN rows -> DOMAIN rows]
        /\ \A k \in DOMAIN rows : b[k] = k
    OBVIOUS
  <2>. HIDE DEF b
  <2>2. ASSUME NEW l \in DOMAIN AllReversed, NEW i \in DOMAIN rows, NEW j \in DOMAIN rows,
               rows[i].name = AllReversed[l], i < j
        PROVE  \E k \in DOMAIN AllReversed : k < l /\ AllReversed[k] = rows[j].name
    BY <2>1, <2>2, ReversedIsBehind DEF AllReversed
  <2>. QED
    BY <2>2 DEF Behind
<1>9. Tracked \subseteq ToSet(AllReversed)
  <2>1. Names(rows) = [k \in 1..Len(rows) |-> rows[k].name]
    BY <1>1 DEF Names
  <2>2. Len(Names(rows)) = Len(rows)
    BY <1>1, <2>1
  <2>3. AllReversed = [k \in 1..Len(rows) |-> Names(rows)[(Len(rows) - k) + 1]]
    BY <2>2 DEF AllReversed, Reverse
  <2>4. ASSUME NEW i \in DOMAIN rows
        PROVE  \E k \in DOMAIN AllReversed : AllReversed[k] = rows[i].name
    <3>. DEFINE k == (Len(rows) - i) + 1
    <3>1. k \in 1..Len(rows) /\ (Len(rows) - k) + 1 = i /\ i \in 1..Len(rows)
      BY <1>1
    <3>2. k \in DOMAIN AllReversed /\ AllReversed[k] = rows[i].name
      BY <2>1, <2>3, <3>1
    <3>. QED
      BY <3>2
  <2>. QED
    BY <2>4 DEF Tracked, ToSet
<1>. QED
  BY <1>7, <1>8, <1>9
\* A plan without a limit is the whole of it.
LEMMA PendingIsAll == ToSet(Pending(NoLimit)) = TimedFiles \ Tracked
<1>. DEFINE S == TimedFiles \ Tracked
            s == Ascending(S)
<1>1. /\ S \in SUBSET Nat /\ IsFiniteSet(S) /\ Cardinality(S) <= Cardinality(Timed)
      /\ Cardinality(S) \in Nat /\ Cardinality(Timed) \in Nat
  <2>1. S \subseteq Timed /\ Timed \subseteq Name
    BY DEF TimedFiles, Name
  <2>2. IsFiniteSet(Timed)
    BY <2>1, NameAssumption, FS_Subset
  <2>. QED
    BY <2>1, <2>2, NameAssumption, FS_Subset, FS_CardinalityType
<1>2. NoLimit \in Nat /\ Cardinality(Timed) <= NoLimit
  <2>1. PICK n \in Limits : n >= Cardinality(Timed) /\ \A k \in Limits : k <= n
    BY BoundAssumption
  <2>2. NoLimit \in Limits /\ \A k \in Limits : k <= NoLimit
    BY <2>1 DEF NoLimit
  <2>3. NoLimit \in Nat /\ n \in Nat
    BY <2>1, <2>2, BoundAssumption
  <2>. QED
    BY <1>1, <2>1, <2>2, <2>3
<1>3. s \in Seq(S) /\ ToSet(s) = S /\ Len(s) = Cardinality(S)
  <2>. HIDE DEF S
  <2>1. s \in Seq(S) /\ ToSet(s) = S /\ s \in [1..Cardinality(S) -> S]
    BY <1>1, AscendingLists, AscendingIs
  <2>. QED
    BY <1>1, <2>1
<1>. HIDE DEF s
<1>4. /\ DOMAIN Limited(s, NoLimit) = DOMAIN s
      /\ \A i \in DOMAIN s : Limited(s, NoLimit)[i] = s[i]
  <2>1. ~(NoLimit < Len(s)) /\ DOMAIN s = 1..Len(s)
    BY <1>1, <1>2, <1>3, LenProperties
  <2>. HIDE DEF S
  <2>2. /\ DOMAIN Limited(s, NoLimit) = 1..(IF NoLimit < Len(s) THEN NoLimit ELSE Len(s))
        /\ \A i \in DOMAIN Limited(s, NoLimit) : Limited(s, NoLimit)[i] = s[i]
    BY <1>2, <1>3, LimitedIs
  <2>. QED
    BY <2>1, <2>2
<1>5. ToSet(Limited(s, NoLimit)) = ToSet(s)
  BY <1>4 DEF ToSet
<1>. QED
  BY <1>3, <1>5 DEF Pending, s

\* What is planned is the next migration, or one after it.
LEMMA TailKeeps ==
  ASSUME NEW S, NEW s \in Seq(S), s # <<>>
  PROVE  /\ ToSet(s) \subseteq {Head(s)} \cup ToSet(Tail(s))
         /\ Head(s) = s[1] /\ 1 \in DOMAIN s
         /\ \A k \in DOMAIN s : k # 1 => k - 1 \in DOMAIN Tail(s) /\ Tail(s)[k - 1] = s[k]
         /\ \A k \in DOMAIN Tail(s) : k \in Nat /\ k + 1 \in DOMAIN s /\ Tail(s)[k] = s[k + 1]
<1>1. /\ Head(s) = s[1] /\ Tail(s) \in Seq(S) /\ Len(Tail(s)) = Len(s) - 1
      /\ \A i \in 1..Len(Tail(s)) : Tail(s)[i] = s[i + 1]
  BY HeadTailProperties
<1>2. Len(s) \in Nat \ {0} /\ DOMAIN s = 1..Len(s) /\ DOMAIN Tail(s) = 1..Len(Tail(s))
  BY <1>1, LenProperties, EmptySeq
<1>3. \A k \in DOMAIN Tail(s) : k \in Nat /\ k + 1 \in DOMAIN s /\ Tail(s)[k] = s[k + 1]
  BY <1>1, <1>2
<1>4. \A k \in DOMAIN s : k # 1 => k - 1 \in DOMAIN Tail(s) /\ Tail(s)[k - 1] = s[k]
  <2>. SUFFICES ASSUME NEW k \in DOMAIN s, k # 1
                PROVE  k - 1 \in DOMAIN Tail(s) /\ Tail(s)[k - 1] = s[k]
    OBVIOUS
  <2>1. k - 1 \in 1..Len(Tail(s)) /\ (k - 1) + 1 = k
    BY <1>1, <1>2
  <2>. QED
    BY <1>2, <1>3, <2>1
<1>5. ToSet(s) \subseteq {Head(s)} \cup ToSet(Tail(s))
  BY <1>1, <1>4 DEF ToSet
<1>. QED
  BY <1>1, <1>2, <1>3, <1>4, <1>5

\* A deletion leaves the other rows in their order.
LEMMA DeleteKeepsOrder ==
  ASSUME TypeInv, NEW p \in Process, Delete(p)
  PROVE  \E a \in [DOMAIN rows' -> DOMAIN rows] :
           /\ \A k \in DOMAIN rows' : rows'[k] = rows[a[k]] /\ rows[a[k]].name # Head(todo[p])
           /\ \A k, l \in DOMAIN rows' : k < l => a[k] < a[l]
<1>. DEFINE I == {i \in DOMAIN rows : rows[i].name # Head(todo[p])}
<1>1. rows' = RowsAt(I) /\ I \in SUBSET (DOMAIN rows) /\ rows \in Seq(Row)
  BY TypesSplit DEF TypeInv, TableTypes, Delete
<1>2. \A i \in I : i \in DOMAIN rows /\ rows[i].name # Head(todo[p])
  OBVIOUS
<1>. HIDE DEF I
<1>3. PICK a \in [DOMAIN rows' -> I] :
        /\ \A k \in DOMAIN rows' : rows'[k] = rows[a[k]]
        /\ \A k, l \in DOMAIN rows' : k < l => a[k] < a[l]
  BY <1>1, RowsAtOrder
<1>4. a \in [DOMAIN rows' -> DOMAIN rows]
  BY <1>1, <1>3
<1>. QED
  BY <1>2, <1>3, <1>4

\* What was planned behind others still is, with the first one gone.
LEMMA DeleteKeepsBehind ==
  ASSUME TypeInv, NEW p \in Process, Delete(p), NEW all \in BOOLEAN, Behind(todo[p], all)
  PROVE  \A l \in DOMAIN Tail(todo[p]), i, j \in DOMAIN rows' :
           rows'[i].name = Tail(todo[p])[l] /\ i < j /\ (all \/ rows'[j].batch # 0) =>
             \E k \in DOMAIN Tail(todo[p]) : k < l /\ Tail(todo[p])[k] = rows'[j].name
<1>. DEFINE s == todo[p]
<1>1. s \in Seq(Name) /\ s # <<>>
  BY TypesSplit DEF TypeInv, WorkInv, Working, CallTypes, Delete
<1>2. PICK a \in [DOMAIN rows' -> DOMAIN rows] :
        /\ \A k \in DOMAIN rows' : rows'[k] = rows[a[k]] /\ rows[a[k]].name # Head(s)
        /\ \A k, l \in DOMAIN rows' : k < l => a[k] < a[l]
  BY DeleteKeepsOrder
<1>3. /\ Head(s) = s[1]
      /\ \A k \in DOMAIN s : k # 1 => k - 1 \in DOMAIN Tail(s) /\ Tail(s)[k - 1] = s[k]
      /\ \A k \in DOMAIN Tail(s) : k \in Nat /\ k + 1 \in DOMAIN s /\ Tail(s)[k] = s[k + 1]
      /\ DOMAIN s \subseteq Nat
  BY <1>1, TailKeeps, LenProperties
<1>4. Behind(s, all)
  OBVIOUS
<1>. HIDE DEF s
<1>5. ASSUME NEW l \in DOMAIN Tail(s), NEW i \in DOMAIN rows', NEW j \in DOMAIN rows',
             rows'[i].name = Tail(s)[l], i < j, all \/ rows'[j].batch # 0
      PROVE  \E k \in DOMAIN Tail(s) : k < l /\ Tail(s)[k] = rows'[j].name
  <2>1. /\ l + 1 \in DOMAIN s /\ rows[a[i]].name = s[l + 1] /\ a[i] < a[j]
        /\ a[i] \in DOMAIN rows /\ a[j] \in DOMAIN rows
        /\ all \/ rows[a[j]].batch # 0
    BY <1>2, <1>3, <1>5
  <2>2. PICK k \in DOMAIN s : k < l + 1 /\ s[k] = rows[a[j]].name
    BY <1>4, <2>1 DEF Behind
  <2>3. k # 1
    BY <1>2, <1>3, <2>2
  <2>4. k - 1 \in DOMAIN Tail(s) /\ k - 1 < l /\ Tail(s)[k - 1] = rows'[j].name
    BY <1>2, <1>3, <2>2, <2>3
  <2>. QED
    BY <2>4
<1>. QED
  BY <1>5 DEF s
\* Without overlap, a process takes a step while all others rest, and they go on
\* resting.
LEMMA SerialElsewhere ==
  ASSUME TypeInv, SerialInv, NEW p \in Process, Step(p), ~overlap'
  PROVE  /\ ~overlap /\ InOrder /\ SerialOf(p) /\ Alone'
         /\ \A q \in Process \ {p} : pc[q] = "idle" /\ SerialOf(q)'
<1>t. CallTypes
  BY TypesSplit DEF TypeInv
<1>1. ~overlap /\ (pc[p] # "idle" \/ \A q \in Process \ {p} : pc[q] = "idle")
  <2>1. ASSUME NEW o \in Commands, NEW n \in Limits, Call(p, o, n)
        PROVE  ~overlap /\ \A q \in Process \ {p} : pc[q] = "idle"
    BY <2>1 DEF Call
  <2>2. CASE PlanUp(p) \/ PlanDown(p) \/ PlanReset(p) \/ PlanImport(p)
    BY <2>2 DEF PlanUp, PlanDown, PlanReset, PlanImport, PlanCall
  <2>3. CASE NextBatch(p) \/ Execute(p) \/ Record(p)
    BY <2>3 DEF NextBatch, Execute, Record
  <2>4. CASE Delete(p) \/ BreakOff(p) \/ Finish(p)
    BY <2>4 DEF Delete, BreakOff, Finish
  <2>. QED
    BY <2>1, <2>2, <2>3, <2>4 DEF Step
<1>2. Alone /\ InOrder /\ \A q \in Process : SerialOf(q)
  BY <1>1 DEF SerialInv
<1>3. \A q \in Process \ {p} : pc[q] = "idle"
  BY <1>1, <1>2 DEF Alone
<1>4. ASSUME NEW q \in Process \ {p}
      PROVE  pc'[q] = "idle" /\ SerialOf(q)'
  <2>1. op[q] = "up" /\ batch[q] = 0 /\ found[q] = {}
    BY <1>2, <1>3 DEF SerialOf, Resting
  <2>2. pc'[q] = "idle" /\ op'[q] = "up" /\ batch'[q] = 0 /\ found'[q] = {}
    BY <1>3, <1>t, <2>1, OthersStay
  <2>. QED
    BY <2>2 DEF SerialOf, Resting, UpOf, BackOf, GoalOf
<1>5. Alone'
  BY <1>4 DEF Alone
<1>. QED
  BY <1>1, <1>2, <1>3, <1>4, <1>5

LEMMA OrderStep ==
  ASSUME TypeInv, InOrder, NEW p \in Process, UpOf(p), Step(p)
  PROVE  InOrder'
<1>t. /\ rows \in Seq(Row) /\ CallTypes /\ Working(p)
      /\ DOMAIN rows = 1..Len(rows) /\ Len(rows) \in Nat
  BY TypesSplit, LenProperties DEF TypeInv, TableTypes, WorkInv
<1>1. CASE Record(p)
  <2>. DEFINE row == [name |-> Head(todo[p]), batch |-> batch[p]]
  <2>1. /\ row \in Row /\ rows' = Append(rows, row)
        /\ pc[p] = "record" /\ op[p] \in {"up", "import"}
    BY <1>1, <1>t, HeadIs DEF Record, Row, CallTypes
  <2>2. row.name = Head(todo[p]) /\ row.batch = batch[p]
    OBVIOUS
  <2>. HIDE DEF row
  <2>3. /\ DOMAIN rows' = 1..(Len(rows) + 1)
        /\ \A i \in 1..Len(rows) : rows'[i] = rows[i]
        /\ rows'[Len(rows) + 1] = row
    <3>1. /\ rows' \in Seq(Row) /\ Len(rows') = Len(rows) + 1
          /\ \A i \in 1..Len(rows) : rows'[i] = rows[i]
          /\ rows'[Len(rows) + 1] = row
      BY <1>t, <2>1, AppendProperties
    <3>. QED
      BY <3>1, LenProperties
  <2>4. row.batch # 0 => /\ \A i \in DOMAIN rows : rows[i].batch <= row.batch
                        /\ row.name \in Timed
    <3>1. row.batch # 0 => op[p] = "up"
      BY <2>1, <2>2 DEF UpOf
    <3>2. Head(todo[p]) \in ToSet(todo[p])
      BY <2>1, HeadIs
    <3>. QED
      BY <1>t, <2>1, <2>2, <3>1, <3>2 DEF UpOf, Working
  <2>5. ASSUME NEW i \in DOMAIN rows', NEW j \in DOMAIN rows', i < j, rows'[j].batch # 0
        PROVE  rows'[i].batch <= rows'[j].batch
    <3>1. i \in DOMAIN rows
      BY <1>t, <2>3, <2>5
    <3>2. CASE j \in DOMAIN rows
      BY <1>t, <2>3, <2>5, <3>1, <3>2 DEF InOrder
    <3>3. CASE j = Len(rows) + 1
      BY <1>t, <2>3, <2>4, <2>5, <3>1, <3>3
    <3>. QED
      BY <1>t, <2>3, <3>2, <3>3
  <2>6. ASSUME NEW i \in DOMAIN rows', rows'[i].batch # 0
        PROVE  rows'[i].name \in Timed
    BY <1>t, <2>3, <2>4, <2>6 DEF InOrder
  <2>. QED
    BY <2>5, <2>6 DEF InOrder
<1>2. CASE Delete(p)
  <2>1. PICK a \in [DOMAIN rows' -> DOMAIN rows] :
          /\ \A k \in DOMAIN rows' : rows'[k] = rows[a[k]] /\ rows[a[k]].name # Head(todo[p])
          /\ \A k, l \in DOMAIN rows' : k < l => a[k] < a[l]
    BY <1>2, DeleteKeepsOrder
  <2>. QED
    BY <2>1 DEF InOrder
<1>3. CASE ~(Record(p) \/ Delete(p))
  <2>1. rows' = rows
    BY <1>3 DEF Step, Call, PlanUp, PlanDown, PlanReset, PlanImport, PlanCall, NextBatch,
       Execute, BreakOff, Finish, database
  <2>. QED
    BY <2>1 DEF InOrder
<1>. QED
  BY <1>1, <1>2, <1>3

\* What a process is to do next is still behind what it is to do first.
LEMMA SerialOwnStep ==
  ASSUME TypeInv, InOrder, NEW p \in Process, SerialOf(p), Step(p)
  PROVE  SerialOf(p)'
<1>t. CallTypes /\ TableTypes /\ Working(p)
  BY TypesSplit DEF TypeInv, WorkInv
<1>l. limit[p] \in Nat
  BY <1>t, BoundAssumption DEF CallTypes
<1>0. ASSUME Return(p) PROVE SerialOf(p)'
  <2>1. pc'[p] = "idle" /\ op'[p] = "up" /\ batch'[p] = 0 /\ found'[p] = {}
    BY <1>0, <1>t DEF Return, Goto, CallTypes
  <2>. QED
    BY <2>1 DEF SerialOf, Resting, UpOf, BackOf, GoalOf
<1>1. ASSUME NEW o \in Commands, NEW n \in Limits, Call(p, o, n)
      PROVE  SerialOf(p)'
  <2>1. /\ pc'[p] = "plan" /\ todo'[p] = <<>> /\ batch'[p] = 0 /\ found'[p] = {}
    BY <1>1, <1>t DEF Call, Goto, CallTypes, Working, SerialOf, Resting
  <2>2. DOMAIN <<>> = {} /\ ToSet(<<>>) \subseteq Timed
    BY DEF ToSet
  <2>. QED
    BY <2>1, <2>2 DEF SerialOf, Resting, UpOf, BackOf, Behind, GoalOf
<1>2. CASE PlanUp(p)
  <2>1. /\ todo'[p] = Pending(limit[p]) /\ found'[p] = TimedFiles /\ UNCHANGED <<rows, limit>>
        /\ op'[p] = "up" /\ pc'[p] \in {"batch", "done"}
    BY <1>2, <1>t DEF PlanUp, PlanCall, Proceed, Goto, CallTypes, database
  <2>2. limit'[p] = NoLimit => found'[p] \subseteq Tracked' \cup ToSet(todo'[p])
    BY <2>1, PendingIsAll DEF Tracked
  <2>. QED
    BY <2>1, <2>2 DEF SerialOf, Resting, UpOf, BackOf, GoalOf
<1>3. CASE PlanDown(p)
  <2>1. /\ todo'[p] = AppliedInLastBatch(limit[p]) /\ found'[p] = {} /\ UNCHANGED rows
        /\ op'[p] = "down" /\ pc'[p] \in {"execute", "done"}
    BY <1>3, <1>t DEF PlanDown, PlanCall, Proceed, Goto, CallTypes, database
  <2>2. /\ Behind(AppliedInLastBatch(limit[p]), FALSE)
        /\ ToSet(AppliedInLastBatch(limit[p])) \subseteq Timed
    BY <1>t, <1>l, BackPlans DEF TableTypes
  <2>3. Behind(todo[p], FALSE)' /\ ToSet(todo'[p]) \subseteq Timed
    BY <2>1, <2>2 DEF Behind
  <2>. QED
    BY <2>1, <2>3 DEF SerialOf, Resting, UpOf, BackOf, GoalOf
<1>4. CASE PlanReset(p)
  <2>1. /\ todo'[p] = AllReversed /\ found'[p] = {} /\ UNCHANGED rows
        /\ op'[p] = "reset" /\ pc'[p] \in {"execute", "done"}
    BY <1>4, <1>t DEF PlanReset, PlanCall, Proceed, Goto, CallTypes, database
  <2>2. Behind(AllReversed, TRUE) /\ Tracked \subseteq ToSet(AllReversed)
    BY <1>t, <1>l, BackPlans DEF TableTypes
  <2>3. Behind(todo[p], TRUE)' /\ Tracked' \subseteq ToSet(todo'[p])
    BY <2>1, <2>2 DEF Behind, Tracked
  <2>. QED
    BY <2>1, <2>3 DEF SerialOf, Resting, UpOf, BackOf, GoalOf
<1>5. CASE PlanImport(p)
  <2>1. /\ todo'[p] = ToImport /\ found'[p] = LegacyFiles /\ UNCHANGED <<rows, batch>>
        /\ op'[p] = "import" /\ op[p] = "import" /\ pc'[p] \in {"record", "done"}
    BY <1>5, <1>t DEF PlanImport, PlanCall, Proceed, Goto, CallTypes, database
  <2>2. ToSet(ToImport) = LegacyFiles \ Tracked
    BY <1>t, <1>l, PlansAre DEF TableTypes
  <2>3. found'[p] \subseteq Tracked' \cup ToSet(todo'[p])
    BY <2>1, <2>2 DEF Tracked
  <2>. QED
    BY <2>1, <2>3 DEF SerialOf, Resting, UpOf, BackOf, GoalOf
<1>6. CASE NextBatch(p)
  <2>1. /\ UNCHANGED <<rows, op, limit, todo, found, mine>>
        /\ pc[p] = "batch" /\ pc'[p] = "execute" /\ batch'[p] = LastBatch + 1
    BY <1>6, <1>t DEF NextBatch, Goto, CallTypes, database
  <2>2. op[p] # "import"
    BY <1>t, <2>1 DEF Working
  <2>3. \A i \in DOMAIN rows : rows[i].batch <= LastBatch /\ rows[i].batch \in Nat
    <3>1. \A i \in DOMAIN rows : rows[i] \in Row
      BY <1>t, LenProperties, ElementOfSeq DEF TableTypes
    <3>. QED
      BY <1>t, <3>1, LastBatchIs DEF TableTypes, Row
  <2>4. LastBatch \in Nat
    BY <1>t, LastBatchIs DEF TableTypes
  <2>5. UpOf(p)'
    BY <2>1, <2>2, <2>3, <2>4 DEF UpOf
  <2>6. Resting(p)' /\ BackOf(p)' /\ GoalOf(p)'
    BY <2>1 DEF SerialOf, Resting, BackOf, Behind, GoalOf, Tracked
  <2>. QED
    BY <2>5, <2>6 DEF SerialOf
<1>7. CASE Execute(p)
  <2>1. CASE Goto(p, "record") /\ UNCHANGED <<rows, call>>
    <3>1. /\ UNCHANGED <<rows, op, limit, todo, batch, found, mine>>
          /\ pc[p] = "execute" /\ pc'[p] = "record"
      BY <1>7, <1>t, <2>1 DEF Execute, Goto, CallTypes, call
    <3>. QED
      BY <3>1 DEF SerialOf, Resting, UpOf, BackOf, Behind, GoalOf, Tracked
  <2>. QED
    BY <1>0, <1>7, <2>1 DEF Execute
<1>8. CASE Record(p)
  <2>. DEFINE l == IF op[p] = "up" THEN "execute" ELSE "record"
              m == Head(todo[p])
              row == [name |-> m, batch |-> batch[p]]
  <2>1. CASE /\ Proceed(p, Tail(todo[p]), l) /\ UNCHANGED found
             /\ mine' = [mine EXCEPT ![p] = @ \cup {m}]
    <3>1. /\ UNCHANGED <<op, limit, batch, found>> /\ op[p] \in {"up", "import"}
          /\ todo'[p] = Tail(todo[p]) /\ mine'[p] = mine[p] \cup {m}
          /\ rows' = Append(rows, row) /\ pc[p] = "record" /\ todo[p] # <<>>
          /\ pc'[p] \in {"execute", "record", "done"}
      BY <1>8, <1>t, <2>1 DEF Record, Proceed, Goto, CallTypes, Working
    <3>2. /\ DOMAIN rows' = 1..(Len(rows) + 1) /\ DOMAIN rows = 1..Len(rows)
          /\ Len(rows) \in Nat
          /\ \A i \in 1..Len(rows) : rows'[i] = rows[i]
          /\ rows'[Len(rows) + 1].name = m /\ rows'[Len(rows) + 1].batch = batch[p]
      <4>1. row.name = m /\ row.batch = batch[p] /\ row \in Row
        BY <1>t, <3>1, HeadIs DEF Row, CallTypes
      <4>. HIDE DEF row
      <4>2. /\ rows' \in Seq(Row) /\ Len(rows') = Len(rows) + 1
            /\ \A i \in 1..Len(rows) : rows'[i] = rows[i]
            /\ rows'[Len(rows) + 1] = row
        BY <1>t, <3>1, <4>1, AppendProperties DEF TableTypes
      <4>. QED
        BY <1>t, <4>1, <4>2, LenProperties DEF TableTypes
    <3>3. UpOf(p)'
      <4>1. batch'[p] = batch[p] /\ batch[p] \in Nat
        BY <1>t, <3>1 DEF CallTypes
      <4>2. op[p] = "up" => \A i \in DOMAIN rows :
              /\ rows[i].batch <= batch[p]
              /\ rows[i].batch = batch[p] => rows[i].name \in mine[p]
        BY <3>1 DEF SerialOf, UpOf
      <4>3. op[p] = "up" => \A i \in DOMAIN rows' :
              /\ rows'[i].batch <= batch[p]
              /\ rows'[i].batch = batch[p] => rows'[i].name \in mine'[p]
        <5>. SUFFICES ASSUME op[p] = "up", NEW i \in DOMAIN rows'
                      PROVE  /\ rows'[i].batch <= batch[p]
                             /\ rows'[i].batch = batch[p] => rows'[i].name \in mine'[p]
          OBVIOUS
        <5>1. CASE i \in DOMAIN rows
          <6>1. rows'[i] = rows[i]
            BY <3>2, <5>1
          <6>2. /\ rows[i].batch <= batch[p]
                /\ rows[i].batch = batch[p] => rows[i].name \in mine[p]
            BY <4>2, <5>1
          <6>3. mine[p] \subseteq mine'[p]
            BY <3>1
          <6>. QED
            BY <6>1, <6>2, <6>3
        <5>2. CASE i = Len(rows) + 1
          BY <3>1, <3>2, <4>1, <5>2
        <5>. QED
          BY <3>2, <5>1, <5>2
      <4>. QED
        BY <3>1, <4>1, <4>3 DEF SerialOf, UpOf
    <3>4. GoalOf(p)'
      <4>1. Tracked' = Tracked \cup {m} /\ ToSet(todo[p]) \subseteq {m} \cup ToSet(todo'[p])
        BY <1>8, <1>t, <3>1, RecordTypes, TailKeeps DEF CallTypes
      <4>2. limit[p] = NoLimit => found[p] \subseteq Tracked \cup ToSet(todo[p])
        BY <3>1 DEF SerialOf, GoalOf
      <4>. HIDE DEF m
      <4>. QED
        BY <3>1, <4>1, <4>2 DEF GoalOf
    <3>5. Resting(p)' /\ BackOf(p)'
      BY <3>1 DEF Resting, BackOf
    <3>. QED
      BY <3>3, <3>4, <3>5 DEF SerialOf
  <2>. QED
    BY <1>0, <1>8, <2>1 DEF Record
<1>9. CASE Delete(p)
  <2>. DEFINE m == Head(todo[p])
  <2>1. CASE Proceed(p, Tail(todo[p]), "execute") /\ UNCHANGED <<found, mine>>
    <3>1. /\ UNCHANGED <<op, limit, batch, found>> /\ op[p] \in {"down", "reset"}
          /\ todo'[p] = Tail(todo[p]) /\ pc[p] = "record" /\ todo[p] # <<>>
          /\ pc'[p] \in {"execute", "done"}
      BY <1>9, <1>t, <2>1 DEF Delete, Proceed, Goto, CallTypes, Working
    <3>2. \A all \in BOOLEAN : Behind(todo[p], all) => Behind(todo[p], all)'
      <4>. SUFFICES ASSUME NEW all \in BOOLEAN, Behind(todo[p], all)
                    PROVE  Behind(todo[p], all)'
        OBVIOUS
      <4>. QED
        BY <1>9, <3>1, DeleteKeepsBehind DEF Behind
    <3>3. /\ Tracked' = Tracked \ {m} /\ ToSet(todo[p]) \subseteq {m} \cup ToSet(todo'[p])
          /\ ToSet(todo'[p]) \subseteq ToSet(todo[p])
      BY <1>9, <1>t, <3>1, DeleteTypes, TailKeeps, HeadTailIs DEF CallTypes
    <3>. HIDE DEF m
    <3>4. /\ op[p] = "down" => Behind(todo[p], FALSE) /\ ToSet(todo[p]) \subseteq Timed
          /\ op[p] = "reset" => Behind(todo[p], TRUE) /\ Tracked \subseteq ToSet(todo[p])
          /\ found[p] = {}
      BY <3>1 DEF SerialOf, BackOf
    <3>5. BackOf(p)'
      <4>1. /\ op[p] = "down" => Behind(todo[p], FALSE)' /\ ToSet(todo'[p]) \subseteq Timed
            /\ op[p] = "reset" => Behind(todo[p], TRUE)' /\ Tracked' \subseteq ToSet(todo'[p])
        BY <3>2, <3>3, <3>4
      <4>. QED
        BY <3>1, <3>4, <4>1 DEF BackOf
    <3>6. UpOf(p)' /\ GoalOf(p)' /\ Resting(p)'
      BY <3>1, <3>4 DEF UpOf, GoalOf, Resting
    <3>. QED
      BY <3>5, <3>6 DEF SerialOf
  <2>. QED
    BY <1>0, <1>9, <2>1 DEF Delete
<1>10. CASE BreakOff(p)
  BY <1>0, <1>10 DEF BreakOff
<1>11. CASE Finish(p)
  BY <1>0, <1>11 DEF Finish
<1>. QED
  BY <1>1, <1>2, <1>3, <1>4, <1>5, <1>6, <1>7, <1>8, <1>9, <1>10, <1>11 DEF Step
LEMMA SerialStep == TypeInv /\ SerialInv /\ [Next]_vars => SerialInv'
<1>. SUFFICES ASSUME TypeInv, SerialInv, [Next]_vars PROVE SerialInv'
  OBVIOUS
<1>1. ASSUME NEW p \in Process, Step(p), ~overlap'
      PROVE  Alone' /\ InOrder' /\ \A q \in Process : SerialOf(q)'
  <2>1. /\ InOrder /\ SerialOf(p) /\ Alone'
        /\ \A q \in Process \ {p} : SerialOf(q)'
    BY <1>1, SerialElsewhere
  <2>2. SerialOf(p)'
    BY <1>1, <2>1, SerialOwnStep
  <2>3. InOrder'
    BY <1>1, <2>1, OrderStep DEF SerialOf
  <2>. QED
    BY <2>1, <2>2, <2>3
<1>2. CASE UNCHANGED <<rows, pc, op, limit, todo, batch, found, mine, overlap>>
  BY <1>2 DEF SerialInv, Alone, InOrder, SerialOf, Resting, UpOf, BackOf, Behind, GoalOf,
     Tracked, ToSet
<1>3. EditFiles \/ UNCHANGED vars =>
        UNCHANGED <<rows, pc, op, limit, todo, batch, found, mine, overlap>>
  BY DEF EditFiles, database, call, vars
<1>. QED
  BY <1>1, <1>2, <1>3 DEF Next, Step, SerialInv

LEMMA SerialInit == Init => SerialInv
<1>. SUFFICES ASSUME Init PROVE SerialInv
  OBVIOUS
<1>1. Alone /\ \A p \in Process : SerialOf(p)
  BY DEF Init, Alone, SerialOf, Resting, UpOf, BackOf, GoalOf
<1>2. InOrder
  <2>1. CASE rows = <<>>
    BY <2>1 DEF InOrder
  <2>2. ASSUME NEW A \in SUBSET Timed,
               rows = [i \in DOMAIN Ascending(A) |->
                         [name |-> Ascending(A)[i], batch |-> 1]]
        PROVE  InOrder
    <3>1. A \in SUBSET Nat /\ IsFiniteSet(A)
      BY NameAssumption, FS_Subset DEF Name
    <3>2. Ascending(A) \in Seq(A)
      BY <3>1, AscendingLists
    <3>3. \A i \in DOMAIN rows : rows[i].batch = 1 /\ rows[i].name \in Timed
      <4>1. \A i \in DOMAIN Ascending(A) : Ascending(A)[i] \in A
        BY <3>2, LenProperties, ElementOfSeq
      <4>. QED
        BY <2>2, <4>1
    <3>. QED
      BY <3>3 DEF InOrder
  <2>. QED
    BY <2>1, <2>2 DEF Init
<1>. QED
  BY <1>1, <1>2 DEF SerialInv

LEMMA SerialInvHolds == Spec => [](TypeInv /\ SerialInv)
BY TypeInvHolds, SerialInit, SerialStep, PTL DEF Spec

\* As long as calls have not overlapped, who is in a call takes the step.
LEMMA OneInACall ==
  ASSUME TypeInv, SerialInv, [Next]_vars, ~overlap, NEW p \in Process, pc[p] # "idle",
         rows' # rows
  PROVE  Record(p) \/ Delete(p)
<1>1. PICK q \in Process : Record(q) \/ Delete(q)
  BY DEF Next, Call, PlanUp, PlanDown, PlanReset, PlanImport, PlanCall, NextBatch, Execute,
     BreakOff, Finish, EditFiles, database, vars
<1>2. pc[q] # "idle"
  BY <1>1 DEF Record, Delete
<1>. QED
  BY <1>1, <1>2 DEF SerialInv, Alone

\* A row is inserted in a batch that only has rows of the same call, unless calls
\* have overlapped: down undoes what one up did.
THEOREM BatchIsOneCallHolds == Spec => BatchIsOneCall
<1>1. TypeInv /\ SerialInv /\ [Next]_vars =>
        [\A p \in Process :
           ~overlap /\ pc[p] = "record" /\ op[p] = "up" /\ Len(rows') > Len(rows) =>
             \A i \in DOMAIN rows : rows[i].batch = batch[p] => rows[i].name \in mine[p]]_vars
  BY DEF SerialInv, SerialOf, UpOf
<1>. QED
  BY <1>1, SerialInvHolds, PTL DEF Spec, BatchIsOneCall

\* Without overlap rows go in the reverse of the order they came in, and down passes
\* over imported ones.
THEOREM LegacyRollbackIsLifoHolds == Spec => RollbackIsLifo
<1>. DEFINE Lifo(p) ==
       LET m == Head(todo[p])
       IN /\ op[p] = "reset" => rows[Len(rows)].name = m
          /\ op[p] = "down" =>
               /\ m \in Timed
               /\ \A i, j \in DOMAIN rows : rows[i].name = m /\ i < j => rows[j].batch = 0
<1>1. ASSUME TypeInv, SerialInv, [Next]_vars, ~overlap, NEW p \in Process,
             pc[p] = "record", Len(rows') < Len(rows)
      PROVE  Lifo(p)
  <2>. DEFINE m == Head(todo[p])
  <2>t. /\ rows \in Seq(Row) /\ todo[p] \in Seq(Name) /\ todo[p] # <<>>
        /\ DOMAIN rows = 1..Len(rows) /\ Len(rows) \in Nat /\ DOMAIN todo[p] \subseteq Nat
    BY <1>1, TypesSplit, LenProperties DEF TypeInv, TableTypes, CallTypes, WorkInv, Working
  <2>1. Delete(p)
    <3>1. Record(p) \/ Delete(p)
      BY <1>1, OneInACall
    <3>2. Record(p) => ~(Len(rows') < Len(rows))
      <4>. SUFFICES ASSUME Record(p) PROVE Len(rows') = Len(rows) + 1
        BY <2>t
      <4>. DEFINE row == [name |-> m, batch |-> batch[p]]
      <4>1. row \in Row /\ rows' = Append(rows, row)
        BY <1>1, HeadIs, TypesSplit DEF TypeInv, CallTypes, Row, Record
      <4>. HIDE DEF row
      <4>. QED
        BY <2>t, <4>1, AppendProperties
    <3>. QED
      BY <1>1, <3>1, <3>2
  <2>2. SerialOf(p)
    BY <1>1 DEF SerialInv
  <2>3. m = todo[p][1] /\ 1 \in DOMAIN todo[p] /\ m \in ToSet(todo[p])
    BY <2>t, TailKeeps, HeadTailIs
  <2>4. ~\E k \in DOMAIN todo[p] : k < 1
    BY <2>t, <2>3, LenProperties
  <2>5. \A all \in BOOLEAN : Behind(todo[p], all) =>
          \A i, j \in DOMAIN rows : rows[i].name = m /\ i < j => ~all /\ rows[j].batch = 0
    BY <2>3, <2>4 DEF Behind
  <2>6. ASSUME op[p] = "reset" PROVE rows[Len(rows)].name = m
    <3>1. PICK i \in DOMAIN rows : rows[i].name = m
      <4>. SUFFICES ASSUME \A i \in DOMAIN rows : rows[i].name # m PROVE FALSE
        OBVIOUS
      <4>1. rows' = RowsAt(DOMAIN rows)
        <5>1. {i \in DOMAIN rows : rows[i].name # m} = DOMAIN rows
          OBVIOUS
        <5>. QED
          BY <2>1, <5>1 DEF Delete
      <4>2. Cardinality(1..Len(rows)) = Len(rows) /\ IsFiniteSet(1..Len(rows))
        <5>1. 1 \in Int /\ Len(rows) \in Int
          BY <2>t
        <5>2. /\ IsFiniteSet(1..Len(rows))
              /\ Cardinality(1..Len(rows)) = IF 1 > Len(rows) THEN 0 ELSE Len(rows) - 1 + 1
          BY <5>1, FS_Interval
        <5>. QED
          BY <2>t, <5>2
      <4>3. Ascending(1..Len(rows)) \in [1..Len(rows) -> 1..Len(rows)]
        BY <2>t, <4>2, AscendingIs
      <4>4. Len(rows') = Len(rows)
        BY <2>t, <4>1, <4>3 DEF RowsAt
      <4>. QED
        BY <1>1, <2>t, <4>4
    <3>2. Behind(todo[p], TRUE)
      BY <2>2, <2>6 DEF SerialOf, BackOf
    <3>3. \A j \in DOMAIN rows : ~(i < j)
      BY <2>5, <3>1, <3>2
    <3>4. Len(rows) \in DOMAIN rows /\ i \in 1..Len(rows)
      BY <2>t
    <3>. QED
      BY <2>t, <3>1, <3>3, <3>4
  <2>7. ASSUME op[p] = "down"
        PROVE  /\ m \in Timed
               /\ \A i, j \in DOMAIN rows : rows[i].name = m /\ i < j => rows[j].batch = 0
    <3>1. Behind(todo[p], FALSE) /\ ToSet(todo[p]) \subseteq Timed
      BY <2>2, <2>7 DEF SerialOf, BackOf
    <3>. QED
      BY <2>3, <2>5, <3>1
  <2>. QED
    BY <2>6, <2>7
<1>2. TypeInv /\ SerialInv /\ [Next]_vars =>
        [\A p \in Process :
           ~overlap /\ pc[p] = "record" /\ Len(rows') < Len(rows) => Lifo(p)]_vars
  BY <1>1
<1>. QED
  BY <1>2, SerialInvHolds, PTL DEF Spec, RollbackIsLifo

\* A call without a limit that reports success, and had no other beside it, has done
\* all it was asked for: what it found is in the table, or the table is empty.
THEOREM SuccessIsCompleteHolds == Spec => SuccessIsComplete
<1>1. ASSUME TypeInv, SerialInv, TypeInv', SerialInv', [Next]_vars, ~overlap,
             NEW p \in Process, pc[p] # "done", pc'[p] = "done", limit[p] = NoLimit
      PROVE  found'[p] \subseteq Tracked' /\ (op[p] = "reset" => rows' = <<>>)
  <2>t. CallTypes
    BY <1>1, TypesSplit DEF TypeInv
  <2>1. Step(p) /\ UNCHANGED <<op, limit, overlap>>
    <3>1. PICK q \in Process : Step(q)
      BY <1>1 DEF Next, Step, EditFiles, vars
    <3>2. q = p
      BY <1>1, <2>t, <3>1, OthersStay
    <3>3. ASSUME Return(p) PROVE FALSE
      BY <1>1, <2>t, <3>3 DEF Return, Goto, CallTypes
    <3>4. ASSUME NEW l \in {"plan", "execute", "record"}, Goto(p, l) PROVE FALSE
      BY <1>1, <2>t, <3>4 DEF Goto, CallTypes
    <3>5. UNCHANGED <<op, limit, overlap>>
      <4>1. CASE PlanUp(p) \/ PlanDown(p) \/ PlanReset(p) \/ PlanImport(p)
        BY <4>1 DEF PlanUp, PlanDown, PlanReset, PlanImport, PlanCall, Proceed
      <4>2. CASE Record(p) \/ Delete(p)
        BY <3>3, <4>2 DEF Record, Delete, Proceed
      <4>3. CASE NextBatch(p) \/ Execute(p) \/ BreakOff(p) \/ Finish(p)
        BY <3>3, <3>4, <4>3 DEF NextBatch, Execute, BreakOff, Finish
      <4>4. CASE \E o \in Commands, n \in Limits : Call(p, o, n)
        BY <3>4, <4>4 DEF Call
      <4>. QED
        BY <3>1, <3>2, <4>1, <4>2, <4>3, <4>4 DEF Step
    <3>. QED
      BY <3>1, <3>2, <3>5
  <2>2. todo'[p] = <<>> /\ SerialOf(p)'
    BY <1>1, <2>1 DEF TypeInv, WorkInv, Working, SerialInv
  <2>3. ToSet(todo'[p]) = {}
    BY <2>2 DEF ToSet
  <2>4. found'[p] \subseteq Tracked'
    BY <1>1, <2>1, <2>2, <2>3 DEF SerialOf, GoalOf
  <2>5. ASSUME op[p] = "reset" PROVE rows' = <<>>
    <3>1. Tracked' = {}
      BY <1>1, <2>1, <2>2, <2>3, <2>5 DEF SerialOf, BackOf
    <3>2. rows' \in Seq(Row)
      BY <1>1 DEF TypeInv, TypeOK
    <3>3. DOMAIN rows' = {}
      BY <3>1 DEF Tracked
    <3>. QED
      BY <3>2, <3>3, LenProperties, EmptySeq
  <2>. QED
    BY <2>4, <2>5
<1>2. /\ TypeInv /\ SerialInv /\ TypeInv' /\ SerialInv' /\ [Next]_vars =>
           [\A p \in Process :
              ~overlap /\ pc[p] # "done" /\ pc'[p] = "done" /\ limit[p] = NoLimit =>
                /\ found'[p] \subseteq Tracked'
                /\ op[p] = "reset" => rows' = <<>>]_vars
  BY <1>1
<1>. QED
  BY <1>2, SerialInvHolds, PTL DEF Spec, SuccessIsComplete
=============================================================================
