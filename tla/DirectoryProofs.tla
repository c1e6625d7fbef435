--------------------------- MODULE DirectoryProofs ---------------------------
(***************************************************************************)
(* Theorems about Directory, for any number of creators, seconds and       *)
(* names.  The inductive invariant has four parts:                         *)
(*                                                                         *)
(*   PairInv   what follows from an up file anywhere, in the directory or  *)
(*             on disk only                                                *)
(*   LockInv   who holds the lock file of a second, and that nobody else   *)
(*             creates anything in it                                      *)
(*   OwnInv    what a creator between two of its calls knows of its pair   *)
(*   KeptInv   what was reported created is in the directory and on disk   *)
(*                                                                         *)
(* None holds without the others: a creator withdraws an up file, and that *)
(* it is not one reported created follows from the check it made under the *)
(* lock of the second.                                                     *)
(***************************************************************************)
EXTENDS Directory, TLAPS

\* One step of a creator, its own or one that is done to it.
Step(c) ==
  \/ Create(c) \/ Check(c) \/ TakeLock(c) \/ Recheck(c) \/ Stage(c)
  \/ LinkDown(c) \/ SyncDown(c) \/ LinkUp(c) \/ SyncUp(c)
  \/ Withdraw(c) \/ SyncWithdrawal(c) \/ Fail(c) \/ Unlock(c) \/ Crash(c)

ScanStep == ReadDir \/ Inspect \/ EndScan

LockedPcs == {"recheck", "stage", "linkDown", "syncDown", "linkUp", "syncUp",
              "withdraw", "syncWithdrawal", "unlock"}

\* Its own down file has its name.
LinkedPcs == {"syncDown", "linkUp", "syncUp", "withdraw", "syncWithdrawal"}

\* An up file that can be seen, now or after a power loss, has its down file
\* now and then, and the bytes of both; a down file is never given up, and
\* there is one in a second.
PairInv ==
  /\ \A b \in Base : Up(b) \in files \cup disk =>
       Down(b) \in files /\ Down(b) \in disk /\ Up(b) \in whole /\ Down(b) \in whole
  /\ \A b \in Base : Down(b) \in disk => Down(b) \in files
  /\ \A b, o \in Base : b[1] = o[1] /\ Down(b) \in files /\ Down(o) \in files => b = o

LockInv ==
  /\ \A c \in Creator : pc[c] \in LockedPcs => Lock(base[c]) \in files
  /\ \A c, d \in Creator : c # d /\ pc[c] \in LockedPcs /\ pc[d] \in LockedPcs =>
       base[c][1] # base[d][1]

OwnPair(c) ==
  /\ pc[c] \in {"stage", "linkDown"} =>
       \A o \in Base : o[1] = base[c][1] => Down(o) \notin files
  /\ pc[c] \in LinkedPcs => Down(base[c]) \in files /\ base[c] \notin kept
  /\ pc[c] \in {"linkDown", "syncDown", "linkUp", "syncUp"} =>
       Up(base[c]) \in whole /\ Down(base[c]) \in whole
  /\ pc[c] = "linkUp" => Down(base[c]) \in disk
  /\ pc[c] = "syncUp" => Up(base[c]) \in files
  /\ ok[c] => /\ pc[c] = "unlock"
              /\ Up(base[c]) \in files /\ Up(base[c]) \in disk

OwnInv == \A c \in Creator : OwnPair(c)

KeptInv ==
  /\ \A b \in kept : Up(b) \in files /\ Up(b) \in disk
  /\ kept # {} => home = "durable"

ScanInv ==
  /\ scan = "inspect" /\ ~removed => \A b \in todo : Up(b) \in files
  /\ scan = "failed" => removed

DirInv == PairInv /\ LockInv /\ OwnInv /\ KeptInv /\ ScanInv

-----------------------------------------------------------------------------
(* Names.                                                                  *)

\* Names are entries, and differ as they should.
LEMMA Names ==
  ASSUME NEW b \in Base, NEW o \in Base
  PROVE  /\ Up(b) \in Entry /\ Down(b) \in Entry /\ Lock(b) \in Entry
         /\ Up(b) = Up(o) => b = o
         /\ Down(b) = Down(o) => b = o
         /\ Up(b) # Down(o) /\ Up(b) # Lock(o) /\ Down(b) # Lock(o)
         /\ Lock(b) = Lock(o) <=> b[1] = o[1]
  BY BaseAssumption DEF Up, Down, Lock, Entry

LEMMA NoBaseType == NoBase \in Base
  BY BaseAssumption DEF NoBase

-----------------------------------------------------------------------------
(* Types.                                                                  *)

LEMMA StepType == ASSUME TypeOK, NEW c \in Creator, Step(c) PROVE TypeOK'
<1>. USE NoBaseType DEF TypeOK, Pcs, Goto, Return, Continue, storage, creators, scanner
<1>0. \A b \in Base : Up(b) \in Entry /\ Down(b) \in Entry /\ Lock(b) \in Entry
  BY Names
<1>1. CASE Create(c)
  BY <1>1 DEF Create
<1>2. CASE Check(c)
  BY <1>2 DEF Check
<1>3. CASE TakeLock(c)
  <2>1. CASE Lock(base[c]) \in files
    BY <1>3, <2>1 DEF TakeLock
  <2>2. CASE Lock(base[c]) \notin files
    BY <1>0, <1>3, <2>2 DEF TakeLock
  <2>. QED
    BY <2>1, <2>2
<1>4. CASE Recheck(c)
  BY <1>4 DEF Recheck
<1>5. CASE Stage(c)
  BY <1>0, <1>5 DEF Stage
<1>6. CASE LinkDown(c)
  BY <1>0, <1>6 DEF LinkDown, Link
<1>7. CASE SyncDown(c)
  BY <1>7 DEF SyncDown, Sync, Between
<1>8. CASE LinkUp(c)
  BY <1>0, <1>8 DEF LinkUp, Link
<1>9. CASE SyncUp(c)
  BY <1>9 DEF SyncUp, Between
<1>10. CASE Withdraw(c)
  BY <1>10 DEF Withdraw
<1>11. CASE SyncWithdrawal(c)
  BY <1>11 DEF SyncWithdrawal, Sync, Between
<1>12. CASE Fail(c)
  BY <1>12 DEF Fail
<1>13. CASE Unlock(c)
  BY <1>13 DEF Unlock
<1>14. CASE Crash(c)
  BY <1>14 DEF Crash
<1>. QED
  BY <1>1, <1>2, <1>3, <1>4, <1>5, <1>6, <1>7, <1>8, <1>9, <1>10, <1>11, <1>12, <1>13,
     <1>14 DEF Step

\* Every variable keeps its type.
THEOREM TypeCorrect == Spec => []TypeOK
<1>1. Init => TypeOK
  BY NoBaseType DEF Init, TypeOK, Pcs
<1>2. TypeOK /\ [Next]_vars => TypeOK'
  <2>. SUFFICES ASSUME TypeOK, [Next]_vars PROVE TypeOK'
    OBVIOUS
  <2>1. CASE \E c \in Creator : Step(c)
    BY <2>1, StepType
  <2>2. CASE ScanStep
    BY <2>2 DEF ScanStep, ReadDir, Inspect, EndScan, TypeOK, storage, creators
  <2>3. CASE PowerLoss
    BY <2>3, NoBaseType DEF PowerLoss, Between, TypeOK, Pcs
  <2>4. CASE UNCHANGED vars
    BY <2>4 DEF vars, TypeOK
  <2>. QED
    BY <2>1, <2>2, <2>3, <2>4 DEF Next, Step, ScanStep
<1>. QED
  BY <1>1, <1>2, PTL DEF Spec

-----------------------------------------------------------------------------
(* What one step of a creator does to the others and to the directory.     *)

\* A step of one creator leaves the local state of the others alone.
LEMMA Frame ==
  ASSUME TypeOK, NEW c \in Creator, Step(c), NEW d \in Creator \ {c}
  PROVE  pc'[d] = pc[d] /\ base'[d] = base[d] /\ ok'[d] = ok[d]
<1>. USE DEF TypeOK, Goto, Return, Continue, creators
<1>1. CASE Create(c)
  BY <1>1 DEF Create
<1>2. CASE Check(c)
  BY <1>2 DEF Check
<1>3. CASE TakeLock(c)
  BY <1>3 DEF TakeLock
<1>4. CASE Recheck(c)
  BY <1>4 DEF Recheck
<1>5. CASE Stage(c)
  BY <1>5 DEF Stage
<1>6. CASE LinkDown(c)
  BY <1>6 DEF LinkDown, Link
<1>7. CASE SyncDown(c)
  BY <1>7 DEF SyncDown, Sync, Between
<1>8. CASE LinkUp(c)
  BY <1>8 DEF LinkUp, Link
<1>9. CASE SyncUp(c)
  BY <1>9 DEF SyncUp, Between
<1>10. CASE Withdraw(c)
  BY <1>10 DEF Withdraw
<1>11. CASE SyncWithdrawal(c)
  BY <1>11 DEF SyncWithdrawal, Sync, Between
<1>12. CASE Fail(c)
  BY <1>12 DEF Fail
<1>13. CASE Unlock(c)
  BY <1>13 DEF Unlock
<1>14. CASE Crash(c)
  BY <1>14 DEF Crash
<1>. QED
  BY <1>1, <1>2, <1>3, <1>4, <1>5, <1>6, <1>7, <1>8, <1>9, <1>10, <1>11, <1>12, <1>13,
     <1>14 DEF Step

\* Only a link adds the name of a migration file, only a withdrawal removes one.
LEMMA FilesEffect ==
  ASSUME TypeOK, NEW c \in Creator, Step(c), NEW b \in Base
  PROVE  /\ Down(b) \in files => Down(b) \in files'
         /\ Down(b) \in files' => Down(b) \in files \/ (LinkDown(c) /\ b = base[c])
         /\ Up(b) \in files' => Up(b) \in files \/ (LinkUp(c) /\ b = base[c])
         /\ Up(b) \in files => Up(b) \in files' \/ (Withdraw(c) /\ b = base[c])
<1>. USE Names DEF TypeOK, Continue, storage
<1>1. CASE Create(c)
  BY <1>1 DEF Create
<1>2. CASE Check(c)
  BY <1>2 DEF Check
<1>3. CASE TakeLock(c)
  BY <1>3 DEF TakeLock
<1>4. CASE Recheck(c)
  BY <1>4 DEF Recheck
<1>5. CASE Stage(c)
  BY <1>5 DEF Stage
<1>6. CASE LinkDown(c)
  BY <1>6 DEF LinkDown, Link
<1>7. CASE SyncDown(c)
  BY <1>7 DEF SyncDown, Sync, Between
<1>8. CASE LinkUp(c)
  BY <1>8 DEF LinkUp, Link
<1>9. CASE SyncUp(c)
  BY <1>9 DEF SyncUp, Between
<1>10. CASE Withdraw(c)
  BY <1>10 DEF Withdraw
<1>11. CASE SyncWithdrawal(c)
  BY <1>11 DEF SyncWithdrawal, Sync, Between
<1>12. CASE Fail(c)
  BY <1>12 DEF Fail
<1>13. CASE Unlock(c)
  BY <1>13 DEF Unlock
<1>14. CASE Crash(c)
  BY <1>14 DEF Crash
<1>. QED
  BY <1>1, <1>2, <1>3, <1>4, <1>5, <1>6, <1>7, <1>8, <1>9, <1>10, <1>11, <1>12, <1>13,
     <1>14 DEF Step

\* What the directory shows and the disk has, the disk keeps; what neither has,
\* the disk does not get; bytes stay.
LEMMA DiskEffect ==
  ASSUME TypeOK, NEW c \in Creator, Step(c)
  PROVE  /\ files \cap disk \subseteq disk' /\ disk' \subseteq files \cup disk
         /\ whole \subseteq whole'
<1>. USE DEF TypeOK, storage
<1>1. CASE Create(c)
  BY <1>1 DEF Create
<1>2. CASE Check(c)
  BY <1>2 DEF Check
<1>3. CASE TakeLock(c)
  BY <1>3 DEF TakeLock
<1>4. CASE Recheck(c)
  BY <1>4 DEF Recheck
<1>5. CASE Stage(c)
  BY <1>5 DEF Stage
<1>6. CASE LinkDown(c)
  BY <1>6 DEF LinkDown, Link
<1>7. CASE SyncDown(c)
  BY <1>7 DEF SyncDown, Sync, Between
<1>8. CASE LinkUp(c)
  BY <1>8 DEF LinkUp, Link
<1>9. CASE SyncUp(c)
  BY <1>9 DEF SyncUp, Between
<1>10. CASE Withdraw(c)
  BY <1>10 DEF Withdraw
<1>11. CASE SyncWithdrawal(c)
  BY <1>11 DEF SyncWithdrawal, Sync, Between
<1>12. CASE Fail(c)
  BY <1>12 DEF Fail
<1>13. CASE Unlock(c)
  BY <1>13 DEF Unlock
<1>14. CASE Crash(c)
  BY <1>14 DEF Crash
<1>. QED
  BY <1>1, <1>2, <1>3, <1>4, <1>5, <1>6, <1>7, <1>8, <1>9, <1>10, <1>11, <1>12, <1>13,
     <1>14 DEF Step

\* Only a creation that succeeded, in a directory that was there, is kept.
LEMMA KeptEffect ==
  ASSUME TypeOK, NEW c \in Creator, Step(c)
  PROVE  /\ \/ kept' = kept
            \/ Unlock(c) /\ ok[c] /\ home = "durable" /\ kept' = kept \cup {base[c]}
         /\ home = "durable" => home' = "durable"
<1>. USE DEF TypeOK, storage
<1>1. CASE Create(c)
  BY <1>1 DEF Create
<1>2. CASE Check(c)
  BY <1>2 DEF Check
<1>3. CASE TakeLock(c)
  BY <1>3 DEF TakeLock
<1>4. CASE Recheck(c)
  BY <1>4 DEF Recheck
<1>5. CASE Stage(c)
  BY <1>5 DEF Stage
<1>6. CASE LinkDown(c)
  BY <1>6 DEF LinkDown, Link
<1>7. CASE SyncDown(c)
  BY <1>7 DEF SyncDown, Sync, Between
<1>8. CASE LinkUp(c)
  BY <1>8 DEF LinkUp, Link
<1>9. CASE SyncUp(c)
  BY <1>9 DEF SyncUp, Between
<1>10. CASE Withdraw(c)
  BY <1>10 DEF Withdraw
<1>11. CASE SyncWithdrawal(c)
  BY <1>11 DEF SyncWithdrawal, Sync, Between
<1>12. CASE Fail(c)
  BY <1>12 DEF Fail
<1>13. CASE Unlock(c)
  BY <1>13 DEF Unlock
<1>14. CASE Crash(c)
  BY <1>14 DEF Crash
<1>. QED
  BY <1>1, <1>2, <1>3, <1>4, <1>5, <1>6, <1>7, <1>8, <1>9, <1>10, <1>11, <1>12, <1>13,
     <1>14 DEF Step

LEMMA ScannerEffect ==
  ASSUME TypeOK, NEW c \in Creator, Step(c)
  PROVE  todo' = todo /\ scan' = scan /\ (removed => removed') /\ (Withdraw(c) => removed')
<1>0. Withdraw(c) => removed'
  BY DEF Withdraw
<1>. USE <1>0 DEF TypeOK, scanner
<1>1. CASE Create(c)
  BY <1>1 DEF Create
<1>2. CASE Check(c)
  BY <1>2 DEF Check
<1>3. CASE TakeLock(c)
  BY <1>3 DEF TakeLock
<1>4. CASE Recheck(c)
  BY <1>4 DEF Recheck
<1>5. CASE Stage(c)
  BY <1>5 DEF Stage
<1>6. CASE LinkDown(c)
  BY <1>6 DEF LinkDown, Link
<1>7. CASE SyncDown(c)
  BY <1>7 DEF SyncDown, Sync, Between
<1>8. CASE LinkUp(c)
  BY <1>8 DEF LinkUp, Link
<1>9. CASE SyncUp(c)
  BY <1>9 DEF SyncUp, Between
<1>10. CASE Withdraw(c)
  BY <1>10 DEF Withdraw
<1>11. CASE SyncWithdrawal(c)
  BY <1>11 DEF SyncWithdrawal, Sync, Between
<1>12. CASE Fail(c)
  BY <1>12 DEF Fail
<1>13. CASE Unlock(c)
  BY <1>13 DEF Unlock
<1>14. CASE Crash(c)
  BY <1>14 DEF Crash
<1>. QED
  BY <1>1, <1>2, <1>3, <1>4, <1>5, <1>6, <1>7, <1>8, <1>9, <1>10, <1>11, <1>12, <1>13,
     <1>14 DEF Step

-----------------------------------------------------------------------------
(* The lock of a second.                                                   *)

\* Only its own lock file does a creator remove, and it takes one only where
\* there is none.
LEMMA LockEffect ==
  ASSUME TypeOK, LockInv, NEW c \in Creator, Step(c)
  PROVE  /\ \A b \in Base : Lock(b) \in files =>
              Lock(b) \in files' \/ (pc[c] \in LockedPcs /\ b[1] = base[c][1])
         /\ pc'[c] \in LockedPcs => Lock(base[c]) \in files' /\ base'[c] = base[c]
         /\ pc'[c] \in LockedPcs => pc[c] \in LockedPcs \/ Lock(base[c]) \notin files
<1>0. base[c] \in Base /\ NoBase \in Base
  BY NoBaseType DEF TypeOK
<1>. USE <1>0, Names DEF TypeOK, LockInv, LockedPcs, Goto, Return, Continue, storage
<1>1. CASE Create(c)
  BY <1>1 DEF Create
<1>2. CASE Check(c)
  BY <1>2 DEF Check
<1>3. CASE TakeLock(c)
  BY <1>3 DEF TakeLock
<1>4. CASE Recheck(c)
  BY <1>4 DEF Recheck
<1>5. CASE Stage(c)
  BY <1>5 DEF Stage
<1>6. CASE LinkDown(c)
  BY <1>6 DEF LinkDown, Link
<1>7. CASE SyncDown(c)
  BY <1>7 DEF SyncDown, Sync, Between
<1>8. CASE LinkUp(c)
  BY <1>8 DEF LinkUp, Link
<1>9. CASE SyncUp(c)
  BY <1>9 DEF SyncUp, Between
<1>10. CASE Withdraw(c)
  BY <1>10 DEF Withdraw
<1>11. CASE SyncWithdrawal(c)
  BY <1>11 DEF SyncWithdrawal, Sync, Between
<1>12. CASE Fail(c)
  <2>1. files' = files /\ (pc'[c] \in LockedPcs => pc[c] \in LockedPcs /\ base'[c] = base[c])
    <3>1. CASE pc[c] \in {"check", "lock"}
      BY <1>12, <3>1 DEF Fail
    <3>2. CASE pc[c] \notin {"check", "lock"}
      <4>1. pc[c] \in LockedPcs
        BY <1>12, <3>2 DEF Fail, Pcs
      <4>. QED
        BY <1>12, <3>2, <4>1 DEF Fail
    <3>. QED
      BY <3>1, <3>2
  <2>. QED
    BY <2>1
<1>13. CASE Unlock(c)
  BY <1>13 DEF Unlock
<1>14. CASE Crash(c)
  BY <1>14 DEF Crash
<1>. QED
  BY <1>1, <1>2, <1>3, <1>4, <1>5, <1>6, <1>7, <1>8, <1>9, <1>10, <1>11, <1>12, <1>13,
     <1>14 DEF Step

LEMMA LockInvStep == ASSUME TypeOK, LockInv, NEW c \in Creator, Step(c) PROVE LockInv'
<1>1. ASSUME NEW d \in Creator \ {c}, pc'[d] \in LockedPcs
      PROVE  /\ Lock(base'[d]) \in files'
             /\ pc'[c] \in LockedPcs => base'[c][1] # base'[d][1]
  <2>1. pc[d] \in LockedPcs /\ base'[d] = base[d] /\ base[d] \in Base /\ base[c] \in Base
    BY <1>1, Frame DEF TypeOK
  <2>2. Lock(base[d]) \in files /\ (pc[c] \in LockedPcs => base[c][1] # base[d][1])
    BY <2>1 DEF LockInv
  <2>3. Lock(base[d]) \in files'
    BY <2>1, <2>2, LockEffect
  <2>4. ASSUME pc'[c] \in LockedPcs PROVE base'[c][1] # base'[d][1]
    <3>1. base'[c] = base[c] /\ (pc[c] \in LockedPcs \/ Lock(base[c]) \notin files)
      BY <2>4, LockEffect
    <3>2. Lock(base[c]) \notin files => base[c][1] # base[d][1]
      BY <2>1, <2>2, Names
    <3>. QED
      BY <2>1, <2>2, <3>1, <3>2
  <2>. QED
    BY <2>1, <2>3, <2>4
<1>2. pc'[c] \in LockedPcs => Lock(base'[c]) \in files'
  BY LockEffect
<1>3. ASSUME NEW d \in Creator \ {c}, NEW e \in Creator \ {c}, d # e,
             pc'[d] \in LockedPcs, pc'[e] \in LockedPcs
      PROVE  base'[d][1] # base'[e][1]
  BY <1>3, Frame DEF LockInv
<1>. QED
  BY <1>1, <1>2, <1>3 DEF LockInv

-----------------------------------------------------------------------------
(* Pairs.                                                                  *)

LEMMA PairInvStep ==
  ASSUME TypeOK, PairInv, NEW c \in Creator, OwnPair(c), Step(c) PROVE PairInv'
<1>. USE DEF PairInv
<1>1. \A b \in Base : Down(b) \in disk' => Down(b) \in files'
  BY FilesEffect, DiskEffect
<1>2. ASSUME NEW b \in Base, Up(b) \in files' \/ Up(b) \in disk'
      PROVE  /\ Down(b) \in files' /\ Down(b) \in disk'
             /\ Up(b) \in whole' /\ Down(b) \in whole'
  <2>1. (Up(b) \in files \/ Up(b) \in disk) \/ (LinkUp(c) /\ b = base[c])
    BY <1>2, FilesEffect, DiskEffect
  <2>2. Down(b) \in files /\ Down(b) \in disk /\ Up(b) \in whole /\ Down(b) \in whole
    <3>1. CASE Up(b) \in files \/ Up(b) \in disk
      BY <3>1
    <3>2. CASE LinkUp(c) /\ b = base[c]
      BY <3>2 DEF LinkUp, OwnPair, LinkedPcs
    <3>. QED
      BY <2>1, <3>1, <3>2
  <2>. QED
    BY <2>2, FilesEffect, DiskEffect
<1>3. ASSUME NEW b \in Base, NEW o \in Base, b[1] = o[1], Down(b) \in files', Down(o) \in files'
      PROVE  b = o
  <2>1. CASE Down(b) \in files /\ Down(o) \in files
    BY <1>3, <2>1
  <2>2. CASE LinkDown(c) /\ (b = base[c] \/ o = base[c])
    BY <1>3, <2>2, FilesEffect DEF LinkDown, OwnPair
  <2>. QED
    BY <1>3, <2>1, <2>2, FilesEffect
<1>. QED
  BY <1>1, <1>2, <1>3

\* What a creator knows of its pair after its own step.
LEMMA OwnStep ==
  ASSUME TypeOK, PairInv, LockInv, KeptInv, NEW c \in Creator, OwnPair(c), Step(c)
  PROVE  OwnPair(c)'
<1>0. base[c] \in Base /\ Pcs = {"idle", "check", "lock", "recheck", "stage", "linkDown",
        "syncDown", "linkUp", "syncUp", "withdraw", "syncWithdrawal", "unlock"}
  BY DEF TypeOK, Pcs
<1>. USE <1>0, Names DEF TypeOK, OwnPair, LinkedPcs, Goto, Return, Continue, storage
<1>1. CASE Create(c)
  BY <1>1 DEF Create
<1>2. CASE Check(c)
  BY <1>2 DEF Check
<1>3. CASE TakeLock(c)
  BY <1>3 DEF TakeLock
<1>4. CASE Recheck(c)
  BY <1>4 DEF Recheck, TimestampAvailable
<1>5. CASE Stage(c)
  BY <1>5 DEF Stage
<1>6. CASE LinkDown(c)
  <2>1. Down(base[c]) \notin files /\ base[c] \notin kept
    BY <1>6 DEF LinkDown, PairInv, KeptInv
  <2>. QED
    BY <1>6, <2>1 DEF LinkDown, Link
<1>7. CASE SyncDown(c)
  BY <1>7 DEF SyncDown, Sync, Between
<1>8. CASE LinkUp(c)
  BY <1>8 DEF LinkUp, Link
<1>9. CASE SyncUp(c)
  BY <1>9 DEF SyncUp, Between
<1>10. CASE Withdraw(c)
  BY <1>10 DEF Withdraw
<1>11. CASE SyncWithdrawal(c)
  BY <1>11 DEF SyncWithdrawal, Sync, Between
<1>12. CASE Fail(c)
  BY <1>12 DEF Fail
<1>13. CASE Unlock(c)
  BY <1>13 DEF Unlock
<1>14. CASE Crash(c)
  BY <1>14 DEF Crash
<1>. QED
  BY <1>1, <1>2, <1>3, <1>4, <1>5, <1>6, <1>7, <1>8, <1>9, <1>10, <1>11, <1>12, <1>13,
     <1>14 DEF Step

\* It is not disturbed by the step of another one, whose second is another one.
LEMMA OtherStep ==
  ASSUME TypeOK, PairInv, LockInv, NEW c \in Creator, Step(c),
         NEW d \in Creator \ {c}, OwnPair(d)
  PROVE  OwnPair(d)'
<1>1. pc'[d] = pc[d] /\ base'[d] = base[d] /\ ok'[d] = ok[d] /\ base[d] \in Base
      /\ base[c] \in Base
  BY Frame DEF TypeOK
<1>2. CASE pc[d] \notin LockedPcs
  BY <1>1, <1>2 DEF OwnPair, LinkedPcs, LockedPcs
<1>3. CASE pc[d] \in LockedPcs
  <2>1. pc[c] \in LockedPcs => base[c][1] # base[d][1]
    BY <1>3 DEF LockInv
  <2>2. \A o \in Base : o[1] = base[d][1] /\ Down(o) \in files' => Down(o) \in files
    BY <2>1, FilesEffect DEF LinkDown, LockedPcs
  <2>3. Up(base[d]) \in files => Up(base[d]) \in files'
    BY <1>1, <2>1, FilesEffect DEF Withdraw, LockedPcs
  <2>4. base[d] \in kept' => base[d] \in kept
    BY <1>1, <2>1, KeptEffect DEF Unlock, LockedPcs
  <2>5. Down(base[d]) \in files => Down(base[d]) \in files'
    BY <1>1, FilesEffect
  <2>6. /\ Down(base[d]) \in files /\ Down(base[d]) \in disk => Down(base[d]) \in disk'
        /\ Up(base[d]) \in files /\ Up(base[d]) \in disk => Up(base[d]) \in disk'
        /\ Down(base[d]) \in whole => Down(base[d]) \in whole'
        /\ Up(base[d]) \in whole => Up(base[d]) \in whole'
    BY DiskEffect
  <2>. QED
    BY <1>1, <2>2, <2>3, <2>4, <2>5, <2>6 DEF OwnPair, LinkedPcs
<1>. QED
  BY <1>2, <1>3

LEMMA KeptInvStep ==
  ASSUME TypeOK, PairInv, KeptInv, NEW c \in Creator, OwnPair(c), Step(c) PROVE KeptInv'
<1>1. ASSUME NEW b \in kept' PROVE Up(b) \in files' /\ Up(b) \in disk'
  <2>1. b \in Base /\ base[c] \in Base
    BY <1>1, StepType DEF TypeOK
  <2>2. Up(b) \in files /\ Up(b) \in disk
    BY <1>1, KeptEffect DEF KeptInv, OwnPair
  <2>3. ~(Withdraw(c) /\ b = base[c])
    BY <1>1, KeptEffect DEF Withdraw, OwnPair, LinkedPcs, Unlock
  <2>. QED
    BY <2>1, <2>2, <2>3, FilesEffect, DiskEffect
<1>2. kept' # {} => home' = "durable"
  BY KeptEffect DEF KeptInv
<1>. QED
  BY <1>1, <1>2 DEF KeptInv

LEMMA ScanInvStep ==
  ASSUME TypeOK, ScanInv, NEW c \in Creator, Step(c) PROVE ScanInv'
<1>1. todo' = todo /\ scan' = scan /\ (removed => removed') /\ (Withdraw(c) => removed')
  BY ScannerEffect
<1>. QED
  BY <1>1, FilesEffect DEF ScanInv, TypeOK

-----------------------------------------------------------------------------
(* The other steps, and the theorems.                                      *)

LEMMA PowerLossStep == ASSUME TypeOK, DirInv, PowerLoss PROVE DirInv'
<1>1. /\ disk' = files' /\ whole' = whole \cap files' /\ scan' = "idle" /\ kept' = kept
      /\ \A c \in Creator : pc'[c] = "idle" /\ ~ok'[c]
  BY DEF PowerLoss
<1>2. files' \subseteq files \cup disk /\ (files \cap disk \subseteq files' \/ files' = {})
  BY DEF PowerLoss, Between
<1>3. kept # {} => home' = "durable" /\ files \cap disk \subseteq files'
  BY DEF PowerLoss, Between, DirInv, KeptInv
<1>4. PairInv'
  BY <1>1, <1>2 DEF DirInv, PairInv
<1>5. LockInv' /\ OwnInv' /\ ScanInv'
  BY <1>1 DEF LockInv, LockedPcs, OwnInv, OwnPair, LinkedPcs, ScanInv
<1>6. KeptInv'
  BY <1>1, <1>3 DEF DirInv, KeptInv
<1>. QED
  BY <1>4, <1>5, <1>6 DEF DirInv

LEMMA ScanStepStep == ASSUME TypeOK, DirInv, ScanStep PROVE DirInv'
<1>1. UNCHANGED <<storage, creators, kept>>
  BY DEF ScanStep, ReadDir, Inspect, EndScan
<1>2. PairInv' /\ LockInv' /\ OwnInv' /\ KeptInv'
  BY <1>1 DEF DirInv, PairInv, LockInv, OwnInv, OwnPair, KeptInv, storage, creators
<1>3. ScanInv'
  <2>1. CASE ReadDir
    BY <1>1, <2>1 DEF ReadDir, ScanInv, storage
  <2>2. CASE Inspect
    BY <1>1, <2>2 DEF Inspect, DirInv, ScanInv, PairInv, TypeOK, storage
  <2>3. CASE EndScan
    BY <2>3 DEF EndScan, ScanInv
  <2>. QED
    BY <2>1, <2>2, <2>3 DEF ScanStep
<1>. QED
  BY <1>2, <1>3 DEF DirInv

LEMMA DirInvStep == TypeOK /\ DirInv /\ [Next]_vars => DirInv'
<1>. SUFFICES ASSUME TypeOK, DirInv, [Next]_vars PROVE DirInv'
  OBVIOUS
<1>1. ASSUME NEW c \in Creator, Step(c) PROVE DirInv'
  <2>1. OwnPair(c) /\ \A d \in Creator : OwnPair(d)
    BY DEF DirInv, OwnInv
  <2>2. OwnInv'
    BY <1>1, <2>1, OwnStep, OtherStep DEF DirInv, OwnInv
  <2>. QED
    BY <1>1, <2>1, <2>2, PairInvStep, LockInvStep, KeptInvStep, ScanInvStep DEF DirInv
<1>2. CASE UNCHANGED vars
  BY <1>2 DEF vars, DirInv, PairInv, LockInv, OwnInv, OwnPair, KeptInv, ScanInv
<1>. QED
  BY <1>1, <1>2, ScanStepStep, PowerLossStep DEF Next, Step, ScanStep

LEMMA DirInvHolds == Spec => []DirInv
<1>1. Init => DirInv
  BY DEF Init, DirInv, PairInv, LockInv, LockedPcs, OwnInv, OwnPair, LinkedPcs, KeptInv,
     ScanInv
<1>. QED
  BY <1>1, TypeCorrect, DirInvStep, PTL DEF Spec

\* No crash, power loss or failed sync, at whatever call, leaves an up file that
\* a scan would take for a migration without its down file or its bytes.
THEOREM NeverUpOnlyHolds == Spec => []NeverUpOnly
<1>1. DirInv => NeverUpOnly
  BY DEF DirInv, PairInv, NeverUpOnly
<1>. QED
  BY <1>1, DirInvHolds, PTL

\* No two migrations share a second, whoever creates them and dies meanwhile.
THEOREM OneNameASecondHolds == Spec => []OneNameASecond
<1>1. DirInv => OneNameASecond
  BY DEF DirInv, PairInv, OneNameASecond
<1>. QED
  BY <1>1, DirInvHolds, PTL

\* Both files of a migration reported created survive every crash and power
\* loss, bytes included.
THEOREM CreatedPairsStayHolds == Spec => []CreatedPairsStay
<1>1. TypeOK /\ DirInv => CreatedPairsStay
  BY DEF TypeOK, DirInv, PairInv, KeptInv, CreatedPairsStay
<1>. QED
  BY <1>1, DirInvHolds, TypeCorrect, PTL

\* A scan fails over a creation only where an up file was withdrawn.
THEOREM ScanMeetsPairsHolds == Spec => []ScanMeetsPairs
<1>1. DirInv => ScanMeetsPairs
  BY DEF DirInv, ScanInv, ScanMeetsPairs
<1>. QED
  BY <1>1, DirInvHolds, PTL
=============================================================================
