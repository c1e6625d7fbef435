------------------------------- MODULE Ledger -------------------------------
(***************************************************************************)
(* What lamigrate promises of a tracking table (architecture.md sections   *)
(* 5.2, 5.7 and 9.1), with no runners, sessions, locks or files: one row   *)
(* per migration, and at most one migration of the scope in flight.  The   *)
(* schema changes only under a row that says so, a clean row is written    *)
(* only when the schema agrees with it, and only an operator may decide    *)
(* otherwise.  The module Migrator implements this module.                 *)
(***************************************************************************)
CONSTANTS
  Mig,          \* the migrations
  Baseline,     \* those that an import recorded, never rolled back
  Content       \* what a migration may consist of

VARIABLES
  row,          \* the state of a migration's row
  recorded,     \* the content the row was applied with
  schema,       \* what the database schema shows of a migration
  overridden    \* migrations whose row an operator made differ from the schema

vars == <<row, recorded, schema, overridden>>

NoEffect == "none"
Effect == Content \cup {NoEffect, "partial"}
ApplyDirty == {"applying", "apply_failed"}
RollbackDirty == {"rolling_back", "rollback_failed"}
Dirty == ApplyDirty \cup RollbackDirty

Init ==
  /\ \E c \in Content :
       /\ recorded = [m \in Mig |-> IF m \in Baseline THEN c ELSE "missing"]
       /\ schema = [m \in Mig |-> IF m \in Baseline THEN c ELSE NoEffect]
  /\ row = [m \in Mig |-> IF m \in Baseline THEN "applied" ELSE "absent"]
  /\ overridden = {}

\* Nothing of the scope is unresolved.
Quiet == \A m \in Mig : row[m] \notin Dirty

Become(m, s) ==
  /\ row' = [row EXCEPT ![m] = s]
  /\ recorded' = IF s = "absent" THEN [recorded EXCEPT ![m] = "missing"] ELSE recorded
  /\ UNCHANGED schema

BeginApply(m) ==
  /\ Quiet /\ row[m] = "absent"
  /\ row' = [row EXCEPT ![m] = "applying"]
  /\ \E c \in Content : recorded' = [recorded EXCEPT ![m] = c]
  /\ UNCHANGED <<schema, overridden>>

BeginRollback(m) ==
  /\ Quiet /\ row[m] = "applied" /\ m \notin Baseline
  /\ Become(m, "rolling_back")
  /\ UNCHANGED overridden

\* Migration SQL, or an operator's hand.
Change(m) ==
  /\ row[m] \in Dirty
  /\ \E e \in Effect : schema' = [schema EXCEPT ![m] = e]
  /\ UNCHANGED <<row, recorded, overridden>>

Applied(m) ==
  /\ row[m] = "applying" /\ schema[m] = recorded[m]
  /\ Become(m, "applied")
  /\ UNCHANGED overridden

RolledBack(m) ==
  /\ row[m] = "rolling_back"
  /\ schema[m] = NoEffect \/ m \in overridden
  /\ Become(m, "absent")
  /\ UNCHANGED overridden

Failed(m) ==
  /\ \/ row[m] = "applying" /\ Become(m, "apply_failed")
     \/ row[m] = "rolling_back" /\ Become(m, "rollback_failed")
  /\ UNCHANGED overridden

\* The operator settles a failed attempt the way the schema shows.
Settle(m) ==
  /\ row[m] \in ApplyDirty
  /\ \/ schema[m] = recorded[m] /\ Become(m, "applied")
     \/ schema[m] = NoEffect /\ Become(m, "absent")
  /\ UNCHANGED overridden

\* The operator decides about the row and not by the schema.
Override(m) ==
  /\ \/ row[m] \in RollbackDirty /\ (Become(m, "applied") \/ Become(m, "absent"))
     \/ row[m] = "applied" /\ Become(m, "absent")
  /\ overridden' \in {overridden \cup {m}, overridden \ {m}}
  /\ m \notin overridden' => row'[m] = "absent" /\ schema[m] = NoEffect

Next ==
  \E m \in Mig : \/ BeginApply(m) \/ BeginRollback(m) \/ Change(m)
                 \/ Applied(m) \/ RolledBack(m) \/ Failed(m)
                 \/ Settle(m) \/ Override(m)

Spec == Init /\ [][Next]_vars
=============================================================================
