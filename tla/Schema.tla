------------------------------- MODULE Schema -------------------------------
(***************************************************************************)
(* Opening a SQLite database (src/persistence/sqlite.py, run_migrations of *)
(* src/persistence/migrations.py): every connection brings the schema up   *)
(* to its release's version, one transaction per version, while other      *)
(* processes, of other releases, do the same to the same file.             *)
(*                                                                         *)
(* A version's statements are not idempotent; they count as one change.    *)
(* Inside a process the initialization lock lets one connection upgrade at *)
(* a time, so the upgrade of a process is a single one.                    *)
(***************************************************************************)
EXTENDS Naturals

CONSTANTS
  Processes,  \* processes that open the file
  Latest,     \* LATEST_SCHEMA_VERSION of each process's release
  Nobody      \* holds the write lock when no process does

ASSUME SchemaAssumption ==
  /\ Latest \in [Processes -> Nat \ {0}]
  /\ Nobody \notin Processes

VARIABLES
  applied,  \* times each version's statements took effect
  marks,    \* versions in schema_migrations
  lock,     \* holder of the database's write lock
  upgrade   \* the run_migrations call of each process

schemaVars == <<applied, marks, lock, upgrade>>

Versions == UNION {1..Latest[p] : p \in Processes}

\* todo: the migration the loop has come to; change: what its transaction has
\* done so far.
Upgrade == [todo : Nat, change : {"none", "checked", "altered", "marked"}]

NoUpgrade == [todo |-> 0, change |-> "none"]

SchemaInit ==
  /\ applied = [v \in Versions |-> 0]
  /\ marks = {}
  /\ lock = Nobody
  /\ upgrade = [p \in Processes |-> NoUpgrade]

\* A connection is made and the loop starts at the first migration.
Connect(p) ==
  /\ upgrade' = [upgrade EXCEPT ![p] = [todo |-> 1, change |-> "none"]]
  /\ UNCHANGED <<applied, marks, lock>>

Upgrading(p) == upgrade[p].todo \in 1..Latest[p]

Upgraded(p) == upgrade[p].todo = Latest[p] + 1

\* Variant: the version is looked up before the lock is taken.
CheckVersionUnlocked(p) ==
  /\ Upgrading(p)
  /\ upgrade[p].change = "none"
  /\ upgrade' = [upgrade EXCEPT ![p] =
       IF @.todo \in marks THEN [@ EXCEPT !.todo = @ + 1]
       ELSE [@ EXCEPT !.change = "checked"]]
  /\ UNCHANGED <<applied, marks, lock>>

\* BEGIN IMMEDIATE, then the marker: a version already there is skipped.
CheckVersion(p) ==
  /\ Upgrading(p)
  /\ upgrade[p].change = "none"
  /\ lock = Nobody
  /\ IF upgrade[p].todo \in marks
     THEN /\ upgrade' = [upgrade EXCEPT ![p].todo = @ + 1]
          /\ UNCHANGED lock
     ELSE /\ upgrade' = [upgrade EXCEPT ![p].change = "checked"]
          /\ lock' = p
  /\ UNCHANGED <<applied, marks>>

\* The version's statements, then its marker, inside the transaction.
Alter(p) ==
  /\ \/ /\ upgrade[p].change = "checked"
        /\ upgrade' = [upgrade EXCEPT ![p].change = "altered"]
     \/ /\ upgrade[p].change = "altered"
        /\ upgrade' = [upgrade EXCEPT ![p].change = "marked"]
  /\ UNCHANGED <<applied, marks, lock>>

\* COMMIT: statements and marker take effect at once.
CommitVersion(p) ==
  /\ upgrade[p].change = "marked"
  /\ applied' = [applied EXCEPT ![upgrade[p].todo] = @ + 1]
  /\ marks' = marks \cup {upgrade[p].todo}
  /\ lock' = Nobody
  /\ upgrade' = [upgrade EXCEPT ![p] = [todo |-> @.todo + 1, change |-> "none"]]

\* A statement fails, the lock is not had within the busy timeout, or the
\* process dies: the transaction is rolled back.
Rollback(p) ==
  /\ lock' = IF lock = p THEN Nobody ELSE lock
  /\ upgrade' = [upgrade EXCEPT ![p] = NoUpgrade]
  /\ UNCHANGED <<applied, marks>>

Migrate(p) == CheckVersion(p) \/ Alter(p) \/ CommitVersion(p)

(***************************************************************************)
(* Properties                                                              *)
(***************************************************************************)

\* The calls, the marks and the lock's holder.
SchemaTypeOK ==
  /\ applied \in [Versions -> Nat]
  /\ marks \subseteq Versions
  /\ lock \in Processes \cup {Nobody}
  /\ upgrade \in [Processes -> Upgrade]

\* Whatever dies or fails, and whichever releases upgrade at once: each
\* version's statements have taken effect once if it is marked and never if
\* it is not, and no version is there without the ones before it.
SchemaIsWhole ==
  /\ \A v \in Versions : applied[v] = IF v \in marks THEN 1 ELSE 0
  /\ \A v \in marks : \A u \in 1..v : u \in marks
=============================================================================
