----------------------------- MODULE Migrations -----------------------------
(***************************************************************************)
(* The migration runner and its ledger, on a database of any past.         *)
(*                                                                         *)
(* A migration is the set of the objects its statements make.  An object   *)
(* that exists may be partial (a table without a later column, a           *)
(* constraint with another rule), left by a run of before the ledger.  A   *)
(* file runs in one transaction; when a statement finds its object there,  *)
(* it is rolled back and run again, statement by statement.  The schema    *)
(* is compared with the manifest before a file is recorded, if the         *)
(* manifest has an entry for it.                                           *)
(***************************************************************************)
EXTENDS Naturals, FiniteSets

CONSTANTS
  LastFile,   \* MIGRATION_FILES are 1 .. LastFile, in order
  Objects,    \* tables, columns, constraints, indexes, functions, triggers
  Home,       \* the file that makes each
  Repeatable, \* made IF NOT EXISTS: no error when there, whatever it is like
  Replacing,  \* made by CREATE OR REPLACE, or after DROP IF EXISTS
  Listed,     \* files with an entry in migrationSchemaManifest.json
  Runners     \* runs of scripts/migrate.ts

Files == 1..LastFile

(* What is assumed of the constants. *)
MigrationsAssumption ==
  /\ LastFile \in Nat \ {0}
  /\ Home \in [Objects -> Files]
  /\ Repeatable \subseteq Objects /\ Replacing \subseteq Objects \ Repeatable
  /\ Listed \subseteq Files

VARIABLES
  object,  \* the schema
  ledger,  \* rows of schema_migrations
  runner   \* where each runner is, and what it read of the ledger

vars == <<object, ledger, runner>>

Idle == [step |-> "idle", file |-> 1, applied |-> {}]

RunnerStates == [step : {"idle", "next", "again", "ended"}, file : 1..(LastFile + 1),
                 applied : SUBSET Files]

(* Every object, row and runner has its type. *)
TypeOK ==
  /\ object \in [Objects -> {"absent", "partial", "whole"}]
  /\ ledger \subseteq Files
  /\ runner \in [Runners -> RunnerStates]

\* A fresh database, one the runner of before the ledger migrated, or one it left half-way.
Init ==
  /\ object \in [Objects -> {"absent", "partial", "whole"}]
  /\ ledger = {}
  /\ runner = [r \in Runners |-> Idle]

At(r, step) == runner[r].step = step
Goes(r, step, file) == runner' = [runner EXCEPT ![r].step = step, ![r].file = file]
Makes(f) == {o \in Objects : Home[o] = f}

-----------------------------------------------------------------------------

\* The ledger is read once, for the whole run.
Begin(r) ==
  /\ At(r, "idle")
  /\ runner' = [runner EXCEPT ![r] = [step |-> "next", file |-> 1, applied |-> ledger]]
  /\ UNCHANGED <<object, ledger>>

Skip(r) ==
  /\ At(r, "next") /\ runner[r].file \in runner[r].applied
  /\ Goes(r, "next", runner[r].file + 1)
  /\ UNCHANGED <<object, ledger>>

\* Statements that raise one of DUPLICATE_OBJECT_SQLSTATES.
Raises(f) ==
  \E o \in Makes(f) : object[o] # "absent" /\ o \notin Repeatable /\ o \notin Replacing

\* What a file leaves, a duplicate rolled back to its savepoint.
After(f) ==
  [o \in Objects |-> IF o \in Makes(f) /\ (object[o] = "absent" \/ o \in Replacing)
                     THEN "whole" ELSE object[o]]

\* (AnySchema, a mutated form, takes a file for complete because its statements succeeded.)
AnySchema(schema, f) == TRUE

\* schemaSatisfies(actual, required), for a file the manifest has.
SchemaSatisfies(schema, f) == f \in Listed => \A o \in Makes(f) : schema[o] = "whole"

Runs(r) ==
  /\ runner[r].file <= LastFile
  /\ SchemaSatisfies(After(runner[r].file), runner[r].file)
  /\ object' = After(runner[r].file)
  /\ ledger' = ledger \cup {runner[r].file}
  /\ Goes(r, "next", runner[r].file + 1)

\* The whole file; a row another runner inserted meanwhile fails the transaction.
RunWholeFile(r) ==
  /\ At(r, "next") /\ runner[r].file \notin runner[r].applied \cup ledger
  /\ ~Raises(runner[r].file)
  /\ Runs(r)

FindDuplicate(r) ==
  /\ At(r, "next") /\ runner[r].file \in Files \ runner[r].applied
  /\ Raises(runner[r].file)
  /\ Goes(r, "again", runner[r].file)
  /\ UNCHANGED <<object, ledger>>

VerifyOrComplete(r) ==
  /\ At(r, "again")
  /\ Runs(r)

\* A statement fails, the schema does not satisfy, the process dies, or all is done.
End(r) ==
  /\ At(r, "next") \/ At(r, "again")
  /\ Goes(r, "ended", runner[r].file)
  /\ UNCHANGED <<object, ledger>>

\* The next deployment runs it again.
Restart(r) ==
  /\ At(r, "ended")
  /\ runner' = [runner EXCEPT ![r] = Idle]
  /\ UNCHANGED <<object, ledger>>

Next == \E r \in Runners :
  \/ Begin(r) \/ Skip(r) \/ RunWholeFile(r) \/ FindDuplicate(r)
  \/ VerifyOrComplete(r) \/ End(r) \/ Restart(r)

Spec == Init /\ [][Next]_vars

-----------------------------------------------------------------------------
(* A migration of the manifest that is recorded left every object it       *)
(* makes, as it makes it, whatever an earlier run had left there; and the  *)
(* migrations before any recorded one are recorded too (migrate.ts:295).   *)
RecordedIsComplete ==
  \A f \in ledger :
    1..f \subseteq ledger /\ (f \in Listed => \A o \in Makes(f) : object[o] = "whole")

-----------------------------------------------------------------------------
(* What the steps keep, and rely on.                                       *)

\* What a runner took for applied is, and so is every file before the one it is at.
BehindIsRecorded ==
  \A r \in Runners :
    /\ runner[r].applied \subseteq ledger
    /\ runner[r].step \in {"next", "again"} => \A f \in Files : f < runner[r].file => f \in ledger

Inv == TypeOK /\ BehindIsRecorded /\ RecordedIsComplete
=============================================================================
