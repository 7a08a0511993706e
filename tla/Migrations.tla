----------------------------- MODULE Migrations -----------------------------
(***************************************************************************)
(* The schema when processes start: apply_migrations of                    *)
(* src/zero/persistence/migrations.py on one SQLite file.                  *)
(*                                                                         *)
(* The server, each command and the consoles apply what is pending when    *)
(* they start, at once and from different versions of the code, and may be *)
(* killed at any step.  A migration is applied in a transaction of its own *)
(* with the row that records it.                                           *)
(***************************************************************************)
EXTENDS Integers, Sequences

CONSTANTS
  Starters,   \* processes
  ShippedBy,  \* ShippedBy[p]: how many migrations the code of p ships
  MaxFailed   \* BOUND: starts that are killed or fail

ASSUME MigrationLimits ==
  /\ MaxFailed \in Nat
  /\ ShippedBy \in [Starters -> Nat]

VARIABLES
  schema,   \* the migrations whose statements took effect, in that order
  ledger,   \* schema_migrations: the ids it holds
  pending,  \* the statements of the open transaction, <<>> without one
  starter,  \* per process: what it does, the ids it has read and the next file
  failed    \* starts that were killed or failed

migrationVars == <<schema, ledger, pending, starter, failed>>

-----------------------------------------------------------------------------
Fresh == [pc |-> "off", applied |-> {}, file |-> 1]

MigrationsInit ==
  /\ schema = <<>> /\ ledger = {} /\ pending = <<>> /\ failed = 0
  /\ starter = [p \in Starters |-> Fresh]

Steps(p, pc) == starter' = [starter EXCEPT ![p].pc = pc]

\* The file after one that is applied, or was read as applied.
NextFile(p) == starter' = [starter EXCEPT ![p].pc = "files", ![p].file = @ + 1]

\* SQLite's write lock: whoever is in a transaction has it.
Unlocked == \A p \in Starters : starter[p].pc \notin {"fenced", "running", "ran"}

-----------------------------------------------------------------------------
\* The table is there or created; a row without a file of this code, or whose
\* file was changed, stops the start.
ReadLedger(p) ==
  /\ starter[p].pc = "off"
  /\ starter' = [starter EXCEPT ![p] =
       IF \E f \in ledger : f > ShippedBy[p]
       THEN [Fresh EXCEPT !.pc = "refused"]
       ELSE [pc |-> "files", applied |-> ledger, file |-> 1]]
  /\ UNCHANGED <<schema, ledger, pending, failed>>

Skip(p) ==
  /\ starter[p].pc = "files" /\ starter[p].file \in starter[p].applied
  /\ NextFile(p)
  /\ UNCHANGED <<schema, ledger, pending, failed>>

IsUp(p) ==
  /\ starter[p].pc = "files" /\ starter[p].file > ShippedBy[p]
  /\ Steps(p, "up")
  /\ UNCHANGED <<schema, ledger, pending, failed>>

\* BEGIN IMMEDIATE, "the writer fence"
TakeFence(p) ==
  /\ starter[p].pc = "files"
  /\ starter[p].file \in (1 .. ShippedBy[p]) \ starter[p].applied
  /\ Unlocked
  /\ Steps(p, "fenced")
  /\ UNCHANGED <<schema, ledger, pending, failed>>

\* MUTANT of Recorded: the ledger is not read again behind the fence.
RecordedWhenRead(p) == starter[p].file \in starter[p].applied

Recorded(p) == starter[p].file \in ledger

Reread(p) ==
  /\ starter[p].pc = "fenced"
  /\ IF Recorded(p) THEN NextFile(p) ELSE Steps(p, "running")
  /\ UNCHANGED <<schema, ledger, pending, failed>>

\* What exists already is passed over, but a migration also moves rows.
RunStatements(p) ==
  /\ starter[p].pc = "running"
  /\ pending' = <<starter[p].file>>
  /\ Steps(p, "ran")
  /\ UNCHANGED <<schema, ledger, failed>>

CommitMigration(p) ==
  /\ starter[p].pc = "ran"
  /\ schema' = schema \o pending
  /\ ledger' = ledger \cup {starter[p].file}
  /\ pending' = <<>>
  /\ NextFile(p)
  /\ UNCHANGED failed

\* A statement or the fence fails (MigrationError), or the process is killed.
StartFails(p) ==
  /\ starter[p].pc \notin {"off", "refused"} /\ failed < MaxFailed
  /\ failed' = failed + 1
  /\ pending' = IF starter[p].pc \in {"running", "ran"} THEN <<>> ELSE pending
  /\ starter' = [starter EXCEPT ![p] = Fresh]
  /\ UNCHANGED <<schema, ledger>>

MigrationsNext == \E p \in Starters :
  \/ ReadLedger(p) \/ Skip(p) \/ IsUp(p) \/ TakeFence(p) \/ Reread(p)
  \/ RunStatements(p) \/ CommitMigration(p) \/ StartFails(p)

-----------------------------------------------------------------------------
\* PROPERTY.  "Another process may have applied this migration while this worker
\* waited" (migrations.py:266): however many processes of whatever versions start
\* at once or are killed, every migration takes effect once and in order, the
\* ledger names just those that did, and no process is up on a schema older than
\* its code.
MigratedOnce ==
  /\ schema = [i \in 1 .. Len(schema) |-> i]
  /\ ledger = 1 .. Len(schema)
  /\ \A p \in Starters : starter[p].pc = "up" => Len(schema) >= ShippedBy[p]
=============================================================================
