-------------------------- MODULE ContextVersions --------------------------
(***************************************************************************)
(* The context of one execution and its compaction: compact and            *)
(* should_compact of src/zero/app/compaction_service.py, the builder of    *)
(* retrieval_service.py, the rows of context_repository.py, and            *)
(* recover_partial_compaction of observability_service.py.                 *)
(*                                                                         *)
(* The execution's tasks run side by side.  Each builds a context and, when*)
(* the active one is too large, has a summary written and replaces it, in  *)
(* six transactions between which others build, compact or crash.          *)
(***************************************************************************)
EXTENDS Integers, Sequences

CONSTANTS
  Tasks,        \* tasks of the execution that run at once
  ThrashLimit,  \* NO_THRASH_MAX_CONSECUTIVE
  MaxVersions,  \* BOUND: context versions
  MaxRecords,   \* BOUND: compaction records
  MaxRestarts   \* BOUND: restarts

ASSUME CompactionLimits ==
  /\ ThrashLimit \in Nat \ {0}
  /\ MaxVersions \in Nat \ {0} /\ MaxRecords \in Nat /\ MaxRestarts \in Nat

VARIABLES
  versions,  \* context_versions, numbered without gaps: who wrote it, its size
  active,    \* the active version, 0 before the first
  records,   \* compaction_records in the order of their creation
  compact,   \* per task, its call of compact
  recovery,  \* recover_partial_compaction: the records it has still to look at
  restarts   \* restarts so far

contextVars == <<versions, active, records, compact, recovery, restarts>>

-----------------------------------------------------------------------------
\* A version over the threshold is large; one that is not 10% smaller than a
\* large one is large too.
Sizes == {"small", "large"}
NotCompacting == [pc |-> "work", source |-> 0, thrash |-> 0, record |-> 0]
NotRecovering == [on |-> FALSE, todo |-> {}]
Record(t, target, state, thrash) ==
  [source |-> compact[t].source, target |-> target, state |-> state, thrash |-> thrash]

ContextInit ==
  /\ versions = <<>> /\ active = 0 /\ records = <<>>
  /\ compact = [t \in Tasks |-> NotCompacting]
  /\ recovery = NotRecovering /\ restarts = 0

\* At a restart recovery comes before the workers.
Serving == ~recovery.on
At(t, pc) == Serving /\ compact[t].pc = pc
Go(t, pc) == compact' = [compact EXCEPT ![t].pc = pc]
\* What compact raises its caller swallows.
Leave(t) == compact' = [compact EXCEPT ![t] = NotCompacting]

\* build_context: count, insert and activate in one transaction.
Build(t) ==
  /\ At(t, "work") /\ Len(versions) < MaxVersions
  /\ \E size \in Sizes : versions' = Append(versions, [by |-> 0, size |-> size])
  /\ active' = Len(versions) + 1
  /\ UNCHANGED <<records, compact, recovery, restarts>>

ShouldCompact(t) ==
  /\ At(t, "work") /\ active # 0 /\ versions[active].size = "large"
  /\ Len(records) < MaxRecords
  /\ Go(t, "source")
  /\ UNCHANGED <<versions, active, records, recovery, restarts>>

ReadSource(t) ==
  /\ At(t, "source")
  /\ compact' = [compact EXCEPT ![t].pc = "latest", ![t].source = active]
  /\ UNCHANGED <<versions, active, records, recovery, restarts>>

\* How many compactions in a row, the latest included, took nothing off.
Thrash ==
  LET r == records[Len(records)] IN
  IF records # <<>> /\ r.state = "activated"
       /\ versions[r.source].size = "large" /\ versions[r.target].size = "large"
    THEN r.thrash + 1 ELSE 0

ReadLatest(t) ==
  /\ At(t, "latest")
  /\ compact' = [compact EXCEPT ![t].pc = IF Thrash >= ThrashLimit THEN "block" ELSE "record",
                                ![t].thrash = Thrash]
  /\ UNCHANGED <<versions, active, records, recovery, restarts>>

\* UNIQUE (execution_id, target_context_version).
Taken(target) == \E i \in DOMAIN records : records[i].target = target

\* The record of a compaction that is refused names its source as its target.
Block(t) ==
  LET target == compact[t].source IN
  /\ At(t, "block")
  /\ records' = IF Taken(target) THEN records
                ELSE Append(records, Record(t, target, "no_thrash_blocked", compact[t].thrash))
  /\ Leave(t)
  /\ UNCHANGED <<versions, active, recovery, restarts>>

\* The transcript is stored, a summary is written and validated, or not; the
\* record is inserted.
InsertRecord(t) ==
  LET target == compact[t].source + 1 IN
  /\ At(t, "record")
  /\ \/ /\ ~Taken(target)
        /\ records' = Append(records, Record(t, target, "pre_flush", compact[t].thrash))
        /\ compact' = [compact EXCEPT ![t].pc = "version", ![t].record = Len(records) + 1]
     \/ Leave(t) /\ UNCHANGED records
  /\ UNCHANGED <<versions, active, recovery, restarts>>

\* UNIQUE (execution_id, version); what fails here leaves the record as it is.
InsertVersion(t) ==
  /\ At(t, "version")
  /\ IF compact[t].source = Len(versions)
       THEN /\ \E size \in Sizes : versions' = Append(versions, [by |-> compact[t].record, size |-> size])
            /\ Go(t, "commit")
       ELSE Leave(t) /\ UNCHANGED versions
  /\ UNCHANGED <<active, records, recovery, restarts>>

SetState(t, state) == records' = [records EXCEPT ![compact[t].record].state = state]

Commit(t) ==
  /\ At(t, "commit") /\ SetState(t, "committed") /\ Go(t, "activate")
  /\ UNCHANGED <<versions, active, recovery, restarts>>

ActivateContextVersion(t) ==
  /\ At(t, "activate") /\ Go(t, "activated")
  /\ active' = compact[t].source + 1
  /\ UNCHANGED <<versions, records, recovery, restarts>>

Activated(t) ==
  /\ At(t, "activated") /\ SetState(t, "activated") /\ Leave(t)
  /\ UNCHANGED <<versions, active, recovery, restarts>>

-----------------------------------------------------------------------------
Open(r) == r.state \in {"pre_flush", "committed"}
OpenRecords == {i \in DOMAIN records : Open(records[i])}

Restart ==
  /\ restarts < MaxRestarts
  /\ restarts' = restarts + 1
  /\ compact' = [t \in Tasks |-> NotCompacting]
  /\ recovery' = [on |-> TRUE, todo |-> OpenRecords]
  /\ UNCHANGED <<versions, active, records>>

\* MUTANT of Finishable: what a crash interrupted has failed.
FinishableNever(r) == FALSE

Finishable(r) == r.target \in DOMAIN versions /\ r.source = active

\* In the order of their creation.
RecoverRecord ==
  /\ recovery.on
  /\ \E i \in recovery.todo :
       /\ \A j \in recovery.todo : i <= j
       /\ IF Finishable(records[i])
            THEN active' = records[i].target /\ records' = [records EXCEPT ![i].state = "activated"]
            ELSE UNCHANGED active /\ records' = [records EXCEPT ![i].state = "failed"]
       /\ recovery' = [recovery EXCEPT !.todo = @ \ {i}]
  /\ UNCHANGED <<versions, compact, restarts>>

EndRecovery ==
  /\ recovery.on /\ recovery.todo = {}
  /\ recovery' = NotRecovering
  /\ UNCHANGED <<versions, active, records, compact, restarts>>

ContextNext ==
  \/ \E t \in Tasks :
       \/ Build(t) \/ ShouldCompact(t) \/ ReadSource(t) \/ ReadLatest(t) \/ Block(t)
       \/ InsertRecord(t) \/ InsertVersion(t) \/ Commit(t) \/ ActivateContextVersion(t) \/ Activated(t)
  \/ Restart \/ RecoverRecord \/ EndRecovery

-----------------------------------------------------------------------------
\* Between two calls of one task at a time the newest context is the active one:
\* a crash between any two steps leaves nothing behind but what recovery either
\* completes or gives up.
NewestActive ==
  (Serving /\ \A t \in Tasks : compact[t].pc = "work") => active = Len(versions)

=============================================================================
