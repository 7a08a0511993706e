--------------------------- MODULE WorkerService ---------------------------
(***************************************************************************)
(* The execution graph of src/zero/app/worker_service.py: the tasks of one *)
(* execution, their attempts and leases, and every handler that moves them.*)
(*                                                                         *)
(* The control plane runs these handlers from several threads and          *)
(* processes at once.  A handler reads the task and the execution first,   *)
(* outside any transaction, checks what it read, and only then opens the   *)
(* transaction that writes.  Each handler is therefore two actions here: a *)
(* Begin that keeps what was read, and a Commit, the atomic transaction,   *)
(* that may run much later.  A handler whose reads are all inside its      *)
(* transaction (recover_after_restart) is one action.                      *)
(*                                                                         *)
(* Tasks are numbered in the order they are listed, because                *)
(* _recompute_readiness works in place, in that order.                     *)
(***************************************************************************)
EXTENDS Integers, FiniteSets

CONSTANTS
  N,             \* number of tasks in the graph
  Workers,       \* threads inside AgentRuntime.run_ready_tasks
  Operators,     \* callers of the other operations: REST requests, scheduler ticks
  MaxAttempts,   \* BOUND: attempts a task can have in the model
  WorkerBudget,  \* task_max_attempts the WorkerService was built with (0: no retry)
  SchedBudget,   \* task_max_attempts the SchedulerService uses now
  Calls          \* the optional operations the callers of this instance use

ASSUME GraphNotEmpty == N \in Nat \ {0}                 \* _validate_specs
ASSUME BoundPositive == MaxAttempts \in Nat \ {0}
ASSUME BudgetsAreNat == WorkerBudget \in Nat /\ SchedBudget \in Nat
ASSUME KnownCalls ==
  Calls \subseteq {"cancel_execution", "cancel_task", "reconcile", "recover"}

VARIABLES
  exec,    \* executions.state, or "none" while no row exists
  deps,    \* task_dependencies: the tasks a task waits for
  task,    \* tasks.state, "blocked" split by its blocker_reason
  att,     \* task_attempts.state, "running" split by its lease
  worker,  \* local variables of run_task and of the call it is in
  caller   \* local variables of an operator's call

vars == <<exec, deps, task, att, worker, caller>>

-----------------------------------------------------------------------------
(* Types.                                                                  *)

Tasks == 1..N
Nums  == 1..MaxAttempts

ExecState == {"none", "pending", "running", "paused", "completed", "failed", "cancelled"}
Runnable  == {"pending", "running", "paused"}

\* "blocked" is blocked with a dependency reason, "awaiting" is blocked with
\* the reason "provider outcome unknown; reconciliation required".
TaskState == {"pending", "ready", "running", "completed", "failed",
              "blocked", "awaiting", "cancelled"}
TerminalTask == {"completed", "cancelled"}
Blocking     == {"failed", "blocked", "awaiting", "cancelled"}

\* "lapsed" is a row in state running whose lease_expires_at has passed.
AttState == {"none", "running", "lapsed", "succeeded", "failed", "cancelled", "unknown"}
Open     == {"running", "lapsed"}

\* idle: between tasks       picked: list_ready_tasks returned the task
\* claiming: in claim_task   busy: provider call, tools, evidence
\* completing, failing, reporting, cancelling: in complete_task, fail_task,
\*   mark_provider_outcome_unknown, cancel_task, past the reads
\* doomed: an exception is propagating to run_task's call of fail_task
Holding == {"busy", "completing", "failing", "reporting", "cancelling", "doomed"}
WorkerState == [pc : {"idle", "picked", "claiming"} \cup Holding,
                task : Tasks, num : Nums, seen : ExecState]
Free == [pc |-> "idle", task |-> 1, num |-> 1, seen |-> "none"]

\* tick: in run_once, after it listed the runnable executions.
CallerState == [pc : {"idle", "cancel", "tick", "requeue", "reconcile"}, task : Tasks]
NoCall == [pc |-> "idle", task |-> 1]

TypeOK ==
  /\ exec \in ExecState
  /\ deps \in [Tasks -> SUBSET Tasks]
  /\ task \in [Tasks -> TaskState]
  /\ att \in [Tasks -> [Nums -> AttState]]
  /\ worker \in [Workers -> WorkerState]
  /\ caller \in [Operators -> CallerState]

-----------------------------------------------------------------------------
(* _detect_cycles accepts exactly the graphs with a topological rank.      *)

Acyclic(d) == \E rank \in [Tasks -> Tasks] :
                 \A t \in Tasks : \A p \in d[t] : rank[p] < rank[t]

Graphs == {d \in [Tasks -> SUBSET Tasks] : Acyclic(d)}

-----------------------------------------------------------------------------
(* _recompute_readiness: one pass over the tasks in listing order.  A task *)
(* sees the new state of the tasks before it and the old state of the rest.*)

Verdict(old, seen) ==
  IF seen \subseteq {"completed"}
  THEN IF old = "blocked" /\ seen = {} THEN "blocked" ELSE "ready"
  ELSE IF seen \cap Blocking # {} THEN "blocked" ELSE "pending"

Movable(s) == {t \in Tasks : s[t] \in {"pending", "blocked"}}

Overlay(s, f) == [t \in Tasks |-> IF t \in DOMAIN f THEN f[t] ELSE s[t]]

Recomputed(d, s) ==
  {r \in {Overlay(s, f) : f \in [Movable(s) -> {"pending", "ready", "blocked"}]} :
     \A t \in Movable(s) :
        r[t] = Verdict(s[t], {IF p < t THEN r[p] ELSE s[p] : p \in d[t]})}

-----------------------------------------------------------------------------
(* _maybe_complete_execution: every transition it may make starts from     *)
(* "running" (EXECUTION_TRANSITIONS).                                      *)

AttemptCount(a, t) == Cardinality({n \in Nums : a[t][n] # "none"})

AutoRetryPending(s, a) ==
  /\ WorkerBudget > 0
  /\ \E t \in Tasks : s[t] = "failed" /\ AttemptCount(a, t) < WorkerBudget

\* MUTANT of AllCompleted: a cancelled task counts as done.
AllTerminal(s) == \A t \in Tasks : s[t] \in TerminalTask

AllCompleted(s) == \A t \in Tasks : s[t] = "completed"
Idle(s)    == \A t \in Tasks : s[t] \notin {"running", "ready"}

Stalled(s) == Idle(s) /\ \E t \in Tasks : s[t] \in Blocking

Settled(e, s, a) ==
  IF e # "running" THEN e
  ELSE IF AllCompleted(s) THEN "completed"
  ELSE IF ~Stalled(s) THEN "running"
  ELSE IF AutoRetryPending(s, a) \/ \E t \in Tasks : s[t] \in {"awaiting", "pending"}
       THEN "paused" ELSE "failed"

\* MUTANT of Finish: readiness is not recomputed.
FinishUnread(s, a) ==
  /\ att' = a
  /\ task' = s
  /\ exec' = Settled(exec, s, a)

\* The tail of complete_task, fail_task, mark_provider_outcome_unknown and
\* cancel_task, run in their transaction after they wrote task states s.
Finish(s, a) ==
  /\ att' = a
  /\ \E r \in Recomputed(deps, s) : task' = r /\ exec' = Settled(exec, r, a)

-----------------------------------------------------------------------------
Init ==
  /\ exec = "none"
  /\ deps = [t \in Tasks |-> {}]
  /\ task = [t \in Tasks |-> "pending"]
  /\ att = [t \in Tasks |-> [n \in Nums |-> "none"]]
  /\ worker = [w \in Workers |-> Free]
  /\ caller = [o \in Operators |-> NoCall]

\* create_execution_from_handoff.  A repeated call finds the row, inside its
\* transaction too, and returns it unchanged.
Create ==
  /\ exec = "none"
  /\ exec' = "pending"
  /\ deps' \in Graphs
  /\ task' \in Recomputed(deps', task)
  /\ UNCHANGED <<att, worker, caller>>

-----------------------------------------------------------------------------
(* Claiming: list_ready_tasks, then the reads of claim_task, then its      *)
(* transaction, a compare-and-set on the task alone.                       *)

\* SchedulerService.run_once found the execution runnable and
\* run_ready_tasks listed the task as ready.
Pick(w, t) ==
  /\ worker[w].pc = "idle"
  /\ exec \in Runnable
  /\ task[t] = "ready"
  /\ worker' = [worker EXCEPT ![w] = [Free EXCEPT !.pc = "picked", !.task = t]]
  /\ UNCHANGED <<exec, deps, task, att, caller>>

BeginClaim(w) ==
  /\ worker[w].pc = "picked"
  /\ task[worker[w].task] = "ready"
  /\ worker' = [worker EXCEPT ![w].pc = "claiming", ![w].seen = exec]
  /\ UNCHANGED <<exec, deps, task, att, caller>>

\* One more than the largest number used so far.
NextNumber(t, n) ==
  /\ n > 1 => att[t][n - 1] # "none"
  /\ \A m \in n..MaxAttempts : att[t][m] = "none"

\* MUTANT of CommitClaim: the state read before the transaction is trusted.
ClaimUnchecked(w) ==
  LET t == worker[w].task IN
  /\ worker[w].pc = "claiming"
  /\ \E n \in Nums :
        /\ NextNumber(t, n)
        /\ att' = [att EXCEPT ![t][n] = "running"]
        /\ worker' = [worker EXCEPT ![w] = [Free EXCEPT !.pc = "busy", !.task = t, !.num = n]]
  /\ task' = [task EXCEPT ![t] = "running"]
  /\ exec' = IF worker[w].seen \in {"pending", "paused"} THEN "running" ELSE exec
  /\ UNCHANGED <<deps, caller>>

CommitClaim(w) ==
  LET t == worker[w].task IN
  /\ worker[w].pc = "claiming"
  /\ task[t] = "ready"
  /\ \E n \in Nums :
        /\ NextNumber(t, n)
        /\ att' = [att EXCEPT ![t][n] = "running"]
        /\ worker' = [worker EXCEPT ![w] = [Free EXCEPT !.pc = "busy", !.task = t, !.num = n]]
  /\ task' = [task EXCEPT ![t] = "running"]
  /\ exec' = IF worker[w].seen \in {"pending", "paused"} THEN "running" ELSE exec
  /\ UNCHANGED <<deps, caller>>

\* The task was not ready any more at one of the two checks.
ClaimRefused(w) ==
  /\ worker[w].pc \in {"picked", "claiming"}
  /\ task[worker[w].task] # "ready"
  /\ worker' = [worker EXCEPT ![w] = Free]
  /\ UNCHANGED <<exec, deps, task, att, caller>>

-----------------------------------------------------------------------------
(* The calls that report the outcome of an attempt.  The transaction       *)
(* checks the attempt again (_validate_attempt_identity); the state of the *)
(* task is the one read before it.                                         *)

Attempt(w) == att[worker[w].task][worker[w].num]
TaskOf(w)  == task[worker[w].task]

SetAttempt(w, state) == [att EXCEPT ![worker[w].task][worker[w].num] = state]
SetTask(w, state)    == [task EXCEPT ![worker[w].task] = state]

Goto(w, pc) ==
  /\ worker' = [worker EXCEPT ![w] = IF pc = "idle" THEN Free ELSE [@ EXCEPT !.pc = pc]]
  /\ UNCHANGED <<exec, deps, task, att, caller>>

Report(w, attState, taskState) ==
  /\ Finish(SetTask(w, taskState), SetAttempt(w, attState))
  /\ worker' = [worker EXCEPT ![w] = Free]
  /\ UNCHANGED <<deps, caller>>

\* A terminal task is returned as it is, and run_task raises unless it is
\* "completed"; a task in another state than running raises.
BeginComplete(w) ==
  /\ worker[w].pc = "busy"
  /\ Goto(w, CASE TaskOf(w) = "running"   -> "completing"
               [] TaskOf(w) = "completed" -> "idle"
               [] OTHER                   -> "doomed")

CommitComplete(w) ==
  /\ worker[w].pc = "completing"
  /\ Attempt(w) = "running"
  /\ Report(w, "succeeded", "completed")

\* A lost lease, an attempt that ended, or evidence that does not validate.
CompleteRaises(w) ==
  /\ worker[w].pc = "completing"
  /\ Goto(w, "doomed")

\* From a provider or tool error, or after complete_task raised.
BeginFail(w) ==
  /\ worker[w].pc \in {"busy", "doomed"}
  /\ Goto(w, IF TaskOf(w) = "running" THEN "failing" ELSE "idle")

\* fail_task and cancel_task do not ask for a live lease.
CommitFail(w) ==
  /\ worker[w].pc = "failing"
  /\ Attempt(w) \in Open
  /\ Report(w, "failed", "failed")

BeginUnknown(w) ==
  /\ worker[w].pc = "busy"
  /\ Goto(w, IF TaskOf(w) = "running" THEN "reporting" ELSE "idle")

CommitUnknown(w) ==
  /\ worker[w].pc = "reporting"
  /\ Attempt(w) = "running"
  /\ Report(w, "unknown", "awaiting")

BeginCancelTask(w) ==
  /\ "cancel_task" \in Calls
  /\ worker[w].pc = "busy"
  /\ Goto(w, IF TaskOf(w) \in TerminalTask THEN "idle" ELSE "cancelling")

CommitCancelTask(w) ==
  /\ worker[w].pc = "cancelling"
  /\ Attempt(w) \in Open
  /\ Report(w, "cancelled", "cancelled")

\* The transaction raises: the attempt ended, or for "unknown" its lease
\* lapsed.  Nothing is written and run_task gives up.
ReportRefused(w) ==
  /\ \/ worker[w].pc \in {"failing", "cancelling"} /\ Attempt(w) \notin Open
     \/ worker[w].pc = "reporting" /\ Attempt(w) # "running"
  /\ Goto(w, "idle")

\* The process dies, or an error nothing handles ends the thread.  Before
\* CommitClaim that leaves no trace, so only a worker with an attempt dies.
Crash(w) ==
  /\ worker[w].pc \in Holding
  /\ Goto(w, "idle")

-----------------------------------------------------------------------------
(* Leases.  Renewing a live lease only postpones LeaseExpires, and a       *)
(* lapsed one cannot be renewed, so renew_task_lease needs no action.      *)

LeaseExpires(t, n) ==
  /\ att[t][n] = "running"
  /\ att' = [att EXCEPT ![t][n] = "lapsed"]
  /\ UNCHANGED <<exec, deps, task, worker, caller>>

\* A running task without a live lease.
Abandoned(t) == task[t] = "running" /\ \A n \in Nums : att[t][n] # "running"

LatestOpen(t, n) ==
  /\ att[t][n] \in Open
  /\ \A m \in (n + 1)..MaxAttempts : att[t][m] \notin Open

Resumed(e, s) ==
  CASE e \in {"pending", "paused"} /\ \E t \in Tasks : s[t] = "ready" -> "running"
    [] e = "running" /\ Idle(s) -> "paused"
    [] OTHER -> e

\* recover_after_restart, all in one transaction.
Reclaim ==
  LET a == [t \in Tasks |-> [n \in Nums |->
              IF Abandoned(t) /\ LatestOpen(t, n) THEN "unknown" ELSE att[t][n]]]
      s == [t \in Tasks |-> IF Abandoned(t) THEN "ready" ELSE task[t]]
  IN /\ att' = a
     /\ \E r \in Recomputed(deps, s) :
           task' = r /\ exec' = Resumed(Settled(exec, r, a), r)
     /\ UNCHANGED <<deps, worker, caller>>

\* At startup and from the REST endpoint, whatever the state.
Recover ==
  /\ "recover" \in Calls
  /\ exec # "none"
  /\ Reclaim

\* MUTANT of ReconcileExpiredLeases: only a task without any open attempt.
ReconcileClosedOnly ==
  /\ exec \in Runnable
  /\ \E t \in Tasks : task[t] = "running" /\ \A n \in Nums : att[t][n] \notin Open
  /\ Reclaim

\* reconcile_expired_leases, on every tick.
ReconcileExpiredLeases ==
  /\ exec \in Runnable
  /\ \E t \in Tasks :
        /\ task[t] = "running"
        /\ \A n \in Nums : LatestOpen(t, n) => att[t][n] = "lapsed"
  /\ Reclaim

-----------------------------------------------------------------------------
(* Operators.                                                              *)

Call(o, pc, t) ==
  /\ caller' = [caller EXCEPT ![o] = [pc |-> pc, task |-> t]]
  /\ UNCHANGED <<exec, deps, task, att, worker>>

\* cancel_execution: the transition is checked on the state read outside.
BeginCancel(o) ==
  /\ "cancel_execution" \in Calls
  /\ caller[o].pc = "idle"
  /\ exec \in Runnable
  /\ Call(o, "cancel", 1)

CommitCancel(o) ==
  /\ caller[o].pc = "cancel"
  /\ exec' = "cancelled"
  /\ task' = [t \in Tasks |-> IF task[t] \in TerminalTask THEN task[t] ELSE "cancelled"]
  /\ att' = [t \in Tasks |-> [n \in Nums |->
               IF task[t] \notin TerminalTask /\ att[t][n] \in Open
               THEN "cancelled" ELSE att[t][n]]]
  /\ caller' = [caller EXCEPT ![o] = NoCall]
  /\ UNCHANGED <<deps, worker>>

\* A tick lists the runnable executions once, then requeues failed tasks.
BeginTick(o) ==
  /\ SchedBudget > 0
  /\ caller[o].pc = "idle"
  /\ exec \in Runnable
  /\ Call(o, "tick", 1)

EndTick(o) ==
  /\ caller[o].pc = "tick"
  /\ Call(o, "idle", 1)

\* MUTANT of BeginRequeue: off by one.
RequeueAtBudget(o, t) ==
  /\ caller[o].pc = "tick"
  /\ task[t] = "failed"
  /\ AttemptCount(att, t) <= SchedBudget
  /\ Call(o, "requeue", t)

BeginRequeue(o, t) ==
  /\ caller[o].pc = "tick"
  /\ task[t] = "failed"
  /\ AttemptCount(att, t) < SchedBudget
  /\ Call(o, "requeue", t)

\* The execution is neither checked nor settled.
CommitRequeue(o) ==
  /\ caller[o].pc = "requeue"
  /\ task' = [task EXCEPT ![caller[o].task] = "ready"]
  /\ caller' = [caller EXCEPT ![o] = [NoCall EXCEPT !.pc = "tick"]]
  /\ UNCHANGED <<exec, deps, att, worker>>

\* reconcile_blocked_task accepts either kind of blocked task.
BeginReconcile(o, t) ==
  /\ "reconcile" \in Calls
  /\ caller[o].pc = "idle"
  /\ task[t] \in {"blocked", "awaiting"}
  /\ Call(o, "reconcile", t)

CommitReconcile(o) ==
  /\ caller[o].pc = "reconcile"
  /\ task' \in Recomputed(deps, [task EXCEPT ![caller[o].task] = "ready"])
  /\ caller' = [caller EXCEPT ![o] = NoCall]
  /\ UNCHANGED <<exec, deps, att, worker>>

-----------------------------------------------------------------------------
WorkerStep(w) ==
  \/ BeginClaim(w) \/ CommitClaim(w) \/ ClaimRefused(w)
  \/ BeginComplete(w) \/ CommitComplete(w) \/ CompleteRaises(w)
  \/ BeginFail(w) \/ CommitFail(w)
  \/ BeginUnknown(w) \/ CommitUnknown(w)
  \/ BeginCancelTask(w) \/ CommitCancelTask(w)
  \/ ReportRefused(w)

OperatorStep(o) ==
  \/ BeginCancel(o) \/ CommitCancel(o)
  \/ BeginTick(o) \/ EndTick(o) \/ CommitRequeue(o) \/ CommitReconcile(o)
  \/ \E t \in Tasks : BeginRequeue(o, t) \/ BeginReconcile(o, t)

Next ==
  \/ Create
  \/ \E w \in Workers : WorkerStep(w) \/ Crash(w) \/ \E t \in Tasks : Pick(w, t)
  \/ \E o \in Operators : OperatorStep(o)
  \/ \E t \in Tasks, n \in Nums : LeaseExpires(t, n)
  \/ Recover \/ ReconcileExpiredLeases

Spec == Init /\ [][Next]_vars

-----------------------------------------------------------------------------
(* Fairness.  The scheduler loop ticks for ever (background_workers), a    *)
(* thread that does not die goes on with its handler, and time passes: the *)
(* lease of an attempt nobody works on lapses.  Nothing makes a worker die *)
(* and nothing makes an operator call.                                     *)

Holds(w, t, n) ==
  worker[w].pc \in Holding /\ worker[w].task = t /\ worker[w].num = n

OrphanExpires(t, n) == LeaseExpires(t, n) /\ \A w \in Workers : ~Holds(w, t, n)

Fairness ==
  /\ \A w \in Workers : WF_vars(WorkerStep(w)) /\ WF_vars(\E t \in Tasks : Pick(w, t))
  /\ \A t \in Tasks, n \in Nums : WF_vars(OrphanExpires(t, n))
  /\ WF_vars(ReconcileExpiredLeases)

FairSpec == Spec /\ Fairness

-----------------------------------------------------------------------------
(* Which callers an instance has.                                          *)

\* No operation turns a failed or blocked task back into a ready one: the
\* default deployment (task_max_attempts = 0) while nobody reconciles.
NoRevival == SchedBudget = 0 /\ "reconcile" \notin Calls

-----------------------------------------------------------------------------
(* Invariants.                                                             *)

\* A task is running exactly while one of its attempts is, and two workers
\* never both own it, however claims, reports, lease expiry and recovery
\* interleave ("Two workers racing here cannot both create a running
\* attempt", claim_task).
SingleOwner ==
  \A t \in Tasks :
    /\ task[t] = "running" <=> \E n \in Nums : att[t][n] \in Open
    /\ \A m, n \in Nums : att[t][m] \in Open /\ att[t][n] \in Open => m = n

\* The work of a task is accepted once: a task is completed exactly when one
\* attempt succeeded, and no second attempt ever succeeds (complete_task
\* against a worker that lost its lease and reports late).
AcceptedOnce ==
  \A t \in Tasks :
    /\ task[t] = "completed" <=> \E n \in Nums : att[t][n] = "succeeded"
    /\ \A m, n \in Nums : att[t][m] = "succeeded" /\ att[t][n] = "succeeded" => m = n

\* No task is offered to a worker, runs or has an outcome of its own before
\* everything it depends on is completed (_recompute_readiness).
DependenciesFirst ==
  \A t \in Tasks :
    task[t] \in {"ready", "running", "completed", "failed", "awaiting"}
      => \A p \in deps[t] : task[p] = "completed"

\* No lost wake-up: a task that still waits, waits for a task that is not
\* completed.  Nothing polls the graph, so readiness missed in the
\* transaction that completes the last dependency is missed for good.
NoLostWakeup ==
  exec # "none" =>
    \A t \in Tasks :
      task[t] \in {"pending", "blocked"} => \E p \in deps[t] : task[p] # "completed"

\* After cancel_execution no task is left that a worker could start, finish
\* or revive, whatever its workers were doing at that moment.
CancelSticks ==
  exec = "cancelled" =>
    \A t \in Tasks :
      /\ task[t] \in TerminalTask
      /\ \A n \in Nums : att[t][n] \notin Open

\* The scheduler's retries stay within its budget: no task fails more often
\* than task_max_attempts allows, nor twice when retries are off, while requeues
\* and reconciliations come one at a time (the scheduler
\* counts the attempts of a task it read as failed, and asks afterwards).
FailuresWithinBudget ==
  \A t \in Tasks :
    LET failures == {n \in Nums : att[t][n] = "failed"}
    IN Cardinality(failures) <= IF SchedBudget = 0 THEN 1 ELSE SchedBudget

-----------------------------------------------------------------------------
(* Action properties.                                                      *)

\* An attempt that ended is never written again: a late report, a recovery
\* or a cancellation that was decided earlier leaves it alone.
EndedAttemptsKept ==
  \A t \in Tasks, n \in Nums :
    att[t][n] \in {"succeeded", "failed", "cancelled", "unknown"} => att'[t][n] = att[t][n]

AttemptFinal == [][EndedAttemptsKept]_vars

\* "Terminal task states (no further transitions possible)" (execution.py).
TerminalTasksKept == \A t \in Tasks : task[t] \in TerminalTask => task'[t] = task[t]

TerminalTaskFinal == [][TerminalTasksKept]_vars

-----------------------------------------------------------------------------
(* The abstract specification, and the mapping to it.                      *)

verdictBar == IF exec \in Runnable THEN "open" ELSE exec

Contract == INSTANCE ExecutionContract
              WITH verdict  <- verdictBar,
                   accepted <- {t \in Tasks : task[t] = "completed"},
                   needs    <- deps

\* The execution keeps its promise to those who wait for it.
ImplementsContract == Contract!CSpec

-----------------------------------------------------------------------------
(* Liveness.                                                               *)

Exhausted == \E t \in Tasks : att[t][MaxAttempts] # "none"

\* Workers that go on bring a started execution to rest, through crashes and
\* lost leases, unless the bound on attempts stops them.
Settles ==
  exec \in {"pending", "running"} ~> (exec \notin {"pending", "running"} \/ Exhausted)
=============================================================================
