---------------------------- MODULE AgentRuntime ----------------------------
(***************************************************************************)
(* AgentRuntime.run_task of src/zero/app/agent_runtime.py from the claim   *)
(* to the report, with the agent instance it leases, the worktree it works *)
(* in and the recovery that follows a crash.                               *)
(*                                                                         *)
(* WorkerService models the transactions on tasks and attempts and how     *)
(* they interleave; here each is one step.  The provider requests and tool *)
(* calls of an attempt are one state, "looping": ToolLoop models them.     *)
(* A run that lost its lease does not notice before it next talks to the   *)
(* worker service, and until then works on beside the attempt that         *)
(* replaced it.                                                            *)
(***************************************************************************)
EXTENDS Worktrees

CONSTANTS
  DependsOn,       \* DependsOn[t]: the tasks that t waits for
  Workers,         \* threads in run_ready_tasks
  Capacity,        \* max_concurrent_instances of the one agent type
  SlowSetup,       \* a lease may lapse while run_task still prepares
  MaxFaults        \* BOUND: crashes, runs of "zero-dev reconcile" beside a live
                   \* server, and commits or look-ups that fail, together

ASSUME CapacityPositive == Capacity \in Nat \ {0}
ASSUME SetupSwitch == SlowSetup \in BOOLEAN
ASSUME FaultBound == MaxFaults \in Nat
ASSUME Dependencies == DependsOn \in [Tasks -> SUBSET Tasks]

VARIABLES
  exec,      \* executions.state
  task,      \* tasks.state
  att,       \* task_attempts.state, "running" split by its lease
  instance,  \* agent_instances.state of the instance an attempt leased
  worker,    \* local variables of run_task
  keeper,    \* the process that starts up or reconciles
  degraded,  \* HISTORY: attempts whose base, or checkpoint, git or the database denied
  meddled    \* HISTORY: tasks whose worktrees a run that lost its attempt, or a
             \* reconciliation beside a live run, changed

runVars == <<exec, task, att, instance>>
history == <<degraded, meddled>>
vars == <<wtVars, runVars, worker, keeper, history>>

-----------------------------------------------------------------------------
(* Types.                                                                  *)

ExecState == {"running", "completed", "failed", "cancelled"}
TaskState == {"pending", "ready", "running", "completed", "failed", "blocked", "cancelled"}
AttState  == {"none", "running", "lapsed", "succeeded", "failed", "cancelled", "unknown"}
Open      == {"running", "lapsed"}
InstanceState == {"none", "running", "completed", "failed", "cancelled"}

\* claimed: claim_task returned           leased: an instance is leased
\* added: the directory exists            cleared: a stale row was abandoned
\* allocated: the row exists              looping: requests and tool calls
\* answered: collecting evidence          committing: in complete_worktree
\* completing: in complete_task           broken: an exception was caught
\* reporting: the worktree was closed and the instance finished
SettingUp == {"claimed", "leased", "added", "cleared", "allocated"}
Pcs == SettingUp \cup {"idle", "looping", "answered", "committing", "completing",
                       "broken", "reporting"}

\* stale and seen: the row to abandon and the state it was read in;
\* outcome: what the run is going to report.
Outcomes == {"failed", "cancelled", "unknown"}
WorkerState == [pc : Pcs, at : Attempts, stale : SUBSET Attempts, seen : WorktreeState,
                merge : SUBSET Attempts, outcome : Outcomes]

\* The steps of run_all_recovery and then of _startup_recovery.
Steps == {"idle", "executions", "orphans", "listing", "interrupting", "cleaning",
          "instances", "graphs", "sweeping"}
KeeperState == [pc : Steps, boot : BOOLEAN, list : SUBSET Attempts,
                recoveries : 0..MaxFaults]

TypeOK ==
  /\ WorktreesTypeOK
  /\ exec \in ExecState
  /\ task \in [Tasks -> TaskState]
  /\ att \in [Attempts -> AttState]
  /\ instance \in [Attempts -> InstanceState]
  /\ worker \in [Workers -> WorkerState]
  /\ keeper \in KeeperState
  /\ degraded \subseteq Attempts
  /\ meddled \subseteq Tasks

Free == [pc |-> "idle", at |-> CHOOSE a \in Attempts : TRUE, stale |-> {}, seen |-> "none",
         merge |-> {}, outcome |-> "failed"]
Serving == [pc |-> "idle", boot |-> FALSE, list |-> {}, recoveries |-> 0]

Init ==
  /\ WorktreesInit
  /\ exec = "running"
  /\ task = [t \in Tasks |-> IF DependsOn[t] = {} THEN "ready" ELSE "pending"]
  /\ att = [a \in Attempts |-> "none"]
  /\ instance = [a \in Attempts |-> "none"]
  /\ worker = [w \in Workers |-> Free]
  /\ keeper = Serving
  /\ degraded = {}
  /\ meddled = {}

At(w) == worker[w].at
MayFail == keeper.recoveries + Cardinality(degraded) < MaxFaults
Goto(w, pc) == worker' = [worker EXCEPT ![w].pc = pc]
Break(w, outcome) == worker' = [worker EXCEPT ![w].pc = "broken", ![w].outcome = outcome]
Meddle(w) == meddled' = IF att[At(w)] \in Open THEN meddled ELSE meddled \cup {At(w)[1]}
Running(i) == {a \in Attempts : i[a] = "running"}

-----------------------------------------------------------------------------
(* Tasks and attempts, each transaction in one step.                       *)

Ended(s) == \A t \in Tasks : s[t] \notin {"ready", "running"}

\* _recompute_readiness and _maybe_complete_execution, without retries.
SetTasks(s) ==
  LET r == [t \in Tasks |->
              IF s[t] = "pending" /\ \A d \in DependsOn[t] : s[d] = "completed"
              THEN "ready" ELSE s[t]]
  IN /\ task' = r
     /\ exec' = IF exec # "running" THEN exec
                ELSE IF \A t \in Tasks : r[t] = "completed" THEN "completed"
                ELSE IF Ended(r) THEN "failed" ELSE exec

\* Past the capacity check of agent_type_at_capacity.
Claim(w, a) ==
  /\ keeper.boot = FALSE
  /\ worker[w].pc = "idle"
  /\ exec = "running"
  /\ task[a[1]] = "ready"
  /\ att[a] = "none"
  /\ \A b \in Of(a[1]) : b[2] < a[2] => att[b] # "none"
  /\ Cardinality(Running(instance)) < Capacity
  /\ task' = [task EXCEPT ![a[1]] = "running"]
  /\ att' = [att EXCEPT ![a] = "running"]
  /\ worker' = [worker EXCEPT ![w] = [Free EXCEPT !.pc = "claimed", !.at = a]]
  /\ UNCHANGED <<wtVars, exec, instance, keeper, history>>

\* fail_task, cancel_task or mark_provider_outcome_unknown, or its refusal.
ReportOutcome(w) ==
  LET a == At(w)
      out == worker[w].outcome
  IN /\ worker[w].pc = "reporting"
     /\ worker' = [worker EXCEPT ![w] = Free]
     /\ IF att[a] = "running" \/ (att[a] = "lapsed" /\ out # "unknown")
        THEN /\ att' = [att EXCEPT ![a] = out]
             /\ SetTasks([task EXCEPT ![a[1]] = IF out = "unknown" THEN "blocked" ELSE out])
        ELSE UNCHANGED <<exec, task, att>>
     /\ UNCHANGED <<wtVars, instance, keeper, history>>

\* cancel_execution.
CancelExecution ==
  /\ keeper.boot = FALSE
  /\ exec = "running"
  /\ exec' = "cancelled"
  /\ task' = [t \in Tasks |-> IF task[t] = "completed" THEN "completed" ELSE "cancelled"]
  /\ att' = [a \in Attempts |-> IF att[a] \in Open THEN "cancelled" ELSE att[a]]
  /\ UNCHANGED <<wtVars, instance, worker, keeper, history>>

LeaseExpires(a) ==
  /\ att[a] = "running"
  /\ SlowSetup \/ \A w \in Workers : At(w) = a => worker[w].pc \notin SettingUp
  /\ att' = [att EXCEPT ![a] = "lapsed"]
  /\ UNCHANGED <<wtVars, exec, task, instance, worker, keeper, history>>

\* MUTANT of Reclaim: the instances of a dead worker are kept.
ReclaimKeeping ==
  LET lost == {t \in Tasks : task[t] = "running" /\ \A a \in Of(t) : att[a] # "running"}
  IN /\ att' = [a \in Attempts |-> IF a[1] \in lost /\ att[a] = "lapsed" THEN "unknown" ELSE att[a]]
     /\ SetTasks([t \in Tasks |-> IF t \in lost THEN "ready" ELSE task[t]])
     /\ UNCHANGED instance

\* recover_after_restart: a running task without a live lease is ready again
\* and its instances are released.
Reclaim ==
  LET lost == {t \in Tasks : task[t] = "running" /\ \A a \in Of(t) : att[a] # "running"}
  IN /\ att' = [a \in Attempts |-> IF a[1] \in lost /\ att[a] = "lapsed" THEN "unknown" ELSE att[a]]
     /\ SetTasks([t \in Tasks |-> IF t \in lost THEN "ready" ELSE task[t]])
     /\ instance' = [a \in Attempts |->
                       IF a[1] \in lost /\ instance[a] = "running" THEN "cancelled" ELSE instance[a]]

\* reconcile_expired_leases, on every tick.
ReconcileExpiredLeases ==
  /\ keeper.boot = FALSE
  /\ exec = "running"
  /\ \E t \in Tasks : task[t] = "running" /\ \A a \in Of(t) : att[a] # "running"
  /\ Reclaim
  /\ UNCHANGED <<wtVars, worker, keeper, history>>

-----------------------------------------------------------------------------
(* run_task: preparing.                                                    *)

LeaseInstance(w) ==
  /\ worker[w].pc = "claimed"
  /\ Cardinality(Running(instance)) < Capacity
  /\ instance' = [instance EXCEPT ![At(w)] = "running"]
  /\ Goto(w, "leased")
  /\ UNCHANGED <<wtVars, exec, task, att, keeper, history>>

\* ConcurrencyLimitExceededError: the slots were taken since the check.
LeaseDenied(w) ==
  /\ worker[w].pc = "claimed"
  /\ Cardinality(Running(instance)) >= Capacity
  /\ worker' = [worker EXCEPT ![w].pc = "reporting", ![w].outcome = "failed"]
  /\ UNCHANGED <<wtVars, runVars, keeper, history>>

\* InvalidAgentTypeTransitionError: the type was archived since it was read.
\* Nothing catches it; the attempt stays open until its lease lapses.
LeaseRaises(w) ==
  /\ worker[w].pc = "claimed"
  /\ worker' = [worker EXCEPT ![w] = Free]
  /\ UNCHANGED <<wtVars, runVars, keeper, history>>

\* _dependency_worktree_bases, git worktree add on the first base, and the
\* read of a stale row at the end of create_worktree.  Branches do not change
\* once their worktree succeeded, so when they are read does not matter.
AddWorktree(w) ==
  LET a == At(w) IN
  /\ worker[w].pc = "leased"
  /\ \E found \in IF DependsOn[a[1]] # {} /\ MayFail THEN BOOLEAN ELSE {TRUE} :
        LET bases == IF found THEN UNION {LatestSucceeded(d) : d \in DependsOn[a[1]]} ELSE {} IN
        /\ \E first \in IF bases = {} THEN {{}} ELSE {{b} : b \in bases} :
              /\ AddDirectory(a, UNION {branch[b] : b \in first})
              /\ \E s \in IF Stale(a[1]) = {} THEN {{}} ELSE {{b} : b \in Stale(a[1])} :
                    worker' = [worker EXCEPT ![w] =
                      [@ EXCEPT !.pc = "added", !.stale = s,
                                !.seen = IF s = {} THEN "none" ELSE row[CHOOSE b \in s : TRUE],
                                !.merge = UNION {branch[b] : b \in bases \ first}]]
        /\ degraded' = IF found THEN degraded ELSE degraded \cup {a}
  /\ UNCHANGED <<runVars, keeper, meddled>>

AbandonStale(w) ==
  /\ worker[w].pc = "added"
  /\ IF worker[w].stale = {} THEN UNCHANGED wtVars
     ELSE \E b \in worker[w].stale : Abandon(b, worker[w].seen)
  /\ worker' = [worker EXCEPT ![w].pc = "cleared", ![w].stale = {}, ![w].seen = "none"]
  /\ Meddle(w)
  /\ UNCHANGED <<runVars, keeper, degraded>>

InsertWorktree(w) ==
  /\ worker[w].pc = "cleared"
  /\ \/ InsertRow(At(w)) /\ Goto(w, "allocated")
     \/ InsertRefused(At(w)) /\ Break(w, "failed")
  /\ Meddle(w)
  /\ UNCHANGED <<runVars, keeper, degraded>>

\* The merges of the other bases, activate_worktree and the prompt.
ActivateWorktree(w) ==
  /\ worker[w].pc = "allocated"
  /\ Activate(At(w), worker[w].merge)
  /\ worker' = [worker EXCEPT ![w].pc = "looping", ![w].merge = {}]
  /\ UNCHANGED <<runVars, keeper, history>>

\* A lookup, git, a merge conflict, a transition or the prompt raises.
SetupFails(w) ==
  /\ worker[w].pc \in {"leased", "allocated"}
  /\ Break(w, "failed")
  /\ UNCHANGED <<wtVars, runVars, keeper, history>>

-----------------------------------------------------------------------------
(* run_task: requests, tools and evidence.                                 *)

UseTool(w) ==
  /\ worker[w].pc = "looping"
  /\ WriteFile(At(w)) \/ StartCommand(At(w))
  /\ UNCHANGED <<runVars, worker, keeper, history>>

\* The commands end, and the loop with an answer, an error, a cancellation or
\* an unknown outcome; a renewal that fails is an error.
LoopEnds(w) ==
  /\ worker[w].pc = "looping"
  /\ EndCommands(At(w))
  /\ \/ Goto(w, "answered")
     \/ \E out \in {"failed", "unknown"} : Break(w, out)
     \/ exec = "cancelled" /\ Break(w, "cancelled")
  /\ UNCHANGED <<runVars, keeper, history>>

\* _store_evidence, _collect_workspace_evidence and the read and check at the
\* start of complete_worktree.
CollectEvidence(w) ==
  /\ worker[w].pc = "answered"
  /\ \/ CanBecome(At(w), "succeeded") /\ Goto(w, "committing")
     \/ Break(w, "failed")
  /\ UNCHANGED <<wtVars, runVars, keeper, history>>

CommitWorktree(w) ==
  /\ worker[w].pc = "committing"
  /\ \E committed \in BOOLEAN :
        /\ committed \/ MayFail \/ dir[At(w)] = "absent"
        /\ CommitSucceeded(At(w), committed)
        /\ degraded' = IF committed THEN degraded ELSE degraded \cup {At(w)}
  /\ Goto(w, "completing")
  /\ UNCHANGED <<runVars, keeper, meddled>>

\* complete_task, and finish_instance("completed") when it accepts.
CompleteTask(w) ==
  LET a == At(w) IN
  /\ worker[w].pc = "completing"
  /\ \/ /\ att[a] = "running"
        /\ att' = [att EXCEPT ![a] = "succeeded"]
        /\ SetTasks([task EXCEPT ![a[1]] = "completed"])
        /\ instance' = [instance EXCEPT ![a] = "completed"]
        /\ worker' = [worker EXCEPT ![w] = Free]
     \/ Break(w, "failed") /\ UNCHANGED runVars
  /\ UNCHANGED <<wtVars, keeper, history>>

-----------------------------------------------------------------------------
(* run_task: its exception handlers close the worktree, finish the         *)
(* instance and report.                                                    *)

\* complete_worktree(succeeded=False), if create_worktree returned and the
\* transition is valid, where an error is swallowed; then finish_instance.
CloseWorktree(w) ==
  LET a == At(w) IN
  /\ worker[w].pc = "broken"
  /\ IF CanBecome(a, "failed") THEN SetState(a, "failed") ELSE UNCHANGED wtVars
  /\ instance' = [instance EXCEPT ![a] =
                    IF worker[w].outcome = "failed" THEN "failed" ELSE "cancelled"]
  /\ Goto(w, "reporting")
  /\ UNCHANGED <<exec, task, att, keeper, history>>

-----------------------------------------------------------------------------
(* A crash, and the recovery at the next start or beside a live server.    *)

Crash ==
  /\ keeper.boot = FALSE
  /\ \E w \in Workers : worker[w].pc # "idle"
  /\ worker' = [w \in Workers |-> Free]
  /\ MayFail
  /\ keeper' = [keeper EXCEPT !.pc = "executions", !.boot = TRUE, !.list = {},
                              !.recoveries = @ + 1]
  /\ UNCHANGED <<wtVars, runVars, history>>

Reconcile ==
  /\ keeper.pc = "idle"
  /\ MayFail
  /\ keeper' = [keeper EXCEPT !.pc = "executions", !.recoveries = @ + 1]
  /\ UNCHANGED <<wtVars, runVars, worker, history>>

Then(pc) == keeper' = [keeper EXCEPT !.pc = pc, !.list = {}]

\* recover_stuck_executions, and at a start recover_after_restart again.
RecoverExecutions ==
  /\ keeper.pc \in {"executions", "graphs"}
  /\ IF exec = "running" THEN Reclaim ELSE UNCHANGED runVars
  /\ Then(IF keeper.pc = "executions" THEN "orphans" ELSE "sweeping")
  /\ UNCHANGED <<wtVars, worker, history>>

LiveAttempt(t) == \E a \in Of(t) : att[a] = "running"

\* An in-flight row may be written while no other holds the index.
Interruptible(a) == \A b \in Of(a[1]) \ {a} : row[b] \notin InFlight

\* recover_orphan_worktrees interrupts active rows without a live attempt.
InterruptOrphan(a) ==
  /\ keeper.pc = "orphans"
  /\ row[a] = "active"
  /\ ~LiveAttempt(a[1])
  /\ SetState(a, "interrupted")
  /\ UNCHANGED <<runVars, worker, keeper, history>>

Interrupting(list) ==
  keeper' = [keeper EXCEPT !.pc = IF list = {} THEN "cleaning" ELSE "interrupting", !.list = list]

\* recover_worktrees_after_restart lists the active rows of the project,
ListActive ==
  /\ keeper.pc = "orphans"
  /\ \A a \in Attempts : row[a] = "active" => LiveAttempt(a[1])
  /\ Interrupting({a \in Attempts : row[a] = "active"})
  /\ UNCHANGED <<wtVars, runVars, worker, history>>

\* and then interrupts each, whatever became of it.
InterruptListed(a) ==
  /\ keeper.pc = "interrupting"
  /\ a \in keeper.list
  /\ IF Interruptible(a) THEN SetState(a, "interrupted") ELSE UNCHANGED wtVars
  /\ Interrupting(keeper.list \ {a})
  /\ meddled' = IF keeper.boot THEN meddled ELSE meddled \cup {a[1]}
  /\ UNCHANGED <<runVars, worker, degraded>>

\* _cleanup_terminal_worktrees.
CleanUp(a) ==
  /\ keeper.pc = "cleaning"
  /\ exec # "running"
  /\ MarkAndRemove(a)
  /\ UNCHANGED <<runVars, worker, keeper, history>>

EndCleaning ==
  /\ keeper.pc = "cleaning"
  /\ Then(IF keeper.boot THEN "instances" ELSE "idle")
  /\ UNCHANGED <<wtVars, runVars, worker, history>>

\* release_stale_running_instances.
ReleaseStaleInstances ==
  /\ keeper.pc = "instances"
  /\ instance' = [a \in Attempts |->
                    IF instance[a] = "running" /\ task[a[1]] # "running" THEN "cancelled"
                    ELSE instance[a]]
  /\ Then("graphs")
  /\ UNCHANGED <<wtVars, exec, task, att, worker, history>>

\* abandon_stale_worktrees; the first tick comes after it.
SweepWorktree(a) ==
  /\ keeper.pc = "sweeping"
  /\ row[a] \in InFlight
  /\ task[a[1]] # "running"
  /\ Abandon(a, row[a])
  /\ UNCHANGED <<runVars, worker, keeper, history>>

EndSweep ==
  /\ keeper.pc = "sweeping"
  /\ \A a \in Attempts : row[a] \in InFlight => task[a[1]] = "running"
  /\ keeper' = [keeper EXCEPT !.pc = "idle", !.boot = FALSE]
  /\ UNCHANGED <<wtVars, runVars, worker, history>>

-----------------------------------------------------------------------------
WorkerStep(w) ==
  \/ LeaseInstance(w) \/ LeaseDenied(w) \/ LeaseRaises(w)
  \/ AddWorktree(w) \/ AbandonStale(w) \/ InsertWorktree(w) \/ ActivateWorktree(w)
  \/ SetupFails(w)
  \/ UseTool(w) \/ LoopEnds(w) \/ CollectEvidence(w) \/ CommitWorktree(w)
  \/ CompleteTask(w)
  \/ CloseWorktree(w) \/ ReportOutcome(w)

KeeperStep ==
  \/ RecoverExecutions
  \/ \E a \in Attempts : InterruptOrphan(a) \/ InterruptListed(a) \/ CleanUp(a) \/ SweepWorktree(a)
  \/ ListActive \/ EndCleaning \/ ReleaseStaleInstances \/ EndSweep

Next ==
  \/ \E w \in Workers : WorkerStep(w) \/ \E a \in Attempts : Claim(w, a)
  \/ CancelExecution
  \/ \E a \in Attempts : LeaseExpires(a)
  \/ ReconcileExpiredLeases
  \/ Crash \/ Reconcile \/ KeeperStep

Spec == Init /\ [][Next]_vars

-----------------------------------------------------------------------------
(* Properties.                                                             *)

Accepted == {a \in Attempts : att[a] = "succeeded"}

\* A task's accepted attempt keeps its worktree in a state integration takes
\* commits from, until the execution ended and it was cleaned up: a rival
\* attempt that still has its lease, and the recovery at a start, never close
\* it.
AcceptedKept ==
  \A a \in Accepted : a[1] \notin meddled =>
    /\ row[a] \in {"succeeded", "cleanup_eligible", "removed"}
    /\ row[a] = "succeeded" => dir[a] # "absent" \/ a \in degraded
    /\ row[a] # "succeeded" => exec # "running"

\* The branch of a completed task holds the accepted work of every task it
\* depends on, "instead of silently missing files" (agent_runtime.py:685),
\* except where git or a look-up failed, which run_task only logs, or where
\* somebody meddled with the dependency.
BuildsOnDependencies ==
  \A a \in Accepted \ degraded : \A d \in DependsOn[a[1]] \ meddled : \A b \in Accepted :
    b[1] = d /\ b \notin degraded => b \in branch[a]

\* What was accepted stays and is built upon, through rivals, crashes and the
\* recovery after them: the two together.
AcceptedWorkStands == AcceptedKept /\ BuildsOnDependencies

WorksOn(w, a) == worker[w].pc # "idle" /\ At(w) = a

\* A running instance, which takes a slot of its type, belongs to a run that
\* will finish it or to a task whose recovery will.  Cancelling an execution
\* releases none: the one of a run that died is left until the next start.
InstancesAccounted ==
  \A a \in Attempts :
    instance[a] = "running" =>
      \/ \E w \in Workers : WorksOn(w, a)
      \/ task[a[1]] = "running"
      \/ keeper.boot
      \/ exec = "cancelled"

\* No attempt fails on what an earlier one left behind: the unique index
\* refuses its row only after a run that had lost its attempt, or a
\* reconciliation beside a live run, changed a worktree of the task.
NoPoisonedRetry ==
  \A w \in Workers :
    worker[w].pc = "cleared" /\ att[At(w)] \in Open =>
      Insertable(At(w)) \/ At(w)[1] \in meddled
=============================================================================
