---------------------------- MODULE PlanService ----------------------------
(***************************************************************************)
(* One plan of src/zero/app/plan_service.py: its revisions, the decisions  *)
(* on them, the handoffs that approvals produce and the executions that    *)
(* scheduler ticks start from the handoffs.                                *)
(*                                                                         *)
(* The web, REST and chat interfaces call the service from several         *)
(* threads.  A call reads the plan, then its current revision, checks what *)
(* it read and only then opens the transaction that writes; each of these  *)
(* is an action here.  Content, reasons and permissions are left out: they *)
(* are guards on data that never changes after it was written.             *)
(***************************************************************************)
EXTENDS Integers, FiniteSets

CONSTANTS
  Users,         \* threads in propose_, approve_ or reject_revision
  Schedulers,    \* threads in SchedulerService.run_once
  MaxRevisions   \* BOUND: revisions the plan can have in the model

ASSUME RevisionBound == MaxRevisions \in Nat \ {0}

VARIABLES
  plan,       \* plans.current_state and current_revision_number
  rev,        \* plan_revisions.state by revision_number, "none" without a row
  decisions,  \* plan_approvals: append-only, by revision number and result
  handoff,    \* plan_handoffs: unclaimed while execution_id is NULL
  execs,      \* revisions that have an execution
  user,       \* local variables of a caller's request
  sched       \* local variables of a scheduler's pass over one handoff

vars == <<plan, rev, decisions, handoff, execs, user, sched>>

-----------------------------------------------------------------------------
Revs == 1..MaxRevisions
PlanState == {"draft", "proposed", "approved", "rejected"}
RevisionState == {"none", "proposed", "approved", "rejected"}
Results == {"approved", "rejected"}

\* expected is the revision the human named (for a proposal: the number the
\* new revision gets), saw the plan state that was read, rev the revision
\* that get_current_revision returned.
UserState == [pc : {"idle", "proposing", "approve", "reject", "approving", "rejecting"},
              expected : 0..MaxRevisions, saw : PlanState, rev : 0..MaxRevisions]
Local(pc, expected, saw, n) == [pc |-> pc, expected |-> expected, saw |-> saw, rev |-> n]
NoRequest == Local("idle", 0, "draft", 0)

SchedState == [pc : {"idle", "listed", "creating"}, rev : Revs]
NoPass == [pc |-> "idle", rev |-> 1]

TypeOK ==
  /\ plan \in [state : PlanState, number : 0..MaxRevisions]
  /\ rev \in [Revs -> RevisionState]
  /\ decisions \subseteq Revs \X Results
  /\ handoff \in [Revs -> {"none", "unclaimed", "claimed"}]
  /\ execs \subseteq Revs
  /\ user \in [Users -> UserState]
  /\ sched \in [Schedulers -> SchedState]

\* create_plan.
Init ==
  /\ plan = [state |-> "draft", number |-> 0]
  /\ rev = [n \in Revs |-> "none"]
  /\ decisions = {}
  /\ handoff = [n \in Revs |-> "none"]
  /\ execs = {}
  /\ user = [u \in Users |-> NoRequest]
  /\ sched = [s \in Schedulers |-> NoPass]

-----------------------------------------------------------------------------
(* propose_revision.                                                       *)

Request(u, r) == user' = [user EXCEPT ![u] = r]

BeginPropose(u) ==
  /\ user[u].pc = "idle"
  /\ plan.state \in {"draft", "proposed"}
  /\ plan.number < MaxRevisions
  /\ Request(u, Local("proposing", plan.number + 1, plan.state, 0))
  /\ UNCHANGED <<plan, rev, decisions, handoff, execs, sched>>

CommitPropose(u) ==
  LET n == user[u].expected IN
  /\ user[u].pc = "proposing"
  /\ rev[n] = "none"
  /\ rev' = [rev EXCEPT ![n] = "proposed"]
  /\ plan' = [state |-> "proposed", number |-> n]
  /\ Request(u, NoRequest)
  /\ UNCHANGED <<decisions, handoff, execs, sched>>

\* UNIQUE (plan_id, revision_number) fails the insert.
ProposeRefused(u) ==
  /\ user[u].pc = "proposing"
  /\ rev[user[u].expected] # "none"
  /\ Request(u, NoRequest)
  /\ UNCHANGED <<plan, rev, decisions, handoff, execs, sched>>

-----------------------------------------------------------------------------
(* approve_revision and reject_revision.                                   *)

\* The plan is read and the revision number the caller named is compared.
BeginDecision(u, pc) ==
  /\ user[u].pc = "idle"
  /\ plan.number > 0
  /\ Request(u, Local(pc, plan.number, plan.state, 0))
  /\ UNCHANGED <<plan, rev, decisions, handoff, execs, sched>>

\* get_current_revision reads the plan again.  A revision that has this
\* decision already is returned; otherwise the state that was read first
\* decides whether the transition is valid.
ReadRevision(u, pc, next, result) ==
  /\ user[u].pc = pc
  /\ Request(u, IF <<plan.number, result>> \notin decisions /\ user[u].saw = "proposed"
                THEN Local(next, user[u].expected, user[u].saw, plan.number)
                ELSE NoRequest)
  /\ UNCHANGED <<plan, rev, decisions, handoff, execs, sched>>

\* The transaction looks again for an approval of the revision, and at
\* nothing else.
CommitApprove(u) ==
  LET n == user[u].rev IN
  /\ user[u].pc = "approving"
  /\ IF <<n, "approved">> \in decisions
     THEN UNCHANGED <<plan, rev, decisions, handoff>>
     ELSE /\ decisions' = decisions \cup {<<n, "approved">>}
          /\ rev' = [rev EXCEPT ![n] = "approved"]
          /\ plan' = [plan EXCEPT !.state = "approved"]
          /\ handoff' = [handoff EXCEPT ![n] = "unclaimed"]
  /\ Request(u, NoRequest)
  /\ UNCHANGED <<execs, sched>>

\* The transaction of reject_revision looks at nothing.
CommitReject(u) ==
  LET n == user[u].rev IN
  /\ user[u].pc = "rejecting"
  /\ decisions' = decisions \cup {<<n, "rejected">>}
  /\ rev' = [rev EXCEPT ![n] = "rejected"]
  /\ plan' = [plan EXCEPT !.state = "rejected"]
  /\ Request(u, NoRequest)
  /\ UNCHANGED <<handoff, execs, sched>>

-----------------------------------------------------------------------------
(* The scheduler's pass over one handoff (SchedulerService.run_once), and  *)
(* the part of create_execution_from_handoff that concerns the plan.       *)

Pass(s, pc, n) == sched' = [sched EXCEPT ![s] = [pc |-> pc, rev |-> n]]

\* list_unclaimed_handoffs; the decomposition of the revision into tasks,
\* which may take minutes, follows.
ListHandoff(s, n) ==
  /\ sched[s].pc = "idle"
  /\ handoff[n] = "unclaimed"
  /\ Pass(s, "listed", n)
  /\ UNCHANGED <<plan, rev, decisions, handoff, execs, user>>

\* PlanNotApprovedError, or the execution that exists already.
BeginExecution(s) ==
  LET n == sched[s].rev IN
  /\ sched[s].pc = "listed"
  /\ IF plan.state = "approved" /\ n \notin execs
     THEN Pass(s, "creating", n) ELSE Pass(s, "idle", 1)
  /\ UNCHANGED <<plan, rev, decisions, handoff, execs, user>>

\* MUTANT of CommitExecution: the handoff is not marked.
ClaimForgotten(s) ==
  /\ sched[s].pc = "creating"
  /\ execs' = execs \cup {sched[s].rev}
  /\ Pass(s, "idle", 1)
  /\ UNCHANGED <<plan, rev, decisions, handoff, user>>

\* Reads the executions again, and not the plan.
CommitExecution(s) ==
  LET n == sched[s].rev IN
  /\ sched[s].pc = "creating"
  /\ execs' = execs \cup {n}
  /\ handoff' = IF n \in execs THEN handoff ELSE [handoff EXCEPT ![n] = "claimed"]
  /\ Pass(s, "idle", 1)
  /\ UNCHANGED <<plan, rev, decisions, user>>

\* An OSError, RuntimeError or ValueError ends the pass; the next tick lists
\* the handoff again.
PassFails(s) ==
  /\ sched[s].pc # "idle"
  /\ Pass(s, "idle", 1)
  /\ UNCHANGED <<plan, rev, decisions, handoff, execs, user>>

-----------------------------------------------------------------------------
UserStep(u) ==
  \/ BeginPropose(u) \/ CommitPropose(u) \/ ProposeRefused(u)
  \/ BeginDecision(u, "approve") \/ ReadRevision(u, "approve", "approving", "approved")
  \/ BeginDecision(u, "reject")  \/ ReadRevision(u, "reject", "rejecting", "rejected")
  \/ CommitApprove(u) \/ CommitReject(u)

SchedulerStep(s) ==
  BeginExecution(s) \/ CommitExecution(s) \/ \E n \in Revs : ListHandoff(s, n)

Next ==
  \/ \E u \in Users : UserStep(u)
  \/ \E s \in Schedulers : SchedulerStep(s) \/ PassFails(s)

Spec == Init /\ [][Next]_vars

\* The scheduler loop ticks for ever and takes up every handoff it lists
\* again and again; a database error does not hit one handoff's transaction
\* every time.  Nothing makes a human decide.
Fairness ==
  \A s \in Schedulers :
    /\ \A n \in Revs : SF_vars(ListHandoff(s, n))
    /\ SF_vars(BeginExecution(s))
    /\ SF_vars(CommitExecution(s))

FairSpec == Spec /\ Fairness

-----------------------------------------------------------------------------
(* Invariants.                                                             *)

\* The paper trail from decision to execution stays whole, whatever requests
\* and ticks interleave: a revision has a handoff exactly when it was
\* approved, and an execution exactly when that handoff is marked claimed
\* ("approval + audit evidence + handoff record should become durable
\* together", plan_service; one handoff and one execution per revision).
PaperTrail ==
  \A n \in Revs :
    /\ handoff[n] # "none" <=> <<n, "approved">> \in decisions
    /\ handoff[n] = "claimed" <=> n \in execs

\* No proposal is lost or written over by another made at the same time: the
\* revisions are numbered without a gap up to the plan's current number, and
\* the decided ones are those a decision was recorded for.
NumbersContiguous ==
  \A n \in Revs :
    /\ rev[n] # "none" <=> n <= plan.number
    /\ rev[n] \in Results <=> \E result \in Results : <<n, result>> \in decisions
=============================================================================
