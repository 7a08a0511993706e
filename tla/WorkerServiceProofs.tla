------------------------ MODULE WorkerServiceProofs ------------------------
(***************************************************************************)
(* Proofs about WorkerService, for every graph size, every number of       *)
(* workers and operators, and every bound on attempts.                     *)
(***************************************************************************)
EXTENDS WorkerService, FiniteSetTheorems, TLAPS

(***************************************************************************)
(* Facts about the operators the handlers are built from.                  *)
(***************************************************************************)

\* What _recompute_readiness may do to a task: only a pending or blocked
\* task moves, and only to pending, ready or blocked.
LEMMA RecomputedFacts ==
  ASSUME NEW d, NEW s \in [Tasks -> TaskState], NEW r \in Recomputed(d, s)
  PROVE  /\ r \in [Tasks -> TaskState]
         /\ \A t \in Tasks : s[t] \notin {"pending", "blocked"} => r[t] = s[t]
         /\ \A t \in Tasks : s[t] \in {"pending", "blocked"} => r[t] \in {"pending", "ready", "blocked"}
<1>1. PICK f \in [Movable(s) -> {"pending", "ready", "blocked"}] : r = Overlay(s, f)
  BY DEF Recomputed
<1>2. \A t \in Tasks : r[t] = IF t \in Movable(s) THEN f[t] ELSE s[t]
  BY <1>1 DEF Overlay
<1>3. r = [t \in Tasks |-> r[t]]
  BY <1>1 DEF Overlay
<1> QED
  BY <1>2, <1>3 DEF Movable, TaskState

\* _maybe_complete_execution yields an execution state.
LEMMA SettledType ==
  ASSUME NEW e \in ExecState, NEW s, NEW a
  PROVE  Settled(e, s, a) \in ExecState
BY DEF Settled, ExecState

LEMMA ResumedType ==
  ASSUME NEW e \in ExecState, NEW s
  PROVE  Resumed(e, s) \in ExecState
BY DEF Resumed, ExecState

\* The record every idle worker and every idle operator has.
LEMMA IdleTypes == Free \in WorkerState /\ NoCall \in CallerState
<1>1. 1 \in Tasks /\ 1 \in Nums
  BY GraphNotEmpty, BoundPositive DEF Tasks, Nums
<1> QED
  BY <1>1 DEF Free, NoCall, WorkerState, CallerState, ExecState

-----------------------------------------------------------------------------
(***************************************************************************)
(* Type correctness.                                                       *)
(***************************************************************************)

LEMMA InitType == Init => TypeOK
<1>1. Init => /\ exec \in ExecState
              /\ deps \in [Tasks -> SUBSET Tasks]
              /\ task \in [Tasks -> TaskState]
              /\ att \in [Tasks -> [Nums -> AttState]]
  BY DEF Init, ExecState, TaskState, AttState
<1>2. Init => worker \in [Workers -> WorkerState] /\ caller \in [Operators -> CallerState]
  BY IdleTypes DEF Init
<1> QED
  BY <1>1, <1>2 DEF TypeOK

\* The common end of the calls that report an outcome.
LEMMA ReportType ==
  ASSUME TypeOK, NEW w \in Workers, NEW a \in AttState, NEW s \in TaskState, Report(w, a, s)
  PROVE  TypeOK'
<1>1. worker[w] \in WorkerState
  BY DEF TypeOK
<1>2. worker[w].task \in Tasks /\ worker[w].num \in Nums
  BY <1>1 DEF WorkerState
<1>3. SetTask(w, s) \in [Tasks -> TaskState]
  BY <1>2 DEF SetTask, TypeOK
<1>4. SetAttempt(w, a) \in [Tasks -> [Nums -> AttState]]
  BY <1>2 DEF SetAttempt, TypeOK
<1>5. PICK r \in Recomputed(deps, SetTask(w, s)) :
         task' = r /\ exec' = Settled(exec, r, SetAttempt(w, a))
  BY DEF Report, Finish
<1>6. task' \in [Tasks -> TaskState]
  BY <1>3, <1>5, RecomputedFacts
<1>7. exec' \in ExecState
  BY <1>5, SettledType DEF TypeOK
<1>8. att' \in [Tasks -> [Nums -> AttState]]
  BY <1>4 DEF Report, Finish
<1>9. worker' \in [Workers -> WorkerState]
  BY IdleTypes DEF Report, TypeOK
<1> QED
  BY <1>6, <1>7, <1>8, <1>9 DEF Report, TypeOK

\* A handler that only moves the worker to another point of its program.
LEMMA GotoType ==
  ASSUME TypeOK, NEW w \in Workers, NEW pc \in {"idle"} \cup Holding, Goto(w, pc)
  PROVE  TypeOK'
<1>1. worker[w] \in WorkerState
  BY DEF TypeOK
<1>2. [worker[w] EXCEPT !.pc = pc] \in WorkerState
  BY <1>1 DEF WorkerState, Holding
<1>3. worker' \in [Workers -> WorkerState]
  BY <1>2, IdleTypes DEF Goto, TypeOK
<1> QED
  BY <1>3 DEF Goto, TypeOK

LEMMA CallType ==
  ASSUME TypeOK, NEW o \in Operators, NEW t \in Tasks,
         NEW pc \in {"idle", "cancel", "tick", "requeue", "reconcile"}, Call(o, pc, t)
  PROVE  TypeOK'
<1>1. [pc |-> pc, task |-> t] \in CallerState
  BY DEF CallerState
<1>2. caller' \in [Operators -> CallerState]
  BY <1>1 DEF Call, TypeOK
<1> QED
  BY <1>2 DEF Call, TypeOK

LEMMA ReclaimType ==
  ASSUME TypeOK, Reclaim
  PROVE  TypeOK'
<1> DEFINE a == [t \in Tasks |-> [n \in Nums |->
              IF Abandoned(t) /\ LatestOpen(t, n) THEN "unknown" ELSE att[t][n]]]
           s == [t \in Tasks |-> IF Abandoned(t) THEN "ready" ELSE task[t]]
<1>1. a \in [Tasks -> [Nums -> AttState]]
  BY DEF TypeOK, AttState
<1>2. s \in [Tasks -> TaskState]
  BY DEF TypeOK, TaskState
<1>3. PICK r \in Recomputed(deps, s) :
         task' = r /\ exec' = Resumed(Settled(exec, r, a), r)
  BY DEF Reclaim
<1>4. task' \in [Tasks -> TaskState]
  BY <1>2, <1>3, RecomputedFacts
<1>5. exec' \in ExecState
  BY <1>3, SettledType, ResumedType DEF TypeOK
<1> QED
  BY <1>1, <1>4, <1>5 DEF Reclaim, TypeOK

LEMMA StepType == TypeOK /\ [Next]_vars => TypeOK'
<1> SUFFICES ASSUME TypeOK, [Next]_vars
             PROVE  TypeOK'
  OBVIOUS
<1>1. CASE Create
  <2>1. deps' \in [Tasks -> SUBSET Tasks]
    BY <1>1 DEF Create, Graphs
  <2>2. task' \in [Tasks -> TaskState]
    BY <1>1, RecomputedFacts DEF Create, TypeOK
  <2> QED
    BY <1>1, <2>1, <2>2 DEF Create, TypeOK, ExecState
<1>2. ASSUME NEW w \in Workers, NEW t \in Tasks, Pick(w, t)
      PROVE  TypeOK'
  <2>1. [Free EXCEPT !.pc = "picked", !.task = t] \in WorkerState
    BY IdleTypes DEF WorkerState
  <2> QED
    BY <1>2, <2>1 DEF Pick, TypeOK
<1>3. ASSUME NEW w \in Workers, WorkerStep(w) \/ Crash(w)
      PROVE  TypeOK'
  <2>0. worker[w] \in WorkerState
    BY DEF TypeOK
  <2>1. CASE BeginClaim(w)
    <3>1. [worker[w] EXCEPT !.pc = "claiming", !.seen = exec] \in WorkerState
      BY <2>0 DEF WorkerState, TypeOK
    <3>2. worker' = [worker EXCEPT ![w] = [worker[w] EXCEPT !.pc = "claiming", !.seen = exec]]
      BY <2>1 DEF BeginClaim, TypeOK
    <3> QED
      BY <2>1, <3>1, <3>2 DEF BeginClaim, TypeOK
  <2>2. CASE CommitClaim(w)
    <3>1. worker[w].task \in Tasks
      BY <2>0 DEF WorkerState
    <3>2. PICK n \in Nums :
            /\ att' = [att EXCEPT ![worker[w].task][n] = "running"]
            /\ worker' = [worker EXCEPT ![w] =
                 [Free EXCEPT !.pc = "busy", !.task = worker[w].task, !.num = n]]
      BY <2>2 DEF CommitClaim
    <3>3. [Free EXCEPT !.pc = "busy", !.task = worker[w].task, !.num = n] \in WorkerState
      BY <3>1, IdleTypes DEF WorkerState, Holding
    <3>4. worker' \in [Workers -> WorkerState]
      BY <3>2, <3>3 DEF TypeOK
    <3>5. att' \in [Tasks -> [Nums -> AttState]]
      BY <3>1, <3>2 DEF TypeOK, AttState
    <3>6. task' \in [Tasks -> TaskState]
      BY <2>2, <3>1 DEF CommitClaim, TypeOK, TaskState
    <3>7. exec' \in ExecState
      BY <2>2 DEF CommitClaim, TypeOK, ExecState
    <3> QED
      BY <2>2, <3>4, <3>5, <3>6, <3>7 DEF CommitClaim, TypeOK
  <2>3. CASE ClaimRefused(w)
    BY <2>3, IdleTypes DEF ClaimRefused, TypeOK
  <2>4. CASE BeginComplete(w)
    BY <2>4, GotoType DEF BeginComplete, Holding
  <2>5. CASE CommitComplete(w)
    BY <2>5, ReportType DEF CommitComplete, AttState, TaskState
  <2>6. CASE CompleteRaises(w)
    BY <2>6, GotoType DEF CompleteRaises, Holding
  <2>7. CASE BeginFail(w)
    BY <2>7, GotoType DEF BeginFail, Holding
  <2>8. CASE CommitFail(w)
    BY <2>8, ReportType DEF CommitFail, AttState, TaskState
  <2>9. CASE BeginUnknown(w)
    BY <2>9, GotoType DEF BeginUnknown, Holding
  <2>10. CASE CommitUnknown(w)
    BY <2>10, ReportType DEF CommitUnknown, AttState, TaskState
  <2>11. CASE BeginCancelTask(w)
    BY <2>11, GotoType DEF BeginCancelTask, Holding
  <2>12. CASE CommitCancelTask(w)
    BY <2>12, ReportType DEF CommitCancelTask, AttState, TaskState
  <2>13. CASE ReportRefused(w)
    BY <2>13, GotoType DEF ReportRefused
  <2>14. CASE Crash(w)
    BY <2>14, GotoType DEF Crash
  <2> QED
    BY <1>3, <2>1, <2>2, <2>3, <2>4, <2>5, <2>6, <2>7, <2>8, <2>9, <2>10, <2>11,
       <2>12, <2>13, <2>14 DEF WorkerStep
<1>4. ASSUME NEW o \in Operators, OperatorStep(o)
      PROVE  TypeOK'
  <2>0. caller[o].task \in Tasks /\ 1 \in Tasks
    BY GraphNotEmpty DEF TypeOK, CallerState, Tasks
  <2>1. CASE BeginCancel(o)
    BY <2>0, <2>1, CallType DEF BeginCancel
  <2>2. CASE CommitCancel(o)
    <3>1. task' \in [Tasks -> TaskState] /\ att' \in [Tasks -> [Nums -> AttState]]
      BY <2>2 DEF CommitCancel, TypeOK, TaskState, AttState
    <3>2. caller' \in [Operators -> CallerState]
      BY <2>2, IdleTypes DEF CommitCancel, TypeOK
    <3> QED
      BY <2>2, <3>1, <3>2 DEF CommitCancel, TypeOK, ExecState
  <2>3. CASE BeginTick(o)
    BY <2>0, <2>3, CallType DEF BeginTick
  <2>4. CASE EndTick(o)
    BY <2>0, <2>4, CallType DEF EndTick
  <2>5. CASE CommitRequeue(o)
    <3>1. [NoCall EXCEPT !.pc = "tick"] \in CallerState
      BY IdleTypes DEF CallerState
    <3>2. task' \in [Tasks -> TaskState]
      BY <2>0, <2>5 DEF CommitRequeue, TypeOK, TaskState
    <3> QED
      BY <2>5, <3>1, <3>2 DEF CommitRequeue, TypeOK
  <2>6. CASE CommitReconcile(o)
    <3> DEFINE s == [task EXCEPT ![caller[o].task] = "ready"]
    <3>1. s \in [Tasks -> TaskState] /\ task' \in Recomputed(deps, s)
      BY <2>0, <2>6 DEF CommitReconcile, TypeOK, TaskState
    <3> HIDE DEF s
    <3>2. task' \in [Tasks -> TaskState]
      BY <3>1, RecomputedFacts
    <3> QED
      BY <2>6, <3>2, IdleTypes DEF CommitReconcile, TypeOK
  <2>7. ASSUME NEW t \in Tasks, BeginRequeue(o, t) \/ BeginReconcile(o, t)
        PROVE  TypeOK'
    BY <2>7, CallType DEF BeginRequeue, BeginReconcile
  <2> QED
    BY <1>4, <2>1, <2>2, <2>3, <2>4, <2>5, <2>6, <2>7 DEF OperatorStep
<1>5. ASSUME NEW t \in Tasks, NEW n \in Nums, LeaseExpires(t, n)
      PROVE  TypeOK'
  BY <1>5 DEF LeaseExpires, TypeOK, AttState
<1>6. CASE Recover \/ ReconcileExpiredLeases
  BY <1>6, ReclaimType DEF Recover, ReconcileExpiredLeases
<1>7. CASE UNCHANGED vars
  BY <1>7 DEF vars, TypeOK
<1> QED
  BY <1>1, <1>2, <1>3, <1>4, <1>5, <1>6, <1>7 DEF Next

\* Every reachable state is well typed.
THEOREM TypeCorrect == Spec => []TypeOK
<1>1. TypeOK /\ [Next]_vars => TypeOK'
  BY StepType
<1> QED
  BY <1>1, InitType, PTL DEF Spec

-----------------------------------------------------------------------------
(***************************************************************************)
(* Ended attempts are final.  This needs typing only: every handler checks *)
(* the attempt it writes inside its transaction.                           *)
(***************************************************************************)

LEMMA StepKeepsAttempts == TypeOK /\ [Next]_vars => [EndedAttemptsKept]_vars
<1> SUFFICES ASSUME TypeOK, [Next]_vars
             PROVE  EndedAttemptsKept \/ UNCHANGED vars
  OBVIOUS
<1> USE DEF EndedAttemptsKept, TypeOK
<1>1. ASSUME NEW w \in Workers, Attempt(w) \in Open,
             NEW a, NEW s, Report(w, a, s)
      PROVE  EndedAttemptsKept
  <2>1. worker[w].task \in Tasks /\ worker[w].num \in Nums
    BY DEF WorkerState
  <2>2. att' = SetAttempt(w, a)
    BY <1>1 DEF Report, Finish
  <2> QED
    BY <1>1, <2>1, <2>2 DEF SetAttempt, Attempt, Open
<1>2. ASSUME NEW w \in Workers, CommitClaim(w)
      PROVE  EndedAttemptsKept
  <2>1. PICK n \in Nums : NextNumber(worker[w].task, n)
                          /\ att' = [att EXCEPT ![worker[w].task][n] = "running"]
    BY <1>2 DEF CommitClaim
  <2>2. worker[w].task \in Tasks
    BY DEF WorkerState
  <2>3. att[worker[w].task][n] = "none"
    BY <2>1 DEF NextNumber, Nums
  <2> QED
    BY <2>1, <2>2, <2>3
<1>3. ASSUME Reclaim
      PROVE  EndedAttemptsKept
  BY <1>3 DEF Reclaim, LatestOpen, Open
<1>4. ASSUME NEW o \in Operators, CommitCancel(o)
      PROVE  EndedAttemptsKept
  BY <1>4 DEF CommitCancel, Open
<1>5. ASSUME NEW t \in Tasks, NEW n \in Nums, LeaseExpires(t, n)
      PROVE  EndedAttemptsKept
  BY <1>5 DEF LeaseExpires
<1>6. ASSUME UNCHANGED att
      PROVE  EndedAttemptsKept
  BY <1>6
<1>7. CASE Create
  BY <1>6, <1>7 DEF Create
<1>8. ASSUME NEW w \in Workers, WorkerStep(w) \/ Crash(w) \/ \E t \in Tasks : Pick(w, t)
      PROVE  EndedAttemptsKept
  <2>1. CASE CommitComplete(w) \/ CommitFail(w) \/ CommitUnknown(w) \/ CommitCancelTask(w)
    BY <1>1, <2>1 DEF CommitComplete, CommitFail, CommitUnknown, CommitCancelTask, Open
  <2>2. CASE CommitClaim(w)
    BY <1>2, <2>2
  <2>3. CASE BeginClaim(w) \/ ClaimRefused(w) \/ \E t \in Tasks : Pick(w, t)
    BY <1>6, <2>3 DEF BeginClaim, ClaimRefused, Pick
  <2>4. CASE \/ BeginComplete(w) \/ CompleteRaises(w) \/ BeginFail(w) \/ BeginUnknown(w)
             \/ BeginCancelTask(w) \/ ReportRefused(w) \/ Crash(w)
    <3>1. UNCHANGED att
      BY <2>4 DEF BeginComplete, CompleteRaises, BeginFail, BeginUnknown,
                  BeginCancelTask, ReportRefused, Crash, Goto
    <3> QED
      BY <1>6, <3>1
  <2> QED
    BY <1>8, <2>1, <2>2, <2>3, <2>4 DEF WorkerStep
<1>9. ASSUME NEW o \in Operators, OperatorStep(o)
      PROVE  EndedAttemptsKept
  <2>1. CASE CommitCancel(o)
    BY <1>4, <2>1
  <2>2. CASE ~CommitCancel(o)
    <3>1. UNCHANGED att
      BY <1>9, <2>2 DEF OperatorStep, BeginCancel, BeginTick, EndTick, BeginRequeue,
           CommitRequeue, BeginReconcile, CommitReconcile, Call
    <3> QED
      BY <1>6, <3>1
  <2> QED
    BY <2>1, <2>2
<1> QED
  BY <1>3, <1>5, <1>7, <1>8, <1>9 DEF Next, Recover, ReconcileExpiredLeases

\* No step rewrites an attempt that ended.
THEOREM AttemptsFinal == Spec => AttemptFinal
BY TypeCorrect, StepKeepsAttempts, PTL DEF Spec, AttemptFinal

-----------------------------------------------------------------------------
(***************************************************************************)
(* Ownership, where no operation revives a task (NoRevival).               *)
(*                                                                         *)
(* SingleOwner, AcceptedOnce and CancelSticks hold each other up: a report *)
(* is accepted from an open attempt, so its task is running (SingleOwner), *)
(* so it is not yet completed (AcceptedOnce) nor cancelled (CancelSticks); *)
(* and a claim finds a task ready, so it has no open attempt.  The last    *)
(* conjunct says what NoRevival buys: no call is under way that would set  *)
(* a task ready on the strength of a state it read earlier.                *)
(***************************************************************************)

NoReviverCalled == \A o \in Operators : caller[o].pc \in {"idle", "cancel"}

OwnershipInv ==
  TypeOK /\ SingleOwner /\ AcceptedOnce /\ CancelSticks /\ NoReviverCalled

LEMMA InitOwnership == Init => OwnershipInv
<1>1. Init => SingleOwner /\ AcceptedOnce /\ CancelSticks
  BY DEF Init, SingleOwner, AcceptedOnce, CancelSticks, Open
<1>2. Init => NoReviverCalled
  BY DEF Init, NoReviverCalled, NoCall
<1> QED
  BY <1>1, <1>2, InitType DEF OwnershipInv

\* Settling never cancels an execution, nor leaves "cancelled".
LEMMA CancelledIsNotSettled ==
  ASSUME NEW e, NEW s, NEW a, NEW r
  PROVE  /\ Settled(e, s, a) = "cancelled" => e = "cancelled"
         /\ Resumed(e, r) = "cancelled" => e = "cancelled"
BY DEF Settled, Resumed

\* An outcome accepted from an open attempt.
LEMMA ReportOwnership ==
  ASSUME OwnershipInv, NEW w \in Workers, Attempt(w) \in Open,
         NEW a \in {"succeeded", "failed", "cancelled", "unknown"},
         NEW s \in {"completed", "failed", "cancelled", "awaiting"},
         a = "succeeded" <=> s = "completed",
         Report(w, a, s)
  PROVE  OwnershipInv' /\ TerminalTasksKept
<1> DEFINE t0 == worker[w].task
           n0 == worker[w].num
<1>1. t0 \in Tasks /\ n0 \in Nums
  BY DEF OwnershipInv, TypeOK, WorkerState
<1>2. TypeOK'
  BY ReportType DEF OwnershipInv, AttState, TaskState
<1>3. SetTask(w, s) \in [Tasks -> TaskState]
  BY <1>1 DEF SetTask, OwnershipInv, TypeOK, TaskState
<1>4. PICK r \in Recomputed(deps, SetTask(w, s)) :
         task' = r /\ exec' = Settled(exec, r, SetAttempt(w, a))
  BY DEF Report, Finish
<1>5. /\ \A t \in Tasks : SetTask(w, s)[t] \notin {"pending", "blocked"} => task'[t] = SetTask(w, s)[t]
      /\ \A t \in Tasks : SetTask(w, s)[t] \in {"pending", "blocked"}
                             => task'[t] \in {"pending", "ready", "blocked"}
  BY <1>3, <1>4, RecomputedFacts
<1>6. \A t \in Tasks : SetTask(w, s)[t] = IF t = t0 THEN s ELSE task[t]
  BY <1>1 DEF SetTask, OwnershipInv, TypeOK
<1>7. \A t \in Tasks, n \in Nums : att'[t][n] = IF t = t0 /\ n = n0 THEN a ELSE att[t][n]
  BY <1>1 DEF Report, Finish, SetAttempt, OwnershipInv, TypeOK
<1>8. task[t0] = "running" /\ att[t0][n0] \in Open
  BY <1>1 DEF OwnershipInv, SingleOwner, Attempt
<1>9. task'[t0] = s
  BY <1>1, <1>5, <1>6
<1>10. \A t \in Tasks \ {t0} : /\ task'[t] = "running" <=> task[t] = "running"
                               /\ task'[t] = "completed" <=> task[t] = "completed"
  BY <1>5, <1>6
<1>11. SingleOwner'
  BY <1>1, <1>7, <1>8, <1>9, <1>10 DEF OwnershipInv, SingleOwner, Open
<1>12. AcceptedOnce'
  BY <1>1, <1>7, <1>8, <1>9, <1>10 DEF OwnershipInv, AcceptedOnce, Open
<1>13. exec' # "cancelled"
  BY <1>1, <1>4, <1>8, CancelledIsNotSettled DEF OwnershipInv, CancelSticks
<1>14. CancelSticks' /\ NoReviverCalled'
  BY <1>13 DEF CancelSticks, NoReviverCalled, OwnershipInv, Report
<1>15. TerminalTasksKept
  BY <1>5, <1>6, <1>8 DEF TerminalTasksKept, TerminalTask
<1> QED
  BY <1>2, <1>11, <1>12, <1>14, <1>15 DEF OwnershipInv

\* Lease recovery ends the open attempt of every task it hands back.
LEMMA ReclaimOwnership ==
  ASSUME OwnershipInv, Reclaim
  PROVE  OwnershipInv' /\ TerminalTasksKept
<1> DEFINE a == [t \in Tasks |-> [n \in Nums |->
              IF Abandoned(t) /\ LatestOpen(t, n) THEN "unknown" ELSE att[t][n]]]
           s == [t \in Tasks |-> IF Abandoned(t) THEN "ready" ELSE task[t]]
<1>1. TypeOK'
  BY ReclaimType DEF OwnershipInv
<1>2. s \in [Tasks -> TaskState] /\ att' = a
  BY DEF OwnershipInv, TypeOK, TaskState, Reclaim
<1>3. PICK r \in Recomputed(deps, s) :
         task' = r /\ exec' = Resumed(Settled(exec, r, a), r)
  BY DEF Reclaim
<1>4. /\ \A t \in Tasks : s[t] \notin {"pending", "blocked"} => task'[t] = s[t]
      /\ \A t \in Tasks : s[t] \in {"pending", "blocked"} => task'[t] \in {"pending", "ready", "blocked"}
  <2> HIDE DEF s
  <2> QED BY <1>2, <1>3, RecomputedFacts
<1>5. \A t \in Tasks : Abandoned(t) => task[t] = "running" /\ task'[t] = "ready"
  BY <1>4 DEF Abandoned
<1>6. \A t \in Tasks : ~Abandoned(t) =>
         /\ task'[t] = "running" <=> task[t] = "running"
         /\ task'[t] = "completed" <=> task[t] = "completed"
         /\ task[t] \in TerminalTask => task'[t] = task[t]
  BY <1>4 DEF TerminalTask
<1>7. \A t \in Tasks, n \in Nums :
         /\ att'[t][n] = "succeeded" <=> att[t][n] = "succeeded"
         /\ att'[t][n] \in Open => att[t][n] \in Open
         /\ ~Abandoned(t) => att'[t][n] = att[t][n]
  BY <1>2 DEF LatestOpen, Open
<1>8. ASSUME NEW t \in Tasks, NEW n \in Nums, Abandoned(t)
      PROVE  att'[t][n] \notin Open
  <2>1. CASE att[t][n] \in Open
    <3>1. \A m \in (n + 1)..MaxAttempts : m \in Nums /\ m # n
      BY BoundPositive DEF Nums
    <3>2. LatestOpen(t, n)
      BY <2>1, <3>1 DEF LatestOpen, OwnershipInv, SingleOwner
    <3> QED
      BY <1>2, <1>8, <3>2 DEF Open
  <2>2. CASE att[t][n] \notin Open
    BY <1>7, <2>2
  <2> QED
    BY <2>1, <2>2
<1>9. SingleOwner'
  BY <1>5, <1>6, <1>7, <1>8 DEF OwnershipInv, SingleOwner
<1>10. AcceptedOnce'
  BY <1>5, <1>6, <1>7 DEF OwnershipInv, AcceptedOnce
<1>11. TerminalTasksKept
  BY <1>5, <1>6 DEF TerminalTasksKept, TerminalTask
<1>12. exec' = "cancelled" => exec = "cancelled"
  BY <1>3, CancelledIsNotSettled
<1>13. CancelSticks'
  BY <1>7, <1>11, <1>12 DEF OwnershipInv, CancelSticks, TerminalTasksKept
<1> QED
  BY <1>1, <1>9, <1>10, <1>11, <1>13 DEF OwnershipInv, NoReviverCalled, Reclaim

\* A claim: the task was ready, so no attempt of it is open, and the new
\* attempt is its only owner.
LEMMA ClaimOwnership ==
  ASSUME OwnershipInv, NEW w \in Workers, CommitClaim(w), TypeOK'
  PROVE  OwnershipInv' /\ TerminalTasksKept
<1> DEFINE t0 == worker[w].task
<1>1. t0 \in Tasks /\ task[t0] = "ready"
  BY DEF OwnershipInv, TypeOK, WorkerState, CommitClaim
<1>2. PICK n0 \in Nums : NextNumber(t0, n0) /\ att' = [att EXCEPT ![t0][n0] = "running"]
  BY DEF CommitClaim
<1>3. att[t0][n0] = "none"
  BY <1>2 DEF NextNumber, Nums
<1>4. \A t \in Tasks, n \in Nums :
         att'[t][n] = IF t = t0 /\ n = n0 THEN "running" ELSE att[t][n]
  BY <1>1, <1>2 DEF OwnershipInv, TypeOK
<1>5. \A t \in Tasks : task'[t] = IF t = t0 THEN "running" ELSE task[t]
  BY <1>1 DEF OwnershipInv, TypeOK, CommitClaim
<1>6. \A n \in Nums : att[t0][n] \notin Open /\ att[t0][n] # "succeeded"
  BY <1>1 DEF OwnershipInv, SingleOwner, AcceptedOnce
<1>7. SingleOwner'
  BY <1>1, <1>4, <1>5, <1>6 DEF OwnershipInv, SingleOwner, Open
<1>8. AcceptedOnce'
  BY <1>1, <1>3, <1>4, <1>5, <1>6 DEF OwnershipInv, AcceptedOnce
<1>9. exec # "cancelled" /\ exec' # "cancelled"
  BY <1>1 DEF OwnershipInv, CancelSticks, TerminalTask, CommitClaim
<1>10. CancelSticks'
  BY <1>9 DEF CancelSticks
<1>11. TerminalTasksKept
  BY <1>1, <1>5 DEF TerminalTasksKept, TerminalTask
<1> QED
  BY <1>7, <1>8, <1>10, <1>11 DEF OwnershipInv, NoReviverCalled, CommitClaim

\* Cancellation ends every open attempt: an open attempt belongs to a running
\* task, which is not terminal.
LEMMA CancelOwnership ==
  ASSUME OwnershipInv, NEW o \in Operators, CommitCancel(o), TypeOK'
  PROVE  OwnershipInv' /\ TerminalTasksKept
<1>1. \A t \in Tasks : task'[t] = IF task[t] \in TerminalTask THEN task[t] ELSE "cancelled"
  BY DEF CommitCancel
<1>2. \A t \in Tasks, n \in Nums :
         /\ att'[t][n] \notin Open
         /\ att'[t][n] = "succeeded" <=> att[t][n] = "succeeded"
  BY DEF CommitCancel, OwnershipInv, SingleOwner, TypeOK, Open, TerminalTask
<1>3. SingleOwner' /\ CancelSticks' /\ TerminalTasksKept
  BY <1>1, <1>2 DEF SingleOwner, CancelSticks, TerminalTasksKept, TerminalTask
<1>4. AcceptedOnce'
  BY <1>1, <1>2 DEF OwnershipInv, AcceptedOnce, TerminalTask
<1>5. NoReviverCalled'
  BY DEF CommitCancel, OwnershipInv, NoReviverCalled, TypeOK, NoCall
<1> QED
  BY <1>3, <1>4, <1>5 DEF OwnershipInv

\* Steps that write neither a task nor the execution, and only age leases.
LEMMA QuietOwnership ==
  ASSUME OwnershipInv, TypeOK', NoReviverCalled', UNCHANGED <<exec, task>>,
         \A t \in Tasks, n \in Nums :
            \/ att'[t][n] = att[t][n]
            \/ att[t][n] = "running" /\ att'[t][n] = "lapsed"
  PROVE  OwnershipInv' /\ TerminalTasksKept
<1>1. \A t \in Tasks, n \in Nums :
         /\ att'[t][n] \in Open <=> att[t][n] \in Open
         /\ att'[t][n] = "succeeded" <=> att[t][n] = "succeeded"
  BY DEF Open
<1> QED
  BY <1>1 DEF OwnershipInv, SingleOwner, AcceptedOnce, CancelSticks, TerminalTasksKept

LEMMA StepOwnership ==
  ASSUME NoRevival
  PROVE  OwnershipInv /\ [Next]_vars => OwnershipInv' /\ [TerminalTasksKept]_vars
<1> SUFFICES ASSUME OwnershipInv, [Next]_vars
             PROVE  OwnershipInv' /\ (TerminalTasksKept \/ UNCHANGED vars)
  OBVIOUS
<1>0. TypeOK'
  BY StepType DEF OwnershipInv
<1>1. CASE Create
  <2>1. /\ \A t \in Tasks : task[t] \notin {"pending", "blocked"} => task'[t] = task[t]
        /\ \A t \in Tasks : task[t] \in {"pending", "blocked"}
                               => task'[t] \in {"pending", "ready", "blocked"}
    BY <1>1, RecomputedFacts DEF Create, OwnershipInv, TypeOK
  <2>2. \A t \in Tasks : /\ task'[t] = "running" <=> task[t] = "running"
                         /\ task'[t] = "completed" <=> task[t] = "completed"
    BY <2>1
  <2>3. TerminalTasksKept
    BY <2>1 DEF TerminalTasksKept, TerminalTask
  <2> QED
    BY <1>0, <1>1, <2>2, <2>3 DEF Create, OwnershipInv, SingleOwner, AcceptedOnce,
       CancelSticks, NoReviverCalled
<1>2. ASSUME NEW w \in Workers, WorkerStep(w) \/ Crash(w) \/ \E t \in Tasks : Pick(w, t)
      PROVE  OwnershipInv' /\ TerminalTasksKept
  <2>1. CASE CommitClaim(w)
    BY <1>0, <2>1, ClaimOwnership
  <2>2. CASE CommitComplete(w) \/ CommitFail(w) \/ CommitUnknown(w) \/ CommitCancelTask(w)
    BY <2>2, ReportOwnership
       DEF CommitComplete, CommitFail, CommitUnknown, CommitCancelTask, Open
  <2>3. CASE \/ BeginClaim(w) \/ ClaimRefused(w) \/ \E t \in Tasks : Pick(w, t)
             \/ BeginComplete(w) \/ CompleteRaises(w) \/ BeginFail(w) \/ BeginUnknown(w)
             \/ BeginCancelTask(w) \/ ReportRefused(w) \/ Crash(w)
    <3>1. UNCHANGED <<exec, task, att, caller>>
      BY <2>3 DEF BeginClaim, ClaimRefused, Pick, BeginComplete, CompleteRaises, BeginFail,
                  BeginUnknown, BeginCancelTask, ReportRefused, Crash, Goto
    <3> QED
      BY <1>0, <3>1, QuietOwnership DEF OwnershipInv, NoReviverCalled
  <2> QED
    BY <1>2, <2>1, <2>2, <2>3 DEF WorkerStep
<1>3. ASSUME NEW o \in Operators, OperatorStep(o)
      PROVE  OwnershipInv' /\ TerminalTasksKept
  <2>1. CASE CommitCancel(o)
    BY <1>0, <2>1, CancelOwnership
  <2>2. CASE BeginCancel(o)
    <3>1. NoReviverCalled'
      BY <2>2 DEF BeginCancel, Call, OwnershipInv, NoReviverCalled, TypeOK
    <3> QED
      BY <1>0, <2>2, <3>1, QuietOwnership DEF BeginCancel, Call
  <2>3. ~(\/ BeginTick(o) \/ EndTick(o) \/ CommitRequeue(o) \/ CommitReconcile(o)
          \/ \E t \in Tasks : BeginRequeue(o, t) \/ BeginReconcile(o, t))
    BY BudgetsAreNat DEF NoRevival, BeginTick, EndTick, CommitRequeue, CommitReconcile,
       BeginRequeue, BeginReconcile, OwnershipInv, NoReviverCalled
  <2> QED
    BY <1>3, <2>1, <2>2, <2>3 DEF OperatorStep
<1>4. ASSUME NEW t \in Tasks, NEW n \in Nums, LeaseExpires(t, n)
      PROVE  OwnershipInv' /\ TerminalTasksKept
  <2>1. \A u \in Tasks, m \in Nums :
          \/ att'[u][m] = att[u][m]
          \/ att[u][m] = "running" /\ att'[u][m] = "lapsed"
    BY <1>4 DEF LeaseExpires, OwnershipInv, TypeOK
  <2>2. NoReviverCalled' /\ UNCHANGED <<exec, task>>
    BY <1>4 DEF LeaseExpires, OwnershipInv, NoReviverCalled
  <2> QED
    BY <1>0, <2>1, <2>2, QuietOwnership
<1>5. CASE Recover \/ ReconcileExpiredLeases
  BY <1>5, ReclaimOwnership DEF Recover, ReconcileExpiredLeases
<1>6. CASE UNCHANGED vars
  BY <1>6 DEF vars, OwnershipInv, TypeOK, SingleOwner, AcceptedOnce, CancelSticks, NoReviverCalled
<1> QED
  BY <1>1, <1>2, <1>3, <1>4, <1>5, <1>6 DEF Next

LEMMA Ownership ==
  ASSUME NoRevival
  PROVE  Spec => []OwnershipInv
<1>1. OwnershipInv /\ [Next]_vars => OwnershipInv'
  BY StepOwnership
<1> QED
  BY <1>1, InitOwnership, PTL DEF Spec

\* At most one worker owns a task, and exactly the running tasks are owned.
THEOREM OneOwner == ASSUME NoRevival PROVE Spec => []SingleOwner
<1>1. OwnershipInv => SingleOwner
  BY DEF OwnershipInv
<1> QED
  BY <1>1, Ownership, PTL

\* The work of a task is accepted from exactly one attempt.
THEOREM OneAcceptance == ASSUME NoRevival PROVE Spec => []AcceptedOnce
<1>1. OwnershipInv => AcceptedOnce
  BY DEF OwnershipInv
<1> QED
  BY <1>1, Ownership, PTL

\* A cancelled execution has no task left to start, finish or revive.
THEOREM Cancellation == ASSUME NoRevival PROVE Spec => []CancelSticks
<1>1. OwnershipInv => CancelSticks
  BY DEF OwnershipInv
<1> QED
  BY <1>1, Ownership, PTL

\* Terminal task states are terminal.
THEOREM TerminalTasksFinal == ASSUME NoRevival PROVE Spec => TerminalTaskFinal
<1>1. OwnershipInv /\ [Next]_vars => [TerminalTasksKept]_vars
  BY StepOwnership
<1> QED
  BY <1>1, Ownership, PTL DEF Spec, TerminalTaskFinal

-----------------------------------------------------------------------------
(***************************************************************************)
(* The dependency graph: nothing starts before its dependencies are        *)
(* completed, and nothing waits once they are.  _recompute_readiness works *)
(* in place, so a task may see new or old states; what makes that harmless *)
(* is that a pass never makes or unmakes a completed task.                 *)
(***************************************************************************)

\* What one pass guarantees of the tasks it may move, whatever the order.
LEMMA RecomputedGraph ==
  ASSUME NEW d \in [Tasks -> SUBSET Tasks],
         NEW s \in [Tasks -> TaskState], NEW r \in Recomputed(d, s),
         NEW t \in Tasks, s[t] \in {"pending", "blocked"}
  PROVE  /\ r[t] = "ready" => \A p \in d[t] : r[p] = "completed"
         /\ r[t] # "ready" /\ (s[t] = "pending" \/ d[t] # {})
              => \E p \in d[t] : r[p] # "completed"
<1> DEFINE seen == {IF p < t THEN r[p] ELSE s[p] : p \in d[t]}
<1>1. r[t] = Verdict(s[t], seen)
  BY DEF Recomputed, Movable
<1>2. \A p \in Tasks : r[p] = "completed" <=> s[p] = "completed"
  BY RecomputedFacts
<1>3. \A p \in d[t] : (IF p < t THEN r[p] ELSE s[p]) = "completed" <=> r[p] = "completed"
  BY <1>2
<1>4. seen \subseteq {"completed"} <=> \A p \in d[t] : r[p] = "completed"
  BY <1>3
<1>5. seen = {} <=> d[t] = {}
  OBVIOUS
<1> HIDE DEF seen
<1>6. seen \subseteq {"completed"} => r[t] = IF s[t] = "blocked" /\ seen = {} THEN "blocked" ELSE "ready"
  BY <1>1 DEF Verdict
<1>7. ~(seen \subseteq {"completed"}) => r[t] \in {"blocked", "pending"}
  BY <1>1 DEF Verdict
<1>8. CASE seen \subseteq {"completed"}
  <2>1. \A p \in d[t] : r[p] = "completed"
    BY <1>4, <1>8
  <2>2. r[t] # "ready" => s[t] = "blocked" /\ d[t] = {}
    BY <1>5, <1>6, <1>8
  <2> QED
    BY <2>1, <2>2
<1>9. CASE ~(seen \subseteq {"completed"})
  BY <1>4, <1>7, <1>9
<1> QED
  BY <1>8, <1>9

\* Before the execution exists nothing has happened to its tasks.
NothingBeforeCreate ==
  exec = "none" => /\ \A t \in Tasks : task[t] = "pending"
                   /\ \A o \in Operators : caller[o].pc = "idle"

GraphInv == OwnershipInv /\ DependenciesFirst /\ NoLostWakeup /\ NothingBeforeCreate

LEMMA InitGraph == Init => GraphInv
<1>1. Init => DependenciesFirst /\ NoLostWakeup /\ NothingBeforeCreate
  BY DEF Init, DependenciesFirst, NoLostWakeup, NothingBeforeCreate, NoCall
<1> QED
  BY <1>1, InitOwnership DEF GraphInv

\* A handler writes the tasks as s, then recomputes.  It keeps the graph
\* sound if s itself respects it and completed tasks stay completed.
LEMMA RecomputeGraph ==
  ASSUME OwnershipInv, DependenciesFirst, NoLostWakeup, exec # "none",
         UNCHANGED deps,
         NEW s \in [Tasks -> TaskState], task' \in Recomputed(deps, s),
         \A t \in Tasks : task[t] = "completed" => s[t] = "completed",
         \A t \in Tasks : s[t] \in {"ready", "running", "completed", "failed", "awaiting"}
            => \A p \in deps[t] : task[p] = "completed",
         \A t \in Tasks : s[t] \in {"pending", "blocked"} => s[t] = task[t]
  PROVE  DependenciesFirst' /\ NoLostWakeup'
<1>1. deps \in [Tasks -> SUBSET Tasks]
  BY DEF OwnershipInv, TypeOK
<1>2. \A t \in Tasks : /\ s[t] \notin {"pending", "blocked"} => task'[t] = s[t]
                       /\ task[t] = "completed" => task'[t] = "completed"
  BY RecomputedFacts
<1>3. ASSUME NEW t \in Tasks, s[t] \in {"pending", "blocked"}
      PROVE  /\ task'[t] = "ready" => \A p \in deps[t] : task'[p] = "completed"
             /\ task'[t] # "ready" => \E p \in deps[t] : task'[p] # "completed"
             /\ task'[t] \in {"pending", "ready", "blocked"}
  <2>1. s[t] = "pending" \/ deps[t] # {}
    BY <1>3 DEF NoLostWakeup
  <2>2. task'[t] \in {"pending", "ready", "blocked"}
    BY <1>3, RecomputedFacts
  <2> QED
    BY <1>1, <1>3, <2>1, <2>2, RecomputedGraph
<1>4. DependenciesFirst'
  <2> SUFFICES ASSUME NEW t \in Tasks,
                      task'[t] \in {"ready", "running", "completed", "failed", "awaiting"},
                      NEW p \in deps[t]
               PROVE  task'[p] = "completed"
    BY DEF DependenciesFirst
  <2>1. p \in Tasks
    BY <1>1
  <2> QED
    BY <1>2, <1>3, <2>1
<1>5. NoLostWakeup'
  BY <1>2, <1>3 DEF NoLostWakeup
<1> QED
  BY <1>4, <1>5

\* A step that starts a ready task, or cancels tasks, needs no pass.
LEMMA NoRecomputeGraph ==
  ASSUME OwnershipInv, DependenciesFirst, NoLostWakeup, UNCHANGED deps,
         exec = "none" => exec' = "none",
         \A t \in Tasks :
            \/ task'[t] = task[t]
            \/ task[t] = "ready" /\ task'[t] = "running"
            \/ task[t] # "completed" /\ task'[t] = "cancelled"
  PROVE  DependenciesFirst' /\ NoLostWakeup'
<1>1. \A t \in Tasks : \A p \in deps[t] : p \in Tasks
  BY DEF OwnershipInv, TypeOK
<1> QED
  BY <1>1 DEF DependenciesFirst, NoLostWakeup

LEMMA ReportGraph ==
  ASSUME GraphInv, NEW w \in Workers, Attempt(w) \in Open,
         NEW a, NEW s \in {"completed", "failed", "cancelled", "awaiting"}, Report(w, a, s)
  PROVE  DependenciesFirst' /\ NoLostWakeup' /\ NothingBeforeCreate'
<1> DEFINE t0 == worker[w].task
           s1 == SetTask(w, s)
<1>1. t0 \in Tasks /\ worker[w].num \in Nums
  BY DEF GraphInv, OwnershipInv, TypeOK, WorkerState
<1>2. task[t0] = "running"
  BY <1>1 DEF GraphInv, OwnershipInv, SingleOwner, Attempt
<1>3. s1 \in [Tasks -> TaskState]
  BY <1>1 DEF SetTask, GraphInv, OwnershipInv, TypeOK, TaskState
<1>4. \A t \in Tasks : s1[t] = IF t = t0 THEN s ELSE task[t]
  BY <1>1 DEF SetTask, GraphInv, OwnershipInv, TypeOK
<1>5. exec # "none"
  BY <1>1, <1>2 DEF GraphInv, NothingBeforeCreate
<1>6. task' \in Recomputed(deps, s1) /\ UNCHANGED deps
  BY DEF Report, Finish
<1>7. exec' # "none"
  BY <1>5 DEF Report, Finish, Settled
<1> HIDE DEF s1
<1>8. DependenciesFirst' /\ NoLostWakeup'
  <2>1. \A t \in Tasks : task[t] = "completed" => s1[t] = "completed"
    BY <1>2, <1>4
  <2>2. \A t \in Tasks : s1[t] \in {"ready", "running", "completed", "failed", "awaiting"}
           => \A p \in deps[t] : task[p] = "completed"
    BY <1>1, <1>2, <1>4 DEF GraphInv, DependenciesFirst
  <2>3. \A t \in Tasks : s1[t] \in {"pending", "blocked"} => s1[t] = task[t]
    BY <1>4
  <2> QED
    BY <1>3, <1>5, <1>6, <2>1, <2>2, <2>3, RecomputeGraph DEF GraphInv
<1> QED
  BY <1>7, <1>8 DEF NothingBeforeCreate

LEMMA ReclaimGraph ==
  ASSUME GraphInv, Reclaim, exec # "none"
  PROVE  DependenciesFirst' /\ NoLostWakeup' /\ NothingBeforeCreate'
<1> DEFINE a == [t \in Tasks |-> [n \in Nums |->
              IF Abandoned(t) /\ LatestOpen(t, n) THEN "unknown" ELSE att[t][n]]]
           s1 == [t \in Tasks |-> IF Abandoned(t) THEN "ready" ELSE task[t]]
<1>1. s1 \in [Tasks -> TaskState]
  BY DEF GraphInv, OwnershipInv, TypeOK, TaskState
<1>2. PICK r \in Recomputed(deps, s1) :
         task' = r /\ exec' = Resumed(Settled(exec, r, a), r)
  BY DEF Reclaim
<1>3. \A t \in Tasks : s1[t] = IF Abandoned(t) THEN "ready" ELSE task[t]
  OBVIOUS
<1>4. \A t \in Tasks : Abandoned(t) => task[t] = "running"
  BY DEF Abandoned
<1>5. exec' # "none"
  BY <1>2 DEF Resumed, Settled
<1> HIDE DEF s1
<1>6. DependenciesFirst' /\ NoLostWakeup'
  <2>1. \A t \in Tasks : task[t] = "completed" => s1[t] = "completed"
    BY <1>3, <1>4
  <2>2. \A t \in Tasks : s1[t] \in {"ready", "running", "completed", "failed", "awaiting"}
           => \A p \in deps[t] : task[p] = "completed"
    BY <1>3, <1>4 DEF GraphInv, DependenciesFirst
  <2>3. \A t \in Tasks : s1[t] \in {"pending", "blocked"} => s1[t] = task[t]
    BY <1>3
  <2>4. task' \in Recomputed(deps, s1) /\ UNCHANGED deps
    BY <1>2 DEF Reclaim
  <2> QED
    BY <1>1, <2>1, <2>2, <2>3, <2>4, RecomputeGraph DEF GraphInv
<1> QED
  BY <1>5, <1>6 DEF NothingBeforeCreate

LEMMA CreateGraph ==
  ASSUME GraphInv, Create
  PROVE  DependenciesFirst' /\ NoLostWakeup' /\ NothingBeforeCreate'
<1>1. deps' \in [Tasks -> SUBSET Tasks]
  BY DEF Create, Graphs
<1>2. task \in [Tasks -> TaskState] /\ task' \in Recomputed(deps', task)
  BY DEF Create, GraphInv, OwnershipInv, TypeOK
<1>3. \A t \in Tasks : task[t] = "pending"
  BY DEF Create, GraphInv, NothingBeforeCreate
<1>4. ASSUME NEW t \in Tasks
      PROVE  /\ task'[t] \in {"pending", "ready", "blocked"}
             /\ task'[t] = "ready" => \A p \in deps'[t] : task'[p] = "completed"
             /\ task'[t] # "ready" => \E p \in deps'[t] : task'[p] # "completed"
  <2>1. task'[t] \in {"pending", "ready", "blocked"}
    BY <1>2, <1>3, RecomputedFacts
  <2> QED
    BY <1>1, <1>2, <1>3, <2>1, RecomputedGraph
<1> QED
  BY <1>4 DEF Create, DependenciesFirst, NoLostWakeup, NothingBeforeCreate

LEMMA StepGraph ==
  ASSUME NoRevival
  PROVE  GraphInv /\ [Next]_vars => GraphInv'
<1> SUFFICES ASSUME GraphInv, [Next]_vars
             PROVE  DependenciesFirst' /\ NoLostWakeup' /\ NothingBeforeCreate'
  BY StepOwnership DEF GraphInv
<1>1. CASE Create
  BY <1>1, CreateGraph
<1>2. ASSUME NEW w \in Workers, WorkerStep(w) \/ Crash(w) \/ \E t \in Tasks : Pick(w, t)
      PROVE  DependenciesFirst' /\ NoLostWakeup' /\ NothingBeforeCreate'
  <2>1. CASE CommitClaim(w)
    <3>1. worker[w].task \in Tasks /\ task[worker[w].task] = "ready"
      BY <2>1 DEF CommitClaim, GraphInv, OwnershipInv, TypeOK, WorkerState
    <3>2. exec # "none" /\ exec' # "none"
      BY <2>1, <3>1 DEF GraphInv, NothingBeforeCreate, CommitClaim
    <3>3. \A t \in Tasks : \/ task'[t] = task[t]
                           \/ task[t] = "ready" /\ task'[t] = "running"
      BY <2>1, <3>1 DEF CommitClaim, GraphInv, OwnershipInv, TypeOK
    <3>4. DependenciesFirst' /\ NoLostWakeup'
      BY <2>1, <3>2, <3>3, NoRecomputeGraph DEF CommitClaim, GraphInv
    <3> QED
      BY <3>2, <3>4 DEF NothingBeforeCreate
  <2>2. CASE CommitComplete(w) \/ CommitFail(w) \/ CommitUnknown(w) \/ CommitCancelTask(w)
    BY <2>2, ReportGraph
       DEF CommitComplete, CommitFail, CommitUnknown, CommitCancelTask, Open
  <2>3. CASE \/ BeginClaim(w) \/ ClaimRefused(w) \/ \E t \in Tasks : Pick(w, t)
             \/ BeginComplete(w) \/ CompleteRaises(w) \/ BeginFail(w) \/ BeginUnknown(w)
             \/ BeginCancelTask(w) \/ ReportRefused(w) \/ Crash(w)
    <3>1. UNCHANGED <<exec, deps, task, caller>>
      BY <2>3 DEF BeginClaim, ClaimRefused, Pick, BeginComplete, CompleteRaises, BeginFail,
                  BeginUnknown, BeginCancelTask, ReportRefused, Crash, Goto
    <3> QED
      BY <3>1 DEF GraphInv, DependenciesFirst, NoLostWakeup, NothingBeforeCreate
  <2> QED
    BY <1>2, <2>1, <2>2, <2>3 DEF WorkerStep
<1>3. ASSUME NEW o \in Operators, OperatorStep(o)
      PROVE  DependenciesFirst' /\ NoLostWakeup' /\ NothingBeforeCreate'
  <2>1. CASE CommitCancel(o)
    <3>1. exec # "none" /\ exec' # "none"
      BY <2>1 DEF CommitCancel, GraphInv, NothingBeforeCreate
    <3>2. \A t \in Tasks : \/ task'[t] = task[t]
                           \/ task[t] # "completed" /\ task'[t] = "cancelled"
      BY <2>1 DEF CommitCancel, TerminalTask
    <3>3. DependenciesFirst' /\ NoLostWakeup'
      BY <2>1, <3>1, <3>2, NoRecomputeGraph DEF CommitCancel, GraphInv
    <3> QED
      BY <3>1, <3>3 DEF NothingBeforeCreate
  <2>2. CASE BeginCancel(o)
    <3>1. UNCHANGED <<exec, deps, task>> /\ exec # "none"
      BY <2>2 DEF BeginCancel, Call, Runnable
    <3> QED
      BY <3>1 DEF GraphInv, DependenciesFirst, NoLostWakeup, NothingBeforeCreate
  <2>3. ~(\/ BeginTick(o) \/ EndTick(o) \/ CommitRequeue(o) \/ CommitReconcile(o)
          \/ \E t \in Tasks : BeginRequeue(o, t) \/ BeginReconcile(o, t))
    BY BudgetsAreNat DEF NoRevival, BeginTick, EndTick, CommitRequeue, CommitReconcile,
       BeginRequeue, BeginReconcile, GraphInv, OwnershipInv, NoReviverCalled
  <2> QED
    BY <1>3, <2>1, <2>2, <2>3 DEF OperatorStep
<1>4. ASSUME NEW t \in Tasks, NEW n \in Nums, LeaseExpires(t, n)
      PROVE  DependenciesFirst' /\ NoLostWakeup' /\ NothingBeforeCreate'
  BY <1>4 DEF LeaseExpires, GraphInv, DependenciesFirst, NoLostWakeup, NothingBeforeCreate
<1>5. CASE Recover \/ ReconcileExpiredLeases
  BY <1>5, ReclaimGraph DEF Recover, ReconcileExpiredLeases, Runnable
<1>6. CASE UNCHANGED vars
  BY <1>6 DEF vars, GraphInv, DependenciesFirst, NoLostWakeup, NothingBeforeCreate
<1> QED
  BY <1>1, <1>2, <1>3, <1>4, <1>5, <1>6 DEF Next

LEMMA Graph ==
  ASSUME NoRevival
  PROVE  Spec => []GraphInv
<1>1. GraphInv /\ [Next]_vars => GraphInv'
  BY StepGraph
<1> QED
  BY <1>1, InitGraph, PTL DEF Spec

\* No task starts before everything it depends on is completed.
THEOREM OrderRespected == ASSUME NoRevival PROVE Spec => []DependenciesFirst
<1>1. GraphInv => DependenciesFirst
  BY DEF GraphInv
<1> QED
  BY <1>1, Graph, PTL

\* No readiness is lost, whatever order the tasks are listed in.
THEOREM WakeupsKept == ASSUME NoRevival PROVE Spec => []NoLostWakeup
<1>1. GraphInv => NoLostWakeup
  BY DEF GraphInv
<1> QED
  BY <1>1, Graph, PTL
-----------------------------------------------------------------------------
(***************************************************************************)
(* The retry budget.  What counts against it is an attempt that failed or  *)
(* still may: one whose outcome is unknown does not.  A task is ready only *)
(* while there is room for one more, because each way to become ready      *)
(* either gives an attempt back (recovery, an unknown outcome), finds none *)
(* (readiness), or has counted them (a requeue).  A reconciliation counts  *)
(* nothing: it may find the task it saw blocked already tried once.        *)
(***************************************************************************)

\* Operations that set a task ready on the strength of an earlier read come one
\* at a time: two of them can both count the same failures.
OneReviver ==
  \A o, p \in Operators :
    caller[o].pc \in {"requeue", "reconcile"} /\ caller[p].pc \in {"requeue", "reconcile"} => o = p

Budget == IF SchedBudget = 0 THEN 1 ELSE SchedBudget

Counts(states) == {n \in Nums : states[n] \notin {"none", "unknown"}}
Load(t) == Cardinality(Counts(att[t]))

AtRest == {"completed", "failed", "awaiting", "cancelled"}

TaskWithin(t) ==
  /\ Load(t) <= Budget
  /\ task[t] \in {"pending", "blocked"} => \A n \in Nums : att[t][n] = "none"
  /\ task[t] = "running" => \E n \in Nums : LatestOpen(t, n)
  /\ task[t] \in {"ready", "awaiting"} => Load(t) < Budget

\* What a call that is about to set task t ready may count on.
RoomFor(t) == task[t] \in AtRest /\ Load(t) < Budget
FirstTry(t) == Load(t) <= 1 /\ (task[t] \in {"ready", "pending", "blocked"} => Load(t) = 0)

CallWithin(o) ==
  /\ caller[o].pc = "requeue" => RoomFor(caller[o].task)
  /\ caller[o].pc = "reconcile" =>
       Budget >= 2 /\ (RoomFor(caller[o].task) \/ FirstTry(caller[o].task))

BudgetInv == TypeOK /\ (\A t \in Tasks : TaskWithin(t)) /\ (\A o \in Operators : CallWithin(o))

\* What a step may do to one task and its attempts.
Same(t) == \A n \in Nums : att'[t][n] = att[t][n]
Only(t, n, state) == \A m \in Nums : att'[t][m] = IF m = n THEN state ELSE att[t][m]

Aged(t) ==
  /\ task'[t] = task[t]
  /\ \A n \in Nums : \/ att'[t][n] = att[t][n]
                     \/ att[t][n] = "running" /\ att'[t][n] = "lapsed"
Reread(t) ==
  task[t] \in {"pending", "blocked"} /\ task'[t] \in {"pending", "blocked", "ready"} /\ Same(t)
Claimed(t) ==
  task[t] = "ready" /\ task'[t] = "running" /\ \E n \in Nums : NextNumber(t, n) /\ Only(t, n, "running")
Ended(t) ==
  /\ task'[t] \in {"completed", "failed", "cancelled"}
  /\ \E n \in Nums, state \in {"succeeded", "failed", "cancelled"} :
       att[t][n] \in Open /\ Only(t, n, state)
LeftUnknown(t) ==
  task'[t] = "awaiting" /\ \E n \in Nums : att[t][n] \in Open /\ Only(t, n, "unknown")
HandedBack(t) ==
  task[t] = "running" /\ task'[t] = "ready" /\ \E n \in Nums : LatestOpen(t, n) /\ Only(t, n, "unknown")
CalledOff(t) ==
  /\ task'[t] \in TerminalTask
  /\ \A n \in Nums : \/ att'[t][n] = att[t][n]
                     \/ att[t][n] \in Open /\ att'[t][n] = "cancelled"
Steady(t) ==
  \/ Aged(t) \/ Reread(t) \/ Claimed(t) \/ Ended(t) \/ LeftUnknown(t) \/ HandedBack(t) \/ CalledOff(t)

Revived(t) == task'[t] = "ready" /\ Load(t) < Budget /\ Same(t)

LEMMA BudgetType == Budget \in Nat /\ Budget >= 1
BY BudgetsAreNat DEF Budget

LEMMA CountsFinite ==
  ASSUME NEW states
  PROVE  IsFiniteSet(Counts(states)) /\ Cardinality(Counts(states)) \in Nat
<1>1. IsFiniteSet(Nums) /\ Counts(states) \in SUBSET Nums
  BY FS_Interval, BoundPositive DEF Nums, Counts
<1> QED
  BY <1>1, FS_Subset, FS_CardinalityType

\* How the load of a task follows its attempts.
LEMMA LoadKept ==
  ASSUME NEW t \in Tasks,
         \A n \in Nums : att'[t][n] \in {"none", "unknown"} <=> att[t][n] \in {"none", "unknown"}
  PROVE  Load(t)' = Load(t)
<1>1. Counts(att'[t]) = Counts(att[t])
  BY DEF Counts
<1> QED
  BY <1>1 DEF Load

LEMMA LoadGrows ==
  ASSUME NEW t \in Tasks, NEW n \in Nums, att[t][n] = "none", Only(t, n, "running")
  PROVE  Load(t)' = Load(t) + 1
<1>1. Counts(att'[t]) = Counts(att[t]) \cup {n} /\ n \notin Counts(att[t])
  BY DEF Counts, Only
<1>2. IsFiniteSet(Counts(att[t]))
  BY CountsFinite
<1> QED
  BY <1>1, <1>2, FS_AddElement DEF Load

LEMMA LoadShrinks ==
  ASSUME NEW t \in Tasks, NEW n \in Nums, att[t][n] \in Open, Only(t, n, "unknown")
  PROVE  Load(t)' = Load(t) - 1
<1>1. Counts(att'[t]) = Counts(att[t]) \ {n} /\ n \in Counts(att[t])
  BY DEF Counts, Only, Open
<1>2. IsFiniteSet(Counts(att[t]))
  BY CountsFinite
<1> QED
  BY <1>1, <1>2, FS_RemoveElement DEF Load

LEMMA LoadEmpty ==
  ASSUME NEW t \in Tasks, \A n \in Nums : att[t][n] = "none"
  PROVE  Load(t) = 0
<1>1. Counts(att[t]) = {}
  BY DEF Counts
<1> QED
  BY <1>1, FS_EmptySet DEF Load

\* In sum: a step that does not revive the task keeps its load, but for a claim,
\* and gives an attempt back where it makes it ready or awaiting.
LEMMA SteadyLoad ==
  ASSUME NEW t \in Tasks, Steady(t), task[t] \in TaskState
  PROVE  \/ Load(t)' = Load(t) /\ (Aged(t) \/ Reread(t) \/ Ended(t) \/ CalledOff(t))
         \/ Load(t)' = Load(t) + 1 /\ Claimed(t)
         \/ Load(t)' = Load(t) - 1 /\ (LeftUnknown(t) \/ HandedBack(t))
<1>1. CASE Aged(t) \/ Reread(t) \/ CalledOff(t)
  <2>1. \A n \in Nums : att'[t][n] \in {"none", "unknown"} <=> att[t][n] \in {"none", "unknown"}
    BY <1>1 DEF Aged, Reread, CalledOff, Same, Open
  <2> QED
    BY <1>1, <2>1, LoadKept
<1>2. CASE Ended(t)
  <2>1. PICK n \in Nums, state \in {"succeeded", "failed", "cancelled"} :
          att[t][n] \in Open /\ Only(t, n, state)
    BY <1>2 DEF Ended
  <2>2. \A m \in Nums : att'[t][m] \in {"none", "unknown"} <=> att[t][m] \in {"none", "unknown"}
    BY <2>1 DEF Only, Open
  <2> QED
    BY <1>2, <2>2, LoadKept
<1>3. CASE Claimed(t)
  <2>1. PICK n \in Nums : NextNumber(t, n) /\ Only(t, n, "running")
    BY <1>3 DEF Claimed
  <2>2. att[t][n] = "none"
    BY <2>1 DEF NextNumber, Nums
  <2> QED
    BY <1>3, <2>1, <2>2, LoadGrows
<1>4. CASE LeftUnknown(t)
  BY <1>4, LoadShrinks DEF LeftUnknown
<1>5. CASE HandedBack(t)
  <2>1. PICK n \in Nums : LatestOpen(t, n) /\ Only(t, n, "unknown")
    BY <1>5 DEF HandedBack
  <2>2. att[t][n] \in Open
    BY <2>1 DEF LatestOpen
  <2> QED
    BY <1>5, <2>1, <2>2, LoadShrinks
<1> QED
  BY <1>1, <1>2, <1>3, <1>4, <1>5 DEF Steady

LEMMA TaskStaysWithin ==
  ASSUME NEW t \in Tasks, TaskWithin(t), task[t] \in TaskState, Steady(t) \/ Revived(t)
  PROVE  TaskWithin(t)'
<1>0. Budget \in Nat /\ Load(t) \in Nat /\ Budget' = Budget
  BY BudgetType, CountsFinite DEF Load, Budget
<1>1. CASE Revived(t)
  <2>1. Load(t)' = Load(t)
    BY <1>1, LoadKept DEF Revived, Same
  <2> QED
    BY <1>0, <1>1, <2>1 DEF TaskWithin, Revived
<1>2. CASE Load(t)' = Load(t) /\ Aged(t)
  <2>1. \A n \in Nums : (att'[t][n] \in Open <=> att[t][n] \in Open)
                        /\ (att[t][n] = "none" => att'[t][n] = "none")
    BY <1>2 DEF Aged, Open
  <2>2. ASSUME NEW n \in Nums, LatestOpen(t, n)
        PROVE  LatestOpen(t, n)'
    <3>1. \A m \in (n + 1)..MaxAttempts : m \in Nums
      BY BoundPositive DEF Nums
    <3> QED
      BY <2>1, <2>2, <3>1 DEF LatestOpen
  <2> QED
    BY <1>0, <1>2, <2>1, <2>2 DEF TaskWithin, Aged
<1>3. CASE Load(t)' = Load(t) /\ Reread(t)
  <2>1. Load(t) = 0
    BY <1>3, LoadEmpty DEF TaskWithin, Reread
  <2>2. Load(t)' < Budget /\ Load(t)' <= Budget
    BY <1>0, <1>3, <2>1, BudgetType
  <2>3. \A n \in Nums : att'[t][n] = "none"
    BY <1>3 DEF TaskWithin, Reread, Same
  <2>4. task'[t] # "running"
    BY <1>3 DEF Reread
  <2> QED
    BY <1>0, <2>2, <2>3, <2>4 DEF TaskWithin
<1>4. CASE Load(t)' = Load(t) /\ (Ended(t) \/ CalledOff(t))
  <2>1. task'[t] \in {"completed", "failed", "cancelled"}
    BY <1>4 DEF Ended, CalledOff, TerminalTask
  <2> QED
    BY <1>0, <1>4, <2>1 DEF TaskWithin
<1>5. CASE Load(t)' = Load(t) + 1 /\ Claimed(t)
  <2>1. PICK n \in Nums : NextNumber(t, n) /\ Only(t, n, "running")
    BY <1>5 DEF Claimed
  <2>2. \A m \in (n + 1)..MaxAttempts : m \in Nums /\ m # n /\ m \in n..MaxAttempts
    BY BoundPositive DEF Nums
  <2>3. LatestOpen(t, n)'
    BY <2>1, <2>2 DEF LatestOpen, NextNumber, Only, Open
  <2>4. Load(t)' <= Budget
    BY <1>0, <1>5 DEF TaskWithin, Claimed
  <2>5. task'[t] = "running"
    BY <1>5 DEF Claimed
  <2> QED
    BY <1>0, <2>3, <2>4, <2>5 DEF TaskWithin
<1>6. CASE Load(t)' = Load(t) - 1 /\ (LeftUnknown(t) \/ HandedBack(t))
  <2>1. task'[t] \in {"ready", "awaiting"}
    BY <1>6 DEF LeftUnknown, HandedBack
  <2>2. Load(t)' < Budget /\ Load(t)' <= Budget
    BY <1>0, <1>6 DEF TaskWithin
  <2> QED
    BY <1>0, <2>1, <2>2 DEF TaskWithin
<1> QED
  BY <1>1, <1>2, <1>3, <1>4, <1>5, <1>6, SteadyLoad

\* What a call counts on still holds when somebody else moves the task.
LEMMA CallStaysWithin ==
  ASSUME NEW o \in Operators, CallWithin(o), caller'[o] = caller[o],
         NEW t \in Tasks, t = caller[o].task, TaskWithin(t), task[t] \in TaskState,
         caller[o].pc \in {"requeue", "reconcile"} => Steady(t)
  PROVE  CallWithin(o)'
<1>0. Budget \in Nat /\ Load(t) \in Nat /\ Budget' = Budget
  BY BudgetType, CountsFinite DEF Load, Budget
<1>1. Load(t)' \in Nat
  BY CountsFinite DEF Load
<1>2. ASSUME Steady(t), RoomFor(t)
      PROVE  RoomFor(t)'
  <2>1. ~Reread(t) /\ ~Claimed(t) /\ ~HandedBack(t)
    BY <1>2 DEF RoomFor, AtRest, Reread, Claimed, HandedBack
  <2>2. Load(t)' <= Load(t)
    BY <1>0, <1>2, <2>1, SteadyLoad
  <2>3. task'[t] \in AtRest
    BY <1>2, <2>1 DEF Steady, RoomFor, AtRest, Aged, Ended, LeftUnknown, CalledOff, TerminalTask
  <2> QED
    BY <1>0, <1>1, <1>2, <2>2, <2>3 DEF RoomFor
<1>3. ASSUME Steady(t), FirstTry(t)
      PROVE  FirstTry(t)'
  <2>1. CASE Load(t)' = Load(t) /\ (Aged(t) \/ Reread(t))
    <3>1. task'[t] \in {"ready", "pending", "blocked"} => task[t] \in {"ready", "pending", "blocked"}
      BY <2>1 DEF Aged, Reread
    <3> QED
      BY <1>0, <1>3, <2>1, <3>1 DEF FirstTry
  <2>2. CASE Load(t)' = Load(t) /\ (Ended(t) \/ CalledOff(t))
    <3>1. task'[t] \in {"completed", "failed", "cancelled"}
      BY <2>2 DEF Ended, CalledOff, TerminalTask
    <3> QED
      BY <1>0, <1>3, <2>2, <3>1 DEF FirstTry
  <2>3. CASE Load(t)' = Load(t) + 1 /\ Claimed(t)
    <3>1. Load(t) = 0 /\ task'[t] = "running"
      BY <1>3, <2>3 DEF FirstTry, Claimed
    <3> QED
      BY <1>0, <2>3, <3>1 DEF FirstTry
  <2>4. CASE Load(t)' = Load(t) - 1 /\ (LeftUnknown(t) \/ HandedBack(t))
    <3>1. Load(t)' = 0
      BY <1>0, <1>1, <1>3, <2>4 DEF FirstTry
    <3> QED
      BY <3>1 DEF FirstTry
  <2> QED
    BY <1>3, <2>1, <2>2, <2>3, <2>4, SteadyLoad
<1>4. caller'[o].pc = caller[o].pc /\ caller'[o].task = t
  OBVIOUS
<1> QED
  BY <1>0, <1>2, <1>3, <1>4 DEF CallWithin

\* The tasks a pass of _recompute_readiness visits.
LEMMA PassIsSteady ==
  ASSUME TypeOK, NEW s \in [Tasks -> TaskState], NEW d, task' \in Recomputed(d, s),
         NEW t \in Tasks, s[t] = task[t], Same(t)
  PROVE  Steady(t)
<1>1. /\ s[t] \notin {"pending", "blocked"} => task'[t] = s[t]
      /\ s[t] \in {"pending", "blocked"} => task'[t] \in {"pending", "ready", "blocked"}
  BY RecomputedFacts
<1> QED
  BY <1>1 DEF Steady, Aged, Reread, Same

LEMMA ReportIsSteady ==
  ASSUME TypeOK, NEW w \in Workers, Attempt(w) \in Open,
         NEW a \in {"succeeded", "failed", "cancelled", "unknown"},
         NEW s \in {"completed", "failed", "cancelled", "awaiting"},
         a = "unknown" <=> s = "awaiting",
         Report(w, a, s), NEW t \in Tasks
  PROVE  Steady(t)
<1> DEFINE t0 == worker[w].task
           n0 == worker[w].num
<1>1. t0 \in Tasks /\ n0 \in Nums
  BY DEF TypeOK, WorkerState
<1>2. SetTask(w, s) \in [Tasks -> TaskState]
  BY <1>1 DEF SetTask, TypeOK, TaskState
<1>3. task' \in Recomputed(deps, SetTask(w, s)) /\ att' = SetAttempt(w, a)
  BY DEF Report, Finish
<1>4. \A u \in Tasks : SetTask(w, s)[u] = IF u = t0 THEN s ELSE task[u]
  BY <1>1 DEF SetTask, TypeOK
<1>5. \A u \in Tasks, n \in Nums : att'[u][n] = IF u = t0 /\ n = n0 THEN a ELSE att[u][n]
  BY <1>1, <1>3 DEF SetAttempt, TypeOK
<1>6. CASE t # t0
  BY <1>2, <1>3, <1>4, <1>5, <1>6, PassIsSteady DEF Same
<1>7. CASE t = t0
  <2>1. task'[t] = s
    BY <1>1, <1>2, <1>3, <1>4, <1>7, RecomputedFacts
  <2>2. Only(t, n0, a) /\ att[t][n0] \in Open
    BY <1>5, <1>7 DEF Only, Attempt
  <2>3. CASE a = "unknown"
    BY <1>1, <2>1, <2>2, <2>3 DEF Steady, LeftUnknown
  <2>4. CASE a # "unknown"
    BY <1>1, <2>1, <2>2, <2>4 DEF Steady, Ended
  <2> QED
    BY <2>3, <2>4
<1> QED
  BY <1>6, <1>7

\* A task that is handed back has a latest open attempt, and no other.
LEMMA ReclaimIsSteady ==
  ASSUME BudgetInv, Reclaim, NEW t \in Tasks
  PROVE  Steady(t)
<1> DEFINE s == [u \in Tasks |-> IF Abandoned(u) THEN "ready" ELSE task[u]]
<1>1. s \in [Tasks -> TaskState] /\ task' \in Recomputed(deps, s)
  BY DEF BudgetInv, TypeOK, TaskState, Reclaim
<1>2. \A n \in Nums :
        att'[t][n] = IF Abandoned(t) /\ LatestOpen(t, n) THEN "unknown" ELSE att[t][n]
  BY DEF Reclaim
<1>3. s[t] = IF Abandoned(t) THEN "ready" ELSE task[t]
  OBVIOUS
<1> HIDE DEF s
<1>4. CASE ~Abandoned(t)
  BY <1>1, <1>2, <1>3, <1>4, PassIsSteady DEF BudgetInv, Same
<1>5. CASE Abandoned(t)
  <2>1. task[t] = "running" /\ task'[t] = "ready"
    BY <1>1, <1>3, <1>5, RecomputedFacts DEF Abandoned
  <2>2. PICK n \in Nums : LatestOpen(t, n)
    BY <2>1 DEF BudgetInv, TaskWithin
  <2>3. ASSUME NEW m \in Nums, LatestOpen(t, m)
        PROVE  m = n
    <3>1. m \in Int /\ n \in Int /\ m <= MaxAttempts /\ n <= MaxAttempts
      BY BoundPositive DEF Nums
    <3>2. ~(m < n) /\ ~(n < m)
      BY <2>2, <2>3, <3>1, BoundPositive DEF LatestOpen
    <3> QED
      BY <3>1, <3>2
  <2>4. Only(t, n, "unknown")
    BY <1>2, <1>5, <2>2, <2>3 DEF Only
  <2> QED
    BY <2>1, <2>2, <2>4 DEF Steady, HandedBack
<1> QED
  BY <1>4, <1>5

LEMMA ClaimIsSteady ==
  ASSUME TypeOK, NEW w \in Workers, CommitClaim(w), NEW t \in Tasks
  PROVE  Steady(t)
<1> DEFINE t0 == worker[w].task
<1>1. t0 \in Tasks /\ task[t0] = "ready"
  BY DEF TypeOK, WorkerState, CommitClaim
<1>2. PICK n \in Nums : NextNumber(t0, n) /\ att' = [att EXCEPT ![t0][n] = "running"]
  BY DEF CommitClaim
<1>3. \A m \in Nums : att'[t][m] = IF t = t0 /\ m = n THEN "running" ELSE att[t][m]
  BY <1>1, <1>2 DEF TypeOK
<1>4. task'[t] = IF t = t0 THEN "running" ELSE task[t]
  BY <1>1 DEF TypeOK, CommitClaim
<1>5. CASE t = t0
  BY <1>1, <1>2, <1>3, <1>4, <1>5 DEF Steady, Claimed, Only
<1>6. CASE t # t0
  BY <1>3, <1>4, <1>6 DEF Steady, Aged
<1> QED
  BY <1>5, <1>6

\* Where every task moves steadily and the calls stand, the budget holds.
LEMMA SteadyStep ==
  ASSUME BudgetInv, TypeOK', UNCHANGED caller, \A t \in Tasks : Steady(t)
  PROVE  BudgetInv'
<1>1. ASSUME NEW t \in Tasks PROVE TaskWithin(t)'
  <2>1. TaskWithin(t) /\ task[t] \in TaskState
    BY DEF BudgetInv, TypeOK
  <2> QED
    BY <2>1, TaskStaysWithin
<1>2. ASSUME NEW o \in Operators PROVE CallWithin(o)'
  <2>1. PICK t : t = caller[o].task
    OBVIOUS
  <2>2. t \in Tasks /\ CallWithin(o) /\ caller'[o] = caller[o]
    BY <2>1 DEF BudgetInv, TypeOK, CallerState
  <2>3. TaskWithin(t) /\ task[t] \in TaskState
    BY <2>2 DEF BudgetInv, TypeOK
  <2> QED
    BY <2>1, <2>2, <2>3, CallStaysWithin
<1> QED
  BY <1>1, <1>2 DEF BudgetInv

\* An operator's step that revives nothing: the other calls stand, and what its
\* own call counts on is shown apart.
LEMMA OperatorSteady ==
  ASSUME BudgetInv, TypeOK', NEW o \in Operators, \A t \in Tasks : Steady(t),
         \A p \in Operators \ {o} : caller'[p] = caller[p], CallWithin(o)'
  PROVE  BudgetInv'
<1>1. ASSUME NEW t \in Tasks PROVE TaskWithin(t)'
  <2>1. TaskWithin(t) /\ task[t] \in TaskState
    BY DEF BudgetInv, TypeOK
  <2> QED
    BY <2>1, TaskStaysWithin
<1>2. ASSUME NEW p \in Operators \ {o} PROVE CallWithin(p)'
  <2>1. PICK t : t = caller[p].task
    OBVIOUS
  <2>2. t \in Tasks /\ CallWithin(p) /\ caller'[p] = caller[p]
    BY <2>1 DEF BudgetInv, TypeOK, CallerState
  <2>3. TaskWithin(t) /\ task[t] \in TaskState
    BY <2>2 DEF BudgetInv, TypeOK
  <2> QED
    BY <2>1, <2>2, <2>3, CallStaysWithin
<1> QED
  BY <1>1, <1>2 DEF BudgetInv

\* The one call that revives a task had room for it; nobody else is reviving.
LEMMA RevivalStep ==
  ASSUME BudgetInv, TypeOK', OneReviver, NEW o \in Operators,
         caller[o].pc \in {"requeue", "reconcile"},
         \A t \in Tasks : Steady(t) \/ Revived(t),
         caller'[o].pc \in {"idle", "tick"},
         \A p \in Operators \ {o} : caller'[p] = caller[p]
  PROVE  BudgetInv'
<1>1. ASSUME NEW t \in Tasks PROVE TaskWithin(t)'
  <2>1. TaskWithin(t) /\ task[t] \in TaskState
    BY DEF BudgetInv, TypeOK
  <2> QED
    BY <2>1, TaskStaysWithin
<1>2. ASSUME NEW p \in Operators PROVE CallWithin(p)'
  <2>1. caller'[p].pc \notin {"requeue", "reconcile"}
    <3>1. CASE p = o
      BY <3>1
    <3>2. CASE p # o
      BY <3>2 DEF OneReviver
    <3> QED
      BY <3>1, <3>2
  <2> QED
    BY <2>1 DEF CallWithin
<1> QED
  BY <1>1, <1>2 DEF BudgetInv

LEMMA RequeueWithin ==
  ASSUME BudgetInv, TypeOK', OneReviver, NEW o \in Operators, CommitRequeue(o)
  PROVE  BudgetInv'
<1>1. PICK u : u = caller[o].task
  OBVIOUS
<1>2. u \in Tasks /\ caller[o].pc = "requeue" /\ Load(u) < Budget
  BY <1>1 DEF BudgetInv, TypeOK, CallerState, CommitRequeue, CallWithin, RoomFor
<1>3. ASSUME NEW t \in Tasks PROVE Steady(t) \/ Revived(t)
  <2>1. task'[t] = (IF t = u THEN "ready" ELSE task[t]) /\ Same(t)
    BY <1>1, <1>2 DEF CommitRequeue, BudgetInv, TypeOK, Same
  <2>2. CASE t = u
    BY <1>2, <2>1, <2>2 DEF Revived
  <2>3. CASE t # u
    BY <2>1, <2>3 DEF Steady, Aged, Same
  <2> QED
    BY <2>2, <2>3
<1>4. caller'[o].pc = "tick" /\ \A p \in Operators \ {o} : caller'[p] = caller[p]
  BY DEF CommitRequeue, BudgetInv, TypeOK, NoCall
<1> QED
  BY <1>2, <1>3, <1>4, RevivalStep

LEMMA ReconcileWithin ==
  ASSUME BudgetInv, TypeOK', OneReviver, NEW o \in Operators, CommitReconcile(o)
  PROVE  BudgetInv'
<1>1. PICK u : u = caller[o].task
  OBVIOUS
<1>2. u \in Tasks /\ caller[o].pc = "reconcile" /\ CallWithin(o)
  BY <1>1 DEF BudgetInv, TypeOK, CallerState, CommitReconcile
<1>3. Load(u) < Budget
  <2>1. Load(u) \in Nat /\ Budget \in Nat
    BY CountsFinite, BudgetType DEF Load
  <2>2. Budget >= 2 /\ (RoomFor(u) \/ FirstTry(u))
    BY <1>1, <1>2 DEF CallWithin
  <2> QED
    BY <2>1, <2>2 DEF RoomFor, FirstTry
<1>4. PICK s : s = [task EXCEPT ![u] = "ready"]
  OBVIOUS
<1>5. s \in [Tasks -> TaskState] /\ task' \in Recomputed(deps, s)
  BY <1>1, <1>2, <1>4 DEF CommitReconcile, BudgetInv, TypeOK, TaskState
<1>6. ASSUME NEW t \in Tasks PROVE Steady(t) \/ Revived(t)
  <2>1. s[t] = (IF t = u THEN "ready" ELSE task[t]) /\ Same(t)
    BY <1>2, <1>4 DEF CommitReconcile, BudgetInv, TypeOK, Same
  <2>2. CASE t = u
    <3>1. task'[t] = "ready"
      BY <1>5, <2>1, <2>2, RecomputedFacts
    <3> QED
      BY <1>3, <2>1, <2>2, <3>1 DEF Revived
  <2>3. CASE t # u
    BY <1>5, <2>1, <2>3, PassIsSteady DEF BudgetInv
  <2> QED
    BY <2>2, <2>3
<1>7. caller'[o].pc = "idle" /\ \A p \in Operators \ {o} : caller'[p] = caller[p]
  BY DEF CommitReconcile, BudgetInv, TypeOK, NoCall
<1> QED
  BY <1>2, <1>6, <1>7, RevivalStep

\* A tick counts the attempts, and so more than the load; a reconciliation finds
\* the task untried or awaiting.
LEMMA CallBeginsWithin ==
  ASSUME "reconcile" \in Calls => SchedBudget >= 2,
         BudgetInv, TypeOK', NEW o \in Operators, NEW t \in Tasks,
         BeginRequeue(o, t) \/ BeginReconcile(o, t)
  PROVE  BudgetInv'
<1>1. PICK pc : caller' = [caller EXCEPT ![o] = [pc |-> pc, task |-> t]]
  BY DEF BeginRequeue, BeginReconcile, Call
<1>2. caller'[o] = [pc |-> pc, task |-> t] /\ \A p \in Operators \ {o} : caller'[p] = caller[p]
  BY <1>1 DEF BudgetInv, TypeOK
<1>3. \A u \in Tasks : Steady(u)
  BY DEF BeginRequeue, BeginReconcile, Call, Steady, Aged
<1>4. Load(t) \in Nat /\ Budget \in Nat /\ TaskWithin(t)
  BY CountsFinite, BudgetType DEF Load, BudgetInv
<1>5. task' = task /\ att' = att /\ Budget' = Budget
  BY DEF BeginRequeue, BeginReconcile, Call, Budget
<1>6. CASE BeginRequeue(o, t)
  <2>1. task[t] = "failed" /\ AttemptCount(att, t) < SchedBudget /\ caller'[o].pc = "requeue"
    BY <1>6 DEF BeginRequeue, Call, BudgetInv, TypeOK
  <2>2. Load(t) <= AttemptCount(att, t) /\ AttemptCount(att, t) \in Nat
    <3>1. IsFiniteSet(Nums) /\ {n \in Nums : att[t][n] # "none"} \in SUBSET Nums
      BY FS_Interval, BoundPositive DEF Nums
    <3>2. IsFiniteSet({n \in Nums : att[t][n] # "none"})
      BY <3>1, FS_Subset
    <3>3. Counts(att[t]) \in SUBSET {n \in Nums : att[t][n] # "none"}
      BY DEF Counts
    <3> QED
      BY <3>2, <3>3, FS_Subset, FS_CardinalityType DEF Load, AttemptCount
  <2>3. Budget = SchedBudget
    BY <2>1, <2>2, BudgetsAreNat DEF Budget
  <2>4. Load(t) < Budget
    BY <1>4, <2>1, <2>2, <2>3, BudgetsAreNat
  <2>5. RoomFor(t)'
    BY <1>5, <2>1, <2>4 DEF RoomFor, AtRest, Load
  <2>6. CallWithin(o)'
    BY <1>2, <2>1, <2>5 DEF CallWithin
  <2> QED
    BY <1>2, <1>3, <2>6, OperatorSteady
<1>7. CASE BeginReconcile(o, t)
  <2>1. /\ task[t] \in {"blocked", "awaiting"} /\ "reconcile" \in Calls
        /\ caller'[o].pc = "reconcile"
    BY <1>7 DEF BeginReconcile, Call, BudgetInv, TypeOK
  <2>2. Budget >= 2
    BY <2>1, BudgetsAreNat DEF Budget
  <2>3. RoomFor(t) \/ FirstTry(t)
    <3>1. CASE task[t] = "awaiting"
      BY <1>4, <3>1 DEF TaskWithin, RoomFor, AtRest
    <3>2. CASE task[t] = "blocked"
      <4>1. Load(t) = 0
        BY <1>4, <3>2, LoadEmpty DEF TaskWithin
      <4> QED
        BY <4>1 DEF FirstTry
    <3> QED
      BY <2>1, <3>1, <3>2
  <2>4. (RoomFor(t) \/ FirstTry(t))'
    BY <1>5, <2>3 DEF RoomFor, FirstTry, Load
  <2>5. CallWithin(o)'
    BY <1>2, <1>5, <2>1, <2>2, <2>4 DEF CallWithin
  <2> QED
    BY <1>2, <1>3, <2>5, OperatorSteady
<1> QED
  BY <1>6, <1>7

LEMMA InitBudget == Init => BudgetInv
<1> SUFFICES ASSUME Init PROVE BudgetInv
  OBVIOUS
<1>1. ASSUME NEW t \in Tasks PROVE TaskWithin(t)
  <2>1. task[t] = "pending" /\ \A n \in Nums : att[t][n] = "none"
    BY DEF Init
  <2>2. Load(t) = 0
    BY <2>1, LoadEmpty
  <2> QED
    BY <2>1, <2>2, BudgetType DEF TaskWithin
<1>2. ASSUME NEW o \in Operators PROVE CallWithin(o)
  BY DEF Init, NoCall, CallWithin
<1> QED
  BY <1>1, <1>2, InitType DEF BudgetInv

LEMMA StepBudget ==
  ASSUME "reconcile" \in Calls => SchedBudget >= 2
  PROVE  BudgetInv /\ OneReviver /\ [Next]_vars => BudgetInv'
<1> SUFFICES ASSUME BudgetInv, OneReviver, [Next]_vars
             PROVE  BudgetInv'
  OBVIOUS
<1>0. TypeOK /\ TypeOK'
  BY StepType DEF BudgetInv
<1>1. CASE Create
  <2>1. ASSUME NEW t \in Tasks PROVE Steady(t)
    BY <1>0, <1>1, PassIsSteady DEF Create, TypeOK, Same
  <2> QED
    BY <1>0, <1>1, <2>1, SteadyStep DEF Create
<1>2. ASSUME NEW w \in Workers, WorkerStep(w) \/ Crash(w) \/ \E t \in Tasks : Pick(w, t)
      PROVE  BudgetInv'
  <2>1. CASE CommitClaim(w)
    BY <1>0, <2>1, ClaimIsSteady, SteadyStep DEF CommitClaim
  <2>2. CASE CommitComplete(w) \/ CommitFail(w) \/ CommitUnknown(w) \/ CommitCancelTask(w)
    <3>1. ASSUME NEW t \in Tasks PROVE Steady(t)
      BY <1>0, <2>2, ReportIsSteady
         DEF CommitComplete, CommitFail, CommitUnknown, CommitCancelTask, Open
    <3>2. UNCHANGED caller
      BY <2>2 DEF CommitComplete, CommitFail, CommitUnknown, CommitCancelTask, Report
    <3> QED
      BY <1>0, <3>1, <3>2, SteadyStep
  <2>3. CASE \/ BeginClaim(w) \/ ClaimRefused(w) \/ \E t \in Tasks : Pick(w, t)
             \/ BeginComplete(w) \/ CompleteRaises(w) \/ BeginFail(w) \/ BeginUnknown(w)
             \/ BeginCancelTask(w) \/ ReportRefused(w) \/ Crash(w)
    <3>1. UNCHANGED <<task, att, caller>>
      BY <2>3 DEF BeginClaim, ClaimRefused, Pick, BeginComplete, CompleteRaises, BeginFail,
                  BeginUnknown, BeginCancelTask, ReportRefused, Crash, Goto
    <3>2. \A t \in Tasks : Steady(t)
      BY <3>1 DEF Steady, Aged
    <3> QED
      BY <1>0, <3>1, <3>2, SteadyStep
  <2> QED
    BY <1>2, <2>1, <2>2, <2>3 DEF WorkerStep
<1>3. ASSUME NEW o \in Operators, OperatorStep(o)
      PROVE  BudgetInv'
  <2>1. CASE CommitCancel(o)
    <3>1. ASSUME NEW t \in Tasks PROVE Steady(t)
      BY <2>1 DEF CommitCancel, Steady, CalledOff, Aged, TerminalTask
    <3>2. CallWithin(o)' /\ \A p \in Operators \ {o} : caller'[p] = caller[p]
      BY <1>0, <2>1 DEF CommitCancel, CallWithin, TypeOK, NoCall
    <3> QED
      BY <1>0, <3>1, <3>2, OperatorSteady
  <2>2. CASE BeginCancel(o) \/ BeginTick(o) \/ EndTick(o)
    <3>1. \A t \in Tasks : Steady(t)
      BY <2>2 DEF BeginCancel, BeginTick, EndTick, Call, Steady, Aged
    <3>2. CallWithin(o)' /\ \A p \in Operators \ {o} : caller'[p] = caller[p]
      BY <1>0, <2>2 DEF BeginCancel, BeginTick, EndTick, Call, CallWithin, TypeOK
    <3> QED
      BY <1>0, <3>1, <3>2, OperatorSteady
  <2>3. CASE CommitRequeue(o)
    BY <1>0, <2>3, RequeueWithin
  <2>4. CASE CommitReconcile(o)
    BY <1>0, <2>4, ReconcileWithin
  <2>5. ASSUME NEW t \in Tasks, BeginRequeue(o, t) \/ BeginReconcile(o, t)
        PROVE  BudgetInv'
    BY <1>0, <2>5, CallBeginsWithin
  <2> QED
    BY <1>3, <2>1, <2>2, <2>3, <2>4, <2>5 DEF OperatorStep
<1>4. ASSUME NEW t \in Tasks, NEW n \in Nums, LeaseExpires(t, n)
      PROVE  BudgetInv'
  <2>1. ASSUME NEW u \in Tasks PROVE Steady(u)
    BY <1>0, <1>4 DEF LeaseExpires, TypeOK, Steady, Aged
  <2> QED
    BY <1>0, <1>4, <2>1, SteadyStep DEF LeaseExpires
<1>5. CASE Recover \/ ReconcileExpiredLeases
  <2>1. Reclaim
    BY <1>5 DEF Recover, ReconcileExpiredLeases
  <2>2. \A t \in Tasks : Steady(t)
    BY <2>1, ReclaimIsSteady
  <2> QED
    BY <1>0, <2>1, <2>2, SteadyStep DEF Reclaim
<1>6. CASE UNCHANGED vars
  <2>1. \A t \in Tasks : Steady(t)
    BY <1>6 DEF vars, Steady, Aged
  <2> QED
    BY <1>0, <1>6, <2>1, SteadyStep DEF vars
<1> QED
  BY <1>1, <1>2, <1>3, <1>4, <1>5, <1>6 DEF Next

\* No task fails more often than the retry budget allows, while requeues and
\* reconciliations come one at a time.  A reconciliation that was begun on a
\* blocked task grants one try that nobody counted, so with one allowed the
\* budget must leave room for it.
THEOREM FailuresBounded ==
  ASSUME "reconcile" \in Calls => SchedBudget >= 2
  PROVE  Spec /\ []OneReviver => []FailuresWithinBudget
<1>1. BudgetInv /\ OneReviver /\ [Next]_vars => BudgetInv'
  BY StepBudget
<1>2. BudgetInv => FailuresWithinBudget
  <2> SUFFICES ASSUME BudgetInv, NEW t \in Tasks
               PROVE  Cardinality({n \in Nums : att[t][n] = "failed"}) <= Budget
    BY DEF FailuresWithinBudget, Budget
  <2>1. {n \in Nums : att[t][n] = "failed"} \in SUBSET Counts(att[t])
    BY DEF Counts
  <2>2. IsFiniteSet(Counts(att[t])) /\ Load(t) \in Nat /\ Load(t) <= Budget /\ Budget \in Nat
    BY CountsFinite, BudgetType DEF Load, BudgetInv, TaskWithin
  <2>3. /\ IsFiniteSet({n \in Nums : att[t][n] = "failed"})
        /\ Cardinality({n \in Nums : att[t][n] = "failed"}) <= Load(t)
    BY <2>1, <2>2, FS_Subset DEF Load
  <2>4. Cardinality({n \in Nums : att[t][n] = "failed"}) \in Nat
    BY <2>3, FS_CardinalityType
  <2> QED
    BY <2>2, <2>3, <2>4
<1> QED
  BY <1>1, <1>2, InitBudget, PTL DEF Spec

-----------------------------------------------------------------------------
(***************************************************************************)
(* WorkerService implements ExecutionContract, where no operation revives  *)
(* a task.  A result is accepted while the execution is open: a running    *)
(* task keeps it "running", because a claim raises a pending or paused     *)
(* execution and nothing leaves "running" while a task is ready or runs.   *)
(* The state a claim read earlier does no harm: it was pending or running, *)
(* and an execution that was running is not pending again.                 *)
(***************************************************************************)

Busy(s) == \E t \in Tasks : s[t] \in {"ready", "running"}

\* The state of the execution agrees with its tasks.
VerdictFits ==
  /\ exec \in {"paused", "completed", "failed", "cancelled"} => ~Busy(task)
  /\ exec \in {"none", "pending"} => \A t \in Tasks : task[t] # "running"
  /\ exec \in Runnable => \E t \in Tasks : task[t] # "completed"

ClaimsRead ==
  \A w \in Workers : worker[w].pc = "claiming" =>
    worker[w].seen \in {"pending", "running"}
    /\ (worker[w].seen = "running" => exec \notin {"none", "pending"})

ContractInv == GraphInv /\ VerdictFits /\ ClaimsRead

LEMMA RunningMeansRunning ==
  ASSUME TypeOK, VerdictFits, NEW t \in Tasks, task[t] = "running"
  PROVE  exec = "running"
BY DEF TypeOK, VerdictFits, Busy, ExecState

\* The settled state fits the tasks it was settled for.
LEMMA SettledFits ==
  ASSUME NEW s \in [Tasks -> TaskState], NEW a
  PROVE  /\ Settled("running", s, a) = "completed" <=> AllCompleted(s)
         /\ Settled("running", s, a) \in {"completed", "running", "paused", "failed"}
         /\ Settled("running", s, a) # "running" => ~Busy(s)
<1>1. Idle(s) => ~Busy(s)
  BY DEF Idle, Busy
<1>2. AllCompleted(s) => ~Busy(s)
  BY DEF AllCompleted, Busy
<1>3. Stalled(s) => Idle(s)
  BY DEF Stalled
<1> QED
  BY <1>1, <1>2, <1>3 DEF Settled

\* Abstract steps, in terms of the mapping.
accBar == {t \in Tasks : task[t] = "completed"}

LEMMA MapsToAccept ==
  ASSUME NEW t \in Tasks, exec = "running", task[t] # "completed",
         \A p \in deps[t] : p \in Tasks /\ task[p] = "completed",
         \A u \in Tasks : task'[u] = "completed" <=> task[u] = "completed" \/ u = t,
         UNCHANGED deps,
         exec' = "completed" <=> \A u \in Tasks : task'[u] = "completed",
         exec' \in {"completed", "running", "paused", "failed"}
  PROVE  Contract!CNext
<1>1. accBar' = accBar \cup {t} /\ t \notin accBar /\ deps[t] \subseteq accBar
  BY DEF accBar
<1>2. accBar' = Tasks <=> exec' = "completed"
  BY DEF accBar
<1>3. verdictBar = "open" /\ verdictBar' = IF exec' \in {"completed", "failed"} THEN exec' ELSE "open"
  BY DEF verdictBar, Runnable
<1>4. Contract!Accept(t)
  BY <1>1, <1>2, <1>3 DEF Contract!Accept, accBar
<1> QED
  BY <1>4 DEF Contract!CNext

LEMMA MapsToGiveUp ==
  ASSUME exec \in Runnable, exec' = "failed", UNCHANGED deps,
         \A u \in Tasks : task'[u] = "completed" <=> task[u] = "completed",
         \E u \in Tasks : task[u] # "completed"
  PROVE  Contract!CNext
<1>1. accBar' = accBar /\ accBar # Tasks
  BY DEF accBar
<1>2. verdictBar = "open" /\ verdictBar' = "failed"
  BY DEF verdictBar, Runnable
<1>3. Contract!GiveUp
  BY <1>1, <1>2 DEF Contract!GiveUp, accBar
<1> QED
  BY <1>3 DEF Contract!CNext

LEMMA MapsToStutter ==
  ASSUME UNCHANGED deps, exec' = exec \/ (exec \in Runnable /\ exec' \in Runnable),
         \A u \in Tasks : task'[u] = "completed" <=> task[u] = "completed"
  PROVE  UNCHANGED Contract!cvars
<1>1. accBar' = accBar
  BY DEF accBar
<1>2. verdictBar' = verdictBar
  BY DEF verdictBar
<1> QED
  BY <1>1, <1>2 DEF Contract!cvars, accBar

\* An outcome reported from an open attempt is an abstract step: the result is
\* accepted, the execution given up, or nothing happened that was promised.
LEMMA ReportMaps ==
  ASSUME ContractInv, NEW w \in Workers, Attempt(w) \in Open,
         NEW a, NEW s \in {"completed", "failed", "cancelled", "awaiting"}, Report(w, a, s)
  PROVE  VerdictFits' /\ ClaimsRead' /\ (Contract!CNext \/ UNCHANGED Contract!cvars)
<1>1. PICK t0 : t0 = worker[w].task
  OBVIOUS
<1>2. t0 \in Tasks /\ worker[w].num \in Nums /\ TypeOK
  BY <1>1 DEF ContractInv, GraphInv, OwnershipInv, TypeOK, WorkerState
<1>3. task[t0] = "running"
  BY <1>1, <1>2 DEF ContractInv, GraphInv, OwnershipInv, SingleOwner, Attempt
<1>4. exec = "running"
  BY <1>2, <1>3, RunningMeansRunning DEF ContractInv
<1>5. PICK r : r \in Recomputed(deps, SetTask(w, s)) /\ task' = r
               /\ exec' = Settled("running", r, SetAttempt(w, a))
  BY <1>4 DEF Report, Finish
<1>6. SetTask(w, s) \in [Tasks -> TaskState]
  BY <1>1, <1>2 DEF SetTask, TypeOK, TaskState
<1>7. \A u \in Tasks : SetTask(w, s)[u] = IF u = t0 THEN s ELSE task[u]
  BY <1>1, <1>2 DEF SetTask, TypeOK
<1>8. r \in [Tasks -> TaskState] /\ r[t0] = s
      /\ \A u \in Tasks \ {t0} : r[u] = "completed" <=> task[u] = "completed"
  BY <1>2, <1>5, <1>6, <1>7, RecomputedFacts
<1>9. /\ exec' = "completed" <=> AllCompleted(r)
      /\ exec' \in {"completed", "running", "paused", "failed"}
      /\ exec' # "running" => ~Busy(r)
  BY <1>5, <1>8, SettledFits
<1>10. VerdictFits'
  BY <1>5, <1>9 DEF VerdictFits, AllCompleted, Runnable
<1>11. ClaimsRead'
  BY <1>2, <1>9 DEF Report, ContractInv, ClaimsRead, TypeOK, Free
<1>12. UNCHANGED deps
  BY DEF Report
<1>13. CASE s = "completed"
  <2>1. \A p \in deps[t0] : p \in Tasks /\ task[p] = "completed"
    BY <1>2, <1>3 DEF ContractInv, GraphInv, DependenciesFirst, TypeOK
  <2>2. \A u \in Tasks : task'[u] = "completed" <=> task[u] = "completed" \/ u = t0
    BY <1>5, <1>8, <1>13
  <2>3. exec' = "completed" <=> \A u \in Tasks : task'[u] = "completed"
    BY <1>5, <1>9 DEF AllCompleted
  <2> QED
    BY <1>2, <1>3, <1>4, <1>9, <1>10, <1>11, <1>12, <2>1, <2>2, <2>3, MapsToAccept
<1>14. CASE s # "completed"
  <2>1. \A u \in Tasks : task'[u] = "completed" <=> task[u] = "completed"
    BY <1>3, <1>5, <1>8, <1>14
  <2>2. exec' # "completed" /\ \E u \in Tasks : task[u] # "completed"
    BY <1>2, <1>3, <1>8, <1>9, <1>14 DEF AllCompleted
  <2>3. CASE exec' = "failed"
    BY <1>4, <1>10, <1>11, <1>12, <2>1, <2>2, <2>3, MapsToGiveUp DEF Runnable
  <2>4. CASE exec' # "failed"
    BY <1>4, <1>9, <1>10, <1>11, <1>12, <2>1, <2>2, <2>4, MapsToStutter DEF Runnable
  <2> QED
    BY <2>3, <2>4
<1> QED
  BY <1>13, <1>14

\* Recovery accepts nothing; it can only find that nothing more is to be had.
LEMMA ReclaimMaps ==
  ASSUME ContractInv, GraphInv', Reclaim, exec # "none"
  PROVE  VerdictFits' /\ ClaimsRead' /\ (Contract!CNext \/ UNCHANGED Contract!cvars)
<1> DEFINE s == [t \in Tasks |-> IF Abandoned(t) THEN "ready" ELSE task[t]]
<1>1. PICK r, e, a : r \in Recomputed(deps, s) /\ task' = r /\ e = Settled(exec, r, a)
                     /\ exec' = Resumed(e, r)
  BY DEF Reclaim
<1>2. s \in [Tasks -> TaskState] /\ TypeOK
  BY DEF ContractInv, GraphInv, OwnershipInv, TypeOK, TaskState
<1>3. \A t \in Tasks : s[t] = IF Abandoned(t) THEN "ready" ELSE task[t]
  OBVIOUS
<1> HIDE DEF s
<1>4. r \in [Tasks -> TaskState]
      /\ \A t \in Tasks : /\ r[t] = "completed" <=> task[t] = "completed"
                          /\ r[t] = "running" => task[t] = "running"
                          /\ r[t] = "ready" => task[t] \in {"ready", "running", "pending", "blocked"}
  BY <1>1, <1>2, <1>3, RecomputedFacts DEF Abandoned
<1>5. UNCHANGED <<deps, worker>>
  BY DEF Reclaim
<1>6. ASSUME NEW t \in Tasks, task[t] \in {"pending", "blocked"}
      PROVE  r[t] # "ready"
  <2>1. PICK p \in deps[t] : task[p] # "completed"
    BY <1>6 DEF ContractInv, GraphInv, NoLostWakeup
  <2>2. p \in Tasks
    BY <1>2, <2>1 DEF TypeOK
  <2>3. r[t] = "ready" => \A q \in deps[t] : r[q] = "completed"
    BY <1>1, <1>5 DEF GraphInv, DependenciesFirst
  <2> QED
    BY <1>4, <2>1, <2>2, <2>3
<1>7. ~Busy(task) => ~Busy(r)
  BY <1>4, <1>6 DEF Busy
<1>8. Idle(r) => ~Busy(r)
  BY DEF Idle, Busy
<1>9. CASE exec = "running"
  <2>1. \E t \in Tasks : r[t] # "completed" /\ task[t] # "completed"
    BY <1>4, <1>9 DEF ContractInv, VerdictFits, Runnable
  <2>2. e \in {"running", "paused", "failed"} /\ (e # "running" => ~Busy(r))
    BY <1>1, <1>4, <1>9, <2>1, SettledFits DEF AllCompleted
  <2>3. exec' \in {"running", "paused", "failed"} /\ (exec' # "running" => ~Busy(r))
    BY <1>1, <1>8, <2>2 DEF Resumed
  <2>4. VerdictFits' /\ ClaimsRead'
    BY <1>1, <1>5, <2>1, <2>3 DEF VerdictFits, ClaimsRead, ContractInv
  <2>5. CASE exec' = "failed"
    BY <1>1, <1>4, <1>5, <1>9, <2>1, <2>4, <2>5, MapsToGiveUp DEF Runnable
  <2>6. CASE exec' # "failed"
    BY <1>1, <1>4, <1>5, <1>9, <2>3, <2>4, <2>6, MapsToStutter DEF Runnable
  <2> QED
    BY <2>5, <2>6
<1>10. CASE exec \in {"pending", "paused"}
  <2>1. e = exec
    BY <1>1, <1>10 DEF Settled
  <2>2. exec' = "running" \/ exec' = exec
    BY <1>1, <1>10, <2>1 DEF Resumed
  <2>3. \E t \in Tasks : r[t] # "completed"
    BY <1>4, <1>10 DEF ContractInv, VerdictFits, Runnable
  <2>4. VerdictFits'
    BY <1>1, <1>4, <1>7, <1>10, <2>2, <2>3 DEF VerdictFits, ContractInv
  <2>5. ClaimsRead'
    BY <1>5, <1>10, <2>2 DEF ClaimsRead, ContractInv
  <2> QED
    BY <1>1, <1>4, <1>5, <1>10, <2>2, <2>4, <2>5, MapsToStutter DEF Runnable
<1>11. CASE exec \in {"completed", "failed", "cancelled"}
  <2>1. exec' = exec
    BY <1>1, <1>11 DEF Settled, Resumed
  <2>2. VerdictFits' /\ ClaimsRead'
    BY <1>1, <1>5, <1>7, <1>11, <2>1 DEF VerdictFits, ClaimsRead, ContractInv, Runnable
  <2> QED
    BY <1>1, <1>4, <1>5, <2>1, <2>2, MapsToStutter
<1> QED
  BY <1>2, <1>9, <1>10, <1>11 DEF TypeOK, ExecState

\* A claim leaves a pending or running execution running.
LEMMA ClaimMaps ==
  ASSUME ContractInv, NEW w \in Workers, CommitClaim(w)
  PROVE  VerdictFits' /\ ClaimsRead' /\ UNCHANGED Contract!cvars
<1>1. PICK t0 : t0 = worker[w].task
  OBVIOUS
<1>2. t0 \in Tasks /\ task[t0] = "ready" /\ TypeOK
  BY <1>1 DEF CommitClaim, ContractInv, GraphInv, OwnershipInv, TypeOK, WorkerState
<1>3. exec \in {"pending", "running"}
  BY <1>2 DEF ContractInv, VerdictFits, Busy, GraphInv, NothingBeforeCreate, TypeOK, ExecState
<1>4. exec' = "running"
  BY <1>3 DEF CommitClaim, ContractInv, ClaimsRead
<1>5. \A t \in Tasks : task'[t] = IF t = t0 THEN "running" ELSE task[t]
  BY <1>1, <1>2 DEF CommitClaim, TypeOK
<1>6. VerdictFits'
  BY <1>2, <1>4, <1>5 DEF VerdictFits
<1>7. ClaimsRead'
  BY <1>2, <1>4 DEF CommitClaim, ContractInv, ClaimsRead, TypeOK, Free
<1>8. UNCHANGED deps /\ \A t \in Tasks : task'[t] = "completed" <=> task[t] = "completed"
  BY <1>2, <1>5 DEF CommitClaim
<1> QED
  BY <1>3, <1>4, <1>6, <1>7, <1>8, MapsToStutter DEF Runnable

LEMMA CancelMaps ==
  ASSUME ContractInv, NEW o \in Operators, CommitCancel(o)
  PROVE  VerdictFits' /\ ClaimsRead' /\ Contract!CNext
<1>1. exec # "none" /\ exec' = "cancelled" /\ UNCHANGED <<deps, worker>>
  BY DEF CommitCancel, ContractInv, GraphInv, NothingBeforeCreate
<1>2. \A t \in Tasks : /\ task'[t] \in TerminalTask
                       /\ task'[t] = "completed" <=> task[t] = "completed"
  BY DEF CommitCancel, TerminalTask
<1>3. VerdictFits' /\ ClaimsRead'
  BY <1>1, <1>2 DEF VerdictFits, Busy, TerminalTask, Runnable, ClaimsRead, ContractInv
<1>4. accBar' = accBar /\ verdictBar # "none" /\ verdictBar' = "cancelled"
  BY <1>1, <1>2 DEF accBar, verdictBar, Runnable
<1>5. Contract!Cancel
  BY <1>1, <1>4 DEF Contract!Cancel, accBar
<1> QED
  BY <1>3, <1>5 DEF Contract!CNext

LEMMA CreateMaps ==
  ASSUME ContractInv, Create
  PROVE  VerdictFits' /\ ClaimsRead' /\ Contract!CNext
<1>1. exec = "none" /\ exec' = "pending" /\ UNCHANGED worker /\ deps' \in [Tasks -> SUBSET Tasks]
  BY DEF Create, Graphs
<1>2. task \in [Tasks -> TaskState] /\ \A t \in Tasks : task[t] = "pending"
  BY <1>1 DEF ContractInv, GraphInv, OwnershipInv, TypeOK, NothingBeforeCreate
<1>3. \A t \in Tasks : task'[t] \in {"pending", "ready", "blocked"}
  BY <1>2, RecomputedFacts DEF Create
<1>4. 1 \in Tasks
  BY GraphNotEmpty DEF Tasks
<1>5. VerdictFits'
  BY <1>1, <1>3, <1>4 DEF VerdictFits
<1>6. ClaimsRead'
  BY <1>1 DEF ContractInv, ClaimsRead
<1>7. accBar' = accBar /\ verdictBar = "none" /\ verdictBar' = "open"
  BY <1>1, <1>2, <1>3 DEF accBar, verdictBar, Runnable
<1>8. Contract!Open
  BY <1>1, <1>7 DEF Contract!Open, accBar
<1> QED
  BY <1>5, <1>6, <1>8 DEF Contract!CNext

\* Steps that write neither the execution nor a task; only BeginClaim reads.
LEMMA QuietMaps ==
  ASSUME ContractInv, UNCHANGED <<exec, deps, task>>, ClaimsRead'
  PROVE  VerdictFits' /\ UNCHANGED Contract!cvars
<1>1. VerdictFits'
  BY DEF ContractInv, VerdictFits
<1> QED
  BY <1>1, MapsToStutter

LEMMA InitContract == Init => ContractInv /\ Contract!CInit
<1> SUFFICES ASSUME Init PROVE VerdictFits /\ ClaimsRead /\ Contract!CInit
  BY InitGraph DEF ContractInv
<1>1. VerdictFits /\ ClaimsRead
  BY DEF Init, VerdictFits, Busy, Runnable, ClaimsRead, Free
<1>2. accBar = {} /\ verdictBar = "none" /\ deps = [t \in Tasks |-> {}]
  BY DEF Init, accBar, verdictBar, Runnable
<1>3. Contract!CInit
  BY <1>2 DEF Contract!CInit, accBar
<1> QED
  BY <1>1, <1>3

LEMMA StepMaps ==
  ASSUME NoRevival
  PROVE  ContractInv /\ [Next]_vars => ContractInv' /\ [Contract!CNext]_(Contract!cvars)
<1> SUFFICES ASSUME ContractInv, [Next]_vars
             PROVE  VerdictFits' /\ ClaimsRead' /\ (Contract!CNext \/ UNCHANGED Contract!cvars)
  BY StepGraph DEF ContractInv
<1>0. GraphInv' /\ TypeOK
  BY StepGraph DEF ContractInv, GraphInv, OwnershipInv
<1>1. CASE Create
  BY <1>1, CreateMaps
<1>2. ASSUME NEW w \in Workers, WorkerStep(w) \/ Crash(w) \/ \E t \in Tasks : Pick(w, t)
      PROVE  VerdictFits' /\ ClaimsRead' /\ (Contract!CNext \/ UNCHANGED Contract!cvars)
  <2>1. CASE CommitClaim(w)
    BY <2>1, ClaimMaps
  <2>2. CASE CommitComplete(w) \/ CommitFail(w) \/ CommitUnknown(w) \/ CommitCancelTask(w)
    BY <2>2, ReportMaps
       DEF CommitComplete, CommitFail, CommitUnknown, CommitCancelTask, Open
  <2>3. CASE BeginClaim(w)
    <3>1. UNCHANGED <<exec, deps, task>>
      BY <2>3 DEF BeginClaim
    <3>2. worker[w].task \in Tasks /\ task[worker[w].task] = "ready"
      BY <1>0, <2>3 DEF BeginClaim, TypeOK, WorkerState
    <3>3. exec \in {"pending", "running"}
      BY <1>0, <3>2
         DEF ContractInv, VerdictFits, Busy, GraphInv, NothingBeforeCreate, TypeOK, ExecState
    <3>4. worker'[w].seen = exec /\ \A v \in Workers \ {w} : worker'[v] = worker[v]
      BY <1>0, <2>3 DEF BeginClaim, TypeOK, WorkerState
    <3>5. ClaimsRead'
      BY <3>1, <3>3, <3>4 DEF ContractInv, ClaimsRead
    <3> QED
      BY <3>1, <3>5, QuietMaps
  <2>4. CASE \/ ClaimRefused(w) \/ \E t \in Tasks : Pick(w, t)
             \/ BeginComplete(w) \/ CompleteRaises(w) \/ BeginFail(w) \/ BeginUnknown(w)
             \/ BeginCancelTask(w) \/ ReportRefused(w) \/ Crash(w)
    <3>1. UNCHANGED <<exec, deps, task>>
      BY <2>4 DEF ClaimRefused, Pick, BeginComplete, CompleteRaises, BeginFail, BeginUnknown,
                  BeginCancelTask, ReportRefused, Crash, Goto
    <3>2. worker'[w].pc # "claiming" /\ \A v \in Workers \ {w} : worker'[v] = worker[v]
      <4>1. CASE ClaimRefused(w) \/ \E t \in Tasks : Pick(w, t)
        <5>1. CASE ClaimRefused(w)
          BY <1>0, <5>1 DEF ClaimRefused, TypeOK, Free
        <5>2. ASSUME NEW t \in Tasks, Pick(w, t)
              PROVE  worker'[w].pc # "claiming" /\ \A v \in Workers \ {w} : worker'[v] = worker[v]
          <6>1. worker'[w] = [Free EXCEPT !.pc = "picked", !.task = t]
            BY <1>0, <5>2 DEF Pick, TypeOK
          <6>2. [Free EXCEPT !.pc = "picked", !.task = t].pc = "picked"
            BY DEF Free
          <6> QED
            BY <1>0, <5>2, <6>1, <6>2 DEF Pick, TypeOK
        <5> QED
          BY <4>1, <5>1, <5>2
      <4>2. ASSUME NEW pc \in {"idle"} \cup Holding, Goto(w, pc)
            PROVE  worker'[w].pc # "claiming" /\ \A v \in Workers \ {w} : worker'[v] = worker[v]
        <5>1. worker'[w] = IF pc = "idle" THEN Free ELSE [worker[w] EXCEPT !.pc = pc]
          BY <1>0, <4>2 DEF Goto, TypeOK
        <5>2. worker[w] \in WorkerState
          BY <1>0 DEF TypeOK
        <5>3. worker'[w].pc = pc
          BY <5>1, <5>2 DEF WorkerState, Free
        <5> QED
          BY <1>0, <4>2, <5>3 DEF Goto, TypeOK, Holding
      <4>3. ASSUME ~ClaimRefused(w), ~\E t \in Tasks : Pick(w, t)
            PROVE  \E pc \in {"idle"} \cup Holding : Goto(w, pc)
        BY <2>4, <4>3 DEF BeginComplete, CompleteRaises, BeginFail, BeginUnknown,
                          BeginCancelTask, ReportRefused, Crash, Holding
      <4> QED
        BY <4>1, <4>2, <4>3
    <3>3. ClaimsRead'
      BY <3>1, <3>2 DEF ContractInv, ClaimsRead
    <3> QED
      BY <3>1, <3>3, QuietMaps
  <2> QED
    BY <1>2, <2>1, <2>2, <2>3, <2>4 DEF WorkerStep
<1>3. ASSUME NEW o \in Operators, OperatorStep(o)
      PROVE  VerdictFits' /\ ClaimsRead' /\ (Contract!CNext \/ UNCHANGED Contract!cvars)
  <2>1. CASE CommitCancel(o)
    BY <2>1, CancelMaps
  <2>2. CASE BeginCancel(o)
    <3>1. UNCHANGED <<exec, deps, task, worker>>
      BY <2>2 DEF BeginCancel, Call
    <3>2. ClaimsRead'
      BY <3>1 DEF ContractInv, ClaimsRead
    <3> QED
      BY <3>1, <3>2, QuietMaps
  <2>3. ~(\/ BeginTick(o) \/ EndTick(o) \/ CommitRequeue(o) \/ CommitReconcile(o)
          \/ \E t \in Tasks : BeginRequeue(o, t) \/ BeginReconcile(o, t))
    BY BudgetsAreNat DEF NoRevival, BeginTick, EndTick, CommitRequeue, CommitReconcile,
       BeginRequeue, BeginReconcile, ContractInv, GraphInv, OwnershipInv, NoReviverCalled
  <2> QED
    BY <1>3, <2>1, <2>2, <2>3 DEF OperatorStep
<1>4. ASSUME NEW t \in Tasks, NEW n \in Nums, LeaseExpires(t, n)
      PROVE  VerdictFits' /\ ClaimsRead' /\ (Contract!CNext \/ UNCHANGED Contract!cvars)
  <2>1. UNCHANGED <<exec, deps, task, worker>>
    BY <1>4 DEF LeaseExpires
  <2>2. ClaimsRead'
    BY <2>1 DEF ContractInv, ClaimsRead
  <2> QED
    BY <2>1, <2>2, QuietMaps
<1>5. CASE Recover \/ ReconcileExpiredLeases
  BY <1>0, <1>5, ReclaimMaps DEF Recover, ReconcileExpiredLeases, Runnable
<1>6. CASE UNCHANGED vars
  <2>1. UNCHANGED <<exec, deps, task, worker>>
    BY <1>6 DEF vars
  <2>2. ClaimsRead'
    BY <2>1 DEF ContractInv, ClaimsRead
  <2> QED
    BY <2>1, <2>2, QuietMaps
<1> QED
  BY <1>1, <1>2, <1>3, <1>4, <1>5, <1>6 DEF Next

\* The execution keeps its promise: every step accepts a result that was not
\* accepted and whose dependencies were, gives a verdict, or leaves both alone.
THEOREM Refinement == ASSUME NoRevival PROVE Spec => ImplementsContract
<1>1. ContractInv /\ [Next]_vars => ContractInv' /\ [Contract!CNext]_(Contract!cvars)
  BY StepMaps
<1>2. Init => ContractInv /\ Contract!CInit
  BY InitContract
<1> QED
  BY <1>1, <1>2, PTL DEF Spec, ImplementsContract, Contract!CSpec
=============================================================================
