------------------------- MODULE PlanServiceProofs -------------------------
(***************************************************************************)
(* Proofs about PlanService and the buttons of PlanCards, for any number   *)
(* of humans, of schedulers and of revisions; and about TaskDecomposition, *)
(* for any task lists a model may answer with and any measure of how close *)
(* two names are.                                                          *)
(***************************************************************************)
EXTENDS PlanCards, TaskDecomposition, SequenceTheorems, TLAPS

\* What a handler that is past its reads still knows: revisions are never
\* removed and handoffs never withdrawn, so a number it keeps stays good.
UsersGood ==
  \A u \in Users :
    /\ user[u].pc = "proposing" => user[u].expected \in 1..(plan.number + 1)
    /\ user[u].pc \in {"approve", "reject"} => plan.number > 0
    /\ user[u].pc \in {"approving", "rejecting"} => user[u].rev \in 1..plan.number

SchedulersGood ==
  \A s \in Schedulers : sched[s].pc # "idle" => handoff[sched[s].rev] # "none"

\* The inductive invariant.  Types depend on it: a decision's commit indexes
\* the revisions with the number it kept.
PlanInv == TypeOK /\ UsersGood /\ SchedulersGood /\ NumbersContiguous /\ PaperTrail

(***************************************************************************)
(* The local variables of a request and of a pass.                         *)
(***************************************************************************)

LEMMA IdleTypes == NoRequest \in UserState /\ NoPass \in SchedState
BY RevisionBound DEF NoRequest, Local, UserState, PlanState, NoPass, SchedState, Revs

\* A request ends: nothing is claimed about an idle caller.
LEMMA RequestEnds ==
  ASSUME PlanInv, NEW u \in Users, Request(u, NoRequest),
         plan'.number \in 0..MaxRevisions, plan'.number >= plan.number
  PROVE  user' \in [Users -> UserState] /\ UsersGood'
<1>1. user' \in [Users -> UserState]
  BY IdleTypes DEF Request, PlanInv, TypeOK
<1>2. \A v \in Users : user'[v] = IF v = u THEN NoRequest ELSE user[v]
  BY DEF Request, PlanInv, TypeOK
<1>3. plan.number \in Int /\ plan'.number \in Int
  BY RevisionBound DEF PlanInv, TypeOK
<1>4. ASSUME NEW v \in Users PROVE user[v].rev \in Int /\ user[v].expected \in Int
  BY RevisionBound DEF PlanInv, TypeOK, UserState
<1> QED
  BY <1>1, <1>2, <1>3, <1>4 DEF UsersGood, PlanInv, NoRequest, Local

\* A request goes on with a record that is right when it is made.
LEMMA RequestContinues ==
  ASSUME PlanInv, NEW u \in Users, NEW r \in UserState, Request(u, r), plan' = plan,
         r.pc = "proposing" => r.expected \in 1..(plan.number + 1),
         r.pc \in {"approve", "reject"} => plan.number > 0,
         r.pc \in {"approving", "rejecting"} => r.rev \in 1..plan.number
  PROVE  user' \in [Users -> UserState] /\ UsersGood'
<1>1. user' \in [Users -> UserState]
  BY DEF Request, PlanInv, TypeOK
<1>2. \A v \in Users : user'[v] = IF v = u THEN r ELSE user[v]
  BY DEF Request, PlanInv, TypeOK
<1> QED
  BY <1>1, <1>2 DEF UsersGood, PlanInv

\* A pass goes on with a handoff that exists, or ends.
LEMMA PassContinues ==
  ASSUME PlanInv, NEW s \in Schedulers, NEW pc \in {"idle", "listed", "creating"},
         NEW n \in Revs, Pass(s, pc, n), pc # "idle" => handoff[n] # "none",
         \A m \in Revs : handoff[m] # "none" => handoff'[m] # "none"
  PROVE  sched' \in [Schedulers -> SchedState] /\ SchedulersGood'
<1>1. sched' \in [Schedulers -> SchedState]
  BY DEF Pass, PlanInv, TypeOK, SchedState
<1>2. \A v \in Schedulers : sched'[v] = IF v = s THEN [pc |-> pc, rev |-> n] ELSE sched[v]
  BY DEF Pass, PlanInv, TypeOK
<1>3. \A v \in Schedulers : sched[v].rev \in Revs
  BY DEF PlanInv, TypeOK, SchedState
<1> QED
  BY <1>1, <1>2, <1>3 DEF SchedulersGood, PlanInv

(***************************************************************************)
(* A step that only moves local variables.                                 *)
(***************************************************************************)

LEMMA QuietUser ==
  ASSUME PlanInv, user' \in [Users -> UserState], UsersGood',
         UNCHANGED <<plan, rev, decisions, handoff, execs, sched>>
  PROVE  PlanInv'
BY DEF PlanInv, TypeOK, SchedulersGood, NumbersContiguous, PaperTrail

LEMMA QuietScheduler ==
  ASSUME PlanInv, sched' \in [Schedulers -> SchedState], SchedulersGood',
         UNCHANGED <<plan, rev, decisions, handoff, execs, user>>
  PROVE  PlanInv'
BY DEF PlanInv, TypeOK, UsersGood, NumbersContiguous, PaperTrail

(***************************************************************************)
(* The steps that write.                                                   *)
(***************************************************************************)

LEMMA ProposeStep ==
  ASSUME PlanInv, NEW u \in Users, CommitPropose(u) PROVE PlanInv'
<1> DEFINE n == user[u].expected
<1>1. /\ n \in 1..(plan.number + 1) /\ n \in 0..MaxRevisions /\ plan.number \in 0..MaxRevisions
  BY DEF CommitPropose, PlanInv, UsersGood, TypeOK, UserState
<1>2. n \in Revs /\ n = plan.number + 1
  BY <1>1, RevisionBound DEF CommitPropose, PlanInv, NumbersContiguous, Revs
<1>3. plan' = [state |-> "proposed", number |-> n] /\ rev' = [rev EXCEPT ![n] = "proposed"]
  BY DEF CommitPropose
<1>4. plan' \in [state : PlanState, number : 0..MaxRevisions] /\ rev' \in [Revs -> RevisionState]
  BY <1>1, <1>3 DEF PlanInv, TypeOK, PlanState, RevisionState
<1>5. user' \in [Users -> UserState] /\ UsersGood'
  BY RequestEnds, <1>1, <1>2, <1>3 DEF CommitPropose
<1>6. NumbersContiguous'
  <2>1. plan'.number = n /\ \A m \in Revs : rev'[m] = IF m = n THEN "proposed" ELSE rev[m]
    BY <1>2, <1>3 DEF PlanInv, TypeOK
  <2>2. rev[n] = "none" /\ decisions' = decisions
    BY DEF CommitPropose
  <2>3. ASSUME NEW m \in Revs PROVE rev'[m] # "none" <=> m <= plan'.number
    BY <1>1, <1>2, <2>1, RevisionBound DEF PlanInv, NumbersContiguous, Revs
  <2>4. ASSUME NEW m \in Revs PROVE rev'[m] \in Results <=> rev[m] \in Results
    BY <2>1, <2>2 DEF Results
  <2> QED
    BY <2>2, <2>3, <2>4 DEF NumbersContiguous, PlanInv
<1> QED
  BY <1>4, <1>5, <1>6 DEF CommitPropose, PlanInv, TypeOK, SchedulersGood, PaperTrail

LEMMA DecideStep ==
  ASSUME PlanInv, NEW u \in Users, CommitApprove(u) \/ CommitReject(u) PROVE PlanInv'
<1> DEFINE n == user[u].rev
<1>1. n \in 1..plan.number /\ plan.number \in 0..MaxRevisions /\ n \in Revs
  BY RevisionBound DEF CommitApprove, CommitReject, PlanInv, UsersGood, TypeOK, Revs
<1>2. plan'.number = plan.number /\ plan' \in [state : PlanState, number : 0..MaxRevisions]
  BY DEF CommitApprove, CommitReject, PlanInv, TypeOK, PlanState
<1>3. user' \in [Users -> UserState] /\ UsersGood'
  BY RequestEnds, <1>1, <1>2 DEF CommitApprove, CommitReject
<1>4. CASE UNCHANGED <<plan, rev, decisions, handoff, execs, sched>>
  BY <1>3, <1>4, QuietUser
<1>5. ASSUME NEW verdict \in Results,
             decisions' = decisions \cup {<<n, verdict>>}, rev' = [rev EXCEPT ![n] = verdict],
             handoff' = IF verdict = "approved" THEN [handoff EXCEPT ![n] = "unclaimed"] ELSE handoff,
             verdict = "approved" => <<n, "approved">> \notin decisions,
             UNCHANGED <<execs, sched>>
      PROVE  PlanInv'
  <2>1. /\ decisions' \subseteq Revs \X Results
        /\ rev' \in [Revs -> RevisionState]
        /\ handoff' \in [Revs -> {"none", "unclaimed", "claimed"}]
    BY <1>1, <1>5 DEF PlanInv, TypeOK, Results, RevisionState
  <2>2. \A m \in Revs : /\ rev'[m] = IF m = n THEN verdict ELSE rev[m]
                        /\ handoff'[m] = IF m = n /\ verdict = "approved"
                                         THEN "unclaimed" ELSE handoff[m]
                        /\ \A r \in Results :
                             <<m, r>> \in decisions' <=> <<m, r>> \in decisions \/ (m = n /\ r = verdict)
    BY <1>1, <1>5 DEF PlanInv, TypeOK
  <2>3. NumbersContiguous'
    <3> SUFFICES ASSUME NEW m \in Revs
                 PROVE  /\ rev'[m] # "none" <=> m <= plan'.number
                        /\ rev'[m] \in Results <=> \E r \in Results : <<m, r>> \in decisions'
      BY DEF NumbersContiguous
    <3>1. /\ rev[m] # "none" <=> m <= plan.number
          /\ rev[m] \in Results <=> \E r \in Results : <<m, r>> \in decisions
      BY DEF PlanInv, NumbersContiguous
    <3>2. CASE m = n
      BY <1>1, <1>2, <2>2, <3>1, <3>2 DEF Results
    <3>3. CASE m # n
      BY <1>2, <2>2, <3>1, <3>3
    <3> QED
      BY <3>2, <3>3
  <2>4. handoff[n] = "none" \/ verdict = "rejected"
    BY <1>1, <1>5 DEF PlanInv, PaperTrail, Results
  <2>5. PaperTrail'
    <3> SUFFICES ASSUME NEW m \in Revs
                 PROVE  /\ handoff'[m] # "none" <=> <<m, "approved">> \in decisions'
                        /\ handoff'[m] = "claimed" <=> m \in execs'
      BY DEF PaperTrail
    <3>1. /\ handoff[m] # "none" <=> <<m, "approved">> \in decisions
          /\ handoff[m] = "claimed" <=> m \in execs
      BY DEF PlanInv, PaperTrail
    <3> QED
      BY <1>5, <2>2, <2>4, <3>1 DEF Results
  <2>6. SchedulersGood'
    <3>1. \A s \in Schedulers : sched[s].rev \in Revs
      BY DEF PlanInv, TypeOK, SchedState
    <3> QED
      BY <1>5, <2>2, <3>1 DEF PlanInv, SchedulersGood
  <2> QED
    BY <1>2, <1>3, <1>5, <2>1, <2>3, <2>5, <2>6 DEF PlanInv, TypeOK
<1> QED
  BY <1>4, <1>5 DEF CommitApprove, CommitReject, Results

LEMMA ExecuteStep ==
  ASSUME PlanInv, NEW s \in Schedulers, CommitExecution(s) PROVE PlanInv'
<1> DEFINE n == sched[s].rev
<1>1. n \in Revs /\ 1 \in Revs /\ handoff[n] # "none"
  BY RevisionBound DEF CommitExecution, PlanInv, TypeOK, SchedState, SchedulersGood, Revs
<1>2. /\ handoff' \in [Revs -> {"none", "unclaimed", "claimed"}]
      /\ \A m \in Revs : handoff'[m] = IF m = n /\ n \notin execs THEN "claimed" ELSE handoff[m]
  BY <1>1 DEF CommitExecution, PlanInv, TypeOK
<1>3. sched' \in [Schedulers -> SchedState] /\ SchedulersGood'
  BY <1>1, <1>2, PassContinues DEF CommitExecution
<1>4. PaperTrail'
  BY <1>1, <1>2 DEF CommitExecution, PlanInv, PaperTrail
<1> QED
  BY <1>1, <1>2, <1>3, <1>4
  DEF CommitExecution, PlanInv, TypeOK, UsersGood, NumbersContiguous

(***************************************************************************)
(* The invariant.                                                          *)
(***************************************************************************)

LEMMA InitInv == Init => PlanInv
<1>1. Init => TypeOK
  BY IdleTypes, RevisionBound DEF Init, TypeOK, PlanState, RevisionState, Revs
<1>2. Init => UsersGood /\ SchedulersGood
  BY DEF Init, UsersGood, SchedulersGood, NoRequest, Local, NoPass
<1>3. Init => NumbersContiguous /\ PaperTrail
  BY RevisionBound DEF Init, NumbersContiguous, PaperTrail, Revs, Results
<1> QED
  BY <1>1, <1>2, <1>3 DEF PlanInv

LEMMA StepInv == PlanInv /\ [Next]_vars => PlanInv'
<1> SUFFICES ASSUME PlanInv, [Next]_vars PROVE PlanInv'
  OBVIOUS
<1>1. ASSUME NEW u \in Users, UserStep(u) PROVE PlanInv'
  <2>0. plan.number \in 0..MaxRevisions /\ plan.state \in PlanState /\ NoRequest \in UserState
    BY IdleTypes DEF PlanInv, TypeOK
  <2>1. CASE BeginPropose(u)
    <3> DEFINE r == Local("proposing", plan.number + 1, plan.state, 0)
    <3>1. plan.number < MaxRevisions
      BY <2>1 DEF BeginPropose
    <3>2. r \in UserState /\ r.pc = "proposing" /\ r.expected \in 1..(plan.number + 1)
      BY <2>0, <3>1, RevisionBound DEF Local, UserState
    <3> QED
      BY <2>1, <3>2, RequestContinues, QuietUser DEF BeginPropose
  <2>2. CASE ProposeRefused(u)
    BY <2>0, <2>2, RequestContinues, QuietUser DEF ProposeRefused, NoRequest, Local
  <2>3. ASSUME NEW pc \in {"approve", "reject"}, BeginDecision(u, pc) PROVE PlanInv'
    <3> DEFINE r == Local(pc, plan.number, plan.state, 0)
    <3>1. r \in UserState /\ r.pc = pc
      BY <2>0, RevisionBound DEF Local, UserState
    <3>2. plan.number > 0
      BY <2>3 DEF BeginDecision
    <3> QED
      BY <2>3, <3>1, <3>2, RequestContinues, QuietUser DEF BeginDecision
  <2>4. ASSUME NEW pc \in {"approve", "reject"}, NEW next \in {"approving", "rejecting"},
               NEW verdict \in Results, ReadRevision(u, pc, next, verdict)
        PROVE  PlanInv'
    <3> DEFINE q == Local(next, user[u].expected, user[u].saw, plan.number)
               r == IF <<plan.number, verdict>> \notin decisions /\ user[u].saw = "proposed"
                    THEN q ELSE NoRequest
    <3>1. q \in UserState /\ q.pc = next /\ q.rev \in 1..plan.number
      <4>1. user[u] \in UserState /\ plan.number > 0
        BY <2>4 DEF ReadRevision, PlanInv, TypeOK, UsersGood
      <4> QED
        BY <2>0, <4>1, RevisionBound DEF Local, UserState
    <3>2. r \in UserState /\ (r.pc = "idle" \/ (r.pc = next /\ r.rev \in 1..plan.number))
      <4>1. NoRequest.pc = "idle"
        BY DEF NoRequest, Local
      <4> QED
        BY <2>0, <3>1, <4>1
    <3> QED
      BY <2>4, <3>2, RequestContinues, QuietUser DEF ReadRevision
  <2> QED
    BY <1>1, <2>1, <2>2, <2>3, <2>4, ProposeStep, DecideStep DEF UserStep, Results
<1>2. ASSUME NEW s \in Schedulers, SchedulerStep(s) \/ PassFails(s) PROVE PlanInv'
  <2>0. 1 \in Revs /\ sched[s].rev \in Revs
    BY RevisionBound DEF PlanInv, TypeOK, SchedState, Revs
  <2>1. ASSUME NEW n \in Revs, ListHandoff(s, n) PROVE PlanInv'
    BY <2>1, PassContinues, QuietScheduler DEF ListHandoff
  <2>2. CASE BeginExecution(s)
    BY <2>0, <2>2, PassContinues, QuietScheduler DEF BeginExecution, PlanInv, SchedulersGood
  <2>3. CASE PassFails(s)
    BY <2>0, <2>3, PassContinues, QuietScheduler DEF PassFails
  <2> QED
    BY <1>2, <2>1, <2>2, <2>3, ExecuteStep DEF SchedulerStep
<1>3. CASE UNCHANGED vars
  BY <1>3 DEF vars, PlanInv, TypeOK, UsersGood, SchedulersGood, NumbersContiguous, PaperTrail
<1> QED
  BY <1>1, <1>2, <1>3 DEF Next

LEMMA Invariant == Spec => []PlanInv
BY InitInv, StepInv, PTL DEF Spec

\* The plan, its revisions, decisions, handoffs and executions keep their
\* types, and with them every number a handler indexes a table with.
THEOREM PlanTypeCorrect == Spec => []TypeOK
BY Invariant, PTL DEF PlanInv

\* A handoff exists exactly for an approved revision and is marked claimed
\* exactly when its execution exists (approve_revision against itself, ticks
\* of several schedulers).
THEOREM TrailKept == Spec => []PaperTrail
BY Invariant, PTL DEF PlanInv

\* Proposals made at the same time leave no gap and overwrite nothing.
THEOREM ProposalsKept == Spec => []NumbersContiguous
BY Invariant, PTL DEF PlanInv

(***************************************************************************)
(* Buttons.  While requests come one after the other, the revision a press *)
(* has compared stays the newest until the press has decided it.           *)
(***************************************************************************)
CardsSpec == CardsInit /\ [][CardsNext]_<<vars, cardVars>>

EventPlaces == {"none", "proposing", "card", "second", "sending", "token", "checking", "deciding", "acting", "spending"}
Events == [pc : EventPlaces, result : Results]

\* A press that acts has its request, about the first revision and as its button says.
Acting(u) ==
  event[u].pc = "acting" =>
    /\ plan.number = First
    /\ user[u].pc \in IF event[u].result = "approved" THEN {"approve", "approving"} ELSE {"reject", "rejecting"}
    /\ user[u].pc \in {"approving", "rejecting"} => user[u].rev = First

\* A button is spent, or about to be, for a decision on record.
OnRecord ==
  /\ \A u \in Users : event[u].pc = "spending" => <<First, event[u].result>> \in decisions
  /\ \A r \in Results : button[r] = "used" => <<First, r>> \in decisions

CardsTyped ==
  /\ event \in [Users -> Events]
  /\ button \in [Results -> {"none", "live", "used"}]

CardsInv ==
  /\ PlanInv /\ CardsTyped
  /\ inTurn => OneByOne /\ OnRecord /\ \A u \in Users : Acting(u)

LEMMA EventMoves ==
  ASSUME CardsTyped, NEW u \in Users, NEW pc \in EventPlaces, Handles(u, pc) \/ Done(u)
  PROVE  /\ event' \in [Users -> Events] /\ \A v \in Users \ {u} : event'[v] = event[v]
         /\ event[u] \in Events
         /\ Handles(u, pc) => event'[u].pc = pc /\ event'[u].result = event[u].result
         /\ Done(u) => event'[u].pc = "none"
<1>1. event \in [Users -> Events] /\ event[u] \in Events
  BY DEF CardsTyped
<1>2. NoEvent \in Events /\ NoEvent.pc = "none" /\ [event[u] EXCEPT !.pc = pc] \in Events
      /\ [event[u] EXCEPT !.pc = pc].pc = pc /\ [event[u] EXCEPT !.pc = pc].result = event[u].result
  BY <1>1 DEF NoEvent, Events, EventPlaces, Results
<1>3. ASSUME Handles(u, pc)
      PROVE  /\ event' \in [Users -> Events] /\ event'[u].pc = pc /\ event'[u].result = event[u].result
             /\ \A v \in Users \ {u} : event'[v] = event[v]
  <2>1. event' = [event EXCEPT ![u] = [event[u] EXCEPT !.pc = pc]]
    BY <1>3 DEF Handles
  <2> QED
    BY <1>1, <1>2, <2>1
<1>4. ASSUME Done(u)
      PROVE  event' \in [Users -> Events] /\ event'[u].pc = "none" /\ \A v \in Users \ {u} : event'[v] = event[v]
  BY <1>1, <1>2, <1>4 DEF Done
<1> QED
  BY <1>1, <1>3, <1>4

\* A request's place after it began, and nobody else's changed.
LEMMA RequestIs ==
  ASSUME PlanInv, NEW u \in Users, NEW r, Request(u, r)
  PROVE  user'[u] = r /\ \A v \in Users \ {u} : user'[v] = user[v]
BY DEF PlanInv, TypeOK, Request

\* Every step but one that breaks off is one of the plan service, or none.
LEMMA CardsStepPlan ==
  ASSUME PlanInv, CardsNext
  PROVE  PlanInv'
<1>1. ASSUME NEW u \in Users, BreaksOff(u) PROVE PlanInv'
  <2>1. user' \in [Users -> UserState] /\ UsersGood'
    BY <1>1, RequestEnds, RevisionBound DEF BreaksOff, PlanInv, TypeOK
  <2> QED
    BY <1>1, <2>1, QuietUser DEF BreaksOff
<1>2. ASSUME NEW u \in Users,
             \/ ReceiveMessage(u) \/ MessageProposes(u) \/ MintApprove(u) \/ MintReject(u) \/ SendCard(u)
             \/ \E r \in Results : Press(u, r)
             \/ ReadToken(u) \/ CheckRevision(u) \/ Decide(u) \/ Acts(u) \/ Spend(u) \/ OnTheWeb(u)
      PROVE  [Next]_vars
  <2>1. UserStep(u) \/ UNCHANGED vars
    BY <1>2 DEF ReceiveMessage, MessageProposes, MintApprove, MintReject, SendCard, Press, ReadToken, CheckRevision, Decide, Acts,
       Spend, OnTheWeb, UserStep
  <2> QED
    BY <2>1 DEF Next
<1> QED
  BY <1>1, <1>2, StepInv DEF CardsNext, HandlerStep

\* A press of somebody else goes on unharmed: a proposal cannot be under way beside it.
LEMMA OthersAct ==
  ASSUME CardsInv, inTurn, NEW u \in Users, \A v \in Users \ {u} : user'[v] = user[v] /\ event'[v] = event[v],
         plan'.number = plan.number \/ user[u].pc = "proposing"
  PROVE  \A v \in Users \ {u} : Acting(v)'
<1> SUFFICES ASSUME NEW v \in Users \ {u}, event[v].pc = "acting" PROVE Acting(v)'
  BY DEF Acting
<1>1. Acting(v) /\ OneByOne
  BY DEF CardsInv
<1>2. user[v].pc # "idle"
  BY <1>1 DEF Acting
<1>3. plan'.number = plan.number
  BY <1>1, <1>2 DEF OneByOne
<1> QED
  BY <1>1, <1>3 DEF Acting

\* The steps of a handler that leave the plan alone.
LEMMA ChatSteps ==
  ASSUME CardsInv, NEW u \in Users, UNCHANGED vars,
         \/ MintApprove(u) \/ MintReject(u) \/ SendCard(u) \/ (\E r \in Results : Press(u, r))
         \/ ReadToken(u) \/ CheckRevision(u) \/ Spend(u)
  PROVE  CardsTyped' /\ (inTurn => OnRecord' /\ \A v \in Users : Acting(v)')
<1>0. CardsTyped /\ event[u] \in Events /\ {"token", "second", "sending", "checking", "deciding"} \subseteq EventPlaces
  BY DEF CardsInv, CardsTyped, EventPlaces
<1>1. /\ event' \in [Users -> Events] /\ \A v \in Users \ {u} : event'[v] = event[v]
      /\ event'[u].pc \in {"token", "second", "sending", "checking", "deciding", "none"}
  <2>1. ASSUME NEW r \in Results, Press(u, r)
        PROVE  event' \in [Users -> Events] /\ event'[u].pc = "token" /\ \A v \in Users \ {u} : event'[v] = event[v]
    <3>1. [pc |-> "token", result |-> r] \in Events /\ event \in [Users -> Events]
      BY <1>0 DEF Events, CardsTyped
    <3> QED
      BY <2>1, <3>1 DEF Press
  <2>2. CASE \E pc \in {"token", "second", "sending", "checking", "deciding"} : Handles(u, pc) \/ Done(u)
    BY <1>0, <2>2, EventMoves
  <2> QED
    BY <2>1, <2>2 DEF MintApprove, MintReject, Mint, SendCard, ReadToken, CheckRevision, Spend
<1>2. button' \in [Results -> {"none", "live", "used"}]
      /\ (\A r \in Results : button'[r] = "used" => button[r] = "used" \/ (Spend(u) /\ r = event[u].result))
  <2>1. event[u].result \in Results /\ {"approved", "rejected"} \subseteq Results
    BY <1>0 DEF Events, Results
  <2> QED
    BY <1>0, <2>1 DEF CardsTyped, MintApprove, MintReject, Mint, SendCard, Press, ReadToken, CheckRevision, Spend
<1>3. CardsTyped'
  BY <1>1, <1>2 DEF CardsTyped
<1>4. inTurn => OnRecord'
  BY <1>1, <1>2 DEF CardsInv, OnRecord, Spend, vars
<1>5. inTurn => \A v \in Users : Acting(v)'
  BY <1>1 DEF CardsInv, Acting, vars
<1> QED
  BY <1>3, <1>4, <1>5

\* A proposal or a decision from the web, and the proposal of the message.
LEMMA ServiceSteps ==
  ASSUME CardsInv, NEW u \in Users, ReceiveMessage(u) \/ MessageProposes(u) \/ OnTheWeb(u)
  PROVE  CardsTyped' /\ (inTurn => OnRecord' /\ \A v \in Users : Acting(v)')
<1>0. CardsTyped /\ PlanInv /\ "card" \in EventPlaces /\ "proposing" \in EventPlaces /\ NoEvent.pc = "none"
  BY DEF CardsInv, EventPlaces, NoEvent
<1>1. /\ event' \in [Users -> Events] /\ event'[u].pc \in {"card", "proposing", "none"} /\ UNCHANGED button
      /\ \A v \in Users \ {u} : event'[v] = event[v]
  <2>1. CASE OnTheWeb(u)
    BY <1>0, <2>1 DEF OnTheWeb, CardsTyped
  <2>2. CASE ReceiveMessage(u) \/ MessageProposes(u)
    BY <1>0, <2>2, EventMoves DEF ReceiveMessage, MessageProposes
  <2> QED
    BY <2>1, <2>2
<1>2. /\ decisions \subseteq decisions' /\ \A v \in Users \ {u} : user'[v] = user[v]
      /\ plan'.number = plan.number \/ user[u].pc = "proposing"
  <2>0. user \in [Users -> UserState] /\ plan \in [state : PlanState, number : 0 .. MaxRevisions]
    BY <1>0 DEF PlanInv, TypeOK
  <2>1. UserStep(u) \/ UNCHANGED vars
    BY DEF ReceiveMessage, MessageProposes, OnTheWeb, UserStep
  <2> QED
    BY <2>0, <2>1 DEF UserStep, BeginPropose, CommitPropose, ProposeRefused, BeginDecision, ReadRevision, CommitApprove, CommitReject,
       Request, vars
<1>3. CardsTyped'
  BY <1>0, <1>1 DEF CardsTyped
<1>4. inTurn => OnRecord'
  BY <1>1, <1>2 DEF CardsInv, OnRecord
<1>5. inTurn => \A v \in Users : Acting(v)'
  <2>1. Acting(u)'
    BY <1>1 DEF Acting
  <2> QED
    BY <1>1, <1>2, <2>1, OthersAct
<1> QED
  BY <1>3, <1>4, <1>5

\* A press begins its decision and carries it out.
LEMMA DecideSteps ==
  ASSUME CardsInv, NEW u \in Users, Decide(u) \/ Acts(u) \/ BreaksOff(u)
  PROVE  CardsTyped' /\ (inTurn => OnRecord' /\ \A v \in Users : Acting(v)')
<1>0. CardsTyped /\ PlanInv /\ {"acting", "spending"} \subseteq EventPlaces /\ UNCHANGED button
      /\ user \in [Users -> UserState] /\ plan \in [state : PlanState, number : 0 .. MaxRevisions]
      /\ event[u] \in Events /\ event \in [Users -> Events]
  BY DEF CardsInv, CardsTyped, EventPlaces, Decide, Acts, BreaksOff, PlanInv, TypeOK
<1>1. event' \in [Users -> Events] /\ \A v \in Users \ {u} : event'[v] = event[v]
  <2>1. CASE \E pc \in {"acting", "spending"} : Handles(u, pc) \/ Done(u)
    BY <1>0, <2>1, EventMoves
  <2>2. CASE UNCHANGED event
    BY <1>0, <2>2
  <2> QED
    BY <2>1, <2>2 DEF Decide, Acts, BreaksOff
<1>2. /\ decisions \subseteq decisions' /\ plan'.number = plan.number /\ \A v \in Users \ {u} : user'[v] = user[v]
  BY <1>0 DEF Decide, Acts, BreaksOff, BeginDecision, ReadRevision, CommitApprove, CommitReject, Request, vars
<1>3. CardsTyped'
  BY <1>0, <1>1 DEF CardsTyped
<1>4. ASSUME inTurn PROVE Acting(u)' /\ (event'[u].pc = "spending" => <<First, event'[u].result>> \in decisions')
  <2> DEFINE r == event[u].result
  <2>0. r \in Results /\ r \in {"approved", "rejected"}
    BY <1>0 DEF Events, Results
  <2>1. CASE BreaksOff(u)
    BY <1>0, <2>1, EventMoves DEF BreaksOff, Acting
  <2>2. CASE Decide(u)
    <3>1. CASE Done(u)
      BY <1>0, <3>1, EventMoves DEF Acting
    <3>2. CASE Handles(u, "acting") /\ plan.number = First /\ BeginDecision(u, IF r = "approved" THEN "approve" ELSE "reject")
      <4>1. event'[u].pc = "acting" /\ event'[u].result = r
        BY <1>0, <3>2, EventMoves
      <4>2. user'[u].pc = IF r = "approved" THEN "approve" ELSE "reject"
        BY <1>0, <3>2, RequestIs DEF BeginDecision, Local
      <4> QED
        BY <1>2, <3>2, <4>1, <4>2 DEF Acting
    <3> QED
      BY <2>2, <3>1, <3>2 DEF Decide
  <2>3. CASE Acts(u)
    <3>0. /\ event[u].pc = "acting" /\ plan.number = First
          /\ user[u].pc \in IF r = "approved" THEN {"approve", "approving"} ELSE {"reject", "rejecting"}
          /\ user[u].pc \in {"approving", "rejecting"} => user[u].rev = First
      BY <1>4, <2>3 DEF Acts, CardsInv, Acting
    <3>1. NoRequest.pc = "idle" /\ \A pc, n, m, w : Local(pc, n, w, m).pc = pc /\ Local(pc, n, w, m).rev = m
      BY DEF NoRequest, Local
    <3>2. CASE UNCHANGED event /\ user'[u].pc # "idle"
      <4>1. user'[u].pc = (IF r = "approved" THEN "approving" ELSE "rejecting") /\ user'[u].rev = First
        <5>1. CASE ReadRevision(u, "approve", "approving", "approved")
          <6>1. user[u].pc = "approve" /\ user'[u] \in {Local("approving", user[u].expected, user[u].saw, plan.number), NoRequest}
            BY <1>0, <5>1, RequestIs DEF ReadRevision
          <6> QED
            BY <3>0, <3>1, <3>2, <6>1
        <5>2. CASE ReadRevision(u, "reject", "rejecting", "rejected")
          <6>1. user[u].pc = "reject" /\ user'[u] \in {Local("rejecting", user[u].expected, user[u].saw, plan.number), NoRequest}
            BY <1>0, <5>2, RequestIs DEF ReadRevision
          <6> QED
            BY <2>0, <3>0, <3>1, <3>2, <6>1
        <5>3. CASE CommitApprove(u) \/ CommitReject(u)
          BY <1>0, <3>1, <3>2, <5>3, RequestIs DEF CommitApprove, CommitReject
        <5> QED
          BY <2>3, <5>1, <5>2, <5>3 DEF Acts
      <4> QED
        BY <1>2, <2>0, <3>0, <3>2, <4>1 DEF Acting
    <3>3. CASE Done(u)
      BY <1>0, <3>3, EventMoves DEF Acting
    <3>4. CASE Handles(u, "spending") /\ Decided(u)
      <4>1. event'[u].pc = "spending" /\ event'[u].result = r
        BY <1>0, <3>4, EventMoves
      <4>2. <<First, r>> \in decisions'
        <5>1. CASE CommitApprove(u)
          <6>1. user[u].pc = "approving" /\ r = "approved" /\ user[u].rev = First
            BY <2>0, <3>0, <5>1 DEF CommitApprove
          <6> QED
            BY <5>1, <6>1 DEF CommitApprove
        <5>2. CASE CommitReject(u)
          <6>1. user[u].pc = "rejecting" /\ r = "rejected" /\ user[u].rev = First
            BY <2>0, <3>0, <5>2 DEF CommitReject
          <6> QED
            BY <5>2, <6>1 DEF CommitReject
        <5>3. CASE ReadRevision(u, "approve", "approving", "approved") \/ ReadRevision(u, "reject", "rejecting", "rejected")
          <6>1. user[u].pc \in {"approve", "reject"}
            BY <5>3 DEF ReadRevision
          <6> QED
            BY <1>2, <3>0, <3>4, <6>1 DEF Decided
        <5> QED
          BY <2>3, <5>1, <5>2, <5>3 DEF Acts
      <4> QED
        BY <4>1, <4>2 DEF Acting
    <3> QED
      BY <2>3, <3>2, <3>3, <3>4 DEF Acts
  <2> QED
    BY <2>1, <2>2, <2>3
<1>5. inTurn => OnRecord'
  BY <1>0, <1>1, <1>2, <1>4 DEF CardsInv, OnRecord
<1>6. inTurn => \A v \in Users : Acting(v)'
  BY <1>1, <1>2, <1>4, OthersAct
<1> QED
  BY <1>3, <1>5, <1>6

LEMMA CardsBegin == CardsInit => CardsInv
<1> SUFFICES ASSUME CardsInit PROVE CardsInv
  OBVIOUS
<1>1. NoEvent \in Events /\ NoEvent.pc = "none" /\ NoRequest.pc = "idle"
  BY DEF NoEvent, Events, EventPlaces, Results, NoRequest, Local
<1>2. PlanInv
  BY InitInv DEF CardsInit
<1>3. CardsTyped
  BY <1>1 DEF CardsInit, CardsTyped
<1> QED
  BY <1>1, <1>2, <1>3 DEF CardsInit, CardsInv, Init, OneByOne, OnRecord, Acting

LEMMA CardsStep == CardsInv /\ [CardsNext]_<<vars, cardVars>> => CardsInv'
<1> SUFFICES ASSUME CardsInv, [CardsNext]_<<vars, cardVars>> PROVE CardsInv'
  OBVIOUS
<1>1. CASE CardsNext
  <2>1. PlanInv'
    BY <1>1, CardsStepPlan DEF CardsInv
  <2>2. CardsTyped' /\ (inTurn => OnRecord' /\ \A v \in Users : Acting(v)')
    <3>1. PICK u \in Users :
            \/ ReceiveMessage(u) \/ MessageProposes(u) \/ MintApprove(u) \/ MintReject(u) \/ SendCard(u)
            \/ \E r \in Results : Press(u, r)
            \/ ReadToken(u) \/ CheckRevision(u) \/ Decide(u) \/ Acts(u) \/ Spend(u)
            \/ BreaksOff(u) \/ OnTheWeb(u)
      BY <1>1 DEF CardsNext, HandlerStep
    <3>2. CASE ReceiveMessage(u) \/ MessageProposes(u) \/ OnTheWeb(u)
      BY <3>2, ServiceSteps
    <3>3. CASE Decide(u) \/ Acts(u) \/ BreaksOff(u)
      BY <3>3, DecideSteps
    <3>4. CASE \/ MintApprove(u) \/ MintReject(u) \/ SendCard(u) \/ (\E r \in Results : Press(u, r))
               \/ ReadToken(u) \/ CheckRevision(u) \/ Spend(u)
      <4>1. UNCHANGED vars
        BY <3>4 DEF MintApprove, MintReject, SendCard, Press, ReadToken, CheckRevision, Spend
      <4> QED
        BY <3>4, <4>1, ChatSteps
    <3> QED
      BY <3>1, <3>2, <3>3, <3>4
  <2> QED
    BY <1>1, <2>1, <2>2 DEF CardsNext, CardsInv
<1>2. CASE UNCHANGED <<vars, cardVars>>
  <2>1. PlanInv'
    BY <1>2, StepInv DEF CardsInv
  <2> QED
    BY <1>2, <2>1 DEF CardsInv, vars, cardVars, CardsTyped, OneByOne, OnRecord, Acting
<1> QED
  BY <1>1, <1>2

\* For any people at the card and on the web, one request to the plan service at a
\* time: a press decides only the revision its card shows, as its button says, and a
\* spent button has its decision on record.
THEOREM WordKept == CardsSpec => CardsKeepTheirWord
<1>1. ASSUME CardsInv, CardsInv', CardsNext, inTurn
      PROVE  /\ \A u \in Users : event[u].pc = "acting" /\ user'[u] # user[u] =>
                  decisions' \ decisions \subseteq {<<First, event[u].result>>}
             /\ \A r \in Results : button'[r] = "used" => <<First, r>> \in decisions'
  <2>1. ASSUME NEW u \in Users, event[u].pc = "acting", user'[u] # user[u]
        PROVE  decisions' \ decisions \subseteq {<<First, event[u].result>>}
    <3>0. /\ user \in [Users -> UserState] /\ NoEvent.pc = "none" /\ event[u].result \in {"approved", "rejected"}
          /\ user[u].pc \in IF event[u].result = "approved" THEN {"approve", "approving"} ELSE {"reject", "rejecting"}
          /\ user[u].pc \in {"approving", "rejecting"} => user[u].rev = First
      BY <1>1, <2>1 DEF CardsInv, PlanInv, TypeOK, NoEvent, Acting, CardsTyped, Events, Results
    <3>1. Acts(u) \/ BreaksOff(u)
      <4>1. PICK w \in Users :
              \/ ReceiveMessage(w) \/ MessageProposes(w) \/ MintApprove(w) \/ MintReject(w) \/ SendCard(w)
              \/ \E r \in Results : Press(w, r)
              \/ ReadToken(w) \/ CheckRevision(w) \/ Decide(w) \/ Acts(w) \/ Spend(w)
              \/ BreaksOff(w) \/ OnTheWeb(w)
        BY <1>1 DEF CardsNext, HandlerStep
      <4>2. UserStep(w) \/ UNCHANGED vars \/ BreaksOff(w)
        BY <4>1 DEF ReceiveMessage, MessageProposes, MintApprove, MintReject, SendCard, Press, ReadToken, CheckRevision, Decide, Acts,
           Spend, OnTheWeb, UserStep
      <4>3. w = u
        BY <2>1, <3>0, <4>2 DEF UserStep, BeginPropose, CommitPropose, ProposeRefused, BeginDecision, ReadRevision, CommitApprove,
           CommitReject, Request, BreaksOff, vars
      <4> QED
        BY <2>1, <3>0, <4>1, <4>3 DEF ReceiveMessage, MessageProposes, MintApprove, MintReject, SendCard, Press, ReadToken, CheckRevision,
           Decide, Spend, OnTheWeb
    <3>2. CASE CommitApprove(u)
      BY <3>0, <3>2 DEF CommitApprove
    <3>3. CASE CommitReject(u)
      BY <3>0, <3>3 DEF CommitReject
    <3>4. CASE UNCHANGED decisions
      BY <3>4
    <3> QED
      BY <3>1, <3>2, <3>3, <3>4 DEF Acts, BreaksOff, ReadRevision
  <2>2. inTurn'
    BY <1>1 DEF CardsNext
  <2> QED
    BY <1>1, <2>1, <2>2 DEF CardsInv, OnRecord
<1>2. CardsInv /\ CardsInv' /\ [CardsNext]_<<vars, cardVars>> =>
        [inTurn => /\ \A u \in Users : event[u].pc = "acting" /\ user'[u] # user[u] =>
                         decisions' \ decisions \subseteq {<<First, event[u].result>>}
                   /\ \A r \in Results : button'[r] = "used" => <<First, r>> \in decisions']_<<vars, cardVars>>
  BY <1>1
<1> QED
  BY <1>2, CardsBegin, CardsStep, PTL DEF CardsSpec, CardsKeepTheirWord

-----------------------------------------------------------------------------
(***************************************************************************)
(* TaskDecomposition.                                                      *)
(***************************************************************************)

DecompositionSpec == DecompositionInit /\ [][DecompositionNext]_decompositionVars

TaskLists == Seq([key : Keys, deps : SUBSET Names])
Distinct(list) == \A i, j \in DOMAIN list : i # j => list[i].key # list[j].key

\* What GraphAsAnswered says of a graph and the answer it was made of.
AsAnswered(graph, answer) ==
  /\ KeysOf(graph) = KeysOf(answer)
  /\ {e \in EdgesOf(answer) : e.on \in KeysOf(answer) /\ e.on # e.task} \subseteq EdgesOf(graph)
  /\ \A e \in EdgesOf(graph) \ EdgesOf(answer) :
       \E f \in EdgesOf(answer) : f.task = e.task /\ f.on \notin KeysOf(answer)

LEMMA EdgeOf ==
  ASSUME NEW list, NEW e
  PROVE  e \in EdgesOf(list) <=> \E i \in DOMAIN list : \E d \in list[i].deps : e = [task |-> list[i].key, on |-> d]
BY DEF EdgesOf

\* The index by lower case knows a declared name under its own spelling, unless
\* another key differs from it in case only.
LEMMA KnownStays ==
  ASSUME NEW list \in TaskLists, Distinct(list), NoTwins(list), NEW name \in KeysOf(list)
  PROVE  Remap(list, name) = name
<1>1. PICK k \in DOMAIN list : list[k].key = name
  BY DEF KeysOf
<1> DEFINE at == {i \in DOMAIN list : Lower[list[i].key] = Lower[name]}
<1>2. at = {k}
  BY <1>1 DEF Distinct, NoTwins, KeysOf
<1>3. InIndex(list, Lower[name])
  BY <1>1 DEF InIndex
<1>4. k \in Nat
  BY DEF TaskLists
<1>5. (CHOOSE i \in at : \A j \in at : j <= i) = k
  <2> HIDE DEF at
  <2>1. \A i \in at : (\A j \in at : j <= i) => i = k
    BY <1>2
  <2>2. k \in at /\ \A j \in at : j <= k
    BY <1>2, <1>4
  <2> QED BY <2>1, <2>2
<1>6. Indexed(list, Lower[name]) = list[CHOOSE i \in at : \A j \in at : j <= i].key
  BY DEF Indexed
<1>7. Indexed(list, Lower[name]) = name
  BY <1>1, <1>5, <1>6
<1> QED
  BY <1>3, <1>7 DEF Remap

LEMMA RepairKeeps ==
  ASSUME NEW list \in TaskLists, Distinct(list), NoTwins(list)
  PROVE  AsAnswered(Repaired(list), list)
<1>1. CASE NothingToRepair(list)
  BY <1>1 DEF Repaired, AsAnswered
<1>2. CASE ~NothingToRepair(list)
  <2> DEFINE graph == [i \in DOMAIN list |-> [key |-> list[i].key, deps |-> Collapsed(list, i)]]
  <2>1. Repaired(list) = graph
    BY <1>2 DEF Repaired
  <2>2. DOMAIN graph = DOMAIN list /\ \A i \in DOMAIN list : graph[i].key = list[i].key /\ graph[i].deps = Collapsed(list, i)
    OBVIOUS
  <2> HIDE DEF graph
  <2>3. KeysOf(graph) = KeysOf(list)
    BY <2>2 DEF KeysOf
  <2>4. ASSUME NEW e \in EdgesOf(list), e.on \in KeysOf(list), e.on # e.task
        PROVE  e \in EdgesOf(graph)
    <3>1. PICK i \in DOMAIN list : \E d \in list[i].deps : e = [task |-> list[i].key, on |-> d]
      BY EdgeOf
    <3>2. e = [task |-> list[i].key, on |-> e.on] /\ e.task = list[i].key /\ e.on \in list[i].deps
      BY <3>1
    <3>3. Mapped(list, list[i].key, e.on) = e.on
      BY <2>4, <3>2, KnownStays DEF Mapped
    <3>4. \A j \in 1..(i - 1) : list[j].key # list[i].key
      BY DEF Distinct, TaskLists
    <3>5. e.on \in Collapsed(list, i)
      BY <2>4, <3>2, <3>3, <3>4 DEF Collapsed
    <3> QED
      BY <2>2, <3>2, <3>5, EdgeOf
  <2>5. ASSUME NEW e \in EdgesOf(graph), e \notin EdgesOf(list)
        PROVE  \E f \in EdgesOf(list) : f.task = e.task /\ f.on \notin KeysOf(list)
    <3>1. PICK i \in DOMAIN list : \E d \in Collapsed(list, i) : e = [task |-> list[i].key, on |-> d]
      BY <2>2, EdgeOf
    <3>2. e = [task |-> list[i].key, on |-> e.on] /\ e.task = list[i].key /\ e.on \in Collapsed(list, i)
      BY <3>1
    <3>3. PICK n \in list[i].deps : e.on = Mapped(list, list[i].key, n) /\ e.on # list[i].key
      BY <3>2 DEF Collapsed
    <3>4. e.on = Remap(list, n)
      BY <3>3 DEF Mapped
    <3>5. e.on # n
      BY <2>5, <3>2, EdgeOf
    <3>6. n \notin KeysOf(list)
      BY <3>4, <3>5, KnownStays
    <3> DEFINE f == [task |-> list[i].key, on |-> n]
    <3>7. f \in EdgesOf(list) /\ f.task = e.task /\ f.on = n
      BY <3>2, EdgeOf
    <3> QED
      BY <3>6, <3>7
  <2> QED
    BY <2>1, <2>3, <2>4, <2>5 DEF AsAnswered
<1> QED
  BY <1>1, <1>2

\* Putting a list in order never makes a graph: a list that can be ordered and is
\* short enough is already valid.
LEMMA OrderNeverHelps ==
  ASSUME NEW list \in TaskLists, Len(list) <= MaxTasks, GraphOf(list) # NoGraph
  PROVE  GraphOf(list) \in {list, Repaired(list)} /\ Valid(GraphOf(list))
<1>1. Len(Repaired(list)) = Len(list) /\ (Repaired(list) = <<>> => list = <<>>)
  <2>1. CASE NothingToRepair(list) BY <2>1 DEF Repaired
  <2>2. CASE ~NothingToRepair(list)
    <3>1. DOMAIN Repaired(list) = 1..Len(list) /\ Len(list) \in Nat
      BY <2>2 DEF Repaired, TaskLists
    <3>2. Repaired(list) \in Seq({Repaired(list)[i] : i \in 1..Len(list)})
      <4>1. Repaired(list) = [i \in 1..Len(list) |-> Repaired(list)[i]]
        BY <2>2, <3>1 DEF Repaired, TaskLists
      <4> QED BY <3>1, <4>1
    <3>3. Len(Repaired(list)) = Len(list)
      BY <3>1, <3>2
    <3>4. Len(list) = 0 => list = <<>>
      BY DEF TaskLists
    <3> QED BY <3>3, <3>4
  <2> QED BY <2>1, <2>2
<1>2. list # Malformed /\ Orderable(Repaired(list)) => Valid(Repaired(list))
  BY <1>1 DEF Orderable, Valid, Malformed
<1> QED
  BY <1>2 DEF GraphOf

LEMMA GraphKeeps ==
  ASSUME NEW list \in TaskLists, Len(list) <= MaxTasks, GraphOf(list) # NoGraph, NoTwins(list)
  PROVE  AsAnswered(GraphOf(list), list)
<1>1. GraphOf(list) \in {list, Repaired(list)} /\ Valid(GraphOf(list))
  BY OrderNeverHelps
<1>2. CASE GraphOf(list) = list
  BY <1>2 DEF AsAnswered
<1>3. CASE GraphOf(list) = Repaired(list)
  <2>1. DOMAIN Repaired(list) = DOMAIN list /\ \A i \in DOMAIN list : Repaired(list)[i].key = list[i].key
    BY DEF Repaired
  <2>2. Distinct(list)
    BY <1>1, <1>3, <2>1 DEF Distinct, Valid
  <2> QED
    BY <1>3, <2>2, RepairKeeps
<1> QED
  BY <1>1, <1>2, <1>3

LEMMA ExtractedShort ==
  ASSUME NEW list \in Answers
  PROVE  list \in TaskLists /\ Extracted(list) \in TaskLists /\ Len(Extracted(list)) <= MaxTasks
<1>1. list \in TaskLists /\ MaxTasks \in Nat
  BY DecompositionAssumption DEF TaskLists
<1> DEFINE n == IF Len(list) < MaxTasks THEN Len(list) ELSE MaxTasks
<1>2. n \in Nat /\ n <= Len(list) /\ n <= MaxTasks /\ Len(list) \in Nat
  BY <1>1 DEF TaskLists
<1>3. SubSeq(list, 1, n) \in TaskLists /\ Len(SubSeq(list, 1, n)) = n
  <2>1. \A i \in 1..n : list[i] \in [key : Keys, deps : SUBSET Names]
    <3> HIDE DEF n
    <3>1. \A i \in 1..n : i \in 1..Len(list) BY <1>2
    <3> QED BY <1>1, <3>1, ElementOfSeq DEF TaskLists
  <2>2. SubSeq(list, 1, n) \in Seq([key : Keys, deps : SUBSET Names])
    BY <1>1, <1>2, <2>1, SubSeqProperties, 1 \in 1..(Len(list) + 1), n \in (1 - 1)..Len(list) DEF TaskLists
  <2> QED BY <1>1, <1>2, <2>2, SubSeqProperties DEF TaskLists
<1> QED
  BY <1>1, <1>2, <1>3 DEF Extracted

\* The inductive invariant: a call asks again only after the first answer made no
\* graph, and that it did so is not forgotten before the call is over.
DecompositionInv ==
  /\ GraphAsAnswered
  /\ decompose.rung = "escalated" => "strict" \in unfit

LEMMA DecompositionBegins == DecompositionInit => DecompositionInv
BY DEF DecompositionInit, DecompositionInv, GraphAsAnswered, NoCall, NoGraph

\* GraphAsAnswered, with what it says of a graph named.
LEMMA AsAnsweredMeans ==
  GraphAsAnswered <=>
    /\ result.graph # NoGraph /\ NoTwins(result.answer) => AsAnswered(result.graph, result.answer)
    /\ NoGraph \in cache => Forced \subseteq unfit \/ "text" \in unfit
BY DEF GraphAsAnswered, AsAnswered

LEMMA DecompositionKept ==
  ASSUME DecompositionInv, [DecompositionNext]_decompositionVars
  PROVE  DecompositionInv'
<1> DEFINE Told == result.graph # NoGraph /\ NoTwins(result.answer) => AsAnswered(result.graph, result.answer)
           Left == NoGraph \in cache => Forced \subseteq unfit \/ "text" \in unfit
           Asked == decompose.rung = "escalated" => "strict" \in unfit
<1>1. Told /\ Left /\ Asked
  BY AsAnsweredMeans DEF DecompositionInv
<1>2. SUFFICES Told' /\ Left' /\ Asked'
  BY DEF GraphAsAnswered, AsAnswered, DecompositionInv
<1>0. Told' <=> (result'.graph # NoGraph /\ NoTwins(result'.answer) => AsAnswered(result'.graph, result'.answer))
  BY DEF NoTwins, AsAnswered, KeysOf, EdgesOf, NoGraph
<1>3. ASSUME UNCHANGED result PROVE Told'
  BY <1>0, <1>1, <1>3
<1>4. ASSUME NEW graph, NEW answer, Returns(graph, answer), graph # NoGraph /\ NoTwins(answer) => AsAnswered(graph, answer)
      PROVE  Told' /\ Asked'
  <2>1. result'.graph = graph /\ result'.answer = answer /\ decompose'.rung = "none"
    BY <1>4 DEF Returns, NoCall
  <2> QED BY <1>0, <1>4, <2>1
<1>5. CASE BeginDecompose
  <2>1. result'.graph = NoGraph /\ decompose'.rung = "strict" /\ cache' = {}
    BY <1>5 DEF BeginDecompose
  <2> QED BY <2>1
<1>6. CASE NoTools
  BY <1>1, <1>3, <1>6 DEF NoTools
<1>7. CASE Transient
  BY <1>1, <1>3, <1>7 DEF Transient, Forced
<1>8. CASE ProviderFails
  BY <1>1, <1>4, <1>8 DEF ProviderFails, Weather
<1>9. CASE RestartProcess
  BY <1>1, <1>3, <1>9 DEF RestartProcess, NoCall
<1>10. ASSUME NEW list \in Answers, AnswerForced(list) PROVE Told' /\ Left' /\ Asked'
  <2> DEFINE tasks == Extracted(list)
             graph == GraphOf(tasks)
  <2>1. graph # NoGraph /\ NoTwins(tasks) => AsAnswered(graph, tasks)
    BY ExtractedShort, GraphKeeps
  <2>2. decompose.rung \in Forced /\ unfit' = IF graph = NoGraph THEN unfit \cup {decompose.rung} ELSE unfit
    BY <1>10 DEF AnswerForced
  <2>3. \/ graph # NoGraph /\ Concludes(graph, tasks)
        \/ graph = NoGraph /\ decompose.rung = "strict"
           /\ decompose' = [rung |-> "escalated", retries |-> 0] /\ UNCHANGED <<cache, result>>
        \/ graph = NoGraph /\ decompose.rung = "escalated" /\ Concludes(NoGraph, Malformed)
    BY <1>10 DEF AnswerForced
  <2> HIDE DEF tasks, graph
  <2>4. CASE graph # NoGraph /\ Concludes(graph, tasks)
    BY <1>4, <2>1, <2>4 DEF Concludes
  <2>5. CASE graph = NoGraph /\ decompose.rung = "strict"
             /\ decompose' = [rung |-> "escalated", retries |-> 0] /\ UNCHANGED <<cache, result>>
    BY <1>1, <1>3, <2>2, <2>5
  <2>6. CASE graph = NoGraph /\ decompose.rung = "escalated" /\ Concludes(NoGraph, Malformed)
    <3>1. Forced \subseteq unfit'
      BY <1>1, <2>2, <2>6 DEF Forced
    <3> QED BY <1>4, <2>6, <3>1 DEF Concludes
  <2> QED BY <2>3, <2>4, <2>5, <2>6
<1>11. ASSUME NEW list \in Answers, AnswerText(list) PROVE Told' /\ Left' /\ Asked'
  <2>1. CASE Valid(list)
    <3>1. AsAnswered(list, list)
      BY DEF AsAnswered
    <3>2. Concludes(list, list) /\ list # NoGraph
      BY <1>11, <2>1 DEF AnswerText, Valid, NoGraph, Malformed
    <3> QED BY <1>4, <3>1, <3>2 DEF Concludes
  <2>2. CASE ~Valid(list)
    <3>1. Concludes(NoGraph, Malformed) /\ "text" \in unfit'
      BY <1>11, <2>2 DEF AnswerText
    <3> QED BY <1>4, <3>1 DEF Concludes
  <2> QED BY <2>1, <2>2
<1>12. CASE UNCHANGED decompositionVars
  BY <1>1, <1>3, <1>12 DEF decompositionVars
<1> QED
  BY <1>5, <1>6, <1>7, <1>8, <1>9, <1>10, <1>11, <1>12 DEF DecompositionNext

\* Whatever a model answers, and however names are compared: the graph that is run
\* keeps every task and every dependency between two of them that the answer
\* states, adds one only in place of an unknown name, and a revision is left
\* without a graph for good only after the model had its second chance.
THEOREM GraphSaysWhatWasAnswered == DecompositionSpec => []GraphAsAnswered
<1>1. DecompositionInv => GraphAsAnswered
  BY DEF DecompositionInv
<1> QED
  BY <1>1, DecompositionBegins, DecompositionKept, PTL DEF DecompositionSpec
=============================================================================
