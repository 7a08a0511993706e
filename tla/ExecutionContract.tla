------------------------- MODULE ExecutionContract -------------------------
(***************************************************************************)
(* What an execution promises to those who wait for it (result delivery,   *)
(* integration, the plan that was approved): the results of its tasks are  *)
(* accepted one by one, each once and after the results it builds on, and  *)
(* at some point a verdict is given, which only a cancellation overrules. *)
(***************************************************************************)
CONSTANT Tasks

VARIABLES
  verdict,   \* "none" (not created), "open", or the final verdict
  accepted,  \* the tasks whose result was accepted
  needs      \* the tasks each task builds on

cvars == <<verdict, accepted, needs>>

CInit ==
  /\ verdict = "none"
  /\ accepted = {}
  /\ needs = [t \in Tasks |-> {}]

Open ==
  /\ verdict = "none"
  /\ verdict' = "open"
  /\ needs' \in [Tasks -> SUBSET Tasks]
  /\ UNCHANGED accepted

\* The last result completes the execution; an earlier one may be the last
\* that can be had.
Accept(t) ==
  /\ verdict = "open"
  /\ t \notin accepted
  /\ needs[t] \subseteq accepted
  /\ accepted' = accepted \cup {t}
  /\ \/ accepted' = Tasks /\ verdict' = "completed"
     \/ accepted' # Tasks /\ verdict' \in {"open", "failed"}
  /\ UNCHANGED needs

GiveUp ==
  /\ verdict = "open"
  /\ accepted # Tasks
  /\ verdict' = "failed"
  /\ UNCHANGED <<accepted, needs>>

\* A cancellation was accepted while the execution was open, and is written
\* whatever became of it since.
Cancel ==
  /\ verdict # "none"
  /\ verdict' = "cancelled"
  /\ UNCHANGED <<accepted, needs>>

CNext == Open \/ Cancel \/ GiveUp \/ \E t \in Tasks : Accept(t)

CSpec == CInit /\ [][CNext]_cvars
=============================================================================
