--------------------------- MODULE MCPlanService ---------------------------
(***************************************************************************)
(* Instances of PlanService, PlanCards and TaskDecomposition for TLC: what *)
(* humans and schedulers do to a plan, what they do to it from its card in *)
(* the chat, and how one tick turns a revision into tasks.  A behaviour    *)
(* moves one of the three.  The people of a plan send their requests       *)
(* either whenever they like or one after the other: what is kept in the   *)
(* second case only has a property of its own.                             *)
(***************************************************************************)
EXTENDS PlanCards, TaskDecomposition, TLC

CONSTANTS build, Build, test, typo   \* names of tasks

VARIABLE part  \* "plan", "cards" or "decomposition"

Plans == part = "plan" /\ Next /\ (inTurn => OneByOne') /\ UNCHANGED <<cardVars, decompositionVars>>
Presses == part = "cards" /\ CardsNext /\ UNCHANGED decompositionVars
Decomposes == part = "decomposition" /\ DecompositionNext /\ UNCHANGED <<vars, cardVars>>

PeopleInit ==
  /\ CardsInit /\ DecompositionInit /\ part \in {"plan", "cards", "decomposition"}
  /\ part = "decomposition" => ~inTurn
PeopleNext == (Plans \/ Presses \/ Decomposes) /\ UNCHANGED part

\* The fairness is the schedulers': it asks nothing of the people.
PeopleSpec == PeopleInit /\ [][PeopleNext]_<<vars, cardVars, decompositionVars, part>> /\ Fairness

\* Two keys that differ in case, another one, and a name close to that one.
LowerOf == [n \in {build, Build, test, typo} |-> IF n = Build THEN build ELSE n]
ScoreOf ==
  [p \in {build, Build, test, typo} \X {build, Build, test} |->
     IF LowerOf[p[1]] = LowerOf[p[2]] THEN 100 ELSE IF p = <<typo, test>> THEN 60 ELSE IF p[1] = typo THEN 40 ELSE 0]

\* Lists of up to three tasks, each with a dependency or none.
ListsOfThree ==
  LET tasks == [key : Keys, deps : {{}} \cup {{n} : n \in Names}] IN
  {list \in UNION {[1..n -> tasks] : n \in 0..3} : list # Malformed => list[1].key = build}

\* While requests come one after the other, the handoff of an approved
\* revision is executed, although passes of the scheduler fail and two of them
\* take it up at once.
ExecutedInTurn ==
  \A n \in Revs : (part = "plan" /\ inTurn /\ handoff[n] = "unclaimed") ~> handoff[n] = "claimed"
=============================================================================
