----------------------------- MODULE PlanCards -----------------------------
(***************************************************************************)
(* The plan a message asked for, decided in the chat: the card with its    *)
(* two buttons in src/zero/app/interface_service.py, composed with the     *)
(* plan of PlanService.                                                    *)
(*                                                                         *)
(* Handling the message proposes the first revision, mints a token for     *)
(* each button and sends the card; a press runs the same approve_ or       *)
(* reject_revision as the web, under the number the token was minted for.  *)
(* People on the web revise and decide the plan meanwhile.  Claims of      *)
(* updates are in TelegramPolling; who may press is left out.              *)
(***************************************************************************)
EXTENDS PlanService

VARIABLES
  button,  \* callback_tokens of the first revision, by what the button does
  shown,   \* whether the card is in the chat
  event,   \* per thread: the update it handles and, for a press, its button
  inTurn   \* whether requests to the plan service come one after the other

cardVars == <<button, shown, event, inTurn>>

\* A message makes a plan of its own, so its card is about the first revision.
First == 1

NoEvent == [pc |-> "none", result |-> "approved"]
Handling == {"proposing", "card", "second", "sending"}

CardsInit ==
  /\ Init /\ inTurn \in BOOLEAN
  /\ button = [r \in Results |-> "none"] /\ shown = FALSE
  /\ event = [u \in Users |-> NoEvent]

Handles(u, pc) == event' = [event EXCEPT ![u].pc = pc]
Done(u) == event' = [event EXCEPT ![u] = NoEvent]

-----------------------------------------------------------------------------
(* The message. *)

\* One thread handles it at a time; delivered again, it finds the revision
\* that names it as its source.
ReceiveMessage(u) ==
  /\ event[u] = NoEvent /\ user[u].pc = "idle"
  /\ \A v \in Users : event[v].pc \notin Handling
  /\ IF plan.number = 0
     THEN BeginPropose(u) /\ Handles(u, "proposing")
     ELSE Handles(u, "card") /\ UNCHANGED vars
  /\ UNCHANGED <<button, shown>>

MessageProposes(u) ==
  /\ event[u].pc = "proposing"
  /\ CommitPropose(u)
  /\ Handles(u, "card")
  /\ UNCHANGED <<button, shown>>

\* create_callback_token refuses a revision that is not the plan's newest.
Mint(u, r, next) ==
  IF plan.number = First
  THEN button' = [button EXCEPT ![r] = "live"] /\ Handles(u, next)
  ELSE Done(u) /\ UNCHANGED button

\* Unused buttons stand for a card that was sent.
MintApprove(u) ==
  /\ event[u].pc = "card"
  /\ IF \E r \in Results : button[r] = "live"
     THEN Done(u) /\ UNCHANGED button
     ELSE Mint(u, "approved", "second")
  /\ UNCHANGED <<vars, shown>>

MintReject(u) ==
  /\ event[u].pc = "second"
  /\ Mint(u, "rejected", "sending")
  /\ UNCHANGED <<vars, shown>>

SendCard(u) ==
  /\ event[u].pc = "sending"
  /\ shown' = TRUE
  /\ Done(u)
  /\ UNCHANGED <<vars, button>>

-----------------------------------------------------------------------------
(* A press: _process_callback. *)

Press(u, r) ==
  /\ event[u] = NoEvent /\ user[u].pc = "idle" /\ shown
  /\ event' = [event EXCEPT ![u] = [pc |-> "token", result |-> r]]
  /\ UNCHANGED <<vars, button, shown>>

\* MUTANT of ReadToken: the token is spent where it is found unused.
ReadTokenSpending(u) ==
  LET r == event[u].result IN
  /\ event[u].pc = "token"
  /\ IF button[r] = "used" THEN Done(u) ELSE Handles(u, "checking")
  /\ button' = [button EXCEPT ![r] = "used"]
  /\ UNCHANGED <<vars, shown>>

ReadToken(u) ==
  /\ event[u].pc = "token"
  /\ IF button[event[u].result] = "used" THEN Done(u) ELSE Handles(u, "checking")
  /\ UNCHANGED <<vars, button, shown>>

\* "stale callback: revision mismatch"
CheckRevision(u) ==
  /\ event[u].pc = "checking"
  /\ IF plan.number = First THEN Handles(u, "deciding") ELSE Done(u)
  /\ UNCHANGED <<vars, button, shown>>

\* approve_revision and reject_revision compare the number once more.
Decide(u) ==
  /\ event[u].pc = "deciding"
  /\ IF plan.number = First
     THEN /\ BeginDecision(u, IF event[u].result = "approved" THEN "approve" ELSE "reject")
          /\ Handles(u, "acting")
     ELSE Done(u) /\ UNCHANGED vars
  /\ UNCHANGED <<button, shown>>

\* The service returns, having decided or found the same decision; or it raises.
Decided(u) == user[u].pc \in {"approving", "rejecting"} \/ <<plan.number, event[u].result>> \in decisions

Acts(u) ==
  /\ event[u].pc = "acting"
  /\ \/ ReadRevision(u, "approve", "approving", "approved")
     \/ ReadRevision(u, "reject", "rejecting", "rejected")
     \/ CommitApprove(u) \/ CommitReject(u)
  /\ IF user'[u].pc # "idle" THEN UNCHANGED event
     ELSE IF Decided(u) THEN Handles(u, "spending") ELSE Done(u)
  /\ UNCHANGED <<button, shown>>

\* mark_callback_token_used, once the decision stands.
Spend(u) ==
  /\ event[u].pc = "spending"
  /\ button' = [button EXCEPT ![event[u].result] = "used"]
  /\ Done(u)
  /\ UNCHANGED <<vars, shown>>

\* The handler raises, a send fails, the token has expired, or the process dies.
BreaksOff(u) ==
  /\ event[u].pc # "none"
  /\ Request(u, NoRequest)
  /\ Done(u)
  /\ UNCHANGED <<plan, rev, decisions, handoff, execs, sched, button, shown>>

\* A person on the web.
OnTheWeb(u) == plan.number > 0 /\ event[u] = NoEvent /\ UserStep(u) /\ UNCHANGED <<button, shown, event>>

OneByOne == \A u, v \in Users : user[u].pc # "idle" /\ user[v].pc # "idle" => u = v

HandlerStep == \E u \in Users :
  \/ ReceiveMessage(u) \/ MessageProposes(u) \/ MintApprove(u) \/ MintReject(u) \/ SendCard(u)
  \/ \E r \in Results : Press(u, r)
  \/ ReadToken(u) \/ CheckRevision(u) \/ Decide(u) \/ Acts(u) \/ Spend(u)
  \/ BreaksOff(u) \/ OnTheWeb(u)

CardsNext == HandlerStep /\ (inTurn => OneByOne') /\ UNCHANGED inTurn

-----------------------------------------------------------------------------
\* PROPERTY (action).  "Edited or stale approval messages cannot approve a newer
\* revision" (interface_service.py:1155): while requests to the plan service come
\* one after the other, a press decides nothing but the revision its card shows, and
\* as its button says; and a button that is spent has its decision on record, whoever
\* revised or decided the plan meanwhile, wherever a handler broke off and however
\* often a press came.
CardsKeepTheirWord ==
  [][inTurn =>
    /\ \A u \in Users : event[u].pc = "acting" /\ user'[u] # user[u] =>
         decisions' \ decisions \subseteq {<<First, event[u].result>>}
    /\ \A r \in Results : button'[r] = "used" => <<First, r>> \in decisions']_<<vars, cardVars>>
=============================================================================
