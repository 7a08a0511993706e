------------------------------ MODULE ToolCards ------------------------------
(***************************************************************************)
(* A tool call decided in the chat: the card with four buttons in          *)
(* src/zero/app/interface_service.py, composed with the gate of            *)
(* ApprovalGate.                                                           *)
(*                                                                         *)
(* Minting a request mints a one-shot token per button and sends the card, *)
(* before evaluate returns; a press re-reads the request and runs the same *)
(* resolve as the HTTP route, in the thread of the poller.  Claims of      *)
(* updates are in TelegramPolling.                                         *)
(***************************************************************************)
EXTENDS ApprovalGate

VARIABLES
  token,  \* tool_approval_tokens, per request and button: absent, live or used
  card,   \* requests whose card is in the chat
  sender, \* execution -> the request its evaluation is sending a card for
  press,  \* answerer -> the press it handles
  answered \* history: the requests an answer was stored for

cardVars == <<token, card, sender, press, answered>>

\* The four actions, in the order their tokens are minted.
Actions == <<"allow_once", "allow_session", "allow_always", "deny">>

\* decision_map
Meaning == [allow_once |-> <<"allow", "once">>, allow_session |-> <<"allow", "session">>,
            allow_always |-> <<"allow", "always">>, deny |-> <<"deny", "once">>]

NoSend == [row |-> 0, minted |-> 0]
NoPress == [pc |-> "none", row |-> 0, act |-> "deny"]
NoTokens == [k \in DOMAIN Meaning |-> "absent"]

CardsInit ==
  /\ Init
  /\ token = [i \in 1..MaxRows |-> NoTokens]
  /\ card = {}
  /\ sender = [e \in Executions |-> NoSend]
  /\ press = [a \in Answerers |-> NoPress]
  /\ answered = {}

-----------------------------------------------------------------------------
(* send_tool_approval_card: the notifier of evaluate. *)

\* A new request has no live tokens, so its card is always begun.
MintAndNotify(e) ==
  /\ MintRequest(e)
  /\ sender' = [sender EXCEPT ![e].row = Len(rows')]
  /\ UNCHANGED <<token, card, press, answered>>

\* create_tool_approval_token: one transaction each.
MintToken(e) ==
  LET s == sender[e] IN
  /\ s.row # 0 /\ s.minted < Len(Actions)
  /\ token' = [token EXCEPT ![s.row][Actions[s.minted + 1]] = "live"]
  /\ sender' = [sender EXCEPT ![e].minted = s.minted + 1]
  /\ UNCHANGED <<vars, card, press, answered>>

\* It reaches at least one of the project's chats.
SendCard(e) ==
  /\ sender[e].row # 0 /\ sender[e].minted = Len(Actions)
  /\ card' = card \cup {sender[e].row}
  /\ sender' = [sender EXCEPT ![e] = NoSend]
  /\ UNCHANGED <<vars, token, press, answered>>

\* No chat, a failed write or no delivery: logged, and never tried again.
CardFails(e) ==
  /\ sender[e].row # 0
  /\ sender' = [sender EXCEPT ![e] = NoSend]
  /\ UNCHANGED <<vars, token, card, press, answered>>

\* Every other step of an evaluation, once the notifier has returned.
Evaluates(e) ==
  /\ sender[e].row = 0
  /\ EvaluateStep(e) /\ Len(rows') = Len(rows)
  /\ UNCHANGED cardVars

-----------------------------------------------------------------------------
(* _process_tool_callback *)

Turns(a, pc) == press' = [press EXCEPT ![a].pc = pc]
PressEnds(a) == press' = [press EXCEPT ![a] = NoPress]

Press(a) ==
  /\ press[a] = NoPress /\ answer[a].at = "idle"
  /\ \E i \in card, k \in DOMAIN Meaning : press' = [press EXCEPT ![a] = [pc |-> "token", row |-> i, act |-> k]]
  /\ UNCHANGED <<vars, token, card, sender, answered>>

\* MUTANT of ReadToken: the token is spent where it is found live.
ReadTokenSpending(a) ==
  LET p == press[a] IN
  /\ p.pc = "token"
  /\ IF token[p.row][p.act] = "used" THEN PressEnds(a) ELSE Turns(a, "request")
  /\ token' = [token EXCEPT ![p.row][p.act] = "used"]
  /\ UNCHANGED <<vars, card, sender, answered>>

\* A used token is answered as such; so is an expired one, or the press of
\* somebody without tool.manage.
ReadToken(a) ==
  LET p == press[a] IN
  /\ p.pc = "token"
  /\ \/ token[p.row][p.act] = "live" /\ Turns(a, "request")
     \/ PressEnds(a)
  /\ UNCHANGED <<vars, token, card, sender, answered>>

ReadsRequest(a) ==
  LET p == press[a] IN
  /\ p.pc = "request"
  /\ IF rows[p.row].decision = "undecided" THEN Turns(a, "resolving") ELSE PressEnds(a)
  /\ UNCHANGED <<vars, token, card, sender, answered>>

Recorded(i) == answered' = answered \cup {i}

\* resolve reads the row once more and returns as well when it is decided by
\* now: the press goes on as if its answer had been stored.
Resolves(a) ==
  LET p == press[a] IN
  /\ p.pc = "resolving"
  /\ IF rows[p.row].decision = "undecided"
     THEN /\ ReadRequest(a)
          /\ answer'[a].row = p.row
          /\ <<answer'[a].decision, answer'[a].grain>> = Meaning[p.act]
          /\ Turns(a, "storing")
     ELSE Turns(a, "spending") /\ UNCHANGED vars
  /\ UNCHANGED <<token, card, sender, answered>>

Stores(a) ==
  /\ press[a].pc = "storing"
  /\ \/ StoreAnswer(a) /\ Recorded(press[a].row)
     \/ AddGrant(a) /\ UNCHANGED answered
  /\ Turns(a, IF answer'[a].at = "idle" THEN "spending" ELSE "storing")
  /\ UNCHANGED <<token, card, sender>>

\* resolve raised: the button stays live.
StoreFails(a) ==
  /\ press[a].pc = "storing"
  /\ AnswerFails(a)
  /\ PressEnds(a)
  /\ UNCHANGED <<token, card, sender, answered>>

\* mark_tool_approval_token_used
Spend(a) ==
  LET p == press[a] IN
  /\ p.pc = "spending"
  /\ token' = [token EXCEPT ![p.row][p.act] = "used"]
  /\ PressEnds(a)
  /\ UNCHANGED <<vars, card, sender, answered>>

\* The HTTP route, in a thread of its own.
OverHttp(a) ==
  /\ press[a] = NoPress
  /\ ResolveStep(a)
  /\ IF answer[a].at = "store" /\ rows' # rows THEN Recorded(answer[a].row) ELSE UNCHANGED answered
  /\ UNCHANGED <<token, card, sender, press>>

-----------------------------------------------------------------------------

\* The tokens, like the rows, outlive the process.
Dies ==
  /\ Restart
  /\ sender' = [e \in Executions |-> NoSend]
  /\ press' = [a \in Answerers |-> NoPress]
  /\ UNCHANGED <<token, card, answered>>

Elsewhere == (SetMode \/ Tick) /\ UNCHANGED cardVars

CardsNext ==
  \/ \E e \in Executions :
       \/ MintAndNotify(e) \/ MintToken(e) \/ SendCard(e) \/ CardFails(e) \/ Evaluates(e)
  \/ \E a \in Answerers :
       \/ Press(a) \/ ReadToken(a) \/ ReadsRequest(a) \/ Resolves(a) \/ Stores(a)
       \/ StoreFails(a) \/ Spend(a) \/ OverHttp(a)
  \/ Dies \/ Elsewhere

-----------------------------------------------------------------------------
\* A one-shot button is never lost: one that is spent belongs to a request a
\* person has answered, and until then every button of a card in the chat can
\* be pressed; whatever races the press, wherever resolve fails, the process
\* dies or an update is delivered again ("one-shot consumption", after "state
\* re-resolution", _process_tool_callback).
NoButtonLost ==
  \A i \in card :
    i \notin answered => \A k \in DOMAIN Meaning : token[i][k] = "live"
=============================================================================
