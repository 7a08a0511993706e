------------------------------ MODULE ToolLoop ------------------------------
(***************************************************************************)
(* The requests and tool calls of one attempt: run_task's first request,   *)
(* _run_tool_rounds, _run_text_protocol_tool_rounds and                    *)
(* _execute_delegation of src/zero/app/agent_runtime.py.                   *)
(*                                                                         *)
(* This is the state "looping" of AgentRuntime.  Its environment may take  *)
(* the attempt away at any moment: the lease lapses and is reclaimed, or   *)
(* the execution is cancelled, which also sets the cancellation event if   *)
(* run_task had fetched it by then.  A prompt, an argument or a result is  *)
(* only what the loop decides by: how many calls a response makes, whether *)
(* their arguments parse, and how a call ended.                            *)
(***************************************************************************)
EXTENDS Integers, FiniteSets

CONSTANTS
  MaxRounds,     \* max_tool_rounds
  Boosts,        \* _MAX_TRUNCATION_BOOSTS_PER_LOOP
  EmptyRetries,  \* _MAX_EMPTY_RESPONSE_RETRIES
  AbortAt,       \* _FAILURE_ABORT_THRESHOLD
  ChildRounds,   \* rounds of a delegated sub-agent
  Batch,         \* BOUND: calls in one response
  Failures,      \* the ways a call can fail: a tool and a message or status
  Successes      \* the tools that can succeed, as the text loop counts them

ASSUME Limits ==
  /\ MaxRounds \in 1..32
  /\ Boosts \in Nat /\ EmptyRetries \in Nat
  /\ AbortAt \in Nat \ {0} /\ ChildRounds \in Nat \ {0} /\ Batch \in Nat \ {0}

ASSUME OutcomesDiffer == Failures \cap Successes = {}

VARIABLES
  pc,        \* where the loop is
  protocol,  \* native tool calls, or calls written as text
  resp,      \* current_response
  open,      \* calls of the last assistant message without a tool message
  used,      \* rounds begun, boosts and nudges for empty answers used
  count,     \* failure_signatures
  tripped,   \* breaker_tripped
  child,     \* requests of the delegation under way
  attempt,   \* ours, or lost to another worker or a cancellation
  event,     \* the event run_task holds: held, set, or fetched too late: fresh
  sent,      \* HISTORY: requests sent by the loop itself
  late       \* HISTORY: those of them sent after the attempt was lost

world == <<attempt, event>>
vars == <<pc, protocol, resp, open, used, count, tripped, child, world, sent, late>>

-----------------------------------------------------------------------------
\* A response with calls whose arguments all parse, some do not, or some do
\* not because the answer was cut off; or one without calls.
Response == [calls : 1..Batch, shape : {"fine", "malformed", "truncated"}]
              \cup [calls : {0}, shape : {"text", "empty"}]

Asking == {"first", "retrying", "boosting", "asking", "nudging"}
Loop   == {"received", "round", "calls", "child"}
Ended  == {"accepted", "failed"}

Signatures == Failures \cup Successes

\* What parse_tool_call finds in the content of an answer: one call or none.
Reading == {r \in Response : r.calls <= 1}

TypeOK ==
  /\ pc \in Asking \cup Loop \cup Ended
  /\ protocol \in {"native", "text"}
  /\ resp \in Response
  /\ open \in 0..Batch
  /\ used \in [rounds : 0..MaxRounds, boosts : 0..Boosts, retries : 0..EmptyRetries]
  /\ count \in [Signatures -> Nat]
  /\ tripped \in BOOLEAN
  /\ child \in 0..ChildRounds
  /\ attempt \in {"ours", "lost"}
  /\ event \in {"held", "set", "fresh"}
  /\ sent \in Nat
  /\ late \in Nat

\* run_task has prepared its request and fetched the event.  An execution
\* cancelled before left a fresh event: cancel_execution drops the one it set.
Init ==
  /\ pc = "first"
  /\ protocol = "native"
  /\ resp = [calls |-> 0, shape |-> "empty"]
  /\ open = 0
  /\ used = [rounds |-> 0, boosts |-> 0, retries |-> 0]
  /\ count = [s \in Signatures |-> 0]
  /\ tripped = FALSE
  /\ child = 0
  /\ attempt \in {"ours", "lost"}
  /\ event = "held" \/ (event = "fresh" /\ attempt = "lost")
  /\ sent = 0
  /\ late = 0

books == <<protocol, open, used, count, tripped, child>>

\* The answer is returned; run_task looks at the event before it stores it.
Accept == pc' = IF event = "set" THEN "failed" ELSE "accepted"

\* MUTANT of Renewed: a round is begun without renewing.
RenewedAlways == TRUE

\* renew_task_lease: refused when the attempt is another's or cancelled.
Renewed == attempt = "ours"

-----------------------------------------------------------------------------
(* Requests.  send_request_with_fallback looks at the event before sending *)
(* and while it waits; every other error ends the loop the same way.       *)

Send ==
  /\ pc \in Asking
  /\ event # "set"
  /\ resp' \in Response
  /\ sent' = sent + 1
  /\ late' = IF attempt = "lost" THEN late + 1 ELSE late
  /\ UNCHANGED world

SendFails ==
  /\ pc \in Asking
  /\ pc' = "failed"
  /\ UNCHANGED <<resp, books, world, sent, late>>

FirstRequest ==
  /\ pc \in {"first", "retrying"}
  /\ Send
  /\ pc' = "received"
  /\ UNCHANGED books

\* The boosted answer replaces the one that was cut off.
BoostedRequest ==
  /\ pc = "boosting"
  /\ Send
  /\ open' = resp'.calls
  /\ IF resp'.calls = 0 THEN Accept ELSE pc' = "calls"
  /\ UNCHANGED <<protocol, used, count, tripped, child>>

RoundRequest ==
  /\ pc = "asking"
  /\ Send
  /\ IF protocol = "text" THEN resp' \in Reading /\ pc' = "round"
     ELSE IF resp'.calls = 0 THEN Accept ELSE pc' = "round"
  /\ UNCHANGED books

\* The final request without tools.  The text loop strips a call from the
\* answer and takes what is left.
NudgeRequest ==
  /\ pc = "nudging"
  /\ Send
  /\ IF resp'.calls = 0 \/ protocol = "text" THEN Accept ELSE pc' = "failed"
  /\ UNCHANGED books

-----------------------------------------------------------------------------
(* Before the first round.                                                 *)

\* MUTANT of RenewalFails: a renewal that is refused is tried again.
RenewalRetried ==
  /\ pc \in {"received", "round"}
  /\ ~Renewed
  /\ UNCHANGED vars

\* A renewal that is refused ends the loop.
RenewalFails ==
  /\ pc \in {"received", "round"}
  /\ ~Renewed
  /\ pc = "received" => resp.shape = "empty" /\ used.retries < EmptyRetries
  /\ pc # "received" => used.rounds < MaxRounds
  /\ pc' = "failed"
  /\ UNCHANGED <<resp, books, world, sent, late>>

\* The empty-response ladder.
RetryEmpty ==
  /\ pc = "received"
  /\ resp.shape = "empty"
  /\ used.retries < EmptyRetries
  /\ Renewed
  /\ pc' = "retrying"
  /\ used' = [used EXCEPT !.retries = @ + 1]
  /\ UNCHANGED <<resp, protocol, open, count, tripped, child, world, sent, late>>

\* An answer without calls is taken, except that after an empty one a
\* provider whose probe says it cannot call tools is asked in text.
Start ==
  /\ pc = "received"
  /\ resp.shape = "empty" => used.retries = EmptyRetries
  /\ IF resp.calls > 0 THEN pc' = "round" /\ UNCHANGED <<protocol, resp>>
     ELSE \/ Accept /\ UNCHANGED <<protocol, resp>>
          \/ /\ used.retries > 0 \/ resp.shape = "empty"
             /\ protocol' = "text"
             /\ pc' = "round"
             /\ resp' \in IF resp.shape = "empty" THEN {resp} ELSE Reading
  /\ UNCHANGED <<open, used, count, tripped, child, world, sent, late>>

-----------------------------------------------------------------------------
(* A round with native tool calls.                                         *)

Boost ==
  /\ resp.shape = "truncated"
  /\ used.boosts < Boosts
  /\ pc' = "boosting"
  /\ used' = [used EXCEPT !.rounds = @ + 1, !.boosts = @ + 1]
  /\ open' = 0

AppendCalls ==
  /\ resp.shape = "truncated" => used.boosts = Boosts
  /\ pc' = "calls"
  /\ used' = [used EXCEPT !.rounds = @ + 1]
  /\ open' = resp.calls

BeginRound ==
  /\ pc = "round" /\ protocol = "native"
  /\ used.rounds < MaxRounds
  /\ Renewed
  /\ Boost \/ AppendCalls
  /\ UNCHANGED <<resp, protocol, count, tripped, child, world, sent, late>>

\* Arguments that do not parse, an undeclared tool, an approval that is
\* pending or denied, a denial by policy, and a success: a tool message each.
AnswerCall ==
  /\ pc = "calls"
  /\ open > 0
  /\ open' = open - 1
  /\ UNCHANGED <<pc, resp, protocol, used, count, tripped, child, world, sent, late>>

\* A ToolError or a failed result counts toward the breaker, which lets the
\* batch finish.
FailCall(s) ==
  /\ pc = "calls"
  /\ open > 0
  /\ open' = open - 1
  /\ count' = [count EXCEPT ![s] = @ + 1]
  /\ tripped' = (tripped \/ count'[s] >= AbortAt)
  /\ UNCHANGED <<pc, resp, protocol, used, child, world, sent, late>>

\* _execute_delegation: up to ChildRounds requests without the event.
Delegate ==
  /\ pc = "calls"
  /\ open > 0
  /\ pc' = "child"
  /\ UNCHANGED <<resp, books, world, sent, late>>

\* An error of the provider is not caught: it ends the attempt.
ChildRequest ==
  /\ pc = "child"
  /\ child < ChildRounds
  /\ \/ child' = child + 1 /\ UNCHANGED pc
     \/ pc' = "failed" /\ UNCHANGED child
  /\ UNCHANGED <<resp, protocol, open, used, count, tripped, world, sent, late>>

ChildReturns ==
  /\ pc = "child" /\ protocol = "native"
  /\ child > 0
  /\ child' = 0
  /\ open' = open - 1
  /\ pc' = "calls"
  /\ UNCHANGED <<resp, protocol, used, count, tripped, world, sent, late>>

EndBatch ==
  /\ pc = "calls"
  /\ open = 0
  /\ pc' = IF tripped THEN "nudging" ELSE "asking"
  /\ UNCHANGED <<resp, books, world, sent, late>>

EndRounds ==
  /\ pc = "round"
  /\ used.rounds = MaxRounds
  /\ pc' = "nudging"
  /\ UNCHANGED <<resp, books, world, sent, late>>

-----------------------------------------------------------------------------
(* A round of the text protocol: at most one call, read from the content.  *)

TextRenewed ==
  /\ pc = "round" /\ protocol = "text"
  /\ used.rounds < MaxRounds
  /\ Renewed
  /\ event # "set"
  /\ used' = [used EXCEPT !.rounds = @ + 1]

TextAnswer ==
  /\ TextRenewed
  /\ resp.calls = 0
  /\ Accept
  /\ UNCHANGED <<resp, protocol, open, count, tripped, child, world, sent, late>>

\* Every outcome is counted, a success too.
Tally(s) ==
  /\ count' = [count EXCEPT ![s] = @ + 1]
  /\ tripped' = (count'[s] >= AbortAt)
  /\ pc' = IF tripped' THEN "failed" ELSE "asking"

TextCall(s) ==
  /\ TextRenewed
  /\ resp.calls > 0
  /\ Tally(s)
  /\ UNCHANGED <<resp, protocol, open, child, world, sent, late>>

TextDelegate ==
  /\ TextRenewed
  /\ resp.calls > 0
  /\ pc' = "child"
  /\ UNCHANGED <<resp, protocol, open, count, tripped, child, world, sent, late>>

TextChildReturns(s) ==
  /\ pc = "child" /\ protocol = "text"
  /\ child > 0
  /\ child' = 0
  /\ Tally(s)
  /\ UNCHANGED <<resp, protocol, open, used, world, sent, late>>

\* The event is set while a tool runs.
TextCancelled ==
  /\ pc = "round" /\ protocol = "text"
  /\ used.rounds < MaxRounds
  /\ event = "set"
  /\ pc' = "failed"
  /\ UNCHANGED <<resp, books, world, sent, late>>

-----------------------------------------------------------------------------
(* The environment, and the specification.                                 *)

LoseLease ==
  /\ pc \notin Ended
  /\ attempt = "ours"
  /\ attempt' = "lost"
  /\ UNCHANGED <<pc, resp, books, event, sent, late>>

CancelExecution ==
  /\ pc \notin Ended
  /\ event = "held"
  /\ event' = "set"
  /\ attempt' = "lost"
  /\ UNCHANGED <<pc, resp, books, sent, late>>

Step ==
  \/ FirstRequest \/ BoostedRequest \/ RoundRequest \/ NudgeRequest \/ SendFails
  \/ RenewalFails \/ RetryEmpty \/ Start
  \/ BeginRound \/ AnswerCall \/ (\E s \in Failures : FailCall(s)) \/ Delegate
  \/ ChildRequest \/ ChildReturns \/ EndBatch \/ EndRounds
  \/ TextAnswer \/ (\E s \in Signatures : TextCall(s)) \/ TextDelegate
  \/ (\E s \in Successes : TextChildReturns(s)) \/ TextCancelled

Next == Step \/ LoseLease \/ CancelExecution

\* The loop is a thread: requests and tools end, with a time-out at worst.
Spec == Init /\ [][Next]_vars /\ WF_vars(Step)

-----------------------------------------------------------------------------
(* Properties.                                                             *)

\* An attempt that was lost sends at most three more requests, those that
\* may follow one renewal: the boosted one, the one after the batch, and the
\* final one without tools.  "The attempt lease is renewed before every
\* round" (agent_runtime.py:1789).
SoonSilent == late <= 3

\* Every call of an assistant message has its tool message before the next
\* request: a provider refuses a conversation with a hole.
PairedHistory == pc \in Asking => open = 0

\* "without accepting unresolved calls" (agent_runtime.py:1787): an answer of
\* the native loop makes no call.
NothingUnresolved == pc = "accepted" /\ protocol = "native" => resp.calls = 0

\* The requests of one attempt are bounded, whatever the model answers.
RequestBudget == sent <= 1 + EmptyRetries + MaxRounds + Boosts + 1

\* The loop ends, with an answer or an error.
Ends == <>(pc \in Ended)
=============================================================================
