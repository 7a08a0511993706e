----------------------------- MODULE MCToolLoop -----------------------------
(***************************************************************************)
(* The rounds of one attempt, the tools they call, and how their requests  *)
(* and answers travel, for TLC.  The loop knows of a tool only whether its *)
(* call failed, the tool service nothing of rounds, and an adapter only    *)
(* the conversation it is given: a behaviour moves one of them and the     *)
(* others stay where they start.                                           *)
(***************************************************************************)
EXTENDS ToolLoop, ToolService, ProviderStream, MessageRendering, TLC

CONSTANT Parts   \* the parts to explore

VARIABLE part

\* "call.1" becomes "call_1", which is also "call" with the suffix 1.
SafeId(raw) == IF raw = "call.1" THEN "call_1" ELSE raw
SuffixedId(id, n) == IF n = 0 THEN id ELSE id \o "_" \o ToString(n)

MCInit ==
  /\ Init /\ ToolInit /\ StreamInit /\ RenderingInit /\ part \in Parts
  /\ part # "rounds" => attempt = "ours"
  /\ part # "stream" => wire = "openai" /\ indexed

Rounds   == part = "rounds" /\ Next /\ UNCHANGED <<part, toolVars, streamVars, history, renderVars>>
Tooling  == part = "tools" /\ ToolNext /\ UNCHANGED <<part, vars, streamVars, history, renderVars>>
Streaming == part = "stream" /\ StreamNext /\ UNCHANGED <<part, vars, toolVars, history, renderVars>>
Turns    == part = "rendering" /\ RenderingNext /\ UNCHANGED <<part, vars, toolVars, streamVars>>

MCSpec ==
  /\ MCInit /\ [][Rounds \/ Tooling \/ Streaming \/ Turns]_<<part, vars, toolVars, streamVars, history, renderVars>>
  /\ WF_vars(Rounds /\ Step)

\* Every attempt ends, however the model answers: the fairness is that of the
\* thread that runs the loop.
RoundsEnd == part = "rounds" ~> pc \in Ended
=============================================================================
