--------------------------- MODULE MCApprovalGate ---------------------------
(***************************************************************************)
(* The tool approval gate: ApprovalGate on a small instance, one tool      *)
(* called with two shapes of arguments, one of them known to be read-only, *)
(* and nothing hard-refused; and ToolCards, its requests answered by two   *)
(* presses at once and over HTTP.  A behaviour moves one of the two.       *)
(***************************************************************************)
EXTENDS ToolCards, TLC

CONSTANTS e1, e2, shell, look, other, p1, p2

VARIABLE part  \* "gate" or "taps"

MCInit ==
  /\ CardsInit /\ part \in {"gate", "taps"}
  /\ part = "taps" => mode = "manual"

\* The gate by itself: one answerer.
Calls ==
  /\ part = "gate" /\ Next
  /\ answer'[p2] = NoAnswer
  /\ UNCHANGED <<part, cardVars>>

\* One execution asks once, for one shape, under one mode; p1 presses any
\* button, p2 only denies, in the chat or over HTTP.
Taps ==
  /\ part = "taps" /\ CardsNext
  /\ mode' = "manual" /\ call'[e2] = NoCall
  /\ call'[e1] \in {c \in {call'[e1]} : c.at # "idle" => c.shape = other}
  /\ \A i \in DOMAIN rows' : i > 1 => rows'[i].exec = NoExec
  /\ answer'[p1].at # "idle" => press'[p1].pc # "none"
  /\ press'[p2].act = "deny"
  /\ answer'[p2] \in {x \in {answer'[p2]} : x.at # "idle" => x.decision = "deny"}
  /\ UNCHANGED part

MCSpec == MCInit /\ [][Calls \/ Taps]_<<vars, cardVars, part>>

MCHardline == {}
MCReadOnly == {<<shell, look>>}

\* A denial for the session is stored as any other denial: left out.
MCAnswers == ({"allow", "deny"} \X {"once", "session", "always"})
               \ {<<"deny", "session">>}

\* Executions are not interchangeable in the ordered rows, but no definition
\* names one.
Symmetric == Permutations(Executions)
=============================================================================
