---------------------------- MODULE ApprovalGate ----------------------------
(***************************************************************************)
(* The per-call tool approval gate (app/approval_gate.py).  Before an      *)
(* attempt runs a tool it asks the gate; the gate answers from the mode,   *)
(* the hard-coded refusals, the grants kept in this process and the rows   *)
(* of tool_approval_decisions, and otherwise mints a row that waits for a  *)
(* person.  People answer over HTTP or by a chat button, from other        *)
(* threads; the answer is written in up to three separate steps.           *)
(***************************************************************************)
EXTENDS Integers, Sequences, FiniteSets

CONSTANTS
  Executions,   \* the executions whose attempts call tools
  Tools,        \* tool names of one project
  Shapes,       \* canonical hashes of a call's arguments
  Hardline,     \* the <<tool, shape>> calls the hard-coded patterns match
  ReadOnly,     \* the <<tool, shape>> calls known to be safe and read-only
  Answers,      \* the <<decision, grain>> answers people give
  Answerers,    \* request threads in which a person's answer is handled
  Ttl,          \* pending_ttl_seconds
  ZoneShift,    \* local time zone of the server, as seconds east of UTC
  MaxRows,      \* bound: rows ever inserted
  MaxTime,      \* bound: the clock
  MaxRestarts   \* bound: process restarts

NoExec == "no_execution"
AnyShape == "any_shape"        \* args_hash = '' in the table

ASSUME ConstantsAssumption ==
  /\ NoExec \notin Executions
  /\ AnyShape \notin Shapes
  /\ Hardline \subseteq Tools \X Shapes
  /\ ReadOnly \subseteq Tools \X Shapes
  /\ Answers \subseteq {"allow", "deny"} \X {"once", "session", "always"}
  /\ Ttl \in Nat \ {0}
  /\ ZoneShift \in Int
  /\ MaxRows \in Nat /\ MaxTime \in Nat /\ MaxRestarts \in Nat

VARIABLES
  mode,         \* gate._mode
  rows,         \* tool_approval_decisions, in the order of insertion
  grants,       \* gate._session_grants: set of <<execution, tool>>
  call,         \* execution -> where its current evaluate() call is
  answer,       \* answerer -> where its current resolve() call is
  now,          \* the clock
  restarts,     \* bound counter
  said,         \* history: every lasting allowance a person wrote
  blocked       \* history: tools whose tool-wide denial was written

vars == <<mode, rows, grants, call, answer, now, restarts, said, blocked>>

Modes == {"off", "manual", "auto"}
Grains == {"once", "session", "always"}
Verdicts == {"allow", "deny"}

Row == [exec : Executions \cup {NoExec}, tool : Tools,
        shape : Shapes \cup {AnyShape}, grain : Grains,
        decision : Verdicts \cup {"undecided"}, created : Nat]

AllowCauses == {"mode_off", "session_grant", "mode_auto", "safe_readonly",
                "standing_allow"}
DenyCauses == {"hardline", "rule"}

NoCall == [at |-> "idle"]
NoAnswer == [at |-> "idle"]

Init ==
  /\ mode \in Modes
  /\ rows = <<>>
  /\ grants = {}
  /\ call = [e \in Executions |-> NoCall]
  /\ answer = [a \in Answerers |-> NoAnswer]
  /\ now = 0
  /\ restarts = 0
  /\ said = {}
  /\ blocked = {}

-----------------------------------------------------------------------------
(* What one evaluation reads *)

\* The deny-rule query: this shape or the wildcard row of the tool.
DenyRule(t, s) ==
  \E i \in DOMAIN rows :
    /\ rows[i].tool = t /\ rows[i].shape \in {s, AnyShape}
    /\ rows[i].decision = "deny" /\ rows[i].grain \in {"always", "once"}

\* The standing-allow query.
StandingAllow(t, s) ==
  \E i \in DOMAIN rows :
    /\ rows[i].tool = t /\ rows[i].shape \in {s, AnyShape}
    /\ rows[i].decision = "allow" /\ rows[i].grain = "always"

\* The undecided rows of this very call; the query takes one of the newest.
Waiting(e, t, s) ==
  {i \in DOMAIN rows : /\ rows[i].exec = e /\ rows[i].tool = t
                       /\ rows[i].shape = s
                       /\ rows[i].decision = "undecided"}

Newest(I) == {i \in I : \A j \in I : rows[j].created <= rows[i].created}

\* _request_fresh writes the creation time in UTC and reads it back with
\* mktime, as local time: the age it computes is off by the time zone.
AgeAsComputed(i) == now - rows[i].created + ZoneShift

\* MUTANT of Fresh: the operands are swapped.
FreshSwapped(i) == rows[i].created - now >= Ttl

Fresh(i) == AgeAsComputed(i) < Ttl

\* The chain of early returns of evaluate(), in the code's order.
Cause(e, t, s) ==
  IF mode = "off" THEN "mode_off"
  ELSE IF <<t, s>> \in Hardline THEN "hardline"
  ELSE IF <<e, t>> \in grants THEN "session_grant"
  ELSE IF DenyRule(t, s) THEN "rule"
  ELSE IF mode = "auto" THEN "mode_auto"
  ELSE IF <<t, s>> \in ReadOnly THEN "safe_readonly"
  ELSE IF StandingAllow(t, s) THEN "standing_allow"
  ELSE "ask"

Told(t, s, cause) == [at |-> "told", tool |-> t, shape |-> s, cause |-> cause]

-----------------------------------------------------------------------------
(* evaluate(), called by the agent runtime before a tool is invoked *)

\* A mode, a refusal, a grant or a rule settles the call.
EvaluateSettled(e) ==
  \E t \in Tools, s \in Shapes :
    /\ call[e].at = "idle"
    /\ Cause(e, t, s) # "ask"
    /\ call' = [call EXCEPT ![e] = Told(t, s, Cause(e, t, s))]
    /\ UNCHANGED <<mode, rows, grants, answer, now, restarts, said, blocked>>

\* Nothing settles it: a fresh request is reported again, an expired one is
\* about to be marked, and without one a request is about to be minted.
EvaluateAsk(e) ==
  \E t \in Tools, s \in Shapes :
    /\ call[e].at = "idle"
    /\ Cause(e, t, s) = "ask"
    /\ \/ \E i \in Newest(Waiting(e, t, s)) :
            call' = [call EXCEPT ![e] =
              IF Fresh(i) THEN Told(t, s, "pending")
              ELSE [at |-> "expire", tool |-> t, shape |-> s, row |-> i]]
       \/ /\ Waiting(e, t, s) = {}
          /\ call' = [call EXCEPT ![e] =
               [at |-> "mint", tool |-> t, shape |-> s]]
    /\ UNCHANGED <<mode, rows, grants, answer, now, restarts, said, blocked>>

\* The expired row is written back as undecided, whatever it holds by now.
MarkExpired(e) ==
  /\ call[e].at = "expire"
  /\ rows' = [rows EXCEPT ![call[e].row].decision = "undecided",
                          ![call[e].row].grain = "once"]
  /\ call' = [call EXCEPT ![e] =
       [at |-> "mint", tool |-> call[e].tool, shape |-> call[e].shape]]
  /\ UNCHANGED <<mode, grants, answer, now, restarts, said, blocked>>

\* The new request is inserted and the notifier told.
MintRequest(e) ==
  /\ call[e].at = "mint"
  /\ Len(rows) < MaxRows
  /\ rows' = Append(rows, [exec |-> e, tool |-> call[e].tool,
                           shape |-> call[e].shape, grain |-> "once",
                           decision |-> "undecided", created |-> now])
  /\ call' = [call EXCEPT ![e] = Told(call[e].tool, call[e].shape, "pending")]
  /\ UNCHANGED <<mode, grants, answer, now, restarts, said, blocked>>

\* A database error ends the evaluation: ApprovalError leaves the attempt.
EvaluateFails(e) ==
  /\ call[e].at \in {"expire", "mint"}
  /\ call' = [call EXCEPT ![e] = NoCall]
  /\ UNCHANGED <<mode, rows, grants, answer, now, restarts, said, blocked>>

\* The runtime invokes the tool, or tells the model it may not.
CallReturns(e) ==
  /\ call[e].at = "told"
  /\ call' = [call EXCEPT ![e] = NoCall]
  /\ UNCHANGED <<mode, rows, grants, answer, now, restarts, said, blocked>>

-----------------------------------------------------------------------------
(* resolve(), called by the HTTP route and by a button press *)

\* The row is read; a decided row is returned as it is, with no change.
ReadRequest(a) ==
  \E i \in DOMAIN rows, d \in Verdicts, g \in Grains :
    /\ answer[a].at = "idle"
    /\ <<d, g>> \in Answers
    /\ rows[i].decision = "undecided"
    /\ answer' = [answer EXCEPT ![a] =
         [at |-> "store", row |-> i, decision |-> d, grain |-> g]]
    /\ UNCHANGED <<mode, rows, grants, call, now, restarts, said, blocked>>

AfterStore(d, g) ==
  IF d = "allow" /\ g = "session" THEN "grant"
  ELSE IF d = "deny" /\ g = "always" THEN "wildcard"
  ELSE "idle"

\* _resolve_stored: an UPDATE by id alone.  A denial is stored as "once".
StoreAnswer(a) ==
  LET w == answer[a]
      i == w.row
      at == AfterStore(w.decision, w.grain)
  IN
  /\ w.at = "store"
  /\ rows' = [rows EXCEPT
       ![i].decision = w.decision,
       ![i].grain = IF w.decision = "allow" THEN w.grain ELSE "once"]
  /\ said' = said \cup {[grain |-> g, exec |-> rows[i].exec,
                         tool |-> rows[i].tool, shape |-> rows[i].shape] :
                          g \in IF w.decision = "allow"
                                THEN {w.grain} \ {"once"} ELSE {}}
  /\ answer' = [answer EXCEPT ![a] =
       IF at = "idle" THEN NoAnswer ELSE [w EXCEPT !.at = at]]
  /\ UNCHANGED <<mode, grants, call, now, restarts, blocked>>

\* Mutant of AddGrant: the grant is not tied to the asking execution.
AddGrantForTool(a) ==
  /\ answer[a].at = "grant"
  /\ grants' = grants \cup (Executions \X {rows[answer[a].row].tool})
  /\ answer' = [answer EXCEPT ![a] = NoAnswer]
  /\ UNCHANGED <<mode, rows, call, now, restarts, said, blocked>>

\* allow for the session: the grant is added in memory.
AddGrant(a) ==
  /\ answer[a].at = "grant"
  /\ grants' = grants \cup {<<rows[answer[a].row].exec,
                              rows[answer[a].row].tool>>}
  /\ answer' = [answer EXCEPT ![a] = NoAnswer]
  /\ UNCHANGED <<mode, rows, call, now, restarts, said, blocked>>

\* deny always: the companion row that matches every shape of the tool.
WriteWildcard(a) ==
  LET r == rows[answer[a].row] IN
  /\ answer[a].at = "wildcard"
  /\ Len(rows) < MaxRows
  /\ rows' = Append(rows, [exec |-> NoExec, tool |-> r.tool,
                           shape |-> AnyShape, grain |-> "always",
                           decision |-> "deny", created |-> r.created])
  /\ blocked' = blocked \cup {r.tool}
  /\ answer' = [answer EXCEPT ![a] = NoAnswer]
  /\ UNCHANGED <<mode, grants, call, now, restarts, said>>

\* A database error ends the answer before its next write.
AnswerFails(a) ==
  /\ answer[a].at \in {"store", "wildcard"}
  /\ answer' = [answer EXCEPT ![a] = NoAnswer]
  /\ UNCHANGED <<mode, rows, grants, call, now, restarts, said, blocked>>

-----------------------------------------------------------------------------
(* The operator, the process and the clock *)

\* config.yaml approvals.mode, applied without a restart.
SetMode ==
  /\ \E m \in Modes \ {mode} : mode' = m
  /\ UNCHANGED <<rows, grants, call, answer, now, restarts, said, blocked>>

\* The process stops between any two steps and starts with no grants: what a
\* person allowed for the session ends with it.
Restart ==
  /\ restarts < MaxRestarts
  /\ restarts' = restarts + 1
  /\ mode' \in Modes
  /\ grants' = {}
  /\ call' = [e \in Executions |-> NoCall]
  /\ answer' = [a \in Answerers |-> NoAnswer]
  /\ said' = {x \in said : x.grain # "session"}
  /\ UNCHANGED <<rows, now, blocked>>

Tick ==
  /\ now < MaxTime
  /\ now' = now + 1
  /\ UNCHANGED <<mode, rows, grants, call, answer, restarts, said, blocked>>

EvaluateStep(e) ==
  \/ EvaluateSettled(e) \/ EvaluateAsk(e) \/ MarkExpired(e)
  \/ MintRequest(e) \/ EvaluateFails(e) \/ CallReturns(e)

ResolveStep(a) ==
  \/ ReadRequest(a) \/ StoreAnswer(a) \/ AddGrant(a) \/ WriteWildcard(a)
  \/ AnswerFails(a)

Next ==
  \/ \E e \in Executions : EvaluateStep(e)
  \/ \E a \in Answerers : ResolveStep(a)
  \/ SetMode \/ Restart \/ Tick

Spec == Init /\ [][Next]_vars
-----------------------------------------------------------------------------
(* Properties *)

CallState ==
  {NoCall}
    \cup [at : {"told"}, tool : Tools, shape : Shapes,
          cause : AllowCauses \cup DenyCauses \cup {"pending"}]
    \cup [at : {"expire"}, tool : Tools, shape : Shapes, row : DOMAIN rows]
    \cup [at : {"mint"}, tool : Tools, shape : Shapes]

AnswerState ==
  {NoAnswer}
    \cup [at : {"store", "grant", "wildcard"}, row : DOMAIN rows,
          decision : Verdicts, grain : Grains]

Statement == [grain : {"session", "always"}, exec : Executions,
              tool : Tools, shape : Shapes]

\* Every row, grant, evaluation and answer is one the gate can hold.
TypeOK ==
  /\ mode \in Modes
  /\ rows \in Seq(Row)
  /\ grants \subseteq Executions \X Tools
  /\ call \in [Executions -> CallState]
  /\ answer \in [Answerers -> AnswerState]
  /\ now \in Nat /\ restarts \in Nat
  /\ said \subseteq Statement
  /\ blocked \subseteq Tools

\* A person allowed this call: for the session of this very execution, in
\* this process's lifetime, or always for this very shape of arguments.
AllowedByPerson(e, t, s) ==
  \E x \in said :
    /\ x.tool = t
    /\ \/ x.grain = "session" /\ x.exec = e
       \/ x.grain = "always" /\ x.shape = s

\* Whatever answers, expirations and restarts interleave with the call, the
\* gate lets a call through on a person's word only if a person said so about
\* a request that covers it: a grant never leaks to another execution, to
\* another shape or past a restart (evaluate, resolve, _session_grants).
AllowedIsCovered ==
  \A e \in Executions :
    (call[e].at = "told" /\ call[e].cause \in {"session_grant", "standing_allow"})
      => AllowedByPerson(e, call[e].tool, call[e].shape)

\* The answer given to e in this step.
ToldNow(e, causes) ==
  /\ call[e].at # "told" /\ call'[e].at = "told"
  /\ call'[e].cause \in causes

\* Once the tool-wide denial of a tool is written, no later step of any
\* execution, answerer, operator or restart makes the gate let that tool
\* through again by mode auto, by the read-only list or by an allow rule
\* (resolve writes the wildcard row for good; evaluate asks it first).
DeniedToolStays ==
  [][\A e \in Executions :
       ToldNow(e, {"mode_auto", "safe_readonly", "standing_allow"})
         => call'[e].tool \notin blocked]_vars

\* One call is put to people once: two undecided requests for the same call
\* of the same execution are never both younger than the TTL (evaluate's
\* pending lookup, _request_fresh and the insert).
AskedOnce ==
  \A i, j \in DOMAIN rows :
    (/\ i < j
     /\ rows[i].decision = "undecided" /\ rows[j].decision = "undecided"
     /\ rows[i].exec = rows[j].exec
     /\ rows[i].tool = rows[j].tool /\ rows[i].shape = rows[j].shape)
      => now - rows[i].created >= Ttl

\* A model that is told to wait for a person waits for a request that was put
\* to people within the TTL, not for one nobody will look at any more.
PendingIsLive ==
  [][\A e \in Executions :
       ToldNow(e, {"pending"}) =>
         \E i \in DOMAIN rows' :
           /\ rows'[i].exec = e /\ rows'[i].tool = call'[e].tool
           /\ rows'[i].shape = call'[e].shape
           /\ rows'[i].decision = "undecided"
           /\ now - rows'[i].created < Ttl]_vars
=============================================================================
