-------------------------- MODULE MessageRendering --------------------------
(***************************************************************************)
(* The conversation as the Messages API takes it                           *)
(* (AnthropicMessagesProviderAdapter, app/provider_adapter.py): turns that *)
(* alternate, calls with ids of a restricted alphabet, and each call       *)
(* answered in the turn that follows it.  Zero's history promises none of  *)
(* it: ids repeat from round to round and may become equal when they are   *)
(* rewritten, rounds are interrupted, and compaction cuts the beginning    *)
(* off.  One request renders the history message by message.               *)
(***************************************************************************)
EXTENDS Naturals, Sequences, FiniteSets, Functions

CONSTANTS
  RawIds,          \* tool call ids as the gateways wrote them
  Safe(_),         \* _sanitize_tool_id
  Suffixed(_, _),  \* a rewritten id and the suffix that tells it from others; 0 stands for none
  MaxSuffix,       \* BOUND: suffixes
  MaxCalls,        \* BOUND: calls of a batch
  MaxHistory       \* BOUND: messages

ASSUME RenderingAssumption ==
  /\ MaxSuffix \in Nat /\ MaxCalls \in Nat /\ MaxHistory \in Nat
  /\ \A r \in RawIds : \A m, n \in 0..MaxSuffix : Suffixed(Safe(r), m) = Suffixed(Safe(r), n) => m = n

VARIABLES
  history,     \* the messages of the conversation
  position,    \* the message rendered next; 0 when there is no request
  callsDone,   \* calls of that message rendered already
  seenIds,     \* seen_ids
  pendingMap,  \* pending_map: the ids given to the last batch
  blocks       \* merged, flat: each block with its turn, its turn's role and what it comes from

renderVars == <<position, callsDone, seenIds, pendingMap, blocks>>

-----------------------------------------------------------------------------
(* The history, as the tool loop and compaction leave it. *)

User          == [role |-> "user", calls |-> <<>>, id |-> "-"]
Assistant(cs) == [role |-> "assistant", calls |-> cs, id |-> "-"]
ToolResult(r) == [role |-> "tool", calls |-> <<>>, id |-> r]

Batches == UNION {Injection(1..n, RawIds) : n \in 0..MaxCalls}

\* Message m is the last of the model's before message k.
Behind(m, k) == m < k /\ history[m].role = "assistant" /\ \A j \in (m + 1)..(k - 1) : history[j].role # "assistant"
AsksFor(m, r) == \E c \in DOMAIN history[m].calls : history[m].calls[c] = r

\* Calls of the last batch that have no result yet.
Unanswered ==
  {r \in RawIds : \E m \in DOMAIN history :
     /\ Behind(m, Len(history) + 1) /\ AsksFor(m, r)
     /\ \A k \in (m + 1)..Len(history) : history[k].role = "tool" => history[k].id # r}

Grow(message) ==
  /\ position = 0 /\ Len(history) < MaxHistory
  /\ history' = Append(history, message) /\ UNCHANGED renderVars

Ask       == Grow(User)
CallTools == \E cs \in Batches : Grow(Assistant(cs))
Answer    == \E r \in Unanswered : Grow(ToolResult(r))
CutOff    == position = 0 /\ history # <<>> /\ history' = Tail(history) /\ UNCHANGED renderVars

-----------------------------------------------------------------------------
(* _render_messages. *)

Render(role) == position \in DOMAIN history /\ history[position].role = role
GoOn == position' = position + 1 /\ callsDone' = 0 /\ UNCHANGED history

BeginRendering ==
  /\ position = 0 /\ position' = 1
  /\ UNCHANGED <<history, callsDone, seenIds, pendingMap, blocks>>

\* A turn goes on while the role is the same.
TurnOf(role) ==
  IF blocks = <<>> THEN 1
  ELSE IF blocks[Len(blocks)].role = role THEN blocks[Len(blocks)].turn ELSE blocks[Len(blocks)].turn + 1

AddBlock(role, type, id, call) ==
  blocks' = Append(blocks, [turn |-> TurnOf(role), role |-> role, type |-> type, id |-> id,
                            message |-> position, call |-> call])
NoId == "no id"

RenderUser ==
  /\ Render("user") /\ GoOn
  /\ AddBlock("user", "text", NoId, 0)
  /\ UNCHANGED <<seenIds, pendingMap>>

\* An answer without calls.
RenderText ==
  /\ Render("assistant") /\ history[position].calls = <<>> /\ GoOn
  /\ AddBlock("assistant", "text", NoId, 0)
  /\ pendingMap' = <<>> /\ UNCHANGED seenIds

\* _assistant_blocks: the first suffix that is free in the whole conversation.
FreshId(raw, ids) ==
  Suffixed(Safe(raw), CHOOSE n \in 0..MaxSuffix :
                        /\ Suffixed(Safe(raw), n) \notin ids
                        /\ \A m \in 0..(n - 1) : Suffixed(Safe(raw), m) \in ids)

\* The next call of a batch; a batch starts a table of its own.
RenderCall ==
  /\ Render("assistant") /\ callsDone < Len(history[position].calls) /\ Cardinality(seenIds) <= MaxSuffix
  /\ LET raw == history[position].calls[callsDone + 1]
         id  == FreshId(raw, seenIds)
         map == IF callsDone = 0 THEN <<>> ELSE pendingMap
     IN /\ AddBlock("assistant", "use", id, callsDone + 1)
        /\ seenIds' = seenIds \cup {id}
        /\ pendingMap' = [r \in DOMAIN map \cup {raw} |-> IF r = raw THEN id ELSE map[r]]
  /\ IF callsDone + 1 = Len(history[position].calls) THEN GoOn
     ELSE callsDone' = callsDone + 1 /\ UNCHANGED <<history, position>>

\* validate_tool_messages: results whose call is nowhere before them go.
DeclaredBefore(n, r) == \E m \in 1..(n - 1) : AsksFor(m, r)

DropResult ==
  /\ Render("tool") /\ ~DeclaredBefore(position, history[position].id) /\ GoOn
  /\ UNCHANGED <<seenIds, pendingMap, blocks>>

\* MUTANT of ResultId: a result goes by the rewritten id.
ResultIdPlain(raw) == Suffixed(Safe(raw), 0)

\* A result names its call by the last batch's table, or by the rewritten id.
ResultId(raw) == IF raw \in DOMAIN pendingMap THEN pendingMap[raw] ELSE Suffixed(Safe(raw), 0)

RenderResult ==
  /\ Render("tool") /\ DeclaredBefore(position, history[position].id) /\ GoOn
  /\ AddBlock("user", "result", ResultId(history[position].id), 0)
  /\ UNCHANGED <<seenIds, pendingMap>>

Rendered == position = Len(history) + 1

SendRequest ==
  /\ Rendered
  /\ position' = 0 /\ callsDone' = 0 /\ seenIds' = {} /\ pendingMap' = <<>> /\ blocks' = <<>>
  /\ UNCHANGED history

RenderingInit ==
  /\ history = <<>> /\ position = 0 /\ callsDone = 0
  /\ seenIds = {} /\ pendingMap = <<>> /\ blocks = <<>>

RenderingNext ==
  \/ Ask \/ CallTools \/ Answer \/ CutOff
  \/ BeginRendering \/ RenderUser \/ RenderText \/ RenderCall \/ DropResult \/ RenderResult \/ SendRequest

-----------------------------------------------------------------------------
(* What is sent when all are rendered. *)

Ids(bs, turn, type) == {bs[b].id : b \in {c \in DOMAIN bs : bs[c].turn = turn /\ bs[c].type = type}}

Removed(block) == [block EXCEPT !.type = "text", !.id = NoId]

\* Blocks whose counterpart is missing become text: first calls, then results.
UsesAnswered(bs) ==
  [b \in DOMAIN bs |-> IF bs[b].type = "use" /\ bs[b].id \notin Ids(bs, bs[b].turn + 1, "result")
                       THEN Removed(bs[b]) ELSE bs[b]]
ResultsUsed(bs) ==
  [b \in DOMAIN bs |-> IF bs[b].type = "result" /\ bs[b].id \notin Ids(bs, bs[b].turn - 1, "use")
                       THEN Removed(bs[b]) ELSE bs[b]]

Opening == [turn |-> 0, role |-> "user", type |-> "text", id |-> NoId, message |-> 0, call |-> 0]

\* The first turn is the user's.
Sent ==
  LET bs == ResultsUsed(UsesAnswered(blocks)) IN
  IF bs = <<>> \/ bs[1].role # "user" THEN <<Opening>> \o bs ELSE bs

-----------------------------------------------------------------------------
(* Properties *)

\* A result that stands behind the batch it answers, with nothing but results and
\* the user's words between.
Paired(k) == history[k].role = "tool" /\ \E m \in 1..(k - 1) : Behind(m, k) /\ AsksFor(m, history[k].id)

\* Block r holds the result of the call in block u, and stands in the turn after it.
AnswersCall(bs, r, u) ==
  /\ bs[r].type = "result" /\ bs[u].type = "use" /\ bs[r].id = bs[u].id /\ bs[r].turn = bs[u].turn + 1
  /\ Behind(bs[u].message, bs[r].message)
  /\ history[bs[u].message].calls[bs[u].call] = history[bs[r].message].id

\* Whatever was cut or interrupted, whichever ids repeat: turns alternate and the
\* user opens, every call has an id of its own and its own result in the next turn,
\* no result is without its call, and no result that stood behind its call is lost
\* (the API refuses the whole conversation otherwise; _render_messages says that
\* "pairing stays exact").
PairingExact ==
  Rendered =>
    LET bs == Sent  Uses == {b \in DOMAIN bs : bs[b].type = "use"}  Results == {b \in DOMAIN bs : bs[b].type = "result"} IN
    /\ bs[1].role = "user"
    /\ \A b \in 2..Len(bs) : bs[b].turn = bs[b - 1].turn + (IF bs[b].role = bs[b - 1].role THEN 0 ELSE 1)
    /\ \A u \in Uses : \E r \in Results : AnswersCall(bs, r, u)
    /\ \A r \in Results : Paired(bs[r].message) /\ \E u \in Uses : AnswersCall(bs, r, u)
    /\ \A B \in {Uses, Results} : \A b, c \in B : bs[b].id = bs[c].id => b = c
    /\ \A k \in DOMAIN history : Paired(k) => \E r \in Results : bs[r].message = k
=============================================================================
