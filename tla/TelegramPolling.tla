-------------------------- MODULE TelegramPolling --------------------------
(***************************************************************************)
(* What a person writes or presses in Telegram on its way into the         *)
(* program: TelegramAdapter.poll_once of src/zero/adapters/telegram.py,    *)
(* the cursor store and the per-chat lanes of background_workers.py, and   *)
(* the durable claim and the log of one event in interface_service.py.     *)
(*                                                                         *)
(* One poller fetches batches and keeps its offset in memory.  It merges   *)
(* texts, hands them to the lane of their chat and runs the buttons        *)
(* itself.  The process may die between any two steps; Telegram then       *)
(* delivers again what no offset has confirmed.                            *)
(***************************************************************************)
EXTENDS Integers, Sequences, SequencesExt

CONSTANTS
  Chats,       \* chats that write to the bot
  Poller,      \* the polling thread, beside one lane per chat
  MaxLanes,    \* max_workers of _ChatSerialDispatcher
  MaxQueue,    \* max_queue of a lane
  MaxUpdates,  \* BOUND: updates
  MaxFaults    \* BOUND: crashes and exceptions

ASSUME PollingLimits ==
  /\ Poller \notin Chats
  /\ MaxLanes \in Nat \ {0} /\ MaxQueue \in Nat \ {0}
  /\ MaxUpdates \in Nat /\ MaxFaults \in Nat

VARIABLES
  updates,    \* what has been sent to the bot; an update's id is its place
  confirmed,  \* Telegram delivers from this id on
  poller,     \* the batch under way and the offset kept in memory
  lane,       \* per chat, whether its thread lives, and its queue
  turn,       \* the event each thread is processing, and how far
  claim,      \* interface_event_claims, by event id
  logged,     \* interface_event_log
  heard,      \* the updates in the conversation, as they got there
  faults,     \* crashes and exceptions so far
  answers,    \* HISTORY: how often each event was answered
  broken      \* HISTORY: events whose turn raised or outlived its lease

memory == <<poller, lane, turn>>
stored == <<claim, logged, heard>>
pollVars == <<updates, confirmed, memory, stored, faults, answers, broken>>

-----------------------------------------------------------------------------
Ids == 1..MaxUpdates
Threads == Chats \cup {Poller}
NoTurn == [pc |-> "idle", event |-> <<>>, gen |-> 0]
Asleep == [pc |-> "idle", cursor |-> 0, todo |-> <<>>, upto |-> 0]
NoLane == [live |-> FALSE, queue |-> <<>>]

PollInit ==
  /\ updates = <<>> /\ confirmed = 1
  /\ poller = Asleep
  /\ lane = [c \in Chats |-> NoLane]
  /\ turn = [t \in Threads |-> NoTurn]
  /\ claim = [i \in Ids |-> [state |-> "none", gen |-> 0, lapsed |-> FALSE]]
  /\ logged = {} /\ heard = <<>> /\ faults = 0
  /\ answers = [i \in Ids |-> 0] /\ broken = {}

\* A person writes; near: a text within two minutes of one before it.
Write(c, kind, near) ==
  /\ Len(updates) < MaxUpdates
  /\ near => kind = "text" /\ \E i \in DOMAIN updates : updates[i].chat = c /\ updates[i].kind = "text"
  /\ updates' = Append(updates, [chat |-> c, kind |-> kind, near |-> near])
  /\ UNCHANGED <<confirmed, memory, stored, faults, answers, broken>>

-----------------------------------------------------------------------------
(* poll_once. *)

\* A text joins the last one of its chat in the batch unless a command or a
\* button of the chat, or two minutes, lie between.
Joins(batch, u) ==
  /\ updates[u].kind = "text" /\ updates[u].near
  /\ LET same == {v \in batch : v < u /\ updates[v].chat = updates[u].chat}
     IN same # {} /\ updates[CHOOSE v \in same : \A w \in same : w <= v].kind = "text"

Heads(batch) == {u \in batch : ~Joins(batch, u)}

\* The event has the id of its first update.
Event(batch, h) ==
  [id |-> h, chat |-> updates[h].chat, kind |-> updates[h].kind,
   parts |-> {u \in batch : /\ updates[u].chat = updates[h].chat /\ u >= h
                            /\ \A v \in h + 1..u : updates[v].chat = updates[h].chat => Joins(batch, v)}]

\* A text waits in its buffer for the next update of its chat that does not join
\* it, or for the end of the batch; the others are dispatched when they are met.
Dispatched(batch, h) ==
  LET next == {v \in Heads(batch) : v > h /\ updates[v].chat = updates[h].chat}
  IN IF updates[h].kind # "text" THEN h
     ELSE IF next = {} THEN MaxUpdates + 1
     ELSE CHOOSE v \in next : \A w \in next : v <= w

Events(batch) ==
  LET before(h, k) ==
        \/ Dispatched(batch, h) < Dispatched(batch, k)
        \/ Dispatched(batch, h) = Dispatched(batch, k) /\ h < k
      order == SetToSortSeq(Heads(batch), before)
  IN [i \in DOMAIN order |-> Event(batch, order[i])]

\* getUpdates from the offset in memory confirms what is below it; the answer may
\* be lost.
GetUpdates ==
  LET offset == IF poller.cursor = 0 THEN confirmed ELSE poller.cursor
      batch == offset..Len(updates)
  IN /\ poller.pc = "idle"
     /\ confirmed' = IF offset > confirmed THEN offset ELSE confirmed
     /\ \/ UNCHANGED poller
        \/ /\ batch # {}
           /\ poller' = [poller EXCEPT !.pc = "batch", !.todo = Events(batch), !.upto = Len(updates)]
     /\ UNCHANGED <<updates, lane, turn, stored, faults, answers, broken>>

Live == {c \in Chats : lane[c].live}

Done(pc) == poller' = [poller EXCEPT !.pc = pc, !.todo = Tail(@)]

\* submit_for_chat looks the lane up, or starts one, and lets go of the lock; a
\* job that finds no lane free is dropped.
FindLane ==
  /\ poller.pc = "batch" /\ poller.todo # <<>> /\ Head(poller.todo).kind # "button"
  /\ LET c == Head(poller.todo).chat IN
       IF lane[c].live \/ Cardinality(Live) < MaxLanes
         THEN poller' = [poller EXCEPT !.pc = "put"] /\ lane' = [lane EXCEPT ![c].live = TRUE]
         ELSE Done("batch") /\ UNCHANGED lane
  /\ UNCHANGED <<updates, confirmed, turn, stored, faults, answers, broken>>

\* The queue that was looked up may be full, and then it waits a while and gives
\* up; or its thread may have retired, and nobody reads it.
PutJob ==
  LET e == Head(poller.todo) IN
  /\ poller.pc = "put"
  /\ \/ /\ Len(lane[e.chat].queue) < MaxQueue
        /\ Done("batch")
        /\ lane' = IF lane[e.chat].live
                     THEN [lane EXCEPT ![e.chat].queue = Append(@, e)] ELSE lane
     \/ /\ Len(lane[e.chat].queue) >= MaxQueue
        /\ Done("batch") \/ poller' = [poller EXCEPT !.pc = "batch"]
        /\ UNCHANGED lane
  /\ UNCHANGED <<updates, confirmed, turn, stored, faults, answers, broken>>

Begin(t, e) == turn' = [turn EXCEPT ![t] = [pc |-> "look", event |-> e, gen |-> 0]]

PressButton ==
  /\ poller.pc = "batch" /\ poller.todo # <<>> /\ Head(poller.todo).kind = "button"
  /\ poller' = [poller EXCEPT !.pc = "inline"]
  /\ Begin(Poller, Head(poller.todo))
  /\ UNCHANGED <<updates, confirmed, lane, stored, faults, answers, broken>>

NextOffset(upto) == upto + 1

EndBatch ==
  /\ poller.pc = "batch" /\ poller.todo = <<>>
  /\ poller' = [Asleep EXCEPT !.cursor = NextOffset(poller.upto)]
  /\ UNCHANGED <<updates, confirmed, lane, turn, stored, faults, answers, broken>>

-----------------------------------------------------------------------------
(* The lanes. *)

TakeJob(c) ==
  /\ lane[c].queue # <<>> /\ turn[c].pc = "idle"
  /\ lane' = [lane EXCEPT ![c].queue = Tail(@)]
  /\ Begin(c, Head(lane[c].queue))
  /\ UNCHANGED <<updates, confirmed, poller, stored, faults, answers, broken>>

Retire(c) ==
  /\ lane[c].live /\ lane[c].queue = <<>> /\ turn[c].pc = "idle"
  /\ lane' = [lane EXCEPT ![c].live = FALSE]
  /\ UNCHANGED <<updates, confirmed, poller, turn, stored, faults, answers, broken>>

-----------------------------------------------------------------------------
(* process_inbound_event. *)

At(t, pc) == turn[t].pc = pc
Go(t, pc) == turn' = [turn EXCEPT ![t].pc = pc] /\ UNCHANGED poller

\* Back to the lane, or on with the batch.
Return(t) ==
  /\ turn' = [turn EXCEPT ![t] = NoTurn]
  /\ IF t = Poller THEN Done("batch") ELSE UNCHANGED poller

Look(t) ==
  /\ At(t, "look")
  /\ IF turn[t].event.id \in logged THEN Return(t) ELSE Go(t, "claim")
  /\ UNCHANGED <<updates, confirmed, lane, stored, faults, answers, broken>>

\* MUTANT of Free: a claim under way is taken from whoever has it.
FreeIfNotDone(k) == k.state # "succeeded"

Free(k) == k.state \in {"none", "failed"} \/ (k.state = "processing" /\ k.lapsed)

\* An event somebody is processing is ignored: "duplicate or in-flight".
ClaimEvent(t) ==
  LET i == turn[t].event.id IN
  /\ At(t, "claim")
  /\ IF Free(claim[i])
       THEN /\ claim' = [claim EXCEPT ![i] = [state |-> "processing", gen |-> @.gen + 1, lapsed |-> FALSE]]
            /\ turn' = [turn EXCEPT ![t] = [@ EXCEPT !.pc = "gates", !.gen = claim[i].gen + 1]]
            /\ UNCHANGED poller
       ELSE Return(t) /\ UNCHANGED claim
  /\ UNCHANGED <<updates, confirmed, lane, logged, heard, faults, answers, broken>>

\* Logged by now; refused by binding, identity, policy or membership, and
\* logged; or let through.
Gates(t) ==
  LET e == turn[t].event IN
  /\ At(t, "gates")
  /\ IF e.id \in logged THEN Return(t)
     ELSE \/ Go(t, "log")
          \/ e.kind = "text" /\ Go(t, "ingest")
          \/ e.kind = "button" /\ Go(t, "answer")
          \/ e.kind = "command" /\ Go(t, "log then answer")
  /\ UNCHANGED <<updates, confirmed, lane, stored, faults, answers, broken>>

\* The conversation takes an event once; a redelivery resumes from what it took.
Ingest(t) ==
  LET e == turn[t].event IN
  /\ At(t, "ingest")
  /\ \/ /\ heard' = IF Contains(heard, e.id) THEN heard
                    ELSE heard \o SetToSortSeq(e.parts, <)
        /\ Go(t, "answer")
        /\ UNCHANGED <<faults, broken>>
     \/ /\ faults < MaxFaults
        /\ faults' = faults + 1 /\ broken' = broken \cup {e.id}
        /\ Go(t, "log the error")
        /\ UNCHANGED heard
  /\ UNCHANGED <<updates, confirmed, lane, claim, logged, answers>>

\* The planner, its card or the conversation's reply; a decision; a command's reply.
Answer(t) ==
  /\ turn[t].pc \in {"answer", "answer last"}
  /\ answers' = [answers EXCEPT ![turn[t].event.id] = @ + 1]
  /\ IF At(t, "answer") THEN Go(t, "log") ELSE Return(t)
  /\ UNCHANGED <<updates, confirmed, lane, stored, faults, broken>>

LogEvent(t) ==
  /\ turn[t].pc \in {"log", "log then answer", "log the error"}
  /\ logged' = logged \cup {turn[t].event.id}
  /\ Go(t, CASE At(t, "log") -> "succeeded" [] At(t, "log then answer") -> "answer last"
             [] At(t, "log the error") -> "failed")
  /\ UNCHANGED <<updates, confirmed, lane, claim, heard, faults, answers, broken>>

\* complete_event_claim and fail_event_claim: under the token of the claim.
Close(i, gen, state) ==
  claim' = IF claim[i].state = "processing" /\ claim[i].gen = gen
             THEN [claim EXCEPT ![i].state = state] ELSE claim

CloseClaim(t) ==
  /\ turn[t].pc \in {"succeeded", "failed"}
  /\ Close(turn[t].event.id, turn[t].gen, turn[t].pc)
  /\ Return(t)
  /\ UNCHANGED <<updates, confirmed, lane, logged, heard, faults, answers, broken>>

\* An exception: the claim fails; a lane goes on to its next job, the poller gives
\* the batch up and will fetch it again.
Raise(t) ==
  /\ turn[t].pc \in {"gates", "ingest", "answer", "log"}
  /\ faults < MaxFaults
  /\ faults' = faults + 1 /\ broken' = broken \cup {turn[t].event.id}
  /\ Close(turn[t].event.id, turn[t].gen, "failed")
  /\ turn' = [turn EXCEPT ![t] = NoTurn]
  /\ poller' = IF t = Poller THEN [Asleep EXCEPT !.cursor = poller.cursor] ELSE poller
  /\ UNCHANGED <<updates, confirmed, lane, logged, heard, answers>>

-----------------------------------------------------------------------------
Lapse(i) ==
  /\ claim[i].state = "processing" /\ ~claim[i].lapsed
  /\ claim' = [claim EXCEPT ![i].lapsed = TRUE]
  /\ broken' = broken \cup {i}
  /\ UNCHANGED <<updates, confirmed, memory, logged, heard, faults, answers>>

\* The process ends and starts again, without its lanes and its offset.
Crash ==
  /\ faults < MaxFaults
  /\ faults' = faults + 1
  /\ poller' = Asleep
  /\ lane' = [c \in Chats |-> NoLane]
  /\ turn' = [t \in Threads |-> NoTurn]
  /\ UNCHANGED <<updates, confirmed, stored, answers, broken>>

PollerStep == GetUpdates \/ FindLane \/ PutJob \/ PressButton \/ EndBatch
TurnStep(t) ==
  \/ Look(t) \/ ClaimEvent(t) \/ Gates(t) \/ Ingest(t) \/ Answer(t) \/ LogEvent(t) \/ CloseClaim(t)

PollNext ==
  \/ \E c \in Chats, kind \in {"text", "command", "button"}, near \in BOOLEAN : Write(c, kind, near)
  \/ PollerStep
  \/ \E c \in Chats : TakeJob(c) \/ Retire(c)
  \/ \E t \in Threads : TurnStep(t) \/ Raise(t)
  \/ \E i \in Ids : Lapse(i)
  \/ Crash

-----------------------------------------------------------------------------
\* However often Telegram delivers an event -- the process died before it
\* confirmed, a batch was given up for a button that raised -- it is answered
\* again only if its turn raised or outlived its lease.
AnsweredOnce == \A i \in Ids : answers[i] > 1 => i \in broken

\* "so nothing is silently lost" (adapters/telegram.py:1005), of what a person
\* wrote: once Telegram has forgotten it, a thread has it or will, it is in the
\* conversation, or its event is in the log.
InHand(u) ==
  \/ \E c \in Chats : \E i \in DOMAIN lane[c].queue : u \in lane[c].queue[i].parts
  \/ \E t \in Threads : turn[t].pc # "idle" /\ u \in turn[t].event.parts
  \/ poller.pc # "idle"
NothingLost ==
  \A u \in DOMAIN updates :
    updates[u].kind = "text" /\ u < confirmed => InHand(u) \/ Contains(heard, u) \/ u \in logged
=============================================================================
