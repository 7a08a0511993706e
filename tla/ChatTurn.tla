------------------------------ MODULE ChatTurn ------------------------------
(***************************************************************************)
(* One conversational turn in a Telegram chat: telegram_chat.py asks       *)
(* chat_service.py for an answer and telegram_live.py renders it, while it *)
(* is written, into a message of the chat that is sent once and edited.    *)
(* When the answer is there the message is edited a last time and what     *)
(* does not fit follows; without such a message the transport sends all.   *)
(*                                                                         *)
(* The lane of a chat runs one turn after the other, and the provider      *)
(* calls the renderer in the answering's own thread, so its lock never waits.   *)
(* A preview shows "preview" whatever its text and tools are.  A frame     *)
(* that is throttled, or looks like the last one, is an event that does    *)
(* nothing.                                                                *)
(***************************************************************************)
EXTENDS Integers, Sequences, FiniteSets

CONSTANTS
  MaxToolRounds,    \* max_tool_rounds
  MaxFloodStrikes,  \* _MAX_FLOOD_STRIKES
  MaxParts,         \* BOUND: messages an answer may need
  MaxEvents,        \* BOUND: stream events of a turn
  MaxTurns          \* BOUND: turns in the model

ASSUME ChatAssumption ==
  /\ MaxToolRounds \in Nat /\ MaxParts \in Nat \ {0}
  /\ {MaxFloodStrikes, MaxEvents, MaxTurns} \subseteq Nat

VARIABLES
  answering,   \* the turn under way: where it is, its round, protocol, events, answer
  live,        \* the renderer
  shown,       \* the messages of the turn in the chat, in order
  request,     \* the messages of the request after those of the transcript
  transcript,  \* roles of the chat_messages rows of this chat
  failed       \* history: which renderings of this turn the messenger failed

chatVars == <<answering, live, shown, request, transcript, failed>>

NoAnswering == [pc |-> "idle", round |-> 0, protocol |-> "native", events |-> 0, parts |-> 0, notes |-> FALSE,
           streamed |-> FALSE, no |-> 0]
NoLive == [on |-> FALSE, id |-> 0, strikes |-> 0, disabled |-> FALSE]

Part(i) == [kind |-> "answer", no |-> i]
Message(kind) == [kind |-> kind, no |-> 0]
AllParts == [i \in 1..answering.parts |-> Part(i)]

ChatInit ==
  /\ answering = NoAnswering /\ live = NoLive /\ shown = <<>> /\ request = <<>>
  /\ transcript = <<>> /\ failed = {}

Stands(pc) == answering.pc = pc
GoesTo(pc) == answering' = [answering EXCEPT !.pc = pc]

-----------------------------------------------------------------------------
(* The turn begins.                                                        *)

\* A message with something the bridge cannot read (or download) is noted.
ReceiveMessage(notes) ==
  /\ Stands("idle") /\ answering.no < MaxTurns
  /\ answering' = [NoAnswering EXCEPT !.pc = "transcript", !.notes = notes, !.no = answering.no + 1]
  /\ live' = NoLive /\ shown' = <<>> /\ request' = <<>> /\ failed' = {}
  /\ UNCHANGED transcript

\* The credential may be unavailable: the turn does without a preview.
OpenRenderer(on) ==
  /\ Stands("transcript")
  /\ live' = [NoLive EXCEPT !.on = on]
  /\ GoesTo("admission")
  /\ UNCHANGED <<shown, request, transcript, failed>>

\* Permission, rate limit, the probe for native tools.
Admit(protocol) ==
  /\ Stands("admission")
  /\ answering' = [answering EXCEPT !.pc = "round", !.protocol = protocol]
  /\ request' = <<"user">>
  /\ UNCHANGED <<live, shown, transcript, failed>>

\* The transcript, the gate or the provider raises.
Fails ==
  /\ answering.pc \in {"transcript", "admission", "round"}
  /\ GoesTo("apology")
  /\ UNCHANGED <<live, shown, request, transcript, failed>>

-----------------------------------------------------------------------------
(* The preview.                                                            *)

\* The header goes out once; without a readable answer nobody knows its id.
Opens(to) ==
  \/ shown' = Append(shown, Message("preview")) /\ to = [live EXCEPT !.id = Len(shown) + 1] /\ UNCHANGED failed
  \/ UNCHANGED <<shown, failed>> /\ to = live
  \/ shown' = Append(shown, Message("preview")) /\ to = live /\ failed' = failed \cup {"preview unanswered"}

\* The preview is edited, refused, or refused for flooding the chat.
Edits(from) ==
  \/ live' = [from EXCEPT !.strikes = 0]
  \/ live' = from
  \/ live' = [from EXCEPT !.strikes = @ + 1, !.disabled = from.strikes + 1 >= MaxFloodStrikes]

\* A piece of text or a tool's line, between two requests or while one streams.
StreamEvent ==
  /\ Stands("round") /\ live.on /\ answering.events < MaxEvents
  /\ answering' = [answering EXCEPT !.events = @ + 1]
  /\ IF live.disabled THEN UNCHANGED <<live, shown, failed>>
     ELSE IF live.id # 0 THEN Edits(live) /\ UNCHANGED <<shown, failed>>
     ELSE \E to \in {live, [live EXCEPT !.id = Len(shown) + 1]} :
            Opens(to) /\ (IF to.id = 0 THEN live' = to ELSE Edits(to))
  /\ UNCHANGED <<request, transcript>>

-----------------------------------------------------------------------------
(* The rounds of complete_stream.                                          *)

FinalRound == answering.round = MaxToolRounds

\* A call that is denied, cannot be parsed or fails has its result as well.
ToolResults(role, n) == [i \in 1..n |-> role]

NextRound(messages) ==
  /\ Stands("round") /\ ~FinalRound
  /\ request' = request \o <<"assistant">> \o messages
  /\ answering' = [answering EXCEPT !.round = @ + 1]
  /\ UNCHANGED <<live, shown, transcript, failed>>

UseTools(n) == answering.protocol = "native" /\ NextRound(ToolResults("tool", n))

\* A marker in the text calls one tool, and its result is the user's next message.
UseTextTool == answering.protocol = "text" /\ NextRound(ToolResults("user", 1))

\* An answer without tool calls, or the last round's, calls or not; an empty one
\* is a text that says so.
AnswerTurn(parts) ==
  /\ Stands("round")
  /\ answering' = [answering EXCEPT !.pc = IF live.on THEN "finalize" ELSE "append user", !.parts = parts]
  /\ UNCHANGED <<live, shown, request, transcript, failed>>

-----------------------------------------------------------------------------
(* finalize.                                                               *)

\* The preview becomes the first part, and the rest follows.
FinalEdit(rest) ==
  /\ shown' = [shown EXCEPT ![live.id] = Part(1)] \o rest
  /\ answering' = [answering EXCEPT !.pc = "append user", !.streamed = TRUE]

\* Everything gets through; or some of what follows does not; or the edit fails,
\* and nothing follows.
Finalize ==
  /\ Stands("finalize") /\ live.id # 0
  /\ \/ FinalEdit(Tail(AllParts)) /\ UNCHANGED failed
     \/ /\ \E missing \in SUBSET (2..answering.parts) \ {{}} :
             FinalEdit(SelectSeq(Tail(AllParts), LAMBDA m : m.no \notin missing))
        /\ failed' = failed \cup {"final edit"}
     \/ GoesTo("append user") /\ UNCHANGED shown /\ failed' = failed \cup {"final edit"}
  /\ UNCHANGED <<live, request, transcript>>

\* MUTANT of NeverOpened: the answer is taken for delivered.
OpenedAnyway ==
  /\ Stands("finalize") /\ live.id = 0
  /\ answering' = [answering EXCEPT !.pc = "append user", !.streamed = TRUE]
  /\ UNCHANGED <<live, shown, request, transcript, failed>>

NeverOpened ==
  /\ Stands("finalize") /\ live.id = 0
  /\ GoesTo("append user")
  /\ UNCHANGED <<live, shown, request, transcript, failed>>

\* The preview shows the apology, and then it is sent as well.
Apologise ==
  /\ Stands("apology")
  /\ GoesTo("apologise")
  /\ \/ live.id = 0 /\ UNCHANGED <<shown, failed>>
     \/ live.id # 0 /\ shown' = [shown EXCEPT ![live.id] = Message("apology")] /\ UNCHANGED failed
     \/ live.id # 0 /\ UNCHANGED shown /\ failed' = failed \cup {"final edit"}
  /\ UNCHANGED <<live, request, transcript>>

-----------------------------------------------------------------------------
(* What is kept, and what is sent for good.                                *)

\* Two transactions; the second is not tried when the first has failed.
AppendHistory(here, role, next) ==
  /\ Stands(here)
  /\ \/ transcript' = Append(transcript, role) /\ GoesTo(next)
     \/ UNCHANGED transcript /\ GoesTo("notes")
  /\ UNCHANGED <<live, shown, request, failed>>

\* The transport sends the parts one by one; a failure is logged and forgotten.
Sends(messages) ==
  \E sent \in 0..Len(messages) :
    /\ shown' = shown \o SubSeq(messages, 1, sent)
    /\ failed' = IF sent = Len(messages) THEN failed ELSE failed \cup {"durable send"}

SendApology ==
  /\ Stands("apologise")
  /\ Sends(<<Message("apology")>>) /\ GoesTo("idle")
  /\ UNCHANGED <<live, request, transcript>>

SendNotes ==
  /\ Stands("notes")
  /\ IF answering.notes THEN Sends(<<Message("notes")>>) ELSE UNCHANGED <<shown, failed>>
  /\ GoesTo(IF answering.streamed THEN "idle" ELSE "send")
  /\ UNCHANGED <<live, request, transcript>>

SendAnswer ==
  /\ Stands("send")
  /\ Sends(AllParts) /\ GoesTo("idle")
  /\ UNCHANGED <<live, request, transcript>>

\* The update was confirmed and its claim stays: nobody takes the turn up again.
ProcessDies ==
  /\ answering.pc # "idle"
  /\ GoesTo("idle")
  /\ failed' = failed \cup {"crash"}
  /\ UNCHANGED <<live, shown, request, transcript>>

ChatNext ==
  \/ \E b \in BOOLEAN : ReceiveMessage(b) \/ OpenRenderer(b)
  \/ \E p \in {"native", "text"} : Admit(p)
  \/ Fails \/ StreamEvent
  \/ \E n \in 1..2 : UseTools(n)
  \/ UseTextTool
  \/ \E n \in 1..MaxParts : AnswerTurn(n)
  \/ Finalize \/ NeverOpened \/ Apologise
  \/ AppendHistory("append user", "user", "append assistant")
  \/ AppendHistory("append assistant", "assistant", "notes")
  \/ SendApology \/ SendNotes \/ SendAnswer
  \/ ProcessDies

-----------------------------------------------------------------------------
Count(message) == Cardinality({i \in DOMAIN shown : shown[i] = message})

\* "The live bubble is presentation state that converges to the final content"
\* (telegram_live.py:103): however the preview fared, opened or refused, edited
\* or flooded out, a turn that ended shows its answer whole and once, or an
\* apology, and no preview; unless the process died, or the messenger failed a
\* final rendering or left it open whether a preview had been sent.
Converges ==
  answering.pc = "idle" /\ answering.no > 0 /\ failed = {} =>
    /\ Count(Message("preview")) = 0
    /\ \/ answering.parts > 0 /\ \A i \in 1..answering.parts : Count(Part(i)) = 1
       \/ answering.parts = 0 /\ Count(Message("apology")) > 0

=============================================================================
