--------------------------- MODULE ProviderStream ---------------------------
(***************************************************************************)
(* One streamed answer (app/provider_adapter.py): the frames a gateway     *)
(* sends, what the adapter and ProviderService's collector keep of each as *)
(* it arrives, and the class of the error when the stream ends too early.  *)
(* "openai" and "anthropic" are streams read as they arrive; "sse" is a    *)
(* request without streaming that was answered with frames all the same,   *)
(* which are read as one body.                                             *)
(***************************************************************************)
EXTENDS Naturals, Sequences

CONSTANTS
  Indexes,     \* positions of tool calls in the answer
  Pieces,      \* fragments the arguments of a call come in
  MaxTexts,    \* BOUND: frames beside the calls
  Blank        \* a field that a frame leaves out

ASSUME StreamAssumption ==
  /\ Indexes \subseteq Nat /\ Pieces \in Nat \ {0} /\ MaxTexts \in Nat
  /\ Blank \notin Nat

Wires == {"openai", "anthropic", "sse"}

VARIABLES
  wire,         \* how this answer travels
  indexed,      \* whether fragments of a call carry its index, or always its id
  arrived,      \* the kinds of frames that have arrived
  texts,        \* how many beside the calls
  named,        \* calls whose name the gateway has sent
  opened,       \* calls whose id it has sent
  piecesSent,   \* fragments it has sent of the arguments of each call
  idAt,         \* tool_call_ids_by_index
  pendingName,  \* pending_name of the collector
  built,        \* name and arguments by id (call_names, call_arguments) or by index (blocks_by_index, tool_calls_by_index)
  outcome       \* "open", or how the call of the adapter ended

gatewayVars == <<arrived, texts, named, opened, piecesSent>>
readerVars == <<idAt, pendingName, built>>
streamVars == <<wire, indexed, gatewayVars, readerVars, outcome>>

-----------------------------------------------------------------------------
(* What the gateway sends.  The id and the name of call i are written i.   *)

Saw(kind) == kind \in arrived

NamedOnly(i) == i \in named \ opened
Whole(i) == piecesSent[i] = Pieces

CallFrame(i, id, name, piece) ==
  [call |-> i, index |-> IF indexed \/ wire = "anthropic" THEN i ELSE Blank, id |-> id, name |-> name, piece |-> piece]

\* An answer is open for a frame until its end, and an id follows the name sent
\* before it.
Sends(kind) ==
  /\ outcome = "open"
  /\ ~Saw("stop") /\ (wire # "anthropic" => ~Saw("finish") /\ ~Saw("length"))
  /\ Saw("finish") \/ Saw("length") => kind = "stop"
  /\ arrived' = arrived \cup {kind}
  /\ UNCHANGED <<wire, indexed, outcome>>

\* Calls are opened in their order; the fragments of all that are open may mix.
Turn(i) == (\A j \in Indexes : j < i => j \in opened) /\ (\A j \in Indexes : NamedOnly(j) => j = i)

\* The name on its own, before the id; Anthropic's blocks have both.
SendName(i) ==
  /\ Sends("call") /\ Turn(i) /\ wire # "anthropic" /\ i \notin named
  /\ named' = named \cup {i}
  /\ UNCHANGED <<texts, opened, piecesSent>>

\* The id, with the name unless that was sent.
SendId(i) ==
  /\ Sends("call") /\ Turn(i) /\ i \notin opened
  /\ named' = named \cup {i} /\ opened' = opened \cup {i}
  /\ UNCHANGED <<texts, piecesSent>>

SendPiece(i) ==
  /\ Sends("call") /\ Turn(i) /\ i \in opened /\ piecesSent[i] < Pieces
  /\ piecesSent' = [piecesSent EXCEPT ![i] = @ + 1]
  /\ UNCHANGED <<texts, named, opened>>

\* A frame beside the calls: a finish says that the calls are whole, a length that
\* the answer was cut off at max_tokens.
SendOther(kind) ==
  /\ Sends(kind) /\ named \subseteq opened
  /\ kind \in {"text", "usage", "role"} => texts < MaxTexts
  /\ kind = "finish" => \A i \in opened : Whole(i)
  /\ kind = "stop" => wire = "anthropic"
  /\ texts' = IF kind \in {"text", "usage", "role"} THEN texts + 1 ELSE texts
  /\ UNCHANGED <<named, opened, piecesSent>>

-----------------------------------------------------------------------------
(* What is made of it. *)

NoCall == [name |-> Blank, pieces |-> <<>>]
EntryOf(calls, k) == IF k \in DOMAIN calls THEN calls[k] ELSE NoCall
Put(calls, k, entry) == [j \in DOMAIN calls \cup {k} |-> IF j = k THEN entry ELSE calls[j]]

\* The fragment of a frame, behind those that came before.
Fragments(calls, k, f) ==
  IF f.piece = Blank THEN EntryOf(calls, k).pieces ELSE Append(EntryOf(calls, k).pieces, f.piece)

\* _openai_stream_events: the id of a fragment, by its index when it carries none.
IdByIndex(f) ==
  IF f.id # Blank \/ f.index = Blank THEN f.id ELSE IF f.index \in DOMAIN idAt THEN idAt[f.index] ELSE Blank

\* MUTANT of PendingAfter: a name that waited stays for every call that follows.
PendingKept(f, id) == IF id # Blank \/ f.name = Blank THEN pendingName ELSE f.name

\* A name without an id waits for the next id.
PendingAfter(f, id) == IF id # Blank THEN Blank ELSE IF f.name = Blank THEN pendingName ELSE f.name

EffectiveName(f, id) ==
  IF f.name # Blank THEN f.name ELSE IF pendingName # Blank THEN pendingName ELSE EntryOf(built, id).name

\* _collect_stream: names and arguments by id.
Collect(f) ==
  LET id == IdByIndex(f) IN
  /\ idAt' = IF f.index # Blank /\ f.id # Blank THEN Put(idAt, f.index, f.id) ELSE idAt
  /\ pendingName' = PendingAfter(f, id)
  /\ built' = IF id = Blank THEN built
              ELSE Put(built, id, [name |-> EffectiveName(f, id), pieces |-> Fragments(built, id, f)])

\* _anthropic_stream_events: a block for each index, started and then filled.
FillBlock(f) ==
  /\ built' = Put(built, f.index, IF f.id # Blank /\ f.piece = Blank THEN [name |-> f.name, pieces |-> <<>>]
                                  ELSE [EntryOf(built, f.index) EXCEPT !.pieces = Fragments(built, f.index, f)])
  /\ UNCHANGED <<idAt, pendingName>>

\* _aggregate_sse_body: by index, the first name and every piece; no index counts as 0.
Aggregate(f) ==
  LET position == IF f.index = Blank THEN 0 ELSE f.index
      had == EntryOf(built, position)
  IN /\ built' = Put(built, position, [name |-> IF had.name = Blank THEN f.name ELSE had.name,
                                       pieces |-> Fragments(built, position, f)])
     /\ UNCHANGED <<idAt, pendingName>>

Read(f) ==
  \/ wire = "openai" /\ Collect(f)
  \/ wire = "anthropic" /\ FillBlock(f)
  \/ wire = "sse" /\ Aggregate(f)

DeliverName(i)  == SendName(i) /\ Read(CallFrame(i, Blank, i, Blank))
DeliverId(i)    == SendId(i) /\ Read(CallFrame(i, i, IF i \in named THEN Blank ELSE i, Blank))
DeliverPiece(i) == SendPiece(i) /\ Read(CallFrame(i, IF indexed THEN Blank ELSE i, Blank, piecesSent[i] + 1))
DeliverOther(kind) == SendOther(kind) /\ UNCHANGED readerVars

\* The calls of the answer: of a body, those with a name.
AnswerCalls ==
  IF wire # "sse" THEN built ELSE [k \in {j \in DOMAIN built : built[j].name # Blank} |-> built[k]]

-----------------------------------------------------------------------------
(* How it ends. *)

EndStream(result) == outcome = "open" /\ outcome' = result /\ UNCHANGED <<wire, indexed, gatewayVars, readerVars>>

\* Events the caller saw: Anthropic's calls come only at the end.
HandedOn ==
  wire # "sse" /\ arrived \cap ({"text", "usage", "finish", "length"} \cup (IF wire = "openai" THEN {"call"} ELSE {})) # {}

\* Arguments that do not parse; none at all count as an empty object.
Unparseable(i) == ~Whole(i) /\ piecesSent[i] > 0

\* The last frame is "[DONE]", or the body simply ends.
MarkerSeen == IF wire = "openai" THEN Saw("finish") \/ Saw("length") ELSE Saw("stop")

CloseOpenAI ==
  /\ wire = "openai"
  /\ \/ MarkerSeen /\ EndStream("accepted")
     \/ ~MarkerSeen /\ arrived # {} /\ EndStream("unknown")
     \/ ~MarkerSeen /\ arrived = {} /\ EndStream("retryable")     \* no frame before the end
     \/ ~MarkerSeen /\ arrived = {} /\ EndStream("unknown")       \* "[DONE]" at once

CloseAnthropic ==
  /\ wire = "anthropic"
  /\ EndStream(CASE arrived = {} -> "retryable"
            [] arrived # {} /\ ~MarkerSeen -> "unknown"
            [] MarkerSeen /\ opened # {} /\ ~Saw("finish") /\ ~Saw("length") -> "unknown"
            [] MarkerSeen /\ \E i \in opened : Unparseable(i) -> "unknown"
            [] OTHER -> "accepted")

\* The body of a request that did not ask for a stream is taken as it is.
CloseBody == wire = "sse" /\ EndStream("accepted")

\* The transport breaks: retryable as long as no event was handed on.
Break ==
  \/ wire = "sse" /\ arrived # {} /\ EndStream("unknown")
  \/ wire # "sse" /\ ~HandedOn /\ EndStream("retryable")
  \/ wire # "sse" /\ HandedOn /\ EndStream("unknown")

\* A frame that is no JSON; the aggregation of a body skips it.
Garbage == wire # "sse" /\ EndStream("garbled")

\* The event of the caller, looked at between frames; or its lease is gone.
CancelStream == wire # "sse" /\ arrived # {} /\ EndStream("cancelled")

StreamInit ==
  /\ wire \in Wires /\ indexed \in BOOLEAN /\ outcome = "open"
  /\ arrived = {} /\ texts = 0 /\ named = {} /\ opened = {} /\ piecesSent = [i \in Indexes |-> 0]
  /\ idAt = <<>> /\ pendingName = Blank /\ built = <<>>

StreamNext ==
  \/ \E i \in Indexes : DeliverName(i) \/ DeliverId(i) \/ DeliverPiece(i)
  \/ \E kind \in {"text", "role", "usage", "finish", "length", "stop"} : DeliverOther(kind)
  \/ CloseOpenAI \/ CloseAnthropic \/ CloseBody \/ Break \/ Garbage \/ CancelStream

-----------------------------------------------------------------------------
(* Properties *)

\* All of call i, under its own name and with its arguments in order.
Complete(call, i) == call.name = i /\ call.pieces = [n \in 1..Pieces |-> n]

\* However a stream is cut and however its calls interleave: an answer that is
\* accepted has every call the gateway opened under its own name and with all of
\* its arguments in order, unless the answer itself says it was cut at its length;
\* and a failure that is retried has handed nothing on.
WholeOrNothing ==
  /\ outcome = "accepted" /\ wire # "sse" =>
       \/ Saw("length")
       \/ DOMAIN AnswerCalls = opened /\ \A i \in opened : Complete(AnswerCalls[i], i)
  /\ outcome = "accepted" /\ wire = "sse" /\ indexed /\ Saw("finish") =>
       DOMAIN AnswerCalls = opened /\ \A i \in opened : Complete(AnswerCalls[i], i)
  /\ outcome = "retryable" => ~HandedOn
=============================================================================
