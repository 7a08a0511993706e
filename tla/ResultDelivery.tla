--------------------------- MODULE ResultDelivery ---------------------------
(***************************************************************************)
(* The queue of execution results on their way to chats:                   *)
(* src/zero/app/result_delivery_service.py, its rows in                    *)
(* interface_repository.py, and the one attempt to send a message of       *)
(* interface_transport_service.py.                                         *)
(*                                                                         *)
(* Every scheduler tick queues the results of the executions that are over *)
(* and then drains one row; the delivery loop drains beside it, each in a  *)
(* process that may die.  A long result is several messages.  Whether a    *)
(* binding is switched on and its credential resolves is left open         *)
(* whenever the code asks.                                                 *)
(***************************************************************************)
EXTENDS Integers, Sequences, FiniteSets

CONSTANTS
  Results,      \* the results to deliver: an execution that is over, a binding
  Drains,       \* the threads that drain: the tick's, the delivery loop's
  MaxAttempts,  \* max_attempts of drain_once
  Chunks,       \* messages that one result takes
  MaxCrashes    \* BOUND: crashes

ASSUME DeliveryLimits ==
  /\ MaxAttempts \in Nat \ {0} /\ Chunks \in Nat \ {0} /\ MaxCrashes \in Nat

VARIABLES
  rows,        \* result_deliveries in the order of their creation
  drain,       \* what each thread is sending
  crashes,     \* crashes so far
  unanswered,  \* HISTORY: rows with a request that got no answer
  landed       \* HISTORY: per row, the messages that reached the chat

deliveryVars == <<rows, drain, crashes, unanswered, landed>>
history == <<unanswered, landed>>

-----------------------------------------------------------------------------
NotSending == [pc |-> "idle", row |-> 0, try |-> 0, chunk |-> 0]

\* A claim token is the number of the attempt it was made for; lapsed stands for
\* lease_expires_at against the clock.
NewRow(r) ==
  [result |-> r, state |-> "pending", tries |-> 0, lapsed |-> FALSE]

DeliveryInit ==
  /\ rows = <<>>
  /\ drain = [w \in Drains |-> NotSending]
  /\ crashes = 0 /\ unanswered = {} /\ landed = {}

Queued == {rows[i].result : i \in DOMAIN rows}

\* A tick queues the result of every execution that is over for every binding
\* that is switched on, each time anew: the key admits one row.
EnqueueExecutionResult(r) ==
  /\ r \notin Queued
  /\ rows' = Append(rows, NewRow(r))
  /\ UNCHANGED <<drain, crashes, history>>

-----------------------------------------------------------------------------
(* drain_once. *)

\* MUTANT of LapsedTo: a row whose sender is gone is sent again.
LapsedToFailed == "failed"

\* A sender that does not come back may have sent: the row is not sent again.
LapsedTo == "unknown"

Lapsed(row) == row.state = "processing" /\ row.lapsed

\* MUTANT of Recovered: a lease that ran out keeps its row.
RecoveredNever == rows

Recovered ==
  [i \in DOMAIN rows |->
     IF Lapsed(rows[i]) THEN [rows[i] EXCEPT !.state = LapsedTo, !.lapsed = FALSE] ELSE rows[i]]

Claimable(row) == row.state \in {"pending", "failed"} /\ row.tries < MaxAttempts

\* One transaction: lapsed leases first, then the oldest row that is due; one
\* that failed is due when its next_attempt_at has come, a pending one at once.
ClaimResultDelivery(w) ==
  /\ drain[w].pc = "idle"
  /\ \/ \E i \in DOMAIN rows :
          /\ Claimable(Recovered[i])
          /\ \A j \in 1..(i - 1) : rows[j].state # "pending"
          /\ rows' = [Recovered EXCEPT ![i].state = "processing", ![i].tries = @ + 1]
          /\ drain' = [drain EXCEPT ![w] =
               [pc |-> "send", row |-> i, try |-> rows[i].tries + 1, chunk |-> 1]]
     \/ /\ \A i \in DOMAIN rows : rows[i].state # "pending"
        /\ \E i \in DOMAIN rows : Lapsed(rows[i])
        /\ rows' = Recovered
        /\ UNCHANGED drain
  /\ UNCHANGED <<crashes, history>>

Outcome(w, pc) == drain' = [drain EXCEPT ![w].pc = pc]

\* The binding, its credential, and no transport: nothing is sent.
CannotSend(w) ==
  /\ drain[w].pc = "send" /\ drain[w].chunk = 1
  /\ Outcome(w, "failed")
  /\ UNCHANGED <<rows, crashes, history>>

\* One message of the result: sent and answered; answered with an error status;
\* answered with something that is not an answer; or not answered.
SendMessage(w) ==
  LET d == drain[w]
      arrives == landed' = landed \cup {<<d.row, d.chunk>>}
  IN /\ d.pc = "send"
     /\ \/ /\ arrives
           /\ drain' = [drain EXCEPT ![w] =
                IF d.chunk < Chunks THEN [d EXCEPT !.chunk = @ + 1] ELSE [d EXCEPT !.pc = "sent"]]
           /\ UNCHANGED unanswered
        \/ Outcome(w, "rejected") /\ UNCHANGED history
        \/ Outcome(w, "failed") /\ arrives /\ UNCHANGED unanswered
        \/ /\ Outcome(w, "unknown")
           /\ unanswered' = unanswered \cup {d.row}
           /\ arrives \/ UNCHANGED landed
     /\ UNCHANGED <<rows, crashes>>

Recorded(pc) == IF pc = "rejected" THEN "failed" ELSE pc

\* complete_, fail_ and mark_result_delivery_unknown: only under the claim the
\* drain was given.
RecordDelivery(w) ==
  LET d == drain[w] IN
  /\ d.pc \in {"sent", "rejected", "failed", "unknown"}
  /\ rows' = IF rows[d.row].state = "processing" /\ rows[d.row].tries = d.try
               THEN [rows EXCEPT ![d.row] =
                       [@ EXCEPT !.state = Recorded(d.pc), !.lapsed = FALSE]]
               ELSE rows
  /\ drain' = [drain EXCEPT ![w] = NotSending]
  /\ UNCHANGED <<crashes, history>>

-----------------------------------------------------------------------------
(* Time, crashes, and recover_stale at the next start. *)

LeaseLapses(i) ==
  /\ rows[i].state = "processing" /\ ~rows[i].lapsed
  /\ rows' = [rows EXCEPT ![i].lapsed = TRUE]
  /\ UNCHANGED <<drain, crashes, history>>

RecoverResultDeliveries ==
  /\ \E i \in DOMAIN rows : Lapsed(rows[i])
  /\ rows' = Recovered
  /\ UNCHANGED <<drain, crashes, history>>

\* The request that was under way may still arrive.
DrainDies(w) ==
  /\ crashes < MaxCrashes
  /\ crashes' = crashes + 1
  /\ drain' = [drain EXCEPT ![w] = NotSending]
  /\ IF drain[w].pc = "send"
       THEN /\ unanswered' = unanswered \cup {drain[w].row}
            /\ landed' \in {landed, landed \cup {<<drain[w].row, drain[w].chunk>>}}
       ELSE UNCHANGED history
  /\ UNCHANGED rows

DrainStep(w) == ClaimResultDelivery(w) \/ CannotSend(w) \/ SendMessage(w) \/ RecordDelivery(w)
Clock == \E i \in DOMAIN rows : LeaseLapses(i)

DeliveryNext ==
  \/ \E r \in Results : EnqueueExecutionResult(r)
  \/ \E w \in Drains : DrainStep(w) \/ DrainDies(w)
  \/ Clock
  \/ RecoverResultDeliveries

-----------------------------------------------------------------------------
\* A result one of whose messages was sent and never answered for -- because the
\* connection broke, the process died or its lease ran out -- is not sent again,
\* by any drain: it might be in the chat already.
NoBlindRetry ==
  \A i \in unanswered :
    /\ rows[i].state \in {"processing", "unknown"}
    /\ \A w \in Drains : drain[w].pc = "send" => drain[w].row # i

\* A queued result comes to an end: sent, of unknown outcome, or out of attempts,
\* whichever threads died over it.
Over(row) == row.state \in {"sent", "unknown"} \/ (row.state = "failed" /\ row.tries = MaxAttempts)
Concluded ==
  \A i \in 1..Cardinality(Results) : (i \in DOMAIN rows) ~> (i \in DOMAIN rows /\ Over(rows[i]))

=============================================================================
