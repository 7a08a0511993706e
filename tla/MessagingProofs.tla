--------------------------- MODULE MessagingProofs ---------------------------
(***************************************************************************)
(* Proofs about what comes in from the messengers and what goes out to     *)
(* them: ResultDelivery, TelegramPolling, ChatTurn and Admission, for any  *)
(* number of results, of threads, of chats, of updates, of accounts and of *)
(* crashes.                                                                *)
(***************************************************************************)
EXTENDS ResultDelivery, TelegramPolling, ChatTurn, Admission,
        SequenceTheorems, FiniteSetTheorems, TLAPS

-----------------------------------------------------------------------------
(* Result delivery.                                                        *)

DeliverySpec == DeliveryInit /\ [][DeliveryNext]_deliveryVars

Row == [result: Results, state: {"pending", "processing", "failed", "unknown", "sent"},
        tries: Nat, lapsed: BOOLEAN]
Sending == [pc: {"idle", "send", "sent", "rejected", "failed", "unknown"},
            row: Nat, try: Nat, chunk: Nat]

DeliveryTyped ==
  /\ rows \in Seq(Row)
  /\ drain \in [Drains -> Sending]
  /\ crashes \in Nat
  /\ unanswered \subseteq DOMAIN rows

\* A drain that is sending holds its row under the attempt it was given: nobody
\* else can have claimed it, for a lease that lapses ends in a state from which
\* no attempt starts.
Holds(w) ==
  /\ drain[w].row \in DOMAIN rows
  /\ rows[drain[w].row].tries = drain[w].try
  /\ rows[drain[w].row].state \in {"processing", "unknown"}
SendersHold == \A w \in Drains : drain[w].pc # "idle" => Holds(w)

OneSenderEach ==
  \A v, w \in Drains :
    drain[v].pc # "idle" /\ drain[w].pc # "idle" /\ drain[v].row = drain[w].row => v = w

\* A row with an unanswered request can only go on to "unknown".
UnansweredStays ==
  \A i \in unanswered :
    /\ rows[i].state \in {"processing", "unknown"}
    /\ \A w \in Drains : drain[w].pc # "idle" /\ drain[w].row = i => drain[w].pc = "unknown"

DeliveryInv == DeliveryTyped /\ SendersHold /\ OneSenderEach /\ UnansweredStays

\* What an expired lease does to the rows.
LEMMA RecoveredRows ==
  ASSUME rows \in Seq(Row)
  PROVE  /\ Recovered \in Seq(Row)
         /\ DOMAIN Recovered = DOMAIN rows
         /\ \A i \in DOMAIN rows :
              /\ Recovered[i].result = rows[i].result
              /\ Recovered[i].tries = rows[i].tries
              /\ Recovered[i].state = IF Lapsed(rows[i]) THEN "unknown" ELSE rows[i].state
<1>1. rows \in [1..Len(rows) -> Row] /\ Len(rows) \in Nat
  OBVIOUS
<1>2. DOMAIN rows = 1..Len(rows)
  OBVIOUS
<1>3. ASSUME NEW i \in DOMAIN rows
      PROVE  /\ Recovered[i] \in Row
             /\ Recovered[i].result = rows[i].result
             /\ Recovered[i].tries = rows[i].tries
             /\ Recovered[i].state = IF Lapsed(rows[i]) THEN "unknown" ELSE rows[i].state
  <2>1. rows[i] \in Row
    BY <1>1, <1>2, <1>3
  <2>2. CASE Lapsed(rows[i])
    <3>1. Recovered[i] = [rows[i] EXCEPT !.state = "unknown", !.lapsed = FALSE]
      BY <2>2 DEF Recovered, LapsedTo
    <3> QED
      BY <2>1, <2>2, <3>1 DEF Row
  <2>3. CASE ~Lapsed(rows[i])
    <3>1. Recovered[i] = rows[i]
      BY <2>3 DEF Recovered
    <3> QED
      BY <2>1, <2>3, <3>1
  <2> QED
    BY <2>2, <2>3
<1>4. DOMAIN Recovered = DOMAIN rows
  BY DEF Recovered
<1>5. Recovered \in [1..Len(rows) -> Row]
  BY <1>2, <1>3 DEF Recovered
<1>6. Recovered \in Seq(Row)
  BY <1>1, <1>5
<1> QED
  BY <1>3, <1>4, <1>6

\* A step that leaves the drains alone and moves no row except from "processing"
\* to "unknown" under the same attempt keeps all that is said of them.
LEMMA RowsMayLapse ==
  ASSUME DeliveryInv, rows' \in Seq(Row), UNCHANGED <<drain, unanswered>>, crashes' \in Nat,
         DOMAIN rows \subseteq DOMAIN rows',
         \A i \in DOMAIN rows :
           /\ rows'[i].tries = rows[i].tries
           /\ \/ rows'[i].state = rows[i].state
              \/ rows[i].state = "processing" /\ rows'[i].state = "unknown"
  PROVE  DeliveryInv'
<1>1. DeliveryTyped'
  BY DEF DeliveryInv, DeliveryTyped
<1>2. SendersHold'
  <2>1. ASSUME NEW w \in Drains, drain[w].pc # "idle" PROVE Holds(w)'
    <3>1. Holds(w)
      BY <2>1 DEF DeliveryInv, SendersHold
    <3> QED
      BY <3>1 DEF Holds
  <2> QED
    BY <2>1 DEF SendersHold
<1>3. OneSenderEach'
  BY DEF DeliveryInv, OneSenderEach
<1>4. UnansweredStays'
  BY DEF DeliveryInv, UnansweredStays, DeliveryTyped
<1> QED
  BY <1>1, <1>2, <1>3, <1>4 DEF DeliveryInv

\* A drain goes on with the row it has, knowing more of the request.
LEMMA DrainGoesOn ==
  ASSUME DeliveryInv, NEW w \in Drains, NEW d \in Sending, drain[w].pc = "send",
         drain' = [drain EXCEPT ![w] = d], UNCHANGED <<rows, crashes>>,
         d.pc # "idle", d.row = drain[w].row, d.try = drain[w].try,
         unanswered' = IF d.pc = "unknown" THEN unanswered \cup {d.row} ELSE unanswered
  PROVE  DeliveryInv'
<1>1. \A v \in Drains : drain'[v] = IF v = w THEN d ELSE drain[v]
  BY DEF DeliveryInv, DeliveryTyped
<1>2. Holds(w)
  BY DEF DeliveryInv, SendersHold
<1>3. DeliveryTyped'
  <2>1. unanswered' \subseteq DOMAIN rows
    BY <1>2 DEF DeliveryInv, DeliveryTyped, Holds
  <2> QED
    BY <2>1 DEF DeliveryInv, DeliveryTyped
<1>4. SendersHold'
  BY <1>1, <1>2 DEF DeliveryInv, SendersHold, Holds
<1>5. OneSenderEach'
  BY <1>1 DEF DeliveryInv, OneSenderEach
<1>6. UnansweredStays'
  <2>1. ASSUME NEW i \in unanswered', NEW v \in Drains, drain'[v].pc # "idle", drain'[v].row = i
        PROVE  drain'[v].pc = "unknown"
    <3>1. CASE i \in unanswered
      BY <1>1, <2>1, <3>1 DEF DeliveryInv, UnansweredStays
    <3>2. CASE i \notin unanswered
      <4>1. d.pc = "unknown" /\ i = d.row
        BY <3>2, <2>1
      <4>2. v = w
        BY <1>1, <2>1, <4>1 DEF DeliveryInv, OneSenderEach
      <4> QED
        BY <1>1, <4>1, <4>2
    <3> QED
      BY <3>1, <3>2
  <2>2. ASSUME NEW i \in unanswered' PROVE rows'[i].state \in {"processing", "unknown"}
    BY <1>2, <2>2 DEF DeliveryInv, UnansweredStays, Holds
  <2> QED
    BY <2>1, <2>2 DEF UnansweredStays
<1> QED
  BY <1>3, <1>4, <1>5, <1>6 DEF DeliveryInv

\* A drain ends: it recorded what became of its row, if the row was still its
\* own, or it died and left a request it cannot answer for.
LEMMA DrainEnds ==
  ASSUME DeliveryInv, NEW w \in Drains, drain' = [drain EXCEPT ![w] = NotSending],
         rows' \in Seq(Row), DOMAIN rows' = DOMAIN rows, crashes' \in Nat,
         \A i \in DOMAIN rows :
           rows'[i] = rows[i]
           \/ /\ drain[w].pc # "idle" /\ i = drain[w].row
              /\ i \in unanswered => rows'[i].state = "unknown",
         unanswered' = unanswered
         \/ /\ drain[w].pc # "idle" /\ rows' = rows
            /\ unanswered' = unanswered \cup {drain[w].row}
  PROVE  DeliveryInv'
<1>0. NotSending \in Sending /\ NotSending.pc = "idle"
  BY DEF NotSending, Sending
<1>1. \A v \in Drains : drain'[v] = IF v = w THEN NotSending ELSE drain[v]
  BY DEF DeliveryInv, DeliveryTyped
<1>2. drain[w].pc # "idle" => Holds(w)
  BY DEF DeliveryInv, SendersHold
<1>3. DeliveryTyped'
  <2>1. unanswered' \subseteq DOMAIN rows
    BY <1>2 DEF DeliveryInv, DeliveryTyped, Holds
  <2> QED
    BY <1>0, <2>1 DEF DeliveryInv, DeliveryTyped
<1>4. \A v \in Drains : drain'[v].pc # "idle" =>
        v # w /\ drain'[v] = drain[v] /\ (drain[w].pc # "idle" => drain[v].row # drain[w].row)
  BY <1>0, <1>1 DEF DeliveryInv, OneSenderEach
<1>5. SendersHold'
  <2>1. ASSUME NEW v \in Drains, drain'[v].pc # "idle" PROVE Holds(v)'
    <3>1. Holds(v) /\ drain'[v] = drain[v]
      BY <1>4, <2>1 DEF DeliveryInv, SendersHold
    <3>2. rows'[drain[v].row] = rows[drain[v].row]
      BY <1>4, <2>1, <3>1 DEF Holds
    <3> QED
      BY <3>1, <3>2 DEF Holds
  <2> QED
    BY <2>1 DEF SendersHold
<1>6. OneSenderEach'
  BY <1>4 DEF DeliveryInv, OneSenderEach
<1>7. UnansweredStays'
  <2>1. ASSUME NEW i \in unanswered', NEW v \in Drains, drain'[v].pc # "idle", drain'[v].row = i
        PROVE  drain'[v].pc = "unknown"
    BY <1>4, <2>1 DEF DeliveryInv, UnansweredStays
  <2>2. ASSUME NEW i \in unanswered' PROVE rows'[i].state \in {"processing", "unknown"}
    <3>1. CASE i \in unanswered
      BY <3>1 DEF DeliveryInv, UnansweredStays, DeliveryTyped
    <3>2. CASE i \notin unanswered
      BY <1>2, <2>2, <3>2 DEF Holds
    <3> QED
      BY <3>1, <3>2
  <2> QED
    BY <2>1, <2>2 DEF UnansweredStays
<1> QED
  BY <1>3, <1>5, <1>6, <1>7 DEF DeliveryInv

\* A drain takes a row that is free for an attempt, once what lapsed is put away.
LEMMA DrainClaims ==
  ASSUME DeliveryInv, NEW w \in Drains, NEW i \in DOMAIN rows, drain[w].pc = "idle",
         Claimable(Recovered[i]), UNCHANGED <<crashes, unanswered>>,
         rows' = [Recovered EXCEPT ![i].state = "processing", ![i].tries = @ + 1],
         drain' = [drain EXCEPT ![w] =
           [pc |-> "send", row |-> i, try |-> rows[i].tries + 1, chunk |-> 1]]
  PROVE  DeliveryInv'
<1> DEFINE d == [pc |-> "send", row |-> i, try |-> rows[i].tries + 1, chunk |-> 1]
<1>0. rows \in Seq(Row)
  BY DEF DeliveryInv, DeliveryTyped
<1>1. /\ Recovered \in Seq(Row) /\ DOMAIN Recovered = DOMAIN rows
      /\ \A j \in DOMAIN rows :
           /\ Recovered[j].tries = rows[j].tries
           /\ Recovered[j].state = IF Lapsed(rows[j]) THEN "unknown" ELSE rows[j].state
  BY <1>0, RecoveredRows
<1>2. rows[i].state \in {"pending", "failed"}
  BY <1>1 DEF Claimable, Lapsed
<1>3. rows[i].tries \in Nat /\ i \in Nat
  <2>1. rows[i] \in Row /\ i \in Nat
    BY <1>0
  <2> QED
    BY <2>1 DEF Row
<1>4. rows'[i] = [Recovered[i] EXCEPT !.state = "processing", !.tries = @ + 1]
      /\ \A j \in DOMAIN rows \ {i} : rows'[j] = Recovered[j]
  BY <1>1
<1>5. Recovered[i] \in Row
  BY <1>1
<1>6. rows'[i] \in Row /\ rows'[i].state = "processing" /\ rows'[i].tries = rows[i].tries + 1
  BY <1>1, <1>3, <1>4, <1>5 DEF Row
<1>7. rows' \in Seq(Row) /\ DOMAIN rows' = DOMAIN rows
  <2>1. PICK row : row = [Recovered[i] EXCEPT !.state = "processing", !.tries = @ + 1]
    OBVIOUS
  <2>2. PICK before : before = Recovered
    OBVIOUS
  <2>3. row \in Row /\ before \in Seq(Row) /\ i \in DOMAIN before /\ DOMAIN before = DOMAIN rows
    BY <1>1, <1>4, <1>6, <2>1, <2>2
  <2>4. rows' = [before EXCEPT ![i] = row]
    BY <1>1, <2>1, <2>2
  <2>5. i \in 1..Len(before)
    BY <2>3
  <2>6. [before EXCEPT ![i] = row] \in Seq(Row) /\ Len([before EXCEPT ![i] = row]) = Len(before)
    BY <2>3, <2>5, ExceptSeq
  <2> QED
    BY <2>3, <2>4, <2>6
<1>8. \A v \in Drains : drain'[v] = IF v = w THEN d ELSE drain[v]
  BY DEF DeliveryInv, DeliveryTyped
<1>9. d \in Sending /\ d.pc = "send" /\ d.row = i /\ d.try = rows[i].tries + 1
  BY <1>3 DEF Sending
<1>10. \A v \in Drains : drain[v].pc # "idle" => v # w /\ drain[v].row # i /\ drain'[v] = drain[v]
  BY <1>2, <1>8 DEF DeliveryInv, SendersHold, Holds
<1>11. i \notin unanswered
  BY <1>2 DEF DeliveryInv, UnansweredStays
<1>12. DeliveryTyped'
  BY <1>7, <1>9 DEF DeliveryInv, DeliveryTyped
<1>13. SendersHold'
  <2>1. ASSUME NEW v \in Drains, v # w, drain'[v].pc # "idle" PROVE Holds(v)'
    <3>1. Holds(v) /\ drain[v].row # i /\ drain'[v] = drain[v]
      BY <1>8, <1>10, <2>1 DEF DeliveryInv, SendersHold
    <3> QED
      BY <1>1, <1>4, <1>7, <3>1 DEF Holds
  <2>2. Holds(w)'
    BY <1>6, <1>7, <1>8, <1>9 DEF Holds
  <2> QED
    BY <2>1, <2>2 DEF SendersHold
<1>14. OneSenderEach'
  BY <1>8, <1>9, <1>10 DEF DeliveryInv, OneSenderEach
<1>15. UnansweredStays'
  <2>1. ASSUME NEW j \in unanswered PROVE rows'[j].state \in {"processing", "unknown"}
    BY <1>1, <1>4, <1>11, <2>1 DEF DeliveryInv, UnansweredStays, DeliveryTyped
  <2>2. ASSUME NEW j \in unanswered, NEW v \in Drains, drain'[v].pc # "idle", drain'[v].row = j
        PROVE  drain'[v].pc = "unknown"
    BY <1>8, <1>9, <1>11, <2>2 DEF DeliveryInv, UnansweredStays
  <2> QED
    BY <2>1, <2>2 DEF UnansweredStays
<1> QED
  BY <1>12, <1>13, <1>14, <1>15 DEF DeliveryInv

LEMMA RecoveryKeeps ==
  ASSUME DeliveryInv, rows' = Recovered, UNCHANGED <<drain, crashes, unanswered>>
  PROVE  DeliveryInv'
<1>0. rows \in Seq(Row)
  BY DEF DeliveryInv, DeliveryTyped
<1>1. \A i \in DOMAIN rows :
        /\ rows'[i].tries = rows[i].tries
        /\ \/ rows'[i].state = rows[i].state
           \/ rows[i].state = "processing" /\ rows'[i].state = "unknown"
  <2>1. /\ DOMAIN Recovered = DOMAIN rows
        /\ \A i \in DOMAIN rows :
             /\ Recovered[i].tries = rows[i].tries
             /\ Recovered[i].state = IF Lapsed(rows[i]) THEN "unknown" ELSE rows[i].state
    BY <1>0, RecoveredRows
  <2> QED
    BY <2>1 DEF Lapsed
<1>2. rows' \in Seq(Row) /\ DOMAIN rows \subseteq DOMAIN rows'
  BY <1>0, RecoveredRows
<1>3. crashes' \in Nat
  BY DEF DeliveryInv, DeliveryTyped
<1> QED
  BY <1>1, <1>2, <1>3, RowsMayLapse

LEMMA DeliveryInvInit == DeliveryInit => DeliveryInv
<1> SUFFICES ASSUME DeliveryInit PROVE DeliveryInv
  OBVIOUS
<1>1. NotSending \in Sending /\ NotSending.pc = "idle"
  BY DEF NotSending, Sending
<1>2. \A w \in Drains : drain[w].pc = "idle"
  BY <1>1 DEF DeliveryInit
<1> QED
  BY <1>1, <1>2 DEF DeliveryInit, DeliveryInv, DeliveryTyped, SendersHold, OneSenderEach, UnansweredStays

LEMMA DeliveryInvNext == DeliveryInv /\ [DeliveryNext]_deliveryVars => DeliveryInv'
<1> SUFFICES ASSUME DeliveryInv, [DeliveryNext]_deliveryVars PROVE DeliveryInv'
  OBVIOUS
<1>0. rows \in Seq(Row) /\ drain \in [Drains -> Sending] /\ crashes \in Nat
  BY DEF DeliveryInv, DeliveryTyped
<1>1. ASSUME NEW r \in Results, EnqueueExecutionResult(r) PROVE DeliveryInv'
  <2>1. NewRow(r) \in Row
    BY DEF NewRow, Row
  <2>2. rows' \in Seq(Row) /\ DOMAIN rows \subseteq DOMAIN rows'
        /\ \A i \in DOMAIN rows : rows'[i] = rows[i]
    BY <1>0, <1>1, <2>1, AppendProperties DEF EnqueueExecutionResult
  <2>3. UNCHANGED <<drain, unanswered>> /\ crashes' \in Nat
    BY <1>0, <1>1 DEF EnqueueExecutionResult, history
  <2>4. \A i \in DOMAIN rows : rows'[i].tries = rows[i].tries /\ rows'[i].state = rows[i].state
    BY <2>2
  <2> QED
    BY <2>2, <2>3, <2>4, RowsMayLapse
<1>2. ASSUME NEW w \in Drains, ClaimResultDelivery(w) PROVE DeliveryInv'
  <2>1. CASE rows' = Recovered /\ UNCHANGED drain
    BY <1>2, <2>1, RecoveryKeeps DEF ClaimResultDelivery, history
  <2>2. CASE ~(rows' = Recovered /\ UNCHANGED drain)
    <3>1. PICK i \in DOMAIN rows :
            /\ Claimable(Recovered[i])
            /\ rows' = [Recovered EXCEPT ![i].state = "processing", ![i].tries = @ + 1]
            /\ drain' = [drain EXCEPT ![w] =
                 [pc |-> "send", row |-> i, try |-> rows[i].tries + 1, chunk |-> 1]]
      BY <1>2, <2>2 DEF ClaimResultDelivery
    <3> QED
      BY <1>2, <3>1, DrainClaims DEF ClaimResultDelivery, history
  <2> QED
    BY <2>1, <2>2
<1>3. ASSUME NEW w \in Drains, CannotSend(w) PROVE DeliveryInv'
  <2>1. drain[w] \in Sending
    BY <1>0
  <2>2. PICK d : d = [drain[w] EXCEPT !.pc = "failed"]
    OBVIOUS
  <2>3. d \in Sending /\ d.pc = "failed" /\ d.row = drain[w].row /\ d.try = drain[w].try
    BY <2>1, <2>2 DEF Sending
  <2>4. drain' = [drain EXCEPT ![w] = d] /\ drain[w].pc = "send"
    BY <1>0, <1>3, <2>2 DEF CannotSend, Outcome
  <2> QED
    BY <1>3, <2>3, <2>4, DrainGoesOn DEF CannotSend, history
<1>4. ASSUME NEW w \in Drains, SendMessage(w) PROVE DeliveryInv'
  <2>1. drain[w] \in Sending
    BY <1>0
  <2>2. ASSUME NEW pc \in {"sent", "rejected", "failed", "unknown"}, Outcome(w, pc),
               unanswered' = IF pc = "unknown" THEN unanswered \cup {drain[w].row} ELSE unanswered
        PROVE  DeliveryInv'
    <3>1. PICK d : d = [drain[w] EXCEPT !.pc = pc]
      OBVIOUS
    <3>2. d \in Sending /\ d.pc = pc /\ d.row = drain[w].row /\ d.try = drain[w].try
      BY <2>1, <2>2, <3>1 DEF Sending
    <3>3. drain' = [drain EXCEPT ![w] = d] /\ drain[w].pc = "send" /\ UNCHANGED <<rows, crashes>>
      BY <1>0, <1>4, <2>2, <3>1 DEF SendMessage, Outcome
    <3>4. unanswered' = IF d.pc = "unknown" THEN unanswered \cup {d.row} ELSE unanswered
      BY <2>2, <3>2
    <3>5. d.pc # "idle"
      BY <2>2, <3>2
    <3> QED
      BY <3>2, <3>3, <3>4, <3>5, DrainGoesOn
  <2>3. CASE /\ drain' = [drain EXCEPT ![w] =
                   IF drain[w].chunk < Chunks THEN [drain[w] EXCEPT !.chunk = @ + 1]
                   ELSE [drain[w] EXCEPT !.pc = "sent"]]
             /\ UNCHANGED unanswered
    <3>1. CASE drain[w].chunk < Chunks
      <4>1. PICK d : d = [drain[w] EXCEPT !.chunk = drain[w].chunk + 1]
        OBVIOUS
      <4>2. drain[w].chunk \in Nat
        BY <2>1 DEF Sending
      <4>3. d \in Sending /\ d.pc = drain[w].pc /\ d.row = drain[w].row /\ d.try = drain[w].try
        BY <2>1, <4>1, <4>2 DEF Sending
      <4>4. drain' = [drain EXCEPT ![w] = d]
        BY <2>3, <3>1, <4>1
      <4>5. drain[w].pc = "send" /\ UNCHANGED <<rows, crashes>>
        BY <1>4 DEF SendMessage
      <4>6. unanswered' = IF d.pc = "unknown" THEN unanswered \cup {d.row} ELSE unanswered
        BY <2>3, <4>3, <4>5
      <4> QED
        BY <4>3, <4>4, <4>5, <4>6, DrainGoesOn
    <3>2. CASE ~(drain[w].chunk < Chunks)
      <4>1. Outcome(w, "sent")
        BY <1>0, <2>3, <3>2 DEF Outcome
      <4> QED
        BY <2>2, <2>3, <4>1
    <3> QED
      BY <3>1, <3>2
  <2>4. CASE Outcome(w, "rejected") /\ UNCHANGED history
    BY <2>2, <2>4 DEF history
  <2>5. CASE Outcome(w, "failed") /\ UNCHANGED unanswered
    BY <2>2, <2>5
  <2>6. CASE Outcome(w, "unknown") /\ unanswered' = unanswered \cup {drain[w].row}
    BY <2>2, <2>6
  <2> QED
    BY <1>4, <2>3, <2>4, <2>5, <2>6 DEF SendMessage
<1>5. ASSUME NEW w \in Drains, RecordDelivery(w) PROVE DeliveryInv'
  <2>1. drain[w].pc \in {"sent", "rejected", "failed", "unknown"}
    BY <1>5 DEF RecordDelivery
  <2>2. PICK i : i = drain[w].row
    OBVIOUS
  <2>3. i \in DOMAIN rows /\ rows[i] \in Row
    BY <1>0, <2>1, <2>2 DEF DeliveryInv, SendersHold, Holds
  <2>4. PICK row : row = [rows[i] EXCEPT !.state = Recorded(drain[w].pc), !.lapsed = FALSE]
    OBVIOUS
  <2>5. Recorded(drain[w].pc) \in {"sent", "failed", "unknown"}
        /\ (drain[w].pc = "unknown" => Recorded(drain[w].pc) = "unknown")
    BY <2>1 DEF Recorded
  <2>6. row \in Row /\ row.state = Recorded(drain[w].pc)
    BY <2>3, <2>4, <2>5 DEF Row
  <2>7. rows' \in Seq(Row) /\ DOMAIN rows' = DOMAIN rows
        /\ \A j \in DOMAIN rows : rows'[j] = rows[j] \/ (j = i /\ rows'[j] = row)
    <3>1. CASE rows' = rows
      <4>1. rows' \in Seq(Row) /\ DOMAIN rows' = DOMAIN rows
        BY <1>0, <3>1
      <4> QED
        BY <3>1, <4>1
    <3>2. CASE rows' = [rows EXCEPT ![i] = row]
      <4>1. rows' \in Seq(Row) /\ DOMAIN rows' = DOMAIN rows
        BY <1>0, <2>3, <2>6, <3>2, ExceptSeq
      <4>2. \A j \in DOMAIN rows : rows'[j] = IF j = i THEN row ELSE rows[j]
        BY <3>2
      <4> QED
        BY <4>1, <4>2
    <3> QED
      BY <1>5, <2>2, <2>4, <3>1, <3>2 DEF RecordDelivery
  <2>8. i \in unanswered => drain[w].pc = "unknown"
    BY <2>1, <2>2 DEF DeliveryInv, UnansweredStays
  <2>9. \A j \in DOMAIN rows :
          rows'[j] = rows[j]
          \/ /\ drain[w].pc # "idle" /\ j = drain[w].row
             /\ j \in unanswered => rows'[j].state = "unknown"
    BY <2>1, <2>2, <2>5, <2>6, <2>7, <2>8
  <2>10. drain' = [drain EXCEPT ![w] = NotSending] /\ unanswered' = unanswered /\ crashes' \in Nat
    BY <1>0, <1>5 DEF RecordDelivery, history
  <2> QED
    BY <2>7, <2>9, <2>10, DrainEnds
<1>6. ASSUME NEW w \in Drains, DrainDies(w) PROVE DeliveryInv'
  <2>1. drain' = [drain EXCEPT ![w] = NotSending] /\ rows' = rows /\ crashes' \in Nat
    BY <1>0, <1>6 DEF DrainDies
  <2>2. \/ unanswered' = unanswered
        \/ drain[w].pc # "idle" /\ rows' = rows /\ unanswered' = unanswered \cup {drain[w].row}
    <3>1. CASE drain[w].pc = "send"
      BY <1>6, <2>1, <3>1 DEF DrainDies
    <3>2. CASE drain[w].pc # "send"
      BY <1>6, <3>2 DEF DrainDies, history
    <3> QED
      BY <3>1, <3>2
  <2> QED
    BY <1>0, <2>1, <2>2, DrainEnds
<1>7. CASE Clock
  <2>1. PICK i \in DOMAIN rows : LeaseLapses(i)
    BY <1>7 DEF Clock
  <2>2. rows[i] \in Row
    BY <1>0
  <2>3. PICK row : row = [rows[i] EXCEPT !.lapsed = TRUE]
    OBVIOUS
  <2>4. row \in Row /\ row.tries = rows[i].tries /\ row.state = rows[i].state
    BY <2>2, <2>3 DEF Row
  <2>5. rows' = [rows EXCEPT ![i] = row]
    BY <1>0, <2>1, <2>3 DEF LeaseLapses
  <2>6. rows' \in Seq(Row) /\ DOMAIN rows' = DOMAIN rows
    BY <1>0, <2>4, <2>5
  <2>7. \A j \in DOMAIN rows : rows'[j].tries = rows[j].tries /\ rows'[j].state = rows[j].state
    BY <2>4, <2>5
  <2>8. UNCHANGED <<drain, unanswered>> /\ crashes' \in Nat
    BY <1>0, <2>1 DEF LeaseLapses, history
  <2> QED
    BY <2>6, <2>7, <2>8, RowsMayLapse
<1>8. CASE RecoverResultDeliveries
  BY <1>8, RecoveryKeeps DEF RecoverResultDeliveries, history
<1>9. CASE UNCHANGED deliveryVars
  <2>1. UNCHANGED <<drain, unanswered, rows>> /\ crashes' \in Nat
    BY <1>0, <1>9 DEF deliveryVars
  <2> QED
    BY <1>0, <2>1, RowsMayLapse
<1> QED
  BY <1>1, <1>2, <1>3, <1>4, <1>5, <1>6, <1>7, <1>8, <1>9 DEF DeliveryNext, DrainStep

\* A result one of whose messages was sent and never answered for is not sent
\* again, whichever drains run, die or come back.
THEOREM UnknownStaysUnknown == DeliverySpec => []NoBlindRetry
<1>1. DeliveryInv => NoBlindRetry
  BY DEF DeliveryInv, UnansweredStays, NoBlindRetry
<1> QED
  BY <1>1, DeliveryInvInit, DeliveryInvNext, PTL DEF DeliverySpec

-----------------------------------------------------------------------------
(* A turn in the chat.                                                     *)

ChatSpec == ChatInit /\ [][ChatNext]_chatVars

Places == {"idle", "transcript", "admission", "round", "apology", "apologise", "finalize",
           "append user", "append assistant", "notes", "send"}
Answering == [pc: Places, round: Nat, protocol: {"native", "text"}, events: Nat, parts: Nat,
              notes: BOOLEAN, streamed: BOOLEAN, no: Nat]
Renderer == [on: BOOLEAN, id: Nat, strikes: Nat, disabled: BOOLEAN]

ChatTyped == answering \in Answering

\* Before the answer is there, the chat shows the one preview whose id is known,
\* or nothing; only a renderer that is on has one.
Preview == <<Message("preview")>>
Previewed ==
  /\ live \in Renderer
  /\ live.id \in {0, 1} /\ (live.id = 1 => live.on)
  /\ shown = IF live.id = 1 THEN Preview ELSE <<>>

\* What the chat shows where the turn stands, if no rendering has failed so far.
AnswerShown == \/ shown = AllParts
               \/ shown = AllParts \o <<Message("notes")>>
               \/ shown = <<Message("notes")>> \o AllParts
ApologyShown == shown = <<Message("apology")>> \/ shown = <<Message("apology")>> \o <<Message("apology")>>

Begun == answering.pc \in {"transcript", "admission", "round", "apology"} /\ answering.parts = 0
         /\ answering.streamed = FALSE /\ Previewed
         /\ (answering.pc \in {"transcript", "admission"} => live.id = 0)
Answered == answering.pc = "finalize" /\ answering.parts > 0 /\ answering.streamed = FALSE
            /\ Previewed
Sorry == answering.pc = "apologise" /\ answering.parts = 0
         /\ (shown = <<>> \/ shown = <<Message("apology")>>)
Kept == answering.pc \in {"append user", "append assistant", "notes"} /\ answering.parts > 0
        /\ shown = IF answering.streamed THEN AllParts ELSE <<>>
ToSend == answering.pc = "send" /\ answering.parts > 0
          /\ (shown = <<>> \/ shown = <<Message("notes")>>)
Ended == answering.pc = "idle" /\ (answering.no > 0 =>
           \/ answering.parts > 0 /\ AnswerShown
           \/ answering.parts = 0 /\ ApologyShown)

OnCourse == Begun \/ Answered \/ Sorry \/ Kept \/ ToSend \/ Ended
ChatInv == ChatTyped /\ (failed = {} => OnCourse)

LEMMA PartsDiffer ==
  ASSUME NEW i, NEW j, NEW k
  PROVE  /\ (k # "answer" => Part(i) # Message(k))
         /\ (Part(i) = Part(j) => i = j)
         /\ Message("preview") # Message("notes") /\ Message("preview") # Message("apology")
<1>1. \A n : Part(n).kind = "answer" /\ Part(n).no = n /\ Message(n).kind = n /\ Message(n).no = 0
  BY DEF Part, Message
<1> QED
  BY <1>1

\* A message that stands at one place only is counted once.
LEMMA CountedOnce ==
  ASSUME NEW m, NEW k \in DOMAIN shown, shown[k] = m, \A j \in DOMAIN shown : shown[j] = m => j = k
  PROVE  Count(m) = 1
<1>1. {i \in DOMAIN shown : shown[i] = m} = {k}
  OBVIOUS
<1> QED
  BY <1>1, FS_Singleton DEF Count

LEMMA CountedNever ==
  ASSUME NEW m, \A j \in DOMAIN shown : shown[j] # m
  PROVE  Count(m) = 0
<1>1. {i \in DOMAIN shown : shown[i] = m} = {}
  OBVIOUS
<1> QED
  BY <1>1, FS_EmptySet DEF Count

LEMMA CountedSome ==
  ASSUME NEW m, NEW n \in Nat, DOMAIN shown = 1..n, NEW k \in DOMAIN shown, shown[k] = m
  PROVE  Count(m) > 0
<1> DEFINE S == {i \in DOMAIN shown : shown[i] = m}
<1>1. S \subseteq 1..n
  OBVIOUS
<1>2. IsFiniteSet(S)
  BY <1>1, FS_Interval, FS_Subset
<1>3. S # {}
  OBVIOUS
<1>4. Cardinality(S) \in Nat /\ Cardinality(S) # 0
  BY <1>2, <1>3, FS_EmptySet, FS_CardinalityType
<1> QED
  BY <1>4 DEF Count

\* The parts of the answer, alone or with the notes before or behind them.
LEMMA AnswerCounted ==
  ASSUME ChatTyped, AnswerShown
  PROVE  /\ Count(Message("preview")) = 0
         /\ \A i \in 1..answering.parts : Count(Part(i)) = 1
<1>1. answering.parts \in Nat
  BY DEF ChatTyped, Answering
<1>2. PICK n \in Nat : n = answering.parts
  BY <1>1
<1>3. PICK skip \in 0..1 :
        /\ \A i \in 1..n : i + skip \in DOMAIN shown /\ shown[i + skip] = Part(i)
        /\ \A j \in DOMAIN shown : \/ j - skip \in 1..n /\ shown[j] = Part(j - skip)
                                   \/ shown[j] = Message("notes")
        /\ \A j \in DOMAIN shown : j \in Int
  <2>1. AllParts = [i \in 1..n |-> Part(i)]
    BY <1>2 DEF AllParts
  <2>2. CASE shown = AllParts
    BY <2>1, <2>2
  <2>3. CASE shown = AllParts \o <<Message("notes")>>
    <3>1. shown = [i \in 1..(n + 1) |-> IF i \in 1..n THEN Part(i) ELSE Message("notes")]
      BY <2>1, <2>3
    <3> QED
      BY <3>1
  <2>4. CASE shown = <<Message("notes")>> \o AllParts
    <3>1. shown = [i \in 1..(n + 1) |-> IF i = 1 THEN Message("notes") ELSE Part(i - 1)]
      BY <2>1, <2>4
    <3>2. \A i \in 1..n : i + 1 \in DOMAIN shown /\ shown[i + 1] = Part(i)
      BY <3>1
    <3>3. \A j \in DOMAIN shown : \/ j - 1 \in 1..n /\ shown[j] = Part(j - 1)
                                  \/ shown[j] = Message("notes")
      BY <3>1
    <3> QED
      BY <3>1, <3>2, <3>3
  <2> QED
    BY <2>2, <2>3, <2>4 DEF AnswerShown
<1>4. \A j \in DOMAIN shown : shown[j] # Message("preview")
  BY <1>3, PartsDiffer
<1>5. Count(Message("preview")) = 0
  BY <1>4, CountedNever
<1>6. ASSUME NEW i \in 1..n PROVE Count(Part(i)) = 1
  <2>1. i + skip \in DOMAIN shown /\ shown[i + skip] = Part(i)
    BY <1>3
  <2>2. ASSUME NEW j \in DOMAIN shown, shown[j] = Part(i) PROVE j = i + skip
    <3>1. shown[j] # Message("notes")
      BY <2>2, PartsDiffer
    <3>2. j - skip \in 1..n /\ shown[j] = Part(j - skip) /\ j \in Int
      BY <1>3, <3>1
    <3>3. j - skip = i
      BY <2>2, <3>2, PartsDiffer
    <3> QED
      BY <3>2, <3>3
  <2> QED
    BY <2>1, <2>2, CountedOnce
<1> QED
  BY <1>2, <1>5, <1>6

LEMMA ApologyCounted ==
  ASSUME ApologyShown
  PROVE  Count(Message("preview")) = 0 /\ Count(Message("apology")) > 0
<1>1. PICK n \in {1, 2} : DOMAIN shown = 1..n /\ \A j \in 1..n : shown[j] = Message("apology")
  BY DEF ApologyShown
<1>2. Count(Message("preview")) = 0
  BY <1>1, PartsDiffer, CountedNever
<1>3. n \in Nat /\ 1 \in DOMAIN shown /\ shown[1] = Message("apology")
  BY <1>1
<1>4. Count(Message("apology")) > 0
  BY <1>1, <1>3, CountedSome
<1> QED
  BY <1>2, <1>4

LEMMA ChatInvConverges == ChatInv => Converges
<1> SUFFICES ASSUME ChatInv, answering.pc = "idle", answering.no > 0, failed = {}
             PROVE  /\ Count(Message("preview")) = 0
                    /\ \/ answering.parts > 0 /\ \A i \in 1..answering.parts : Count(Part(i)) = 1
                       \/ answering.parts = 0 /\ Count(Message("apology")) > 0
  BY DEF Converges
<1>1. Ended
  BY DEF ChatInv, OnCourse, Begun, Answered, Sorry, Kept, ToSend
<1>2. CASE answering.parts > 0 /\ AnswerShown
  BY <1>2, AnswerCounted DEF ChatInv
<1>3. CASE answering.parts = 0 /\ ApologyShown
  BY <1>3, ApologyCounted
<1> QED
  BY <1>1, <1>2, <1>3 DEF Ended

\* The record of the turn under a change of some of its fields.
LEMMA AnsweringMoves ==
  ASSUME answering \in Answering, NEW pc \in Places
  PROVE  LET to == [answering EXCEPT !.pc = pc]
         IN to \in Answering /\ to.pc = pc /\ to.parts = answering.parts
            /\ to.streamed = answering.streamed /\ to.no = answering.no
BY DEF Answering, Places

\* All of a sequence of messages is sent, or a failure is on record.
LEMMA SentWhole ==
  ASSUME NEW S, NEW messages \in Seq(S), Sends(messages), failed' = {}
  PROVE  failed = {} /\ shown' = shown \o messages
<1>1. PICK sent \in 0..Len(messages) :
        /\ shown' = shown \o SubSeq(messages, 1, sent)
        /\ failed' = IF sent = Len(messages) THEN failed ELSE failed \cup {"durable send"}
  BY DEF Sends
<1>2. sent = Len(messages)
  BY <1>1
<1>3. SubSeq(messages, 1, Len(messages)) = messages
  OBVIOUS
<1> QED
  BY <1>1, <1>2, <1>3

LEMMA ChatInvInit == ChatInit => ChatInv
<1> SUFFICES ASSUME ChatInit PROVE ChatInv
  OBVIOUS
<1>1. answering \in Answering /\ answering.pc = "idle" /\ answering.no = 0
  BY DEF ChatInit, NoAnswering, Answering, Places
<1> QED
  BY <1>1 DEF ChatInv, ChatTyped, OnCourse, Ended

\* A turn that ends or changes its place without a word, once something failed.
LEMMA OffCourse ==
  ASSUME ChatTyped', failed' # {}
  PROVE  ChatInv'
BY DEF ChatInv

\* What a step does to the turn and to the renderer.
LEMMA Moves ==
  ASSUME ChatTyped, NEW pc \in Places, GoesTo(pc)
  PROVE  /\ answering' \in Answering /\ answering'.pc = pc
         /\ answering'.parts = answering.parts /\ answering'.streamed = answering.streamed
         /\ answering'.no = answering.no /\ AllParts' = AllParts
<1>1. [answering EXCEPT !.pc = pc] = answering'
  BY DEF GoesTo
<1>2. answering \in Answering
  BY DEF ChatTyped
<1>3. /\ answering' \in Answering /\ answering'.pc = pc
      /\ answering'.parts = answering.parts /\ answering'.streamed = answering.streamed
      /\ answering'.no = answering.no
  BY <1>1, <1>2, AnsweringMoves
<1> QED
  BY <1>3 DEF AllParts

LEMMA EditsKeep ==
  ASSUME NEW from \in Renderer, Edits(from)
  PROVE  live' \in Renderer /\ live'.id = from.id /\ live'.on = from.on
<1>2. CASE live' = [from EXCEPT !.strikes = 0]
  BY <1>2 DEF Renderer
<1>3. CASE live' = [from EXCEPT !.strikes = @ + 1, !.disabled = from.strikes + 1 >= MaxFloodStrikes]
  <2>1. from.strikes \in Nat
    BY DEF Renderer
  <2>2. PICK n \in Nat : n = from.strikes + 1
    BY <2>1
  <2>3. live' = [from EXCEPT !.strikes = n, !.disabled = (n >= MaxFloodStrikes)]
    BY <1>3, <2>2
  <2>4. CASE n >= MaxFloodStrikes
    <3>1. live' = [from EXCEPT !.strikes = n, !.disabled = TRUE]
      BY <2>3, <2>4
    <3> QED
      BY <3>1 DEF Renderer
  <2>5. CASE ~(n >= MaxFloodStrikes)
    <3>1. live' = [from EXCEPT !.strikes = n, !.disabled = FALSE]
      <4>1. (n >= MaxFloodStrikes) = FALSE
        BY <2>5
      <4> QED
        BY <2>3, <4>1, Zenon
    <3> QED
      BY <3>1 DEF Renderer
  <2> QED
    BY <2>4, <2>5
<1> QED
  BY <1>2, <1>3 DEF Edits

\* The preview once the renderer is asked to show something.
LEMMA EventKeepsPreview ==
  ASSUME ChatTyped, Previewed, StreamEvent
  PROVE  failed' = {} => failed = {} /\ Previewed'
<1>1. live \in Renderer /\ live.on
  BY DEF Previewed, StreamEvent
<1>2. CASE UNCHANGED <<live, shown, failed>>
  BY <1>1, <1>2 DEF Previewed
<1>3. CASE live.id # 0 /\ Edits(live) /\ UNCHANGED <<shown, failed>>
  BY <1>1, <1>3, EditsKeep DEF Previewed
<1>4. CASE live.id = 0 /\ \E to \in {live, [live EXCEPT !.id = Len(shown) + 1]} :
            Opens(to) /\ (IF to.id = 0 THEN live' = to ELSE Edits(to))
  <2>1. shown = <<>> /\ Len(shown) = 0
    BY <1>4 DEF Previewed
  <2>2. PICK open : open = [live EXCEPT !.id = Len(shown) + 1]
    OBVIOUS
  <2>3. open \in Renderer /\ open.id = 1 /\ open.on
    BY <1>1, <2>1, <2>2 DEF Renderer
  <2>4. PICK to \in {live, open} : Opens(to) /\ (IF to.id = 0 THEN live' = to ELSE Edits(to))
    BY <1>4, <2>2
  <2>5. live' \in Renderer /\ live'.id = to.id /\ live'.on
    BY <1>1, <1>4, <2>3, <2>4, EditsKeep
  <2>6. failed' = {} => /\ failed = {}
                        /\ (to = open /\ shown' = Preview) \/ (to = live /\ shown' = <<>>)
    <3>1. CASE shown' = Append(shown, Message("preview")) /\ to = open /\ UNCHANGED failed
      BY <2>1, <3>1 DEF Preview
    <3>2. CASE UNCHANGED <<shown, failed>> /\ to = live
      BY <2>1, <3>2
    <3>3. CASE failed' = failed \cup {"preview unanswered"}
      BY <3>3
    <3> QED
      BY <2>2, <2>4, <3>1, <3>2, <3>3 DEF Opens
  <2> QED
    BY <1>4, <2>3, <2>5, <2>6 DEF Previewed
<1> QED
  BY <1>2, <1>3, <1>4 DEF StreamEvent

\* Where a step of a turn leads, if nothing had failed: the step's own part of
\* the argument is which of the stages it leaves and which it enters.
LEMMA OnCourseNow ==
  ASSUME ChatInv, failed = {}
  PROVE  /\ answering.pc \in {"transcript", "admission", "round", "apology"} => Begun
         /\ answering.pc = "finalize" => Answered
         /\ answering.pc = "apologise" => Sorry
         /\ answering.pc \in {"append user", "append assistant", "notes"} => Kept
         /\ answering.pc = "send" => ToSend
         /\ answering.pc = "idle" => Ended
BY DEF ChatInv, OnCourse, Begun, Answered, Sorry, Kept, ToSend, Ended

LEMMA TurnBegins ==
  ASSUME ChatInv, NEW notes \in BOOLEAN, ReceiveMessage(notes) PROVE ChatInv'
<1>1. answering.no \in Nat
  BY DEF ChatInv, ChatTyped, Answering
<1>2. PICK n \in Nat : n = answering.no + 1
  BY <1>1
<1>3. PICK a : a = [NoAnswering EXCEPT !.pc = "transcript", !.notes = notes, !.no = n]
  OBVIOUS
<1>4. a \in Answering /\ a.pc = "transcript" /\ a.parts = 0 /\ a.streamed = FALSE
  <2>1. CASE notes = TRUE
    BY <1>2, <1>3, <2>1 DEF NoAnswering, Answering, Places
  <2>2. CASE notes = FALSE
    BY <1>2, <1>3, <2>2 DEF NoAnswering, Answering, Places
  <2> QED
    BY <2>1, <2>2
<1>5. answering' = a /\ live' = NoLive /\ shown' = <<>>
  BY <1>2, <1>3 DEF ReceiveMessage
<1>6. live' \in Renderer /\ live'.id = 0
  BY <1>5 DEF NoLive, Renderer
<1>7. ChatTyped' /\ Begun'
  BY <1>4, <1>5, <1>6 DEF ChatTyped, Begun, Previewed
<1> QED
  BY <1>7 DEF ChatInv, OnCourse

LEMMA TurnOpens ==
  ASSUME ChatInv, NEW on \in BOOLEAN, OpenRenderer(on) PROVE ChatInv'
<1>1. ChatTyped /\ answering.pc = "transcript"
  BY DEF ChatInv, OpenRenderer, Stands
<1>2. /\ answering' \in Answering /\ answering'.pc = "admission"
      /\ answering'.parts = answering.parts /\ answering'.streamed = answering.streamed
  BY <1>1, Moves DEF OpenRenderer, Places
<1>3. live' \in Renderer /\ live'.id = 0 /\ UNCHANGED <<shown, failed>>
  BY DEF OpenRenderer, NoLive, Renderer
<1>4. ASSUME failed' = {} PROVE Begun'
  <2>1. Begun
    BY <1>1, <1>3, <1>4, OnCourseNow
  <2> QED
    BY <1>1, <1>2, <1>3, <2>1 DEF Begun, Previewed
<1> QED
  BY <1>2, <1>3, <1>4 DEF ChatInv, ChatTyped, OnCourse

\* Within the answering the preview stays what it is.
LEMMA TurnGoesOn ==
  ASSUME ChatInv, answering.pc \in {"admission", "round", "transcript"},
         answering' \in Answering, answering'.pc \in {"round", "apology"},
         answering'.parts = answering.parts, answering'.streamed = answering.streamed,
         UNCHANGED <<live, shown, failed>>
  PROVE  ChatInv'
<1>1. ASSUME failed' = {} PROVE Begun'
  <2>1. Begun
    BY <1>1, OnCourseNow
  <2> QED
    BY <2>1 DEF Begun, Previewed
<1> QED
  BY <1>1 DEF ChatInv, ChatTyped, OnCourse

LEMMA TurnStreams ==
  ASSUME ChatInv, StreamEvent PROVE ChatInv'
<1>1. ChatTyped /\ answering \in Answering /\ answering.pc = "round"
  BY DEF ChatInv, ChatTyped, StreamEvent, Stands
<1>2. PICK a : a = [answering EXCEPT !.events = @ + 1]
  OBVIOUS
<1>3. /\ a \in Answering /\ a.pc = answering.pc
      /\ a.parts = answering.parts /\ a.streamed = answering.streamed
  BY <1>1, <1>2 DEF Answering
<1>4. answering' = a
  BY <1>2 DEF StreamEvent
<1>5. ASSUME failed' = {} PROVE Begun'
  <2>1. failed = {}
    BY <1>5 DEF StreamEvent, Opens
  <2>2. Begun
    BY <1>1, <2>1, OnCourseNow
  <2>3. Previewed'
    BY <1>1, <1>5, <2>2, EventKeepsPreview DEF Begun
  <2> QED
    BY <1>1, <1>3, <1>4, <2>2, <2>3 DEF Begun
<1> QED
  BY <1>3, <1>4, <1>5 DEF ChatInv, ChatTyped, OnCourse

LEMMA TurnAnswers ==
  ASSUME ChatInv, NEW parts \in Nat \ {0}, AnswerTurn(parts) PROVE ChatInv'
<1>1. ChatTyped /\ answering \in Answering /\ answering.pc = "round" /\ UNCHANGED <<live, shown, failed>>
  BY DEF ChatInv, ChatTyped, AnswerTurn, Stands
<1>2. PICK to \in Places : to = IF live.on THEN "finalize" ELSE "append user"
  BY DEF Places
<1>3. PICK a : a = [answering EXCEPT !.pc = to, !.parts = parts]
  OBVIOUS
<1>4. a \in Answering /\ a.pc = to /\ a.parts = parts /\ a.streamed = answering.streamed
  BY <1>1, <1>3 DEF Answering
<1>5. answering' = a
  BY <1>2, <1>3 DEF AnswerTurn
<1>6. ASSUME failed' = {} PROVE Answered' \/ Kept'
  <2>1. Begun
    BY <1>1, <1>6, OnCourseNow
  <2>2. parts > 0
    OBVIOUS
  <2>3. CASE live.on
    BY <1>1, <1>2, <1>4, <1>5, <2>1, <2>2, <2>3 DEF Begun, Answered, Previewed
  <2>4. CASE ~live.on
    BY <1>1, <1>2, <1>4, <1>5, <2>1, <2>2, <2>4 DEF Begun, Kept, Previewed
  <2> QED
    BY <2>3, <2>4
<1> QED
  BY <1>1, <1>4, <1>5, <1>6 DEF ChatInv, ChatTyped, OnCourse

\* The last edit puts the first part where the preview was.
LEMMA FinalEditShows ==
  ASSUME ChatTyped, shown = Preview, live.id = 1, answering.parts > 0,
         shown' = [shown EXCEPT ![live.id] = Part(1)] \o Tail(AllParts)
  PROVE  shown' = AllParts
<1>1. PICK n \in Nat : n = answering.parts /\ n > 0
  BY DEF ChatTyped, Answering
<1>2. AllParts = [i \in 1..n |-> Part(i)]
  BY <1>1 DEF AllParts
<1>3. [shown EXCEPT ![live.id] = Part(1)] = <<Part(1)>>
  BY DEF Preview
<1>4. PICK all : all = AllParts
  OBVIOUS
<1>5. /\ all \in Seq({Part(i) : i \in 1..n}) /\ Len(all) = n
      /\ \A i \in 1..n : all[i] = Part(i)
  <2>1. all = [i \in 1..n |-> Part(i)]
    BY <1>2, <1>4
  <2>2. \A i \in 1..n : all[i] = Part(i)
    BY <2>1
  <2>3. all \in Seq({Part(i) : i \in 1..n})
    <3>1. PICK parts : parts = {Part(i) : i \in 1..n}
      OBVIOUS
    <3>2. all \in [1..n -> parts]
      BY <2>1, <3>1
    <3>3. all \in Seq(parts)
      BY <3>2
    <3> QED
      BY <3>1, <3>3
  <2>4. Len(all) = n
    BY <1>1, <2>1
  <2> QED
    BY <2>2, <2>3, <2>4
<1>6. <<Part(1)>> \o Tail(all) = all
  <2>1. all # <<>> /\ Head(all) = Part(1)
    BY <1>1, <1>5
  <2> QED
    BY <1>5, <2>1, HeadTailProperties
<1> QED
  BY <1>3, <1>4, <1>6

LEMMA TurnFinalizes ==
  ASSUME ChatInv, Finalize PROVE ChatInv'
<1>1. ChatTyped /\ answering \in Answering /\ answering.pc = "finalize" /\ live.id # 0 /\ live' = live
  BY DEF ChatInv, ChatTyped, Finalize, Stands
<1>2. PICK a : a = [answering EXCEPT !.pc = "append user", !.streamed = TRUE]
  OBVIOUS
<1>3. a \in Answering /\ a.pc = "append user" /\ a.parts = answering.parts /\ a.streamed = TRUE
  BY <1>1, <1>2 DEF Answering, Places
<1>4. GoesTo("append user") => answering' \in Answering
  BY <1>1, Moves DEF Places
<1>5. \A rest : FinalEdit(rest) => answering' = a
  BY <1>2 DEF FinalEdit
<1>6. ChatTyped'
  BY <1>1, <1>3, <1>4, <1>5 DEF Finalize, ChatTyped
<1>7. CASE failed' # {}
  BY <1>6, <1>7, OffCourse
<1>8. CASE failed' = {}
  <2>1. FinalEdit(Tail(AllParts)) /\ failed = {}
    BY <1>8 DEF Finalize
  <2>2. Answered
    BY <1>1, <2>1, OnCourseNow
  <2>3. shown' = AllParts
    BY <1>1, <2>1, <2>2, FinalEditShows DEF Answered, Previewed, FinalEdit
  <2>4. answering' = a /\ AllParts' = AllParts
    BY <1>3, <1>5, <2>1 DEF AllParts
  <2>5. Kept'
    BY <1>3, <2>2, <2>3, <2>4 DEF Kept, Answered
  <2> QED
    BY <1>6, <2>5 DEF ChatInv, OnCourse
<1> QED
  BY <1>7, <1>8

\* Nothing is shown in the preview's place.
LEMMA TurnNeverOpened ==
  ASSUME ChatInv, NeverOpened PROVE ChatInv'
<1>1. ChatTyped /\ answering.pc = "finalize" /\ live.id = 0 /\ UNCHANGED <<shown, failed>>
  BY DEF ChatInv, NeverOpened, Stands
<1>2. /\ answering' \in Answering /\ answering'.pc = "append user"
      /\ answering'.parts = answering.parts /\ answering'.streamed = answering.streamed
  BY <1>1, Moves DEF NeverOpened, Places
<1>3. ASSUME failed' = {} PROVE Kept'
  <2>1. Answered
    BY <1>1, <1>3, OnCourseNow
  <2>2. answering.parts > 0 /\ shown = <<>>
    BY <1>1, <2>1 DEF Answered, Previewed
  <2>3. answering'.streamed = FALSE
    BY <1>2, <2>1, Zenon DEF Answered
  <2> QED
    BY <1>1, <1>2, <2>2, <2>3 DEF Kept
<1> QED
  BY <1>2, <1>3 DEF ChatInv, ChatTyped, OnCourse

\* The preview becomes the apology.
LEMMA TurnApologises ==
  ASSUME ChatInv, Apologise PROVE ChatInv'
<1>1. ChatTyped /\ answering.pc = "apology"
  BY DEF ChatInv, Apologise, Stands
<1>2. /\ answering' \in Answering /\ answering'.pc = "apologise"
      /\ answering'.parts = answering.parts
  BY <1>1, Moves DEF Apologise, Places
<1>3. ASSUME failed' = {} PROVE Sorry'
  <2>1. failed = {} /\ (\/ live.id = 0 /\ UNCHANGED shown
                        \/ live.id # 0 /\ shown' = [shown EXCEPT ![live.id] = Message("apology")])
    BY <1>3 DEF Apologise
  <2>2. Begun
    BY <1>1, <2>1, OnCourseNow
  <2>3. CASE live.id = 0 /\ UNCHANGED shown
    BY <1>2, <2>2, <2>3 DEF Begun, Previewed, Sorry
  <2>4. CASE live.id # 0 /\ shown' = [shown EXCEPT ![live.id] = Message("apology")]
    <3>1. live.id = 1 /\ shown = <<Message("preview")>>
      BY <2>2, <2>4 DEF Begun, Previewed, Preview
    <3>2. shown' = <<Message("apology")>>
      BY <2>4, <3>1
    <3> QED
      BY <1>2, <2>2, <3>2 DEF Begun, Sorry
  <2> QED
    BY <2>1, <2>3, <2>4
<1> QED
  BY <1>2, <1>3 DEF ChatInv, ChatTyped, OnCourse

LEMMA TurnKeepsHistory ==
  ASSUME ChatInv, NEW here \in {"append user", "append assistant"}, NEW role,
         NEW next \in {"append assistant", "notes"}, AppendHistory(here, role, next)
  PROVE  ChatInv'
<1>1. ChatTyped /\ answering.pc = here /\ UNCHANGED <<live, shown, failed>>
  BY DEF ChatInv, AppendHistory, Stands
<1>2. PICK to \in {"append assistant", "notes"} : GoesTo(to)
  BY DEF AppendHistory
<1>3. /\ answering' \in Answering /\ answering'.pc = to /\ AllParts' = AllParts
      /\ answering'.parts = answering.parts /\ answering'.streamed = answering.streamed
  BY <1>1, <1>2, Moves DEF Places
<1>4. ASSUME failed' = {} PROVE Kept'
  <2>1. Kept
    BY <1>1, <1>4, OnCourseNow
  <2> QED
    BY <1>1, <1>2, <1>3, <2>1 DEF Kept
<1> QED
  BY <1>3, <1>4 DEF ChatInv, ChatTyped, OnCourse

LEMMA TurnSendsApology ==
  ASSUME ChatInv, SendApology PROVE ChatInv'
<1>1. ChatTyped /\ answering.pc = "apologise"
  BY DEF ChatInv, SendApology, Stands
<1>2. /\ answering' \in Answering /\ answering'.pc = "idle"
      /\ answering'.parts = answering.parts
  BY <1>1, Moves DEF SendApology, Places
<1>3. ASSUME failed' = {} PROVE Ended'
  <2>1. failed = {} /\ shown' = shown \o <<Message("apology")>>
    <3>1. <<Message("apology")>> \in Seq({Message("apology")})
      OBVIOUS
    <3> QED
      BY <1>3, <3>1, SentWhole DEF SendApology
  <2>2. Sorry
    BY <1>1, <2>1, OnCourseNow
  <2>3. ApologyShown'
    <3>1. CASE shown = <<>>
      BY <2>1, <3>1 DEF ApologyShown
    <3>2. CASE shown = <<Message("apology")>>
      BY <2>1, <3>2 DEF ApologyShown
    <3> QED
      BY <2>2, <3>1, <3>2 DEF Sorry
  <2> QED
    BY <1>2, <2>2, <2>3 DEF Sorry, Ended
<1> QED
  BY <1>2, <1>3 DEF ChatInv, ChatTyped, OnCourse

\* What is read and shown as messages is a sequence.
LEMMA PartsAreSent ==
  ASSUME ChatTyped
  PROVE  /\ AllParts \in Seq({Part(i) : i \in 1..answering.parts})
         /\ <<Message("notes")>> \in Seq({Message("notes")})
         /\ <<>> \o AllParts = AllParts
         /\ <<>> \o <<Message("notes")>> = <<Message("notes")>>
<1>1. answering.parts \in Nat
  BY DEF ChatTyped, Answering
<1>2. AllParts \in Seq({Part(i) : i \in 1..answering.parts})
  BY <1>1 DEF AllParts
<1> QED
  BY <1>2

LEMMA TurnSendsNotes ==
  ASSUME ChatInv, SendNotes PROVE ChatInv'
<1>1. ChatTyped /\ answering.pc = "notes"
  BY DEF ChatInv, SendNotes, Stands
<1>2. PICK to \in {"idle", "send"} : to = IF answering.streamed THEN "idle" ELSE "send"
  BY Zenon
<1>3. /\ answering' \in Answering /\ answering'.pc = to /\ AllParts' = AllParts
      /\ answering'.parts = answering.parts
  BY <1>1, <1>2, Moves DEF SendNotes, Places
<1>4. ASSUME failed' = {} PROVE Ended' \/ ToSend'
  <2>1. failed = {} /\ (shown' = shown \o <<Message("notes")>> \/ UNCHANGED shown)
    <3>1. CASE answering.notes
      BY <1>1, <1>4, <3>1, PartsAreSent, SentWhole DEF SendNotes
    <3>2. CASE ~answering.notes
      BY <1>4, <3>2 DEF SendNotes
    <3> QED
      BY <3>1, <3>2
  <2>2. Kept
    BY <1>1, <2>1, OnCourseNow
  <2>3. CASE answering.streamed
    <3>1. shown = AllParts /\ to = "idle"
      BY <1>2, <2>2, <2>3 DEF Kept
    <3>2. AnswerShown'
      BY <1>3, <2>1, <3>1 DEF AnswerShown
    <3> QED
      BY <1>3, <2>2, <3>1, <3>2 DEF Kept, Ended
  <2>4. CASE ~answering.streamed
    <3>1. shown = <<>> /\ to = "send"
      BY <1>2, <2>2, <2>4 DEF Kept
    <3>2. shown' = <<>> \/ shown' = <<Message("notes")>>
      BY <1>1, <2>1, <3>1, PartsAreSent
    <3> QED
      BY <1>3, <2>2, <3>1, <3>2 DEF Kept, ToSend
  <2> QED
    BY <2>3, <2>4
<1> QED
  BY <1>3, <1>4 DEF ChatInv, ChatTyped, OnCourse

LEMMA TurnSendsAnswer ==
  ASSUME ChatInv, SendAnswer PROVE ChatInv'
<1>1. ChatTyped /\ answering.pc = "send"
  BY DEF ChatInv, SendAnswer, Stands
<1>2. /\ answering' \in Answering /\ answering'.pc = "idle" /\ AllParts' = AllParts
      /\ answering'.parts = answering.parts
  BY <1>1, Moves DEF SendAnswer, Places
<1>3. ASSUME failed' = {} PROVE Ended'
  <2>1. failed = {} /\ shown' = shown \o AllParts
    BY <1>1, <1>3, PartsAreSent, SentWhole DEF SendAnswer
  <2>2. ToSend
    BY <1>1, <2>1, OnCourseNow
  <2>3. AnswerShown'
    <3>1. CASE shown = <<>>
      BY <1>1, <1>2, <2>1, <3>1, PartsAreSent DEF AnswerShown
    <3>2. CASE shown = <<Message("notes")>>
      BY <1>2, <2>1, <3>2 DEF AnswerShown
    <3> QED
      BY <2>2, <3>1, <3>2 DEF ToSend
  <2> QED
    BY <1>2, <2>2, <2>3 DEF ToSend, Ended
<1> QED
  BY <1>2, <1>3 DEF ChatInv, ChatTyped, OnCourse

\* The steps that only move the turn along before its answer.
LEMMA TurnMovesOn ==
  ASSUME ChatInv,
         \/ \E p \in {"native", "text"} : Admit(p)
         \/ Fails
         \/ \E n \in 1..2 : UseTools(n)
         \/ UseTextTool
  PROVE  ChatInv'
<1>1. ChatTyped /\ answering \in Answering
  BY DEF ChatInv, ChatTyped
<1>2. ASSUME NEW p \in {"native", "text"}, Admit(p) PROVE ChatInv'
  <2>1. PICK a : a = [answering EXCEPT !.pc = "round", !.protocol = p]
    OBVIOUS
  <2>2. /\ a \in Answering /\ a.pc = "round"
        /\ a.parts = answering.parts /\ a.streamed = answering.streamed
    BY <1>1, <2>1 DEF Answering, Places
  <2>3. answering' = a /\ answering.pc = "admission" /\ UNCHANGED <<live, shown, failed>>
    BY <1>2, <2>1 DEF Admit, Stands
  <2> QED
    BY <2>2, <2>3, TurnGoesOn
<1>3. CASE Fails
  <2>1. answering.pc \in {"transcript", "admission", "round"} /\ UNCHANGED <<live, shown, failed>>
    BY <1>3 DEF Fails
  <2>2. /\ answering' \in Answering /\ answering'.pc = "apology"
        /\ answering'.parts = answering.parts /\ answering'.streamed = answering.streamed
    BY <1>1, <1>3, Moves DEF Fails, Places
  <2> QED
    BY <2>1, <2>2, TurnGoesOn
<1>4. ASSUME NEW messages, NextRound(messages) PROVE ChatInv'
  <2>1. answering.round \in Nat
    BY <1>1 DEF Answering
  <2>2. PICK n \in Nat : n = answering.round + 1
    BY <2>1
  <2>3. PICK a : a = [answering EXCEPT !.round = n]
    OBVIOUS
  <2>4. /\ a \in Answering /\ a.pc = answering.pc
        /\ a.parts = answering.parts /\ a.streamed = answering.streamed
    BY <1>1, <2>3 DEF Answering
  <2>5. answering' = a /\ answering.pc = "round" /\ UNCHANGED <<live, shown, failed>>
    BY <1>4, <2>2, <2>3 DEF NextRound, Stands
  <2> QED
    BY <2>4, <2>5, TurnGoesOn
<1> QED
  BY <1>2, <1>3, <1>4 DEF UseTools, UseTextTool

LEMMA ChatInvNext == ChatInv /\ [ChatNext]_chatVars => ChatInv'
<1> SUFFICES ASSUME ChatInv, [ChatNext]_chatVars PROVE ChatInv'
  OBVIOUS
<1>1. CASE ProcessDies
  <2>1. answering' \in Answering
    BY <1>1, Moves DEF ProcessDies, ChatInv, Places
  <2> QED
    BY <1>1, <2>1, OffCourse DEF ProcessDies, ChatTyped
<1>2. CASE UNCHANGED chatVars
  BY <1>2 DEF chatVars, ChatInv, ChatTyped, OnCourse, Begun, Answered, Sorry, Kept, ToSend, Ended,
              Previewed, AnswerShown, ApologyShown, AllParts
<1>3. ASSUME NEW n \in 1..MaxParts, AnswerTurn(n) PROVE ChatInv'
  BY <1>3, ChatAssumption, TurnAnswers
<1>4. CASE AppendHistory("append user", "user", "append assistant")
           \/ AppendHistory("append assistant", "assistant", "notes")
  BY <1>4, TurnKeepsHistory
<1>5. CASE \/ \E p \in {"native", "text"} : Admit(p)
           \/ Fails
           \/ \E n \in 1..2 : UseTools(n)
           \/ UseTextTool
  BY <1>5, TurnMovesOn
<1> QED
  BY <1>1, <1>2, <1>3, <1>4, <1>5, TurnBegins, TurnOpens, TurnStreams, TurnFinalizes, TurnNeverOpened,
     TurnApologises, TurnSendsApology, TurnSendsNotes, TurnSendsAnswer
  DEF ChatNext

\* However the preview fared, a turn that ended shows its answer whole and once
\* or an apology, and no preview, unless the process died or the messenger
\* failed a final rendering or left open whether a preview was sent.
THEOREM TurnsConverge == ChatSpec => []Converges
BY ChatInvInit, ChatInvNext, ChatInvConverges, PTL DEF ChatSpec

-----------------------------------------------------------------------------
(* Events from Telegram.                                                   *)

PollSpec == PollInit /\ [][PollNext]_pollVars

\* A turn past its claim, one that may still answer, and one that failed.
Past == {"gates", "ingest", "answer", "answer last", "log", "log then answer", "log the error",
         "succeeded", "failed"}
MayAnswer == {"gates", "ingest", "answer", "answer last", "log then answer"}
InError == {"log the error", "failed"}

Claims == [state: {"none", "processing", "succeeded", "failed"}, gen: Nat, lapsed: BOOLEAN]

\* Nothing is said of what an event is made of.
PollTyped ==
  /\ turn = [t \in Threads |-> [pc |-> turn[t].pc, event |-> turn[t].event, gen |-> turn[t].gen]]
  /\ claim \in [Ids -> Claims]
  /\ answers \in [Ids -> Nat]

Works(t, i) == turn[t].event.id = i /\ turn[t].pc \in Past

\* An event whose turn has neither raised nor outlived its lease is claimed once,
\* and whoever claimed it answers once: its claim is never free again.
Once(i) ==
  /\ claim[i].state \in {"none", "processing", "succeeded"} /\ claim[i].lapsed = FALSE
  /\ answers[i] <= 1
  /\ claim[i].state = "none" => answers[i] = 0 /\ \A t \in Threads : ~Works(t, i)
  /\ \A t \in Threads : Works(t, i) =>
       /\ turn[t].pc \in MayAnswer => answers[i] = 0
       /\ turn[t].pc \notin InError
       /\ \A u \in Threads : Works(u, i) => u = t

PollInv == PollTyped /\ \A i \in Ids \ broken : Once(i)

\* The steps that only move turns along, none of them to an answer or an error it
\* had not been coming to.
Along(t, i) ==
  \/ turn'[t] = turn[t]
  \/ turn'[t].pc \notin Past
  \/ turn'[t].event.id # i
  \/ /\ turn'[t].event = turn[t].event
     /\ turn[t].pc \in Past
     /\ turn'[t].pc \in MayAnswer => turn[t].pc \in MayAnswer
     /\ turn'[t].pc \in InError => turn[t].pc \in InError

LEMMA OnceKept ==
  ASSUME NEW i \in Ids, Once(i), claim'[i] = claim[i], answers'[i] = answers[i],
         \A t \in Threads : Along(t, i)
  PROVE  Once(i)'
<1>1. ASSUME NEW t \in Threads, Works(t, i)' PROVE Works(t, i)
  BY <1>1 DEF Along, Works
<1>2. ASSUME NEW t \in Threads, Works(t, i)'
      PROVE  /\ turn'[t].pc \in MayAnswer => answers'[i] = 0
             /\ turn'[t].pc \notin InError
  <2>1. Works(t, i)
    BY <1>1, <1>2
  <2>2. /\ turn'[t].pc \in MayAnswer => turn[t].pc \in MayAnswer
        /\ turn'[t].pc \in InError => turn[t].pc \in InError
    BY <1>2 DEF Along, Works
  <2> QED
    BY <2>1, <2>2 DEF Once
<1>3. ASSUME NEW t \in Threads, NEW u \in Threads, Works(t, i)', Works(u, i)' PROVE u = t
  BY <1>1, <1>3 DEF Once
<1>4. claim'[i].state = "none" => answers'[i] = 0 /\ \A t \in Threads : ~Works(t, i)'
  BY <1>1 DEF Once
<1> QED
  BY <1>2, <1>3, <1>4 DEF Once

\* One thread has another record, of whatever kind.
LEMMA ThreadMoves ==
  ASSUME PollTyped, NEW t \in Threads, NEW pc, NEW event, NEW gen,
         turn' = [turn EXCEPT ![t] = [pc |-> pc, event |-> event, gen |-> gen]]
  PROVE  /\ turn' = [u \in Threads |-> [pc |-> turn'[u].pc, event |-> turn'[u].event, gen |-> turn'[u].gen]]
         /\ turn'[t].pc = pc /\ turn'[t].event = event /\ turn'[t].gen = gen
         /\ \A u \in Threads \ {t} : turn'[u] = turn[u]
<1>1. DOMAIN turn = Threads
  BY DEF PollTyped
<1>2. turn'[t] = [pc |-> pc, event |-> event, gen |-> gen] /\ \A u \in Threads \ {t} : turn'[u] = turn[u]
  BY <1>1
<1>3. \A u \in Threads : turn[u] = [pc |-> turn[u].pc, event |-> turn[u].event, gen |-> turn[u].gen]
  BY DEF PollTyped
<1>4. \A u \in Threads : turn'[u] = [pc |-> turn'[u].pc, event |-> turn'[u].event, gen |-> turn'[u].gen]
  <2>1. ASSUME NEW u \in Threads
        PROVE  turn'[u] = [pc |-> turn'[u].pc, event |-> turn'[u].event, gen |-> turn'[u].gen]
    <3>1. CASE u = t
      BY <1>2, <3>1
    <3>2. CASE u # t
      BY <1>2, <1>3, <3>2
    <3> QED
      BY <3>1, <3>2
  <2> QED
    BY <2>1
<1>5. turn' = [u \in Threads |-> turn'[u]]
  BY <1>1
<1> QED
  BY <1>2, <1>4, <1>5

LEMMA TurnGoes ==
  ASSUME PollTyped, NEW t \in Threads, NEW pc, turn' = [turn EXCEPT ![t].pc = pc]
  PROVE  /\ turn' = [u \in Threads |-> [pc |-> turn'[u].pc, event |-> turn'[u].event, gen |-> turn'[u].gen]]
         /\ turn'[t].pc = pc /\ turn'[t].event = turn[t].event
         /\ \A u \in Threads \ {t} : turn'[u] = turn[u]
<1>1. DOMAIN turn = Threads
  BY DEF PollTyped
<1>2. \A u \in Threads : turn[u] = [pc |-> turn[u].pc, event |-> turn[u].event, gen |-> turn[u].gen]
  BY DEF PollTyped
<1>3. turn'[t] = [turn[t] EXCEPT !.pc = pc] /\ \A u \in Threads \ {t} : turn'[u] = turn[u]
  BY <1>1
<1>4. turn'[t] = [pc |-> pc, event |-> turn[t].event, gen |-> turn[t].gen]
  <2>1. turn[t] = [pc |-> turn[t].pc, event |-> turn[t].event, gen |-> turn[t].gen]
    BY <1>2
  <2>2. [turn[t] EXCEPT !.pc = pc] = [pc |-> pc, event |-> turn[t].event, gen |-> turn[t].gen]
    BY <2>1
  <2> QED
    BY <1>3, <2>2
<1>5. ASSUME NEW u \in Threads
      PROVE  turn'[u] = [pc |-> turn'[u].pc, event |-> turn'[u].event, gen |-> turn'[u].gen]
  <2>1. CASE u = t
    BY <1>4, <2>1
  <2>2. CASE u # t
    BY <1>2, <1>3, <2>2
  <2> QED
    BY <2>1, <2>2
<1>6. turn' = [u \in Threads |-> turn'[u]]
  BY <1>1
<1> QED
  BY <1>3, <1>4, <1>5, <1>6

\* A thread moves along, and no event that is whole is touched otherwise.
LEMMA OneMovesAlong ==
  ASSUME PollInv, NEW t \in Threads, broken \subseteq broken',
         turn' = [u \in Threads |-> [pc |-> turn'[u].pc, event |-> turn'[u].event, gen |-> turn'[u].gen]],
         \A u \in Threads \ {t} : turn'[u] = turn[u],
         \A i \in Ids \ broken' : Along(t, i),
         claim' \in [Ids -> Claims], answers' \in [Ids -> Nat],
         \A i \in Ids \ broken' : claim'[i] = claim[i] /\ answers'[i] = answers[i]
  PROVE  PollInv'
<1>1. ASSUME NEW i \in Ids \ broken' PROVE Once(i)'
  <2>1. Once(i) /\ claim'[i] = claim[i] /\ answers'[i] = answers[i]
    BY DEF PollInv
  <2>2. \A u \in Threads : Along(u, i)
    BY DEF Along
  <2> QED
    BY <2>1, <2>2, OnceKept
<1>2. PollTyped'
  BY DEF PollTyped
<1>3. Ids' = Ids
  BY DEF Ids
<1> QED
  BY <1>1, <1>2, <1>3 DEF PollInv

LEMMA NobodyMoves ==
  ASSUME PollInv, turn' = turn, UNCHANGED <<claim, answers>>, broken \subseteq broken'
  PROVE  PollInv'
<1>1. ASSUME NEW i \in Ids \ broken' PROVE Once(i)'
  <2>1. Once(i) /\ \A u \in Threads : Along(u, i)
    BY DEF PollInv, Along
  <2> QED
    BY <2>1, OnceKept
<1>2. PollTyped'
  BY DEF PollInv, PollTyped
<1>3. Ids' = Ids
  BY DEF Ids
<1> QED
  BY <1>1, <1>2, <1>3 DEF PollInv

\* A thread takes an event up, or leaves one.
LEMMA ThreadBegins ==
  ASSUME PollInv, NEW t \in Threads, NEW e, Begin(t, e), UNCHANGED <<claim, answers, broken>>
  PROVE  PollInv'
<1>1. PollTyped
  BY DEF PollInv
<1>2. /\ turn' = [u \in Threads |-> [pc |-> turn'[u].pc, event |-> turn'[u].event, gen |-> turn'[u].gen]]
      /\ turn'[t].pc = "look" /\ \A u \in Threads \ {t} : turn'[u] = turn[u]
  BY <1>1, ThreadMoves DEF Begin
<1>3. \A i \in Ids \ broken' : Along(t, i)
  BY <1>2 DEF Along, Past
<1> QED
  BY <1>1, <1>2, <1>3, OneMovesAlong DEF PollTyped

LEMMA ThreadLeaves ==
  ASSUME PollInv, NEW t \in Threads, turn' = [turn EXCEPT ![t] = NoTurn], UNCHANGED answers,
         broken \subseteq broken', claim' \in [Ids -> Claims],
         \A i \in Ids \ broken' : claim'[i] = claim[i]
  PROVE  PollInv'
<1>1. PollTyped
  BY DEF PollInv
<1>2. /\ turn' = [u \in Threads |-> [pc |-> turn'[u].pc, event |-> turn'[u].event, gen |-> turn'[u].gen]]
      /\ turn'[t].pc = "idle" /\ \A u \in Threads \ {t} : turn'[u] = turn[u]
  BY <1>1, ThreadMoves DEF NoTurn
<1>3. \A i \in Ids \ broken' : Along(t, i)
  BY <1>2 DEF Along, Past
<1> QED
  BY <1>1, <1>2, <1>3, OneMovesAlong DEF PollTyped

LEMMA ThreadProceeds ==
  ASSUME PollInv, NEW t \in Threads, NEW pc, turn' = [turn EXCEPT ![t].pc = pc],
         UNCHANGED <<claim, answers>>, broken \subseteq broken',
         \/ pc \notin Past
         \/ turn[t].event.id \in broken'
         \/ /\ turn[t].pc \in Past
            /\ pc \in MayAnswer => turn[t].pc \in MayAnswer
            /\ pc \in InError => turn[t].pc \in InError
  PROVE  PollInv'
<1>1. PollTyped
  BY DEF PollInv
<1>2. /\ turn' = [u \in Threads |-> [pc |-> turn'[u].pc, event |-> turn'[u].event, gen |-> turn'[u].gen]]
      /\ turn'[t].pc = pc /\ turn'[t].event = turn[t].event
      /\ \A u \in Threads \ {t} : turn'[u] = turn[u]
  BY <1>1, TurnGoes
<1>3. \A i \in Ids \ broken' : Along(t, i)
  BY <1>2 DEF Along
<1> QED
  BY <1>1, <1>2, <1>3, OneMovesAlong DEF PollTyped

\* The claim is made once: nobody is at the event, and it has no answer.
LEMMA EventClaimed ==
  ASSUME PollInv, NEW t \in Threads, ClaimEvent(t), Free(claim[turn[t].event.id])
  PROVE  PollInv'
<1>1. PollTyped /\ turn[t].pc = "claim"
  BY DEF PollInv, ClaimEvent, At
<1>2. PICK id, event : event = turn[t].event /\ id = turn[t].event.id
  OBVIOUS
<1>3. PICK gen : gen = claim[id].gen + 1
  OBVIOUS
<1>4. PICK k : k = [state |-> "processing", gen |-> gen, lapsed |-> FALSE]
  OBVIOUS
<1>5. claim' = [claim EXCEPT ![id] = k] /\ UNCHANGED <<answers, broken>>
      /\ turn' = [turn EXCEPT ![t] = [turn[t] EXCEPT !.pc = "gates", !.gen = gen]]
  BY <1>2, <1>3, <1>4 DEF ClaimEvent
<1>6. turn' = [turn EXCEPT ![t] = [pc |-> "gates", event |-> event, gen |-> gen]]
  <2>1. turn[t] = [pc |-> turn[t].pc, event |-> turn[t].event, gen |-> turn[t].gen]
    BY <1>1 DEF PollTyped
  <2>2. PICK now : now = [turn[t] EXCEPT !.pc = "gates"]
    OBVIOUS
  <2>3. now = [pc |-> "gates", event |-> event, gen |-> turn[t].gen]
    BY <1>2, <2>1, <2>2
  <2>4. [now EXCEPT !.gen = gen] = [pc |-> "gates", event |-> event, gen |-> gen]
    BY <2>3
  <2> QED
    BY <1>5, <2>2, <2>4
<1>7. /\ turn' = [u \in Threads |-> [pc |-> turn'[u].pc, event |-> turn'[u].event, gen |-> turn'[u].gen]]
      /\ turn'[t].pc = "gates" /\ turn'[t].event = event /\ \A u \in Threads \ {t} : turn'[u] = turn[u]
  BY <1>1, <1>6, ThreadMoves
<1>8. id \in Ids => k \in Claims
  <2>1. ASSUME id \in Ids PROVE k \in Claims
    <3>1. claim[id] \in Claims
      BY <1>1, <2>1 DEF PollTyped
    <3>2. gen \in Nat
      BY <1>3, <3>1 DEF Claims
    <3> QED
      BY <1>4, <3>2 DEF Claims
  <2> QED
    BY <2>1
<1>9. claim' \in [Ids -> Claims] /\ \A i \in Ids : claim'[i] = IF i = id THEN k ELSE claim[i]
  BY <1>1, <1>5, <1>8 DEF PollTyped
<1>10. PollTyped'
  BY <1>1, <1>5, <1>7, <1>9 DEF PollTyped
<1>11. ASSUME NEW i \in Ids \ broken', i # id PROVE Once(i)'
  <2>1. Once(i) /\ claim'[i] = claim[i] /\ answers'[i] = answers[i]
    BY <1>5, <1>9, <1>11 DEF PollInv
  <2>2. \A u \in Threads : Along(u, i)
    BY <1>2, <1>7, <1>11 DEF Along
  <2> QED
    BY <2>1, <2>2, OnceKept
<1>12. ASSUME id \in Ids \ broken' PROVE Once(id)'
  <2>1. Once(id)
    BY <1>5, <1>12 DEF PollInv
  <2>2. claim[id].state = "none"
    BY <1>2, <2>1 DEF Once, Free
  <2>3. answers'[id] = 0 /\ \A u \in Threads : ~Works(u, id)
    BY <1>5, <2>1, <2>2 DEF Once
  <2>4. \A u \in Threads : Works(u, id)' => u = t
    BY <1>7, <2>3 DEF Works
  <2>5. claim'[id].state = "processing" /\ claim'[id].lapsed = FALSE
    BY <1>4, <1>9, <1>12
  <2>6. turn'[t].pc \notin InError
    BY <1>7 DEF InError
  <2> QED
    BY <2>3, <2>4, <2>5, <2>6 DEF Once
<1>13. Ids' = Ids
  BY DEF Ids
<1> QED
  BY <1>10, <1>11, <1>12, <1>13 DEF PollInv

\* It answers, and goes on where no second answer waits.
LEMMA EventAnswered ==
  ASSUME PollInv, NEW t \in Threads, Answer(t)
  PROVE  PollInv'
<1>1. PollTyped /\ turn[t].pc \in {"answer", "answer last"} /\ UNCHANGED <<claim, broken>>
  BY DEF PollInv, Answer, stored
<1>2. PICK id : id = turn[t].event.id
  OBVIOUS
<1>3. answers' = [answers EXCEPT ![id] = @ + 1]
  BY <1>2 DEF Answer
<1>4. answers' \in [Ids -> Nat] /\ \A i \in Ids : answers'[i] = IF i = id THEN answers[i] + 1 ELSE answers[i]
  <2>1. answers \in [Ids -> Nat]
    BY <1>1 DEF PollTyped
  <2>2. CASE id \in Ids
    BY <1>3, <2>1, <2>2
  <2>3. CASE id \notin Ids
    <3>1. answers' = answers
      BY <1>3, <2>1, <2>3
    <3> QED
      BY <2>1, <2>3, <3>1
  <2> QED
    BY <2>2, <2>3
<1>5. /\ turn' = [u \in Threads |-> [pc |-> turn'[u].pc, event |-> turn'[u].event, gen |-> turn'[u].gen]]
      /\ turn'[t].pc \in {"log", "idle"} /\ \A u \in Threads \ {t} : turn'[u] = turn[u]
      /\ (turn'[t].pc = "log" => turn'[t].event = turn[t].event)
  <2>1. CASE turn' = [turn EXCEPT ![t] = NoTurn]
    BY <1>1, <2>1, ThreadMoves DEF NoTurn
  <2>2. CASE turn' = [turn EXCEPT ![t].pc = "log"]
    BY <1>1, <2>2, TurnGoes
  <2> QED
    BY <2>1, <2>2 DEF Answer, Go, Return
<1>6. PollTyped'
  BY <1>1, <1>4, <1>5 DEF PollTyped
<1>7. ASSUME NEW i \in Ids \ broken', i # id PROVE Once(i)'
  <2>1. Once(i) /\ claim'[i] = claim[i] /\ answers'[i] = answers[i]
    BY <1>1, <1>4, <1>7 DEF PollInv
  <2>2. \A u \in Threads : Along(u, i)
    BY <1>2, <1>5, <1>7 DEF Along, Past
  <2> QED
    BY <2>1, <2>2, OnceKept
<1>8. ASSUME id \in Ids \ broken' PROVE Once(id)'
  <2>1. Once(id) /\ Works(t, id) /\ turn[t].pc \in MayAnswer
    BY <1>1, <1>2, <1>8 DEF PollInv, Works, Past, MayAnswer
  <2>2. answers[id] = 0 /\ claim[id].state # "none"
    BY <2>1 DEF Once
  <2>3. claim'[id] = claim[id] /\ answers'[id] = 1
    <3>1. answers'[id] = answers[id] + 1
      BY <1>4, <1>8
    <3>2. answers'[id] = 1
      BY <2>2, <3>1
    <3> QED
      BY <1>1, <3>2
  <2>4. \A u \in Threads : Works(u, id)' => Works(u, id) /\ u = t
    BY <1>2, <1>5, <2>1 DEF Once, Works, Past
  <2>5. turn'[t].pc \notin MayAnswer /\ turn'[t].pc \notin InError
    BY <1>5 DEF MayAnswer, InError
  <2> QED
    BY <2>1, <2>2, <2>3, <2>4, <2>5 DEF Once
<1>9. Ids' = Ids
  BY DEF Ids
<1> QED
  BY <1>1, <1>6, <1>7, <1>8, <1>9 DEF PollInv

\* Closing a claim leaves every other one alone.
LEMMA ClaimCloses ==
  ASSUME PollTyped, NEW i, NEW gen, NEW state \in {"succeeded", "failed"}, Close(i, gen, state)
  PROVE  /\ claim' \in [Ids -> Claims]
         /\ \A j \in Ids : j # i => claim'[j] = claim[j]
         /\ i \in Ids => claim'[i].lapsed = claim[i].lapsed /\ claim'[i].state \in {claim[i].state, state}
<1>1. claim \in [Ids -> Claims]
  BY DEF PollTyped
<1>2. CASE claim' = claim
  BY <1>1, <1>2
<1>3. CASE claim' = [claim EXCEPT ![i].state = state]
  <2>1. ASSUME NEW j \in Ids PROVE [claim[j] EXCEPT !.state = state] \in Claims
    BY <1>1 DEF Claims
  <2>2. ASSUME i \in Ids PROVE claim'[i] = [claim[i] EXCEPT !.state = state] /\ claim[i] \in Claims
    BY <1>1, <1>3, <2>2
  <2>3. i \in Ids => claim'[i].lapsed = claim[i].lapsed /\ claim'[i].state = state
    BY <2>2 DEF Claims
  <2>4. claim' \in [Ids -> Claims] /\ \A j \in Ids : j # i => claim'[j] = claim[j]
    BY <1>1, <1>3, <2>1
  <2> QED
    BY <2>3, <2>4
<1> QED
  BY <1>2, <1>3 DEF Close

LEMMA EventClosed ==
  ASSUME PollInv, NEW t \in Threads, CloseClaim(t)
  PROVE  PollInv'
<1>1. PollTyped /\ turn[t].pc \in {"succeeded", "failed"} /\ UNCHANGED <<answers, broken>>
      /\ turn' = [turn EXCEPT ![t] = NoTurn]
  BY DEF PollInv, CloseClaim, Return
<1>2. PICK id, gen : id = turn[t].event.id /\ gen = turn[t].gen
  OBVIOUS
<1>3. PICK state \in {"succeeded", "failed"} : state = turn[t].pc
  BY <1>1
<1>4. Close(id, gen, state)
  BY <1>2, <1>3 DEF CloseClaim
<1>5. /\ claim' \in [Ids -> Claims]
      /\ \A j \in Ids : j # id => claim'[j] = claim[j]
      /\ id \in Ids => claim'[id].lapsed = claim[id].lapsed /\ claim'[id].state \in {claim[id].state, state}
  BY <1>1, <1>4, ClaimCloses
<1>6. /\ turn' = [u \in Threads |-> [pc |-> turn'[u].pc, event |-> turn'[u].event, gen |-> turn'[u].gen]]
      /\ turn'[t].pc = "idle" /\ \A u \in Threads \ {t} : turn'[u] = turn[u]
  BY <1>1, ThreadMoves DEF NoTurn
<1>7. PollTyped'
  BY <1>1, <1>5, <1>6 DEF PollTyped
<1>8. ASSUME NEW i \in Ids \ broken', i # id PROVE Once(i)'
  <2>1. Once(i) /\ claim'[i] = claim[i] /\ answers'[i] = answers[i]
    BY <1>1, <1>5, <1>8 DEF PollInv
  <2>2. \A u \in Threads : Along(u, i)
    BY <1>6 DEF Along, Past
  <2> QED
    BY <2>1, <2>2, OnceKept
<1>9. ASSUME id \in Ids \ broken' PROVE Once(id)'
  <2>1. Once(id) /\ Works(t, id)
    BY <1>1, <1>2, <1>9 DEF PollInv, Works, Past
  <2>2. state = "succeeded"
    BY <1>3, <2>1 DEF Once, InError
  <2>3. claim'[id].state \in {"processing", "succeeded"} /\ claim'[id].lapsed = FALSE /\ answers'[id] <= 1
    BY <1>1, <1>5, <1>9, <2>1, <2>2 DEF Once
  <2>4. \A u \in Threads : ~Works(u, id)'
    BY <1>6, <2>1 DEF Once, Works, Past
  <2> QED
    BY <2>3, <2>4 DEF Once
<1>10. Ids' = Ids
  BY DEF Ids
<1> QED
  BY <1>1, <1>7, <1>8, <1>9, <1>10 DEF PollInv

LEMMA EventRaises ==
  ASSUME PollInv, NEW t \in Threads, Raise(t)
  PROVE  PollInv'
<1>1. PICK id, gen : id = turn[t].event.id /\ gen = turn[t].gen
  OBVIOUS
<1>2. /\ broken' = broken \cup {id} /\ Close(id, gen, "failed")
      /\ turn' = [turn EXCEPT ![t] = NoTurn] /\ UNCHANGED answers
  BY <1>1 DEF Raise
<1>3. claim' \in [Ids -> Claims] /\ \A j \in Ids : j # id => claim'[j] = claim[j]
  BY <1>2, ClaimCloses DEF PollInv
<1> QED
  BY <1>2, <1>3, ThreadLeaves

LEMMA EventIngested ==
  ASSUME PollInv, NEW t \in Threads, Ingest(t)
  PROVE  PollInv'
<1>1. turn[t].pc = "ingest" /\ UNCHANGED <<claim, answers>>
  BY DEF Ingest, At
<1>2. CASE turn' = [turn EXCEPT ![t].pc = "answer"] /\ UNCHANGED broken
  BY <1>1, <1>2, ThreadProceeds DEF Past, MayAnswer, InError
<1>3. CASE turn' = [turn EXCEPT ![t].pc = "log the error"] /\ broken' = broken \cup {turn[t].event.id}
  BY <1>1, <1>3, ThreadProceeds
<1> QED
  BY <1>2, <1>3 DEF Ingest, Go

LEMMA EventGoesOn ==
  ASSUME PollInv, NEW t \in Threads, Look(t) \/ Gates(t) \/ LogEvent(t)
         \/ (ClaimEvent(t) /\ ~Free(claim[turn[t].event.id]))
  PROVE  PollInv'
<1>1. UNCHANGED <<claim, answers, broken>>
  BY DEF Look, Gates, LogEvent, ClaimEvent, stored
<1>2. CASE turn' = [turn EXCEPT ![t] = NoTurn]
  BY <1>1, <1>2, ThreadLeaves DEF PollInv, PollTyped
<1>3. CASE Look(t) /\ turn' = [turn EXCEPT ![t].pc = "claim"]
  BY <1>1, <1>3, ThreadProceeds DEF Past
<1>4. CASE Gates(t) /\ \E pc \in {"log", "ingest", "answer", "log then answer"} : turn' = [turn EXCEPT ![t].pc = pc]
  <2>1. turn[t].pc = "gates"
    BY <1>4 DEF Gates, At
  <2> QED
    BY <1>1, <1>4, <2>1, ThreadProceeds DEF Past, MayAnswer, InError
<1>5. CASE LogEvent(t)
  <2>1. CASE turn[t].pc = "log"
    <3>1. turn' = [turn EXCEPT ![t].pc = "succeeded"]
      BY <1>5, <2>1 DEF LogEvent, Go, At
    <3> QED
      BY <1>1, <2>1, <3>1, ThreadProceeds DEF Past, MayAnswer, InError
  <2>2. CASE turn[t].pc = "log then answer"
    <3>1. turn' = [turn EXCEPT ![t].pc = "answer last"]
      BY <1>5, <2>2 DEF LogEvent, Go, At
    <3> QED
      BY <1>1, <2>2, <3>1, ThreadProceeds DEF Past, MayAnswer, InError
  <2>3. CASE turn[t].pc = "log the error"
    <3>1. turn' = [turn EXCEPT ![t].pc = "failed"]
      BY <1>5, <2>3 DEF LogEvent, Go, At
    <3> QED
      BY <1>1, <2>3, <3>1, ThreadProceeds DEF Past, MayAnswer, InError
  <2> QED
    BY <1>5, <2>1, <2>2, <2>3 DEF LogEvent
<1>6. CASE Look(t)
  BY <1>2, <1>3, <1>6 DEF Look, Go, Return
<1>7. CASE Gates(t)
  BY <1>2, <1>4, <1>7 DEF Gates, Go, Return
<1>8. CASE ClaimEvent(t) /\ ~Free(claim[turn[t].event.id])
  BY <1>2, <1>8 DEF ClaimEvent, Return
<1> QED
  BY <1>5, <1>6, <1>7, <1>8

\* A lease runs out, which makes the event one that may be answered again.
LEMMA EventLapses ==
  ASSUME PollInv, NEW id \in Ids, Lapse(id)
  PROVE  PollInv'
<1>1. claim' = [claim EXCEPT ![id].lapsed = TRUE] /\ broken' = broken \cup {id}
      /\ UNCHANGED <<turn, answers>>
  BY DEF Lapse, memory
<1>2. claim \in [Ids -> Claims]
  BY DEF PollInv, PollTyped
<1>3. \A i \in Ids : [claim[i] EXCEPT !.lapsed = TRUE] \in Claims
  BY <1>2 DEF Claims
<1>4. claim' \in [Ids -> Claims] /\ \A i \in Ids \ {id} : claim'[i] = claim[i]
  BY <1>1, <1>2, <1>3
<1>5. ASSUME NEW i \in Ids \ broken' PROVE Once(i)'
  <2>1. Once(i) /\ claim'[i] = claim[i] /\ answers'[i] = answers[i]
    BY <1>1, <1>4 DEF PollInv
  <2>2. \A u \in Threads : Along(u, i)
    BY <1>1 DEF Along
  <2> QED
    BY <2>1, <2>2, OnceKept
<1>6. PollTyped'
  BY <1>1, <1>4 DEF PollInv, PollTyped
<1>7. Ids' = Ids
  BY DEF Ids
<1> QED
  BY <1>5, <1>6, <1>7 DEF PollInv

\* The threads are gone, the claims stay.
LEMMA PollerCrashes == PollInv /\ Crash => PollInv'
<1> SUFFICES ASSUME PollInv, Crash PROVE PollInv'
  OBVIOUS
<1>1. turn' = [t \in Threads |-> NoTurn] /\ UNCHANGED <<claim, answers, broken>>
  BY DEF Crash, stored
<1>2. \A t \in Threads : turn'[t] = [pc |-> "idle", event |-> <<>>, gen |-> 0] /\ turn'[t].pc = "idle"
  BY <1>1 DEF NoTurn
<1>3. PollTyped'
  <2>1. turn' = [t \in Threads |-> [pc |-> turn'[t].pc, event |-> turn'[t].event, gen |-> turn'[t].gen]]
    BY <1>1, <1>2
  <2> QED
    BY <1>1, <2>1 DEF PollInv, PollTyped
<1>4. ASSUME NEW i \in Ids \ broken' PROVE Once(i)'
  <2>1. Once(i)
    BY <1>1 DEF PollInv
  <2>2. \A t \in Threads : Along(t, i)
    BY <1>2 DEF Along, Past
  <2> QED
    BY <1>1, <2>1, <2>2, OnceKept
<1>5. Ids' = Ids
  BY DEF Ids
<1> QED
  BY <1>3, <1>4, <1>5 DEF PollInv

LEMMA PollInvInit == PollInit => PollInv
<1> SUFFICES ASSUME PollInit PROVE PollInv
  OBVIOUS
<1>1. \A t \in Threads : turn[t] = [pc |-> "idle", event |-> <<>>, gen |-> 0] /\ turn[t].pc = "idle"
  BY DEF PollInit, NoTurn
<1>2. turn = [t \in Threads |-> [pc |-> turn[t].pc, event |-> turn[t].event, gen |-> turn[t].gen]]
  <2>1. turn = [t \in Threads |-> NoTurn]
    BY DEF PollInit
  <2> QED
    BY <1>1, <2>1
<1>3. claim \in [Ids -> Claims] /\ \A i \in Ids : claim[i].state = "none" /\ claim[i].lapsed = FALSE
  BY DEF PollInit, Claims
<1>4. answers \in [Ids -> Nat] /\ \A i \in Ids : answers[i] = 0
  BY DEF PollInit
<1>5. \A i \in Ids, t \in Threads : ~Works(t, i)
  BY <1>1 DEF Works, Past
<1> QED
  BY <1>2, <1>3, <1>4, <1>5 DEF PollInv, PollTyped, Once

LEMMA PollInvNext == PollInv /\ [PollNext]_pollVars => PollInv'
<1> SUFFICES ASSUME PollInv, [PollNext]_pollVars PROVE PollInv'
  OBVIOUS
<1>1. ASSUME NEW c \in Chats, NEW kind \in {"text", "command", "button"}, NEW near \in BOOLEAN,
             Write(c, kind, near)
      PROVE  PollInv'
  BY <1>1, NobodyMoves DEF Write, memory, stored
<1>2. CASE GetUpdates \/ FindLane \/ PutJob \/ EndBatch
  BY <1>2, NobodyMoves DEF GetUpdates, FindLane, PutJob, EndBatch, stored
<1>3. CASE PressButton
  <2>1. PICK e : e = Head(poller.todo)
    OBVIOUS
  <2> QED
    BY <1>3, <2>1, ThreadBegins DEF PressButton, Threads, stored
<1>4. ASSUME NEW c \in Chats, TakeJob(c) PROVE PollInv'
  <2>1. PICK e : e = Head(lane[c].queue)
    OBVIOUS
  <2> QED
    BY <1>4, <2>1, ThreadBegins DEF TakeJob, Threads, stored
<1>5. ASSUME NEW c \in Chats, Retire(c) PROVE PollInv'
  BY <1>5, NobodyMoves DEF Retire, stored
<1>6. ASSUME NEW t \in Threads, TurnStep(t) PROVE PollInv'
  BY <1>6, EventClaimed, EventAnswered, EventClosed, EventIngested, EventGoesOn DEF TurnStep
<1>7. CASE UNCHANGED pollVars
  BY <1>7, NobodyMoves DEF pollVars, memory, stored
<1> QED
  BY <1>1, <1>2, <1>3, <1>4, <1>5, <1>6, <1>7, EventRaises, EventLapses, PollerCrashes
  DEF PollNext, PollerStep

\* However often Telegram delivers an event, whichever lanes, batches and crashes
\* come between, it is answered again only if its turn raised or outlived its
\* lease.
THEOREM AnsweredOnlyOnce == PollSpec => []AnsweredOnce
<1>1. PollInv => AnsweredOnce
  BY DEF PollInv, PollTyped, Once, AnsweredOnce
<1> QED
  BY <1>1, PollInvInit, PollInvNext, PTL DEF PollSpec

-----------------------------------------------------------------------------
(* Admission.                                                              *)

AdmissionSpec == AdmissionInit /\ [][AdmissionNext]_admissionVars

Link == [sender: Senders, user: Users, verified: BOOLEAN, auto: BOOLEAN]
Visit == [pc: {"scope", "unbound", "bind", "insert", "rebound", "identity", "candidate",
               "unlinked", "link", "gate", "member", "accepted"},
          sender: Senders, room: Rooms, user: Users, owned: BOOLEAN]

LinksSound ==
  /\ links \in Seq(Link)
  /\ \A i \in DOMAIN links : links[i].auto => links[i].verified
  /\ \A i, j \in DOMAIN links : links[i].sender = links[j].sender => i = j

RolesSound ==
  /\ rights \in [Users -> Roles \cup {"none"}]
  /\ rights[Owner] = "owner"
  /\ desk \subseteq {r \in Requests : r.op = "remove" => r.user # Owner}

\* What is known of an update on its way.
VisitSound(v) ==
  /\ v \in Visit
  /\ v.pc \in {"gate", "member", "accepted"} => Speaks(v.sender, v.user)
  /\ v.owned => OwnerLinked
  /\ v.pc \in {"bind", "insert", "link"} => ~v.owned

DoorSound ==
  /\ DOMAIN door = Doors
  /\ door = [h \in Doors |-> door[h]]
  /\ \A h \in Doors : door[h] = Idle \/ VisitSound(door[h])

OwnerByContact == \A i \in DOMAIN links : links[i].user = Owner => links[i].auto
FirstOfOwner(s) ==
  \E i \in DOMAIN links :
    /\ links[i].sender = s /\ links[i].user = Owner
    /\ \A j \in 1..(i - 1) : links[j].user # Owner

\* While every link of the owner was made by first contact, all of them are
\* verified, so the earliest never changes and is the only one heard.
VoiceSound == OwnerByContact => \A s \in voices : FirstOfOwner(s)

AdmissionInv == LinksSound /\ RolesSound /\ DoorSound /\ VoiceSound

-----------------------------------------------------------------------------
\* Links are added at the end and verified; they are never taken back.
LinksGrow ==
  /\ LinksSound'
  /\ DOMAIN links \subseteq DOMAIN links'
  /\ \A i \in DOMAIN links :
       /\ links'[i].sender = links[i].sender /\ links'[i].user = links[i].user
       /\ links'[i].auto = links[i].auto
       /\ links[i].verified => links'[i].verified

LEMMA LinksVerified ==
  ASSUME LinksSound, NEW s, links' = Verified(s)
  PROVE  LinksGrow
<1>1. DOMAIN links = 1..Len(links) /\ Len(links) \in Nat
  BY DEF LinksSound
<1>2. links' = [i \in 1..Len(links) |-> [links[i] EXCEPT !.verified = @ \/ links[i].sender = s]]
  BY <1>1 DEF Verified
<1>3. ASSUME NEW i \in DOMAIN links
      PROVE  /\ links'[i] \in Link
             /\ links'[i].sender = links[i].sender /\ links'[i].user = links[i].user
             /\ links'[i].auto = links[i].auto
             /\ links[i].verified => links'[i].verified
  <2>1. PICK l \in Link : l = links[i]
    BY <1>1 DEF LinksSound
  <2>2. links'[i] = [l EXCEPT !.verified = l.verified \/ l.sender = s]
    BY <1>1, <1>2, <2>1
  <2> QED
    BY <2>1, <2>2 DEF Link
<1>4. DOMAIN links' = DOMAIN links /\ links' = [i \in 1..Len(links) |-> links'[i]]
  BY <1>1, <1>2
<1>5. links' \in Seq(Link)
  <2> DEFINE new == links'
  <2>1. Len(links) \in Nat /\ new = [i \in 1..Len(links) |-> new[i]] /\ \A i \in 1..Len(links) : new[i] \in Link
    BY <1>1, <1>3, <1>4
  <2> HIDE DEF new
  <2>2. new \in Seq(Link)
    BY <2>1
  <2> QED
    BY <2>2 DEF new
<1> QED
  BY <1>3, <1>4, <1>5 DEF LinksGrow, LinksSound

LEMMA LinksAppended ==
  ASSUME LinksSound, NEW l \in Link, l.auto => l.verified, ~Linked(l.sender),
         links' = Append(links, l)
  PROVE  LinksGrow
<1>1. DOMAIN links = 1..Len(links) /\ Len(links) \in Nat
  BY DEF LinksSound
<1>2. /\ links' \in Seq(Link) /\ Len(links') = Len(links) + 1
      /\ \A i \in 1..Len(links) : links'[i] = links[i]
      /\ links'[Len(links) + 1] = l
  BY <1>1 DEF LinksSound
<1>3. DOMAIN links' = DOMAIN links \cup {Len(links) + 1}
  BY <1>1, <1>2
<1>4. \A i \in DOMAIN links : links[i].sender # l.sender
  BY DEF Linked
<1> QED
  BY <1>1, <1>2, <1>3, <1>4 DEF LinksGrow, LinksSound

LEMMA LinksStay ==
  ASSUME LinksSound, UNCHANGED links
  PROVE  LinksGrow
  BY DEF LinksGrow, LinksSound

\* So what a link gave it goes on giving.
LEMMA GrownLinks ==
  ASSUME LinksSound, LinksGrow
  PROVE  /\ \A s, u : Speaks(s, u) => Speaks(s, u)'
         /\ OwnerLinked => OwnerLinked'
         /\ OwnerByContact' => OwnerByContact
         /\ \A s : FirstOfOwner(s) => FirstOfOwner(s)'
<1>1. DOMAIN links = 1..Len(links) /\ Len(links) \in Nat
  BY DEF LinksSound
<1>2. ASSUME NEW s, FirstOfOwner(s)
      PROVE  FirstOfOwner(s)'
  <2>1. PICK i \in DOMAIN links : /\ links[i].sender = s /\ links[i].user = Owner
                                  /\ \A j \in 1..(i - 1) : links[j].user # Owner
    BY <1>2 DEF FirstOfOwner
  <2>2. \A j \in 1..(i - 1) : links'[j].user # Owner
    BY <1>1, <2>1 DEF LinksGrow
  <2>3. i \in DOMAIN links' /\ links'[i].sender = s /\ links'[i].user = Owner
    BY <2>1 DEF LinksGrow
  <2> QED
    BY <2>2, <2>3 DEF FirstOfOwner
<1>3. ASSUME NEW s, NEW u, Speaks(s, u)
      PROVE  Speaks(s, u)'
  BY <1>3 DEF Speaks, LinksGrow
<1>4. OwnerLinked => OwnerLinked'
  BY DEF OwnerLinked, LinksGrow
<1>5. OwnerByContact' => OwnerByContact
  BY DEF OwnerByContact, LinksGrow
<1> QED
  BY <1>2, <1>3, <1>4, <1>5

LEMMA VisitsKept ==
  ASSUME LinksSound, LinksGrow, NEW v, VisitSound(v)
  PROVE  VisitSound(v)'
  BY GrownLinks DEF VisitSound

\* One door moves, to a visit that is sound.
LEMMA OneDoor ==
  ASSUME LinksSound, DoorSound, LinksGrow, NEW h \in Doors, NEW v, v = Idle \/ VisitSound(v)',
         door' = [door EXCEPT ![h] = v]
  PROVE  DoorSound'
<1>1. DOMAIN door = Doors /\ DOMAIN door' = Doors /\ door' = [k \in Doors |-> door'[k]]
  BY DEF DoorSound
<1>2. ASSUME NEW k \in Doors
      PROVE  door'[k] = Idle \/ VisitSound(door[k])'
  <2>1. CASE k = h
    <3>1. door'[k] = v
      BY <1>1, <2>1
    <3> QED
      BY <3>1 DEF VisitSound
  <2>2. CASE k # h
    <3>1. PICK w : w = door[k]
      OBVIOUS
    <3>2. door'[k] = w
      BY <1>1, <2>2, <3>1
    <3>3. w = Idle \/ VisitSound(w)'
      BY <3>1, VisitsKept DEF DoorSound
    <3> QED
      BY <3>2, <3>3 DEF VisitSound
  <2> QED
    BY <2>1, <2>2
<1> QED
  BY <1>1, <1>2 DEF DoorSound, Idle

\* A door closes, or its update goes on with what was known of it.
LEMMA DoorMoves ==
  ASSUME LinksSound, DoorSound, LinksGrow, NEW h \in Doors, NEW pc,
         \/ Leave(h)
         \/ /\ door[h] # Idle /\ Move(h, pc)
            /\ pc \in {"scope", "unbound", "rebound", "identity", "candidate", "unlinked"}
         \/ /\ door[h].pc \in {"gate", "member"} /\ Move(h, pc)
            /\ pc \in {"member", "accepted"}
         \/ /\ door[h].pc \in {"unbound", "bind", "unlinked"} /\ Move(h, pc) /\ FirstContact
            /\ pc \in {"bind", "insert", "link"}
         \/ /\ door[h].pc \in {"bind"} /\ Move(h, pc)
            /\ pc = "insert"
  PROVE  DoorSound'
<1>1. CASE Leave(h)
  BY <1>1, OneDoor DEF Leave
<1>2. CASE ~Leave(h)
  <2>1. PICK v : v = door[h]
    OBVIOUS
  <2>2. door' = [door EXCEPT ![h] = [v EXCEPT !.pc = pc]] /\ v # Idle
    <3>1. door[h].pc # "idle" => v # Idle
      BY <2>1 DEF Idle
    <3>2. door' = [door EXCEPT ![h] = [door[h] EXCEPT !.pc = pc]]
      BY <1>2 DEF Move
    <3> QED
      BY <1>2, <2>1, <3>1, <3>2
  <2>3. VisitSound(v) /\ VisitSound(v)'
    BY <2>1, <2>2, VisitsKept DEF DoorSound
  <2>4. PICK w : w = [v EXCEPT !.pc = pc]
    OBVIOUS
  <2>5. /\ w.pc = pc /\ w.sender = v.sender /\ w.room = v.room /\ w.user = v.user
        /\ w.owned = v.owned
        /\ pc \in {"scope", "unbound", "rebound", "identity", "candidate", "unlinked",
                   "member", "accepted", "bind", "insert", "link"} => w \in Visit
    BY <2>3, <2>4 DEF VisitSound, Visit
  <2>6. VisitSound(w)'
    BY <1>2, <2>1, <2>3, <2>5 DEF VisitSound, FirstContact
  <2> QED
    BY <2>2, <2>4, <2>6, OneDoor
<1> QED
  BY <1>1, <1>2

\* It comes to the gate as the user its account speaks for.
LEMMA DoorToGate ==
  ASSUME LinksSound, DoorSound, LinksGrow, NEW h \in Doors, NEW u \in Users, door[h] # Idle,
         ToGate(h, u), \A v : v = door[h] => Speaks(v.sender, u)'
  PROVE  DoorSound'
<1>1. PICK v : v = door[h]
  OBVIOUS
<1>2. VisitSound(v)' /\ Speaks(v.sender, u)'
  BY <1>1, VisitsKept DEF DoorSound
<1>3. PICK w : w = [v EXCEPT !.pc = "gate", !.user = u]
  OBVIOUS
<1>4. door' = [door EXCEPT ![h] = w]
  BY <1>1, <1>3 DEF ToGate
<1>5. w \in Visit /\ w.sender = v.sender /\ w.user = u /\ w.owned = v.owned /\ w.pc = "gate"
  BY <1>2, <1>3 DEF VisitSound, Visit
<1>6. VisitSound(w)'
  BY <1>2, <1>5 DEF VisitSound
<1> QED
  BY <1>4, <1>6, OneDoor

LEMMA VoiceKept ==
  ASSUME LinksSound, VoiceSound, LinksGrow, UNCHANGED voices
  PROVE  VoiceSound'
  BY GrownLinks DEF VoiceSound

\* The gate hears the earliest verified link; by first contact it is the first.
LEMMA VoiceHeard ==
  ASSUME LinksSound, VoiceSound, NEW s, OwnersVoice(s), UNCHANGED links,
         voices' \subseteq voices \cup {s}
  PROVE  VoiceSound'
<1> SUFFICES ASSUME OwnerByContact' PROVE \A t \in voices' : FirstOfOwner(t)'
  BY DEF VoiceSound
<1>1. OwnerByContact
  BY DEF OwnerByContact
<1>2. FirstOfOwner(s)
  <2>1. PICK i \in DOMAIN links :
          /\ links[i].sender = s /\ links[i].user = Owner
          /\ \A j \in 1..(i - 1) : ~(links[j].user = Owner /\ links[j].verified)
    BY DEF OwnersVoice
  <2>2. ASSUME NEW j \in 1..(i - 1) PROVE j \in DOMAIN links
    BY <2>1 DEF LinksSound
  <2>3. \A j \in 1..(i - 1) : links[j].user # Owner
    BY <1>1, <2>1, <2>2 DEF OwnerByContact, LinksSound
  <2> QED
    BY <2>1, <2>3 DEF FirstOfOwner
<1>3. \A t : FirstOfOwner(t) => FirstOfOwner(t)'
  BY DEF FirstOfOwner
<1> QED
  BY <1>1, <1>2, <1>3 DEF VoiceSound

LEMMA AdmissionInvInit == AdmissionInit => AdmissionInv
<1> SUFFICES ASSUME AdmissionInit PROVE AdmissionInv
  OBVIOUS
<1>1. links \in Seq(Link) /\ DOMAIN links = {}
  BY DEF AdmissionInit
<1>2. RolesSound
  BY AdmissionAssumption DEF AdmissionInit, RolesSound, Roles
<1> QED
  BY <1>1, <1>2 DEF AdmissionInit, AdmissionInv, LinksSound, DoorSound, VoiceSound

\* The steps of an update at one door.
LEMMA DoorSteps ==
  ASSUME AdmissionInv, NEW h \in Doors, DoorStep(h)
  PROVE  AdmissionInv'
<1>1. LinksSound /\ RolesSound /\ DoorSound /\ VoiceSound
  BY DEF AdmissionInv
<1>2. door[h].pc # "idle" => door[h] # Idle
  BY DEF Idle
<1>3. door[h].pc # "idle" =>
        /\ door[h].sender \in Senders /\ door[h].user \in Users
        /\ \A i \in DOMAIN links : links[i].user \in Users
  <2>1. \A i \in DOMAIN links : links[i] \in Link
    BY <1>1 DEF LinksSound
  <2> QED
    BY <1>1, <1>2, <2>1 DEF DoorSound, VisitSound, Visit, Link
<1>4. RolesSound /\ UNCHANGED <<rights, desk>> => RolesSound'
  BY DEF RolesSound
<1>5. LinksGrow /\ DoorSound' /\ UNCHANGED <<rights, desk, voices>> => AdmissionInv'
  BY <1>1, <1>4, VoiceKept DEF AdmissionInv, LinksGrow
<1>6. ASSUME NEW s \in Senders, NEW c \in Rooms, Knock(h, s, c)
      PROVE  AdmissionInv'
  <2>1. PICK v : v = [pc |-> "scope", sender |-> s, room |-> c, user |-> Owner, owned |-> OwnerLinked]
    OBVIOUS
  <2>2. v \in Visit /\ v.pc = "scope" /\ (v.owned => OwnerLinked)
    BY <2>1, AdmissionAssumption DEF Visit, OwnerLinked
  <2>3. UNCHANGED <<links, rights, desk, voices>> /\ door' = [door EXCEPT ![h] = v]
    BY <1>6, <2>1 DEF Knock
  <2>4. LinksGrow
    BY <1>1, <2>3, LinksStay
  <2>5. VisitSound(v)
    BY <2>2 DEF VisitSound
  <2>6. DoorSound'
    BY <1>1, <2>3, <2>4, <2>5, VisitsKept, OneDoor
  <2> QED
    BY <1>5, <2>3, <2>4, <2>6
<1>7. CASE FindScope(h) \/ MayBind(h) \/ FindBinding(h) \/ FindRoom(h) \/ CheckMember(h) \/ Handled(h)
  <2>1. UNCHANGED <<links, rights, desk, voices>>
    BY <1>7 DEF FindScope, MayBind, FindBinding, FindRoom, CheckMember, Handled, Reads
  <2>2. LinksGrow
    BY <1>1, <2>1, LinksStay
  <2>3. DoorSound'
    BY <1>1, <1>2, <1>7, <2>2, DoorMoves
    DEF FindScope, MayBind, FindBinding, FindRoom, CheckMember, Handled
  <2> QED
    BY <1>5, <2>1, <2>2, <2>3
<1>8. CASE BindRoom(h)
  <2>1. UNCHANGED <<links, rights, desk, voices>>
    BY <1>8 DEF BindRoom
  <2>2. LinksGrow
    BY <1>1, <2>1, LinksStay
  <2>3. DoorSound'
    BY <1>1, <1>2, <1>8, <2>2, DoorMoves DEF BindRoom
  <2> QED
    BY <1>5, <2>1, <2>2, <2>3
<1>9. CASE FindIdentity(h)
  <2>1. UNCHANGED <<links, rights, desk, voices>> /\ door[h] # Idle
    BY <1>2, <1>9 DEF FindIdentity, Reads
  <2>2. LinksGrow
    BY <1>1, <2>1, LinksStay
  <2>3. ASSUME NEW u \in Users, Speaks(door[h].sender, u), ToGate(h, u)
        PROVE  DoorSound'
    <3>1. \A v : v = door[h] => Speaks(v.sender, u)
      BY <2>3
    <3>2. \A v : v = door[h] => Speaks(v.sender, u)'
      BY <1>1, <2>2, <3>1, GrownLinks
    <3> QED
      BY <1>1, <2>1, <2>2, <2>3, <3>2, DoorToGate
  <2>4. Move(h, "candidate") => DoorSound'
    BY <1>1, <2>1, <2>2, DoorMoves
  <2> QED
    BY <1>5, <1>9, <2>1, <2>2, <2>3, <2>4 DEF FindIdentity
<1>10. CASE VerifyCandidate(h) \/ MayLink(h)
  <2>1. UNCHANGED <<rights, desk, voices>> /\ door[h] # Idle
    BY <1>2, <1>10 DEF VerifyCandidate, MayLink
  <2>2. PICK s : s = door[h].sender
    OBVIOUS
  <2>3. ASSUME NEW u \in Users, BelongsTo(s, u), ToGate(h, u), links' = Verified(s)
        PROVE  LinksGrow /\ DoorSound'
    <3>1. LinksGrow
      BY <1>1, <2>3, LinksVerified
    <3>2. PICK i \in DOMAIN links : links[i].sender = s /\ links[i].user = u
      BY <2>3 DEF BelongsTo
    <3>3. links'[i].verified
      <4>1. PICK l \in Link : l = links[i]
        BY <1>1 DEF LinksSound
      <4>2. links'[i] = [l EXCEPT !.verified = l.verified \/ l.sender = s]
        BY <2>3, <3>2, <4>1 DEF Verified
      <4> QED
        BY <3>2, <4>1, <4>2 DEF Link
    <3>4. Speaks(s, u)'
      BY <3>1, <3>2, <3>3 DEF Speaks, LinksGrow
    <3>5. \A v : v = door[h] => Speaks(v.sender, u)'
      BY <2>2, <3>4
    <3> QED
      BY <1>1, <2>1, <2>3, <3>1, <3>5, DoorToGate
  <2>4. CASE UNCHANGED links /\ (Leave(h) \/ Move(h, "unlinked") \/ (Move(h, "link") /\ FirstContact /\ door[h].pc = "unlinked"))
    <3>1. LinksGrow
      BY <1>1, <2>4, LinksStay
    <3> QED
      BY <1>1, <1>5, <2>1, <2>4, <3>1, DoorMoves
  <2>5. \/ \E u \in Users : BelongsTo(s, u) /\ ToGate(h, u) /\ links' = Verified(s)
        \/ UNCHANGED links /\ (Leave(h) \/ Move(h, "unlinked") \/ (Move(h, "link") /\ FirstContact /\ door[h].pc = "unlinked"))
    BY <1>10, <2>2 DEF VerifyCandidate, MayLink
  <2> QED
    BY <1>5, <2>1, <2>3, <2>4, <2>5
<1>11. CASE LinkOwner(h)
  <2>1. UNCHANGED <<rights, desk, voices>> /\ door[h] # Idle
    BY <1>2, <1>11 DEF LinkOwner
  <2>2. CASE Leave(h) /\ UNCHANGED links
    <3>1. LinksGrow
      BY <1>1, <2>2, LinksStay
    <3> QED
      BY <1>1, <1>5, <2>1, <2>2, <3>1, DoorMoves
  <2>3. CASE ~(Leave(h) /\ UNCHANGED links)
    <3>1. PICK s : s = door[h].sender
      OBVIOUS
    <3>2. PICK l : l = [sender |-> s, user |-> Owner, verified |-> TRUE, auto |-> TRUE]
      OBVIOUS
    <3>3. l \in Link /\ l.sender = s /\ l.user = Owner /\ l.verified
      BY <1>3, <1>11, <3>1, <3>2, AdmissionAssumption DEF Link, LinkOwner
    <3>4. ~Linked(l.sender) /\ links' = Append(links, l) /\ ToGate(h, Owner)
      BY <1>11, <2>3, <3>1, <3>2, <3>3 DEF LinkOwner
    <3>5. LinksGrow
      BY <1>1, <3>3, <3>4, LinksAppended
    <3>6. Speaks(s, Owner)'
      <4>1. links'[Len(links) + 1] = l /\ Len(links) + 1 \in DOMAIN links'
        BY <1>1, <3>3, <3>4 DEF LinksSound
      <4> QED
        BY <3>3, <4>1 DEF Speaks
    <3>7. \A v : v = door[h] => Speaks(v.sender, Owner)'
      BY <3>1, <3>6
    <3>8. DoorSound'
      BY <1>1, <2>1, <3>4, <3>5, <3>7, DoorToGate, AdmissionAssumption
    <3> QED
      BY <1>5, <2>1, <3>5, <3>8
  <2> QED
    BY <2>2, <2>3
<1>12. CASE PassGate(h)
  <2>1. UNCHANGED <<links, rights, desk>> /\ door[h] # Idle /\ door[h].pc = "gate"
    BY <1>2, <1>12 DEF PassGate
  <2>2. LinksGrow
    BY <1>1, <2>1, LinksStay
  <2>3. DoorSound'
    BY <1>1, <1>12, <2>1, <2>2, DoorMoves DEF PassGate
  <2>4. VoiceSound'
    <3>1. CASE UNCHANGED voices
      BY <1>1, <2>2, <3>1, VoiceKept
    <3>2. CASE voices' # voices
      <4>1. PICK s : s = door[h].sender
        OBVIOUS
      <4>2. access = "owner_only" /\ voices' = voices \cup {s} /\ Passes(s, door[h].room)
        BY <1>12, <3>2, <4>1 DEF PassGate
      <4>3. OwnersVoice(s)
        BY <4>2 DEF Passes
      <4> QED
        BY <1>1, <2>1, <4>2, <4>3, VoiceHeard
    <3> QED
      BY <3>1, <3>2
  <2> QED
    BY <1>1, <1>4, <2>1, <2>2, <2>3, <2>4 DEF AdmissionInv, LinksGrow
<1> QED
  BY <1>6, <1>7, <1>8, <1>9, <1>10, <1>11, <1>12 DEF DoorStep

\* Administrators move no door; they link, verify, and change memberships.
LEMMA DeskSteps ==
  ASSUME AdmissionInv,
         \/ \E s \in Senders : VerifyByHand(s) \/ \E u \in Users : LinkByHand(u, s)
         \/ \E r \in Requests : Carry(r) \/ \E a \in Users : Ask(a, r)
         \/ \E m \in AccessModes : SetMode(m)
         \/ Reboot
         \/ UNCHANGED admissionVars
  PROVE  AdmissionInv'
<1>1. LinksSound /\ RolesSound /\ DoorSound /\ VoiceSound
  BY DEF AdmissionInv
<1>2. LinksGrow /\ UNCHANGED door => DoorSound'
  <2> SUFFICES ASSUME LinksGrow, UNCHANGED door, NEW h \in Doors
               PROVE  door[h] = Idle \/ VisitSound(door[h])'
    BY <1>1 DEF DoorSound, Idle, VisitSound
  <2>1. PICK v : v = door[h]
    OBVIOUS
  <2>2. v = Idle \/ VisitSound(v)'
    BY <1>1, <2>1, VisitsKept DEF DoorSound
  <2> QED
    BY <2>1, <2>2 DEF VisitSound
<1>3. LinksGrow /\ RolesSound' /\ DoorSound' /\ UNCHANGED voices => AdmissionInv'
  BY <1>1, VoiceKept DEF AdmissionInv, LinksGrow
<1>4. UNCHANGED <<rights, desk>> => RolesSound'
  BY <1>1 DEF RolesSound
<1>5. UNCHANGED links => LinksGrow
  BY <1>1, LinksStay
<1>6. ASSUME NEW s \in Senders, VerifyByHand(s) PROVE AdmissionInv'
  BY <1>1, <1>2, <1>3, <1>4, <1>6, LinksVerified DEF VerifyByHand
<1>7. ASSUME NEW s \in Senders, NEW u \in Users, LinkByHand(u, s) PROVE AdmissionInv'
  <2>1. PICK l : l = [sender |-> s, user |-> u, verified |-> FALSE, auto |-> FALSE]
    OBVIOUS
  <2>2. l \in Link /\ l.sender = s /\ ~l.auto
    BY <2>1 DEF Link
  <2>3. ~Linked(l.sender) /\ links' = Append(links, l) /\ UNCHANGED <<door, rights, desk, voices>>
    BY <1>7, <2>1, <2>2 DEF LinkByHand
  <2>4. LinksGrow
    BY <1>1, <2>2, <2>3, LinksAppended
  <2> QED
    BY <1>2, <1>3, <1>4, <2>3, <2>4
<1>8. ASSUME NEW r \in Requests, NEW a \in Users, Ask(a, r) PROVE AdmissionInv'
  <2>1. RolesSound'
    BY <1>1, <1>8 DEF Ask, RolesSound
  <2> QED
    BY <1>2, <1>3, <1>5, <1>8, <2>1 DEF Ask
<1>9. ASSUME NEW r \in Requests, Carry(r) PROVE AdmissionInv'
  <2>1. desk' \subseteq {q \in Requests : q.op = "remove" => q.user # Owner}
    BY <1>1, <1>9 DEF Carry, RolesSound
  <2>2. CASE r.op \in {"add", "remove"}
    <3>1. r.op = "remove" => r.user # Owner
      BY <1>1, <1>9 DEF Carry, RolesSound
    <3>2. r.user \in Users /\ (r.op = "add" => r.role \in Roles)
      BY <2>2 DEF Requests
    <3>3. rights' = [rights EXCEPT ![r.user] = NewRole(r, rights[r.user])]
      BY <1>9, <2>2 DEF Carry
    <3>4. RolesSound'
      BY <1>1, <2>1, <2>2, <3>1, <3>2, <3>3, AdmissionAssumption DEF RolesSound, Roles, NewRole
    <3> QED
      BY <1>2, <1>3, <1>5, <1>9, <3>4 DEF Carry
  <2>3. CASE r.op \notin {"add", "remove"}
    <3>1. UNCHANGED rights
      BY <1>9, <2>3 DEF Carry
    <3>2. RolesSound'
      BY <1>1, <2>1, <3>1 DEF RolesSound
    <3> QED
      BY <1>2, <1>3, <1>5, <1>9, <3>2 DEF Carry
  <2> QED
    BY <2>2, <2>3
<1>10. ASSUME NEW m \in AccessModes, SetMode(m) PROVE AdmissionInv'
  BY <1>2, <1>3, <1>4, <1>5, <1>10 DEF SetMode
<1>11. CASE Reboot
  <2>1. RolesSound'
    BY <1>1, <1>11 DEF Reboot, RolesSound
  <2>2. DoorSound'
    BY <1>11 DEF Reboot, DoorSound
  <2> QED
    BY <1>3, <1>5, <1>11, <2>1, <2>2 DEF Reboot
<1>12. CASE UNCHANGED admissionVars
  BY <1>2, <1>3, <1>4, <1>5, <1>12 DEF admissionVars
<1> QED
  BY <1>6, <1>7, <1>8, <1>9, <1>10, <1>11, <1>12

\* Whoever writes, whoever administers and however the service restarts: only
\* verified accounts go in, as the one user they belong to; first contact ends
\* with the owner; in owner_only mode one account is heard; the owner stays.
THEOREM AdmissionIsSound == AdmissionSpec => []AdmissionSound
<1>1. AdmissionInv /\ [AdmissionNext]_admissionVars => AdmissionInv'
  BY DoorSteps, DeskSteps DEF AdmissionNext
<1>2. AdmissionInv => AdmissionSound
  <2> SUFFICES ASSUME AdmissionInv PROVE AdmissionSound
    OBVIOUS
  <2>1. LinksSound /\ RolesSound /\ DoorSound /\ VoiceSound
    BY DEF AdmissionInv
  <2>2. Admitted /\ BootstrapEnds /\ OwnerStays
    BY <2>1 DEF Admitted, BootstrapEnds, OwnerStays, LinksSound, RolesSound, DoorSound, VisitSound, Idle
  <2>3. OneVoice
    <3> SUFFICES ASSUME OwnerByContact PROVE Cardinality(voices) <= 1
      BY DEF OneVoice, OwnerByContact
    <3>1. ASSUME NEW s, NEW t, FirstOfOwner(s), FirstOfOwner(t)
          PROVE  s = t
      <4>1. DOMAIN links = 1..Len(links) /\ Len(links) \in Nat
        BY <2>1 DEF LinksSound
      <4> QED
        BY <3>1, <4>1 DEF FirstOfOwner
    <3>2. \A s, t \in voices : s = t
      BY <2>1, <3>1 DEF VoiceSound
    <3>3. voices = {} \/ \E s : voices = {s}
      BY <3>2
    <3>4. Cardinality(voices) = 0 \/ Cardinality(voices) = 1
      BY <3>3, FS_EmptySet, FS_Singleton, Zenon
    <3> QED
      BY <3>4
  <2> QED
    BY <2>2, <2>3 DEF AdmissionSound
<1> QED
  BY <1>1, <1>2, AdmissionInvInit, PTL DEF AdmissionSpec

=============================================================================
