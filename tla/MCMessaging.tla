---------------------------- MODULE MCMessaging ----------------------------
(***************************************************************************)
(* The parts of the program that face the messengers: updates coming in,   *)
(* results going out, the lock that says which process polls, how a turn   *)
(* of a conversation is shown, and who is let in.                          *)
(* They share no state, so a behaviour moves one of them and the others    *)
(* stay where they start: their product would show nothing more.           *)
(***************************************************************************)
EXTENDS TelegramPolling, ResultDelivery, PollLock, ChatTurn, Admission

CONSTANT Surfaces  \* the parts to explore

VARIABLE surface

vars == <<surface, pollVars, deliveryVars, lockVars, chatVars, admissionVars>>

Init ==
  /\ PollInit /\ DeliveryInit /\ LockInit /\ ChatInit /\ AdmissionInit
  /\ surface \in Surfaces
  /\ surface # "lock" => file = {}
  /\ surface # "door" => polled /\ access = "owner_only"

Incoming == surface = "in" /\ PollNext /\ UNCHANGED <<surface, deliveryVars, lockVars, chatVars, admissionVars>>
Outgoing == surface = "out" /\ DeliveryNext /\ UNCHANGED <<surface, pollVars, lockVars, chatVars, admissionVars>>
Locking  == surface = "lock" /\ LockNext /\ UNCHANGED <<surface, pollVars, deliveryVars, chatVars, admissionVars>>
Chatting == surface = "chat" /\ ChatNext /\ UNCHANGED <<surface, pollVars, deliveryVars, lockVars, admissionVars>>
Admitting == surface = "door" /\ AdmissionNext /\ UNCHANGED <<surface, pollVars, deliveryVars, lockVars, chatVars>>

Next == Incoming \/ Outgoing \/ Locking \/ Chatting \/ Admitting

\* The poller's loop, its lanes and both drains survive what goes wrong in them
\* and come round again; leases run out as the clock does.
Fairness ==
  /\ WF_pollVars(surface = "in" /\ PollerStep)
  /\ \A t \in Threads : WF_pollVars(surface = "in" /\ TurnStep(t))
  /\ \A c \in Chats : WF_pollVars(surface = "in" /\ TakeJob(c))
  /\ \A w \in Drains : WF_deliveryVars(surface = "out" /\ DrainStep(w))
  /\ WF_deliveryVars(surface = "out" /\ Clock)

Spec == Init /\ [][Next]_vars /\ Fairness
=============================================================================
