------------------------ MODULE ProviderServiceProofs ------------------------
(***************************************************************************)
(* Proofs about ProviderService for any number of requests, entries,       *)
(* callers and claims.  Every step of a call is one of six moves as far as *)
(* claims are concerned (CallMoves); everything else is Apart.  From this  *)
(* follows ClaimInv, and from ClaimInv, where a single person reconciles,  *)
(* the properties of rows, tokens and answers.                             *)
(***************************************************************************)
EXTENDS ProviderService, WellFoundedInduction, TLAPS

-----------------------------------------------------------------------------
(* The loop over the chain *)

\* A set of numbers that is not empty has a least one.
LEMMA LeastExists ==
  ASSUME NEW T \in SUBSET Nat, T # {}
  PROVE  \E x \in T : \A y \in T : x <= y
<1> DEFINE R == {ss \in Nat \X Nat : ss[1] < ss[2]}
<1>1. IsWellFoundedOn(R, Nat)  BY NatLessThanWellFounded DEF OpToRel
<1>2. PICK x \in T : \A y \in T : ~ (<<y, x>> \in R)
  <2> HIDE DEF R
  <2> QED  BY <1>1, WFMin
<1>3. ASSUME NEW y \in T PROVE x <= y
  <2>1. <<y, x>> \in Nat \X Nat  OBVIOUS
  <2>2. ~ (<<y, x>>[1] < <<y, x>>[2])  BY <1>2, <2>1
  <2> QED  BY <2>2
<1> QED  BY <1>3

LEMMA BusyCall ==
  ASSUME TypeOK, NEW c \in Callers, caller[c].at # "idle"
  PROVE  caller[c] \in Busy
BY DEF TypeOK, NoCall

LEMMA KeyType ==
  ASSUME TypeOK, NEW c \in Callers, caller[c].at # "idle"
  PROVE  Key(c) \in Keys
BY BusyCall DEF Key, Keys, Busy

LEMMA FollowingType ==
  ASSUME NEW c \in Callers, Remaining(c) # {}
  PROVE  Following(c) \in Chain
<1>1. Remaining(c) \in SUBSET Nat  BY ConstantsAssumption DEF Remaining, Chain
<1>2. \E x \in Remaining(c) : \A y \in Remaining(c) : x <= y
  BY <1>1, LeastExists
<1>3. Following(c) \in Remaining(c)  BY <1>2 DEF Following
<1> QED  BY <1>3 DEF Remaining

\* After an error the call is at another entry of the same request or has
\* ended, and holds nothing; a class that is not eligible ends it.
LEMMA GoOnFacts ==
  ASSUME TypeOK, NEW c \in Callers, caller[c].at # "idle",
         NEW class, NEW d \in BOOLEAN
  PROVE  /\ GoOn(c, class, d) \in Busy
         /\ GoOn(c, class, d).at \in {"lookup", "raised"}
         /\ class \notin FallbackEligible => GoOn(c, class, d).at = "raised"
         /\ GoOn(c, class, d).doubt = (caller[c].doubt \/ d)
<1>1. caller[c] \in Busy  BY BusyCall
<1>2. CASE class \in FallbackEligible /\ Remaining(c) # {}
  <2>1. Following(c) \in Chain  BY <1>2, FollowingType
  <2> QED  BY <1>1, <1>2, <2>1 DEF GoOn, TryNext, Busy, Places
<1>3. CASE ~ (class \in FallbackEligible /\ Remaining(c) # {})
  BY <1>1, <1>3 DEF GoOn, GiveUp, Busy, Places
<1> QED  BY <1>2, <1>3

LEMMA SkipFacts ==
  ASSUME TypeOK, NEW c \in Callers, caller[c].at # "idle"
  PROVE  /\ GiveUp(c, FALSE) \in Busy
         /\ GiveUp(c, FALSE).at = "raised"
         /\ GiveUp(c, FALSE).doubt = caller[c].doubt
         /\ Remaining(c) # {} => /\ TryNext(c, FALSE) \in Busy
                                 /\ TryNext(c, FALSE).at = "lookup"
                                 /\ TryNext(c, FALSE).doubt = caller[c].doubt
<1>1. caller[c] \in Busy  BY BusyCall
<1>2. Remaining(c) # {} => Following(c) \in Chain  BY FollowingType
<1> QED  BY <1>1, <1>2 DEF GiveUp, TryNext, Busy, Places

\* An existing row is replayed as it is stored, claimed, or refused.
LEMMA DecideFacts ==
  ASSUME TypeOK, NEW c \in Callers, caller[c].at # "idle"
  PROVE  /\ Decide(c) \in Busy
         /\ Decide(c).at \in {"lookup", "raised", "claim", "answered"}
         /\ Decide(c).at \in {"claim", "answered"} =>
              <<Decide(c).q, Decide(c).i>> = Key(c)
         /\ Decide(c).at = "answered" =>
              /\ row[Key(c)].state = "completed"
              /\ Decide(c).token = row[Key(c)].answer
         /\ ~ caller[c].doubt /\ ~ row[Key(c)].odd =>
              Decide(c).at = "raised" \/ ~ Decide(c).doubt
<1> DEFINE k == Key(c)
<1>1. caller[c] \in Busy /\ k \in Keys /\ row[k] \in Row
  BY BusyCall, KeyType DEF TypeOK
<1>2. CASE row[k].state = "completed"
  <2>1. Decide(c) = [caller[c] EXCEPT !.at = "answered",
                                      !.token = row[k].answer]
    BY <1>2 DEF Decide
  <2> QED  BY <1>1, <1>2, <2>1 DEF Busy, Places, Row, Key
<1>3. CASE /\ row[k].state = "failed" /\ row[k].class \in RetriableClasses
  <2>0. row[k].state # "completed"  BY <1>3
  <2>1. Decide(c) = [caller[c] EXCEPT !.at = "claim"]
    BY <1>1, <1>3, <2>0 DEF Decide, RetriableClasses
  <2> QED  BY <1>1, <2>1 DEF Busy, Places, Key
<1>4. CASE /\ row[k].state = "failed" /\ row[k].class \notin RetriableClasses
           /\ row[k].class = "auth_failure"
  <2>0. row[k].state # "completed"  BY <1>4
  <2>1. Decide(c) = GoOn(c, "auth_failure", FALSE)
    BY <1>4, <2>0 DEF Decide
  <2>2. /\ Decide(c) \in Busy /\ Decide(c).at \in {"lookup", "raised"}
        /\ Decide(c).doubt = (caller[c].doubt \/ FALSE)
    BY <2>1, GoOnFacts
  <2> QED  BY <2>2
<1>5. CASE /\ row[k].state # "completed"
           /\ ~ (row[k].state = "failed" /\ row[k].class \in RetriableClasses)
           /\ ~ (row[k].state = "failed" /\ row[k].class = "auth_failure")
  <2>1. Decide(c) = GoOn(c, ClassOfText(k), row[k].state # "failed")
    BY <1>5 DEF Decide
  <2>2. ~ row[k].odd => ClassOfText(k) \notin FallbackEligible
    BY DEF ClassOfText, FallbackEligible
  <2> QED  BY <1>1, <2>1, <2>2, GoOnFacts
<1> QED  BY <1>1, <1>2, <1>3, <1>4, <1>5

-----------------------------------------------------------------------------
(* Types *)

LEMMA InitTypeOK == Init => TypeOK
<1> SUFFICES ASSUME Init PROVE TypeOK  OBVIOUS
<1>1. NoRow \in Row  BY DEF NoRow, Row, States
<1>2. row \in [Keys -> Row]  BY <1>1 DEF Init
<1> QED  BY <1>2 DEF Init, TypeOK

\* The shapes in which rows and calls are updated.
LEMMA RowShapes ==
  ASSUME NEW r \in Row, NEW state \in States,
         NEW class \in Classes \cup {NoClass},
         NEW n \in Nat, NEW m \in Nat,
         NEW lease \in {"none", "live", "expired"}
  PROVE  /\ [r EXCEPT !.state = state, !.class = class, !.token = n,
                       !.lease = lease, !.answer = n] \in Row
         /\ [r EXCEPT !.state = state, !.class = class, !.token = n,
                       !.lease = lease] \in Row
         /\ [r EXCEPT !.answer = n, !.charged = m] \in Row
         /\ [r EXCEPT !.state = state, !.claims = n, !.token = n,
                       !.lease = lease] \in Row
BY DEF Row

LEMMA CallShapes ==
  ASSUME NEW b \in Busy, NEW at \in Places,
         NEW class \in Classes \cup {NoClass}, NEW n \in Nat
  PROVE  /\ [b EXCEPT !.at = at] \in Busy
         /\ [b EXCEPT !.at = at, !.class = class] \in Busy
         /\ [b EXCEPT !.at = at, !.token = n] \in Busy
         /\ [b EXCEPT !.at = at, !.tries = n] \in Busy
BY DEF Busy

LEMMA SettledType ==
  ASSUME TypeOK, NEW k \in Keys, NEW state \in States,
         NEW class \in Classes \cup {NoClass}
  PROVE  Settled(k, state, class) \in Row
<1>1. row[k] \in Row /\ 0 \in Nat  BY DEF TypeOK
<1> QED  BY <1>1, RowShapes DEF Settled

LEMMA FinalStateType ==
  ASSUME NEW class
  PROVE  FinalState(class) \in {"unknown", "cancelled", "failed"}
BY DEF FinalState

LEMMA ArmedType ==
  ASSUME TypeOK, NEW p \in Providers, NEW class, NEW set \in Armed(p, class)
  PROVE  set \subseteq Providers
BY DEF TypeOK, Armed

\* What a thread of a call does keeps the types.
LEMMA CallTypeOK ==
  ASSUME TypeOK, NEW c \in Callers, CallStep(c)
  PROVE  TypeOK'
<1> USE DEF TypeOK
<1>0. caller[c].at # "idle" =>
        /\ caller[c] \in Busy /\ Key(c) \in Keys /\ row[Key(c)] \in Row
        /\ ProviderOf[caller[c].i] \in Providers
  <2> SUFFICES ASSUME caller[c].at # "idle"
               PROVE  /\ caller[c] \in Busy /\ Key(c) \in Keys
                      /\ row[Key(c)] \in Row
                      /\ ProviderOf[caller[c].i] \in Providers
    OBVIOUS
  <2>1. caller[c] \in Busy  BY BusyCall
  <2>2. Key(c) \in Keys  BY KeyType
  <2>3. ProviderOf[caller[c].i] \in Providers
    BY <2>1, ConstantsAssumption DEF Busy
  <2> QED  BY <2>1, <2>2, <2>3
<1>1. CASE Call(c)
  <2>1. PICK q \in Requests : caller' = [caller EXCEPT ![c] =
         [at |-> "lookup", q |-> q, i |-> 1, skip |-> LeftOut, token |-> 0,
          tries |-> 0, class |-> NoClass, doubt |-> FALSE]]
    BY <1>1 DEF Call
  <2>2. LeftOut \in SUBSET Chain  BY DEF LeftOut, Sick
  <2>3. 1 \in Chain  BY ConstantsAssumption DEF Chain
  <2>4. caller' \in [Callers -> Busy \cup {NoCall}]
    BY <2>1, <2>2, <2>3 DEF Busy, Places
  <2> QED  BY <1>1, <2>4 DEF Call
<1>2. CASE StopBefore(c)
  BY <1>0, <1>2, SkipFacts DEF StopBefore
<1>3. CASE SkipEntry(c)
  BY <1>0, <1>3, SkipFacts DEF SkipEntry
<1>4. CASE Lookup(c)
  <2>1. caller[c].at # "idle"  BY <1>4 DEF Lookup
  <2>2. [caller[c] EXCEPT !.at = "insert"] \in Busy
    BY <1>0, <2>1 DEF Busy, Places
  <2>3. Decide(c) \in Busy  BY <2>1, DecideFacts
  <2> QED  BY <1>4, <2>2, <2>3 DEF Lookup
<1>5. CASE Insert(c)
  <2>1. caller[c].at # "idle"  BY <1>5 DEF Insert
  <2>2. [caller[c] EXCEPT !.at = "claim"] \in Busy
    BY <1>0, <2>1 DEF Busy, Places
  <2>3. Decide(c) \in Busy  BY <2>1, DecideFacts
  <2>4. caller' \in [Callers -> Busy \cup {NoCall}]
    BY <1>5, <2>2, <2>3 DEF Insert
  <2>5. row' \in [Keys -> Row]
    <3>1. CASE \E odd \in OddIds :
                 row' = [row EXCEPT ![Key(c)].state = "pending",
                                    ![Key(c)].odd = odd]
      BY <1>0, <2>1, <3>1, ConstantsAssumption DEF Row, States
    <3> QED  BY <1>5, <3>1 DEF Insert
  <2> QED  BY <1>5, <2>4, <2>5 DEF Insert
<1>6. CASE Claim(c)
  <2>1. caller[c].at # "idle"  BY <1>6 DEF Claim
  <2>n. row[Key(c)].claims + 1 \in Nat  BY <1>0, <2>1 DEF Row
  <2>2. [caller[c] EXCEPT !.at = "dispatch",
                          !.token = row[Key(c)].claims + 1] \in Busy
    BY <1>0, <2>1, <2>n, CallShapes DEF Places
  <2>3. GoOn(c, ClassOfText(Key(c)), TRUE) \in Busy  BY <2>1, GoOnFacts
  <2>4. caller' \in [Callers -> Busy \cup {NoCall}]
    BY <1>6, <2>2, <2>3 DEF Claim
  <2>5. row' \in [Keys -> Row]
    <3>1. CASE row' = [row EXCEPT ![Key(c)].state = "streaming",
                                  ![Key(c)].claims = @ + 1,
                                  ![Key(c)].token = row[Key(c)].claims + 1,
                                  ![Key(c)].lease = "live"]
      <4>1. [row[Key(c)] EXCEPT !.state = "streaming",
                                !.claims = row[Key(c)].claims + 1,
                                !.token = row[Key(c)].claims + 1,
                                !.lease = "live"] \in Row
        BY <1>0, <2>1, <2>n, RowShapes DEF States
      <4> QED  BY <1>0, <2>1, <3>1, <4>1
    <3> QED  BY <1>6, <3>1 DEF Claim
  <2> QED  BY <1>6, <2>4, <2>5 DEF Claim
<1>7. CASE NoAdapter(c)
  <2>1. caller[c].at # "idle"  BY <1>7 DEF NoAdapter
  <2>2. /\ GoOn(c, "invalid_request", FALSE) \in Busy
        /\ GoOn(c, ClassOfText(Key(c)), TRUE) \in Busy
    BY <2>1, GoOnFacts
  <2>3. Settled(Key(c), "failed", "invalid_request") \in Row
    BY <1>0, <2>1, SettledType DEF States, Classes
  <2> QED  BY <1>0, <1>7, <2>1, <2>2, <2>3 DEF NoAdapter
<1>8. CASE Send(c)
  <2>1. caller[c].at # "idle"  BY <1>8 DEF Send
  <2>2. /\ [caller[c] EXCEPT !.at = "failing", !.class = "cancelled"] \in Busy
        /\ [caller[c] EXCEPT !.at = "sent"] \in Busy
    BY <1>0, <2>1 DEF Busy, Places, Classes
  <2> QED  BY <1>8, <2>2 DEF Send
<1>9. CASE Heartbeat(c)
  <2>1. caller[c].at # "idle"  BY <1>9 DEF Heartbeat
  <2>2. [caller[c] EXCEPT !.at = "failing", !.class = "unknown_outcome"]
          \in Busy
    BY <1>0, <2>1 DEF Busy, Places, Classes
  <2>3. [row[Key(c)] EXCEPT !.lease = "live"] \in Row
    BY <1>0, <2>1 DEF Row
  <2> QED  BY <1>0, <1>9, <2>1, <2>2, <2>3 DEF Heartbeat
<1>10. CASE Responds(c)
  BY <1>0, <1>10 DEF Responds, Busy, Places
<1>11. CASE Retry(c)
  BY <1>0, <1>11 DEF Retry, Busy, Places
<1>12. CASE Fails(c)
  <2>1. PICK class \in Classes :
          caller' = [caller EXCEPT ![c].at = "failing", ![c].class = class]
    BY <1>12 DEF Fails
  <2>2. [caller[c] EXCEPT !.at = "failing", !.class = class] \in Busy
    BY <1>0, <1>12, CallShapes DEF Fails, Places
  <2> QED  BY <1>12, <2>1, <2>2 DEF Fails
<1>13. CASE StoreFailure(c)
  <2>1. caller[c].at # "idle"  BY <1>13 DEF StoreFailure
  <2>2. /\ GoOn(c, caller[c].class, caller[c].class = "unknown_outcome")
             \in Busy
        /\ GoOn(c, ClassOfText(Key(c)), TRUE) \in Busy
    BY <2>1, GoOnFacts
  <2>3. Settled(Key(c), FinalState(caller[c].class), caller[c].class) \in Row
    BY <1>0, <2>1, SettledType, FinalStateType DEF States, Busy
  <2>4. cooling' \subseteq Providers
    BY <1>0, <1>13, <2>1, ArmedType DEF StoreFailure
  <2> QED  BY <1>0, <1>13, <2>1, <2>2, <2>3, <2>4 DEF StoreFailure, Doubt
<1>14. CASE StoreAnswer(c)
  <2>1. caller[c].at # "idle"  BY <1>14 DEF StoreAnswer
  <2>2. Settled(Key(c), "completed", NoClass) \in Row
    BY <1>0, <2>1, SettledType DEF States
  <2>4. row' \in [Keys -> Row]
    <3>1. PICK usage \in {0, 1} :
            row' = [row EXCEPT ![Key(c)] =
              [Settled(Key(c), "completed", NoClass) EXCEPT
                 !.answer = caller[c].token, !.charged = @ + usage]]
      BY <1>14 DEF StoreAnswer
    <3>2. caller[c].token \in Nat  BY <1>0, <2>1 DEF Busy
    <3>3. Settled(Key(c), "completed", NoClass).charged + usage \in Nat
      BY <2>2 DEF Row
    <3>4. [Settled(Key(c), "completed", NoClass) EXCEPT
             !.answer = caller[c].token,
             !.charged = Settled(Key(c), "completed", NoClass).charged + usage]
            \in Row
      BY <2>2, <3>2, <3>3, RowShapes DEF States, Classes
    <3> QED  BY <3>1, <3>4
  <2>5. [caller[c] EXCEPT !.at = "answered"] \in Busy
    BY <1>0, <2>1 DEF Busy, Places
  <2> QED  BY <1>14, <2>4, <2>5 DEF StoreAnswer
<1>15. CASE StoreAnswerFails(c)
  BY <1>0, <1>15 DEF StoreAnswerFails, Busy, Places
<1>16. CASE MarkUnknown(c)
  <2>1. caller[c].at # "idle"  BY <1>16 DEF MarkUnknown
  <2>2. GoOn(c, "invalid_request", TRUE) \in Busy  BY <2>1, GoOnFacts
  <2>3. Settled(Key(c), "unknown", "unknown_outcome") \in Row
    BY <1>0, <2>1, SettledType DEF States, Classes
  <2> QED  BY <1>0, <1>16, <2>1, <2>2, <2>3 DEF MarkUnknown
<1>17. CASE Return(c)
  BY <1>17 DEF Return
<1> QED
  BY <1>1, <1>2, <1>3, <1>4, <1>5, <1>6, <1>7, <1>8, <1>9, <1>10, <1>11,
     <1>12, <1>13, <1>14, <1>15, <1>16, <1>17 DEF CallStep

LEMMA NextTypeOK == TypeOK /\ [Next]_vars => TypeOK'
<1> SUFFICES ASSUME TypeOK, [Next]_vars PROVE TypeOK'  OBVIOUS
<1>1. ASSUME NEW c \in Callers, CallStep(c) PROVE TypeOK'
  BY <1>1, CallTypeOK
<1> USE DEF TypeOK
<1>2. ASSUME NEW c \in Callers, Cancel(c) PROVE TypeOK'
  BY <1>2 DEF Cancel
<1>3. ASSUME NEW c \in Callers, Crash(c) PROVE TypeOK'
  <2>1. Key(c) \in Keys  BY <1>3, KeyType DEF Crash
  <2> QED  BY <1>3, <2>1 DEF Crash
<1>4. CASE LeaseLapses
  BY <1>4 DEF LeaseLapses, Row
<1>5. CASE CooldownEnds
  BY <1>5 DEF CooldownEnds
<1>6. CASE Recover
  <2>1. \A r \in Row : [r EXCEPT !.state = "unknown",
                                 !.class = "unknown_outcome",
                                 !.token = 0, !.lease = "none"] \in Row
    BY RowShapes DEF States, Classes
  <2>2. row' \in [Keys -> Row]
    <3>1. row' = [k \in Keys |->
                    IF k \in Lapsed
                      THEN [row[k] EXCEPT !.state = "unknown",
                                          !.class = "unknown_outcome",
                                          !.token = 0, !.lease = "none"]
                      ELSE row[k]]
      BY <1>6 DEF Recover
    <3>2. \A k \in Keys : row[k] \in Row  OBVIOUS
    <3> QED  BY <2>1, <3>1, <3>2
  <2> QED  BY <1>6, <2>2 DEF Recover, Lapsed
<1>7. ASSUME NEW o \in Operators, BeginReconcile(o) PROVE TypeOK'
  BY <1>7 DEF BeginReconcile
<1>8. ASSUME NEW o \in Operators, CommitReconcile(o) PROVE TypeOK'
  <2>1. operator[o].key \in Keys  BY <1>8 DEF CommitReconcile, NoDecision
  <2>2. row' \in [Keys -> Row]
    BY <1>8, <2>1 DEF CommitReconcile, Row, States, Classes
  <2> QED  BY <1>8, <2>2 DEF CommitReconcile
<1>9. CASE UNCHANGED vars
  BY <1>9 DEF vars
<1> QED
  BY <1>1, <1>2, <1>3, <1>4, <1>5, <1>6, <1>7, <1>8, <1>9 DEF Next

\* Every variable stays within its type, for all constants.
THEOREM ProviderTypeCorrect == Spec => []TypeOK
BY InitTypeOK, NextTypeOK, PTL DEF Spec

-----------------------------------------------------------------------------
(* The invariant about claims *)

Holding == {"dispatch", "sent", "failing", "finish", "unfinal"}
Outside == {"idle", "lookup", "insert", "raised"}

\* Only a row in flight has a token, the newest; only a completed row has been
\* charged, once, and its answer is that of the newest claim.
RowInv ==
  \A k \in Keys :
    /\ row[k].state = "streaming" => row[k].token = row[k].claims
    /\ row[k].state # "streaming" => row[k].token = 0 /\ row[k].lease = "none"
    /\ row[k].state = "completed" => /\ row[k].answer = row[k].claims
                                     /\ row[k].charged \in {0, 1}
    /\ row[k].state # "completed" => row[k].charged = 0

\* The token of a call that sends is one of its row's, is held unless the row
\* was recorded unknown, and is nobody else's.
HoldInv ==
  \A c \in Callers :
    caller[c].at \in Holding =>
      /\ caller[c].token \in 1 .. row[Key(c)].claims
      /\ Holds(c) \/ Key(c) \in doubted

TokensDiffer ==
  \A c, d \in Callers :
    /\ c # d /\ caller[c].at \in Holding /\ caller[d].at \in Holding
    /\ Key(c) = Key(d)
    => caller[c].token # caller[d].token

\* What an operator decided about is still unknown.
OperatorInv ==
  \A o \in Operators :
    operator[o].at = "decided" => row[operator[o].key].state = "unknown"

ClaimInv == RowInv /\ HoldInv /\ TokensDiffer /\ OperatorInv /\ SameAnswer

\* A row in flight has its holder, a pending one a call about to claim it,
\* unless the thread died.
OpenInv ==
  \A k \in Keys \ deserted :
    /\ row[k].state = "streaming" =>
         \E c \in Callers : /\ caller[c].at \in Holding
                            /\ Key(c) = k /\ Holds(c)
    /\ row[k].state = "pending" =>
         \E c \in Callers : caller[c].at = "claim" /\ Key(c) = k

\* No identifier is odd; a call in doubt is over.
PlainRow == [state : States, class : Classes \cup {NoClass}, token : Nat,
             lease : {"none", "live", "expired"}, claims : Nat, answer : Nat,
             charged : Nat, odd : {FALSE}]

DoubtInv ==
  /\ row \in [Keys -> PlainRow]
  /\ NoBlindFallback

-----------------------------------------------------------------------------
(* The ways in which a call moves, as far as claims are concerned *)

NextKey(c) == <<caller'[c].q, caller'[c].i>>

\* It writes nothing and lets go of nothing.
Passes(c) ==
  /\ row' = row /\ doubted' = doubted
  /\ caller[c].at \in Holding => ~ Holds(c)
  /\ caller[c].at = "claim" => ~ Claimable(Key(c))
  /\ caller'[c].at \in Outside \cup {"claim", "answered"}
  /\ caller'[c].at = "answered" =>
       /\ row[NextKey(c)].state = "completed"
       /\ caller'[c].token = row[NextKey(c)].answer

\* It inserts its row.
Inserts(c) ==
  /\ caller[c].at = "insert" /\ caller'[c].at = "claim"
  /\ NextKey(c) = Key(c)
  /\ row[Key(c)].state = "none" /\ row'[Key(c)].state = "pending"
  /\ row'[Key(c)].token = row[Key(c)].token
  /\ row'[Key(c)].lease = row[Key(c)].lease
  /\ row'[Key(c)].claims = row[Key(c)].claims
  /\ row'[Key(c)].charged = row[Key(c)].charged
  /\ doubted' = doubted

\* It claims its row.
Claims(c) ==
  /\ caller[c].at = "claim" /\ caller'[c].at = "dispatch"
  /\ NextKey(c) = Key(c)
  /\ Claimable(Key(c)) /\ row'[Key(c)].state = "streaming"
  /\ row'[Key(c)].claims = row[Key(c)].claims + 1
  /\ row'[Key(c)].token = row[Key(c)].claims + 1
  /\ caller'[c].token = row[Key(c)].claims + 1
  /\ row'[Key(c)].charged = row[Key(c)].charged
  /\ doubted' = doubted

\* It goes on sending; a heartbeat may renew the lease it holds.
GoesOn(c) ==
  /\ caller[c].at \in Holding /\ caller'[c].at \in Holding
  /\ NextKey(c) = Key(c) /\ caller'[c].token = caller[c].token
  /\ \/ row'[Key(c)] = row[Key(c)]
     \/ Holds(c) /\ row'[Key(c)] = [row[Key(c)] EXCEPT !.lease = "live"]
  /\ doubted' = doubted

\* It stores that it failed.
Settles(c) ==
  /\ caller[c].at \in Holding /\ caller'[c].at \in Outside
  /\ Holds(c)
  /\ row'[Key(c)].state \in {"failed", "cancelled", "unknown"}
  /\ row'[Key(c)].token = 0 /\ row'[Key(c)].lease = "none"
  /\ row'[Key(c)].claims = row[Key(c)].claims
  /\ row'[Key(c)].charged = row[Key(c)].charged
  /\ doubted \subseteq doubted'

\* It stores its answer.
Answers(c) ==
  /\ caller[c].at \in Holding /\ caller'[c].at = "answered"
  /\ NextKey(c) = Key(c) /\ caller'[c].token = caller[c].token
  /\ Holds(c)
  /\ row'[Key(c)].state = "completed"
  /\ row'[Key(c)].token = 0 /\ row'[Key(c)].lease = "none"
  /\ row'[Key(c)].claims = row[Key(c)].claims
  /\ row'[Key(c)].answer = caller[c].token
  /\ row'[Key(c)].charged \in {row[Key(c)].charged, row[Key(c)].charged + 1}
  /\ doubted' = doubted

Moves(c) ==
  \/ Passes(c) \/ Inserts(c) \/ Claims(c) \/ GoesOn(c) \/ Settles(c)
  \/ Answers(c)

\* Everything else a step of a call leaves alone.
Frame(c) ==
  /\ \A d \in Callers \ {c} : caller'[d] = caller[d]
  /\ \A k \in Keys : caller[c].at = "idle" \/ k # Key(c) => row'[k] = row[k]
  /\ operator' = operator
  /\ deserted' = deserted

LEMMA CallFrame ==
  ASSUME TypeOK, NEW c \in Callers, CallStep(c)
  PROVE  Frame(c)
<1> USE DEF TypeOK, Frame
<1>1. CASE Call(c)  BY <1>1 DEF Call
<1>2. CASE StopBefore(c)  BY <1>2 DEF StopBefore
<1>3. CASE SkipEntry(c)  BY <1>3 DEF SkipEntry
<1>4. CASE Lookup(c)  BY <1>4 DEF Lookup
<1>5. CASE Insert(c)  BY <1>5 DEF Insert
<1>6. CASE Claim(c)  BY <1>6 DEF Claim
<1>7. CASE NoAdapter(c)  BY <1>7 DEF NoAdapter
<1>8. CASE Send(c)  BY <1>8 DEF Send
<1>9. CASE Heartbeat(c)  BY <1>9 DEF Heartbeat
<1>10. CASE Responds(c)  BY <1>10 DEF Responds
<1>11. CASE Retry(c)  BY <1>11 DEF Retry
<1>12. CASE Fails(c)  BY <1>12 DEF Fails
<1>13. CASE StoreFailure(c)  BY <1>13 DEF StoreFailure
<1>14. CASE StoreAnswer(c)  BY <1>14 DEF StoreAnswer
<1>15. CASE StoreAnswerFails(c)  BY <1>15 DEF StoreAnswerFails
<1>16. CASE MarkUnknown(c)  BY <1>16 DEF MarkUnknown
<1>17. CASE Return(c)  BY <1>17 DEF Return
<1> QED
  BY <1>1, <1>2, <1>3, <1>4, <1>5, <1>6, <1>7, <1>8, <1>9, <1>10, <1>11,
     <1>12, <1>13, <1>14, <1>15, <1>16, <1>17 DEF CallStep

\* Every step of a call is one of the moves.
LEMMA CallMoves ==
  ASSUME TypeOK, NEW c \in Callers, CallStep(c)
  PROVE  Moves(c)
<1> USE DEF TypeOK, Moves
<1> DEFINE k == Key(c)
<1>0. caller[c].at # "idle" => caller[c] \in Busy /\ k \in Keys /\ row[k] \in Row
  BY BusyCall, KeyType
<1>a. \A doubt \in BOOLEAN : \A class : caller[c].at # "idle" =>
        GoOn(c, class, doubt).at \in {"lookup", "raised"}
  BY GoOnFacts
<1>b. caller[c].at # "idle" =>
        /\ Decide(c).at \in {"lookup", "raised", "claim", "answered"}
        /\ Decide(c).at = "answered" =>
             /\ <<Decide(c).q, Decide(c).i>> = k
             /\ row[k].state = "completed"
             /\ Decide(c).token = row[k].answer
  BY DecideFacts
<1>c. caller[c].at # "idle" =>
        /\ GiveUp(c, FALSE).at = "raised"
        /\ Remaining(c) # {} => TryNext(c, FALSE).at = "lookup"
  BY SkipFacts
<1>1. CASE Call(c)
  <2>1. Passes(c)
    BY <1>1 DEF Call, Passes, Holding, Outside
  <2> QED  BY <2>1
<1>2. CASE StopBefore(c)
  <2>1. Passes(c)
    BY <1>2, <1>c DEF StopBefore, Passes, Holding, Outside
  <2> QED  BY <2>1
<1>3. CASE SkipEntry(c)
  <2>1. Passes(c)
    BY <1>3, <1>c DEF SkipEntry, Passes, Holding, Outside
  <2> QED  BY <2>1
<1>4. CASE Lookup(c)
  <2>1. CASE row[k].state = "none"
    <3>1. Passes(c)
      BY <1>0, <1>4, <2>1 DEF Lookup, Passes, Holding, Outside, Busy
    <3> QED  BY <3>1
  <2>2. CASE row[k].state # "none"
    <3>1. caller'[c] = Decide(c)  BY <1>4, <2>2 DEF Lookup
    <3>2. Passes(c)
      BY <1>4, <1>b, <3>1 DEF Lookup, Passes, Holding, Outside, NextKey
    <3> QED  BY <3>2
  <2> QED  BY <2>1, <2>2
<1>5. CASE Insert(c)
  <2>1. CASE row[k].state = "none"
    <3>1. PICK odd \in OddIds :
            row' = [row EXCEPT ![Key(c)].state = "pending",
                               ![Key(c)].odd = odd]
      BY <1>5, <2>1 DEF Insert
    <3>2. caller' = [caller EXCEPT ![c].at = "claim"]
      BY <1>5, <2>1 DEF Insert
    <3>3. row'[k] = [row[k] EXCEPT !.state = "pending", !.odd = odd]
      BY <1>0, <1>5, <3>1 DEF Insert
    <3>4. caller'[c] = [caller[c] EXCEPT !.at = "claim"]
      BY <3>2
    <3>5. Inserts(c)
      BY <1>0, <1>5, <2>1, <3>3, <3>4 DEF Insert, Inserts, NextKey, Key, Busy, Row
    <3> QED  BY <3>5
  <2>2. CASE row[k].state # "none"
    <3>1. caller'[c] = Decide(c) /\ row' = row  BY <1>5, <2>2 DEF Insert
    <3>2. Passes(c)
      BY <1>5, <1>b, <3>1 DEF Insert, Passes, Holding, Outside, NextKey
    <3> QED  BY <3>2
  <2> QED  BY <2>1, <2>2
<1>6. CASE Claim(c)
  <2>1. CASE Claimable(k)
    <3>1. row'[k] = [row[k] EXCEPT !.state = "streaming",
                                   !.claims = row[k].claims + 1,
                                   !.token = row[k].claims + 1,
                                   !.lease = "live"]
      BY <1>0, <1>6, <2>1 DEF Claim
    <3>2. caller'[c] = [caller[c] EXCEPT !.at = "dispatch",
                                         !.token = row[k].claims + 1]
      BY <1>6, <2>1 DEF Claim
    <3>3. Claims(c)
      BY <1>0, <1>6, <2>1, <3>1, <3>2 DEF Claim, Claims, NextKey, Key, Busy, Row
    <3> QED  BY <3>3
  <2>2. CASE ~ Claimable(k)
    <3>1. caller'[c] = GoOn(c, ClassOfText(k), TRUE) /\ row' = row
      BY <1>6, <2>2 DEF Claim
    <3>2. Passes(c)
      BY <1>6, <1>a, <2>2, <3>1 DEF Claim, Passes, Holding, Outside
    <3> QED  BY <3>2
  <2> QED  BY <2>1, <2>2
<1>7. CASE NoAdapter(c)
  <2>1. CASE Holds(c)
    <3>1. caller'[c] = GoOn(c, "invalid_request", FALSE)
      BY <1>7, <2>1 DEF NoAdapter
    <3>2. row'[k] = Settled(k, "failed", "invalid_request")
      BY <1>0, <1>7, <2>1 DEF NoAdapter
    <3>a. caller'[c].at \in {"lookup", "raised"}
      BY <1>7, <1>a, <3>1 DEF NoAdapter
    <3>b. doubted' = doubted  BY <1>7 DEF NoAdapter
    <3>3. Settles(c)
      BY <1>0, <1>7, <2>1, <3>2, <3>a, <3>b
      DEF NoAdapter, Settles, Settled, Holding, Outside, Row
    <3> QED  BY <3>3
  <2>2. CASE ~ Holds(c)
    <3>1. caller'[c] = GoOn(c, ClassOfText(k), TRUE)
      BY <1>7, <2>2 DEF NoAdapter
    <3>2. Passes(c)
      BY <1>7, <1>a, <2>2, <3>1 DEF NoAdapter, Passes, Holding, Outside
    <3> QED  BY <3>2
  <2> QED  BY <2>1, <2>2
<1>8. CASE Send(c)
  <2>1. GoesOn(c)
    BY <1>0, <1>8 DEF Send, GoesOn, Holding, NextKey, Key, Busy
  <2> QED  BY <2>1
<1>9. CASE Heartbeat(c)
  <2>1. GoesOn(c)
    BY <1>0, <1>9 DEF Heartbeat, GoesOn, Holding, NextKey, Key, Busy
  <2> QED  BY <2>1
<1>10. CASE Responds(c)
  <2>1. GoesOn(c)
    BY <1>0, <1>10 DEF Responds, GoesOn, Holding, NextKey, Key, Busy
  <2> QED  BY <2>1
<1>11. CASE Retry(c)
  <2>1. GoesOn(c)
    BY <1>0, <1>11 DEF Retry, GoesOn, Holding, NextKey, Key, Busy
  <2> QED  BY <2>1
<1>12. CASE Fails(c)
  <2>1. GoesOn(c)
    BY <1>0, <1>12 DEF Fails, GoesOn, Holding, NextKey, Key, Busy
  <2> QED  BY <2>1
<1>13. CASE StoreFailure(c)
  <2>1. CASE Holds(c)
    <3>1. caller'[c] = GoOn(c, caller[c].class, caller[c].class = "unknown_outcome")
      BY <1>13, <2>1 DEF StoreFailure
    <3>2. row'[k] = Settled(k, FinalState(caller[c].class), caller[c].class)
      BY <1>0, <1>13, <2>1 DEF StoreFailure
    <3>3. doubted \subseteq doubted'
      BY <1>13, <2>1 DEF StoreFailure, Doubt
    <3>a. caller'[c].at \in {"lookup", "raised"}
      BY <1>13, <1>a, <3>1 DEF StoreFailure
    <3>4. Settles(c)
      BY <1>0, <1>13, <2>1, <3>2, <3>3, <3>a, FinalStateType
      DEF StoreFailure, Settles, Settled, Holding, Outside, Row
    <3> QED  BY <3>4
  <2>2. CASE ~ Holds(c)
    <3>1. caller'[c] = GoOn(c, ClassOfText(k), TRUE)
      BY <1>13, <2>2 DEF StoreFailure
    <3>2. Passes(c)
      BY <1>13, <1>a, <2>2, <3>1 DEF StoreFailure, Passes, Holding, Outside
    <3> QED  BY <3>2
  <2> QED  BY <2>1, <2>2
<1>14. CASE StoreAnswer(c)
  <2>1. PICK usage \in {0, 1} :
          row' = [row EXCEPT ![Key(c)] =
            [Settled(Key(c), "completed", NoClass) EXCEPT
               !.answer = caller[c].token, !.charged = @ + usage]]
    BY <1>14 DEF StoreAnswer
  <2>2. row'[k] = [Settled(k, "completed", NoClass) EXCEPT
                     !.answer = caller[c].token,
                     !.charged = Settled(k, "completed", NoClass).charged
                                   + usage]
    BY <1>0, <1>14, <2>1 DEF StoreAnswer
  <2>3. Settled(k, "completed", NoClass).charged = row[k].charged
    BY <1>0, <1>14 DEF Settled, StoreAnswer, Row
  <2>4. row[k].charged \in Nat  BY <1>0, <1>14 DEF StoreAnswer, Row
  <2>5. Answers(c)
    BY <1>0, <1>14, <2>2, <2>3, <2>4
    DEF StoreAnswer, Answers, Settled, Holding, NextKey, Key, Busy, Row
  <2> QED  BY <2>5
<1>15. CASE StoreAnswerFails(c)
  <2>1. GoesOn(c)
    BY <1>0, <1>15 DEF StoreAnswerFails, GoesOn, Holding, NextKey, Key, Busy
  <2> QED  BY <2>1
<1>16. CASE MarkUnknown(c)
  <2>1. caller'[c] = GoOn(c, "invalid_request", TRUE)
    BY <1>16 DEF MarkUnknown
  <2>2. CASE Holds(c)
    <3>1. row'[k] = Settled(k, "unknown", "unknown_outcome")
      BY <1>0, <1>16, <2>2 DEF MarkUnknown
    <3>2. Settles(c)
      BY <1>0, <1>16, <1>a, <2>1, <2>2, <3>1
      DEF MarkUnknown, Settles, Settled, Holding, Outside, Row
    <3> QED  BY <3>2
  <2>3. CASE ~ Holds(c)
    <3>1. Passes(c)
      BY <1>16, <1>a, <2>1, <2>3 DEF MarkUnknown, Passes, Holding, Outside
    <3> QED  BY <3>1
  <2> QED  BY <2>2, <2>3
<1>17. CASE Return(c)
  <2>1. Passes(c)
    BY <1>17 DEF Return, Passes, Holding, Outside, NoCall
  <2> QED  BY <2>1
<1> QED
  BY <1>1, <1>2, <1>3, <1>4, <1>5, <1>6, <1>7, <1>8, <1>9, <1>10, <1>11,
     <1>12, <1>13, <1>14, <1>15, <1>16, <1>17 DEF CallStep

-----------------------------------------------------------------------------
(* Every step keeps ClaimInv *)

LEMMA CallKeepsRows ==
  ASSUME TypeOK, RowInv, NEW c \in Callers, Frame(c), Moves(c)
  PROVE  RowInv'
<1> SUFFICES ASSUME NEW k \in Keys
             PROVE  /\ row'[k].state = "streaming" =>
                         row'[k].token = row'[k].claims
                    /\ row'[k].state # "streaming" =>
                         row'[k].token = 0 /\ row'[k].lease = "none"
                    /\ row'[k].state = "completed" =>
                         /\ row'[k].answer = row'[k].claims
                         /\ row'[k].charged \in {0, 1}
                    /\ row'[k].state # "completed" => row'[k].charged = 0
  BY DEF RowInv
<1>0. row[k] \in Row  BY DEF TypeOK
<1>1. CASE row'[k] = row[k]
  BY <1>1 DEF RowInv
<1>2. CASE row'[k] # row[k]
  <2>1. caller[c].at # "idle" /\ k = Key(c)  BY <1>2 DEF Frame
  <2>2. CASE Passes(c)  BY <1>2, <2>2 DEF Passes
  <2>3. CASE Inserts(c)  BY <2>1, <2>3 DEF Inserts, RowInv
  <2>4. CASE Claims(c)  BY <2>1, <2>4 DEF Claims, Claimable, RowInv
  <2>5. CASE GoesOn(c)
    <3>1. /\ row[k].state = "streaming"
          /\ row'[k] = [row[k] EXCEPT !.lease = "live"]
      BY <1>2, <2>1, <2>5 DEF GoesOn, Holds
    <3> QED  BY <1>0, <3>1 DEF RowInv, Row
  <2>6. CASE Settles(c)  BY <2>1, <2>6 DEF Settles, Holds, RowInv
  <2>7. CASE Answers(c)  BY <2>1, <2>7 DEF Answers, Holds, RowInv
  <2> QED  BY <2>2, <2>3, <2>4, <2>5, <2>6, <2>7 DEF Moves
<1> QED  BY <1>1, <1>2

\* A row's claims are never fewer, and a claim that another call holds goes
\* on being held.
LEMMA CallKeepsOthers ==
  ASSUME TypeOK, ClaimInv, NEW c \in Callers, Frame(c), Moves(c),
         NEW d \in Callers \ {c}, caller[d].at \in Holding
  PROVE  /\ caller'[d] = caller[d]
         /\ row'[Key(d)].claims \in {row[Key(d)].claims,
                                     row[Key(d)].claims + 1}
         /\ Holds(d) => /\ row'[Key(d)].state = "streaming"
                        /\ row'[Key(d)].token = row[Key(d)].token
         /\ doubted \subseteq doubted'
<1>1. caller'[d] = caller[d] /\ doubted \subseteq doubted'
  BY DEF Frame, Moves, Passes, Inserts, Claims, GoesOn, Settles, Answers
<1>2. Key(d) \in Keys /\ row[Key(d)] \in Row
  BY KeyType DEF Holding, TypeOK
<1>3. CASE caller[c].at = "idle" \/ Key(d) # Key(c)
  <2>1. row'[Key(d)] = row[Key(d)]  BY <1>2, <1>3 DEF Frame
  <2> QED  BY <1>1, <2>1 DEF Holds
<1>4. CASE caller[c].at # "idle" /\ Key(d) = Key(c)
  <2>1. Holds(d) /\ caller[c].at \in Holding => ~ Holds(c)
    BY <1>4 DEF ClaimInv, TokensDiffer, Holds
  <2>2. CASE Passes(c)  BY <1>1, <2>2 DEF Passes, Holds
  <2>3. CASE Inserts(c)  BY <1>1, <1>4, <2>3 DEF Inserts, Holds
  <2>4. CASE Claims(c)  BY <1>1, <1>4, <2>4 DEF Claims, Claimable, Holds
  <2>5. CASE GoesOn(c)
    <3>1. CASE row'[Key(c)] = row[Key(c)]
      BY <1>1, <1>4, <3>1 DEF Holds
    <3>2. CASE row'[Key(c)] = [row[Key(c)] EXCEPT !.lease = "live"]
      BY <1>1, <1>2, <1>4, <3>2 DEF Holds, Row
    <3> QED  BY <2>5, <3>1, <3>2 DEF GoesOn
  <2>6. CASE Settles(c)  BY <1>1, <1>4, <2>1, <2>6 DEF Settles
  <2>7. CASE Answers(c)  BY <1>1, <1>4, <2>1, <2>7 DEF Answers
  <2> QED  BY <2>2, <2>3, <2>4, <2>5, <2>6, <2>7 DEF Moves
<1> QED  BY <1>3, <1>4

\* What a call that holds a claim after its own step knows.
LEMMA CallKeepsOwn ==
  ASSUME TypeOK, ClaimInv, NEW c \in Callers, Frame(c), Moves(c),
         caller'[c].at \in Holding
  PROVE  /\ NextKey(c) = Key(c)
         /\ caller'[c].token \in 1 .. row'[Key(c)].claims
         /\ \/ /\ row'[Key(c)].state = "streaming"
               /\ row'[Key(c)].token = caller'[c].token
            \/ Key(c) \in doubted'
         /\ \/ /\ caller[c].at \in Holding
               /\ caller'[c].token = caller[c].token
            \/ caller'[c].token = row[Key(c)].claims + 1
<1>1. Key(c) \in Keys /\ row[Key(c)] \in Row
  <2>1. caller[c].at # "idle"
    BY DEF Moves, Passes, Inserts, Claims, GoesOn, Settles, Answers,
           Holding, Outside
  <2> QED  BY <2>1, KeyType DEF TypeOK
<1>2. row[Key(c)].claims \in Nat  BY <1>1 DEF Row
<1>3. CASE Claims(c)  BY <1>2, <1>3 DEF Claims
<1>4. CASE GoesOn(c)
  <2>1. /\ caller[c].token \in 1 .. row[Key(c)].claims
        /\ Holds(c) \/ Key(c) \in doubted
    BY <1>4 DEF GoesOn, ClaimInv, HoldInv
  <2>2. /\ row'[Key(c)].claims = row[Key(c)].claims
        /\ row'[Key(c)].state = row[Key(c)].state
        /\ row'[Key(c)].token = row[Key(c)].token
    BY <1>1, <1>4 DEF GoesOn, Row
  <2> QED  BY <1>4, <2>1, <2>2 DEF GoesOn, Holds
<1> QED
  BY <1>3, <1>4 DEF Moves, Passes, Inserts, Settles, Answers, Holding, Outside

\* No call changes a row that completed, or whose outcome is unknown.
LEMMA CallKeepsFinal ==
  ASSUME TypeOK, NEW c \in Callers, Frame(c), Moves(c),
         NEW k \in Keys, row[k].state \in {"completed", "unknown"}
  PROVE  row'[k] = row[k]
<1>1. CASE caller[c].at = "idle" \/ k # Key(c)  BY <1>1 DEF Frame
<1>2. CASE k = Key(c)
  BY <1>2 DEF Moves, Passes, Inserts, Claims, Claimable, GoesOn, Settles,
              Answers, Holds
<1> QED  BY <1>1, <1>2

LEMMA CallKeepsClaims ==
  ASSUME TypeOK, ClaimInv, NEW c \in Callers, CallStep(c)
  PROVE  ClaimInv'
<1>0. Frame(c) /\ Moves(c)  BY CallFrame, CallMoves
<1>1. RowInv'  BY <1>0, CallKeepsRows DEF ClaimInv
<1>2. HoldInv'
  <2> SUFFICES ASSUME NEW d \in Callers, caller'[d].at \in Holding
               PROVE  /\ caller'[d].token \in 1 .. row'[NextKey(d)].claims
                      /\ \/ /\ row'[NextKey(d)].state = "streaming"
                            /\ row'[NextKey(d)].token = caller'[d].token
                         \/ NextKey(d) \in doubted'
    BY DEF HoldInv, Holds, Key, NextKey
  <2>1. CASE d = c  BY <1>0, <2>1, CallKeepsOwn
  <2>2. CASE d # c
    <3>1. caller'[d] = caller[d]  BY <1>0, <2>2 DEF Frame
    <3>2. caller[d].at \in Holding /\ NextKey(d) = Key(d)
      BY <3>1 DEF NextKey, Key
    <3>3. /\ row'[Key(d)].claims \in {row[Key(d)].claims,
                                       row[Key(d)].claims + 1}
          /\ Holds(d) => /\ row'[Key(d)].state = "streaming"
                         /\ row'[Key(d)].token = row[Key(d)].token
          /\ doubted \subseteq doubted'
      BY <1>0, <2>2, <3>2, CallKeepsOthers
    <3>4. /\ caller[d].token \in 1 .. row[Key(d)].claims
          /\ Holds(d) \/ Key(d) \in doubted
      BY <3>2 DEF ClaimInv, HoldInv
    <3>5. row[Key(d)].claims \in Nat
      BY <3>2, KeyType DEF TypeOK, Row, Holding
    <3> QED  BY <3>1, <3>2, <3>3, <3>4, <3>5 DEF Holds
  <2> QED  BY <2>1, <2>2
<1>3. TokensDiffer'
  <2>1. ASSUME NEW d \in Callers \ {c}, caller'[c].at \in Holding,
               caller'[d].at \in Holding, NextKey(c) = NextKey(d)
        PROVE  caller'[c].token # caller'[d].token
    <3>1. caller'[d] = caller[d]  BY <1>0, <2>1 DEF Frame
    <3>2. caller[d].at \in Holding /\ NextKey(d) = Key(d)
      BY <2>1, <3>1 DEF NextKey, Key
    <3>3. NextKey(c) = Key(c)  BY <1>0, <2>1, CallKeepsOwn
    <3>4. \/ /\ caller[c].at \in Holding
             /\ caller'[c].token = caller[c].token
          \/ caller'[c].token = row[Key(c)].claims + 1
      BY <1>0, <2>1, CallKeepsOwn
    <3>5. caller[d].token \in 1 .. row[Key(d)].claims
      BY <3>2 DEF ClaimInv, HoldInv
    <3>6. row[Key(d)].claims \in Nat
      BY <3>2, KeyType DEF TypeOK, Row, Holding
    <3>7. caller[c].at \in Holding => caller[c].token # caller[d].token
      BY <2>1, <3>2, <3>3 DEF ClaimInv, TokensDiffer
    <3> QED  BY <2>1, <3>1, <3>2, <3>3, <3>4, <3>5, <3>6, <3>7
  <2>2. ASSUME NEW d \in Callers \ {c}, NEW e \in Callers \ {c}, d # e,
               caller'[d].at \in Holding, caller'[e].at \in Holding,
               NextKey(d) = NextKey(e)
        PROVE  caller'[d].token # caller'[e].token
    <3>1. caller'[d] = caller[d] /\ caller'[e] = caller[e]
      BY <1>0, <2>2 DEF Frame
    <3> QED  BY <2>2, <3>1 DEF ClaimInv, TokensDiffer, NextKey, Key
  <2> QED  BY <2>1, <2>2 DEF TokensDiffer, NextKey, Key
<1>4. OperatorInv'
  <2> SUFFICES ASSUME NEW o \in Operators, operator'[o].at = "decided"
               PROVE  row'[operator'[o].key].state = "unknown"
    BY DEF OperatorInv
  <2>1. operator' = operator  BY <1>0 DEF Frame
  <2>2. operator[o].key \in Keys  BY <2>1 DEF TypeOK, NoDecision
  <2>3. row[operator[o].key].state = "unknown"
    BY <2>1 DEF ClaimInv, OperatorInv
  <2> QED  BY <1>0, <2>1, <2>2, <2>3, CallKeepsFinal
<1>5. SameAnswer'
  <2> SUFFICES ASSUME NEW d \in Callers, caller'[d].at = "answered"
               PROVE  /\ row'[NextKey(d)].state = "completed"
                      /\ row'[NextKey(d)].answer = caller'[d].token
    BY DEF SameAnswer, Key, NextKey
  <2>1. CASE d = c
    <3>1. CASE Passes(c)  BY <2>1, <3>1 DEF Passes
    <3>2. CASE Answers(c)  BY <2>1, <3>2 DEF Answers
    <3> QED
      BY <1>0, <2>1, <3>1, <3>2
      DEF Moves, Inserts, Claims, GoesOn, Settles, Holding, Outside
  <2>2. CASE d # c
    <3>1. caller'[d] = caller[d]  BY <1>0, <2>2 DEF Frame
    <3>2. /\ NextKey(d) = Key(d) /\ Key(d) \in Keys
          /\ row[Key(d)].state = "completed"
          /\ row[Key(d)].answer = caller[d].token
      BY <3>1, KeyType DEF ClaimInv, SameAnswer, NextKey, Key
    <3>3. row'[Key(d)] = row[Key(d)]  BY <1>0, <3>2, CallKeepsFinal
    <3> QED  BY <3>1, <3>2, <3>3
  <2> QED  BY <2>1, <2>2
<1> QED  BY <1>1, <1>2, <1>3, <1>4, <1>5 DEF ClaimInv

\* A single person reconciles.
OneOperator == \A o, p \in Operators : o = p

\* What a step that is no call's does: threads die, leases lapse and are
\* recovered, an operator decides about a row that is unknown.
Apart ==
  /\ \A d \in Callers :
       \/ caller'[d] = caller[d]
       \/ /\ caller'[d] = NoCall
          /\ caller[d].at # "idle"
          /\ row[Key(d)].state \in {"pending", "streaming"} =>
               Key(d) \in deserted'
  /\ deserted \subseteq deserted'
  /\ doubted \subseteq doubted'
  /\ \A k \in Keys :
       \/ row'[k] = row[k]
       \/ /\ row[k].state = "streaming"
          /\ row'[k] = [row[k] EXCEPT !.lease = "expired"]
       \/ /\ row[k].state = "streaming"
          /\ row'[k] = [row[k] EXCEPT !.state = "unknown",
                                      !.class = "unknown_outcome",
                                      !.token = 0, !.lease = "none"]
          /\ k \in doubted'
       \/ /\ row[k].state = "unknown"
          /\ row'[k] = [row[k] EXCEPT !.state = "failed",
                                      !.class = "reconciled_not_dispatched"]
          /\ \E o \in Operators : operator'[o] = NoDecision
  /\ \A o \in Operators :
       \/ operator'[o] \in {operator[o], NoDecision}
       \/ row' = row /\ row[operator'[o].key].state = "unknown"

LEMMA ApartStep ==
  ASSUME TypeOK, ClaimInv, [Next]_vars
  PROVE  Apart \/ \E c \in Callers : CallStep(c)
<1> USE DEF TypeOK, Apart
<1>1. CASE \E c \in Callers : CallStep(c)  BY <1>1
<1>2. ASSUME NEW c \in Callers, Cancel(c) PROVE Apart  BY <1>2 DEF Cancel
<1>3. ASSUME NEW c \in Callers, Crash(c) PROVE Apart  BY <1>3 DEF Crash
<1>4. CASE LeaseLapses
  <2>1. PICK k \in Keys : /\ row[k].lease = "live"
                          /\ row' = [row EXCEPT ![k].lease = "expired"]
    BY <1>4 DEF LeaseLapses
  <2>2. row[k].state = "streaming"  BY <2>1 DEF ClaimInv, RowInv
  <2> QED  BY <1>4, <2>1, <2>2 DEF LeaseLapses
<1>5. CASE CooldownEnds  BY <1>5 DEF CooldownEnds
<1>6. CASE Recover
  <2>1. ASSUME NEW k \in Keys
        PROVE  \/ row'[k] = row[k]
               \/ /\ row[k].state = "streaming"
                  /\ row'[k] = [row[k] EXCEPT !.state = "unknown",
                                              !.class = "unknown_outcome",
                                              !.token = 0, !.lease = "none"]
                  /\ k \in doubted'
    BY <1>6 DEF Recover, Lapsed
  <2> QED  BY <1>6, <2>1 DEF Recover
<1>7. ASSUME NEW o \in Operators, BeginReconcile(o) PROVE Apart
  <2>1. PICK k \in Keys :
          /\ row[k].state = "unknown"
          /\ operator' = [operator EXCEPT ![o] = [at |-> "decided", key |-> k]]
    BY <1>7 DEF BeginReconcile
  <2> QED  BY <1>7, <2>1 DEF BeginReconcile
<1>8. ASSUME NEW o \in Operators, CommitReconcile(o) PROVE Apart
  <2> DEFINE k == operator[o].key
  <2>1. k \in Keys  BY <1>8 DEF CommitReconcile, NoDecision
  <2>2. row[k].state = "unknown"
    BY <1>8 DEF CommitReconcile, ClaimInv, OperatorInv
  <2>3. row'[k] = [row[k] EXCEPT !.state = "failed",
                                 !.class = "reconciled_not_dispatched"]
    BY <1>8, <2>1 DEF CommitReconcile
  <2>4. \A j \in Keys \ {k} : row'[j] = row[j]
    BY <1>8 DEF CommitReconcile
  <2> QED  BY <1>8, <2>2, <2>3, <2>4 DEF CommitReconcile
<1>9. CASE UNCHANGED vars  BY <1>9 DEF vars
<1> QED
  BY <1>1, <1>2, <1>3, <1>4, <1>5, <1>6, <1>7, <1>8, <1>9 DEF Next

LEMMA ApartKeepsClaims ==
  ASSUME OneOperator, TypeOK, ClaimInv, Apart
  PROVE  ClaimInv'
<1>0. \A k \in Keys : row[k] \in Row  BY DEF TypeOK
<1>a. NoCall.at = "idle" /\ NoDecision.at = "idle"
  BY DEF NoCall, NoDecision
<1>1. RowInv'
  <2> SUFFICES ASSUME NEW k \in Keys
               PROVE  /\ row'[k].state = "streaming" =>
                           row'[k].token = row'[k].claims
                      /\ row'[k].state # "streaming" =>
                           row'[k].token = 0 /\ row'[k].lease = "none"
                      /\ row'[k].state = "completed" =>
                           /\ row'[k].answer = row'[k].claims
                           /\ row'[k].charged \in {0, 1}
                      /\ row'[k].state # "completed" => row'[k].charged = 0
    BY DEF RowInv
  <2>1. CASE row'[k] = row[k]  BY <2>1 DEF ClaimInv, RowInv
  <2>2. CASE row[k].state = "streaming"
    <3>1. /\ row[k].token = row[k].claims /\ row[k].charged = 0
      BY <2>2 DEF ClaimInv, RowInv
    <3>2. CASE row'[k] = [row[k] EXCEPT !.lease = "expired"]
      BY <1>0, <2>2, <3>1, <3>2 DEF Row
    <3>3. CASE row'[k] = [row[k] EXCEPT !.state = "unknown",
                                        !.class = "unknown_outcome",
                                        !.token = 0, !.lease = "none"]
      BY <1>0, <2>2, <3>1, <3>3 DEF Row
    <3> QED  BY <2>1, <2>2, <3>2, <3>3 DEF Apart
  <2>3. CASE row[k].state = "unknown"
    <3>1. row[k].token = 0 /\ row[k].lease = "none" /\ row[k].charged = 0
      BY <2>3 DEF ClaimInv, RowInv
    <3>2. CASE row'[k] = [row[k] EXCEPT !.state = "failed",
                                        !.class = "reconciled_not_dispatched"]
      BY <1>0, <3>1, <3>2 DEF Row
    <3> QED  BY <2>1, <2>3, <3>2 DEF Apart
  <2> QED  BY <2>1, <2>2, <2>3 DEF Apart
<1>2. ASSUME NEW c \in Callers, caller'[c].at \notin {"idle"}
      PROVE  caller'[c] = caller[c] /\ NextKey(c) = Key(c) /\ Key(c) \in Keys
  <2>1. caller'[c] = caller[c]  BY <1>2, <1>a DEF Apart
  <2> QED  BY <1>2, <2>1, KeyType DEF NextKey, Key
<1>3. HoldInv'
  <2> SUFFICES ASSUME NEW c \in Callers, caller'[c].at \in Holding
               PROVE  /\ caller'[c].token \in 1 .. row'[NextKey(c)].claims
                      /\ \/ /\ row'[NextKey(c)].state = "streaming"
                            /\ row'[NextKey(c)].token = caller'[c].token
                         \/ NextKey(c) \in doubted'
    BY DEF HoldInv, Holds, Key, NextKey
  <2> DEFINE k == Key(c)
  <2>1. caller'[c] = caller[c] /\ NextKey(c) = k /\ k \in Keys
    BY <1>2 DEF Holding
  <2>2. /\ caller[c].token \in 1 .. row[k].claims
        /\ Holds(c) \/ k \in doubted
    BY <2>1 DEF ClaimInv, HoldInv
  <2>3. row'[k].claims = row[k].claims
    BY <1>0, <2>1 DEF Apart, Row
  <2>4. \/ k \in doubted'
        \/ row'[k].state = row[k].state /\ row'[k].token = row[k].token
    BY <1>0, <2>1, <2>2 DEF Apart, Row, Holds
  <2> QED  BY <2>1, <2>2, <2>3, <2>4 DEF Apart, Holds
<1>4. TokensDiffer'
  <2> SUFFICES ASSUME NEW c \in Callers, NEW d \in Callers, c # d,
                      caller'[c].at \in Holding, caller'[d].at \in Holding,
                      NextKey(c) = NextKey(d)
               PROVE  caller'[c].token # caller'[d].token
    BY DEF TokensDiffer, NextKey, Key
  <2>1. /\ caller'[c] = caller[c] /\ NextKey(c) = Key(c)
        /\ caller'[d] = caller[d] /\ NextKey(d) = Key(d)
    BY <1>2 DEF Holding
  <2> QED  BY <2>1 DEF ClaimInv, TokensDiffer
<1>5. OperatorInv'
  <2> SUFFICES ASSUME NEW o \in Operators, operator'[o].at = "decided"
               PROVE  row'[operator'[o].key].state = "unknown"
    BY DEF OperatorInv
  <2>1. CASE operator'[o] = operator[o]
    <3> DEFINE k == operator[o].key
    <3>1. k \in Keys  BY <2>1 DEF TypeOK, NoDecision
    <3>2. row[k].state = "unknown"  BY <2>1 DEF ClaimInv, OperatorInv
    <3>3. ~ \E p \in Operators : operator'[p] = NoDecision
      BY DEF OneOperator, NoDecision
    <3>4. row'[k] = row[k]  BY <3>1, <3>2, <3>3 DEF Apart
    <3> QED  BY <2>1, <3>2, <3>4
  <2>2. CASE operator'[o] # operator[o]
    <3>1. operator'[o] # NoDecision  BY <1>a
    <3> QED  BY <2>2, <3>1 DEF Apart
  <2> QED  BY <2>1, <2>2
<1>6. SameAnswer'
  <2> SUFFICES ASSUME NEW c \in Callers, caller'[c].at = "answered"
               PROVE  /\ row'[NextKey(c)].state = "completed"
                      /\ row'[NextKey(c)].answer = caller'[c].token
    BY DEF SameAnswer, Key, NextKey
  <2>1. caller'[c] = caller[c] /\ NextKey(c) = Key(c) /\ Key(c) \in Keys
    BY <1>2
  <2>2. /\ row[Key(c)].state = "completed"
        /\ row[Key(c)].answer = caller[c].token
    BY <2>1 DEF ClaimInv, SameAnswer
  <2>3. row'[Key(c)] = row[Key(c)]  BY <2>1, <2>2 DEF Apart
  <2> QED  BY <2>1, <2>2, <2>3
<1> QED  BY <1>1, <1>3, <1>4, <1>5, <1>6 DEF ClaimInv

LEMMA ClaimInvariant == ASSUME OneOperator PROVE Spec => []ClaimInv
<1>1. Init => ClaimInv
  BY DEF Init, ClaimInv, RowInv, HoldInv, TokensDiffer, OperatorInv,
         SameAnswer, NoRow, NoCall, NoDecision, Holding
<1>2. TypeOK /\ ClaimInv /\ [Next]_vars => ClaimInv'
  BY ApartStep, ApartKeepsClaims, CallKeepsClaims
<1> QED  BY <1>1, <1>2, ProviderTypeCorrect, PTL DEF Spec

\* Two calls are at the provider with one request only after its outcome was
\* declared unknown.
THEOREM SentByOne == ASSUME OneOperator PROVE Spec => []OneSender
<1>1. ClaimInv => OneSender
  BY DEF ClaimInv, HoldInv, TokensDiffer, OneSender, Sending, Holding, Holds
<1> QED  BY <1>1, ClaimInvariant, PTL

\* A late call never stores its answer over that of a newer claim.
THEOREM NewestStored == ASSUME OneOperator PROVE Spec => []NewestAnswer
<1>1. ClaimInv => NewestAnswer  BY DEF ClaimInv, RowInv, NewestAnswer
<1> QED  BY <1>1, ClaimInvariant, PTL

\* A request is charged once at most, and never without an answer.
THEOREM Charged == ASSUME OneOperator PROVE Spec => []ChargedOnce
<1>1. ClaimInv => ChargedOnce  BY DEF ClaimInv, RowInv, ChargedOnce
<1> QED  BY <1>1, ClaimInvariant, PTL

\* Whoever asks again is given the answer that was returned before.
THEOREM Replayed == ASSUME OneOperator PROVE Spec => []SameAnswer
<1>1. ClaimInv => SameAnswer  BY DEF ClaimInv
<1> QED  BY <1>1, ClaimInvariant, PTL

\* No step changes a row that is completed.
THEOREM Kept == ASSUME OneOperator PROVE Spec => AnswerKept
<1>1. TypeOK /\ ClaimInv /\ [Next]_vars =>
        [\A k \in Keys : row[k].state = "completed" => row'[k] = row[k]]_vars
  <2> SUFFICES ASSUME TypeOK, ClaimInv, [Next]_vars,
                      NEW k \in Keys, row[k].state = "completed"
               PROVE  row'[k] = row[k]
    OBVIOUS
  <2>1. CASE Apart  BY <2>1 DEF Apart
  <2>2. ASSUME NEW c \in Callers, CallStep(c) PROVE row'[k] = row[k]
    BY <2>2, CallFrame, CallMoves, CallKeepsFinal
  <2> QED  BY <2>1, <2>2, ApartStep
<1> QED
  BY <1>1, ClaimInvariant, ProviderTypeCorrect, PTL DEF Spec, AnswerKept

-----------------------------------------------------------------------------
(* Nothing is left open *)

LEMMA CallKeepsOpen ==
  ASSUME TypeOK, ClaimInv, OpenInv, NEW c \in Callers, CallStep(c)
  PROVE  OpenInv'
<1>0. Frame(c) /\ Moves(c)  BY CallFrame, CallMoves
<1> SUFFICES ASSUME NEW k \in Keys \ deserted
             PROVE  /\ row'[k].state = "streaming" =>
                         \E d \in Callers : /\ caller'[d].at \in Holding
                                            /\ NextKey(d) = k
                                            /\ row'[k].token = caller'[d].token
                    /\ row'[k].state = "pending" =>
                         \E d \in Callers : /\ caller'[d].at = "claim"
                                            /\ NextKey(d) = k
  BY <1>0 DEF Frame, OpenInv, Holds, Key, NextKey
<1>1. row[k].state = "streaming" =>
        \E d \in Callers : /\ caller[d].at \in Holding /\ Key(d) = k
                           /\ row[k].token = caller[d].token
  BY DEF OpenInv, Holds
<1>2. row[k].state = "pending" =>
        \E d \in Callers : caller[d].at = "claim" /\ Key(d) = k
  BY DEF OpenInv
<1>3. \A d \in Callers \ {c} : /\ caller'[d] = caller[d]
                               /\ NextKey(d) = Key(d)
  BY <1>0 DEF Frame, NextKey, Key
<1>4. CASE caller[c].at = "idle" \/ k # Key(c)
  <2>1. row'[k] = row[k]  BY <1>0, <1>4 DEF Frame
  <2>2. \A d \in Callers :
          caller[d].at \in Holding \cup {"claim"} /\ Key(d) = k => d # c
    BY <1>4 DEF Holding
  <2> QED  BY <1>1, <1>2, <1>3, <2>1, <2>2
<1>5. CASE caller[c].at # "idle" /\ k = Key(c)
  <2>1. CASE Passes(c)
    <3>1. row[k].state = "streaming" =>
            ~ (caller[c].at \in Holding /\ row[k].token = caller[c].token)
      BY <1>5, <2>1 DEF Passes, Holds
    <3>2. row[k].state = "pending" => caller[c].at # "claim"
      BY <1>5, <2>1 DEF Passes, Claimable, ClaimInv, RowInv
    <3> QED  BY <1>1, <1>2, <1>3, <2>1, <3>1, <3>2 DEF Passes
  <2>2. CASE Inserts(c)  BY <1>5, <2>2 DEF Inserts
  <2>3. CASE Claims(c)  BY <1>5, <2>3 DEF Claims, Holding
  <2>4. CASE GoesOn(c)
    <3>1. /\ row'[k].state = row[k].state
          /\ row'[k].token = row[k].token
      BY <1>5, <2>4 DEF GoesOn, TypeOK, Row
    <3>2. /\ NextKey(c) = k /\ caller'[c].token = caller[c].token
          /\ caller[c].at \in Holding /\ caller'[c].at \in Holding
      BY <1>5, <2>4 DEF GoesOn
    <3>3. caller[c].at # "claim"  BY <3>2 DEF Holding
    <3> QED  BY <1>1, <1>2, <1>3, <3>1, <3>2, <3>3
  <2>5. CASE Settles(c)  BY <1>5, <2>5 DEF Settles
  <2>6. CASE Answers(c)  BY <1>5, <2>6 DEF Answers
  <2> QED  BY <1>0, <2>1, <2>2, <2>3, <2>4, <2>5, <2>6 DEF Moves
<1> QED  BY <1>4, <1>5

LEMMA ApartKeepsOpen ==
  ASSUME TypeOK, ClaimInv, OpenInv, Apart
  PROVE  OpenInv'
<1> SUFFICES ASSUME NEW k \in Keys, k \notin deserted'
             PROVE  /\ row'[k].state = "streaming" =>
                         \E d \in Callers : /\ caller'[d].at \in Holding
                                            /\ NextKey(d) = k
                                            /\ row'[k].token = caller'[d].token
                    /\ row'[k].state = "pending" =>
                         \E d \in Callers : /\ caller'[d].at = "claim"
                                            /\ NextKey(d) = k
  BY DEF OpenInv, Holds, Key, NextKey
<1>1. k \notin deserted  BY DEF Apart
<1>2. row[k] \in Row  BY DEF TypeOK
<1>3. row'[k].state \in {"pending", "streaming"} =>
        row'[k].state = row[k].state /\ row'[k].token = row[k].token
  <2>1. CASE row'[k] = row[k]  BY <2>1
  <2>2. CASE row'[k] = [row[k] EXCEPT !.lease = "expired"]
    BY <1>2, <2>2 DEF Row
  <2>3. CASE \/ row'[k] = [row[k] EXCEPT !.state = "unknown",
                                         !.class = "unknown_outcome",
                                         !.token = 0, !.lease = "none"]
             \/ row'[k] = [row[k] EXCEPT !.state = "failed",
                                         !.class = "reconciled_not_dispatched"]
    <3>1. row'[k].state \in {"unknown", "failed"}  BY <1>2, <2>3 DEF Row
    <3> QED  BY <3>1
  <2> QED  BY <2>1, <2>2, <2>3 DEF Apart
<1>4. ASSUME NEW d \in Callers, caller[d].at \in Holding \cup {"claim"},
             Key(d) = k, row[k].state \in {"pending", "streaming"}
      PROVE  caller'[d] = caller[d] /\ NextKey(d) = k
  <2>1. caller'[d] = caller[d]  BY <1>4 DEF Apart, Holding
  <2> QED  BY <1>4, <2>1 DEF NextKey, Key
<1>5. CASE row'[k].state = "streaming"
  <2>1. PICK d \in Callers : /\ caller[d].at \in Holding /\ Key(d) = k
                             /\ row[k].token = caller[d].token
    BY <1>1, <1>3, <1>5 DEF OpenInv, Holds
  <2> QED  BY <1>3, <1>4, <1>5, <2>1
<1>6. CASE row'[k].state = "pending"
  <2>1. PICK d \in Callers : caller[d].at = "claim" /\ Key(d) = k
    BY <1>1, <1>3, <1>6 DEF OpenInv
  <2> QED  BY <1>3, <1>4, <1>6, <2>1
<1> QED  BY <1>5, <1>6

\* A row is pending or in flight only while a call works on it, or when the
\* thread of that call died.
THEOREM NoneLeftOpen == ASSUME OneOperator PROVE Spec => []NothingLeftOpen
<1>1. Init => OpenInv  BY DEF Init, OpenInv, NoRow
<1>2. TypeOK /\ ClaimInv /\ OpenInv /\ [Next]_vars => OpenInv'
  BY ApartStep, ApartKeepsOpen, CallKeepsOpen
<1>3. OpenInv => NothingLeftOpen
  <2> SUFFICES ASSUME OpenInv, NEW k \in Keys \ deserted,
                      row[k].state \in {"pending", "streaming"}
               PROVE  \E c \in Callers :
                        /\ caller[c].at \in {"claim", "dispatch", "sent",
                                             "failing", "finish", "unfinal"}
                        /\ Key(c) = k
    BY DEF NothingLeftOpen
  <2>1. \E c \in Callers :
          caller[c].at \in Holding \cup {"claim"} /\ Key(c) = k
    BY DEF OpenInv
  <2> QED  BY <2>1 DEF Holding
<1> QED  BY <1>1, <1>2, <1>3, ClaimInvariant, ProviderTypeCorrect, PTL DEF Spec

-----------------------------------------------------------------------------
(* A fallback never follows an uncertain outcome *)

\* What writes to a row after its insertion keeps its identifier.
LEMMA PlainShapes ==
  ASSUME NEW r \in PlainRow, NEW state \in States,
         NEW class \in Classes \cup {NoClass},
         NEW n \in Nat, NEW m \in Nat,
         NEW lease \in {"none", "live", "expired"}
  PROVE  /\ [r EXCEPT !.state = state, !.class = class, !.token = 0,
                       !.lease = lease, !.answer = 0] \in PlainRow
         /\ [r EXCEPT !.state = state, !.class = class, !.token = 0,
                       !.lease = lease] \in PlainRow
         /\ [r EXCEPT !.state = state, !.class = class] \in PlainRow
         /\ [r EXCEPT !.answer = n, !.charged = m] \in PlainRow
         /\ [r EXCEPT !.state = state, !.claims = n, !.token = n,
                       !.lease = lease] \in PlainRow
         /\ [r EXCEPT !.lease = lease] \in PlainRow
BY DEF PlainRow

LEMMA CallKeepsDoubt ==
  ASSUME OddIds \subseteq {FALSE}, TypeOK, DoubtInv,
         NEW c \in Callers, CallStep(c)
  PROVE  DoubtInv'
<1> USE DEF TypeOK
<1> DEFINE k == Key(c)
           Sure == caller'[c].at \in {"idle", "raised"} \/ ~ caller'[c].doubt
<1>0. caller[c].at # "idle" => caller[c] \in Busy /\ k \in Keys /\ row[k] \in Row
  BY BusyCall, KeyType
<1>a. caller[c].at \notin {"idle", "raised"} => ~ caller[c].doubt
  BY DEF DoubtInv, NoBlindFallback
<1>b. ASSUME NEW class, NEW d \in BOOLEAN, caller[c].at \notin {"idle", "raised"},
             caller'[c] = GoOn(c, class, d), class \notin FallbackEligible \/ ~ d
      PROVE  Sure
  <2>1. /\ GoOn(c, class, d).doubt = (caller[c].doubt \/ d)
        /\ class \notin FallbackEligible => GoOn(c, class, d).at = "raised"
    BY <1>b, GoOnFacts
  <2> QED  BY <1>a, <1>b, <2>1
<1>c. k \in Keys => ClassOfText(k) \notin FallbackEligible
  BY DEF DoubtInv, PlainRow, ClassOfText, FallbackEligible
<1>d. caller[c].at \notin {"idle", "raised"} /\ caller'[c] = Decide(c) => Sure
  BY <1>0, <1>a, DecideFacts DEF DoubtInv, PlainRow
<1>1. Sure
  <2>1. CASE Call(c)  BY <2>1 DEF Call
  <2>2. CASE StopBefore(c)  BY <2>2, SkipFacts DEF StopBefore
  <2>3. CASE SkipEntry(c)  BY <1>a, <2>3, SkipFacts DEF SkipEntry
  <2>4. CASE Lookup(c)
    <3>1. CASE row[k].state = "none"
      <4>1. caller'[c] = [caller[c] EXCEPT !.at = "insert"]
        BY <2>4, <3>1 DEF Lookup
      <4> QED  BY <1>0, <1>a, <2>4, <4>1 DEF Lookup, Busy
    <3>2. CASE row[k].state # "none"
      <4>1. caller'[c] = Decide(c)  BY <2>4, <3>2 DEF Lookup
      <4> QED  BY <1>d, <2>4, <4>1 DEF Lookup
    <3> QED  BY <3>1, <3>2
  <2>5. CASE Insert(c)
    <3>1. CASE row[k].state = "none"
      <4>1. caller'[c] = [caller[c] EXCEPT !.at = "claim"]
        BY <2>5, <3>1 DEF Insert
      <4> QED  BY <1>0, <1>a, <2>5, <4>1 DEF Insert, Busy
    <3>2. CASE row[k].state # "none"
      <4>1. caller'[c] = Decide(c)  BY <2>5, <3>2 DEF Insert
      <4> QED  BY <1>d, <2>5, <4>1 DEF Insert
    <3> QED  BY <3>1, <3>2
  <2>6. CASE Claim(c)
    <3>1. CASE Claimable(k)
      <4>1. caller'[c] = [caller[c] EXCEPT !.at = "dispatch",
                                           !.token = row[k].claims + 1]
        BY <2>6, <3>1 DEF Claim
      <4> QED  BY <1>0, <1>a, <2>6, <4>1 DEF Claim, Busy
    <3>2. CASE ~ Claimable(k)
      <4>1. caller'[c] = GoOn(c, ClassOfText(k), TRUE)
        BY <2>6, <3>2 DEF Claim
      <4> QED  BY <1>0, <1>b, <1>c, <2>6, <4>1 DEF Claim
    <3> QED  BY <3>1, <3>2
  <2>7. CASE NoAdapter(c)
    <3>1. \/ caller'[c] = GoOn(c, "invalid_request", FALSE)
          \/ caller'[c] = GoOn(c, ClassOfText(k), TRUE)
      BY <2>7 DEF NoAdapter
    <3> QED  BY <1>0, <1>b, <1>c, <2>7, <3>1 DEF NoAdapter
  <2>8. CASE Send(c)  BY <1>0, <1>a, <2>8 DEF Send, Busy
  <2>9. CASE Heartbeat(c)  BY <1>0, <1>a, <2>9 DEF Heartbeat, Busy
  <2>10. CASE Responds(c)  BY <1>0, <1>a, <2>10 DEF Responds, Busy
  <2>11. CASE Retry(c)  BY <1>0, <1>a, <2>11 DEF Retry, Busy
  <2>12. CASE Fails(c)  BY <1>0, <1>a, <2>12 DEF Fails, Busy
  <2>13. CASE StoreFailure(c)
    <3>1. \/ caller'[c] = GoOn(c, caller[c].class,
                               caller[c].class = "unknown_outcome")
          \/ caller'[c] = GoOn(c, ClassOfText(k), TRUE)
      BY <2>13 DEF StoreFailure
    <3>2. "unknown_outcome" \notin FallbackEligible  BY DEF FallbackEligible
    <3> QED  BY <1>0, <1>b, <1>c, <2>13, <3>1, <3>2 DEF StoreFailure
  <2>14. CASE StoreAnswer(c)  BY <1>0, <1>a, <2>14 DEF StoreAnswer, Busy
  <2>15. CASE StoreAnswerFails(c)
    BY <1>0, <1>a, <2>15 DEF StoreAnswerFails, Busy
  <2>16. CASE MarkUnknown(c)
    <3>1. caller'[c] = GoOn(c, "invalid_request", TRUE)
      BY <2>16 DEF MarkUnknown
    <3>2. "invalid_request" \notin FallbackEligible  BY DEF FallbackEligible
    <3> QED  BY <1>b, <2>16, <3>1, <3>2 DEF MarkUnknown
  <2>17. CASE Return(c)  BY <2>17 DEF Return, NoCall
  <2> QED
    BY <2>1, <2>2, <2>3, <2>4, <2>5, <2>6, <2>7, <2>8, <2>9, <2>10, <2>11,
       <2>12, <2>13, <2>14, <2>15, <2>16, <2>17 DEF CallStep
<1>2. row' \in [Keys -> PlainRow]
  <2>0. /\ row \in [Keys -> PlainRow]
        /\ caller[c].at # "idle" => k \in Keys /\ row[k] \in PlainRow
    BY <1>0 DEF DoubtInv
  <2>a. \A state \in States, class \in Classes \cup {NoClass} :
          caller[c].at # "idle" => Settled(k, state, class) \in PlainRow
    BY <2>0, PlainShapes DEF Settled
  <2>1. CASE Insert(c)
    <3>1. CASE \E odd \in OddIds :
                 row' = [row EXCEPT ![Key(c)].state = "pending",
                                    ![Key(c)].odd = odd]
      <4>1. PICK odd \in OddIds :
              row' = [row EXCEPT ![Key(c)].state = "pending",
                                 ![Key(c)].odd = odd]
        BY <3>1
      <4>2. [row[k] EXCEPT !.state = "pending", !.odd = odd] \in PlainRow
        BY <2>0, <2>1 DEF Insert, PlainRow, States
      <4> QED  BY <2>0, <2>1, <4>1, <4>2 DEF Insert
    <3> QED  BY <2>0, <2>1, <3>1 DEF Insert
  <2>2. CASE Claim(c)
    <3>1. row[k].claims + 1 \in Nat  BY <2>0, <2>2 DEF Claim, PlainRow
    <3>2. [row[k] EXCEPT !.state = "streaming",
                         !.claims = row[k].claims + 1,
                         !.token = row[k].claims + 1,
                         !.lease = "live"] \in PlainRow
      BY <2>0, <2>2, <3>1, PlainShapes DEF Claim, States
    <3>3. CASE Claimable(k)
      <4>1. row' = [row EXCEPT ![k].state = "streaming",
                               ![k].claims = @ + 1,
                               ![k].token = row[k].claims + 1,
                               ![k].lease = "live"]
        BY <2>2, <3>3 DEF Claim
      <4> QED  BY <2>0, <2>2, <3>2, <4>1 DEF Claim
    <3>4. CASE ~ Claimable(k)  BY <2>0, <2>2, <3>4 DEF Claim
    <3> QED  BY <3>3, <3>4
  <2>3. CASE NoAdapter(c)
    <3>1. Settled(k, "failed", "invalid_request") \in PlainRow
      BY <2>3, <2>a DEF NoAdapter, States, Classes
    <3> QED  BY <2>0, <2>3, <3>1 DEF NoAdapter
  <2>4. CASE Heartbeat(c)
    <3>1. [row[k] EXCEPT !.lease = "live"] \in PlainRow
      BY <2>0, <2>4, PlainShapes DEF Heartbeat, States
    <3> QED  BY <2>0, <2>4, <3>1 DEF Heartbeat
  <2>5. CASE StoreFailure(c)
    <3>1. Settled(k, FinalState(caller[c].class), caller[c].class) \in PlainRow
      BY <1>0, <2>5, <2>a, FinalStateType DEF StoreFailure, States, Busy
    <3> QED  BY <2>0, <2>5, <3>1 DEF StoreFailure
  <2>6. CASE StoreAnswer(c)
    <3>1. PICK usage \in {0, 1} :
            row' = [row EXCEPT ![Key(c)] =
              [Settled(Key(c), "completed", NoClass) EXCEPT
                 !.answer = caller[c].token, !.charged = @ + usage]]
      BY <2>6 DEF StoreAnswer
    <3>2. Settled(k, "completed", NoClass) \in PlainRow
      BY <2>6, <2>a DEF StoreAnswer, States
    <3>3. /\ Settled(k, "completed", NoClass).charged + usage \in Nat
          /\ caller[c].token \in Nat
      BY <1>0, <2>6, <3>2 DEF PlainRow, Busy, StoreAnswer
    <3>4. [Settled(k, "completed", NoClass) EXCEPT
             !.answer = caller[c].token,
             !.charged = Settled(k, "completed", NoClass).charged + usage]
            \in PlainRow
      BY <3>2, <3>3, PlainShapes DEF States, Classes
    <3> QED  BY <2>0, <3>1, <3>4
  <2>7. CASE MarkUnknown(c)
    <3>1. Settled(k, "unknown", "unknown_outcome") \in PlainRow
      BY <2>7, <2>a DEF MarkUnknown, States, Classes
    <3> QED  BY <2>0, <2>7, <3>1 DEF MarkUnknown
  <2>8. CASE UNCHANGED row  BY <2>0, <2>8
  <2> QED
    BY <2>1, <2>2, <2>3, <2>4, <2>5, <2>6, <2>7, <2>8
    DEF CallStep, Call, StopBefore, SkipEntry, Lookup, Send, Responds, Retry,
        Fails, StoreAnswerFails, Return
<1>3. Frame(c)  BY CallFrame
<1>5. \A d \in Callers :
        caller'[d].at \notin {"idle", "raised"} => ~ caller'[d].doubt
  BY <1>1, <1>3 DEF Frame, DoubtInv, NoBlindFallback
<1> QED  BY <1>2, <1>5 DEF DoubtInv, NoBlindFallback

\* Once a call met an outcome that is not known, it tries no other entry,
\* as long as no identifier is odd.
THEOREM FallbackIsSure ==
  ASSUME OddIds \subseteq {FALSE} PROVE Spec => []NoBlindFallback
<1>1. Init => DoubtInv
  <2>1. NoRow \in PlainRow  BY DEF NoRow, PlainRow, States
  <2> QED  BY <2>1 DEF Init, DoubtInv, NoBlindFallback, NoCall
<1>2. TypeOK /\ DoubtInv /\ [Next]_vars => DoubtInv'
  <2> SUFFICES ASSUME TypeOK, DoubtInv, [Next]_vars PROVE DoubtInv'  OBVIOUS
  <2> USE DEF TypeOK
  <2>0. row \in [Keys -> PlainRow]  BY DEF DoubtInv
  <2>1. ASSUME NEW c \in Callers, CallStep(c) PROVE DoubtInv'
    BY <2>1, CallKeepsDoubt
  <2>2. ASSUME NEW c \in Callers, Cancel(c) PROVE DoubtInv'
    BY <2>2 DEF Cancel, DoubtInv, NoBlindFallback
  <2>3. ASSUME NEW c \in Callers, Crash(c) PROVE DoubtInv'
    BY <2>3 DEF Crash, DoubtInv, NoBlindFallback, NoCall
  <2>4. CASE LeaseLapses
    <3>1. \A r \in PlainRow : [r EXCEPT !.lease = "expired"] \in PlainRow
      BY PlainShapes DEF States
    <3>2. row' \in [Keys -> PlainRow]  BY <2>0, <2>4, <3>1 DEF LeaseLapses
    <3> QED  BY <2>4, <3>2 DEF LeaseLapses, DoubtInv, NoBlindFallback
  <2>5. CASE CooldownEnds
    BY <2>5 DEF CooldownEnds, DoubtInv, NoBlindFallback
  <2>6. CASE Recover
    <3>1. \A r \in PlainRow : [r EXCEPT !.state = "unknown",
                                        !.class = "unknown_outcome",
                                        !.token = 0,
                                        !.lease = "none"] \in PlainRow
      BY PlainShapes DEF States, Classes
    <3>2. row' \in [Keys -> PlainRow]
      <4>1. row' = [j \in Keys |->
                      IF j \in Lapsed
                        THEN [row[j] EXCEPT !.state = "unknown",
                                            !.class = "unknown_outcome",
                                            !.token = 0, !.lease = "none"]
                        ELSE row[j]]
        BY <2>6 DEF Recover
      <4>2. \A j \in Keys : row[j] \in PlainRow  BY <2>0
      <4>3. \A j \in Keys : row'[j] \in PlainRow  BY <3>1, <4>1, <4>2
      <4> QED  BY <4>1, <4>3
    <3> QED  BY <2>6, <3>2 DEF Recover, DoubtInv, NoBlindFallback
  <2>7. ASSUME NEW o \in Operators, BeginReconcile(o) PROVE DoubtInv'
    BY <2>7 DEF BeginReconcile, DoubtInv, NoBlindFallback
  <2>8. ASSUME NEW o \in Operators, CommitReconcile(o) PROVE DoubtInv'
    <3>1. operator[o].key \in Keys  BY <2>8 DEF CommitReconcile, NoDecision
    <3>2. row' \in [Keys -> PlainRow]
      <4>1. [row[operator[o].key] EXCEPT
               !.state = "failed",
               !.class = "reconciled_not_dispatched"] \in PlainRow
        BY <2>0, <3>1, PlainShapes DEF States, Classes
      <4> QED  BY <2>0, <2>8, <3>1, <4>1 DEF CommitReconcile
    <3> QED  BY <2>8, <3>2 DEF CommitReconcile, DoubtInv, NoBlindFallback
  <2>9. CASE UNCHANGED vars
    BY <2>9 DEF vars, DoubtInv, NoBlindFallback
  <2> QED
    BY <2>1, <2>2, <2>3, <2>4, <2>5, <2>6, <2>7, <2>8, <2>9 DEF Next
<1>3. DoubtInv => NoBlindFallback  BY DEF DoubtInv
<1> QED  BY <1>1, <1>2, <1>3, ProviderTypeCorrect, PTL DEF Spec
=============================================================================
