--------------------------- MODULE ToolLoopProofs ---------------------------
(***************************************************************************)
(* Proofs about ToolLoop, for every budget, batch size and set of outcomes,*)
(* and about the tools it calls, the streams it reads and the conversations*)
(* it sends.  Each bound of the loop is made inductive by saying what it is*)
(* at every place of the loop: a renewal is only accepted while the attempt*)
(* is ours, so what was sent since it was lost is limited by the place     *)
(* reached since then; and every request is paid for by a retry, a round, a*)
(* boost or the nudge.                                                     *)
(***************************************************************************)
EXTENDS ToolLoop, ToolService, ProviderStream, MessageRendering, SequenceTheorems, FiniteSetTheorems,
        WellFoundedInduction, TLAPS

\* Which calls are unanswered at each place of the loop.
Placed ==
  /\ pc \notin {"calls", "child", "failed"} => open = 0
  /\ pc = "child" /\ protocol = "native" => open > 0
  /\ protocol = "text" => open = 0
  /\ pc \in {"first", "retrying", "received", "boosting", "calls"} => protocol = "native"

\* Typing, one action at a time.
LEMMA TypeStep == ASSUME TypeOK, Placed, [Next]_vars PROVE TypeOK'
<1> USE Limits, OutcomesDiffer
<1> USE DEF TypeOK, Response, Reading, Asking, Loop, Ended, Signatures, world, books, Accept, Renewed
<1>1. CASE FirstRequest BY <1>1 DEF FirstRequest, Send
<1>2. CASE BoostedRequest BY <1>2 DEF BoostedRequest, Send
<1>3. CASE RoundRequest BY <1>3 DEF RoundRequest, Send
<1>4. CASE NudgeRequest BY <1>4 DEF NudgeRequest, Send
<1>5. CASE SendFails BY <1>5 DEF SendFails
<1>6. CASE RenewalFails BY <1>6 DEF RenewalFails
<1>7. CASE RetryEmpty BY <1>7 DEF RetryEmpty
<1>8. CASE Start BY <1>8 DEF Start
<1>9. CASE BeginRound
  <2>1. used.rounds + 1 \in 0..MaxRounds /\ (used.boosts < Boosts => used.boosts + 1 \in 0..Boosts)
    BY <1>9 DEF BeginRound
  <2>2. CASE Boost
    <3>1. used' = [rounds |-> used.rounds + 1, boosts |-> used.boosts + 1, retries |-> used.retries]
      BY <2>2 DEF Boost
    <3>2. used' \in [rounds : 0..MaxRounds, boosts : 0..Boosts, retries : 0..EmptyRetries]
      BY <2>1, <2>2, <3>1 DEF Boost
    <3> QED BY <1>9, <2>2, <3>2 DEF BeginRound, Boost
  <2>3. CASE AppendCalls BY <1>9, <2>1, <2>3 DEF BeginRound, AppendCalls
  <2> QED BY <1>9, <2>2, <2>3 DEF BeginRound
<1>10. CASE AnswerCall BY <1>10 DEF AnswerCall
<1>11. ASSUME NEW s \in Failures, FailCall(s) PROVE TypeOK' BY <1>11 DEF FailCall
<1>12. CASE Delegate BY <1>12 DEF Delegate
<1>13. CASE ChildRequest BY <1>13 DEF ChildRequest
<1>14. CASE ChildReturns BY <1>14 DEF ChildReturns, Placed
<1>15. CASE EndBatch BY <1>15 DEF EndBatch
<1>16. CASE EndRounds BY <1>16 DEF EndRounds
<1>17. CASE TextAnswer BY <1>17 DEF TextAnswer, TextRenewed
<1>18. ASSUME NEW s \in Signatures, TextCall(s) PROVE TypeOK' BY <1>18 DEF TextCall, TextRenewed, Tally
<1>19. CASE TextDelegate BY <1>19 DEF TextDelegate, TextRenewed
<1>20. ASSUME NEW s \in Successes, TextChildReturns(s) PROVE TypeOK' BY <1>20 DEF TextChildReturns, Tally
<1>21. CASE TextCancelled BY <1>21 DEF TextCancelled
<1>22. CASE LoseLease BY <1>22 DEF LoseLease
<1>23. CASE CancelExecution BY <1>23 DEF CancelExecution
<1>24. CASE UNCHANGED vars BY <1>24 DEF vars
<1>25. QED
  BY <1>1, <1>2, <1>3, <1>4, <1>5, <1>6, <1>7, <1>8, <1>9, <1>10, <1>11, <1>12, <1>13, <1>14,
     <1>15, <1>16, <1>17, <1>18, <1>19, <1>20, <1>21, <1>22, <1>23, <1>24 DEF Next, Step

-----------------------------------------------------------------------------
(* The places of unanswered calls, the requests paid for, and what was     *)
(* sent since the attempt was lost.                                        *)

Paid == used.retries + used.rounds + used.boosts

Counted ==
  /\ pc = "first" => sent = 0 /\ Paid = 0
  /\ pc \in {"retrying", "calls", "child", "asking"} => sent <= Paid
  /\ pc = "boosting" => sent <= Paid - 1
  /\ pc \in {"received", "round", "nudging"} => sent <= 1 + Paid
  /\ sent <= 2 + Paid

Quiet ==
  /\ attempt = "ours" => late = 0
  /\ pc \in {"first", "retrying", "boosting"} => late = 0
  /\ pc \in {"received", "calls", "child", "asking"} => late <= 1
  /\ pc \in {"round", "nudging"} => late <= 2
  /\ late <= 3

Settled == pc = "accepted" /\ protocol = "native" => resp.calls = 0

IInv == TypeOK /\ Placed /\ Counted /\ Quiet /\ Settled

\* Calls are answered before the loop goes on.
LEMMA PlacedStep == ASSUME IInv, [Next]_vars PROVE Placed'
<1> USE Limits, OutcomesDiffer
<1> USE DEF IInv, TypeOK, Placed, Response, Asking, Loop, Ended, world, books, Accept, Renewed
<1>1. CASE FirstRequest BY <1>1 DEF FirstRequest, Send
<1>2. CASE BoostedRequest BY <1>2 DEF BoostedRequest, Send
<1>3. CASE RoundRequest BY <1>3 DEF RoundRequest, Send, Reading
<1>4. CASE NudgeRequest BY <1>4 DEF NudgeRequest, Send
<1>5. CASE SendFails BY <1>5 DEF SendFails
<1>6. CASE RenewalFails BY <1>6 DEF RenewalFails
<1>7. CASE RetryEmpty BY <1>7 DEF RetryEmpty
<1>8. CASE Start BY <1>8 DEF Start, Reading
<1>9. CASE BeginRound BY <1>9 DEF BeginRound, Boost, AppendCalls
<1>10. CASE AnswerCall BY <1>10 DEF AnswerCall
<1>11. ASSUME NEW s \in Failures, FailCall(s) PROVE Placed' BY <1>11 DEF FailCall
<1>12. CASE Delegate BY <1>12 DEF Delegate
<1>13. CASE ChildRequest BY <1>13 DEF ChildRequest
<1>14. CASE ChildReturns BY <1>14 DEF ChildReturns
<1>15. CASE EndBatch BY <1>15 DEF EndBatch
<1>16. CASE EndRounds BY <1>16 DEF EndRounds
<1>17. CASE TextAnswer BY <1>17 DEF TextAnswer, TextRenewed
<1>18. ASSUME NEW s \in Signatures, TextCall(s) PROVE Placed' BY <1>18 DEF TextCall, TextRenewed, Tally
<1>19. CASE TextDelegate BY <1>19 DEF TextDelegate, TextRenewed
<1>20. ASSUME NEW s \in Successes, TextChildReturns(s) PROVE Placed' BY <1>20 DEF TextChildReturns, Tally
<1>21. CASE TextCancelled BY <1>21 DEF TextCancelled
<1>22. CASE LoseLease BY <1>22 DEF LoseLease
<1>23. CASE CancelExecution BY <1>23 DEF CancelExecution
<1>24. CASE UNCHANGED vars BY <1>24 DEF vars
<1>25. QED
  BY <1>1, <1>2, <1>3, <1>4, <1>5, <1>6, <1>7, <1>8, <1>9, <1>10, <1>11, <1>12, <1>13, <1>14,
     <1>15, <1>16, <1>17, <1>18, <1>19, <1>20, <1>21, <1>22, <1>23, <1>24 DEF Next, Step

\* Every request is paid for.
LEMMA CountedStep == ASSUME IInv, [Next]_vars PROVE Counted'
<1> USE Limits, OutcomesDiffer
<1> USE DEF IInv, TypeOK, Counted, Paid, Response, Asking, Loop, Ended, world, books, Accept, Renewed
<1>1. CASE FirstRequest BY <1>1 DEF FirstRequest, Send
<1>2. CASE BoostedRequest BY <1>2 DEF BoostedRequest, Send
<1>3. CASE RoundRequest BY <1>3 DEF RoundRequest, Send, Reading
<1>4. CASE NudgeRequest BY <1>4 DEF NudgeRequest, Send
<1>5. CASE SendFails BY <1>5 DEF SendFails
<1>6. CASE RenewalFails BY <1>6 DEF RenewalFails
<1>7. CASE RetryEmpty BY <1>7 DEF RetryEmpty
<1>8. CASE Start BY <1>8 DEF Start, Reading
<1>9. CASE BeginRound
  <2>1. CASE Boost
    <3>1. used' = [rounds |-> used.rounds + 1, boosts |-> used.boosts + 1, retries |-> used.retries]
      BY <2>1 DEF Boost
    <3>2. Paid' = Paid + 2 /\ sent' = sent /\ sent <= 1 + Paid /\ pc' = "boosting"
      BY <1>9, <2>1, <3>1 DEF BeginRound, Boost
    <3> QED BY <3>2
  <2>2. CASE AppendCalls BY <1>9, <2>2 DEF BeginRound, AppendCalls
  <2> QED BY <1>9, <2>1, <2>2 DEF BeginRound
<1>10. CASE AnswerCall BY <1>10 DEF AnswerCall
<1>11. ASSUME NEW s \in Failures, FailCall(s) PROVE Counted' BY <1>11 DEF FailCall
<1>12. CASE Delegate BY <1>12 DEF Delegate
<1>13. CASE ChildRequest BY <1>13 DEF ChildRequest
<1>14. CASE ChildReturns BY <1>14 DEF ChildReturns
<1>15. CASE EndBatch BY <1>15 DEF EndBatch
<1>16. CASE EndRounds BY <1>16 DEF EndRounds
<1>17. CASE TextAnswer BY <1>17 DEF TextAnswer, TextRenewed
<1>18. ASSUME NEW s \in Signatures, TextCall(s) PROVE Counted' BY <1>18 DEF TextCall, TextRenewed, Tally
<1>19. CASE TextDelegate BY <1>19 DEF TextDelegate, TextRenewed
<1>20. ASSUME NEW s \in Successes, TextChildReturns(s) PROVE Counted' BY <1>20 DEF TextChildReturns, Tally
<1>21. CASE TextCancelled BY <1>21 DEF TextCancelled
<1>22. CASE LoseLease BY <1>22 DEF LoseLease
<1>23. CASE CancelExecution BY <1>23 DEF CancelExecution
<1>24. CASE UNCHANGED vars BY <1>24 DEF vars
<1>25. QED
  BY <1>1, <1>2, <1>3, <1>4, <1>5, <1>6, <1>7, <1>8, <1>9, <1>10, <1>11, <1>12, <1>13, <1>14,
     <1>15, <1>16, <1>17, <1>18, <1>19, <1>20, <1>21, <1>22, <1>23, <1>24 DEF Next, Step

\* A renewal starts the count of late requests anew.
LEMMA QuietStep == ASSUME IInv, [Next]_vars PROVE Quiet'
<1> USE Limits, OutcomesDiffer
<1> USE DEF IInv, TypeOK, Quiet, Response, Asking, Loop, Ended, world, books, Accept, Renewed
<1>1. CASE FirstRequest BY <1>1 DEF FirstRequest, Send
<1>2. CASE BoostedRequest BY <1>2 DEF BoostedRequest, Send
<1>3. CASE RoundRequest BY <1>3 DEF RoundRequest, Send, Reading
<1>4. CASE NudgeRequest BY <1>4 DEF NudgeRequest, Send
<1>5. CASE SendFails BY <1>5 DEF SendFails
<1>6. CASE RenewalFails BY <1>6 DEF RenewalFails
<1>7. CASE RetryEmpty BY <1>7 DEF RetryEmpty
<1>8. CASE Start BY <1>8 DEF Start, Reading
<1>9. CASE BeginRound BY <1>9 DEF BeginRound, Boost, AppendCalls
<1>10. CASE AnswerCall BY <1>10 DEF AnswerCall
<1>11. ASSUME NEW s \in Failures, FailCall(s) PROVE Quiet' BY <1>11 DEF FailCall
<1>12. CASE Delegate BY <1>12 DEF Delegate
<1>13. CASE ChildRequest BY <1>13 DEF ChildRequest
<1>14. CASE ChildReturns BY <1>14 DEF ChildReturns
<1>15. CASE EndBatch BY <1>15 DEF EndBatch
<1>16. CASE EndRounds BY <1>16 DEF EndRounds
<1>17. CASE TextAnswer BY <1>17 DEF TextAnswer, TextRenewed
<1>18. ASSUME NEW s \in Signatures, TextCall(s) PROVE Quiet' BY <1>18 DEF TextCall, TextRenewed, Tally
<1>19. CASE TextDelegate BY <1>19 DEF TextDelegate, TextRenewed
<1>20. ASSUME NEW s \in Successes, TextChildReturns(s) PROVE Quiet' BY <1>20 DEF TextChildReturns, Tally
<1>21. CASE TextCancelled BY <1>21 DEF TextCancelled
<1>22. CASE LoseLease BY <1>22 DEF LoseLease
<1>23. CASE CancelExecution BY <1>23 DEF CancelExecution
<1>24. CASE UNCHANGED vars BY <1>24 DEF vars
<1>25. QED
  BY <1>1, <1>2, <1>3, <1>4, <1>5, <1>6, <1>7, <1>8, <1>9, <1>10, <1>11, <1>12, <1>13, <1>14,
     <1>15, <1>16, <1>17, <1>18, <1>19, <1>20, <1>21, <1>22, <1>23, <1>24 DEF Next, Step

\* Only an answer without calls is accepted.
LEMMA SettledStep == ASSUME IInv, [Next]_vars PROVE Settled'
<1> USE Limits, OutcomesDiffer
<1> USE DEF IInv, TypeOK, Settled, Placed, Response, Asking, Loop, Ended, world, books, Accept, Renewed
<1>1. CASE FirstRequest BY <1>1 DEF FirstRequest, Send
<1>2. CASE BoostedRequest BY <1>2 DEF BoostedRequest, Send
<1>3. CASE RoundRequest BY <1>3 DEF RoundRequest, Send, Reading
<1>4. CASE NudgeRequest BY <1>4 DEF NudgeRequest, Send
<1>5. CASE SendFails BY <1>5 DEF SendFails
<1>6. CASE RenewalFails BY <1>6 DEF RenewalFails
<1>7. CASE RetryEmpty BY <1>7 DEF RetryEmpty
<1>8. CASE Start BY <1>8 DEF Start, Reading
<1>9. CASE BeginRound BY <1>9 DEF BeginRound, Boost, AppendCalls
<1>10. CASE AnswerCall BY <1>10 DEF AnswerCall
<1>11. ASSUME NEW s \in Failures, FailCall(s) PROVE Settled' BY <1>11 DEF FailCall
<1>12. CASE Delegate BY <1>12 DEF Delegate
<1>13. CASE ChildRequest BY <1>13 DEF ChildRequest
<1>14. CASE ChildReturns BY <1>14 DEF ChildReturns
<1>15. CASE EndBatch BY <1>15 DEF EndBatch
<1>16. CASE EndRounds BY <1>16 DEF EndRounds
<1>17. CASE TextAnswer BY <1>17 DEF TextAnswer, TextRenewed
<1>18. ASSUME NEW s \in Signatures, TextCall(s) PROVE Settled' BY <1>18 DEF TextCall, TextRenewed, Tally
<1>19. CASE TextDelegate BY <1>19 DEF TextDelegate, TextRenewed
<1>20. ASSUME NEW s \in Successes, TextChildReturns(s) PROVE Settled' BY <1>20 DEF TextChildReturns, Tally
<1>21. CASE TextCancelled BY <1>21 DEF TextCancelled
<1>22. CASE LoseLease BY <1>22 DEF LoseLease
<1>23. CASE CancelExecution BY <1>23 DEF CancelExecution
<1>24. CASE UNCHANGED vars BY <1>24 DEF vars
<1>25. QED
  BY <1>1, <1>2, <1>3, <1>4, <1>5, <1>6, <1>7, <1>8, <1>9, <1>10, <1>11, <1>12, <1>13, <1>14,
     <1>15, <1>16, <1>17, <1>18, <1>19, <1>20, <1>21, <1>22, <1>23, <1>24 DEF Next, Step

-----------------------------------------------------------------------------
LEMMA Invariance == Spec => []IInv
<1>1. ASSUME Init PROVE IInv
  <2>1. TypeOK
    <3>1. used \in [rounds : 0..MaxRounds, boosts : 0..Boosts, retries : 0..EmptyRetries]
      BY <1>1, Limits DEF Init
    <3>2. count \in [Signatures -> Nat] BY <1>1 DEF Init
    <3>3. resp \in Response BY <1>1 DEF Init, Response
    <3>4. open \in 0..Batch /\ child \in 0..ChildRounds BY <1>1, Limits DEF Init
    <3>5. attempt \in {"ours", "lost"} /\ event \in {"held", "set", "fresh"} BY <1>1 DEF Init
    <3> QED BY <1>1, <3>1, <3>2, <3>3, <3>4, <3>5 DEF Init, TypeOK, Asking
  <2>2. Placed BY <1>1 DEF Init, Placed
  <2>3. Counted BY <1>1 DEF Init, Counted, Paid
  <2>4. Quiet /\ Settled BY <1>1 DEF Init, Quiet, Settled
  <2> QED BY <2>1, <2>2, <2>3, <2>4 DEF IInv
<1>2. IInv /\ [Next]_vars => IInv'
  BY TypeStep, PlacedStep, CountedStep, QuietStep, SettledStep DEF IInv
<1> QED BY <1>1, <1>2, PTL DEF Spec

\* The loop's variables keep their types; every budget is respected.
THEOREM Typing == Spec => []TypeOK
<1>1. IInv => TypeOK BY DEF IInv
<1> QED BY <1>1, Invariance, PTL

\* A lost attempt sends at most three more requests, whatever the budgets.
THEOREM SoonSilentHolds == Spec => []SoonSilent
<1>1. IInv => SoonSilent BY DEF IInv, Quiet, SoonSilent
<1> QED BY <1>1, Invariance, PTL

\* No request is sent with a call that has no tool message.
THEOREM PairedHistoryHolds == Spec => []PairedHistory
<1>1. IInv => PairedHistory BY DEF IInv, Placed, PairedHistory, Asking
<1> QED BY <1>1, Invariance, PTL

\* The native loop accepts no answer that makes calls.
THEOREM NothingUnresolvedHolds == Spec => []NothingUnresolved
<1>1. IInv => NothingUnresolved BY DEF IInv, Settled, NothingUnresolved
<1> QED BY <1>1, Invariance, PTL

\* The number of requests is bounded by the budgets, for every model.
THEOREM RequestBudgetHolds == Spec => []RequestBudget
<1>1. IInv => RequestBudget
  BY Limits DEF IInv, TypeOK, Counted, Paid, RequestBudget
<1> QED BY <1>1, Invariance, PTL

-----------------------------------------------------------------------------
(* The limits of a tool's grants.                                          *)

ToolSpec == ToolInit /\ [][ToolNext]_toolVars

Grants == [cap: Caps \cup {Unlimited}, used: Nat]

GrantsTyped ==
  /\ given \in Seq(Grants)
  /\ grant \in 0..Len(given)
  /\ invocation = [c \in Calls |->
       [pc |-> invocation[c].pc, proc |-> invocation[c].proc, declared |-> invocation[c].declared,
        grant |-> invocation[c].grant, counted |-> invocation[c].counted,
        result |-> invocation[c].result]]

\* A call is counted under the grant it read, once, and not before it ran; it only
\* asks to be counted with a grant in its hands.
ReadsHold(c) ==
  /\ invocation[c].grant \in 0..Len(given)
  /\ invocation[c].counted \in {None, invocation[c].grant}
  /\ invocation[c].pc \in {"new", "grant", "reserve"} => invocation[c].counted = None
  /\ invocation[c].pc = "reserve" => invocation[c].grant # None

Users(g) == {c \in Calls : invocation[c].counted = g}

\* The rows count at least as many uses as there are calls, and no more than the
\* limit: the limit is tested and the use counted in one statement.
WithinRow(g) ==
  /\ IsFiniteSet(Users(g)) /\ Cardinality(Users(g)) <= given[g].used
  /\ given[g].cap = Unlimited \/ given[g].used <= given[g].cap

ToolInv == GrantsTyped /\ (\A c \in Calls : ReadsHold(c)) /\ (\A g \in DOMAIN given : WithinRow(g))

\* No call's record says less of its grant than before, and the grants stand.
LEMMA CallsMove ==
  ASSUME ToolInv, UNCHANGED given, grant' \in 0..Len(given),
         invocation' = [c \in Calls |->
           [pc |-> invocation'[c].pc, proc |-> invocation'[c].proc, declared |-> invocation'[c].declared,
            grant |-> invocation'[c].grant, counted |-> invocation'[c].counted,
            result |-> invocation'[c].result]],
         \A c \in Calls : ReadsHold(c)',
         \A c \in Calls : invocation'[c].counted \in {None, invocation[c].counted}
  PROVE  ToolInv'
<1>1. ASSUME NEW g \in DOMAIN given PROVE WithinRow(g)'
  <2>1. WithinRow(g) /\ g # None
    BY DEF ToolInv, GrantsTyped, None
  <2>2. Users(g)' \subseteq Users(g)
    BY <2>1 DEF Users
  <2>3. IsFiniteSet(Users(g)') /\ Cardinality(Users(g)') <= Cardinality(Users(g))
    BY <2>1, <2>2, FS_Subset DEF WithinRow
  <2>4. Cardinality(Users(g)) \in Nat /\ Cardinality(Users(g)') \in Nat /\ given[g].used \in Nat
    <3>1. given[g] \in Grants
      BY DEF ToolInv, GrantsTyped
    <3> QED
      BY <2>1, <2>3, <3>1, FS_CardinalityType DEF WithinRow, Grants
  <2> QED
    BY <2>1, <2>3, <2>4 DEF WithinRow
<1>2. GrantsTyped'
  BY DEF ToolInv, GrantsTyped
<1> QED
  BY <1>1, <1>2 DEF ToolInv

\* One call has another record, of whatever kind.
LEMMA CallMoves ==
  ASSUME ToolInv, NEW c \in Calls, NEW place, NEW by, NEW declared, NEW read, NEW counted, NEW result,
         UNCHANGED <<given, grant>>,
         invocation' = [invocation EXCEPT ![c] =
           [pc |-> place, proc |-> by, declared |-> declared, grant |-> read, counted |-> counted,
            result |-> result]],
         read \in 0..Len(given), counted \in {None, read}, counted \in {None, invocation[c].counted},
         place \in {"new", "grant", "reserve"} => counted = None,
         place = "reserve" => read # None
  PROVE  ToolInv'
<1>1. DOMAIN invocation = Calls
  BY DEF ToolInv, GrantsTyped
<1>2. invocation'[c] = [pc |-> place, proc |-> by, declared |-> declared, grant |-> read,
                        counted |-> counted, result |-> result]
      /\ \A d \in Calls \ {c} : invocation'[d] = invocation[d]
  BY <1>1
<1>3. ASSUME NEW d \in Calls
      PROVE  /\ invocation'[d] =
                  [pc |-> invocation'[d].pc, proc |-> invocation'[d].proc,
                   declared |-> invocation'[d].declared, grant |-> invocation'[d].grant,
                   counted |-> invocation'[d].counted, result |-> invocation'[d].result]
             /\ ReadsHold(d)'
             /\ invocation'[d].counted \in {None, invocation[d].counted}
  <2>1. CASE d = c
    <3>1. /\ invocation'[c].pc = place /\ invocation'[c].grant = read /\ invocation'[c].counted = counted
          /\ invocation'[c] =
               [pc |-> invocation'[c].pc, proc |-> invocation'[c].proc,
                declared |-> invocation'[c].declared, grant |-> invocation'[c].grant,
                counted |-> invocation'[c].counted, result |-> invocation'[c].result]
      BY <1>2
    <3> QED
      BY <2>1, <3>1 DEF ReadsHold
  <2>2. CASE d # c
    <3>1. invocation'[d] = invocation[d] /\ ReadsHold(d)
      BY <1>2, <2>2 DEF ToolInv
    <3>2. invocation[d] =
            [pc |-> invocation[d].pc, proc |-> invocation[d].proc,
             declared |-> invocation[d].declared, grant |-> invocation[d].grant,
             counted |-> invocation[d].counted, result |-> invocation[d].result]
      BY DEF ToolInv, GrantsTyped
    <3> QED
      BY <3>1, <3>2 DEF ReadsHold
  <2> QED
    BY <2>1, <2>2
<1>4. invocation' = [d \in Calls |-> invocation'[d]]
  BY <1>1
<1>5. grant' \in 0..Len(given)
  BY DEF ToolInv, GrantsTyped
<1> QED
  BY <1>3, <1>4, <1>5, CallsMove

\* The calls stay where they are, and the rows of the grants with them.
LEMMA GrantsStand ==
  ASSUME ToolInv, UNCHANGED <<given, invocation>>, grant' \in 0..Len(given)
  PROVE  ToolInv'
BY DEF ToolInv, GrantsTyped, ReadsHold, WithinRow, Users

LEMMA AnsweredRecord ==
  ASSUME NEW c, NEW result, NEW read, NEW counted,
         read = invocation[c].grant, counted = invocation[c].counted
  PROVE  Answered(c, result) = [pc |-> "ended", proc |-> None, declared |-> None, grant |-> read,
                                counted |-> counted, result |-> result]
<1>1. PICK one : one = [NoInvocation EXCEPT !.pc = "ended"]
  OBVIOUS
<1>2. PICK two : two = [one EXCEPT !.grant = read]
  OBVIOUS
<1>3. PICK three : three = [two EXCEPT !.counted = counted]
  OBVIOUS
<1>4. one = [pc |-> "ended", proc |-> None, declared |-> None, grant |-> None, counted |-> None,
             result |-> "none"]
  BY <1>1 DEF NoInvocation
<1>5. two = [pc |-> "ended", proc |-> None, declared |-> None, grant |-> read, counted |-> None,
             result |-> "none"]
  BY <1>2, <1>4
<1>6. three = [pc |-> "ended", proc |-> None, declared |-> None, grant |-> read,
               counted |-> counted, result |-> "none"]
  BY <1>3, <1>5
<1>7. [three EXCEPT !.result = result] =
        [pc |-> "ended", proc |-> None, declared |-> None, grant |-> read,
         counted |-> counted, result |-> result]
  BY <1>6
<1>8. Answered(c, result) = [three EXCEPT !.result = result]
  BY <1>1, <1>2, <1>3 DEF Answered
<1> QED
  BY <1>7, <1>8

\* A call ends with what it had read and been counted for.
LEMMA CallAnswers ==
  ASSUME ToolInv, NEW c \in Calls, NEW result, Answers(c, result), UNCHANGED <<given, grant>>
  PROVE  ToolInv'
<1>1. PICK read, counted : read = invocation[c].grant /\ counted = invocation[c].counted
  OBVIOUS
<1>2. Answered(c, result) = [pc |-> "ended", proc |-> None, declared |-> None, grant |-> read,
                             counted |-> counted, result |-> result]
  BY <1>1, AnsweredRecord
<1>3. invocation' = [invocation EXCEPT ![c] =
        [pc |-> "ended", proc |-> None, declared |-> None, grant |-> read,
         counted |-> counted, result |-> result]]
  BY <1>2 DEF Answers
<1>4. read \in 0..Len(given) /\ counted \in {None, read}
  BY <1>1 DEF ToolInv, ReadsHold
<1>5. counted \in {None, invocation[c].counted} /\ "ended" \notin {"new", "grant", "reserve"}
  BY <1>1
<1> QED
  BY <1>3, <1>4, <1>5, CallMoves

LEMMA CallBegins ==
  ASSUME ToolInv, NEW c \in Calls, NEW p \in Processes, Invoke(c, p)
  PROVE  ToolInv'
<1>1. PICK declared : declared = row[Workspace]
  OBVIOUS
<1>2. [NoInvocation EXCEPT !.pc = "grant", !.proc = p, !.declared = declared] =
        [pc |-> "grant", proc |-> p, declared |-> declared, grant |-> None, counted |-> None,
         result |-> "none"]
  <2>1. PICK one : one = [NoInvocation EXCEPT !.pc = "grant"]
    OBVIOUS
  <2>2. PICK two : two = [one EXCEPT !.proc = p]
    OBVIOUS
  <2>3. one = [pc |-> "grant", proc |-> None, declared |-> None, grant |-> None, counted |-> None,
               result |-> "none"]
    BY <2>1 DEF NoInvocation
  <2>4. two = [pc |-> "grant", proc |-> p, declared |-> None, grant |-> None, counted |-> None,
               result |-> "none"]
    BY <2>2, <2>3
  <2>5. [two EXCEPT !.declared = declared] =
          [pc |-> "grant", proc |-> p, declared |-> declared, grant |-> None, counted |-> None,
           result |-> "none"]
    BY <2>4
  <2> QED
    BY <2>1, <2>2, <2>5
<1>3. invocation' = [invocation EXCEPT ![c] =
        [pc |-> "grant", proc |-> p, declared |-> declared, grant |-> None, counted |-> None,
         result |-> "none"]]
  BY <1>1, <1>2 DEF Invoke
<1>4. None \in 0..Len(given) /\ UNCHANGED <<given, grant>>
  BY DEF ToolInv, GrantsTyped, Invoke, rows, None
<1>5. PICK place, read, counted, result :
        place = "grant" /\ read = None /\ counted = None /\ result = "none"
  OBVIOUS
<1>6. invocation' = [invocation EXCEPT ![c] =
        [pc |-> place, proc |-> p, declared |-> declared, grant |-> read, counted |-> counted,
         result |-> result]]
  BY <1>3, <1>5
<1>7. /\ read \in 0..Len(given) /\ counted \in {None, read}
      /\ counted \in {None, invocation[c].counted}
      /\ place \in {"new", "grant", "reserve"} => counted = None
      /\ place = "reserve" => read # None
  BY <1>4, <1>5
<1>8. UNCHANGED <<given, grant>>
  BY <1>4
<1> QED
  BY <1>6, <1>7, <1>8, CallMoves

LEMMA CallReads ==
  ASSUME ToolInv, NEW c \in Calls, GetGrant(c)
  PROVE  ToolInv'
<1>1. UNCHANGED <<given, grant>> /\ invocation[c].pc = "grant"
  BY DEF GetGrant, rows
<1>2. CASE grant = None /\ Answers(c, "denied")
  BY <1>1, <1>2, CallAnswers
<1>3. CASE /\ grant # None
           /\ invocation' = [invocation EXCEPT ![c].pc = "reserve", ![c].grant = grant]
  <2>1. PICK p, declared, result, g :
          p = invocation[c].proc /\ declared = invocation[c].declared /\ result = invocation[c].result
          /\ g = grant
    OBVIOUS
  <2>2. invocation[c].counted = None
    BY <1>1 DEF ToolInv, ReadsHold
  <2>3. invocation[c] = [pc |-> "grant", proc |-> p, declared |-> declared,
                         grant |-> invocation[c].grant, counted |-> None, result |-> result]
    BY <1>1, <2>1, <2>2 DEF ToolInv, GrantsTyped
  <2>4. PICK now : now = [invocation[c] EXCEPT !.pc = "reserve"]
    OBVIOUS
  <2>5. now = [pc |-> "reserve", proc |-> p, declared |-> declared,
               grant |-> invocation[c].grant, counted |-> None, result |-> result]
    BY <2>3, <2>4
  <2>6. [now EXCEPT !.grant = g] = [pc |-> "reserve", proc |-> p, declared |-> declared,
                                    grant |-> g, counted |-> None, result |-> result]
    BY <2>5
  <2>7. invocation' = [invocation EXCEPT ![c] = [now EXCEPT !.grant = g]]
    BY <1>3, <2>1, <2>4 DEF ToolInv, GrantsTyped
  <2>8. invocation' = [invocation EXCEPT ![c] =
          [pc |-> "reserve", proc |-> p, declared |-> declared, grant |-> g, counted |-> None,
           result |-> result]]
    BY <2>6, <2>7
  <2>9. g \in 0..Len(given) /\ g # None
    BY <1>3, <2>1 DEF ToolInv, GrantsTyped
  <2> QED
    BY <1>1, <2>8, <2>9, CallMoves
<1> QED
  BY <1>2, <1>3 DEF GetGrant

\* The grant that was read is in force and below its limit: one more use.
LEMMA CallCounted ==
  ASSUME ToolInv, NEW c \in Calls, ReserveInvocation(c), Reserves(c)
  PROVE  ToolInv'
<1>1. PICK g : g = grant
  OBVIOUS
<1>2. /\ invocation[c].pc = "reserve" /\ invocation[c].grant = g /\ grant' = g
      /\ given' = [given EXCEPT ![g].used = @ + 1]
      /\ invocation' = [invocation EXCEPT ![c].pc = "run", ![c].counted = g]
      /\ given[g].cap = Unlimited \/ given[g].used < given[g].cap
  BY <1>1 DEF ReserveInvocation, Reserves
<1>3. g \in DOMAIN given
  <2>1. ReadsHold(c) /\ given \in Seq(Grants)
    BY DEF ToolInv, GrantsTyped
  <2>2. g \in 0..Len(given) /\ g # 0
    BY <1>2, <2>1 DEF ReadsHold, None
  <2> QED
    BY <2>1, <2>2, LenProperties
<1>4. invocation[c].counted = None /\ g # None /\ Len(given) \in Nat
  <2>1. given \in Seq(Grants)
    BY DEF ToolInv, GrantsTyped
  <2>2. Len(given) \in Nat /\ g \in 1..Len(given)
    BY <1>3, <2>1, LenProperties
  <2>3. ReadsHold(c)
    BY DEF ToolInv
  <2>4. invocation[c].counted = None
    BY <1>2, <2>3 DEF ReadsHold
  <2> QED
    BY <2>2, <2>4 DEF None
<1>5. given[g] \in Grants /\ given[g].used \in Nat
  <2>1. given[g] \in Grants
    BY <1>3, ElementOfSeq DEF ToolInv, GrantsTyped
  <2> QED
    BY <2>1 DEF Grants
<1>6. PICK n \in Nat : n = given[g].used + 1
  BY <1>5
<1>7. PICK now : now = [given[g] EXCEPT !.used = n]
  OBVIOUS
<1>8. now \in Grants /\ now.cap = given[g].cap /\ now.used = n
  BY <1>5, <1>7 DEF Grants
<1>9. given' = [given EXCEPT ![g] = now]
  BY <1>2, <1>6, <1>7 DEF ToolInv, GrantsTyped
<1>10. /\ given' \in Seq(Grants) /\ Len(given') = Len(given) /\ DOMAIN given' = DOMAIN given
       /\ \A h \in DOMAIN given : given'[h] = IF h = g THEN now ELSE given[h]
  <2>1. given \in Seq(Grants) /\ g \in 1..Len(given) /\ DOMAIN given = 1..Len(given)
    BY <1>3 DEF ToolInv, GrantsTyped
  <2>2. given' \in Seq(Grants) /\ Len(given') = Len(given)
    BY <1>8, <1>9, <2>1, ExceptSeq
  <2>3. \A h \in DOMAIN given : given'[h] = IF h = g THEN now ELSE given[h]
    BY <1>9, <2>1
  <2> QED
    BY <2>1, <2>2, <2>3
<1>11. PICK p, declared, result :
         p = invocation[c].proc /\ declared = invocation[c].declared /\ result = invocation[c].result
  OBVIOUS
<1>12. /\ DOMAIN invocation = Calls
       /\ \A d \in Calls \ {c} : invocation'[d] = invocation[d]
       /\ invocation'[c] = [pc |-> "run", proc |-> p, declared |-> declared, grant |-> g,
                            counted |-> g, result |-> result]
  <2>1. DOMAIN invocation = Calls
    BY DEF ToolInv, GrantsTyped
  <2>2. invocation[c] = [pc |-> "reserve", proc |-> p, declared |-> declared, grant |-> g,
                         counted |-> None, result |-> result]
    BY <1>2, <1>4, <1>11 DEF ToolInv, GrantsTyped
  <2>3. PICK one : one = [invocation[c] EXCEPT !.pc = "run"]
    OBVIOUS
  <2>4. one = [pc |-> "run", proc |-> p, declared |-> declared, grant |-> g,
               counted |-> None, result |-> result]
    BY <2>2, <2>3
  <2>5. [one EXCEPT !.counted = g] =
          [pc |-> "run", proc |-> p, declared |-> declared, grant |-> g, counted |-> g, result |-> result]
    BY <2>4
  <2>6. invocation' = [invocation EXCEPT ![c] = [one EXCEPT !.counted = g]]
    BY <1>2, <2>1, <2>3
  <2>7. \A d \in Calls \ {c} : invocation'[d] = invocation[d]
    BY <2>1, <2>6
  <2>8. invocation'[c] = [one EXCEPT !.counted = g]
    BY <2>1, <2>6
  <2> QED
    BY <2>1, <2>5, <2>7, <2>8
<1>13. invocation'[c].pc = "run" /\ invocation'[c].grant = g /\ invocation'[c].counted = g
  BY <1>12
<1>14. GrantsTyped'
  <2>1. ASSUME NEW d \in Calls
        PROVE  invocation'[d] =
                 [pc |-> invocation'[d].pc, proc |-> invocation'[d].proc,
                  declared |-> invocation'[d].declared, grant |-> invocation'[d].grant,
                  counted |-> invocation'[d].counted, result |-> invocation'[d].result]
    <3>1. CASE d = c
      BY <1>12, <3>1
    <3>2. CASE d # c
      <4>1. invocation[d] =
              [pc |-> invocation[d].pc, proc |-> invocation[d].proc,
               declared |-> invocation[d].declared, grant |-> invocation[d].grant,
               counted |-> invocation[d].counted, result |-> invocation[d].result]
        BY DEF ToolInv, GrantsTyped
      <4> QED
        BY <1>12, <3>2, <4>1
    <3> QED
      BY <3>1, <3>2
  <2>2. invocation' = [d \in Calls |-> invocation'[d]]
    BY <1>2, <1>12
  <2>3. grant' \in 0..Len(given')
    BY <1>1, <1>2, <1>10 DEF ToolInv, GrantsTyped
  <2> QED
    BY <1>10, <2>1, <2>2, <2>3 DEF GrantsTyped
<1>15. ASSUME NEW d \in Calls PROVE ReadsHold(d)'
  <2>1. CASE d = c
    <3>1. g \in 0..Len(given')
      BY <1>1, <1>10 DEF ToolInv, GrantsTyped
    <3> QED
      BY <1>13, <2>1, <3>1 DEF ReadsHold
  <2>2. CASE d # c
    BY <1>10, <1>12, <2>2 DEF ToolInv, ReadsHold
  <2> QED
    BY <2>1, <2>2
<1>16. ASSUME NEW h \in DOMAIN given PROVE WithinRow(h)'
  <2>1. WithinRow(h)
    BY DEF ToolInv
  <2>2. CASE h # g
    <3>1. Users(h)' = Users(h)
      <4>1. \A d \in Calls : (invocation'[d].counted = h) <=> (invocation[d].counted = h)
        <5> SUFFICES ASSUME NEW d \in Calls
                     PROVE  (invocation'[d].counted = h) <=> (invocation[d].counted = h)
          OBVIOUS
        <5>1. CASE d # c
          BY <1>12, <5>1
        <5>2. CASE d = c
          <6>1. h # None
            BY DEF ToolInv, GrantsTyped, None
          <6> QED
            BY <1>4, <1>13, <2>2, <5>2, <6>1
        <5> QED
          BY <5>1, <5>2
      <4> QED
        BY <4>1 DEF Users
    <3> QED
      BY <1>10, <2>1, <2>2, <3>1 DEF WithinRow
  <2>3. CASE h = g
    <3>1. Users(g)' = Users(g) \cup {c} /\ c \notin Users(g)
      <4>1. \A d \in Calls : (invocation'[d].counted = g) <=> (invocation[d].counted = g \/ d = c)
        BY <1>12, <1>13
      <4>2. c \notin Users(g)
        BY <1>4 DEF Users
      <4> QED
        BY <4>1, <4>2 DEF Users
    <3>2. IsFiniteSet(Users(g)') /\ Cardinality(Users(g)') = Cardinality(Users(g)) + 1
      BY <2>1, <2>3, <3>1, FS_AddElement DEF WithinRow
    <3>3. Cardinality(Users(g)) \in Nat /\ Cardinality(Users(g)) <= given[g].used
      BY <2>1, <2>3, FS_CardinalityType DEF WithinRow
    <3>4. Cardinality(Users(g)') <= n
      BY <1>5, <1>6, <3>2, <3>3
    <3>5. given[g].cap = Unlimited \/ n <= given[g].cap
      <4>1. CASE given[g].cap \in Nat
        BY <1>2, <1>5, <1>6, <4>1
      <4>2. CASE given[g].cap \notin Nat
        BY <1>5, <4>2, CapsAreNumbers DEF Grants
      <4> QED
        BY <4>1, <4>2
    <3>6. given'[g].cap = given[g].cap /\ given'[g].used = n
      BY <1>3, <1>8, <1>10
    <3> QED
      BY <2>3, <3>2, <3>4, <3>5, <3>6 DEF WithinRow
  <2> QED
    BY <2>2, <2>3
<1> QED
  BY <1>10, <1>14, <1>15, <1>16 DEF ToolInv

\* A grant is given where there is none: nobody is counted under it yet.
LEMMA GrantGiven ==
  ASSUME ToolInv, NEW cap \in Caps \cup {Unlimited}, InsertGrant(cap), UNCHANGED invocation
  PROVE  ToolInv'
<1>1. CASE grant # None
  BY <1>1, GrantsStand DEF InsertGrant, ToolInv, GrantsTyped
<1>2. CASE grant = None
  <2>1. PICK new : new = [cap |-> cap, used |-> 0]
    OBVIOUS
  <2>2. new \in Grants /\ new.used = 0 /\ given \in Seq(Grants)
    BY <2>1 DEF Grants, ToolInv, GrantsTyped
  <2>3. given' = Append(given, new) /\ grant' = Len(given) + 1
    BY <1>2, <2>1 DEF InsertGrant
  <2>4. /\ given' \in Seq(Grants) /\ Len(given') = Len(given) + 1 /\ Len(given) \in Nat
        /\ \A g \in DOMAIN given : given'[g] = given[g]
        /\ given'[Len(given) + 1] = new
    BY <2>2, <2>3, AppendProperties
  <2>5. GrantsTyped'
    BY <2>3, <2>4 DEF ToolInv, GrantsTyped
  <2>6. ASSUME NEW c \in Calls PROVE ReadsHold(c)'
    BY <2>4 DEF ToolInv, ReadsHold
  <2>7. ASSUME NEW g \in DOMAIN given' PROVE WithinRow(g)'
    <3>1. CASE g \in DOMAIN given
      BY <2>4, <3>1 DEF ToolInv, WithinRow, Users
    <3>2. CASE g \notin DOMAIN given
      <4>1. g = Len(given) + 1 /\ given'[g] = new
        BY <2>2, <2>4, <2>7, <3>2
      <4>2. \A c \in Calls : invocation[c].counted # g
        BY <2>4, <4>1 DEF ToolInv, ReadsHold, None
      <4>3. Users(g)' = {}
        BY <4>2 DEF Users
      <4>4. new.cap = Unlimited \/ new.used <= new.cap
        BY <2>1, CapsAreNumbers
      <4>5. IsFiniteSet(Users(g)') /\ Cardinality(Users(g)') = 0
        BY <4>3, FS_EmptySet
      <4>6. given'[g].used = 0 /\ given'[g].cap = new.cap
        BY <2>2, <4>1
      <4> QED
        BY <2>2, <4>4, <4>5, <4>6 DEF WithinRow
    <3> QED
      BY <3>1, <3>2
  <2> QED
    BY <2>5, <2>6, <2>7 DEF ToolInv
<1> QED
  BY <1>1, <1>2

\* A process that dies takes its calls with it, and their records keep the grant.
LEMMA ProcessOfCallsDies ==
  ASSUME ToolInv, NEW p \in Processes, Die(p)
  PROVE  ToolInv'
<1>1. UNCHANGED <<given, grant>> /\ grant' \in 0..Len(given)
  BY DEF Die, rows, ToolInv, GrantsTyped
<1>2. ASSUME NEW c \in Calls
      PROVE  /\ invocation'[c] =
                  [pc |-> invocation'[c].pc, proc |-> invocation'[c].proc,
                   declared |-> invocation'[c].declared, grant |-> invocation'[c].grant,
                   counted |-> invocation'[c].counted, result |-> invocation'[c].result]
             /\ ReadsHold(c)'
             /\ invocation'[c].counted \in {None, invocation[c].counted}
  <2>1. ReadsHold(c)
    BY DEF ToolInv
  <2>2. CASE invocation'[c] = invocation[c]
    <3>1. invocation[c] =
            [pc |-> invocation[c].pc, proc |-> invocation[c].proc,
             declared |-> invocation[c].declared, grant |-> invocation[c].grant,
             counted |-> invocation[c].counted, result |-> invocation[c].result]
      BY DEF ToolInv, GrantsTyped
    <3> QED
      BY <1>1, <2>1, <2>2, <3>1 DEF ReadsHold
  <2>3. CASE invocation'[c] = Answered(c, "died")
    <3>1. PICK read, counted, result :
            read = invocation[c].grant /\ counted = invocation[c].counted /\ result = "died"
      OBVIOUS
    <3>2. invocation'[c] = [pc |-> "ended", proc |-> None, declared |-> None, grant |-> read,
                            counted |-> counted, result |-> result]
      BY <2>3, <3>1, AnsweredRecord
    <3> QED
      BY <1>1, <2>1, <3>1, <3>2 DEF ReadsHold
  <2> QED
    BY <2>2, <2>3 DEF Die
<1>3. invocation' = [c \in Calls |-> invocation'[c]]
  BY DEF Die
<1> QED
  BY <1>1, <1>2, <1>3, CallsMove

LEMMA ToolInvInit == ToolInit => ToolInv
<1> SUFFICES ASSUME ToolInit PROVE ToolInv
  OBVIOUS
<1>1. \A c \in Calls : invocation[c] = [pc |-> "new", proc |-> None, declared |-> None,
                                        grant |-> None, counted |-> None, result |-> "none"]
  BY DEF ToolInit, NoInvocation
<1>2. invocation = [c \in Calls |-> invocation[c]]
  BY DEF ToolInit
<1>3. given = <<>> /\ grant = None
  BY DEF ToolInit
<1> QED
  BY <1>1, <1>2, <1>3 DEF ToolInv, GrantsTyped, ReadsHold, None

LEMMA ToolInvNext == ToolInv /\ [ToolNext]_toolVars => ToolInv'
<1> SUFFICES ASSUME ToolInv, [ToolNext]_toolVars PROVE ToolInv'
  OBVIOUS
<1>1. ASSUME NEW p \in Processes,
             StartProcess(p) \/ DeclareWorkspaceTool(p) \/ LookUpExtension(p) \/ EnsureExtension(p)
      PROVE  ToolInv'
  BY <1>1, GrantsStand
  DEF StartProcess, DeclareWorkspaceTool, LookUpExtension, EnsureExtension, rows, ToolInv, GrantsTyped
<1>2. ASSUME NEW p \in Processes, EnsureGrant(p) PROVE ToolInv'
  BY <1>2, GrantGiven DEF EnsureGrant
<1>3. ASSUME NEW cap \in Caps, GrantTool(cap) PROVE ToolInv'
  BY <1>3, GrantGiven DEF GrantTool
<1>4. CASE RevokeToolGrant
  <2>1. grant' \in 0..Len(given) /\ UNCHANGED <<given, invocation>>
    BY <1>4 DEF RevokeToolGrant, None, ToolInv, GrantsTyped
  <2> QED
    BY <2>1, GrantsStand
<1>5. ASSUME NEW c \in Calls, ReserveInvocation(c) PROVE ToolInv'
  <2>1. CASE Reserves(c)
    BY <1>5, <2>1, CallCounted
  <2>2. CASE ~Reserves(c)
    BY <1>5, <2>2, CallAnswers DEF ReserveInvocation
  <2> QED
    BY <2>1, <2>2
<1>6. ASSUME NEW c \in Calls, RunHandler(c) PROVE ToolInv'
  <2>1. PICK result : Answers(c, result)
    BY <1>6 DEF RunHandler
  <2> QED
    BY <1>6, <2>1, CallAnswers DEF RunHandler, rows
<1>7. CASE UNCHANGED toolVars
  BY <1>7, GrantsStand DEF toolVars, ToolInv, GrantsTyped
<1> QED
  BY <1>1, <1>2, <1>3, <1>4, <1>5, <1>6, <1>7, ProcessOfCallsDies, CallBegins, CallReads DEF ToolNext

\* No grant is used more often than it allows, however many calls read it at once
\* and whichever processes start, die and give it anew; and a call runs under the
\* grant it read or not at all.
THEOREM GrantsHold == ToolSpec => []WithinCap
<1>1. ToolInv => WithinCap
  <2> SUFFICES ASSUME ToolInv PROVE WithinCap
    OBVIOUS
  <2>1. ASSUME NEW g \in DOMAIN given, given[g].cap # Unlimited
        PROVE  Cardinality({c \in Calls : invocation[c].counted = g}) <= given[g].cap
    <3>1. WithinRow(g) /\ given[g] \in Grants
      BY DEF ToolInv, GrantsTyped
    <3>2. given[g].used \in Nat /\ given[g].cap \in Nat
      BY <2>1, <3>1, CapsAreNumbers DEF Grants
    <3>3. Cardinality(Users(g)) \in Nat
      BY <3>1, FS_CardinalityType DEF WithinRow
    <3>4. Cardinality(Users(g)) <= given[g].cap
      BY <2>1, <3>1, <3>2, <3>3 DEF WithinRow
    <3> QED
      BY <3>4 DEF Users
  <2> QED
    BY <2>1 DEF WithinCap, ToolInv, ReadsHold
<1> QED
  BY <1>1, ToolInvInit, ToolInvNext, PTL DEF ToolSpec

-----------------------------------------------------------------------------
(***************************************************************************)
(* ProviderStream.                                                         *)
(***************************************************************************)

StreamSpec == StreamInit /\ [][StreamNext]_streamVars

\* What the gateway has sent.
SentSoFar ==
  /\ wire \in Wires /\ indexed \in BOOLEAN
  /\ opened \subseteq named /\ named \subseteq Indexes
  /\ piecesSent \in [Indexes -> 0..Pieces]
  /\ \A i \in Indexes \ opened : piecesSent[i] = 0
  /\ \A i, j \in named \ opened : i = j
  /\ wire = "anthropic" => named = opened
  /\ Saw("finish") => named = opened /\ \A i \in opened : Whole(i)

PiecesUpTo(n) == [k \in 1..n |-> k]
Kept(i) == built[i] = [name |-> i, pieces |-> PiecesUpTo(piecesSent[i])]

\* What was made of it: as soon as a call has its id (in a body read by index, its
\* name), its own name and the fragments sent so far are kept for it.
Collected ==
  /\ DOMAIN built = opened /\ \A i \in opened : Kept(i)
  /\ \A i \in named \ opened : pendingName = i
  /\ named = opened => pendingName = Blank
  /\ DOMAIN idAt = IF indexed THEN opened ELSE {}
  /\ \A i \in DOMAIN idAt : idAt[i] = i
Filled == DOMAIN built = opened /\ \A i \in opened : Kept(i)
Aggregated == DOMAIN built = named /\ \A i \in named : Kept(i)

ReadSoFar ==
  /\ wire = "openai" => Collected
  /\ wire = "anthropic" => Filled
  /\ wire = "sse" /\ indexed => Aggregated

\* The inductive invariant.
StreamInv == SentSoFar /\ ReadSoFar /\ WholeOrNothing

LEMMA NoPieces == PiecesUpTo(0) = <<>>
BY DEF PiecesUpTo

LEMMA NextPiece ==
  ASSUME NEW n \in Nat
  PROVE  Append(PiecesUpTo(n), n + 1) = PiecesUpTo(n + 1)
<1>1. PiecesUpTo(n) \in Seq(Nat) /\ Len(PiecesUpTo(n)) = n /\ PiecesUpTo(n + 1) \in Seq(Nat) /\ Len(PiecesUpTo(n + 1)) = n + 1
  BY DEF PiecesUpTo
<1>2. \A k \in 1..(n + 1) : Append(PiecesUpTo(n), n + 1)[k] = PiecesUpTo(n + 1)[k]
  BY <1>1 DEF PiecesUpTo
<1> QED
  BY <1>1, <1>2, SeqEqual

\* A call is put where it belongs; the others stay.
LEMMA PutKeeps ==
  ASSUME NEW S, S \subseteq Indexes, DOMAIN built = S, \A k \in S : Kept(k), NEW i \in Indexes,
         built' = Put(built, i, [name |-> i, pieces |-> PiecesUpTo(piecesSent'[i])]),
         \A k \in Indexes \ {i} : piecesSent'[k] = piecesSent[k]
  PROVE  DOMAIN built' = S \cup {i} /\ \A k \in S \cup {i} : Kept(k)'
<1>1. PICK e : e = [name |-> i, pieces |-> PiecesUpTo(piecesSent'[i])]
  OBVIOUS
<1>2. built' = Put(built, i, e)
  BY <1>1
<1>3. DOMAIN built' = S \cup {i} /\ built'[i] = e /\ \A k \in S \ {i} : built'[k] = built[k]
  BY <1>2 DEF Put
<1>4. Kept(i)'
  BY <1>1, <1>3 DEF Kept, PiecesUpTo
<1>5. ASSUME NEW k \in S \ {i} PROVE Kept(k)'
  BY <1>3, <1>5 DEF Kept, PiecesUpTo
<1> QED
  BY <1>3, <1>4, <1>5

\* A frame of a call.
LEMMA FrameFields ==
  ASSUME NEW i, NEW id, NEW name, NEW piece
  PROVE  /\ CallFrame(i, id, name, piece).id = id /\ CallFrame(i, id, name, piece).name = name
         /\ CallFrame(i, id, name, piece).piece = piece
         /\ CallFrame(i, id, name, piece).index = IF indexed \/ wire = "anthropic" THEN i ELSE Blank
BY DEF CallFrame

LEMMA NameDelivered ==
  ASSUME StreamInv, NEW i \in Indexes, DeliverName(i)
  PROVE  StreamInv'
<1> DEFINE f == CallFrame(i, Blank, i, Blank)
<1>0. opened \subseteq Indexes /\ named \subseteq Indexes
  BY DEF StreamInv, SentSoFar
<1>1. /\ i \notin named /\ named' = named \cup {i} /\ wire # "anthropic" /\ ~Saw("finish") /\ outcome = "open"
      /\ UNCHANGED <<wire, indexed, outcome, opened, piecesSent>>
      /\ arrived' = arrived \cup {"call"}
      /\ \A j \in Indexes : NamedOnly(j) => j = i
  BY DEF DeliverName, SendName, Sends, Turn
<1>2. i # Blank /\ i \in Nat /\ piecesSent[i] = 0 /\ i \notin opened
  BY <1>1, StreamAssumption DEF StreamInv, SentSoFar
<1>3. named \subseteq opened /\ ~Saw("finish")'
  BY <1>1 DEF StreamInv, SentSoFar, NamedOnly, Saw
<1>4. SentSoFar'
  BY <1>1, <1>2, <1>3 DEF StreamInv, SentSoFar
<1>5. /\ f.id = Blank /\ f.name = i /\ f.piece = Blank
      /\ f.index = IF indexed \/ wire = "anthropic" THEN i ELSE Blank
  BY FrameFields
<1> HIDE DEF f
<1>6. Read(f)
  BY DEF DeliverName, f
<1>7. ASSUME wire = "openai" PROVE ReadSoFar'
  <2>1. Collected
    BY <1>7 DEF StreamInv, ReadSoFar
  <2>2. IdByIndex(f) = Blank
    BY <1>1, <1>2, <1>5, <2>1 DEF IdByIndex, Collected
  <2>3. UNCHANGED <<idAt, built>> /\ pendingName' = i
    BY <1>2, <1>5, <1>6, <1>7, <2>2 DEF Read, Collect, PendingAfter
  <2>4. Collected'
    BY <1>1, <1>2, <1>3, <2>1, <2>3 DEF Collected, Kept
  <2> QED BY <1>1, <1>7, <2>4 DEF ReadSoFar
<1>8. ASSUME wire = "sse" /\ indexed PROVE ReadSoFar'
  <2>1. Aggregated
    BY <1>8 DEF StreamInv, ReadSoFar
  <2>2. EntryOf(built, i) = NoCall
    BY <1>1, <2>1 DEF Aggregated, EntryOf
  <2>3. built' = Put(built, i, [name |-> i, pieces |-> <<>>])
    BY <1>5, <1>6, <1>8, <2>2, <1>2 DEF Read, Aggregate, NoCall, Fragments
  <2>4. Aggregated'
    <3>1. DOMAIN built' = named' /\ \A k \in named' : Kept(k)'
      BY <1>0, <1>1, <1>2, <2>1, <2>3, PutKeeps, NoPieces DEF Aggregated
    <3> QED BY <3>1 DEF Aggregated
  <2> QED BY <1>1, <1>8, <2>4 DEF ReadSoFar
<1>9. ReadSoFar'
  BY <1>1, <1>7, <1>8 DEF ReadSoFar
<1> QED
  BY <1>1, <1>4, <1>9 DEF StreamInv, WholeOrNothing

LEMMA IdDelivered ==
  ASSUME StreamInv, NEW i \in Indexes, DeliverId(i)
  PROVE  StreamInv'
<1> DEFINE f == CallFrame(i, i, IF i \in named THEN Blank ELSE i, Blank)
<1>0. opened \subseteq Indexes /\ named \subseteq Indexes
  BY DEF StreamInv, SentSoFar
<1>1. /\ i \notin opened /\ named' = named \cup {i} /\ opened' = opened \cup {i} /\ ~Saw("finish") /\ outcome = "open"
      /\ UNCHANGED <<wire, indexed, outcome, piecesSent>>
      /\ arrived' = arrived \cup {"call"}
      /\ \A j \in Indexes : NamedOnly(j) => j = i
  BY DEF DeliverId, SendId, Sends, Turn
<1>2. i # Blank /\ i \in Nat /\ piecesSent[i] = 0
  BY <1>1, StreamAssumption DEF StreamInv, SentSoFar
<1>3. named' = opened' /\ ~Saw("finish")'
  BY <1>1 DEF StreamInv, SentSoFar, NamedOnly, Saw
<1>4. SentSoFar'
  BY <1>1, <1>2, <1>3 DEF StreamInv, SentSoFar
<1>5. /\ f.id = i /\ f.name = (IF i \in named THEN Blank ELSE i) /\ f.piece = Blank
      /\ f.index = IF indexed \/ wire = "anthropic" THEN i ELSE Blank
  BY FrameFields
<1> HIDE DEF f
<1>6. Read(f)
  BY DEF DeliverId, f
<1>7. ASSUME wire = "openai" PROVE ReadSoFar'
  <2>1. Collected
    BY <1>7 DEF StreamInv, ReadSoFar
  <2>2. IdByIndex(f) = i
    BY <1>2, <1>5 DEF IdByIndex
  <2>3. EntryOf(built, i) = NoCall
    BY <1>1, <2>1 DEF Collected, EntryOf
  <2>4. EffectiveName(f, i) = i /\ Fragments(built, i, f) = <<>>
    BY <1>1, <1>2, <1>5, <2>1, <2>3 DEF EffectiveName, Fragments, Collected, NoCall
  <2>5. /\ built' = Put(built, i, [name |-> i, pieces |-> <<>>]) /\ pendingName' = Blank
        /\ idAt' = IF indexed THEN Put(idAt, i, i) ELSE idAt
    BY <1>2, <1>5, <1>6, <1>7, <2>2, <2>4 DEF Read, Collect, PendingAfter
  <2>6. DOMAIN built' = opened' /\ \A k \in opened' : Kept(k)'
    BY <1>0, <1>1, <1>2, <2>1, <2>5, PutKeeps, NoPieces DEF Collected
  <2>7. (DOMAIN idAt' = IF indexed' THEN opened' ELSE {}) /\ \A k \in DOMAIN idAt' : idAt'[k] = k
    <3>1. CASE indexed
      <4>1. idAt' = Put(idAt, i, i) /\ DOMAIN idAt = opened BY <2>1, <2>5, <3>1 DEF Collected
      <4>2. DOMAIN idAt' = opened' /\ idAt'[i] = i /\ \A k \in opened \ {i} : idAt'[k] = idAt[k]
        BY <1>1, <4>1 DEF Put
      <4> QED BY <1>1, <2>1, <3>1, <4>1, <4>2 DEF Collected
    <3>2. CASE ~indexed
      BY <1>1, <2>1, <2>5, <3>2 DEF Collected
    <3> QED BY <3>1, <3>2
  <2>8. Collected'
    BY <1>3, <2>5, <2>6, <2>7 DEF Collected
  <2> QED BY <1>1, <1>7, <2>8 DEF ReadSoFar
<1>8. ASSUME wire = "anthropic" PROVE ReadSoFar'
  <2>1. Filled /\ named = opened
    BY <1>8 DEF StreamInv, ReadSoFar, SentSoFar
  <2>2. built' = Put(built, i, [name |-> i, pieces |-> <<>>])
    BY <1>1, <1>2, <1>5, <1>6, <1>8, <2>1 DEF Read, FillBlock
  <2>3. Filled'
    <3>1. DOMAIN built' = opened' /\ \A k \in opened' : Kept(k)'
      BY <1>0, <1>1, <1>2, <2>1, <2>2, PutKeeps, NoPieces DEF Filled
    <3> QED BY <3>1 DEF Filled
  <2> QED BY <1>1, <1>8, <2>3 DEF ReadSoFar
<1>9. ASSUME wire = "sse" /\ indexed PROVE ReadSoFar'
  <2>1. Aggregated
    BY <1>9 DEF StreamInv, ReadSoFar
  <2>2. EntryOf(built, i) = IF i \in named THEN [name |-> i, pieces |-> <<>>] ELSE NoCall
    BY <1>2, <2>1, NoPieces DEF Aggregated, EntryOf, Kept
  <2>3. built' = Put(built, i, [name |-> i, pieces |-> <<>>])
    BY <1>2, <1>5, <1>6, <1>9, <2>2 DEF Read, Aggregate, NoCall, Fragments
  <2>4. Aggregated'
    <3>1. DOMAIN built' = named' /\ \A k \in named' : Kept(k)'
      BY <1>0, <1>1, <1>2, <2>1, <2>3, PutKeeps, NoPieces DEF Aggregated
    <3> QED BY <3>1 DEF Aggregated
  <2> QED BY <1>1, <1>9, <2>4 DEF ReadSoFar
<1>10. ReadSoFar'
  BY <1>1, <1>7, <1>8, <1>9 DEF ReadSoFar
<1> QED
  BY <1>1, <1>4, <1>10 DEF StreamInv, WholeOrNothing

LEMMA PieceDelivered ==
  ASSUME StreamInv, NEW i \in Indexes, DeliverPiece(i)
  PROVE  StreamInv'
<1> DEFINE n == piecesSent[i]
           f == CallFrame(i, IF indexed THEN Blank ELSE i, Blank, n + 1)
           more == [name |-> i, pieces |-> PiecesUpTo(n + 1)]
<1>1. /\ i \in opened /\ piecesSent[i] < Pieces /\ piecesSent' = [piecesSent EXCEPT ![i] = @ + 1]
      /\ ~Saw("finish") /\ outcome = "open"
      /\ UNCHANGED <<wire, indexed, outcome, named, opened>>
      /\ arrived' = arrived \cup {"call"}
      /\ \A j \in Indexes : NamedOnly(j) => j = i
  BY DEF DeliverPiece, SendPiece, Sends, Turn
<1>2. i # Blank /\ i \in Nat /\ n \in Nat /\ Pieces \in Nat /\ n + 1 # Blank
  BY <1>1, StreamAssumption DEF StreamInv, SentSoFar
<1>3. named = opened /\ ~Saw("finish")'
  BY <1>1 DEF StreamInv, SentSoFar, NamedOnly, Saw
<1>4. /\ piecesSent' \in [Indexes -> 0..Pieces] /\ piecesSent'[i] = n + 1
      /\ \A k \in Indexes \ {i} : piecesSent'[k] = piecesSent[k]
  BY <1>1, <1>2 DEF StreamInv, SentSoFar
<1>5. SentSoFar'
  BY <1>1, <1>3, <1>4 DEF StreamInv, SentSoFar
<1>6. /\ f.id = (IF indexed THEN Blank ELSE i) /\ f.name = Blank /\ f.piece = n + 1
      /\ f.index = IF indexed \/ wire = "anthropic" THEN i ELSE Blank
  BY FrameFields
<1>7. Read(f)
  BY DEF DeliverPiece
<1> HIDE DEF f
<1>8. ASSUME Kept(i), i \in DOMAIN built
      PROVE  /\ EntryOf(built, i) = [name |-> i, pieces |-> PiecesUpTo(n)]
             /\ Fragments(built, i, f) = PiecesUpTo(n + 1)
  <2>1. EntryOf(built, i) = [name |-> i, pieces |-> PiecesUpTo(n)]
    BY <1>8 DEF EntryOf, Kept
  <2>2. Fragments(built, i, f) = Append(PiecesUpTo(n), n + 1)
    BY <1>2, <1>6, <2>1 DEF Fragments
  <2> QED BY <1>2, <2>1, <2>2, NextPiece
<1>9. opened \subseteq Indexes
  BY DEF StreamInv, SentSoFar
<1>10. ASSUME DOMAIN built = opened, \A k \in opened : Kept(k), built' = Put(built, i, more)
       PROVE  DOMAIN built' = opened' /\ \A k \in opened' : Kept(k)'
  <2>1. built' = Put(built, i, [name |-> i, pieces |-> PiecesUpTo(piecesSent'[i])])
    BY <1>4, <1>10
  <2>2. DOMAIN built' = opened \cup {i} /\ \A k \in opened \cup {i} : Kept(k)'
    BY <1>4, <1>9, <1>10, <2>1, PutKeeps
  <2> QED BY <1>1, <2>2
<1>11. ASSUME wire = "openai" PROVE ReadSoFar'
  <2>1. Collected
    BY <1>11 DEF StreamInv, ReadSoFar
  <2>2. IdByIndex(f) = i /\ ~(f.index # Blank /\ f.id # Blank)
    BY <1>1, <1>2, <1>6, <1>11, <2>1 DEF IdByIndex, Collected
  <2>3. EffectiveName(f, i) = i /\ Fragments(built, i, f) = PiecesUpTo(n + 1)
    BY <1>1, <1>3, <1>6, <1>8, <2>1 DEF EffectiveName, Collected
  <2>4. built' = Put(built, i, more) /\ pendingName' = Blank /\ idAt' = idAt
    BY <1>2, <1>7, <1>11, <2>2, <2>3 DEF Read, Collect, PendingAfter
  <2>5. DOMAIN built' = opened' /\ \A k \in opened' : Kept(k)'
    BY <1>10, <2>1, <2>4 DEF Collected
  <2>6. Collected'
    BY <1>1, <1>3, <2>1, <2>4, <2>5 DEF Collected
  <2> QED BY <1>1, <1>11, <2>6 DEF ReadSoFar
<1>12. ASSUME wire = "anthropic" PROVE ReadSoFar'
  <2>1. Filled
    BY <1>12 DEF StreamInv, ReadSoFar
  <2>2. built' = Put(built, i, [EntryOf(built, i) EXCEPT !.pieces = Fragments(built, i, f)])
    BY <1>2, <1>6, <1>7, <1>12 DEF Read, FillBlock
  <2>3. built' = Put(built, i, more)
    BY <1>1, <1>8, <2>1, <2>2 DEF Filled
  <2>4. Filled'
    BY <1>10, <2>1, <2>3 DEF Filled
  <2> QED BY <1>1, <1>12, <2>4 DEF ReadSoFar
<1>13. ASSUME wire = "sse" /\ indexed PROVE ReadSoFar'
  <2>1. Aggregated /\ named = opened
    BY <1>3, <1>13 DEF StreamInv, ReadSoFar
  <2>2. /\ EntryOf(built, i) = [name |-> i, pieces |-> PiecesUpTo(n)]
        /\ Fragments(built, i, f) = PiecesUpTo(n + 1)
    BY <1>1, <1>8, <2>1 DEF Aggregated
  <2>3. built' = Put(built, i, more)
    BY <1>2, <1>6, <1>7, <1>13, <2>2 DEF Read, Aggregate
  <2>4. Aggregated'
    BY <1>1, <1>10, <2>1, <2>3 DEF Aggregated
  <2> QED BY <1>1, <1>13, <2>4 DEF ReadSoFar
<1>14. ReadSoFar'
  BY <1>1, <1>11, <1>12, <1>13 DEF ReadSoFar
<1> QED
  BY <1>1, <1>5, <1>14 DEF StreamInv, WholeOrNothing

LEMMA OtherDelivered ==
  ASSUME StreamInv, NEW kind \in {"text", "role", "usage", "finish", "length", "stop"}, DeliverOther(kind)
  PROVE  StreamInv'
<1>1. /\ named \subseteq opened /\ outcome = "open"
      /\ Saw("finish") => kind = "stop"
      /\ kind = "finish" => \A i \in opened : Whole(i)
      /\ UNCHANGED <<wire, indexed, outcome, named, opened, piecesSent, idAt, pendingName, built>>
      /\ arrived' = arrived \cup {kind}
  BY DEF DeliverOther, SendOther, Sends, readerVars
<1>2. Saw("finish")' => named' = opened' /\ \A i \in opened' : Whole(i)'
  BY <1>1 DEF StreamInv, SentSoFar, Saw, Whole
<1>3. SentSoFar'
  BY <1>1, <1>2 DEF StreamInv, SentSoFar
<1>4. ReadSoFar'
  BY <1>1 DEF StreamInv, ReadSoFar, Collected, Filled, Aggregated, Kept
<1> QED
  BY <1>1, <1>3, <1>4 DEF StreamInv, WholeOrNothing

\* What is kept for a call whose fragments have all been sent is the whole call.
LEMMA KeptWhole ==
  ASSUME StreamInv, NEW i \in opened, Whole(i), Kept(i)
  PROVE  built[i].name # Blank /\ Complete(built[i], i)
<1>1. i \in Nat /\ Blank \notin Nat
  BY StreamAssumption DEF StreamInv, SentSoFar
<1> QED
  BY <1>1 DEF Whole, Kept, PiecesUpTo, Complete

\* Every way a stream ends.
LEMMA StreamEnds ==
  ASSUME StreamInv, CloseOpenAI \/ CloseAnthropic \/ CloseBody \/ Break \/ Garbage \/ CancelStream
  PROVE  StreamInv'
<1>1. /\ UNCHANGED <<wire, indexed, arrived, named, opened, piecesSent, idAt, pendingName, built>>
  BY DEF CloseOpenAI, CloseAnthropic, CloseBody, Break, Garbage, CancelStream, EndStream, gatewayVars, readerVars
<1>2. SentSoFar' /\ ReadSoFar'
  BY <1>1 DEF StreamInv, SentSoFar, ReadSoFar, Collected, Filled, Aggregated, Kept, Saw, Whole
<1>3. Saw("finish") => /\ wire # "sse" => DOMAIN AnswerCalls = opened /\ \A i \in opened : Complete(AnswerCalls[i], i)
                       /\ wire = "sse" /\ indexed => DOMAIN AnswerCalls = opened /\ \A i \in opened : Complete(AnswerCalls[i], i)
  <2> SUFFICES ASSUME Saw("finish"), wire # "sse" \/ indexed
               PROVE  DOMAIN AnswerCalls = opened /\ \A i \in opened : Complete(AnswerCalls[i], i)
    OBVIOUS
  <2>1. DOMAIN built = opened /\ \A i \in opened : Kept(i)
    BY DEF StreamInv, SentSoFar, ReadSoFar, Wires, Collected, Filled, Aggregated
  <2>2. \A i \in opened : Whole(i)
    BY DEF StreamInv, SentSoFar
  <2>3. \A i \in opened : built[i].name # Blank /\ Complete(built[i], i)
    BY <2>1, <2>2, KeptWhole
  <2> QED
    BY <2>1, <2>3 DEF AnswerCalls
<1>4. AnswerCalls' = AnswerCalls /\ (HandedOn' <=> HandedOn) /\ \A kind : Saw(kind)' <=> Saw(kind)
  BY <1>1 DEF AnswerCalls, HandedOn, Saw
<1>5. outcome' = "accepted" /\ wire # "sse" /\ ~Saw("length") =>
        DOMAIN AnswerCalls = opened /\ \A i \in opened : Complete(AnswerCalls[i], i)
  <2> SUFFICES ASSUME outcome' = "accepted", wire # "sse", ~Saw("length")
               PROVE  DOMAIN AnswerCalls = opened /\ \A i \in opened : Complete(AnswerCalls[i], i)
    OBVIOUS
  <2>1. CASE CloseOpenAI
    BY <1>3, <2>1 DEF CloseOpenAI, EndStream, MarkerSeen
  <2>2. CASE CloseAnthropic
    <3>1. Saw("finish") \/ opened = {}
      BY <2>2 DEF CloseAnthropic, EndStream, MarkerSeen
    <3>2. opened = {} => DOMAIN AnswerCalls = {}
      BY <2>2 DEF CloseAnthropic, StreamInv, ReadSoFar, Filled, AnswerCalls
    <3> QED BY <1>3, <3>1, <3>2
  <2> QED
    BY <2>1, <2>2 DEF CloseBody, Break, Garbage, CancelStream, EndStream
<1>6. outcome' = "retryable" => ~HandedOn
  <2>1. arrived = {} => ~HandedOn
    BY DEF HandedOn
  <2>2. CASE CloseAnthropic
    BY <2>1, <2>2 DEF CloseAnthropic, EndStream, MarkerSeen
  <2> QED
    BY <2>1, <2>2 DEF CloseOpenAI, CloseBody, Break, Garbage, CancelStream, EndStream
<1>7. WholeOrNothing'
  BY <1>1, <1>3, <1>4, <1>5, <1>6 DEF WholeOrNothing, Complete
<1> QED
  BY <1>2, <1>7 DEF StreamInv

LEMMA StreamBegins == ASSUME StreamInit PROVE StreamInv
<1>1. SentSoFar
  BY StreamAssumption DEF StreamInit, SentSoFar, Saw
<1>2. ReadSoFar
  BY DEF StreamInit, ReadSoFar, Collected, Filled, Aggregated
<1> QED
  BY <1>1, <1>2 DEF StreamInit, StreamInv, WholeOrNothing

LEMMA StreamKept == ASSUME StreamInv, [StreamNext]_streamVars PROVE StreamInv'
<1>1. CASE UNCHANGED streamVars
  <2>1. UNCHANGED <<wire, indexed, arrived, named, opened, piecesSent, idAt, pendingName, built, outcome>>
    BY <1>1 DEF streamVars, gatewayVars, readerVars
  <2>2. SentSoFar' /\ ReadSoFar'
    BY <2>1 DEF StreamInv, SentSoFar, ReadSoFar, Collected, Filled, Aggregated, Kept, Saw, Whole
  <2>3. AnswerCalls' = AnswerCalls /\ (HandedOn' <=> HandedOn)
    BY <2>1 DEF AnswerCalls, HandedOn
  <2>4. WholeOrNothing'
    BY <2>1, <2>3 DEF StreamInv, WholeOrNothing, Complete, Saw
  <2> QED BY <2>2, <2>4 DEF StreamInv
<1> QED
  BY <1>1, NameDelivered, IdDelivered, PieceDelivered, OtherDelivered, StreamEnds DEF StreamNext

\* For any number of calls and of fragments: no call of an accepted answer is lost,
\* renamed or mixed up with another, however frames interleave and wherever the
\* stream breaks, and what is retried was not handed on.
THEOREM StreamIsWholeOrNothing == StreamSpec => []WholeOrNothing
<1>1. StreamInv => WholeOrNothing
  BY DEF StreamInv
<1> QED
  BY <1>1, StreamBegins, StreamKept, PTL DEF StreamSpec

-----------------------------------------------------------------------------
(***************************************************************************)
(* MessageRendering.                                                       *)
(***************************************************************************)

RenderingSpec == RenderingInit /\ [][RenderingNext]_<<history, renderVars>>

Messages == {User} \cup {Assistant(b) : b \in Batches} \cup {ToolResult(r) : r \in RawIds}

\* A result is never left behind a batch that it does not answer: at most its own
\* batch has been cut off.  And no call is answered twice.
HistoryInv ==
  /\ history \in Seq(Messages)
  /\ \A k \in DOMAIN history :
       history[k].role = "tool" /\ (\E m \in 1..(k - 1) : history[m].role = "assistant") => Paired(k)
  /\ \A j, k \in DOMAIN history :
       j < k /\ Paired(j) /\ Paired(k) /\ history[j].id = history[k].id
       => \E m \in (j + 1)..(k - 1) : history[m].role = "assistant"

WireIds == {Suffixed(Safe(p[1]), p[2]) : p \in RawIds \X (0..MaxSuffix)} \cup {NoId}
BlockSet == [turn : Nat, role : {"user", "assistant"}, type : {"text", "use", "result"}, id : WireIds,
             message : Nat, call : Nat]

PlaceInv ==
  /\ position \in 0..(Len(history) + 1) /\ callsDone \in Nat
  /\ position = 0 => callsDone = 0 /\ seenIds = {} /\ blocks = <<>>
  /\ callsDone > 0 =>
       /\ position \in DOMAIN history /\ history[position].role = "assistant"
       /\ callsDone < Len(history[position].calls)
       /\ blocks # <<>> /\ blocks[Len(blocks)].role = "assistant"
  /\ blocks \in Seq(BlockSet) /\ IsFiniteSet(seenIds) /\ seenIds \subseteq WireIds

\* Call c of message m has been rendered.
Done(m, c) == m < position \/ (m = position /\ c <= callsDone)

UsesInv ==
  /\ \A b \in DOMAIN blocks : blocks[b].type = "use" =>
       LET m == blocks[b].message IN
       /\ m \in DOMAIN history /\ history[m].role = "assistant" /\ blocks[b].call \in DOMAIN history[m].calls
       /\ blocks[b].id \in seenIds
  /\ \A b, c \in DOMAIN blocks : blocks[b].type = "use" /\ blocks[c].type = "use" /\ blocks[b].id = blocks[c].id => b = c

ResultsInv ==
  /\ \A b \in DOMAIN blocks : blocks[b].type = "result" =>
       /\ \E k \in DOMAIN history : blocks[b].message = k /\ k < position /\ Paired(k)
       /\ \E u \in DOMAIN blocks : AnswersCall(blocks, b, u)
  /\ \A b, c \in DOMAIN blocks :
       blocks[b].type = "result" /\ blocks[c].type = "result" /\ blocks[b].message = blocks[c].message => b = c
  /\ \A k \in DOMAIN history : k < position /\ Paired(k) =>
       \E b \in DOMAIN blocks : blocks[b].type = "result" /\ blocks[b].message = k

TurnsInv ==
  /\ blocks # <<>> => blocks[1].turn = 1
  /\ \A b \in 2..Len(blocks) :
       blocks[b].turn = blocks[b - 1].turn + (IF blocks[b].role = blocks[b - 1].role THEN 0 ELSE 1)

\* The batch whose ids the table has: the one being rendered, or the last rendered.
Current(m) == IF callsDone > 0 THEN m = position ELSE m \in 1..(position - 1) /\ Behind(m, position)

\* The block of call c of message m stands in the turn before the next result.
BlockOf(m, c, u) ==
  /\ u \in DOMAIN blocks /\ blocks[u].type = "use" /\ blocks[u].message = m /\ blocks[u].call = c
  /\ blocks[u].turn + 1 = TurnOf("user")

TableInv ==
  \A m \in DOMAIN history : Current(m) =>
    \A c \in DOMAIN history[m].calls : Done(m, c) =>
      /\ history[m].calls[c] \in DOMAIN pendingMap
      /\ \E u \in DOMAIN blocks : BlockOf(m, c, u) /\ blocks[u].id = pendingMap[history[m].calls[c]]

\* The inductive invariant.
RenderingInv == HistoryInv /\ PlaceInv /\ UsesInv /\ ResultsInv /\ TurnsInv /\ TableInv

\* What a message of the history is.
LEMMA MessageFacts ==
  ASSUME NEW x \in Messages
  PROVE  /\ x.role \in {"user", "assistant", "tool"}
         /\ x.role # "assistant" => x.calls = <<>>
         /\ x.role = "tool" => x.id \in RawIds
         /\ x.role = "assistant" => x.calls \in Seq(RawIds) /\ IsInjective(x.calls)
<1>1. CASE x = User
  BY <1>1 DEF User
<1>2. ASSUME NEW r \in RawIds, x = ToolResult(r) PROVE x.role = "tool" /\ x.calls = <<>> /\ x.id \in RawIds
  BY <1>2 DEF ToolResult
<1>3. ASSUME NEW b \in Batches, x = Assistant(b) PROVE x.role = "assistant" /\ x.calls \in Seq(RawIds) /\ IsInjective(x.calls)
  <2>1. PICK n \in 0..MaxCalls : b \in Injection(1..n, RawIds)
    BY DEF Batches
  <2>2. n \in Nat /\ b \in [1..n -> RawIds] /\ IsInjective(b)
    BY <2>1, RenderingAssumption DEF Injection
  <2>3. b \in Seq(RawIds)
    BY <2>2
  <2> QED BY <1>3, <2>2, <2>3 DEF Assistant
<1> QED
  BY <1>1, <1>2, <1>3 DEF Messages

LEMMA HistoryFacts ==
  ASSUME HistoryInv
  PROVE  /\ Len(history) \in Nat /\ DOMAIN history = 1..Len(history)
         /\ \A k \in DOMAIN history : history[k] \in Messages
BY DEF HistoryInv

\* Only the model's messages ask for anything.
LEMMA AskedByModel ==
  ASSUME HistoryInv, NEW m \in DOMAIN history, NEW r, AsksFor(m, r)
  PROVE  history[m].role = "assistant"
BY HistoryFacts, MessageFacts DEF AsksFor

-----------------------------------------------------------------------------
(* The history. *)

LEMMA Appended ==
  ASSUME HistoryInv, NEW x \in Messages, Grow(x)
  PROVE  /\ history' \in Seq(Messages) /\ Len(history') = Len(history) + 1
         /\ \A k \in DOMAIN history : k \in DOMAIN history' /\ history'[k] = history[k]
         /\ DOMAIN history' = DOMAIN history \cup {Len(history) + 1} /\ history'[Len(history) + 1] = x
<1>1. history \in Seq(Messages) /\ history' = Append(history, x)
  BY DEF HistoryInv, Grow
<1> QED
  BY <1>1, AppendProperties

\* What stands before a message does not change when the history grows.
LEMMA PairedStays ==
  ASSUME HistoryInv, NEW x \in Messages, Grow(x), NEW k \in DOMAIN history
  PROVE  Paired(k)' <=> Paired(k)
<1>1. \A m \in DOMAIN history : history'[m] = history[m]
  BY Appended
<1>2. \A m \in 1..(k - 1) : m \in DOMAIN history /\ \A j \in (m + 1)..(k - 1) : j \in DOMAIN history
  BY HistoryFacts
<1>3. \A m \in 1..(k - 1) : Behind(m, k)' <=> Behind(m, k)
  BY <1>1, <1>2 DEF Behind
<1>4. \A m \in 1..(k - 1) : AsksFor(m, history[k].id)' <=> AsksFor(m, history[k].id)
  BY <1>1, <1>2 DEF AsksFor
<1> QED
  BY <1>1, <1>3, <1>4 DEF Paired

LEMMA Grows ==
  ASSUME HistoryInv, NEW x \in Messages, Grow(x),
         x.role = "tool" => x.id \in Unanswered
  PROVE  HistoryInv'
<1>0. PICK n : n = Len(history) + 1
  OBVIOUS
<1>1. /\ history' \in Seq(Messages) /\ DOMAIN history' = DOMAIN history \cup {n} /\ history'[n] = x
      /\ \A k \in DOMAIN history : history'[k] = history[k]
      /\ n \in Nat /\ DOMAIN history = 1..(n - 1) /\ DOMAIN history' = 1..n
  <2>1. Len(history) = n - 1 /\ n \in Nat
    BY <1>0, HistoryFacts
  <2>2. DOMAIN history = 1..(n - 1)
    BY <2>1, HistoryFacts
  <2>3. /\ history' \in Seq(Messages) /\ DOMAIN history' = DOMAIN history \cup {n} /\ history'[n] = x
        /\ \A k \in DOMAIN history : history'[k] = history[k]
    BY <1>0, Appended
  <2>4. 1..n = (1..(n - 1)) \cup {n}
    BY <2>1, HistoryFacts
  <2> QED BY <2>1, <2>2, <2>3, <2>4
<1>2. \A k \in DOMAIN history : Paired(k)' <=> Paired(k)
  BY PairedStays
<1>3. ASSUME x.role = "tool"
      PROVE  /\ Paired(n)'
             /\ \A j \in DOMAIN history : history[j].role = "tool" /\ history[j].id = x.id /\ Paired(j)
                                          => \E m \in (j + 1)..(n - 1) : history[m].role = "assistant"
  <2>1. PICK m \in DOMAIN history :
          /\ Behind(m, n) /\ AsksFor(m, x.id)
          /\ \A k \in (m + 1)..(n - 1) : history[k].role = "tool" => history[k].id # x.id
    BY <1>0, <1>3, <1>1 DEF Unanswered
  <2>2. m \in 1..(n - 1) /\ Behind(m, n)' /\ AsksFor(m, x.id)'
    BY <1>1, <2>1 DEF Behind, AsksFor
  <2>3. Paired(n)'
    BY <1>1, <1>3, <2>2 DEF Paired
  <2>4. ASSUME NEW j \in DOMAIN history, history[j].role = "tool", history[j].id = x.id
        PROVE  \E i \in (j + 1)..(n - 1) : history[i].role = "assistant"
    <3>1. j < m
      BY <1>1, <2>1, <2>4 DEF Behind
    <3> QED
      BY <1>1, <2>1, <3>1 DEF Behind
  <2> QED
    BY <2>3, <2>4
<1>4. \A k \in DOMAIN history' :
        history'[k].role = "tool" /\ (\E m \in 1..(k - 1) : history'[m].role = "assistant") => Paired(k)'
  <2>1. ASSUME NEW k \in DOMAIN history, history[k].role = "tool", NEW m \in 1..(k - 1), history'[m].role = "assistant"
        PROVE  Paired(k)'
    <3>1. m \in DOMAIN history
      BY <1>1
    <3> QED BY <1>1, <1>2, <2>1, <3>1 DEF HistoryInv
  <2> QED
    BY <1>1, <1>3, <2>1
<1>5. ASSUME NEW j \in DOMAIN history', NEW k \in DOMAIN history',
             j < k, Paired(j)', Paired(k)', history'[j].id = history'[k].id
      PROVE  \E m \in (j + 1)..(k - 1) : history'[m].role = "assistant"
  <2>1. j \in DOMAIN history /\ history'[j] = history[j] /\ Paired(j)
    BY <1>1, <1>2, <1>5
  <2>2. CASE k \in DOMAIN history
    <3>1. PICK m \in (j + 1)..(k - 1) : history[m].role = "assistant"
      BY <1>1, <1>2, <1>5, <2>1, <2>2 DEF HistoryInv
    <3>2. m \in DOMAIN history
      BY <1>1, <2>1, <2>2
    <3> QED BY <1>1, <3>1, <3>2
  <2>3. CASE k = n
    <3>1. x.role = "tool"
      BY <1>1, <1>5, <2>3 DEF Paired
    <3>2. history[j].role = "tool"
      BY <2>1 DEF Paired
    <3>3. PICK m \in (j + 1)..(n - 1) : history[m].role = "assistant"
      BY <1>1, <1>3, <1>5, <2>1, <2>3, <3>1, <3>2
    <3>4. m \in DOMAIN history
      BY <1>1, <2>1
    <3> QED BY <1>1, <2>3, <3>3, <3>4
  <2> QED
    BY <1>1, <2>2, <2>3
<1> QED
  BY <1>1, <1>4, <1>5 DEF HistoryInv

\* Compaction cuts off the beginning: what is left stands as it stood.
LEMMA Cuts ==
  ASSUME HistoryInv, CutOff
  PROVE  HistoryInv'
<1>1. /\ history' \in Seq(Messages) /\ Len(history') = Len(history) - 1
      /\ \A k \in 1..Len(history') : history'[k] = history[k + 1]
  BY HeadTailProperties DEF HistoryInv, CutOff
<1>2. /\ DOMAIN history = 1..Len(history) /\ DOMAIN history' = 1..Len(history') /\ Len(history) \in Nat /\ Len(history') \in Nat
      /\ \A k \in DOMAIN history' : k + 1 \in DOMAIN history /\ k \in Nat
  BY <1>1 DEF HistoryInv
<1>3. \A m \in DOMAIN history' : \A k \in DOMAIN history' : Behind(m, k)' <=> Behind(m + 1, k + 1)
  <2> SUFFICES ASSUME NEW m \in DOMAIN history', NEW k \in DOMAIN history' PROVE Behind(m, k)' <=> Behind(m + 1, k + 1)
    OBVIOUS
  <2>1. m \in Nat /\ k \in Nat /\ k <= Len(history') /\ 1 <= m /\ m <= Len(history')
    BY <1>2
  <2>2. history'[m] = history[m + 1]
    BY <1>1, <1>2
  <2>3. (\A j \in (m + 1)..(k - 1) : history'[j].role # "assistant")
        <=> \A j \in ((m + 1) + 1)..((k + 1) - 1) : history[j].role # "assistant"
    <3>1. \A j \in (m + 1)..(k - 1) : history'[j] = history[j + 1] /\ j + 1 \in ((m + 1) + 1)..((k + 1) - 1)
      BY <1>1, <1>2, <2>1
    <3>2. \A j \in ((m + 1) + 1)..((k + 1) - 1) : history[j] = history'[j - 1] /\ j - 1 \in (m + 1)..(k - 1)
      <4> SUFFICES ASSUME NEW j \in ((m + 1) + 1)..((k + 1) - 1)
                   PROVE  history[j] = history'[j - 1] /\ j - 1 \in (m + 1)..(k - 1)
        OBVIOUS
      <4>1. j - 1 \in (m + 1)..(k - 1) /\ j - 1 \in 1..Len(history') /\ (j - 1) + 1 = j
        BY <1>2, <2>1
      <4> QED BY <1>1, <4>1
    <3> QED BY <3>1, <3>2
  <2> QED
    BY <2>1, <2>2, <2>3 DEF Behind
<1>4. \A k \in DOMAIN history' : Paired(k)' => Paired(k + 1)
  <2> SUFFICES ASSUME NEW k \in DOMAIN history', Paired(k)' PROVE Paired(k + 1)
    OBVIOUS
  <2>1. PICK m \in 1..(k - 1) : Behind(m, k)' /\ AsksFor(m, history[k].id)'
    BY DEF Paired
  <2>2. m \in DOMAIN history' /\ m + 1 \in 1..((k + 1) - 1) /\ history'[k] = history[k + 1] /\ history'[m] = history[m + 1]
    BY <1>1, <1>2
  <2>3. Behind(m + 1, k + 1) /\ AsksFor(m + 1, history[k + 1].id)
    BY <1>3, <2>1, <2>2 DEF AsksFor
  <2> QED
    BY <2>2, <2>3 DEF Paired
<1>5. ASSUME NEW k \in DOMAIN history', history'[k].role = "tool", NEW n \in 1..(k - 1), history'[n].role = "assistant"
      PROVE  Paired(k)'
  <2>1. n \in DOMAIN history' /\ n + 1 \in 1..((k + 1) - 1) /\ history'[k] = history[k + 1] /\ history'[n] = history[n + 1]
    BY <1>1, <1>2
  <2>2. Paired(k + 1)
    BY <1>2, <1>5, <2>1 DEF HistoryInv
  <2>3. PICK m \in 1..((k + 1) - 1) : Behind(m, k + 1) /\ AsksFor(m, history[k + 1].id)
    BY <2>2 DEF Paired
  <2>4. n + 1 <= m
    BY <1>2, <1>5, <2>1, <2>3 DEF Behind
  <2>5. m - 1 \in 1..(k - 1) /\ m - 1 \in DOMAIN history' /\ (m - 1) + 1 = m
    BY <1>2, <2>3, <2>4
  <2>6. history'[m - 1] = history[m]
    BY <1>1, <1>2, <2>5
  <2>7. Behind(m - 1, k)' /\ AsksFor(m - 1, history[k].id)'
    BY <1>3, <2>1, <2>3, <2>5, <2>6 DEF AsksFor
  <2> QED
    BY <1>5, <2>5, <2>7 DEF Paired
<1>6. ASSUME NEW j \in DOMAIN history', NEW k \in DOMAIN history',
             j < k, Paired(j)', Paired(k)', history'[j].id = history'[k].id
      PROVE  \E m \in (j + 1)..(k - 1) : history'[m].role = "assistant"
  <2>1. /\ Paired(j + 1) /\ Paired(k + 1) /\ j + 1 \in DOMAIN history /\ k + 1 \in DOMAIN history /\ j + 1 < k + 1
        /\ history[j + 1].id = history[k + 1].id
    BY <1>1, <1>2, <1>4, <1>6
  <2>2. PICK m \in ((j + 1) + 1)..((k + 1) - 1) : history[m].role = "assistant"
    BY <2>1 DEF HistoryInv
  <2>3. m - 1 \in (j + 1)..(k - 1) /\ m - 1 \in 1..Len(history') /\ (m - 1) + 1 = m
    BY <1>2
  <2> QED
    BY <1>1, <2>2, <2>3
<1> QED
  BY <1>1, <1>5, <1>6 DEF HistoryInv

LEMMA HistoryChanges ==
  ASSUME HistoryInv, Ask \/ CallTools \/ Answer \/ CutOff
  PROVE  HistoryInv'
<1>1. CASE Ask
  <2>1. User \in Messages /\ User.role = "user"
    BY DEF Messages, User
  <2> QED BY <1>1, <2>1, Grows DEF Ask
<1>2. ASSUME NEW b \in Batches, Grow(Assistant(b)) PROVE HistoryInv'
  <2>1. Assistant(b) \in Messages /\ Assistant(b).role = "assistant"
    BY DEF Messages, Assistant
  <2> QED BY <1>2, <2>1, Grows
<1>3. ASSUME NEW r \in Unanswered, Grow(ToolResult(r)) PROVE HistoryInv'
  <2>1. r \in RawIds
    BY DEF Unanswered
  <2>2. ToolResult(r) \in Messages /\ ToolResult(r).id = r
    BY <2>1 DEF Messages, ToolResult
  <2> QED BY <1>3, <2>2, Grows
<1> QED
  BY <1>1, <1>2, <1>3, Cuts DEF CallTools, Answer

-----------------------------------------------------------------------------
(* The rendering. *)

\* A set of numbers that is not empty has a least one.
LEMMA LeastNumber ==
  ASSUME NEW T \in SUBSET Nat, T # {}
  PROVE  \E x \in T : \A y \in T : x <= y
<1> DEFINE R == {ss \in Nat \X Nat : ss[1] < ss[2]}
<1>1. PICK x \in T : \A y \in T : <<y, x>> \notin R
  <2>1. IsWellFoundedOn(R, Nat)
    BY NatLessThanWellFounded DEF OpToRel
  <2> HIDE DEF R
  <2> QED BY <2>1, WFMin
<1>2. ASSUME NEW y \in T PROVE x <= y
  <2>1. <<y, x>> \in Nat \X Nat /\ ~(<<y, x>>[1] < <<y, x>>[2])
    BY <1>1
  <2> QED BY <2>1
<1> QED
  BY <1>2

\* One of more suffixes than ids are taken is free.
LEMMA FreshIsFree ==
  ASSUME NEW raw \in RawIds, NEW ids, IsFiniteSet(ids), Cardinality(ids) <= MaxSuffix
  PROVE  FreshId(raw, ids) \notin ids /\ FreshId(raw, ids) \in WireIds
<1> DEFINE W(n) == Suffixed(Safe(raw), n)
           Free(n) == W(n) \notin ids /\ \A m \in 0..(n - 1) : W(m) \in ids
           Open == {n \in 0..MaxSuffix : W(n) \notin ids}
<1>1. Open # {}
  <2> SUFFICES ASSUME \A n \in 0..MaxSuffix : W(n) \in ids PROVE FALSE
    OBVIOUS
  <2> DEFINE f == [n \in 0..MaxSuffix |-> W(n)]
  <2>1. f \in Injection(0..MaxSuffix, ids)
    <3>1. \A m, n \in 0..MaxSuffix : W(m) = W(n) => m = n
      BY RenderingAssumption
    <3> HIDE DEF W
    <3>2. f \in [0..MaxSuffix -> ids]
      OBVIOUS
    <3>3. IsInjective(f)
      BY <3>1 DEF IsInjective
    <3> QED BY <3>2, <3>3 DEF Injection
  <2> HIDE DEF f
  <2>2. Cardinality(0..MaxSuffix) <= Cardinality(ids)
    BY <2>1, FS_Injection
  <2>3. Cardinality(0..MaxSuffix) = MaxSuffix + 1
    BY FS_Interval, RenderingAssumption
  <2>4. Cardinality(ids) \in Nat
    BY FS_CardinalityType
  <2> QED
    BY <2>2, <2>3, <2>4, RenderingAssumption
<1>2. PICK n \in Open : \A m \in Open : n <= m
  <2>1. Open \in SUBSET Nat
    BY RenderingAssumption
  <2> HIDE DEF Open
  <2> QED BY <1>1, <2>1, LeastNumber
<1>3. n \in 0..MaxSuffix /\ Free(n)
  <2>1. \A m \in 0..(n - 1) : m \in 0..MaxSuffix /\ ~(n <= m)
    BY RenderingAssumption
  <2> QED BY <1>2, <2>1
<1> DEFINE c == CHOOSE m \in 0..MaxSuffix : Free(m)
<1>4. c \in 0..MaxSuffix /\ Free(c)
  <2> HIDE DEF Free
  <2> QED BY <1>3
<1>5. FreshId(raw, ids) = W(c)
  BY DEF FreshId
<1> HIDE DEF c
<1>6. W(c) \in WireIds
  <2>1. <<raw, c>> \in RawIds \X (0..MaxSuffix) /\ <<raw, c>>[1] = raw /\ <<raw, c>>[2] = c
    BY <1>4
  <2> QED BY <2>1 DEF WireIds
<1> QED
  BY <1>4, <1>5, <1>6

\* A step that adds the n-th block.
Extended(n) ==
  /\ n \in Nat \ {0} /\ DOMAIN blocks = 1..(n - 1) /\ DOMAIN blocks' = 1..n
  /\ \A b \in 1..(n - 1) : blocks'[b] = blocks[b]

LEMMA BlockAdded ==
  ASSUME blocks \in Seq(BlockSet), TurnsInv, position \in Nat, NEW role \in {"user", "assistant"},
         NEW type \in {"text", "use", "result"}, NEW id \in WireIds, NEW call \in Nat, AddBlock(role, type, id, call)
  PROVE  \E n \in Nat :
           /\ Extended(n) /\ blocks' \in Seq(BlockSet) /\ Len(blocks') = n /\ blocks' # <<>>
           /\ blocks'[n] = [turn |-> TurnOf(role), role |-> role, type |-> type, id |-> id,
                            message |-> position, call |-> call]
           /\ TurnsInv'
           /\ TurnOf("user")' = IF role = "user" THEN TurnOf("user") ELSE TurnOf("assistant") + 1
           /\ blocks # <<>> /\ blocks[Len(blocks)].role = "assistant" => TurnOf("user") = TurnOf("assistant") + 1
<1>0. PICK n : n = Len(blocks) + 1
  OBVIOUS
<1>1. n \in Nat \ {0} /\ DOMAIN blocks = 1..(n - 1) /\ Len(blocks) = n - 1 /\ (blocks = <<>> <=> n = 1)
  BY <1>0
<1>2. blocks # <<>> => n - 1 \in DOMAIN blocks /\ blocks[n - 1] \in BlockSet
  BY <1>1
<1>3. TurnOf(role) \in Nat
  BY <1>1, <1>2 DEF TurnOf, BlockSet
<1>4. PICK x : x = [turn |-> TurnOf(role), role |-> role, type |-> type, id |-> id, message |-> position, call |-> call]
  OBVIOUS
<1>5. x \in BlockSet
  BY <1>3, <1>4 DEF BlockSet
<1>6. blocks' = Append(blocks, x)
  BY <1>4 DEF AddBlock
<1>7. blocks' \in Seq(BlockSet) /\ Len(blocks') = n /\ blocks' # <<>> /\ blocks'[n] = x /\ \A b \in 1..(n - 1) : blocks'[b] = blocks[b]
  BY <1>0, <1>1, <1>5, <1>6, AppendProperties
<1>8. Extended(n)
  BY <1>1, <1>7 DEF Extended
<1>9. x.turn = TurnOf(role) /\ x.role = role
  BY <1>4
<1>10. TurnsInv'
  <2>1. blocks'[1].turn = 1
    BY <1>1, <1>2, <1>7, <1>9 DEF TurnsInv, TurnOf
  <2>2. ASSUME NEW b \in 2..Len(blocks')
        PROVE  blocks'[b].turn = blocks'[b - 1].turn + (IF blocks'[b].role = blocks'[b - 1].role THEN 0 ELSE 1)
    <3>1. CASE b = n
      <4>1. blocks # <<>> /\ n - 1 \in 1..(n - 1) /\ blocks'[n - 1] = blocks[n - 1] /\ blocks[n - 1].turn \in Nat
        BY <1>1, <1>2, <1>7, <3>1 DEF BlockSet
      <4>2. x.turn = IF blocks[n - 1].role = role THEN blocks[n - 1].turn ELSE blocks[n - 1].turn + 1
        BY <1>1, <1>9, <4>1 DEF TurnOf
      <4> QED BY <1>7, <1>9, <3>1, <4>1, <4>2
    <3>2. CASE b # n
      <4>1. b \in 2..(n - 1) /\ b \in 1..(n - 1) /\ b - 1 \in 1..(n - 1)
        BY <1>1, <1>7, <3>2
      <4> QED BY <1>1, <1>7, <4>1 DEF TurnsInv
    <3> QED BY <3>1, <3>2
  <2> QED BY <2>1, <2>2 DEF TurnsInv
<1>11. TurnOf("user")' = IF role = "user" THEN TurnOf("user") ELSE TurnOf("assistant") + 1
  BY <1>7, <1>9 DEF TurnOf
<1>12. blocks # <<>> /\ blocks[Len(blocks)].role = "assistant" => TurnOf("user") = TurnOf("assistant") + 1
  BY DEF TurnOf
<1> QED
  BY <1>1, <1>4, <1>7, <1>8, <1>10, <1>11, <1>12

LEMMA AnswerStays ==
  ASSUME NEW n, Extended(n), UNCHANGED history, NEW r \in DOMAIN blocks, NEW u \in DOMAIN blocks
  PROVE  AnswersCall(blocks, r, u)' <=> AnswersCall(blocks, r, u)
<1>1. blocks'[r] = blocks[r] /\ blocks'[u] = blocks[u]
  BY DEF Extended
<1> QED
  BY <1>1 DEF AnswersCall, Behind

LEMMA PairedSame ==
  ASSUME UNCHANGED history
  PROVE  \A k : Paired(k)' <=> Paired(k)
BY DEF Paired, Behind, AsksFor

LEMMA UsesStay ==
  ASSUME UsesInv, UNCHANGED <<history, seenIds>>, NEW n, Extended(n), blocks'[n].type # "use"
  PROVE  UsesInv'
<1>1. \A b \in DOMAIN blocks' : blocks'[b].type = "use" => b \in DOMAIN blocks /\ blocks'[b] = blocks[b]
  BY DEF Extended
<1> QED
  BY <1>1 DEF UsesInv

\* A step that adds no result and passes none.
LEMMA ResultsStay ==
  ASSUME ResultsInv, UNCHANGED history, NEW n, Extended(n), blocks'[n].type # "result",
         position \in Nat, position' \in Nat, position <= position', DOMAIN history \subseteq Nat,
         \A k \in DOMAIN history : k < position' /\ Paired(k) => k < position
  PROVE  ResultsInv'
<1>1. \A b \in DOMAIN blocks' : blocks'[b].type = "result" => b \in DOMAIN blocks /\ blocks'[b] = blocks[b]
  BY DEF Extended
<1>2. \A b \in DOMAIN blocks : b \in DOMAIN blocks' /\ blocks'[b] = blocks[b]
  BY DEF Extended
<1>3. \A b, u \in DOMAIN blocks : AnswersCall(blocks, b, u) => AnswersCall(blocks, b, u)'
  BY AnswerStays
<1>4. ASSUME NEW b \in DOMAIN blocks', blocks'[b].type = "result"
      PROVE  /\ \E k \in DOMAIN history' : blocks'[b].message = k /\ k < position' /\ Paired(k)'
             /\ \E u \in DOMAIN blocks' : AnswersCall(blocks, b, u)'
  <2>1. b \in DOMAIN blocks /\ blocks'[b] = blocks[b]
    BY <1>1, <1>4
  <2>2. \E k \in DOMAIN history : blocks[b].message = k /\ k < position /\ Paired(k)
    BY <1>4, <2>1 DEF ResultsInv
  <2>3. \E u \in DOMAIN blocks : AnswersCall(blocks, b, u)
    BY <1>4, <2>1 DEF ResultsInv
  <2>4. \E k \in DOMAIN history' : blocks'[b].message = k /\ k < position' /\ Paired(k)'
    BY <2>1, <2>2, PairedSame
  <2> QED BY <1>2, <1>3, <2>1, <2>3, <2>4
<1>5. \A b, c \in DOMAIN blocks' :
        blocks'[b].type = "result" /\ blocks'[c].type = "result" /\ blocks'[b].message = blocks'[c].message => b = c
  BY <1>1 DEF ResultsInv
<1>6. \A k \in DOMAIN history' : k < position' /\ Paired(k)' =>
        \E b \in DOMAIN blocks' : blocks'[b].type = "result" /\ blocks'[b].message = k
  <2> SUFFICES ASSUME NEW k \in DOMAIN history, k < position', Paired(k)
               PROVE  \E b \in DOMAIN blocks' : blocks'[b].type = "result" /\ blocks'[b].message = k
    BY PairedSame
  <2>1. k < position
    OBVIOUS
  <2> QED BY <1>2, <2>1 DEF ResultsInv
<1> QED
  BY <1>4, <1>5, <1>6 DEF ResultsInv

\* A message of the user's or of a tool leaves the table to the batch before it.
LEMMA TableStays ==
  ASSUME TableInv, callsDone = 0, position \in DOMAIN history, DOMAIN history \subseteq Nat,
         history[position].role # "assistant", GoOn, UNCHANGED pendingMap,
         TurnOf("user")' = TurnOf("user"),
         \A b \in DOMAIN blocks : b \in DOMAIN blocks' /\ blocks'[b] = blocks[b]
  PROVE  TableInv'
<1>1. position' = position + 1 /\ callsDone' = 0 /\ UNCHANGED history
  BY DEF GoOn
<1>2. SUFFICES ASSUME NEW m \in DOMAIN history, Current(m)', NEW c \in DOMAIN history[m].calls
               PROVE  /\ history[m].calls[c] \in DOMAIN pendingMap
                      /\ \E u \in DOMAIN blocks' : BlockOf(m, c, u)' /\ blocks'[u].id = pendingMap[history[m].calls[c]]
  BY <1>1 DEF TableInv
<1>3. Current(m) /\ Done(m, c)
  <2>1. m \in 1..((position + 1) - 1) /\ m \in Nat /\ position \in Nat /\ m # position
        /\ \A j \in (m + 1)..((position + 1) - 1) : history[j].role # "assistant"
    BY <1>1, <1>2 DEF Current, Behind
  <2>2. m \in 1..(position - 1) /\ Behind(m, position)
    BY <1>1, <1>2, <2>1 DEF Current, Behind
  <2> QED BY <2>2 DEF Current, Done
<1>4. PICK u \in DOMAIN blocks : BlockOf(m, c, u) /\ blocks[u].id = pendingMap[history[m].calls[c]]
  BY <1>3 DEF TableInv
<1>5. BlockOf(m, c, u)'
  BY <1>4 DEF BlockOf
<1> QED
  BY <1>3, <1>4, <1>5 DEF TableInv

LEMMA HistorySame ==
  ASSUME HistoryInv, UNCHANGED history
  PROVE  HistoryInv'
BY PairedSame DEF HistoryInv

\* What every step of the rendering starts from.
LEMMA AtMessage ==
  ASSUME RenderingInv, position \in DOMAIN history
  PROVE  /\ position \in Nat /\ position + 1 \in 0..(Len(history) + 1) /\ DOMAIN history = 1..Len(history)
         /\ DOMAIN history \subseteq Nat /\ history[position] \in Messages
         /\ history[position].role # "assistant" => callsDone = 0
         /\ blocks \in Seq(BlockSet) /\ TurnsInv /\ NoId \in WireIds
<1>1. Len(history) \in Nat /\ DOMAIN history = 1..Len(history) /\ history[position] \in Messages
  BY HistoryFacts DEF RenderingInv
<1>2. position \in Nat /\ position + 1 \in 0..(Len(history) + 1) /\ DOMAIN history \subseteq Nat
  BY <1>1
<1> QED
  BY <1>1, <1>2 DEF RenderingInv, PlaceInv, WireIds

\* Nothing is being rendered, or nothing has been yet.
LEMMA NothingRendered ==
  ASSUME HistoryInv', blocks' = <<>>, position' \in {0, 1}, callsDone' = 0, seenIds' = {}
  PROVE  RenderingInv'
<1>1. Len(history') \in Nat /\ DOMAIN history' = 1..Len(history')
  BY DEF HistoryInv
<1>2. PlaceInv'
  <2>1. IsFiniteSet({})
    BY FS_EmptySet
  <2> QED BY <1>1, <2>1 DEF PlaceInv
<1>3. UsesInv' /\ TurnsInv'
  BY DEF UsesInv, TurnsInv
<1>4. ResultsInv'
  BY <1>1 DEF ResultsInv
<1>5. TableInv'
  BY <1>1 DEF TableInv, Current
<1> QED
  BY <1>2, <1>3, <1>4, <1>5 DEF RenderingInv

LEMMA AroundRendering ==
  ASSUME RenderingInv, Ask \/ CallTools \/ Answer \/ CutOff \/ BeginRendering \/ SendRequest
  PROVE  RenderingInv'
<1>1. CASE Ask \/ CallTools \/ Answer \/ CutOff
  <2>1. HistoryInv'
    BY <1>1, HistoryChanges DEF RenderingInv
  <2>2. position = 0 /\ UNCHANGED renderVars
    BY <1>1 DEF Ask, CallTools, Answer, CutOff, Grow
  <2> QED
    BY <2>1, <2>2, NothingRendered DEF RenderingInv, PlaceInv, renderVars
<1>2. CASE BeginRendering
  <2>1. HistoryInv'
    BY <1>2, HistorySame DEF RenderingInv, BeginRendering
  <2> QED
    BY <1>2, <2>1, NothingRendered DEF RenderingInv, PlaceInv, BeginRendering
<1>3. CASE SendRequest
  <2>1. HistoryInv'
    BY <1>3, HistorySame DEF RenderingInv, SendRequest
  <2> QED
    BY <1>3, <2>1, NothingRendered DEF SendRequest
<1> QED
  BY <1>1, <1>2, <1>3

LEMMA UserRendered ==
  ASSUME RenderingInv, RenderUser
  PROVE  RenderingInv'
<1>1. /\ position \in DOMAIN history /\ history[position].role = "user" /\ GoOn
      /\ AddBlock("user", "text", NoId, 0) /\ UNCHANGED <<seenIds, pendingMap>>
  BY DEF RenderUser, Render
<1>2. position' = position + 1 /\ callsDone' = 0 /\ UNCHANGED history /\ callsDone = 0
  BY <1>1, AtMessage DEF GoOn
<1>3. PICK n \in Nat :
        /\ Extended(n) /\ blocks' \in Seq(BlockSet) /\ TurnsInv' /\ TurnOf("user")' = TurnOf("user")
        /\ blocks'[n] = [turn |-> TurnOf("user"), role |-> "user", type |-> "text", id |-> NoId,
                         message |-> position, call |-> 0]
  BY <1>1, AtMessage, BlockAdded
<1>4. blocks'[n].type = "text"
  BY <1>3
<1>5. HistoryInv'
  BY <1>2, HistorySame DEF RenderingInv
<1>6. PlaceInv'
  BY <1>1, <1>2, <1>3, AtMessage DEF RenderingInv, PlaceInv
<1>7. UsesInv'
  BY <1>1, <1>2, <1>3, <1>4, UsesStay DEF RenderingInv
<1>8. ResultsInv'
  <2>1. ~Paired(position)
    BY <1>1 DEF Paired
  <2>2. \A k \in DOMAIN history : k < position' /\ Paired(k) => k < position
    BY <1>1, <1>2, <2>1, AtMessage
  <2>3. position \in Nat /\ position' \in Nat /\ position <= position'
    BY <1>1, <1>2, AtMessage
  <2> QED BY <1>1, <1>2, <1>3, <1>4, <2>2, <2>3, AtMessage, ResultsStay DEF RenderingInv
<1>9. TableInv'
  <2>1. \A b \in DOMAIN blocks : b \in DOMAIN blocks' /\ blocks'[b] = blocks[b]
    BY <1>3 DEF Extended
  <2> QED BY <1>1, <1>2, <1>3, <2>1, AtMessage, TableStays DEF RenderingInv
<1> QED
  BY <1>3, <1>5, <1>6, <1>7, <1>8, <1>9 DEF RenderingInv

LEMMA TextRendered ==
  ASSUME RenderingInv, RenderText
  PROVE  RenderingInv'
<1>1. /\ position \in DOMAIN history /\ history[position].role = "assistant" /\ history[position].calls = <<>> /\ GoOn
      /\ AddBlock("assistant", "text", NoId, 0) /\ UNCHANGED seenIds
  BY DEF RenderText, Render
<1>2. position' = position + 1 /\ callsDone' = 0 /\ UNCHANGED history
  BY <1>1 DEF GoOn
<1>3. PICK n \in Nat :
        /\ Extended(n) /\ blocks' \in Seq(BlockSet) /\ TurnsInv'
        /\ blocks'[n] = [turn |-> TurnOf("assistant"), role |-> "assistant", type |-> "text", id |-> NoId,
                         message |-> position, call |-> 0]
  BY <1>1, AtMessage, BlockAdded
<1>4. blocks'[n].type = "text"
  BY <1>3
<1>5. HistoryInv'
  BY <1>2, HistorySame DEF RenderingInv
<1>6. PlaceInv'
  BY <1>1, <1>2, <1>3, AtMessage DEF RenderingInv, PlaceInv
<1>7. UsesInv'
  BY <1>1, <1>2, <1>3, <1>4, UsesStay DEF RenderingInv
<1>8. ResultsInv'
  <2>1. ~Paired(position)
    BY <1>1 DEF Paired
  <2>2. \A k \in DOMAIN history : k < position' /\ Paired(k) => k < position
    BY <1>1, <1>2, <2>1, AtMessage
  <2>3. position \in Nat /\ position' \in Nat /\ position <= position'
    BY <1>1, <1>2, AtMessage
  <2> QED BY <1>1, <1>2, <1>3, <1>4, <2>2, <2>3, AtMessage, ResultsStay DEF RenderingInv
<1>9. TableInv'
  <2>1. ASSUME NEW m \in DOMAIN history, Current(m)' PROVE m = position
    <3>1. m \in Nat /\ position \in Nat /\ m \in 1..((position + 1) - 1) /\ \A j \in (m + 1)..((position + 1) - 1) : history[j].role # "assistant"
      BY <1>1, <1>2, <2>1, AtMessage DEF Current, Behind
    <3> QED BY <1>1, <3>1
  <2> QED BY <1>1, <1>2, <2>1 DEF TableInv
<1> QED
  BY <1>3, <1>5, <1>6, <1>7, <1>8, <1>9 DEF RenderingInv

LEMMA ResultDropped ==
  ASSUME RenderingInv, DropResult
  PROVE  RenderingInv'
<1>1. /\ position \in DOMAIN history /\ history[position].role = "tool" /\ GoOn
      /\ ~DeclaredBefore(position, history[position].id) /\ UNCHANGED <<seenIds, pendingMap, blocks>>
  BY DEF DropResult, Render
<1>2. position' = position + 1 /\ callsDone' = 0 /\ UNCHANGED history /\ callsDone = 0
  BY <1>1, AtMessage DEF GoOn
<1>3. ~Paired(position)
  BY <1>1 DEF Paired, DeclaredBefore
<1>4. HistoryInv'
  BY <1>2, HistorySame DEF RenderingInv
<1>5. PlaceInv'
  BY <1>1, <1>2, AtMessage DEF RenderingInv, PlaceInv
<1>6. UsesInv' /\ TurnsInv'
  BY <1>1, <1>2 DEF RenderingInv, UsesInv, TurnsInv
<1>7. ResultsInv'
  <2>1. \A b, u \in DOMAIN blocks : AnswersCall(blocks, b, u)' <=> AnswersCall(blocks, b, u)
    BY <1>1, <1>2 DEF AnswersCall, Behind
  <2>2. ASSUME NEW b \in DOMAIN blocks, blocks[b].type = "result"
        PROVE  /\ \E k \in DOMAIN history' : blocks'[b].message = k /\ k < position' /\ Paired(k)'
               /\ \E u \in DOMAIN blocks' : AnswersCall(blocks, b, u)'
    <3>1. PICK k \in DOMAIN history : blocks[b].message = k /\ k < position /\ Paired(k)
      BY <2>2 DEF RenderingInv, ResultsInv
    <3>2. k < position'
      BY <1>1, <1>2, <3>1, AtMessage
    <3> QED BY <1>1, <1>2, <2>1, <2>2, <3>1, <3>2, PairedSame DEF RenderingInv, ResultsInv
  <2>3. \A k \in DOMAIN history : k < position' /\ Paired(k)' => k < position /\ Paired(k)
    BY <1>1, <1>2, <1>3, AtMessage, PairedSame
  <2> QED BY <1>1, <1>2, <2>2, <2>3 DEF RenderingInv, ResultsInv
<1>8. TableInv'
  <2>1. TurnOf("user")' = TurnOf("user")
    BY <1>1 DEF TurnOf
  <2> QED BY <1>1, <1>2, <2>1, AtMessage, TableStays DEF RenderingInv
<1> QED
  BY <1>4, <1>5, <1>6, <1>7, <1>8 DEF RenderingInv

LEMMA ResultRendered ==
  ASSUME RenderingInv, RenderResult
  PROVE  RenderingInv'
<1>0. PICK r : r = history[position].id
  OBVIOUS
<1>1. /\ position \in DOMAIN history /\ history[position].role = "tool" /\ GoOn
      /\ DeclaredBefore(position, r) /\ AddBlock("user", "result", ResultId(r), 0) /\ UNCHANGED <<seenIds, pendingMap>>
  BY <1>0 DEF RenderResult, Render
<1>2. position' = position + 1 /\ callsDone' = 0 /\ UNCHANGED history /\ callsDone = 0
  BY <1>1, AtMessage DEF GoOn
<1>3. Paired(position)
  <2>1. PICK m \in 1..(position - 1) : AsksFor(m, r)
    BY <1>1 DEF DeclaredBefore
  <2>2. m \in DOMAIN history
    BY <1>1, AtMessage
  <2>3. history[m].role = "assistant"
    BY <2>1, <2>2, AskedByModel DEF RenderingInv
  <2> QED BY <1>1, <2>1, <2>3 DEF RenderingInv, HistoryInv
<1>4. PICK m \in 1..(position - 1) : Behind(m, position) /\ AsksFor(m, r)
  BY <1>0, <1>3 DEF Paired
<1>5. PICK c \in DOMAIN history[m].calls : history[m].calls[c] = r
  BY <1>4 DEF AsksFor
<1>6. PICK u \in DOMAIN blocks : r \in DOMAIN pendingMap /\ BlockOf(m, c, u) /\ blocks[u].id = pendingMap[r]
  <2>1. m \in DOMAIN history /\ Current(m) /\ Done(m, c)
    BY <1>1, <1>2, <1>4, AtMessage DEF Current, Done
  <2> QED BY <1>5, <2>1 DEF RenderingInv, TableInv
<1>7. ResultId(r) = blocks[u].id /\ blocks[u] \in BlockSet
  BY <1>1, <1>6, AtMessage DEF ResultId
<1>8. blocks[u].id \in WireIds
  BY <1>7 DEF BlockSet
<1>9. PICK n \in Nat :
        /\ Extended(n) /\ blocks' \in Seq(BlockSet) /\ TurnsInv' /\ TurnOf("user")' = TurnOf("user")
        /\ blocks'[n] = [turn |-> TurnOf("user"), role |-> "user", type |-> "result", id |-> ResultId(r),
                         message |-> position, call |-> 0]
  BY <1>1, <1>7, <1>8, AtMessage, BlockAdded
<1>10. /\ blocks'[n].type = "result" /\ blocks'[n].message = position /\ blocks'[n].id = blocks[u].id
       /\ blocks'[n].turn = TurnOf("user")
  BY <1>7, <1>9
<1>11. /\ \A b \in DOMAIN blocks : b \in DOMAIN blocks' /\ blocks'[b] = blocks[b] /\ b # n
       /\ DOMAIN blocks' = DOMAIN blocks \cup {n}
  BY <1>9 DEF Extended
<1>12. HistoryInv'
  BY <1>2, HistorySame DEF RenderingInv
<1>13. PlaceInv'
  BY <1>1, <1>2, <1>9, AtMessage DEF RenderingInv, PlaceInv
<1>14. UsesInv'
  BY <1>1, <1>2, <1>9, <1>10, UsesStay DEF RenderingInv
<1>15. ResultsInv'
  <2>1. AnswersCall(blocks, n, u)'
    <3>1. blocks'[u] = blocks[u]
      BY <1>11
    <3>2. blocks[u].type = "use" /\ blocks[u].message = m /\ blocks[u].call = c /\ blocks[u].turn + 1 = TurnOf("user")
      BY <1>6 DEF BlockOf
    <3>3. Behind(m, position) /\ history[m].calls[c] = history[position].id
      BY <1>0, <1>4, <1>5
    <3> QED BY <1>2, <1>10, <3>1, <3>2, <3>3 DEF AnswersCall, Behind
  <2>2. ASSUME NEW b \in DOMAIN blocks', blocks'[b].type = "result"
        PROVE  /\ \E k \in DOMAIN history' : blocks'[b].message = k /\ k < position' /\ Paired(k)'
               /\ \E v \in DOMAIN blocks' : AnswersCall(blocks, b, v)'
    <3>1. CASE b = n
      <4>1. PICK k \in DOMAIN history : k = position
        BY <1>1
      <4>2. k < position' /\ Paired(k)'
        BY <1>1, <1>2, <1>3, <4>1, AtMessage, PairedSame
      <4> QED BY <1>2, <1>10, <1>11, <2>1, <3>1, <4>1, <4>2
    <3>2. CASE b \in DOMAIN blocks
      <4>1. PICK k \in DOMAIN history : blocks[b].message = k /\ k < position /\ Paired(k)
        BY <1>11, <2>2, <3>2 DEF RenderingInv, ResultsInv
      <4>2. PICK v \in DOMAIN blocks : AnswersCall(blocks, b, v)
        BY <1>11, <2>2, <3>2 DEF RenderingInv, ResultsInv
      <4>3. k < position' /\ Paired(k)' /\ AnswersCall(blocks, b, v)'
        BY <1>1, <1>2, <1>9, <3>2, <4>1, <4>2, AtMessage, PairedSame, AnswerStays
      <4> QED BY <1>2, <1>11, <3>2, <4>1, <4>3
    <3> QED BY <1>11, <3>1, <3>2
  <2>3. \A b \in DOMAIN blocks : blocks[b].type = "result" => blocks[b].message # position
    BY <1>1, AtMessage DEF RenderingInv, ResultsInv
  <2>4. \A b, c1 \in DOMAIN blocks' :
          blocks'[b].type = "result" /\ blocks'[c1].type = "result" /\ blocks'[b].message = blocks'[c1].message => b = c1
    BY <1>10, <1>11, <2>3 DEF RenderingInv, ResultsInv
  <2>5. ASSUME NEW k \in DOMAIN history', k < position', Paired(k)'
        PROVE  \E b \in DOMAIN blocks' : blocks'[b].type = "result" /\ blocks'[b].message = k
    <3>1. k \in DOMAIN history /\ Paired(k) /\ (k < position \/ k = position)
      BY <1>1, <1>2, <2>5, AtMessage, PairedSame
    <3>2. CASE k = position
      BY <1>10, <1>11, <3>2
    <3>3. CASE k < position
      BY <1>11, <3>1, <3>3 DEF RenderingInv, ResultsInv
    <3> QED BY <3>1, <3>2, <3>3
  <2> QED BY <2>2, <2>4, <2>5 DEF ResultsInv
<1>16. TableInv'
  BY <1>1, <1>2, <1>9, <1>11, AtMessage, TableStays DEF RenderingInv
<1> QED
  BY <1>9, <1>12, <1>13, <1>14, <1>15, <1>16 DEF RenderingInv

LEMMA CallRendered ==
  ASSUME RenderingInv, RenderCall
  PROVE  RenderingInv'
<1>0. PICK calls, raw, id : calls = history[position].calls /\ raw = calls[callsDone + 1] /\ id = FreshId(raw, seenIds)
  OBVIOUS
<1>1. /\ position \in DOMAIN history /\ history[position].role = "assistant" /\ callsDone < Len(calls)
      /\ Cardinality(seenIds) <= MaxSuffix /\ AddBlock("assistant", "use", id, callsDone + 1)
      /\ seenIds' = seenIds \cup {id}
  BY <1>0 DEF RenderCall, Render
<1>2. /\ IF callsDone + 1 = Len(calls) THEN GoOn ELSE callsDone' = callsDone + 1 /\ UNCHANGED <<history, position>>
      /\ pendingMap' = [r \in DOMAIN (IF callsDone = 0 THEN <<>> ELSE pendingMap) \cup {raw} |->
                          IF r = raw THEN id ELSE (IF callsDone = 0 THEN <<>> ELSE pendingMap)[r]]
  BY <1>0 DEF RenderCall
<1>3. UNCHANGED history
  BY <1>2 DEF GoOn
<1>4. /\ calls \in Seq(RawIds) /\ IsInjective(calls) /\ Len(calls) \in Nat /\ DOMAIN calls = 1..Len(calls)
      /\ callsDone \in Nat /\ callsDone + 1 \in DOMAIN calls /\ raw \in RawIds
  <2>1. calls \in Seq(RawIds) /\ IsInjective(calls)
    BY <1>0, <1>1, AtMessage, MessageFacts
  <2>2. callsDone \in Nat
    BY DEF RenderingInv, PlaceInv
  <2>3. callsDone + 1 \in 1..Len(calls)
    BY <1>1, <2>1, <2>2
  <2> QED BY <1>0, <2>1, <2>2, <2>3
<1>5. id \notin seenIds /\ id \in WireIds /\ IsFiniteSet(seenIds)
  BY <1>0, <1>1, <1>4, FreshIsFree DEF RenderingInv, PlaceInv
<1>6. PICK n \in Nat :
        /\ Extended(n) /\ blocks' \in Seq(BlockSet) /\ TurnsInv' /\ Len(blocks') = n /\ blocks' # <<>>
        /\ TurnOf("user")' = TurnOf("assistant") + 1
        /\ blocks'[n] = [turn |-> TurnOf("assistant"), role |-> "assistant", type |-> "use", id |-> id,
                         message |-> position, call |-> callsDone + 1]
        /\ blocks # <<>> /\ blocks[Len(blocks)].role = "assistant" => TurnOf("user") = TurnOf("assistant") + 1
  <2>1. callsDone + 1 \in Nat
    BY <1>4
  <2> QED BY <1>1, <1>5, <2>1, AtMessage, BlockAdded
<1>7. /\ blocks'[n].type = "use" /\ blocks'[n].message = position /\ blocks'[n].id = id /\ blocks'[n].role = "assistant"
      /\ blocks'[n].turn = TurnOf("assistant") /\ blocks'[n].call = callsDone + 1
  BY <1>6
<1>8. /\ \A b \in DOMAIN blocks : b \in DOMAIN blocks' /\ blocks'[b] = blocks[b] /\ b # n
      /\ DOMAIN blocks' = DOMAIN blocks \cup {n}
  BY <1>6 DEF Extended
<1>9. \/ callsDone + 1 = Len(calls) /\ position' = position + 1 /\ callsDone' = 0
      \/ callsDone + 1 < Len(calls) /\ position' = position /\ callsDone' = callsDone + 1 /\ callsDone' > 0
  <2>1. CASE callsDone + 1 = Len(calls)
    BY <1>2, <2>1 DEF GoOn
  <2>2. CASE callsDone + 1 # Len(calls)
    <3>1. callsDone' = callsDone + 1 /\ position' = position
      BY <1>2, <2>2
    <3>2. callsDone \in Nat /\ Len(calls) \in Nat /\ callsDone < Len(calls)
      BY <1>1, <1>4
    <3>3. callsDone + 1 < Len(calls) /\ callsDone + 1 > 0
      BY <2>2, <3>2
    <3> QED BY <3>1, <3>3
  <2> QED BY <2>1, <2>2
<1>10. position \in Nat /\ position \in 1..Len(history) /\ Len(history) \in Nat /\ position + 1 \in 0..(Len(history) + 1)
  BY <1>1, AtMessage, HistoryFacts DEF RenderingInv
<1>11. HistoryInv'
  BY <1>3, HistorySame DEF RenderingInv
<1>12. PlaceInv'
  <2>1. IsFiniteSet(seenIds') /\ seenIds' \subseteq WireIds
    BY <1>1, <1>5, FS_AddElement DEF RenderingInv, PlaceInv
  <2>2. position' \in 0..(Len(history') + 1) /\ callsDone' \in Nat /\ position' # 0
    <3>1. CASE position' = position + 1 /\ callsDone' = 0
      BY <1>3, <1>10, <3>1
    <3>2. CASE position' = position /\ callsDone' = callsDone + 1
      BY <1>3, <1>4, <1>10, <3>2
    <3> QED BY <1>9, <3>1, <3>2
  <2>3. callsDone' > 0 =>
          /\ position' \in DOMAIN history' /\ history'[position'].role = "assistant"
          /\ callsDone' < Len(history'[position'].calls)
    BY <1>0, <1>1, <1>3, <1>9
  <2>4. blocks'[Len(blocks')].role = "assistant"
    BY <1>6, <1>7
  <2> QED BY <1>6, <2>1, <2>2, <2>3, <2>4 DEF PlaceInv
<1>13. UsesInv'
  <2>1. \A b \in DOMAIN blocks : blocks[b].type = "use" =>
          /\ blocks[b].message \in DOMAIN history /\ history[blocks[b].message].role = "assistant"
          /\ blocks[b].call \in DOMAIN history[blocks[b].message].calls /\ blocks[b].id \in seenIds
    BY DEF RenderingInv, UsesInv
  <2>2. \A b \in DOMAIN blocks' : blocks'[b].type = "use" =>
          /\ blocks'[b].message \in DOMAIN history /\ history[blocks'[b].message].role = "assistant"
          /\ blocks'[b].call \in DOMAIN history[blocks'[b].message].calls /\ blocks'[b].id \in seenIds'
    BY <1>0, <1>1, <1>4, <1>7, <1>8, <2>1
  <2>3. \A b, c \in DOMAIN blocks' : blocks'[b].type = "use" /\ blocks'[c].type = "use" /\ blocks'[b].id = blocks'[c].id => b = c
    BY <1>5, <1>7, <1>8, <2>1 DEF RenderingInv, UsesInv
  <2> QED BY <1>3, <2>2, <2>3 DEF UsesInv
<1>14. ResultsInv'
  <2>1. ~Paired(position)
    BY <1>1 DEF Paired
  <2>2. position' \in Nat /\ position <= position' /\ DOMAIN history \subseteq Nat
    BY <1>1, <1>9, <1>10, AtMessage
  <2>3. \A k \in DOMAIN history : k < position' /\ Paired(k) => k < position
    BY <1>9, <1>10, <2>1, <2>2
  <2> QED BY <1>3, <1>6, <1>7, <1>10, <2>2, <2>3, ResultsStay DEF RenderingInv
<1>15. TableInv'
  <2>0. PICK p : p = position
    OBVIOUS
  <2>1. ASSUME NEW m \in DOMAIN history, Current(m)' PROVE m = p
    <3>1. CASE callsDone' > 0 /\ position' = position
      BY <2>0, <2>1, <3>1 DEF Current
    <3>2. CASE callsDone' = 0 /\ position' = position + 1
      <4>1. position' = position + 1 /\ ~(callsDone' > 0)
        BY <3>2
      <4>2. m \in 1..((position + 1) - 1) /\ \A j \in (m + 1)..((position + 1) - 1) : history[j].role # "assistant"
        BY <1>3, <2>1, <4>1 DEF Current, Behind
      <4> QED BY <1>1, <1>10, <2>0, <4>2
    <3> QED BY <1>9, <3>1, <3>2
  <2>2. ASSUME NEW c \in DOMAIN calls, Done(p, c)' PROVE c <= callsDone + 1
    <3>1. CASE position' = position /\ callsDone' = callsDone + 1
      BY <1>10, <2>0, <2>2, <3>1 DEF Done
    <3>2. CASE callsDone + 1 = Len(calls)
      BY <1>4, <3>2
    <3> QED BY <1>9, <3>1, <3>2
  <2>3. raw \in DOMAIN pendingMap' /\ pendingMap'[raw] = id
    BY <1>2
  <2>4. ASSUME NEW c \in DOMAIN calls, c <= callsDone
        PROVE  /\ calls[c] \in DOMAIN pendingMap'
               /\ \E u \in DOMAIN blocks' : BlockOf(p, c, u)' /\ blocks'[u].id = pendingMap'[calls[c]]
    <3>1. callsDone > 0 /\ c \in Nat
      BY <1>4, <2>4
    <3>2. Current(position) /\ Done(position, c)
      BY <2>4, <3>1 DEF Current, Done
    <3>3. PICK u \in DOMAIN blocks :
            calls[c] \in DOMAIN pendingMap /\ BlockOf(position, c, u) /\ blocks[u].id = pendingMap[calls[c]]
      BY <1>0, <1>1, <3>2 DEF RenderingInv, TableInv
    <3>4. calls[c] # raw
      BY <1>0, <1>4, <2>4, <3>1 DEF IsInjective
    <3>5. pendingMap' = [r \in DOMAIN pendingMap \cup {raw} |-> IF r = raw THEN id ELSE pendingMap[r]]
      BY <1>2, <3>1
    <3>6. TurnOf("user")' = TurnOf("user")
      BY <1>6, <3>1 DEF RenderingInv, PlaceInv
    <3>7. /\ u \in DOMAIN blocks' /\ blocks'[u] = blocks[u] /\ blocks[u].type = "use" /\ blocks[u].message = position
          /\ blocks[u].call = c /\ blocks[u].turn + 1 = TurnOf("user")
      BY <1>8, <3>3 DEF BlockOf
    <3>8. \E v \in DOMAIN blocks' : /\ blocks'[v].type = "use" /\ blocks'[v].message = position /\ blocks'[v].call = c
                                    /\ blocks'[v].turn + 1 = TurnOf("user")' /\ blocks'[v].id = pendingMap'[calls[c]]
      BY <3>3, <3>4, <3>5, <3>6, <3>7
    <3> QED BY <2>0, <3>3, <3>5, <3>8 DEF BlockOf
  <2>5. ASSUME NEW c \in DOMAIN calls, c = callsDone + 1
        PROVE  /\ calls[c] \in DOMAIN pendingMap'
               /\ \E u \in DOMAIN blocks' : BlockOf(p, c, u)' /\ blocks'[u].id = pendingMap'[calls[c]]
    BY <1>0, <1>6, <1>7, <1>8, <2>0, <2>3, <2>5 DEF BlockOf
  <2>6. ASSUME NEW m \in DOMAIN history, Current(m)', NEW c \in DOMAIN history[m].calls, Done(m, c)'
        PROVE  /\ history[m].calls[c] \in DOMAIN pendingMap'
               /\ \E u \in DOMAIN blocks' : BlockOf(m, c, u)' /\ blocks'[u].id = pendingMap'[history[m].calls[c]]
    <3>1. m = p /\ c \in DOMAIN calls /\ history[m].calls = calls
      BY <1>0, <2>0, <2>1, <2>6
    <3>2. c <= callsDone + 1 /\ c \in Nat
      BY <1>4, <2>2, <2>6, <3>1
    <3>3. c <= callsDone \/ c = callsDone + 1
      BY <1>4, <3>2
    <3> QED BY <2>4, <2>5, <3>1, <3>3
  <2> QED BY <1>3, <2>6 DEF TableInv
<1> QED
  BY <1>6, <1>11, <1>12, <1>13, <1>14, <1>15 DEF RenderingInv

\* A step of the conversation or of its rendering.
LEMMA RenderingKept ==
  ASSUME RenderingInv, [RenderingNext]_<<history, renderVars>>
  PROVE  RenderingInv'
<1>1. CASE Ask \/ CallTools \/ Answer \/ CutOff \/ BeginRendering \/ SendRequest
  BY <1>1, AroundRendering
<1>2. CASE RenderUser
  BY <1>2, UserRendered
<1>3. CASE RenderText
  BY <1>3, TextRendered
<1>4. CASE RenderCall
  BY <1>4, CallRendered
<1>5. CASE DropResult
  BY <1>5, ResultDropped
<1>6. CASE RenderResult
  BY <1>6, ResultRendered
<1>7. CASE UNCHANGED <<history, renderVars>>
  <2>1. UNCHANGED <<history, position, callsDone, seenIds, pendingMap, blocks>>
    BY <1>7 DEF renderVars
  <2>2. HistoryInv'
    BY <2>1, HistorySame DEF RenderingInv
  <2>3. PlaceInv' /\ UsesInv' /\ TurnsInv'
    BY <2>1 DEF RenderingInv, PlaceInv, UsesInv, TurnsInv
  <2>4. ResultsInv'
    BY <2>1, PairedSame DEF RenderingInv, ResultsInv, AnswersCall, Behind
  <2>5. TableInv'
    BY <2>1 DEF RenderingInv, TableInv, Current, Done, BlockOf, TurnOf, Behind
  <2> QED BY <2>2, <2>3, <2>4, <2>5 DEF RenderingInv
<1> QED
  BY <1>1, <1>2, <1>3, <1>4, <1>5, <1>6, <1>7 DEF RenderingNext

LEMMA RenderingBegins ==
  ASSUME RenderingInit
  PROVE  RenderingInv
<1>1. /\ history = <<>> /\ position = 0 /\ callsDone = 0 /\ seenIds = {} /\ blocks = <<>>
      /\ DOMAIN history = {} /\ DOMAIN blocks = {} /\ Len(history) = 0 /\ Len(blocks) = 0
  BY DEF RenderingInit
<1>2. HistoryInv
  BY <1>1 DEF HistoryInv
<1>3. PlaceInv
  BY <1>1, FS_EmptySet DEF PlaceInv
<1>4. UsesInv /\ ResultsInv /\ TurnsInv /\ TableInv
  BY <1>1 DEF UsesInv, ResultsInv, TurnsInv, TableInv
<1> QED
  BY <1>2, <1>3, <1>4 DEF RenderingInv
-----------------------------------------------------------------------------
(* What is sent. *)

OfType(bs, type) == {b \in DOMAIN bs : bs[b].type = type}

TurnsAlternate(bs) ==
  \A b \in 2..Len(bs) : bs[b].turn = bs[b - 1].turn + (IF bs[b].role = bs[b - 1].role THEN 0 ELSE 1)

\* The calls and the results of a conversation correspond.
Corresponds(bs) ==
  /\ \A u \in OfType(bs, "use") : \E r \in OfType(bs, "result") : AnswersCall(bs, r, u)
  /\ \A r \in OfType(bs, "result") : Paired(bs[r].message) /\ \E u \in OfType(bs, "use") : AnswersCall(bs, r, u)
  /\ \A u, v \in OfType(bs, "use") : bs[u].id = bs[v].id => u = v
  /\ \A r, q \in OfType(bs, "result") : bs[r].id = bs[q].id => r = q
  /\ \A k \in DOMAIN history : Paired(k) => \E r \in OfType(bs, "result") : bs[r].message = k

\* No call has two results.
LEMMA OneResult ==
  ASSUME RenderingInv, NEW r \in OfType(blocks, "result"), NEW q \in OfType(blocks, "result"),
         blocks[r].id = blocks[q].id
  PROVE  r = q
<1>1. PICK u \in DOMAIN blocks : AnswersCall(blocks, r, u)
  BY DEF OfType, RenderingInv, ResultsInv
<1>2. PICK v \in DOMAIN blocks : AnswersCall(blocks, q, v)
  BY DEF OfType, RenderingInv, ResultsInv
<1>3. u = v
  BY <1>1, <1>2 DEF AnswersCall, RenderingInv, UsesInv
<1>4. PICK k \in DOMAIN history : blocks[r].message = k /\ Paired(k)
  BY DEF OfType, RenderingInv, ResultsInv
<1>5. PICK l \in DOMAIN history : blocks[q].message = l /\ Paired(l)
  BY DEF OfType, RenderingInv, ResultsInv
<1>6. PICK m : m = blocks[u].message
  OBVIOUS
<1>7. m \in DOMAIN history /\ Behind(m, k) /\ Behind(m, l) /\ history[k].id = history[l].id
  BY <1>1, <1>2, <1>3, <1>4, <1>5, <1>6 DEF AnswersCall, RenderingInv, UsesInv
<1>8. k \in Nat /\ l \in Nat /\ m \in Nat
  BY <1>7, HistoryFacts DEF RenderingInv
<1>9. ASSUME NEW i \in DOMAIN history, NEW j \in DOMAIN history, i < j, Paired(i), Paired(j),
             history[i].id = history[j].id, Behind(m, i), Behind(m, j)
      PROVE  FALSE
  <2>1. PICK b \in (i + 1)..(j - 1) : history[b].role = "assistant"
    BY <1>9 DEF RenderingInv, HistoryInv
  <2>2. i \in Nat /\ j \in Nat
    BY HistoryFacts DEF RenderingInv
  <2>3. b \in (m + 1)..(j - 1)
    BY <1>8, <1>9, <2>1, <2>2 DEF Behind
  <2> QED BY <1>9, <2>1, <2>3 DEF Behind
<1>10. k = l
  BY <1>4, <1>5, <1>7, <1>8, <1>9
<1> QED
  BY <1>4, <1>5, <1>10 DEF OfType, RenderingInv, ResultsInv

\* When all is rendered, calls without a result become text and no result does.
LEMMA WhatIsKept ==
  ASSUME RenderingInv, Rendered
  PROVE  /\ UsesAnswered(blocks) \in Seq(BlockSet) /\ Len(UsesAnswered(blocks)) = Len(blocks)
         /\ \A b \in DOMAIN blocks : /\ UsesAnswered(blocks)[b].turn = blocks[b].turn
                                     /\ UsesAnswered(blocks)[b].role = blocks[b].role
         /\ Corresponds(UsesAnswered(blocks))
         /\ ResultsUsed(UsesAnswered(blocks)) = UsesAnswered(blocks)
<1>1. blocks \in Seq(BlockSet) /\ DOMAIN blocks = 1..Len(blocks) /\ Len(blocks) \in Nat
      /\ \A b \in DOMAIN blocks : blocks[b] \in BlockSet /\ blocks[b].turn \in Nat
  <2>1. blocks \in Seq(BlockSet)
    BY DEF RenderingInv, PlaceInv
  <2>2. \A b \in DOMAIN blocks : blocks[b] \in BlockSet
    BY <2>1
  <2> QED BY <2>1, <2>2 DEF BlockSet
<1>2. PICK bs : bs = UsesAnswered(blocks)
  OBVIOUS
<1>3. /\ DOMAIN bs = DOMAIN blocks
      /\ bs = [b \in DOMAIN blocks |-> bs[b]]
      /\ \A b \in DOMAIN blocks :
           bs[b] = IF blocks[b].type = "use" /\ blocks[b].id \notin Ids(blocks, blocks[b].turn + 1, "result")
                   THEN Removed(blocks[b]) ELSE blocks[b]
  BY <1>2 DEF UsesAnswered
<1>4. ASSUME NEW x \in BlockSet
      PROVE  Removed(x) \in BlockSet /\ Removed(x).type = "text" /\ Removed(x).turn = x.turn /\ Removed(x).role = x.role
  <2>1. NoId \in WireIds
    BY DEF WireIds
  <2> QED BY <2>1 DEF Removed, BlockSet
<1>5. \A b \in DOMAIN blocks : bs[b] \in BlockSet /\ bs[b].turn = blocks[b].turn /\ bs[b].role = blocks[b].role
  BY <1>1, <1>3, <1>4
<1>6. bs \in Seq(BlockSet) /\ Len(bs) = Len(blocks)
  <2>1. bs \in [1..Len(blocks) -> BlockSet]
    BY <1>1, <1>3, <1>5
  <2> QED BY <1>1, <2>1
<1>7. \A b \in DOMAIN bs : bs[b].type # "text" => blocks[b].type = bs[b].type /\ bs[b] = blocks[b]
  BY <1>1, <1>3, <1>4
<1>8. \A b \in DOMAIN blocks : blocks[b].type = "result" => bs[b] = blocks[b]
  BY <1>3
<1>9. ASSUME NEW r \in OfType(blocks, "result"), NEW u \in DOMAIN blocks, AnswersCall(blocks, r, u)
      PROVE  bs[u] = blocks[u] /\ AnswersCall(bs, r, u)
  <2>1. blocks[u].id \in Ids(blocks, blocks[u].turn + 1, "result")
    BY <1>9 DEF AnswersCall, Ids, OfType
  <2>2. bs[u] = blocks[u] /\ bs[r] = blocks[r]
    BY <1>3, <1>8, <2>1 DEF OfType
  <2> QED BY <1>9, <2>2 DEF AnswersCall
<1>10. ASSUME NEW u \in OfType(bs, "use") PROVE \E r \in OfType(bs, "result") : AnswersCall(bs, r, u)
  <2>1. u \in DOMAIN blocks /\ blocks[u].type = "use" /\ bs[u] = blocks[u]
    BY <1>3, <1>7 DEF OfType
  <2>2. blocks[u].id \in Ids(blocks, blocks[u].turn + 1, "result")
    <3>1. bs[u].type # "text"
      BY DEF OfType
    <3> QED BY <1>1, <1>3, <1>4, <2>1, <3>1
  <2>3. PICK r \in OfType(blocks, "result") : blocks[r].id = blocks[u].id
    BY <2>2 DEF Ids, OfType
  <2>4. PICK v \in DOMAIN blocks : AnswersCall(blocks, r, v)
    BY DEF OfType, RenderingInv, ResultsInv
  <2>5. v = u
    BY <2>1, <2>3, <2>4 DEF AnswersCall, RenderingInv, UsesInv
  <2>6. r \in OfType(bs, "result")
    BY <1>3, <1>8 DEF OfType
  <2> QED BY <1>9, <2>4, <2>5, <2>6
<1>11. ASSUME NEW r \in OfType(bs, "result")
       PROVE  /\ r \in OfType(blocks, "result") /\ bs[r] = blocks[r] /\ Paired(bs[r].message)
              /\ \E u \in OfType(bs, "use") : AnswersCall(bs, r, u) /\ bs[u] = blocks[u]
  <2>1. r \in OfType(blocks, "result") /\ bs[r] = blocks[r]
    BY <1>3, <1>7 DEF OfType
  <2>2. PICK u \in DOMAIN blocks : AnswersCall(blocks, r, u)
    BY <2>1 DEF OfType, RenderingInv, ResultsInv
  <2>3. bs[u] = blocks[u] /\ AnswersCall(bs, r, u) /\ u \in OfType(bs, "use")
    BY <1>3, <1>9, <2>1, <2>2 DEF AnswersCall, OfType
  <2>4. Paired(blocks[r].message)
    BY <2>1 DEF OfType, RenderingInv, ResultsInv
  <2> QED BY <2>1, <2>3, <2>4
<1>12. \A u, v \in OfType(bs, "use") : bs[u].id = bs[v].id => u = v
  BY <1>3, <1>7 DEF OfType, RenderingInv, UsesInv
<1>13. \A r, q \in OfType(bs, "result") : bs[r].id = bs[q].id => r = q
  BY <1>11, OneResult
<1>14. ASSUME NEW k \in DOMAIN history, Paired(k) PROVE \E r \in OfType(bs, "result") : bs[r].message = k
  <2>1. k < position
    BY HistoryFacts DEF Rendered, RenderingInv
  <2> QED BY <1>3, <1>8, <1>14, <2>1 DEF OfType, RenderingInv, ResultsInv
<1>15. Corresponds(bs)
  BY <1>10, <1>11, <1>12, <1>13, <1>14 DEF Corresponds
<1>16. ResultsUsed(bs) = bs
  <2>1. ASSUME NEW b \in DOMAIN bs, bs[b].type = "result" PROVE bs[b].id \in Ids(bs, bs[b].turn - 1, "use")
    <3>1. PICK u \in OfType(bs, "use") : AnswersCall(bs, b, u)
      BY <1>11, <2>1 DEF OfType
    <3>2. bs[b].id = bs[u].id /\ bs[b].turn = bs[u].turn + 1 /\ bs[u].turn \in Nat
      BY <1>1, <1>3, <1>5, <3>1 DEF AnswersCall, OfType
    <3>3. bs[u].turn = bs[b].turn - 1
      BY <3>2
    <3> QED BY <3>2, <3>3 DEF Ids, OfType
  <2>2. ResultsUsed(bs) = [b \in DOMAIN bs |-> bs[b]]
    BY <2>1 DEF ResultsUsed
  <2> QED BY <1>3, <2>2
<1> QED
  BY <1>2, <1>5, <1>6, <1>15, <1>16

\* A sequence with one element before it.
LEMMA PutBefore ==
  ASSUME NEW T, NEW x \in T, NEW bare \in Seq(T), NEW bs, bs = <<x>> \o bare, NEW n, n = Len(bare)
  PROVE  /\ n \in Nat /\ DOMAIN bare = 1..n /\ DOMAIN bs = 1..(n + 1) /\ Len(bs) = n + 1
         /\ bs[1] = x /\ (n # 0 => bare # <<>>)
         /\ \A b \in DOMAIN bare : b + 1 \in DOMAIN bs /\ bs[b + 1] = bare[b]
         /\ \A b \in DOMAIN bs : b = 1 \/ (b - 1 \in DOMAIN bare /\ b = (b - 1) + 1 /\ bs[b] = bare[b - 1])
<1>1. PICK one : one = <<x>>
  OBVIOUS
<1>2. n \in Nat /\ DOMAIN bare = 1..n /\ (n # 0 => bare # <<>>)
  <2>1. n \in Nat
    BY <1>1, LenProperties
  <2>2. DOMAIN bare = 1..n
    BY <1>1, LenProperties
  <2>3. Len(bare) # 0 => bare # <<>>
    BY EmptySeq
  <2> QED BY <1>1, <2>1, <2>2, <2>3
<1>3. one \in Seq(T) /\ Len(one) = 1 /\ one[1] = x
  BY <1>1
<1>4. /\ bs \in Seq(T) /\ Len(bs) = Len(one) + Len(bare)
      /\ \A b \in 1..(Len(one) + Len(bare)) :
           bs[b] = IF b <= Len(one) THEN one[b] ELSE bare[b - Len(one)]
  BY <1>1, <1>3, ConcatProperties
<1>5. Len(bs) = n + 1
  <2>1. Len(bs) = 1 + n
    BY <1>1, <1>3, <1>4
  <2> QED BY <1>2, <2>1
<1>6. DOMAIN bs = 1..(n + 1)
  BY <1>4, <1>5, LenProperties
<1>7. \A b \in 1..(n + 1) : bs[b] = IF b <= 1 THEN one[b] ELSE bare[b - 1]
  <2>1. \A b \in 1..(1 + n) : bs[b] = IF b <= 1 THEN one[b] ELSE bare[b - 1]
    BY <1>1, <1>3, <1>4
  <2>2. 1 + n = n + 1
    BY <1>2
  <2> QED BY <2>1, <2>2
<1>8. bs[1] = x
  <2>1. 1 \in 1..(n + 1)
    BY <1>2
  <2> QED BY <1>3, <1>7, <2>1
<1>9. ASSUME NEW b \in 1..n PROVE b + 1 \in 1..(n + 1) /\ bs[b + 1] = bare[b]
  <2>1. b + 1 \in 1..(n + 1) /\ ~(b + 1 <= 1) /\ (b + 1) - 1 = b
    BY <1>2
  <2> QED BY <1>7, <2>1
<1>10. ASSUME NEW b \in 1..(n + 1), b # 1 PROVE b - 1 \in 1..n /\ b = (b - 1) + 1 /\ bs[b] = bare[b - 1]
  <2>1. b - 1 \in 1..n /\ b = (b - 1) + 1 /\ ~(b <= 1)
    BY <1>2, <1>10
  <2> QED BY <1>7, <2>1
<1> QED
  BY <1>1, <1>2, <1>5, <1>6, <1>8, <1>9, <1>10

\* An opening turn of the user's before it changes no pair.
LEMMA OpeningBefore ==
  ASSUME NEW bare \in Seq(BlockSet), Corresponds(bare), TurnsAlternate(bare),
         bare # <<>> => bare[1].role # "user" /\ bare[1].turn = 1
  PROVE  LET bs == <<Opening>> \o bare IN
         Corresponds(bs) /\ TurnsAlternate(bs) /\ bs[1].role = "user"
<1>1. PICK bs : bs = <<Opening>> \o bare
  OBVIOUS
<1>2. Opening \in BlockSet /\ Opening.type = "text" /\ Opening.turn = 0 /\ Opening.role = "user"
  BY DEF Opening, BlockSet, WireIds
<1>3. PICK n : n = Len(bare)
  OBVIOUS
<1>4. /\ n \in Nat /\ DOMAIN bare = 1..n /\ DOMAIN bs = 1..(n + 1) /\ Len(bs) = n + 1
      /\ bs[1] = Opening /\ (n # 0 => bare # <<>>)
      /\ \A b \in DOMAIN bare : b + 1 \in DOMAIN bs /\ bs[b + 1] = bare[b]
      /\ \A b \in DOMAIN bs : b = 1 \/ (b - 1 \in DOMAIN bare /\ b = (b - 1) + 1 /\ bs[b] = bare[b - 1])
  <2>1. Opening \in BlockSet
    BY <1>2
  <2> QED BY <1>1, <1>3, <2>1, PutBefore
<1>5. TurnsAlternate(bs) /\ bs[1].role = "user"
  <2>1. ASSUME NEW b \in 2..Len(bs)
        PROVE  bs[b].turn = bs[b - 1].turn + (IF bs[b].role = bs[b - 1].role THEN 0 ELSE 1)
    <3>1. CASE b = 2
      <4>1. 2 \in DOMAIN bs /\ 2 # 1 /\ 2 - 1 = 1
        BY <1>4, <2>1, <3>1
      <4>2. 1 \in DOMAIN bare /\ bs[2] = bare[1]
        BY <1>4, <4>1
      <4>3. bare # <<>>
        BY <1>4, <4>2
      <4> QED BY <1>2, <1>4, <3>1, <4>2, <4>3
    <3>2. CASE b # 2
      <4>1. b - 1 \in 2..Len(bare) /\ b - 1 \in 2..Len(bs) /\ bs[b] = bare[b - 1] /\ bs[b - 1] = bare[(b - 1) - 1]
        <5>1. /\ b \in DOMAIN bs /\ b # 1 /\ b - 1 \in DOMAIN bs /\ b - 1 # 1
              /\ b - 1 \in 2..Len(bare) /\ b - 1 \in 2..Len(bs)
          BY <1>3, <1>4, <2>1, <3>2
        <5> QED BY <1>4, <5>1
      <4> QED BY <4>1 DEF TurnsAlternate
    <3> QED BY <3>1, <3>2
  <2> QED BY <1>2, <1>4, <2>1 DEF TurnsAlternate
<1>6. ASSUME NEW type \in {"use", "result"}
      PROVE  /\ \A b \in OfType(bare, type) : b + 1 \in OfType(bs, type) /\ bs[b + 1] = bare[b]
             /\ \A b \in OfType(bs, type) : b - 1 \in OfType(bare, type) /\ bs[b] = bare[b - 1] /\ b = (b - 1) + 1
  BY <1>2, <1>4 DEF OfType
<1>7. \A r, u : r \in OfType(bare, "result") /\ u \in OfType(bare, "use") /\ AnswersCall(bare, r, u)
                 => AnswersCall(bs, r + 1, u + 1)
  BY <1>6 DEF AnswersCall
<1>8. Corresponds(bs)
  <2>1. ASSUME NEW u \in OfType(bs, "use") PROVE \E r \in OfType(bs, "result") : AnswersCall(bs, r, u)
    <3>1. u - 1 \in OfType(bare, "use") /\ u = (u - 1) + 1
      BY <1>6
    <3>2. PICK r \in OfType(bare, "result") : AnswersCall(bare, r, u - 1)
      BY <3>1 DEF Corresponds
    <3>3. AnswersCall(bs, r + 1, (u - 1) + 1)
      BY <1>7, <3>1, <3>2
    <3> QED BY <1>6, <3>1, <3>3
  <2>2. ASSUME NEW r \in OfType(bs, "result")
        PROVE  Paired(bs[r].message) /\ \E u \in OfType(bs, "use") : AnswersCall(bs, r, u)
    <3>1. r - 1 \in OfType(bare, "result") /\ r = (r - 1) + 1 /\ bs[r] = bare[r - 1]
      BY <1>6
    <3>2. Paired(bare[r - 1].message)
      BY <3>1 DEF Corresponds
    <3>3. PICK u \in OfType(bare, "use") : AnswersCall(bare, r - 1, u)
      BY <3>1 DEF Corresponds
    <3>4. AnswersCall(bs, (r - 1) + 1, u + 1)
      BY <1>7, <3>1, <3>3
    <3> QED BY <1>6, <3>1, <3>2, <3>4
  <2>3. \A u, v \in OfType(bs, "use") : bs[u].id = bs[v].id => u = v
    <3> SUFFICES ASSUME NEW u \in OfType(bs, "use"), NEW v \in OfType(bs, "use"), bs[u].id = bs[v].id PROVE u = v
      OBVIOUS
    <3>1. /\ u - 1 \in OfType(bare, "use") /\ v - 1 \in OfType(bare, "use") /\ bare[u - 1].id = bare[v - 1].id
          /\ u = (u - 1) + 1 /\ v = (v - 1) + 1
      BY <1>6
    <3>2. u - 1 = v - 1
      BY <3>1 DEF Corresponds
    <3> QED BY <3>1, <3>2
  <2>4. \A r, q \in OfType(bs, "result") : bs[r].id = bs[q].id => r = q
    <3> SUFFICES ASSUME NEW r \in OfType(bs, "result"), NEW q \in OfType(bs, "result"), bs[r].id = bs[q].id PROVE r = q
      OBVIOUS
    <3>1. /\ r - 1 \in OfType(bare, "result") /\ q - 1 \in OfType(bare, "result") /\ bare[r - 1].id = bare[q - 1].id
          /\ r = (r - 1) + 1 /\ q = (q - 1) + 1
      BY <1>6
    <3>2. r - 1 = q - 1
      BY <3>1 DEF Corresponds
    <3> QED BY <3>1, <3>2
  <2>5. ASSUME NEW k \in DOMAIN history, Paired(k) PROVE \E r \in OfType(bs, "result") : bs[r].message = k
    <3>1. PICK r \in OfType(bare, "result") : bare[r].message = k
      BY <2>5 DEF Corresponds
    <3>2. r + 1 \in OfType(bs, "result") /\ bs[r + 1] = bare[r]
      BY <1>6
    <3> QED BY <3>1, <3>2
  <2> QED BY <2>1, <2>2, <2>3, <2>4, <2>5 DEF Corresponds
<1> QED
  BY <1>1, <1>5, <1>8

LEMMA WhatIsSent ==
  ASSUME RenderingInv, Rendered
  PROVE  Corresponds(Sent) /\ TurnsAlternate(Sent) /\ Sent[1].role = "user"
<1>1. PICK bs : bs = UsesAnswered(blocks)
  OBVIOUS
<1>2. /\ bs \in Seq(BlockSet) /\ Len(bs) = Len(blocks) /\ Corresponds(bs) /\ ResultsUsed(bs) = bs
      /\ \A b \in DOMAIN blocks : bs[b].turn = blocks[b].turn /\ bs[b].role = blocks[b].role
  BY <1>1, WhatIsKept
<1>3. DOMAIN blocks = 1..Len(blocks) /\ Len(blocks) \in Nat /\ TurnsInv /\ (bs = <<>> <=> Len(bs) = 0)
      /\ (blocks = <<>> <=> Len(blocks) = 0)
  BY <1>2 DEF RenderingInv, PlaceInv
<1>4. TurnsAlternate(bs)
  <2>1. \A b \in 2..Len(blocks) : b \in DOMAIN blocks /\ b - 1 \in DOMAIN blocks
    BY <1>3
  <2> QED BY <1>2, <1>3, <2>1 DEF TurnsAlternate, TurnsInv
<1>5. bs # <<>> => bs[1].turn = 1
  BY <1>2, <1>3 DEF TurnsInv
<1>6. Sent = IF bs = <<>> \/ bs[1].role # "user" THEN <<Opening>> \o bs ELSE bs
  BY <1>1, <1>2 DEF Sent
<1>7. CASE bs = <<>> \/ bs[1].role # "user"
  BY <1>2, <1>4, <1>5, <1>6, <1>7, OpeningBefore
<1>8. CASE ~(bs = <<>> \/ bs[1].role # "user")
  BY <1>2, <1>4, <1>6, <1>8
<1> QED
  BY <1>7, <1>8

\* Whatever conversation is rendered, however long and with whichever ids, what is
\* sent alternates between the two roles, the user opens, and every call is followed
\* in the next turn by its own result, every result by its own call
\* (AnthropicMessagesProviderAdapter._render_messages).
THEOREM RenderingPairsExactly == RenderingSpec => []PairingExact
<1>1. RenderingInv => PairingExact
  <2> SUFFICES ASSUME RenderingInv, Rendered, NEW bs, bs = Sent
               PROVE  LET Uses == {b \in DOMAIN bs : bs[b].type = "use"}
                          Results == {b \in DOMAIN bs : bs[b].type = "result"}
                      IN /\ bs[1].role = "user"
                         /\ \A b \in 2..Len(bs) :
                              bs[b].turn = bs[b - 1].turn + (IF bs[b].role = bs[b - 1].role THEN 0 ELSE 1)
                         /\ \A u \in Uses : \E r \in Results : AnswersCall(bs, r, u)
                         /\ \A r \in Results : Paired(bs[r].message) /\ \E u \in Uses : AnswersCall(bs, r, u)
                         /\ \A B \in {Uses, Results} : \A b, c \in B : bs[b].id = bs[c].id => b = c
                         /\ \A k \in DOMAIN history : Paired(k) => \E r \in Results : bs[r].message = k
    BY DEF PairingExact
  <2>1. Corresponds(bs) /\ TurnsAlternate(bs) /\ bs[1].role = "user"
    BY WhatIsSent
  <2> QED BY <2>1 DEF Corresponds, TurnsAlternate, OfType
<1> QED
  BY <1>1, RenderingBegins, RenderingKept, PTL DEF RenderingSpec
=============================================================================
