------------------------- MODULE ApprovalGateProofs -------------------------
(***************************************************************************)
(* Proofs about ApprovalGate and about the buttons of ToolCards, for any   *)
(* executions, tools, shapes, answers and answerers, and for every         *)
(* interleaving, error and restart.                                        *)
(***************************************************************************)
EXTENDS ToolCards, TLAPS

(***************************************************************************)
(* Types.  A row a person can still answer came from an evaluation, never  *)
(* from a tool-wide denial: only with that do the types hold by induction. *)
(***************************************************************************)

Asked(i) == rows[i].exec \in Executions /\ rows[i].shape \in Shapes

RowsAsked ==
  /\ \A i \in DOMAIN rows : rows[i].decision = "undecided" => Asked(i)
  /\ \A a \in Answerers : answer[a].at # "idle" => Asked(answer[a].row)
  /\ \A e \in Executions : call[e].at = "expire" =>
       /\ rows[call[e].row].exec = e
       /\ rows[call[e].row].tool = call[e].tool
       /\ rows[call[e].row].shape = call[e].shape

TypeInv == TypeOK /\ RowsAsked

\* What the places of an evaluation and of an answer say of their fields.
LEMMA CallFields ==
  ASSUME TypeOK, NEW e \in Executions
  PROVE  /\ call[e].at \in {"idle", "told", "expire", "mint"}
         /\ call[e].at = "idle" => call[e] = NoCall
         /\ call[e].at # "idle" => call[e].tool \in Tools /\ call[e].shape \in Shapes
         /\ call[e].at = "told" =>
              call[e].cause \in AllowCauses \cup DenyCauses \cup {"pending"}
         /\ call[e].at = "expire" => call[e].row \in DOMAIN rows
<1>1. call[e] \in CallState
  BY DEF TypeOK
<1> QED
  BY <1>1 DEF CallState, NoCall

LEMMA AnswerFields ==
  ASSUME TypeOK, NEW a \in Answerers
  PROVE  /\ answer[a].at \in {"idle", "store", "grant", "wildcard"}
         /\ answer[a].at # "idle" =>
              /\ answer[a] \in [at : {"store", "grant", "wildcard"},
                                row : DOMAIN rows, decision : Verdicts,
                                grain : Grains]
              /\ answer[a].row \in DOMAIN rows
              /\ answer[a].decision \in Verdicts /\ answer[a].grain \in Grains
<1>1. answer[a] \in AnswerState
  BY DEF TypeOK
<1> QED
  BY <1>1 DEF AnswerState, NoAnswer

LEMMA RowFields ==
  ASSUME TypeOK, NEW i \in DOMAIN rows
  PROVE  /\ rows[i] \in Row /\ rows[i].tool \in Tools
         /\ rows[i].created \in Nat
         /\ rows[i].exec \in Executions \cup {NoExec}
         /\ rows[i].shape \in Shapes \cup {AnyShape}
<1>1. rows[i] \in Row
  BY DEF TypeOK
<1> QED
  BY <1>1 DEF Row

\* Rows are only appended; which call a row is about never changes.
LEMMA RowsKept ==
  ASSUME TypeOK, [Next]_vars, NEW i \in DOMAIN rows
  PROVE  /\ i \in DOMAIN rows'
         /\ rows'[i].exec = rows[i].exec /\ rows'[i].tool = rows[i].tool
         /\ rows'[i].shape = rows[i].shape
         /\ rows'[i].created = rows[i].created
<1>0. rows \in Seq(Row) /\ rows[i] \in Row
  BY DEF TypeOK
<1>1. CASE UNCHANGED rows
  BY <1>1
<1>2. ASSUME NEW e \in Executions, EvaluateStep(e)
      PROVE  /\ i \in DOMAIN rows'
             /\ rows'[i].exec = rows[i].exec /\ rows'[i].tool = rows[i].tool
             /\ rows'[i].shape = rows[i].shape
             /\ rows'[i].created = rows[i].created
  <2>1. CASE MarkExpired(e)
    BY <1>0, <2>1 DEF MarkExpired, Row
  <2>2. CASE MintRequest(e)
    BY <1>0, <2>2 DEF MintRequest
  <2>3. CASE EvaluateSettled(e) \/ EvaluateAsk(e) \/ EvaluateFails(e) \/ CallReturns(e)
    BY <1>1, <2>3 DEF EvaluateSettled, EvaluateAsk, EvaluateFails, CallReturns
  <2> QED
    BY <1>2, <2>1, <2>2, <2>3 DEF EvaluateStep
<1>3. ASSUME NEW a \in Answerers, ResolveStep(a)
      PROVE  /\ i \in DOMAIN rows'
             /\ rows'[i].exec = rows[i].exec /\ rows'[i].tool = rows[i].tool
             /\ rows'[i].shape = rows[i].shape
             /\ rows'[i].created = rows[i].created
  <2>1. CASE StoreAnswer(a)
    BY <1>0, <2>1 DEF StoreAnswer, Row
  <2>2. CASE WriteWildcard(a)
    BY <1>0, <2>2 DEF WriteWildcard
  <2>3. CASE ReadRequest(a) \/ AddGrant(a) \/ AnswerFails(a)
    BY <1>1, <2>3 DEF ReadRequest, AddGrant, AnswerFails
  <2> QED
    BY <1>3, <2>1, <2>2, <2>3 DEF ResolveStep
<1>4. CASE SetMode \/ Restart \/ Tick \/ UNCHANGED vars
  BY <1>1, <1>4 DEF SetMode, Restart, Tick, vars
<1> QED
  BY <1>2, <1>3, <1>4 DEF Next

\* What an evaluation or an answer holds stays good as rows are added.
LEMMA StatesKept ==
  ASSUME TypeOK, [Next]_vars
  PROVE  call \in [Executions -> CallState'] /\ answer \in [Answerers -> AnswerState']
<1>1. DOMAIN rows \subseteq DOMAIN rows'
  BY RowsKept
<1>2. CallState \subseteq CallState' /\ AnswerState \subseteq AnswerState'
  BY <1>1 DEF CallState, AnswerState
<1> QED
  BY <1>2 DEF TypeOK

LEMMA TypeEvaluate ==
  ASSUME TypeInv, NEW e \in Executions, EvaluateStep(e) PROVE TypeOK'
<1>0. TypeOK /\ RowsAsked /\ [Next]_vars /\ NoExec \notin Executions
  BY ConstantsAssumption DEF TypeInv, Next
<1>1. call \in [Executions -> CallState'] /\ answer \in [Answerers -> AnswerState']
  BY <1>0, StatesKept
<1>2. ASSUME call'[e] \in CallState', call' = [call EXCEPT ![e] = call'[e]],
             rows' \in Seq(Row),
             UNCHANGED <<mode, grants, answer, now, restarts, said, blocked>>
      PROVE  TypeOK'
  BY <1>0, <1>1, <1>2 DEF TypeOK
<1>3. NoCall \in CallState'
  BY DEF CallState
<1>4. ASSUME NEW t \in Tools, NEW s \in Shapes
      PROVE  /\ Cause(e, t, s) \in AllowCauses \cup DenyCauses \cup {"ask"}
             /\ \A c \in AllowCauses \cup DenyCauses \cup {"pending"} :
                  Told(t, s, c) \in CallState'
             /\ [at |-> "mint", tool |-> t, shape |-> s] \in CallState'
             /\ \A i \in DOMAIN rows' :
                  [at |-> "expire", tool |-> t, shape |-> s, row |-> i] \in CallState'
  BY DEF CallState, Told, Cause, AllowCauses, DenyCauses
<1>5. CASE EvaluateSettled(e)
  <2>1. PICK t \in Tools, s \in Shapes :
          /\ Cause(e, t, s) # "ask"
          /\ call' = [call EXCEPT ![e] = Told(t, s, Cause(e, t, s))]
    BY <1>5 DEF EvaluateSettled
  <2>2. call'[e] = Told(t, s, Cause(e, t, s))
    BY <1>0, <2>1 DEF TypeOK
  <2>3. call'[e] \in CallState'
    BY <1>4, <2>1, <2>2
  <2> QED
    BY <1>0, <1>2, <1>5, <2>1, <2>2, <2>3 DEF EvaluateSettled, TypeOK
<1>6. CASE EvaluateAsk(e)
  <2>1. PICK t \in Tools, s \in Shapes :
          \/ call' = [call EXCEPT ![e] = Told(t, s, "pending")]
          \/ \E i \in DOMAIN rows : call' = [call EXCEPT ![e] =
               [at |-> "expire", tool |-> t, shape |-> s, row |-> i]]
          \/ call' = [call EXCEPT ![e] = [at |-> "mint", tool |-> t, shape |-> s]]
    BY <1>6 DEF EvaluateAsk, Newest, Waiting
  <2>2. UNCHANGED rows
    BY <1>6 DEF EvaluateAsk
  <2>3. PICK v \in CallState' : call' = [call EXCEPT ![e] = v]
    <3>1. Told(t, s, "pending") \in CallState'
      BY <1>4
    <3>2. \A i \in DOMAIN rows :
            [at |-> "expire", tool |-> t, shape |-> s, row |-> i] \in CallState'
      BY <1>4, <2>2
    <3>3. [at |-> "mint", tool |-> t, shape |-> s] \in CallState'
      BY <1>4
    <3> QED
      BY <2>1, <3>1, <3>2, <3>3
  <2>4. call'[e] = v
    BY <1>0, <2>3 DEF TypeOK
  <2> QED
    BY <1>0, <1>2, <1>6, <2>2, <2>3, <2>4 DEF EvaluateAsk, TypeOK
<1>7. CASE MarkExpired(e)
  <2>1. call[e].tool \in Tools /\ call[e].shape \in Shapes /\ call[e].row \in DOMAIN rows
    BY <1>0, <1>7, CallFields DEF MarkExpired
  <2>2. [rows[call[e].row] EXCEPT !.decision = "undecided", !.grain = "once"] \in Row
    BY <1>0, <2>1, RowFields DEF Row, Grains
  <2>3. rows' = [rows EXCEPT ![call[e].row] =
                   [rows[call[e].row] EXCEPT !.decision = "undecided", !.grain = "once"]]
    BY <1>0, <1>7, <2>1, RowFields DEF MarkExpired, Row, TypeOK
  <2>4. rows' \in Seq(Row)
    BY <1>0, <2>1, <2>2, <2>3 DEF TypeOK
  <2>5. call'[e] \in CallState' /\ call' = [call EXCEPT ![e] = call'[e]]
    BY <1>0, <1>4, <1>7, <2>1 DEF MarkExpired, TypeOK
  <2> QED
    BY <1>2, <1>7, <2>4, <2>5 DEF MarkExpired
<1>8. CASE MintRequest(e)
  <2>1. call[e].tool \in Tools /\ call[e].shape \in Shapes
    BY <1>0, <1>8, CallFields DEF MintRequest
  <2>2. rows' \in Seq(Row)
    BY <1>0, <1>8, <2>1 DEF MintRequest, TypeOK, Row, Grains
  <2>3. call'[e] \in CallState' /\ call' = [call EXCEPT ![e] = call'[e]]
    BY <1>0, <1>4, <1>8, <2>1 DEF MintRequest, TypeOK
  <2> QED
    BY <1>2, <1>8, <2>2, <2>3 DEF MintRequest
<1>9. CASE EvaluateFails(e) \/ CallReturns(e)
  <2>1. call'[e] = NoCall /\ call' = [call EXCEPT ![e] = call'[e]]
    BY <1>0, <1>9 DEF EvaluateFails, CallReturns, TypeOK
  <2> QED
    BY <1>0, <1>2, <1>3, <1>9, <2>1 DEF EvaluateFails, CallReturns, TypeOK
<1> QED
  BY <1>5, <1>6, <1>7, <1>8, <1>9 DEF EvaluateStep

LEMMA TypeResolve ==
  ASSUME TypeInv, NEW a \in Answerers, ResolveStep(a) PROVE TypeOK'
<1>0. TypeOK /\ RowsAsked /\ [Next]_vars
  BY DEF TypeInv, Next
<1>1. call \in [Executions -> CallState'] /\ answer \in [Answerers -> AnswerState']
  BY <1>0, StatesKept
<1>2. NoAnswer \in AnswerState'
  BY DEF AnswerState
<1>3. CASE ReadRequest(a)
  <2>1. PICK i \in DOMAIN rows, d \in Verdicts, g \in Grains :
          answer' = [answer EXCEPT ![a] =
            [at |-> "store", row |-> i, decision |-> d, grain |-> g]]
    BY <1>3 DEF ReadRequest
  <2>2. [at |-> "store", row |-> i, decision |-> d, grain |-> g] \in AnswerState'
    BY <1>0, RowsKept DEF AnswerState
  <2> QED
    BY <1>0, <1>1, <1>3, <2>1, <2>2 DEF ReadRequest, TypeOK
<1>4. CASE StoreAnswer(a)
  <2>0. answer[a].at # "idle"
    BY <1>4 DEF StoreAnswer
  <2>1. /\ answer[a].row \in DOMAIN rows /\ answer[a].decision \in Verdicts
        /\ answer[a].grain \in Grains /\ Asked(answer[a].row)
        /\ answer[a] \in [at : {"store", "grant", "wildcard"}, row : DOMAIN rows,
                          decision : Verdicts, grain : Grains]
    BY <1>0, <2>0, AnswerFields DEF RowsAsked
  <2> DEFINE i == answer[a].row
             g == IF answer[a].decision = "allow" THEN answer[a].grain ELSE "once"
             new == [rows[i] EXCEPT !.decision = answer[a].decision, !.grain = g]
  <2>6. new \in Row
    <3>1. rows[i] \in Row /\ g \in Grains
      BY <1>0, <2>1, RowFields DEF Grains
    <3> QED
      BY <2>1, <3>1 DEF Row
  <2>7. rows' = [rows EXCEPT ![i] = new]
    BY <1>0, <1>4, <2>1, RowFields DEF StoreAnswer, Row, TypeOK
  <2>2. rows' \in Seq(Row)
    BY <1>0, <2>1, <2>6, <2>7 DEF TypeOK
  <2>3. said' \subseteq Statement
    BY <1>0, <1>4, <2>1, RowFields DEF StoreAnswer, TypeOK, Statement, Asked, Grains
  <2>4. ASSUME NEW at \in {"grant", "wildcard"}
        PROVE  [answer[a] EXCEPT !.at = at] \in AnswerState'
    BY <1>0, <2>1, RowsKept DEF AnswerState
  <2>5. answer' \in [Answerers -> AnswerState']
    BY <1>1, <1>2, <1>4, <2>4 DEF StoreAnswer, AfterStore
  <2> QED
    BY <1>0, <1>1, <1>4, <2>2, <2>3, <2>5 DEF StoreAnswer, TypeOK
<1>5. CASE AddGrant(a)
  <2>1. answer[a].row \in DOMAIN rows /\ Asked(answer[a].row)
    BY <1>0, <1>5, AnswerFields DEF RowsAsked, AddGrant
  <2> QED
    BY <1>0, <1>1, <1>2, <1>5, <2>1, RowFields DEF AddGrant, TypeOK, Asked
<1>6. CASE WriteWildcard(a)
  <2>1. answer[a].row \in DOMAIN rows
    BY <1>0, <1>6, AnswerFields DEF WriteWildcard
  <2>2. rows' \in Seq(Row) /\ blocked' \subseteq Tools
    BY <1>0, <1>6, <2>1, RowFields DEF WriteWildcard, TypeOK, Row, Grains, Verdicts
  <2> QED
    BY <1>0, <1>1, <1>2, <1>6, <2>2 DEF WriteWildcard, TypeOK
<1>7. CASE AnswerFails(a)
  BY <1>0, <1>1, <1>2, <1>7 DEF AnswerFails, TypeOK
<1> QED
  BY <1>3, <1>4, <1>5, <1>6, <1>7 DEF ResolveStep

\* Which row an answer is about changes only when a request is read.
LEMMA AnswerRow ==
  ASSUME TypeInv, [Next]_vars, NEW a \in Answerers, answer'[a].at # "idle"
  PROVE  /\ answer'[a].row \in DOMAIN rows
         /\ \/ /\ answer[a].at # "idle" /\ answer'[a].row = answer[a].row
               /\ answer'[a].decision = answer[a].decision
               /\ answer'[a].grain = answer[a].grain
            \/ /\ rows[answer'[a].row].decision = "undecided"
               /\ answer'[a].at = "store"
<1>0. TypeOK /\ answer \in [Answerers -> AnswerState]
  BY DEF TypeInv, TypeOK
<1>1. CASE answer'[a] = answer[a]
  BY <1>0, <1>1, AnswerFields
<1>2. CASE ReadRequest(a)
  BY <1>0, <1>2 DEF ReadRequest
<1>3. CASE StoreAnswer(a)
  BY <1>0, <1>3, AnswerFields DEF StoreAnswer, AfterStore, NoAnswer
<1>4. CASE AddGrant(a) \/ WriteWildcard(a) \/ AnswerFails(a) \/ Restart
  BY <1>0, <1>4 DEF AddGrant, WriteWildcard, AnswerFails, Restart, NoAnswer
<1>5. ASSUME NEW b \in Answerers, b # a, ResolveStep(b) PROVE answer'[a] = answer[a]
  BY <1>0, <1>5 DEF ResolveStep, ReadRequest, StoreAnswer, AddGrant, WriteWildcard,
     AnswerFails
<1>6. ASSUME NEW e \in Executions, EvaluateStep(e) PROVE answer'[a] = answer[a]
  BY <1>6 DEF EvaluateStep, EvaluateSettled, EvaluateAsk, MarkExpired, MintRequest,
     EvaluateFails, CallReturns
<1>7. CASE SetMode \/ Tick \/ UNCHANGED vars
  BY <1>1, <1>7 DEF SetMode, Tick, vars
<1> QED
  BY <1>1, <1>2, <1>3, <1>4, <1>5, <1>6, <1>7 DEF Next, ResolveStep

\* A row becomes or is left undecided only as a person's question.
LEMMA UndecidedAsked ==
  ASSUME TypeInv, [Next]_vars, NEW i \in DOMAIN rows',
         rows'[i].decision = "undecided"
  PROVE  Asked(i)'
<1>0. TypeOK /\ RowsAsked /\ rows \in Seq(Row)
  BY DEF TypeInv, TypeOK
<1>1. CASE UNCHANGED rows
  BY <1>0, <1>1 DEF RowsAsked, Asked
<1>2. ASSUME NEW e \in Executions, MarkExpired(e) PROVE Asked(i)'
  <2>1. /\ call[e].row \in DOMAIN rows /\ call[e].shape \in Shapes
        /\ Asked(call[e].row)
    BY <1>0, <1>2, CallFields DEF MarkExpired, RowsAsked, Asked
  <2>2. CASE i = call[e].row
    BY <1>0, <1>2, <2>1, <2>2, RowsKept DEF Asked
  <2>3. CASE i # call[e].row
    BY <1>0, <1>2, <2>1, <2>3 DEF MarkExpired, RowsAsked, Asked
  <2> QED
    BY <2>2, <2>3
<1>3. ASSUME NEW e \in Executions, MintRequest(e) PROVE Asked(i)'
  BY <1>0, <1>3, CallFields DEF MintRequest, RowsAsked, Asked
<1>4. ASSUME NEW a \in Answerers, StoreAnswer(a) PROVE Asked(i)'
  <2>1. /\ answer[a].row \in DOMAIN rows /\ answer[a].decision # "undecided"
    BY <1>0, <1>4, AnswerFields DEF StoreAnswer, Verdicts
  <2>2. i \in DOMAIN rows /\ i # answer[a].row
    BY <1>0, <1>4, <2>1, RowFields DEF StoreAnswer, Row
  <2> QED
    BY <1>0, <1>4, <2>1, <2>2 DEF StoreAnswer, RowsAsked, Asked
<1>5. ASSUME NEW a \in Answerers, WriteWildcard(a) PROVE Asked(i)'
  BY <1>0, <1>5 DEF WriteWildcard, RowsAsked, Asked
<1>6. ASSUME NEW e \in Executions,
             EvaluateSettled(e) \/ EvaluateAsk(e) \/ EvaluateFails(e) \/ CallReturns(e)
      PROVE  Asked(i)'
  BY <1>1, <1>6 DEF EvaluateSettled, EvaluateAsk, EvaluateFails, CallReturns
<1>7. ASSUME NEW a \in Answerers, ReadRequest(a) \/ AddGrant(a) \/ AnswerFails(a)
      PROVE  Asked(i)'
  BY <1>1, <1>7 DEF ReadRequest, AddGrant, AnswerFails
<1>8. CASE SetMode \/ Restart \/ Tick \/ UNCHANGED vars
  BY <1>1, <1>8 DEF SetMode, Restart, Tick, vars
<1> QED
  BY <1>2, <1>3, <1>4, <1>5, <1>6, <1>7, <1>8 DEF Next, EvaluateStep, ResolveStep

\* An evaluation that found an expired request holds a row of its own call.
LEMMA ExpireRow ==
  ASSUME TypeInv, [Next]_vars, NEW e \in Executions, call'[e].at = "expire"
  PROVE  /\ call'[e].row \in DOMAIN rows
         /\ rows[call'[e].row].exec = e
         /\ rows[call'[e].row].tool = call'[e].tool
         /\ rows[call'[e].row].shape = call'[e].shape
         /\ \/ call'[e] = call[e]
            \/ /\ call'[e].row \in Newest(Waiting(e, call'[e].tool, call'[e].shape))
               /\ ~Fresh(call'[e].row)
               /\ UNCHANGED <<rows, now>>
<1>0. TypeOK /\ RowsAsked /\ call \in [Executions -> CallState]
  BY DEF TypeInv, TypeOK
<1>1. CASE call'[e] = call[e]
  BY <1>0, <1>1, CallFields DEF RowsAsked
<1>2. CASE EvaluateAsk(e)
  BY <1>0, <1>2 DEF EvaluateAsk, Newest, Waiting, Told
<1>3. CASE \/ EvaluateSettled(e) \/ MarkExpired(e) \/ MintRequest(e)
           \/ EvaluateFails(e) \/ CallReturns(e) \/ Restart
  BY <1>0, <1>3 DEF EvaluateSettled, MarkExpired, MintRequest, EvaluateFails,
     CallReturns, Restart, Told, NoCall
<1>4. ASSUME NEW f \in Executions, f # e, EvaluateStep(f) PROVE call'[e] = call[e]
  BY <1>0, <1>4 DEF EvaluateStep, EvaluateSettled, EvaluateAsk, MarkExpired,
     MintRequest, EvaluateFails, CallReturns
<1>5. ASSUME NEW a \in Answerers, ResolveStep(a) PROVE call'[e] = call[e]
  BY <1>5 DEF ResolveStep, ReadRequest, StoreAnswer, AddGrant, WriteWildcard,
     AnswerFails
<1>6. CASE SetMode \/ Tick \/ UNCHANGED vars
  BY <1>1, <1>6 DEF SetMode, Tick, vars
<1> QED
  BY <1>1, <1>2, <1>3, <1>4, <1>5, <1>6 DEF Next, EvaluateStep

LEMMA AskedKept == ASSUME TypeInv, [Next]_vars PROVE RowsAsked'
<1>0. TypeOK /\ RowsAsked
  BY DEF TypeInv
<1>1. ASSUME NEW a \in Answerers, answer'[a].at # "idle"
      PROVE  /\ rows'[answer'[a].row].exec \in Executions
             /\ rows'[answer'[a].row].shape \in Shapes
  <2>1. answer'[a].row \in DOMAIN rows /\ Asked(answer'[a].row)
    BY <1>0, <1>1, AnswerRow DEF RowsAsked
  <2> QED
    BY <1>0, <2>1, RowsKept DEF Asked
<1>2. ASSUME NEW e \in Executions, call'[e].at = "expire"
      PROVE  /\ rows'[call'[e].row].exec = e
             /\ rows'[call'[e].row].tool = call'[e].tool
             /\ rows'[call'[e].row].shape = call'[e].shape
  BY <1>0, <1>2, ExpireRow, RowsKept
<1> QED
  BY <1>1, <1>2, UndecidedAsked DEF RowsAsked, Asked

LEMMA TypeInvInit == Init => TypeInv
  BY DEF Init, TypeInv, TypeOK, RowsAsked, CallState, AnswerState, NoCall, NoAnswer

LEMMA TypeInvStep == TypeInv /\ [Next]_vars => TypeInv'
<1> SUFFICES ASSUME TypeInv, [Next]_vars PROVE TypeInv'
  OBVIOUS
<1>0. /\ TypeOK
      /\ call \in [Executions -> CallState'] /\ answer \in [Answerers -> AnswerState']
  BY StatesKept DEF TypeInv
<1>1. ASSUME SetMode \/ Tick \/ UNCHANGED vars PROVE TypeOK'
  BY <1>0, <1>1 DEF SetMode, Tick, vars, TypeOK
<1>2. ASSUME Restart PROVE TypeOK'
  <2>1. NoCall \in CallState' /\ NoAnswer \in AnswerState'
    BY DEF CallState, AnswerState
  <2> QED
    BY <1>0, <1>2, <2>1 DEF Restart, TypeOK
<1>3. TypeOK'
  BY <1>1, <1>2, TypeEvaluate, TypeResolve DEF Next
<1> QED
  BY <1>3, AskedKept DEF TypeInv

\* The rows, the grants, every evaluation and every answer keep their types.
THEOREM GateTypeCorrect == Spec => []TypeOK
<1>1. TypeInv => TypeOK
  BY DEF TypeInv
<1> QED
  BY <1>1, TypeInvInit, TypeInvStep, PTL DEF Spec

LEMMA GateInv == Spec => []TypeInv
  BY TypeInvInit, TypeInvStep, PTL DEF Spec

(***************************************************************************)
(* Allowances.  Every allow rule, every grant and every grant about to be  *)
(* added stands for something a person said; calls inherit it from them.   *)
(***************************************************************************)

SaidAlways(t, s) ==
  \E x \in said : x.grain = "always" /\ x.tool = t /\ x.shape = s

SaidSession(e, t) ==
  \E x \in said : x.grain = "session" /\ x.exec = e /\ x.tool = t

RulesSaid ==
  \A i \in DOMAIN rows :
    (rows[i].decision = "allow" /\ rows[i].grain = "always")
      => SaidAlways(rows[i].tool, rows[i].shape)

GrantsSaid == \A p \in grants : SaidSession(p[1], p[2])

ComingGrantSaid(a) ==
  SaidSession(rows[answer[a].row].exec, rows[answer[a].row].tool)

ComingGrantsSaid ==
  \A a \in Answerers : answer[a].at = "grant" => ComingGrantSaid(a)

CoverInv == RulesSaid /\ GrantsSaid /\ ComingGrantsSaid /\ AllowedIsCovered

\* A step other than a restart forgets nothing that was said.
LEMMA SaidKept ==
  ASSUME [Next]_vars, ~Restart PROVE said \subseteq said'
<1>1. ASSUME NEW e \in Executions, EvaluateStep(e) PROVE said' = said
  BY <1>1 DEF EvaluateStep, EvaluateSettled, EvaluateAsk, MarkExpired, MintRequest,
     EvaluateFails, CallReturns
<1>2. ASSUME NEW a \in Answerers, ResolveStep(a) PROVE said \subseteq said'
  BY <1>2 DEF ResolveStep, ReadRequest, StoreAnswer, AddGrant, WriteWildcard, AnswerFails
<1> QED
  BY <1>1, <1>2 DEF Next, SetMode, Tick, vars

\* What StoreAnswer adds to the history is what the person answered.
LEMMA StoredSaid ==
  ASSUME TypeInv, NEW a \in Answerers, StoreAnswer(a),
         answer[a].decision = "allow", answer[a].grain # "once"
  PROVE  [grain |-> answer[a].grain, exec |-> rows[answer[a].row].exec,
          tool |-> rows[answer[a].row].tool,
          shape |-> rows[answer[a].row].shape] \in said'
BY DEF StoreAnswer

LEMMA RulesStep == ASSUME TypeInv, CoverInv, [Next]_vars PROVE RulesSaid'
<1>0. TypeOK /\ RulesSaid /\ rows \in Seq(Row)
  BY DEF TypeInv, TypeOK, CoverInv
<1> SUFFICES ASSUME NEW i \in DOMAIN rows', rows'[i].decision = "allow",
                    rows'[i].grain = "always"
             PROVE  SaidAlways(rows[i].tool, rows[i].shape)'
  BY DEF RulesSaid
<1>1. CASE i \in DOMAIN rows /\ rows'[i] = rows[i] /\ ~Restart
  BY <1>0, <1>1, SaidKept DEF RulesSaid, SaidAlways
<1>2. CASE Restart
  BY <1>0, <1>2 DEF Restart, RulesSaid, SaidAlways
<1>3. ASSUME NEW e \in Executions, MarkExpired(e), ~Restart
      PROVE  SaidAlways(rows[i].tool, rows[i].shape)'
  <2>1. i \in DOMAIN rows /\ call[e].row \in DOMAIN rows /\ i # call[e].row
    BY <1>0, <1>3, CallFields, RowFields DEF MarkExpired, Row
  <2> QED
    BY <1>0, <1>1, <1>3, <2>1 DEF MarkExpired
<1>4. ASSUME NEW e \in Executions, MintRequest(e), ~Restart
      PROVE  SaidAlways(rows[i].tool, rows[i].shape)'
  BY <1>0, <1>1, <1>4 DEF MintRequest
<1>5. ASSUME NEW a \in Answerers, StoreAnswer(a), ~Restart
      PROVE  SaidAlways(rows[i].tool, rows[i].shape)'
  <2>1. answer[a].row \in DOMAIN rows
    BY <1>0, <1>5, AnswerFields DEF StoreAnswer
  <2>2. CASE i = answer[a].row
    <3>1. answer[a].decision = "allow" /\ answer[a].grain = "always"
      BY <1>0, <1>5, <2>1, <2>2, RowFields DEF StoreAnswer, Row
    <3>2. rows'[i].tool = rows[i].tool /\ rows'[i].shape = rows[i].shape
      BY <1>0, <1>5, <2>1, <2>2, RowsKept
    <3> QED
      BY <1>5, <2>2, <3>1, <3>2, StoredSaid DEF SaidAlways
  <2>3. CASE i # answer[a].row
    BY <1>0, <1>1, <1>5, <2>1, <2>3 DEF StoreAnswer
  <2> QED
    BY <2>2, <2>3
<1>6. ASSUME NEW a \in Answerers, WriteWildcard(a), ~Restart
      PROVE  SaidAlways(rows[i].tool, rows[i].shape)'
  BY <1>0, <1>1, <1>6 DEF WriteWildcard
<1>7. ASSUME NEW e \in Executions, ~Restart,
             EvaluateSettled(e) \/ EvaluateAsk(e) \/ EvaluateFails(e) \/ CallReturns(e)
      PROVE  SaidAlways(rows[i].tool, rows[i].shape)'
  BY <1>1, <1>7 DEF EvaluateSettled, EvaluateAsk, EvaluateFails, CallReturns
<1>8. ASSUME NEW a \in Answerers, ~Restart, ReadRequest(a) \/ AddGrant(a) \/ AnswerFails(a)
      PROVE  SaidAlways(rows[i].tool, rows[i].shape)'
  BY <1>1, <1>8 DEF ReadRequest, AddGrant, AnswerFails
<1>9. ASSUME SetMode \/ Tick \/ UNCHANGED vars, ~Restart
      PROVE  SaidAlways(rows[i].tool, rows[i].shape)'
  BY <1>1, <1>9 DEF SetMode, Tick, vars
<1> QED
  BY <1>2, <1>3, <1>4, <1>5, <1>6, <1>7, <1>8, <1>9 DEF Next, EvaluateStep, ResolveStep

LEMMA GrantsStep ==
  ASSUME TypeInv, CoverInv, [Next]_vars PROVE GrantsSaid' /\ ComingGrantsSaid'
<1>0. TypeOK /\ GrantsSaid /\ ComingGrantsSaid /\ RowsAsked
  BY DEF TypeInv, CoverInv
<1>1. CASE Restart
  BY <1>0, <1>1 DEF Restart, GrantsSaid, ComingGrantsSaid, NoAnswer
<1>2. CASE ~Restart
  <2>1. ASSUME NEW e \in Executions, NEW t \in Tools, SaidSession(e, t)
        PROVE  SaidSession(e, t)'
    BY <1>2, <2>1, SaidKept DEF SaidSession
  <2>2. ASSUME NEW a \in Answerers, answer'[a].at = "grant"
        PROVE  ComingGrantSaid(a)'
    <3>1. /\ answer[a].at # "idle" /\ answer'[a].row = answer[a].row
          /\ answer[a].row \in DOMAIN rows /\ Asked(answer[a].row)
      BY <1>0, <2>2, AnswerRow DEF RowsAsked
    <3>2. /\ rows'[answer'[a].row].exec = rows[answer[a].row].exec
          /\ rows'[answer'[a].row].tool = rows[answer[a].row].tool
      BY <1>0, <3>1, RowsKept
    <3>3. CASE answer[a].at = "grant"
      BY <1>0, <2>1, <3>1, <3>2, <3>3, RowFields DEF ComingGrantsSaid, ComingGrantSaid, Asked
    <3>4. CASE StoreAnswer(a)
      <4>1. answer[a].decision = "allow" /\ answer[a].grain = "session"
        BY <1>0, <2>2, <3>1, <3>4 DEF StoreAnswer, AfterStore, NoAnswer, TypeOK
      <4> QED
        BY <3>1, <3>2, <3>4, <4>1, StoredSaid DEF SaidSession, ComingGrantSaid
    <3>5. CASE answer'[a] = answer[a]
      BY <2>2, <3>3, <3>5
    <3>6. CASE ReadRequest(a) \/ AddGrant(a) \/ WriteWildcard(a) \/ AnswerFails(a)
      <4>1. answer \in [Answerers -> AnswerState]
        BY <1>0 DEF TypeOK
      <4>2. answer'[a].at # "grant"
        <5>1. CASE ReadRequest(a)
          <6>1. PICK i \in DOMAIN rows, d \in Verdicts, g \in Grains :
                  answer' = [answer EXCEPT ![a] =
                    [at |-> "store", row |-> i, decision |-> d, grain |-> g]]
            BY <5>1 DEF ReadRequest
          <6> QED
            BY <4>1, <6>1
        <5>2. CASE AddGrant(a)
          BY <4>1, <5>2 DEF AddGrant, NoAnswer
        <5>3. CASE WriteWildcard(a)
          BY <4>1, <5>3 DEF WriteWildcard, NoAnswer
        <5>4. CASE AnswerFails(a)
          BY <4>1, <5>4 DEF AnswerFails, NoAnswer
        <5> QED
          BY <3>6, <5>1, <5>2, <5>3, <5>4
      <4> QED
        BY <2>2, <4>2
    <3>7. ASSUME NEW b \in Answerers, b # a, ResolveStep(b) PROVE answer'[a] = answer[a]
      BY <1>0, <3>7 DEF ResolveStep, ReadRequest, StoreAnswer, AddGrant, WriteWildcard,
         AnswerFails, TypeOK
    <3>8. ASSUME NEW e \in Executions, EvaluateStep(e) PROVE answer'[a] = answer[a]
      BY <3>8 DEF EvaluateStep, EvaluateSettled, EvaluateAsk, MarkExpired, MintRequest,
         EvaluateFails, CallReturns
    <3> QED
      BY <1>2, <3>4, <3>5, <3>6, <3>7, <3>8 DEF Next, ResolveStep, SetMode, Tick, vars
  <2>3. GrantsSaid'
    <3>1. CASE grants' = grants
      BY <1>0, <2>1, <3>1 DEF GrantsSaid, TypeOK
    <3>2. ASSUME NEW a \in Answerers, AddGrant(a) PROVE GrantsSaid'
      <4>1. /\ answer[a].row \in DOMAIN rows /\ Asked(answer[a].row)
            /\ SaidSession(rows[answer[a].row].exec, rows[answer[a].row].tool)
        BY <1>0, <3>2, AnswerFields DEF AddGrant, ComingGrantsSaid,
           ComingGrantSaid, RowsAsked
      <4> QED
        BY <1>0, <2>1, <3>2, <4>1, RowFields DEF AddGrant, GrantsSaid, TypeOK, Asked
    <3>3. ASSUME NEW e \in Executions, EvaluateStep(e) PROVE grants' = grants
      BY <3>3 DEF EvaluateStep, EvaluateSettled, EvaluateAsk, MarkExpired, MintRequest,
         EvaluateFails, CallReturns
    <3>4. ASSUME NEW a \in Answerers,
                 ReadRequest(a) \/ StoreAnswer(a) \/ WriteWildcard(a) \/ AnswerFails(a)
          PROVE  grants' = grants
      BY <3>4 DEF ReadRequest, StoreAnswer, WriteWildcard, AnswerFails
    <3> QED
      BY <1>2, <3>1, <3>2, <3>3, <3>4 DEF Next, ResolveStep, SetMode, Tick, vars
  <2> QED
    BY <2>2, <2>3 DEF ComingGrantsSaid
<1> QED
  BY <1>1, <1>2

\* A call that is let through was covered when it was looked at, and stays so.
LEMMA CoveredStep == ASSUME TypeInv, CoverInv, [Next]_vars PROVE AllowedIsCovered'
<1>0. /\ TypeOK /\ GrantsSaid /\ RulesSaid /\ AllowedIsCovered
      /\ call \in [Executions -> CallState] /\ said \subseteq Statement
      /\ AnyShape \notin Shapes
  BY ConstantsAssumption DEF TypeInv, TypeOK, CoverInv
<1>1. CASE Restart
  BY <1>0, <1>1 DEF Restart, AllowedIsCovered, NoCall
<1>2. CASE ~Restart
  <2> SUFFICES ASSUME NEW e \in Executions, call'[e].at = "told",
                      call'[e].cause \in {"session_grant", "standing_allow"}
               PROVE  AllowedByPerson(e, call[e].tool, call[e].shape)'
    BY DEF AllowedIsCovered
  <2>1. said \subseteq said'
    BY <1>2, SaidKept
  <2>2. CASE call'[e] = call[e]
    BY <1>0, <2>1, <2>2 DEF AllowedIsCovered, AllowedByPerson
  <2>3. CASE EvaluateSettled(e)
    <3>1. PICK t \in Tools, s \in Shapes :
            call' = [call EXCEPT ![e] = Told(t, s, Cause(e, t, s))]
      BY <2>3 DEF EvaluateSettled
    <3>2. call'[e] = Told(t, s, Cause(e, t, s))
      BY <1>0, <3>1
    <3>3. /\ call'[e].tool = t /\ call'[e].shape = s
          /\ call'[e].cause = Cause(e, t, s)
      BY <3>2 DEF Told
    <3>4. CASE Cause(e, t, s) = "session_grant"
      <4>1. <<e, t>> \in grants
        BY <3>4 DEF Cause
      <4>2. SaidSession(e, t)
        BY <1>0, <4>1 DEF GrantsSaid
      <4> QED
        BY <2>1, <3>3, <4>2 DEF SaidSession, AllowedByPerson
    <3>5. CASE Cause(e, t, s) = "standing_allow"
      <4>1. StandingAllow(t, s)
        BY <3>5 DEF Cause
      <4>2. PICK i \in DOMAIN rows :
              rows[i].shape \in {s, AnyShape} /\ SaidAlways(t, rows[i].shape)
        BY <1>0, <4>1 DEF StandingAllow, RulesSaid
      <4>3. SaidAlways(t, s)
        BY <1>0, <4>2 DEF SaidAlways, Statement
      <4> QED
        BY <2>1, <3>3, <4>3 DEF SaidAlways, AllowedByPerson
    <3> QED
      BY <3>3, <3>4, <3>5
  <2>4. CASE \/ EvaluateAsk(e) \/ MarkExpired(e) \/ MintRequest(e) \/ EvaluateFails(e)
             \/ CallReturns(e)
    <3>1. CASE EvaluateAsk(e)
      BY <1>0, <3>1 DEF EvaluateAsk, Told
    <3>2. CASE MarkExpired(e) \/ MintRequest(e) \/ EvaluateFails(e) \/ CallReturns(e)
      BY <1>0, <3>2 DEF MarkExpired, MintRequest, EvaluateFails, CallReturns, Told, NoCall
    <3> QED
      BY <2>4, <3>1, <3>2
  <2>5. ASSUME NEW f \in Executions, f # e, EvaluateStep(f) PROVE call'[e] = call[e]
    BY <1>0, <2>5 DEF EvaluateStep, EvaluateSettled, EvaluateAsk, MarkExpired,
       MintRequest, EvaluateFails, CallReturns
  <2>6. ASSUME NEW a \in Answerers, ResolveStep(a) PROVE call'[e] = call[e]
    BY <2>6 DEF ResolveStep, ReadRequest, StoreAnswer, AddGrant, WriteWildcard,
       AnswerFails
  <2> QED
    BY <1>2, <2>2, <2>3, <2>4, <2>5, <2>6 DEF Next, EvaluateStep, SetMode, Tick, vars
<1> QED
  BY <1>1, <1>2

\* No call is ever let through on a person's word that no person gave: not by
\* two people answering at once, an expiry, a database error or a restart.
THEOREM AllowancesCovered == Spec => []AllowedIsCovered
<1>1. Init => CoverInv
  BY DEF Init, CoverInv, RulesSaid, GrantsSaid, ComingGrantsSaid, AllowedIsCovered,
     NoCall, NoAnswer
<1>2. TypeInv /\ CoverInv /\ [Next]_vars => CoverInv'
  BY RulesStep, GrantsStep, CoveredStep DEF CoverInv
<1>3. CoverInv => AllowedIsCovered
  BY DEF CoverInv
<1> QED
  BY <1>1, <1>2, <1>3, GateInv, PTL DEF Spec

(***************************************************************************)
(* Denials.  The row written for a tool-wide denial is of no call, so no   *)
(* answer and no expiry can ever touch it.                                 *)
(***************************************************************************)

Wildcard(i, t) ==
  /\ rows[i].tool = t /\ rows[i].shape = AnyShape
  /\ rows[i].decision = "deny" /\ rows[i].grain = "always"

BlockedInv == \A t \in blocked : \E i \in DOMAIN rows : Wildcard(i, t)

LEMMA WildcardKept ==
  ASSUME TypeInv, [Next]_vars, NEW i \in DOMAIN rows, NEW t \in Tools, Wildcard(i, t)
  PROVE  i \in DOMAIN rows' /\ Wildcard(i, t)'
<1>0. TypeOK /\ RowsAsked /\ i \in DOMAIN rows' /\ rows \in Seq(Row) /\ ~Asked(i)
  BY ConstantsAssumption, RowsKept DEF TypeInv, TypeOK, Asked, Wildcard
<1>1. CASE rows'[i] = rows[i]
  BY <1>0, <1>1 DEF Wildcard
<1>2. ASSUME NEW e \in Executions, EvaluateStep(e) PROVE rows'[i] = rows[i]
  <2>1. CASE MarkExpired(e)
    <3>1. call[e].row \in DOMAIN rows /\ Asked(call[e].row)
      BY <1>0, <2>1, CallFields DEF MarkExpired, RowsAsked, Asked
    <3> QED
      BY <1>0, <2>1, <3>1 DEF MarkExpired
  <2>2. CASE MintRequest(e)
    BY <1>0, <2>2 DEF MintRequest
  <2> QED
    BY <1>2, <2>1, <2>2 DEF EvaluateStep, EvaluateSettled, EvaluateAsk, EvaluateFails,
       CallReturns
<1>3. ASSUME NEW a \in Answerers, ResolveStep(a) PROVE rows'[i] = rows[i]
  <2>1. CASE StoreAnswer(a)
    <3>1. answer[a].row \in DOMAIN rows /\ Asked(answer[a].row)
      BY <1>0, <2>1, AnswerFields DEF StoreAnswer, RowsAsked
    <3> QED
      BY <1>0, <2>1, <3>1 DEF StoreAnswer
  <2>2. CASE WriteWildcard(a)
    BY <1>0, <2>2 DEF WriteWildcard
  <2> QED
    BY <1>3, <2>1, <2>2 DEF ResolveStep, ReadRequest, AddGrant, AnswerFails
<1> QED
  BY <1>1, <1>2, <1>3 DEF Next, SetMode, Restart, Tick, vars

LEMMA BlockedStep == ASSUME TypeInv, BlockedInv, [Next]_vars PROVE BlockedInv'
<1>0. TypeOK /\ blocked \subseteq Tools /\ rows \in Seq(Row)
  BY DEF TypeInv, TypeOK
<1>1. ASSUME NEW t \in blocked PROVE \E i \in DOMAIN rows' : Wildcard(i, t)'
  <2>1. PICK i \in DOMAIN rows : Wildcard(i, t)
    BY DEF BlockedInv
  <2> QED
    BY <1>0, <2>1, WildcardKept
<1>2. CASE blocked' = blocked
  BY <1>1, <1>2 DEF BlockedInv
<1>3. ASSUME NEW a \in Answerers, WriteWildcard(a) PROVE BlockedInv'
  <2>2. blocked' = blocked \cup {rows[answer[a].row].tool}
    BY <1>3 DEF WriteWildcard
  <2>3. ASSUME NEW t \in blocked' PROVE \E i \in DOMAIN rows' : Wildcard(i, t)'
    <3>1. CASE t \in blocked
      BY <1>1, <3>1
    <3>2. CASE t = rows[answer[a].row].tool
      BY <1>0, <1>3, <3>2 DEF WriteWildcard, Wildcard
    <3> QED
      BY <2>2, <3>1, <3>2
  <2> QED
    BY <2>3 DEF BlockedInv
<1>4. ASSUME NEW e \in Executions, EvaluateStep(e) PROVE blocked' = blocked
  BY <1>4 DEF EvaluateStep, EvaluateSettled, EvaluateAsk, MarkExpired, MintRequest,
     EvaluateFails, CallReturns
<1>5. ASSUME NEW a \in Answerers,
             ReadRequest(a) \/ StoreAnswer(a) \/ AddGrant(a) \/ AnswerFails(a)
      PROVE  blocked' = blocked
  BY <1>5 DEF ReadRequest, StoreAnswer, AddGrant, AnswerFails
<1> QED
  BY <1>2, <1>3, <1>4, <1>5 DEF Next, ResolveStep, SetMode, Restart, Tick, vars

\* What a step can newly tell an execution: the chain's answer to a call, or
\* that the call waits for a person.
LEMMA NewlyTold ==
  ASSUME TypeInv, [Next]_vars, NEW e \in Executions,
         call[e].at # "told", call'[e].at = "told"
  PROVE  \/ /\ call'[e].cause = "pending"
            /\ EvaluateAsk(e) \/ MintRequest(e)
         \/ /\ call'[e].tool \in Tools /\ call'[e].shape \in Shapes
            /\ call'[e].cause = Cause(e, call'[e].tool, call'[e].shape)
            /\ call'[e].cause # "pending"
<1>0. call \in [Executions -> CallState]
  BY DEF TypeInv, TypeOK
<1>1. CASE EvaluateSettled(e)
  <2>1. PICK t \in Tools, s \in Shapes :
          call' = [call EXCEPT ![e] = Told(t, s, Cause(e, t, s))]
    BY <1>1 DEF EvaluateSettled
  <2>2. call'[e] = Told(t, s, Cause(e, t, s)) /\ Cause(e, t, s) # "pending"
    BY <1>0, <2>1 DEF Cause
  <2> QED
    BY <2>2 DEF Told
<1>2. CASE EvaluateAsk(e)
  BY <1>0, <1>2 DEF EvaluateAsk, Told
<1>3. CASE MintRequest(e)
  BY <1>0, <1>3 DEF MintRequest, Told
<1>4. CASE MarkExpired(e) \/ EvaluateFails(e) \/ CallReturns(e) \/ Restart
  BY <1>0, <1>4 DEF MarkExpired, EvaluateFails, CallReturns, Restart, NoCall
<1>5. ASSUME NEW f \in Executions, f # e, EvaluateStep(f) PROVE call'[e] = call[e]
  BY <1>0, <1>5 DEF EvaluateStep, EvaluateSettled, EvaluateAsk, MarkExpired,
     MintRequest, EvaluateFails, CallReturns
<1>6. ASSUME NEW a \in Answerers, ResolveStep(a) PROVE call'[e] = call[e]
  BY <1>6 DEF ResolveStep, ReadRequest, StoreAnswer, AddGrant, WriteWildcard,
     AnswerFails
<1> QED
  BY <1>1, <1>2, <1>3, <1>4, <1>5, <1>6 DEF Next, EvaluateStep, SetMode, Tick, vars

\* A tool denied as a whole is never again let through by mode auto, by the
\* read-only list or by an allow rule, whoever answers what, fails or restarts.
THEOREM DenialStays == Spec => DeniedToolStays
<1>1. Init => BlockedInv
  BY DEF Init, BlockedInv
<1>2. TypeInv /\ BlockedInv /\ [Next]_vars => BlockedInv'
  BY BlockedStep
<1>3. TypeInv /\ BlockedInv /\ [Next]_vars =>
        [\A e \in Executions :
           ToldNow(e, {"mode_auto", "safe_readonly", "standing_allow"})
             => call'[e].tool \notin blocked]_vars
  <2> SUFFICES ASSUME TypeInv, BlockedInv, [Next]_vars, NEW e \in Executions,
                      ToldNow(e, {"mode_auto", "safe_readonly", "standing_allow"})
               PROVE  call'[e].tool \notin blocked
    OBVIOUS
  <2>1. call'[e].cause = Cause(e, call'[e].tool, call'[e].shape)
    BY NewlyTold DEF ToldNow
  <2>2. ~DenyRule(call'[e].tool, call'[e].shape)
    BY <2>1 DEF Cause, ToldNow
  <2> QED
    BY <2>2 DEF DenyRule, BlockedInv, Wildcard
<1> QED
  BY <1>1, <1>2, <1>3, GateInv, PTL DEF Spec, DeniedToolStays

(***************************************************************************)
(* Questions.  Where the server's local time is not ahead of UTC, a        *)
(* request is only taken for expired when its TTL has passed; where it is  *)
(* not behind UTC, a request it takes for fresh is within its TTL.         *)
(***************************************************************************)

Old(i) == now - rows[i].created >= Ttl

AskInv ==
  /\ AskedOnce
  /\ \A e \in Executions :
       call[e].at \in {"expire", "mint"} =>
         \A i \in Waiting(e, call[e].tool, call[e].shape) : Old(i)
  /\ \A e \in Executions : call[e].at = "expire" => Old(call[e].row)

\* How a row can come to be waiting.
LEMMA WaitingFrom ==
  ASSUME TypeInv, [Next]_vars, NEW i \in DOMAIN rows',
         rows'[i].decision = "undecided"
  PROVE  \/ i \in DOMAIN rows /\ rows[i].decision = "undecided"
         \/ \E e \in Executions : MarkExpired(e) /\ i = call[e].row
         \/ \E e \in Executions : MintRequest(e) /\ i = Len(rows) + 1
<1>0. TypeOK /\ rows \in Seq(Row)
  BY DEF TypeInv, TypeOK
<1>1. ASSUME NEW e \in Executions, MarkExpired(e), i # call[e].row
      PROVE  i \in DOMAIN rows /\ rows[i].decision = "undecided"
  BY <1>0, <1>1, CallFields DEF MarkExpired
<1>2. ASSUME NEW e \in Executions, MintRequest(e), i # Len(rows) + 1
      PROVE  i \in DOMAIN rows /\ rows[i].decision = "undecided"
  BY <1>0, <1>2 DEF MintRequest
<1>3. ASSUME NEW a \in Answerers, StoreAnswer(a)
      PROVE  i \in DOMAIN rows /\ rows[i].decision = "undecided"
  <2>1. answer[a].row \in DOMAIN rows /\ answer[a].decision # "undecided"
    BY <1>0, <1>3, AnswerFields DEF StoreAnswer, Verdicts
  <2>2. i # answer[a].row
    BY <1>0, <1>3, <2>1, RowFields DEF StoreAnswer, Row
  <2> QED
    BY <1>0, <1>3, <2>1, <2>2 DEF StoreAnswer
<1>4. ASSUME NEW a \in Answerers, WriteWildcard(a)
      PROVE  i \in DOMAIN rows /\ rows[i].decision = "undecided"
  BY <1>0, <1>4 DEF WriteWildcard
<1> QED
  BY <1>1, <1>2, <1>3, <1>4 DEF Next, EvaluateStep, ResolveStep, EvaluateSettled,
     EvaluateAsk, EvaluateFails, CallReturns, ReadRequest, AddGrant, AnswerFails,
     SetMode, Restart, Tick, vars

\* A call about to ask was about to ask before, or has just found it must.
LEMMA CallFrom ==
  ASSUME TypeInv, [Next]_vars, NEW e \in Executions,
         call'[e].at \in {"expire", "mint"}
  PROVE  \/ /\ call[e].at \in {"expire", "mint"} /\ call'[e].tool = call[e].tool
            /\ call'[e].shape = call[e].shape /\ ~MintRequest(e)
         \/ EvaluateAsk(e)
<1>0. TypeOK /\ call \in [Executions -> CallState]
  BY DEF TypeInv, TypeOK
<1>1. CASE EvaluateSettled(e) \/ MintRequest(e) \/ EvaluateFails(e) \/ CallReturns(e) \/ Restart
  BY <1>0, <1>1 DEF EvaluateSettled, MintRequest, EvaluateFails, CallReturns, Restart,
     Told, NoCall
<1>2. CASE MarkExpired(e)
  BY <1>0, <1>2, CallFields DEF MarkExpired, MintRequest
<1>3. CASE call'[e] = call[e]
  <2>1. ~MintRequest(e)
    BY <1>0, <1>3 DEF MintRequest, Told
  <2> QED
    BY <1>3, <2>1
<1>4. ASSUME NEW f \in Executions, f # e, EvaluateStep(f) PROVE call'[e] = call[e]
  BY <1>0, <1>4 DEF EvaluateStep, EvaluateSettled, EvaluateAsk, MarkExpired,
     MintRequest, EvaluateFails, CallReturns
<1>5. ASSUME NEW a \in Answerers, ResolveStep(a) PROVE call'[e] = call[e]
  BY <1>5 DEF ResolveStep, ReadRequest, StoreAnswer, AddGrant, WriteWildcard,
     AnswerFails
<1> QED
  BY <1>1, <1>2, <1>3, <1>4, <1>5 DEF Next, EvaluateStep, SetMode, Tick, vars

\* Rows only grow older.
LEMMA OldKept ==
  ASSUME TypeInv, [Next]_vars, NEW i \in DOMAIN rows, Old(i) PROVE Old(i)'
<1>1. /\ now \in Nat /\ rows[i].created \in Nat /\ rows'[i].created = rows[i].created
      /\ Ttl \in Nat
  BY RowFields, RowsKept, ConstantsAssumption DEF TypeInv, TypeOK
<1>2. now' = now \/ now' = now + 1
  BY DEF Next, EvaluateStep, ResolveStep, EvaluateSettled, EvaluateAsk, MarkExpired,
     MintRequest, EvaluateFails, CallReturns, ReadRequest, StoreAnswer, AddGrant,
     WriteWildcard, AnswerFails, SetMode, Restart, Tick, vars
<1> QED
  BY <1>1, <1>2 DEF Old

\* A request that is not fresh was asked a TTL ago, and so were the older ones.
LEMMA NotFreshOld ==
  ASSUME TypeInv, ZoneShift <= 0, NEW e \in Executions, NEW t \in Tools, NEW s \in Shapes,
         NEW i \in Newest(Waiting(e, t, s)), ~Fresh(i)
  PROVE  Old(i) /\ \A j \in Waiting(e, t, s) : Old(j)
<1>1. /\ i \in DOMAIN rows /\ Waiting(e, t, s) \subseteq DOMAIN rows
      /\ \A j \in Waiting(e, t, s) : rows[j].created <= rows[i].created
  BY DEF Newest, Waiting
<1>2. /\ now \in Nat /\ \A j \in DOMAIN rows : rows[j].created \in Nat
      /\ Ttl \in Nat /\ ZoneShift \in Int
  BY RowFields, ConstantsAssumption DEF TypeInv, TypeOK
<1>3. Old(i)
  BY <1>1, <1>2 DEF Fresh, AgeAsComputed, Old
<1> QED
  BY <1>1, <1>2, <1>3 DEF Old

LEMMA AskStep ==
  ASSUME TypeInv, AskInv, [Next]_vars, ZoneShift <= 0 PROVE AskInv'
<1>0. TypeOK /\ RowsAsked /\ rows \in Seq(Row) /\ call \in [Executions -> CallState]
  BY DEF TypeInv, TypeOK
<1>1. ASSUME NEW e \in Executions, call'[e].at \in {"expire", "mint"},
             NEW i \in Waiting(e, call[e].tool, call[e].shape)'
      PROVE  Old(i)'
  <2>1. /\ i \in DOMAIN rows' /\ rows'[i].decision = "undecided"
        /\ rows'[i].exec = e /\ rows'[i].tool = call'[e].tool
        /\ rows'[i].shape = call'[e].shape
    BY <1>1 DEF Waiting
  <2>2. CASE EvaluateAsk(e)
    <3>1. UNCHANGED <<rows, now>>
      BY <2>2 DEF EvaluateAsk
    <3>2. PICK t \in Tools, s \in Shapes :
            /\ call'[e].tool = t /\ call'[e].shape = s
            /\ \/ \E k \in Newest(Waiting(e, t, s)) : ~Fresh(k)
               \/ Waiting(e, t, s) = {}
      BY <1>0, <1>1, <2>2 DEF EvaluateAsk, Told
    <3>3. i \in Waiting(e, t, s)
      BY <2>1, <3>1, <3>2 DEF Waiting
    <3>4. Old(i)
      BY <3>2, <3>3, NotFreshOld
    <3> QED
      BY <3>1, <3>4 DEF Old
  <2>3. CASE /\ call[e].at \in {"expire", "mint"} /\ call'[e].tool = call[e].tool
             /\ call'[e].shape = call[e].shape /\ ~MintRequest(e)
    <3>1. CASE i \in DOMAIN rows /\ rows[i].decision = "undecided"
      <4>1. i \in Waiting(e, call[e].tool, call[e].shape)
        BY <1>0, <2>1, <2>3, <3>1, RowsKept DEF Waiting
      <4> QED
        BY <2>3, <3>1, <4>1, OldKept DEF AskInv
    <3>2. ASSUME NEW f \in Executions, MarkExpired(f), i = call[f].row PROVE Old(i)'
      BY <1>0, <3>2, CallFields, OldKept DEF AskInv, MarkExpired
    <3>3. ASSUME NEW f \in Executions, MintRequest(f), i = Len(rows) + 1 PROVE Old(i)'
      <4>1. rows'[i].exec = f
        BY <1>0, <3>3 DEF MintRequest
      <4> QED
        BY <2>1, <2>3, <3>3, <4>1
    <3> QED
      BY <2>1, <3>1, <3>2, <3>3, WaitingFrom
  <2> QED
    BY <1>1, <2>2, <2>3, CallFrom
<1>2. ASSUME NEW e \in Executions, call'[e].at = "expire"
      PROVE  now' - rows'[call'[e].row].created >= Ttl
  <2>1. call'[e].row \in DOMAIN rows
    BY <1>2, ExpireRow
  <2>2. CASE call'[e] = call[e]
    BY <1>2, <2>1, <2>2, OldKept DEF AskInv, Old
  <2>3. CASE /\ call'[e].row \in Newest(Waiting(e, call'[e].tool, call'[e].shape))
             /\ ~Fresh(call'[e].row)
             /\ UNCHANGED <<rows, now>>
    <3>1. CASE call'[e].tool \in Tools /\ call'[e].shape \in Shapes
      BY <2>3, <3>1, NotFreshOld DEF Old
    <3> QED
      BY <1>2, <3>1, TypeInvStep, CallFields DEF TypeInv, TypeOK, CallState, NoCall
  <2> QED
    BY <1>2, <2>2, <2>3, ExpireRow
<1>3. ASSUME NEW i \in DOMAIN rows', NEW j \in DOMAIN rows', i < j,
             rows'[i].decision = "undecided", rows'[j].decision = "undecided",
             rows'[i].exec = rows'[j].exec, rows'[i].tool = rows'[j].tool,
             rows'[i].shape = rows'[j].shape
      PROVE  now' - rows'[i].created >= Ttl
  <2>1. ASSUME NEW e \in Executions, MarkExpired(e), i = call[e].row
        PROVE  Old(i)'
    BY <1>0, <2>1, CallFields, OldKept DEF AskInv, MarkExpired
  <2>2. ASSUME NEW e \in Executions, MintRequest(e), i = Len(rows) + 1 PROVE FALSE
    BY <1>0, <1>3, <2>2 DEF MintRequest
  <2>3. CASE i \in DOMAIN rows /\ rows[i].decision = "undecided"
    <3>1. CASE j \in DOMAIN rows /\ rows[j].decision = "undecided"
      <4>1. Old(i)
        BY <1>0, <1>3, <2>3, <3>1, RowsKept DEF AskInv, AskedOnce, Old
      <4> QED
        BY <2>3, <4>1, OldKept DEF Old
    <3>2. ASSUME NEW e \in Executions, MarkExpired(e), j = call[e].row PROVE Old(i)'
      <4>1. /\ j \in DOMAIN rows /\ rows[j].exec = e
            /\ rows[j].tool = call[e].tool /\ rows[j].shape = call[e].shape
        BY <1>0, <3>2, CallFields DEF MarkExpired, RowsAsked
      <4>2. i \in Waiting(e, call[e].tool, call[e].shape)
        BY <1>0, <1>3, <2>3, <4>1, RowsKept DEF Waiting
      <4> QED
        BY <2>3, <3>2, <4>2, OldKept DEF AskInv, MarkExpired
    <3>3. ASSUME NEW e \in Executions, MintRequest(e), j = Len(rows) + 1 PROVE Old(i)'
      <4>1. /\ rows'[j].exec = e /\ rows'[j].tool = call[e].tool
            /\ rows'[j].shape = call[e].shape
        BY <1>0, <3>3 DEF MintRequest
      <4>2. i \in Waiting(e, call[e].tool, call[e].shape)
        BY <1>0, <1>3, <2>3, <4>1, RowsKept DEF Waiting
      <4> QED
        BY <2>3, <3>3, <4>2, OldKept DEF AskInv, MintRequest
    <3>4. Old(i)'
      BY <1>3, <3>1, <3>2, <3>3, WaitingFrom DEF Old
    <3> QED
      BY <3>4 DEF Old
  <2>4. Old(i)'
    BY <1>3, <2>1, <2>2, <2>3, WaitingFrom DEF Old
  <2> QED
    BY <2>4 DEF Old
<1> QED
  BY <1>1, <1>2, <1>3 DEF AskInv, AskedOnce, Old

\* On a server whose local time is UTC or behind it, one call of one execution
\* is never put to people twice within the TTL.
THEOREM QuestionAskedOnce == ZoneShift <= 0 => (Spec => []AskedOnce)
<1> SUFFICES ASSUME ZoneShift <= 0 PROVE Spec => []AskedOnce
  OBVIOUS
<1>1. Init => AskInv
  BY DEF Init, AskInv, AskedOnce, NoCall
<1>2. TypeInv /\ AskInv /\ [Next]_vars => AskInv'
  BY AskStep
<1>3. AskInv => AskedOnce
  BY DEF AskInv
<1> QED
  BY <1>1, <1>2, <1>3, GateInv, PTL DEF Spec

\* On a server whose local time is UTC or ahead of it, a call told to wait
\* waits for a request put to people within the TTL.
THEOREM PendingLive == ZoneShift >= 0 => (Spec => PendingIsLive)
<1> SUFFICES ASSUME ZoneShift >= 0 PROVE Spec => PendingIsLive
  OBVIOUS
<1>1. TypeInv /\ [Next]_vars =>
        [\A e \in Executions :
           ToldNow(e, {"pending"}) =>
             \E i \in DOMAIN rows' :
               /\ rows'[i].exec = e /\ rows'[i].tool = call'[e].tool
               /\ rows'[i].shape = call'[e].shape
               /\ rows'[i].decision = "undecided"
               /\ now - rows'[i].created < Ttl]_vars
  <2> SUFFICES ASSUME TypeInv, [Next]_vars, NEW e \in Executions, ToldNow(e, {"pending"})
               PROVE  \E i \in DOMAIN rows' :
                        /\ rows'[i].exec = e /\ rows'[i].tool = call'[e].tool
                        /\ rows'[i].shape = call'[e].shape
                        /\ rows'[i].decision = "undecided"
                        /\ now - rows'[i].created < Ttl
    OBVIOUS
  <2>0. /\ TypeOK /\ call \in [Executions -> CallState] /\ rows \in Seq(Row) /\ now \in Nat
        /\ \A i \in DOMAIN rows : rows[i].created \in Nat
        /\ Ttl \in Nat /\ Ttl > 0 /\ ZoneShift \in Int
    BY RowFields, ConstantsAssumption DEF TypeInv, TypeOK
  <2>1. CASE EvaluateAsk(e)
    <3>1. UNCHANGED rows
      BY <2>1 DEF EvaluateAsk
    <3>2. PICK t \in Tools, s \in Shapes :
            /\ call'[e].tool = t /\ call'[e].shape = s
            /\ \E i \in Newest(Waiting(e, t, s)) : Fresh(i)
      BY <2>0, <2>1 DEF EvaluateAsk, Told, ToldNow
    <3>3. PICK i \in Waiting(e, t, s) : Fresh(i)
      BY <3>2 DEF Newest
    <3>4. i \in DOMAIN rows /\ now - rows[i].created < Ttl
      BY <2>0, <3>3 DEF Newest, Waiting, Fresh, AgeAsComputed
    <3> QED
      BY <3>1, <3>2, <3>3, <3>4 DEF Waiting
  <2>2. CASE MintRequest(e)
    <3>1. /\ Len(rows) + 1 \in DOMAIN rows'
          /\ rows'[Len(rows) + 1] = [exec |-> e, tool |-> call[e].tool,
               shape |-> call[e].shape, grain |-> "once",
               decision |-> "undecided", created |-> now]
          /\ call'[e].tool = call[e].tool /\ call'[e].shape = call[e].shape
      BY <2>0, <2>2 DEF MintRequest, Told
    <3> QED
      BY <2>0, <3>1
  <2> QED
    BY <2>1, <2>2, NewlyTold DEF ToldNow
<1> QED
  BY <1>1, GateInv, PTL DEF Spec, PendingIsLive

(***************************************************************************)
(* Buttons.  A token that is used belongs to an answered request because a *)
(* press that spends one found its request decided, or stored the answer.  *)
(***************************************************************************)
CardsSpec == CardsInit /\ [][CardsNext]_<<vars, cardVars>>

Buttons == DOMAIN Meaning
PressPlaces == {"none", "token", "request", "resolving", "storing", "spending"}
Tokens == [Buttons -> {"absent", "live", "used"}]
Presses == [pc : PressPlaces, row : Nat, act : Buttons]

CardsTyped ==
  /\ token \in [1 .. MaxRows -> Tokens] /\ Len(rows) <= MaxRows
  /\ card \subseteq DOMAIN rows
  /\ sender \in [Executions -> [row : Nat, minted : 0 .. Len(Actions)]]
  /\ press \in [Answerers -> Presses]

\* Requests the chat knows come from evaluations.
FromCalls ==
  /\ \A i \in card : rows[i].exec # NoExec
  /\ \A e \in Executions : sender[e].row # 0 =>
       sender[e].row \in DOMAIN rows /\ rows[sender[e].row].exec # NoExec

\* What is decided and is not a tool-wide denial was answered.
DecidedIsAnswered ==
  \A i \in DOMAIN rows : rows[i].exec # NoExec /\ rows[i].decision # "undecided" => i \in answered

\* The buttons of a card, and those minted so far for the next one.
Minted ==
  /\ \A i \in card, k \in Buttons : token[i][k] # "absent"
  /\ \A e \in Executions : sender[e].row # 0 =>
       \A n \in 1 .. sender[e].minted : token[sender[e].row][Actions[n]] # "absent"

\* The notifier runs inside the evaluation that minted the request.
Sending(e) == IF sender[e].row = 0 THEN sender[e].minted = 0 ELSE call[e].at = "told"

Spent == \A i \in 1 .. MaxRows, k \in Buttons : token[i][k] = "used" => i \in answered

Pressing(a) ==
  /\ press[a].pc # "none" => press[a].row \in card
  /\ press[a].pc = "spending" => press[a].row \in answered
  /\ press[a].pc = "storing" => /\ answer[a].at # "idle" /\ answer[a].row = press[a].row
                                /\ answer[a].at # "store" => press[a].row \in answered

ButtonInv ==
  /\ TypeInv /\ CardsTyped /\ FromCalls /\ DecidedIsAnswered /\ Minted /\ Spent
  /\ \A a \in Answerers : Pressing(a)
  /\ \A e \in Executions : Sending(e)

LEMMA CardsStepGate == ASSUME CardsNext PROVE [Next]_vars
<1>1. ASSUME NEW e \in Executions, MintAndNotify(e) \/ MintToken(e) \/ SendCard(e) \/ CardFails(e) \/ Evaluates(e)
      PROVE  [Next]_vars
  BY <1>1 DEF MintAndNotify, MintToken, SendCard, CardFails, Evaluates, EvaluateStep, Next
<1>2. ASSUME NEW a \in Answerers, \/ Press(a) \/ ReadToken(a) \/ ReadsRequest(a) \/ Resolves(a) \/ Stores(a)
                                  \/ StoreFails(a) \/ Spend(a) \/ OverHttp(a)
      PROVE  [Next]_vars
  BY <1>2 DEF Press, ReadToken, ReadsRequest, Resolves, Stores, StoreFails, Spend, OverHttp, ResolveStep, Next
<1>3. CASE Dies \/ Elsewhere
  BY <1>3 DEF Dies, Elsewhere, Next
<1> QED
  BY <1>1, <1>2, <1>3 DEF CardsNext

\* What any step of the gate does to the rows the chat holds on to.
LEMMA RowsGrow ==
  ASSUME TypeInv, Len(rows) <= MaxRows, [Next]_vars
  PROVE  /\ TypeInv' /\ Len(rows') <= MaxRows /\ DOMAIN rows \subseteq DOMAIN rows'
         /\ DOMAIN rows = 1 .. Len(rows) /\ DOMAIN rows' = 1 .. Len(rows')
         /\ \A i \in DOMAIN rows : rows'[i].exec = rows[i].exec
<1>0. TypeOK /\ rows \in Seq(Row) /\ TypeInv' /\ rows' \in Seq(Row)
  <2>1. TypeInv'
    BY TypeInvStep
  <2> QED
    BY <2>1 DEF TypeInv, TypeOK
<1>1. Len(rows') <= MaxRows
  <2>1. ASSUME NEW r, rows' = Append(rows, r), Len(rows) < MaxRows PROVE Len(rows') <= MaxRows
    BY <1>0, <2>1, ConstantsAssumption
  <2>2. ASSUME NEW e \in Executions, EvaluateStep(e) PROVE Len(rows') <= MaxRows
    <3>1. CASE MintRequest(e)
      BY <2>1, <3>1 DEF MintRequest
    <3>2. CASE MarkExpired(e)
      BY <1>0, <3>2 DEF MarkExpired
    <3> QED
      BY <2>2, <3>1, <3>2 DEF EvaluateStep, EvaluateSettled, EvaluateAsk, EvaluateFails, CallReturns
  <2>3. ASSUME NEW a \in Answerers, ResolveStep(a) PROVE Len(rows') <= MaxRows
    <3>1. CASE WriteWildcard(a)
      BY <2>1, <3>1 DEF WriteWildcard
    <3>2. CASE StoreAnswer(a)
      BY <1>0, <3>2 DEF StoreAnswer
    <3> QED
      BY <2>3, <3>1, <3>2 DEF ResolveStep, ReadRequest, AddGrant, AnswerFails
  <2> QED
    BY <2>2, <2>3 DEF Next, SetMode, Restart, Tick, vars
<1>2. DOMAIN rows = 1 .. Len(rows) /\ DOMAIN rows' = 1 .. Len(rows')
  BY <1>0
<1> QED
  BY <1>0, <1>1, <1>2, RowsKept

\* Only an answer that is stored decides a request.
DecidedRows == {i \in DOMAIN rows : rows[i].exec # NoExec /\ rows[i].decision # "undecided"}

LEMMA EvaluationsDecideNothing ==
  ASSUME TypeInv, NEW e \in Executions, EvaluateStep(e)
  PROVE  DecidedRows' \subseteq DecidedRows
<1>0. rows \in Seq(Row) /\ \A i \in DOMAIN rows : rows[i] \in Row
  BY DEF TypeInv, TypeOK
<1>1. CASE MarkExpired(e)
  BY <1>0, <1>1 DEF MarkExpired, DecidedRows, Row
<1>2. CASE MintRequest(e)
  BY <1>0, <1>2 DEF MintRequest, DecidedRows
<1> QED
  BY <1>1, <1>2 DEF EvaluateStep, EvaluateSettled, EvaluateAsk, EvaluateFails, CallReturns, DecidedRows

LEMMA AnswersDecideTheirs ==
  ASSUME TypeInv, NEW a \in Answerers, ResolveStep(a)
  PROVE  \/ DecidedRows' \subseteq DecidedRows
         \/ /\ StoreAnswer(a) /\ answer[a].at = "store" /\ rows' # rows
            /\ DecidedRows' \subseteq DecidedRows \cup {answer[a].row}
<1>0. rows \in Seq(Row) /\ \A i \in DOMAIN rows : rows[i] \in Row
  BY DEF TypeInv, TypeOK
<1>1. CASE rows' = rows
  BY <1>1 DEF DecidedRows
<1>2. CASE StoreAnswer(a) /\ rows' # rows
  BY <1>0, <1>2 DEF StoreAnswer, DecidedRows, Row
<1>3. CASE WriteWildcard(a)
  BY <1>0, <1>3 DEF WriteWildcard, DecidedRows
<1> QED
  BY <1>1, <1>2, <1>3 DEF ResolveStep, ReadRequest, AddGrant, AnswerFails

LEMMA DecidedMeans == DecidedIsAnswered <=> DecidedRows \subseteq answered
  BY DEF DecidedIsAnswered, DecidedRows

\* A step of the gate that leaves buttons, cards and senders as they are.
LEMMA ButtonsStay ==
  ASSUME ButtonInv, [Next]_vars, UNCHANGED <<token, card, sender>>, answered \subseteq answered'
  PROVE  TypeInv' /\ (press' \in [Answerers -> Presses] => CardsTyped') /\ FromCalls' /\ Minted' /\ Spent'
<1>0. TypeInv /\ CardsTyped /\ FromCalls /\ Minted /\ Spent
  BY DEF ButtonInv
<1>1. /\ TypeInv' /\ Len(rows') <= MaxRows /\ DOMAIN rows \subseteq DOMAIN rows'
      /\ \A i \in DOMAIN rows : rows'[i].exec = rows[i].exec
  BY <1>0, RowsGrow DEF CardsTyped
<1>2. press' \in [Answerers -> Presses] => CardsTyped'
  BY <1>0, <1>1 DEF CardsTyped
<1>3. FromCalls'
  BY <1>0, <1>1 DEF FromCalls, CardsTyped
<1>4. Minted' /\ Spent'
  BY <1>0 DEF Minted, Spent
<1> QED
  BY <1>1, <1>2, <1>3, <1>4

LEMMA PressGoesOn ==
  ASSUME NEW a \in Answerers, Pressing(a), press'[a] = press[a], answer'[a] = answer[a] \/ press[a].pc # "storing",
         card \subseteq card', answered \subseteq answered'
  PROVE  Pressing(a)'
  BY DEF Pressing

\* Steps that are no press: an evaluation goes on, the mode changes, time passes.
LEMMA StepsBesides ==
  ASSUME ButtonInv, (\E e \in Executions : Evaluates(e)) \/ Elsewhere
  PROVE  ButtonInv'
<1>0. TypeInv /\ DecidedIsAnswered /\ press \in [Answerers -> Presses] /\ [Next]_vars
  BY CardsStepGate DEF ButtonInv, CardsTyped, CardsNext
<1>1. UNCHANGED cardVars /\ UNCHANGED answer
  BY DEF Evaluates, Elsewhere, SetMode, Tick, EvaluateStep, EvaluateSettled, EvaluateAsk, MarkExpired, MintRequest,
         EvaluateFails, CallReturns
<1>2. DecidedRows' \subseteq DecidedRows
  <2>1. ASSUME NEW e \in Executions, Evaluates(e) PROVE DecidedRows' \subseteq DecidedRows
    BY <1>0, <2>1, EvaluationsDecideNothing DEF Evaluates
  <2>2. CASE Elsewhere
    BY <2>2 DEF Elsewhere, SetMode, Tick, DecidedRows
  <2> QED
    BY <2>1, <2>2
<1>3. DecidedIsAnswered'
  BY <1>0, <1>1, <1>2 DEF cardVars, DecidedIsAnswered, DecidedRows
<1>4. TypeInv' /\ CardsTyped' /\ FromCalls' /\ Minted' /\ Spent'
  BY <1>0, <1>1, ButtonsStay DEF cardVars
<1>5. \A a \in Answerers : Pressing(a)'
  BY <1>1 DEF ButtonInv, Pressing, cardVars
<1>6. ASSUME NEW e \in Executions PROVE Sending(e)'
  <2>0. call \in [Executions -> CallState] /\ Sending(e) /\ sender' = sender
    BY <1>0, <1>1 DEF TypeInv, TypeOK, ButtonInv, cardVars
  <2>1. CASE Elsewhere
    BY <2>0, <2>1 DEF Elsewhere, SetMode, Tick, Sending
  <2>2. ASSUME NEW f \in Executions, Evaluates(f) PROVE Sending(e)'
    <3>1. f # e => call'[e] = call[e]
      BY <2>0, <2>2 DEF Evaluates, EvaluateStep, EvaluateSettled, EvaluateAsk, MarkExpired, MintRequest, EvaluateFails, CallReturns
    <3> QED
      BY <2>0, <2>2, <3>1 DEF Evaluates, Sending
  <2> QED
    BY <2>1, <2>2
<1> QED
  BY <1>3, <1>4, <1>5, <1>6 DEF ButtonInv

\* Sending a card.
LEMMA SenderSteps ==
  ASSUME ButtonInv, NEW e \in Executions, MintAndNotify(e) \/ MintToken(e) \/ SendCard(e) \/ CardFails(e)
  PROVE  ButtonInv'
<1> DEFINE s == sender[e]
<1>0. /\ TypeInv /\ CardsTyped /\ FromCalls /\ DecidedIsAnswered /\ Minted /\ Spent /\ \A a \in Answerers : Pressing(a)
      /\ [Next]_vars /\ s.row \in Nat /\ s.minted \in 0 .. Len(Actions) /\ Len(Actions) = 4
  <2>1. sender \in [Executions -> [row : Nat, minted : 0 .. Len(Actions)]]
    BY DEF ButtonInv, CardsTyped
  <2>2. Len(Actions) = 4
    BY DEF Actions
  <2> QED
    BY <2>1, <2>2, CardsStepGate DEF ButtonInv, CardsNext
<1>1. /\ TypeInv' /\ Len(rows') <= MaxRows /\ DOMAIN rows \subseteq DOMAIN rows' /\ DOMAIN rows' = 1 .. Len(rows')
      /\ \A i \in DOMAIN rows : rows'[i].exec = rows[i].exec
  BY <1>0, RowsGrow DEF CardsTyped
<1>2. UNCHANGED <<press, answered, answer>> /\ card \subseteq card'
  BY DEF MintAndNotify, MintToken, SendCard, CardFails, MintRequest, vars
<1>3. \A a \in Answerers : Pressing(a)'
  BY <1>0, <1>2 DEF Pressing
<1>4. DecidedIsAnswered'
  <2>1. DecidedRows' \subseteq DecidedRows
    <3>1. CASE MintAndNotify(e)
      BY <1>0, <3>1, EvaluationsDecideNothing DEF MintAndNotify, EvaluateStep
    <3> QED
      BY <3>1 DEF MintToken, SendCard, CardFails, vars, DecidedRows
  <2> QED
    BY <1>0, <1>2, <2>1 DEF DecidedIsAnswered, DecidedRows
<1> HIDE DEF s
<1>a. \A f \in Executions \ {e} : call'[f] = call[f] /\ Sending(f) /\ (Sending(e) /\ (s.row = 0 => s.minted = 0))
  <2>1. call \in [Executions -> CallState]
    BY <1>0 DEF TypeInv, TypeOK
  <2> QED
    BY <2>1 DEF MintAndNotify, MintToken, SendCard, CardFails, MintRequest, vars, ButtonInv, Sending, s
<1>5. CASE MintAndNotify(e)
  <2>1. rows \in Seq(Row) /\ rows' = Append(rows, [exec |-> e, tool |-> call[e].tool, shape |-> call[e].shape, grain |-> "once",
                                                  decision |-> "undecided", created |-> now])
    BY <1>0, <1>5 DEF TypeInv, TypeOK, MintAndNotify, MintRequest
  <2> DEFINE n == Len(rows')
  <2>2. n \in DOMAIN rows' /\ rows'[n].exec = e /\ n \in Nat \ {0} /\ e # NoExec
    BY <2>1, ConstantsAssumption
  <2>3. call'[e].at = "told" /\ s.minted = 0 /\ UNCHANGED <<token, card>> /\ sender' = [sender EXCEPT ![e].row = n]
    <3>1. call \in [Executions -> CallState] /\ Sending(e)
      BY <1>0 DEF TypeInv, TypeOK, ButtonInv
    <3> QED
      BY <1>5, <3>1 DEF MintAndNotify, MintRequest, Told, Sending, s
  <2> HIDE DEF n
  <2>4. /\ sender' \in [Executions -> [row : Nat, minted : 0 .. Len(Actions)]]
        /\ sender'[e].row = n /\ sender'[e].minted = 0 /\ \A f \in Executions \ {e} : sender'[f] = sender[f]
    BY <1>0, <2>2, <2>3 DEF CardsTyped, s
  <2>5. CardsTyped'
    BY <1>0, <1>1, <1>2, <2>3, <2>4 DEF CardsTyped
  <2>6. FromCalls'
    BY <1>0, <1>1, <2>2, <2>3, <2>4 DEF FromCalls, CardsTyped
  <2>7. Minted' /\ Spent'
    BY <1>0, <1>2, <2>3, <2>4 DEF Minted, Spent
  <2>8. \A f \in Executions : Sending(f)'
    BY <1>a, <2>2, <2>3, <2>4 DEF Sending
  <2> QED
    BY <1>1, <1>3, <1>4, <2>5, <2>6, <2>7, <2>8 DEF ButtonInv
<1>6. CASE MintToken(e)
  <2> DEFINE k == Actions[s.minted + 1]
  <2>1. /\ s.row # 0 /\ s.minted < Len(Actions) /\ UNCHANGED <<rows, call, card>>
        /\ token' = [token EXCEPT ![s.row][k] = "live"] /\ sender' = [sender EXCEPT ![e].minted = s.minted + 1]
    BY <1>6 DEF MintToken, s, vars
  <2>2. s.row \in 1 .. MaxRows /\ s.row \in DOMAIN rows /\ s.minted + 1 \in 1 .. Len(Actions)
    <3>1. s.row \in DOMAIN rows
      BY <1>0, <2>1 DEF FromCalls, s
    <3> QED
      BY <1>0, <1>1, <2>1, <3>1, ConstantsAssumption
  <2>3. k \in Buttons
    <3>1. \A n \in 1 .. 4 : Actions[n] \in Buttons
      BY DEF Actions, Buttons, Meaning
    <3> QED
      BY <1>0, <2>2, <3>1
  <2> HIDE DEF k
  <2>4. /\ token' \in [1 .. MaxRows -> Tokens] /\ token'[s.row][k] = "live"
        /\ \A i \in 1 .. MaxRows, b \in Buttons : token'[i][b] = token[i][b] \/ token'[i][b] = "live"
    BY <1>0, <2>1, <2>2, <2>3 DEF CardsTyped, Tokens
  <2>5. /\ sender' \in [Executions -> [row : Nat, minted : 0 .. Len(Actions)]]
        /\ sender'[e].row = s.row /\ sender'[e].minted = s.minted + 1 /\ \A f \in Executions \ {e} : sender'[f] = sender[f]
    BY <1>0, <2>1, <2>2 DEF CardsTyped, s
  <2>6. CardsTyped'
    BY <1>0, <1>1, <1>2, <2>1, <2>4, <2>5 DEF CardsTyped
  <2>7. FromCalls'
    BY <1>0, <2>1, <2>2, <2>5 DEF FromCalls, s
  <2>8. Spent'
    BY <1>0, <1>2, <2>4 DEF Spent
  <2>9. \A f \in Executions : Sending(f)'
    BY <1>a, <2>1, <2>5 DEF Sending, s, ButtonInv
  <2>10. Minted'
    <3>0. \A n \in 1 .. 4 : Actions[n] \in Buttons
      BY DEF Actions, Buttons, Meaning
    <3>1. \A i \in card', b \in Buttons : token'[i][b] # "absent"
      BY <1>0, <1>1, <2>1, <2>4 DEF Minted, CardsTyped
    <3>2. ASSUME NEW f \in Executions, sender'[f].row # 0, NEW n \in 1 .. sender'[f].minted
          PROVE  token'[sender'[f].row][Actions[n]] # "absent"
      <4>1. CASE f # e
        <5>0. sender'[f] = sender[f] /\ sender[f].row # 0 /\ sender[f].minted \in 0 .. 4
          BY <1>0, <2>5, <3>2, <4>1 DEF CardsTyped
        <5>2. sender[f].row \in 1 .. MaxRows
          <6>1. sender[f].row \in 1 .. Len(rows')
            BY <1>0, <1>1, <5>0 DEF FromCalls
          <6> QED
            BY <1>1, <2>1, <6>1, ConstantsAssumption DEF CardsTyped
        <5>1. /\ sender[f].row \in 1 .. MaxRows /\ n \in 1 .. 4 /\ sender'[f] = sender[f]
              /\ token[sender[f].row][Actions[n]] # "absent"
          BY <1>0, <3>2, <5>0, <5>2 DEF Minted
        <5> QED
          BY <2>4, <3>0, <5>1
      <4>2. CASE f = e /\ n = s.minted + 1
        BY <2>4, <2>5, <4>2 DEF k
      <4>3. CASE f = e /\ n # s.minted + 1
        <5>1. n \in 1 .. s.minted /\ n \in 1 .. 4
          BY <1>0, <2>2, <2>5, <3>2, <4>3
        <5>2. token[s.row][Actions[n]] # "absent"
          BY <1>0, <2>1, <5>1 DEF Minted, s
        <5> QED
          BY <2>2, <2>4, <2>5, <3>0, <4>3, <5>1, <5>2
      <4> QED
        BY <4>1, <4>2, <4>3
    <3> QED
      BY <3>1, <3>2 DEF Minted
  <2> QED
    BY <1>1, <1>3, <1>4, <2>6, <2>7, <2>8, <2>9, <2>10 DEF ButtonInv
<1>7. CASE SendCard(e) \/ CardFails(e)
  <2>1. /\ sender' = [sender EXCEPT ![e] = NoSend] /\ s.row # 0 /\ UNCHANGED <<rows, call, token>>
        /\ card' = card \/ (card' = card \cup {s.row} /\ s.minted = 4)
    BY <1>0, <1>7 DEF SendCard, CardFails, vars, s
  <2>2. s.row \in DOMAIN rows /\ rows[s.row].exec # NoExec
    BY <1>0, <2>1 DEF FromCalls, s
  <2>3. NoSend \in [row : Nat, minted : 0 .. Len(Actions)] /\ NoSend.row = 0 /\ NoSend.minted = 0
    BY <1>0 DEF NoSend
  <2>4. /\ sender' \in [Executions -> [row : Nat, minted : 0 .. Len(Actions)]]
        /\ sender'[e] = NoSend /\ \A f \in Executions \ {e} : sender'[f] = sender[f]
    BY <1>0, <2>1, <2>3 DEF CardsTyped
  <2>5. CardsTyped'
    BY <1>0, <1>1, <1>2, <2>1, <2>2, <2>4 DEF CardsTyped
  <2>6. FromCalls'
    BY <1>0, <2>1, <2>2, <2>3, <2>4 DEF FromCalls
  <2>7. Minted'
    <3>1. s.minted = 4 => \A b \in Buttons : token[s.row][b] # "absent"
      <4>1. \A b \in Buttons : \E n \in 1 .. 4 : Actions[n] = b
        BY DEF Actions, Buttons, Meaning
      <4> QED
        BY <1>0, <2>1, <4>1 DEF Minted, s
    <3> QED
      BY <1>0, <2>1, <2>3, <2>4, <3>1 DEF Minted
  <2>8. Spent' /\ \A f \in Executions : Sending(f)'
    BY <1>0, <1>2, <1>a, <2>1, <2>3, <2>4 DEF Spent, Sending
  <2> QED
    BY <1>1, <1>3, <1>4, <2>5, <2>6, <2>7, <2>8 DEF ButtonInv
<1> QED
  BY <1>5, <1>6, <1>7

\* What is left to show of a press, when the gate moves and the buttons stay.
LEMMA PressSteps ==
  ASSUME ButtonInv, [Next]_vars, UNCHANGED <<token, card, sender, call>>, answered \subseteq answered',
         NEW a \in Answerers, press' \in [Answerers -> Presses],
         \A b \in Answerers \ {a} : press'[b] = press[b] /\ answer'[b] = answer[b],
         DecidedIsAnswered', Pressing(a)'
  PROVE  ButtonInv'
<1>1. \A b \in Answerers : Pressing(b)'
  <2>1. \A b \in Answerers \ {a} : Pressing(b)'
    BY PressGoesOn DEF ButtonInv
  <2> QED
    BY <2>1
<1>2. \A e \in Executions : Sending(e)'
  BY DEF ButtonInv, Sending
<1> QED
  BY <1>1, <1>2, ButtonsStay DEF ButtonInv

\* The place of a press changes, or it ends.
LEMMA PressMoves ==
  ASSUME CardsTyped, NEW a \in Answerers, NEW pc \in PressPlaces, Turns(a, pc) \/ PressEnds(a)
  PROVE  /\ press' \in [Answerers -> Presses] /\ \A b \in Answerers \ {a} : press'[b] = press[b]
         /\ Turns(a, pc) => press'[a].pc = pc /\ press'[a].row = press[a].row
         /\ PressEnds(a) => press'[a].pc = "none"
<1>1. NoPress \in Presses /\ NoPress.pc = "none" /\ [press[a] EXCEPT !.pc = pc] \in Presses
  BY DEF NoPress, Presses, PressPlaces, Buttons, Meaning, CardsTyped
<1>2. press \in [Answerers -> Presses] /\ press[a] \in Presses
  BY DEF CardsTyped
<1>3. ASSUME Turns(a, pc)
      PROVE  /\ press' \in [Answerers -> Presses] /\ press'[a].pc = pc /\ press'[a].row = press[a].row
             /\ \A b \in Answerers \ {a} : press'[b] = press[b]
  <2>1. press' = [press EXCEPT ![a] = [press[a] EXCEPT !.pc = pc]]
    BY <1>3 DEF Turns
  <2>2. [press[a] EXCEPT !.pc = pc].pc = pc /\ [press[a] EXCEPT !.pc = pc].row = press[a].row
    BY <1>2 DEF Presses
  <2>3. press' \in [Answerers -> Presses] /\ press'[a] = [press[a] EXCEPT !.pc = pc]
        /\ \A b \in Answerers \ {a} : press'[b] = press[b]
    BY <1>1, <1>2, <2>1
  <2> QED
    BY <2>2, <2>3
<1>4. ASSUME PressEnds(a)
      PROVE  press' \in [Answerers -> Presses] /\ press'[a].pc = "none" /\ \A b \in Answerers \ {a} : press'[b] = press[b]
  BY <1>1, <1>2, <1>4 DEF PressEnds
<1> QED
  BY <1>3, <1>4

\* Steps of a press that leave the gate alone.
LEMMA ReadingPresses ==
  ASSUME ButtonInv, NEW a \in Answerers, Press(a) \/ ReadToken(a) \/ ReadsRequest(a) \/ (Resolves(a) /\ UNCHANGED vars)
  PROVE  ButtonInv'
<1>0. CardsTyped /\ FromCalls /\ DecidedIsAnswered /\ press \in [Answerers -> Presses]
  BY DEF ButtonInv, CardsTyped
<1>1. UNCHANGED <<vars, token, card, sender, answered>>
  BY DEF Press, ReadToken, ReadsRequest, Resolves
<1>2. /\ press' \in [Answerers -> Presses] /\ \A b \in Answerers \ {a} : press'[b] = press[b]
      /\ press'[a].pc \in {"none", "token", "request", "resolving"} \/ (press'[a].pc = "spending" /\ press'[a].row \in answered)
      /\ press'[a].pc # "none" => press'[a].row \in card
  <2>1. CASE Press(a)
    <3>1. PICK i \in card, k \in Buttons : press' = [press EXCEPT ![a] = [pc |-> "token", row |-> i, act |-> k]]
      BY <2>1 DEF Press, Buttons
    <3>2. [pc |-> "token", row |-> i, act |-> k] \in Presses
      <4>1. i \in Nat
        BY <1>0, RowsGrow DEF CardsTyped, ButtonInv
      <4> QED
        BY <4>1 DEF Presses, PressPlaces
    <3> HIDE DEF PressPlaces
    <3>3. press' \in [Answerers -> Presses] /\ press'[a] = [pc |-> "token", row |-> i, act |-> k]
          /\ \A b \in Answerers \ {a} : press'[b] = press[b]
      BY <1>0, <3>1, <3>2
    <3> QED
      BY <3>3
  <2>2. CASE ReadToken(a)
    <3>0. "request" \in PressPlaces
      BY DEF PressPlaces
    <3>1. (Turns(a, "request") \/ PressEnds(a)) /\ press[a].pc = "token" /\ press[a].row \in card
      BY <2>2 DEF ReadToken, ButtonInv, Pressing
    <3> QED
      BY <1>0, <3>0, <3>1, PressMoves
  <2>3. CASE ReadsRequest(a)
    <3>0. "resolving" \in PressPlaces
      BY DEF PressPlaces
    <3>1. (Turns(a, "resolving") \/ PressEnds(a)) /\ press[a].pc = "request" /\ press[a].row \in card
      BY <2>3 DEF ReadsRequest, ButtonInv, Pressing
    <3> QED
      BY <1>0, <3>0, <3>1, PressMoves
  <2>4. CASE Resolves(a) /\ UNCHANGED vars
    <3>1. press[a].pc = "resolving" /\ press[a].row \in card
      BY <2>4 DEF Resolves, ButtonInv, Pressing
    <3>2. Turns(a, "spending") /\ rows[press[a].row].decision # "undecided"
      <4>1. ~ReadRequest(a)
        <5> SUFFICES ASSUME ReadRequest(a) PROVE FALSE
          OBVIOUS
        <5>1. answer \in [Answerers -> AnswerState] /\ answer' = answer
          BY <2>4 DEF TypeInv, TypeOK, ButtonInv, vars
        <5>2. answer[a].at = "idle" /\ answer'[a].at = "store"
          BY <5>1 DEF ReadRequest
        <5> QED
          BY <5>1, <5>2
      <4> QED
        BY <2>4, <4>1 DEF Resolves
    <3>3. press[a].row \in answered
      BY <1>0, <3>1, <3>2 DEF FromCalls, DecidedIsAnswered, CardsTyped
    <3> QED
      BY <1>0, <3>1, <3>2, <3>3, PressMoves DEF PressPlaces
  <2> QED
    BY <2>1, <2>2, <2>3, <2>4
<1>3. DecidedIsAnswered' /\ UNCHANGED <<answer, call>> /\ [Next]_vars
  BY <1>0, <1>1 DEF DecidedIsAnswered, vars
<1>4. Pressing(a)'
  BY <1>1, <1>2 DEF Pressing
<1> QED
  BY <1>1, <1>2, <1>3, <1>4, PressSteps

\* Steps of a press, or of the HTTP route, that answer a request.
LEMMA AnsweringSteps ==
  ASSUME ButtonInv, NEW a \in Answerers, (Resolves(a) /\ ~UNCHANGED vars) \/ Stores(a) \/ StoreFails(a) \/ OverHttp(a)
  PROVE  ButtonInv'
<1>0. /\ TypeInv /\ CardsTyped /\ FromCalls /\ DecidedIsAnswered /\ Pressing(a) /\ [Next]_vars
      /\ press \in [Answerers -> Presses] /\ answer \in [Answerers -> AnswerState] /\ ResolveStep(a)
      /\ press[a] \in Presses /\ answer[a] \in AnswerState
  BY CardsStepGate DEF ButtonInv, CardsTyped, CardsNext, TypeInv, TypeOK, Resolves, Stores, StoreFails, OverHttp, ResolveStep
<1>1. UNCHANGED <<token, card, sender, call>> /\ answered \subseteq answered'
  BY DEF Resolves, Stores, StoreFails, OverHttp, Recorded, ReadRequest, ResolveStep, StoreAnswer, AddGrant, WriteWildcard, AnswerFails
<1>2. \A b \in Answerers \ {a} : answer'[b] = answer[b]
  BY <1>0 DEF ReadRequest, ResolveStep, StoreAnswer, AddGrant, WriteWildcard, AnswerFails
<1>3. press' \in [Answerers -> Presses] /\ \A b \in Answerers \ {a} : press'[b] = press[b]
  <2>1. "storing" \in PressPlaces /\ "spending" \in PressPlaces
    BY DEF PressPlaces
  <2>2. PICK pc \in PressPlaces : Turns(a, pc) \/ PressEnds(a) \/ press' = press
    BY <2>1 DEF Resolves, Stores, StoreFails, OverHttp
  <2> QED
    BY <1>0, <2>2, PressMoves
<1>4. DecidedIsAnswered'
  <2>1. StoreAnswer(a) /\ answer[a].at = "store" /\ rows' # rows => answer[a].row \in answered'
    BY <1>0, <1>1 DEF Resolves, Stores, StoreFails, OverHttp, Recorded, ReadRequest, AddGrant, AnswerFails, Pressing
  <2>2. DecidedRows \subseteq answered
    BY <1>0, DecidedMeans
  <2>3. DecidedRows' \subseteq answered'
    BY <1>0, <1>1, <2>1, <2>2, AnswersDecideTheirs
  <2> QED
    BY <2>3 DEF DecidedIsAnswered, DecidedRows
<1>5. Pressing(a)'
  <2>1. CASE Resolves(a) /\ ~UNCHANGED vars
    <3>1. /\ press[a].pc = "resolving" /\ ReadRequest(a) /\ answer'[a].row = press[a].row /\ Turns(a, "storing")
      BY <2>1 DEF Resolves
    <3>2. answer'[a].at = "store"
      BY <1>0, <3>1 DEF ReadRequest
    <3>3. press'[a].pc = "storing" /\ press'[a].row = press[a].row
      BY <1>0, <3>1, PressMoves DEF PressPlaces
    <3> QED
      BY <1>0, <1>1, <3>1, <3>2, <3>3 DEF Pressing
  <2>2. CASE Stores(a)
    <3>1. /\ press[a].pc = "storing" /\ press[a].row \in card /\ answer[a].row = press[a].row
          /\ Turns(a, IF answer'[a].at = "idle" THEN "spending" ELSE "storing")
          /\ answer[a].at # "store" => press[a].row \in answered
      BY <1>0, <2>2 DEF Stores, Pressing
    <3>2. press[a].row \in answered' /\ (answer'[a].at = "idle" \/ answer'[a].row = press[a].row)
      <4>1. CASE StoreAnswer(a) /\ Recorded(press[a].row)
        <5>1. answer'[a] = NoAnswer \/ answer'[a] = [answer[a] EXCEPT !.at = AfterStore(answer[a].decision, answer[a].grain)]
          BY <1>0, <4>1 DEF StoreAnswer
        <5>2. answer[a].at = "store"
          BY <4>1 DEF StoreAnswer
        <5>3. answer'[a].at = "idle" \/ answer'[a].row = press[a].row
          BY <1>0, <3>1, <5>1, <5>2 DEF NoAnswer, AnswerState
        <5> QED
          BY <4>1, <5>3 DEF Recorded
      <4>2. CASE AddGrant(a) /\ UNCHANGED answered
        BY <1>0, <3>1, <4>2 DEF AddGrant, NoAnswer
      <4> QED
        BY <2>2, <4>1, <4>2 DEF Stores
    <3>3. /\ press'[a].row = press[a].row
          /\ press'[a].pc = IF answer'[a].at = "idle" THEN "spending" ELSE "storing"
      BY <1>0, <3>1, PressMoves DEF PressPlaces
    <3> QED
      BY <1>1, <3>1, <3>2, <3>3 DEF Pressing
  <2>3. CASE StoreFails(a) \/ OverHttp(a)
    <3>1. press'[a].pc = "none"
      BY <1>0, <2>3, PressMoves DEF StoreFails, OverHttp, NoPress, PressPlaces
    <3> QED
      BY <3>1 DEF Pressing
  <2> QED
    BY <2>1, <2>2, <2>3
<1> QED
  BY <1>0, <1>1, <1>2, <1>3, <1>4, <1>5, PressSteps

LEMMA SpendStep ==
  ASSUME ButtonInv, NEW a \in Answerers, Spend(a)
  PROVE  ButtonInv'
<1>0. /\ TypeInv /\ CardsTyped /\ FromCalls /\ DecidedIsAnswered /\ Minted /\ Spent /\ \A b \in Answerers : Pressing(b)
      /\ \A e \in Executions : Sending(e)
  BY DEF ButtonInv
<1> DEFINE i == press[a].row
           k == press[a].act
<1>1. /\ i \in card /\ i \in answered /\ k \in Buttons /\ i \in 1 .. MaxRows /\ UNCHANGED <<vars, card, sender, answered>>
      /\ token' = [token EXCEPT ![i][k] = "used"] /\ PressEnds(a)
  <2>1. i \in card /\ i \in answered
    BY <1>0 DEF Spend, Pressing
  <2>2. k \in Buttons
    BY <1>0 DEF CardsTyped, Presses
  <2>3. i \in 1 .. MaxRows
    BY <1>0, <2>1, RowsGrow, ConstantsAssumption DEF CardsTyped
  <2> QED
    BY <2>1, <2>2, <2>3 DEF Spend
<1> HIDE DEF i, k
<1>2. /\ token' \in [1 .. MaxRows -> Tokens] /\ token'[i][k] = "used"
      /\ \A j \in 1 .. MaxRows, b \in Buttons : token'[j][b] = token[j][b] \/ (token'[j][b] = "used" /\ j = i)
  BY <1>0, <1>1 DEF CardsTyped, Tokens
<1>3. press' \in [Answerers -> Presses] /\ press'[a].pc = "none" /\ \A b \in Answerers \ {a} : press'[b] = press[b]
  BY <1>0, <1>1, PressMoves DEF PressPlaces
<1>4. CardsTyped'
  BY <1>0, <1>1, <1>2, <1>3 DEF CardsTyped, vars
<1>5. FromCalls' /\ DecidedIsAnswered' /\ \A e \in Executions : Sending(e)'
  BY <1>0, <1>1 DEF FromCalls, DecidedIsAnswered, Sending, vars
<1>6. Spent'
  BY <1>0, <1>1, <1>2 DEF Spent
<1>7. Minted'
  <2>0. \A n \in 1 .. 4 : Actions[n] \in Buttons
    BY DEF Actions, Buttons, Meaning
  <2>1. ASSUME NEW j \in card, NEW b \in Buttons PROVE token'[j][b] # "absent"
    <3>1. j \in 1 .. MaxRows
      BY <1>0, RowsGrow, ConstantsAssumption DEF CardsTyped
    <3> QED
      BY <1>0, <1>2, <3>1 DEF Minted
  <2>2. ASSUME NEW e \in Executions, sender[e].row # 0, NEW n \in 1 .. sender[e].minted
        PROVE  token'[sender[e].row][Actions[n]] # "absent"
    <3>1. sender[e].row \in 1 .. MaxRows
      BY <1>0, <2>2, RowsGrow, ConstantsAssumption DEF FromCalls, CardsTyped
    <3>2. n \in 1 .. 4
      <4>1. sender[e].minted \in 0 .. Len(Actions) /\ Len(Actions) = 4
        BY <1>0 DEF CardsTyped, Actions
      <4> QED
        BY <4>1
    <3> QED
      BY <1>0, <1>2, <2>0, <2>2, <3>1, <3>2 DEF Minted
  <2> QED
    BY <1>1, <2>1, <2>2 DEF Minted
<1>8. \A b \in Answerers : Pressing(b)'
  BY <1>0, <1>1, <1>3 DEF Pressing, vars
<1>9. TypeInv'
  BY <1>0, <1>1, TypeInvStep
<1> QED
  BY <1>4, <1>5, <1>6, <1>7, <1>8, <1>9 DEF ButtonInv

\* What the process knew of calls, cards and presses is gone with it.
LEMMA DiesStep ==
  ASSUME ButtonInv, Dies
  PROVE  ButtonInv'
<1>0. TypeInv /\ CardsTyped /\ FromCalls /\ DecidedIsAnswered /\ Minted /\ Spent /\ UNCHANGED <<rows, token, card, answered>>
  BY DEF ButtonInv, Dies, Restart
<1>1. TypeInv'
  BY <1>0, CardsStepGate, TypeInvStep DEF CardsNext
<1>2. /\ sender' = [e \in Executions |-> NoSend] /\ NoSend.row = 0 /\ NoSend.minted = 0
      /\ NoSend \in [row : Nat, minted : 0 .. Len(Actions)]
  BY DEF Dies, NoSend, Actions
<1>3. press' = [a \in Answerers |-> NoPress] /\ NoPress.pc = "none" /\ NoPress \in Presses
  BY DEF Dies, NoPress, Presses, PressPlaces, Buttons, Meaning
<1>4. CardsTyped'
  BY <1>0, <1>2, <1>3 DEF CardsTyped
<1>5. FromCalls' /\ DecidedIsAnswered' /\ Minted' /\ Spent' /\ \A e \in Executions : Sending(e)'
  BY <1>0, <1>2 DEF FromCalls, DecidedIsAnswered, Minted, Spent, Sending
<1>6. \A a \in Answerers : Pressing(a)'
  BY <1>3 DEF Pressing
<1> QED
  BY <1>1, <1>4, <1>5, <1>6 DEF ButtonInv

LEMMA ButtonsBegin == CardsInit => ButtonInv
<1> SUFFICES ASSUME CardsInit PROVE ButtonInv
  OBVIOUS
<1>1. TypeInv /\ rows = <<>> /\ card = {} /\ Len(rows) <= MaxRows /\ DOMAIN rows = {}
  BY TypeInvInit, ConstantsAssumption DEF CardsInit, Init
<1>2. NoSend \in [row : Nat, minted : 0 .. Len(Actions)] /\ NoSend.row = 0 /\ NoSend.minted = 0
  BY DEF NoSend, Actions
<1>3. NoPress.pc = "none" /\ NoPress \in Presses
  BY DEF NoPress, Presses, PressPlaces, Buttons, Meaning
<1>4. NoTokens \in Tokens /\ \A k \in Buttons : NoTokens[k] = "absent"
  BY DEF NoTokens, Tokens, Buttons
<1>5. CardsTyped
  BY <1>1, <1>2, <1>3, <1>4 DEF CardsInit, CardsTyped
<1>6. FromCalls /\ DecidedIsAnswered /\ Minted /\ Spent
  BY <1>1, <1>2, <1>4 DEF CardsInit, FromCalls, DecidedIsAnswered, Minted, Spent
<1> QED
  BY <1>1, <1>2, <1>3, <1>5, <1>6 DEF CardsInit, ButtonInv, Pressing, Sending

\* Whatever presses race, wherever resolve fails and whenever the process dies, a card
\* in the chat keeps all its buttons until somebody's answer to its request is stored.
THEOREM ButtonsKept == CardsSpec => []NoButtonLost
<1>1. ButtonInv /\ [CardsNext]_<<vars, cardVars>> => ButtonInv'
  <2> SUFFICES ASSUME ButtonInv, [CardsNext]_<<vars, cardVars>> PROVE ButtonInv'
    OBVIOUS
  <2>1. CASE CardsNext
    <3>1. ASSUME NEW a \in Answerers, Resolves(a) PROVE ButtonInv'
      BY <3>1, ReadingPresses, AnsweringSteps
    <3> QED
      BY <2>1, <3>1, StepsBesides, SenderSteps, ReadingPresses, AnsweringSteps, SpendStep, DiesStep DEF CardsNext
  <2>2. CASE UNCHANGED <<vars, cardVars>>
    <3>1. TypeInv'
      BY <2>2, TypeInvStep DEF ButtonInv
    <3> QED
      BY <2>2, <3>1 DEF vars, cardVars, ButtonInv, CardsTyped, FromCalls, DecidedIsAnswered, Minted, Spent, Pressing, Sending
  <2> QED
    BY <2>1, <2>2
<1>2. ButtonInv => NoButtonLost
  <2> SUFFICES ASSUME ButtonInv, NEW i \in card, i \notin answered, NEW k \in Buttons PROVE token[i][k] = "live"
    BY DEF NoButtonLost, Buttons
  <2>1. i \in 1 .. MaxRows
    BY RowsGrow, ConstantsAssumption DEF CardsTyped, ButtonInv
  <2>2. token[i][k] \in {"absent", "live", "used"}
    BY <2>1 DEF ButtonInv, CardsTyped, Tokens
  <2> QED
    BY <2>1, <2>2 DEF ButtonInv, Minted, Spent
<1> QED
  BY <1>1, <1>2, ButtonsBegin, PTL DEF CardsSpec
=============================================================================
