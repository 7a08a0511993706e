------------------------- MODULE TaskDecomposition -------------------------
(***************************************************************************)
(* src/zero/app/task_decomposition.py: how an approved revision becomes a  *)
(* graph of tasks.  A model is asked for the graph as a forced tool call,  *)
(* asked again if its answer cannot be used, and asked for plain text if   *)
(* the model or its gateway knows no tools; a name that nobody declared is *)
(* replaced by the one it must have meant; and the graph, or that there is *)
(* none, is remembered for as long as the process lives.  The scheduler    *)
(* runs a single task where there is no graph.                             *)
(*                                                                         *)
(* A task list is a sequence of records with a key and the set of names it *)
(* depends on.  Objectives, scopes and evidence labels, the length of the  *)
(* answer and what else makes it Malformed are left out.                   *)
(***************************************************************************)
EXTENDS Integers, Sequences, FiniteSets

CONSTANTS
  Keys,          \* the keys tasks may have
  Names,         \* the names a dependency may have
  Lower,         \* str.lower, a function on Names
  Score,         \* _token_jaccard in percent, a function on Names \X Keys
  Answers,       \* BOUND: the task lists a model may answer with
  MaxTasks,      \* MAX_TASKS
  MaxTransport,  \* transport_retries
  MaxTicks       \* BOUND: calls of decompose in the model

ASSUME DecompositionAssumption ==
  /\ Keys \subseteq Names
  /\ Lower \in [Names -> Names]
  /\ Score \in [Names \X Keys -> 0..100]
  /\ Answers \subseteq Seq([key : Keys, deps : SUBSET Names])
  /\ MaxTasks \in Nat \ {0} /\ MaxTransport \in Nat /\ MaxTicks \in Nat

Malformed == <<>>
NoGraph == <<>>

VARIABLES
  cache,     \* _cache of the revision: empty, or what was remembered
  decompose, \* the call under way: its rung and the transport retries spent
  result,    \* what the last call returned, and the answer it came from
  unfit,     \* history: the rungs of this call whose answers made no graph
  ticks

decompositionVars == <<cache, decompose, result, unfit, ticks>>

NoCall == [rung |-> "none", retries |-> 0]

DecompositionInit ==
  /\ cache = {} /\ decompose = NoCall /\ unfit = {} /\ ticks = 0
  /\ result = [graph |-> NoGraph, answer |-> Malformed]

-----------------------------------------------------------------------------
(* Validation.                                                             *)

KeysOf(list) == {list[i].key : i \in DOMAIN list}
EdgesOf(list) == UNION {{[task |-> list[i].key, on |-> d] : d \in list[i].deps} : i \in DOMAIN list}

\* Kahn's algorithm takes the tasks that wait for none of those left, again and
\* again, and gets stuck.
HasCycle(list) ==
  LET left[n \in 0..Len(list)] ==
        IF n = 0 THEN KeysOf(list)
        ELSE {k \in left[n - 1] : \E e \in EdgesOf(list) : e.task = k /\ e.on \in left[n - 1]}
  IN  left[Len(list)] # {}

Valid(list) ==
  /\ list # Malformed /\ Len(list) <= MaxTasks
  /\ \A i, j \in DOMAIN list : i # j => list[i].key # list[j].key
  /\ \A e \in EdgesOf(list) : e.on \in KeysOf(list) /\ e.on # e.task
  /\ ~HasCycle(list)

-----------------------------------------------------------------------------
(* Repair.                                                                 *)

\* A dict comprehension: of two keys that differ in case the last one stays.
Indexed(list, low) ==
  LET at == {i \in DOMAIN list : Lower[list[i].key] = low} IN
  list[CHOOSE i \in at : \A j \in at : j <= i].key

InIndex(list, low) == \E i \in DOMAIN list : Lower[list[i].key] = low

\* The keys that come closest; the list has a key twice if it declares it twice.
Best(list, name) == {i \in DOMAIN list : \A j \in DOMAIN list : Score[name, list[j].key] <= Score[name, list[i].key]}
Closest(list, name) == list[CHOOSE i \in Best(list, name) : TRUE].key
Unmistakable(list, name) == Cardinality(Best(list, name)) = 1 /\ Score[name, Closest(list, name)] >= 50

\* An entry of the lowered index is taken for a key, whatever case that key has.
Remap(list, name) ==
  IF InIndex(list, name) /\ Lower[name] = name THEN name
  ELSE IF InIndex(list, Lower[name]) THEN Indexed(list, Lower[name])
  ELSE IF Unmistakable(list, name) THEN Closest(list, name)
  ELSE name

\* A task's dependency on itself is never repaired.
Mapped(list, key, name) == IF name = key THEN name ELSE Remap(list, name)

NothingToRepair(list) ==
  \A e \in EdgesOf(list) : e.on = e.task \/ (InIndex(list, e.on) /\ Lower[e.on] = e.on)
                           \/ (~InIndex(list, Lower[e.on]) /\ ~Unmistakable(list, e.on))

\* MUTANT of Collapsed: an edge is a duplicate if any task has it.
CollapsedForAll(list, i) ==
  {d \in {Mapped(list, list[i].key, n) : n \in list[i].deps} :
     d # list[i].key /\ \A j \in 1..(i - 1) : d \notin {Mapped(list, list[j].key, n) : n \in list[j].deps}}

\* Edges to the task itself and edges it has already go.
Collapsed(list, i) ==
  {d \in {Mapped(list, list[i].key, n) : n \in list[i].deps} :
     /\ d # list[i].key
     /\ \A j \in 1..(i - 1) : list[j].key = list[i].key
                              => d \notin {Mapped(list, list[j].key, n) : n \in list[j].deps}}

Repaired(list) ==
  IF NothingToRepair(list) THEN list
  ELSE [i \in DOMAIN list |-> [key |-> list[i].key, deps |-> Collapsed(list, i)]]

\* normalize_task_order: the first task, in the order of declaration, whose
\* dependencies have been taken, again and again.
Ready(list, taken) ==
  {i \in DOMAIN list : list[i].key \notin KeysOf(taken) /\ list[i].deps \subseteq KeysOf(taken)}

Ordered(list) ==
  LET taken[n \in 0..Len(list)] ==
        IF n = 0 THEN <<>>
        ELSE LET ready == Ready(list, taken[n - 1])
             IN  IF ready = {} THEN taken[n - 1]
                 ELSE Append(taken[n - 1], list[CHOOSE i \in ready : \A j \in ready : i <= j])
  IN  taken[Len(list)]

Orderable(list) ==
  /\ \A i, j \in DOMAIN list : i # j => list[i].key # list[j].key
  /\ \A e \in EdgesOf(list) : e.on \in KeysOf(list) /\ e.on # e.task
  /\ ~HasCycle(list)

\* The graph of an answer to the forced call: the list, or the list repaired, or
\* that put in order.  (The last never helps: validation does not mind the order.)
GraphOf(list) ==
  LET tried == {l \in {list, Repaired(list)} : Valid(l)}
      base == Repaired(list)
  IN IF list \in tried THEN list
     ELSE IF base \in tried THEN base
     ELSE IF list # Malformed /\ Orderable(base) /\ Valid(Ordered(base)) THEN Ordered(base)
     ELSE NoGraph

\* A longer list is cut, in a tool call and in the text of the reply to one.
Extracted(list) == SubSeq(list, 1, IF Len(list) < MaxTasks THEN Len(list) ELSE MaxTasks)

-----------------------------------------------------------------------------
(* decompose.                                                              *)

BeginDecompose ==
  /\ decompose = NoCall /\ cache = {} /\ ticks < MaxTicks
  /\ ticks' = ticks + 1 /\ unfit' = {}
  /\ decompose' = [rung |-> "strict", retries |-> 0]
  /\ result' = [graph |-> NoGraph, answer |-> Malformed]
  /\ UNCHANGED cache

Returns(graph, answer) == result' = [graph |-> graph, answer |-> answer] /\ decompose' = NoCall

\* The provider failed: that says nothing about the model, the slot stays open.
Weather ==
  /\ Returns(NoGraph, Malformed)
  /\ UNCHANGED cache

Concludes(graph, answer) == Returns(graph, answer) /\ cache' = {graph}

Forced == {"strict", "escalated"}

\* The model answers the forced call with a list, or with anything else.
AnswerForced(list) ==
  LET tasks == Extracted(list)  graph == GraphOf(tasks) IN
  /\ decompose.rung \in Forced
  /\ unfit' = IF graph = NoGraph THEN unfit \cup {decompose.rung} ELSE unfit
  /\ \/ graph # NoGraph /\ Concludes(graph, tasks)
     \/ graph = NoGraph /\ decompose.rung = "strict"
        /\ decompose' = [rung |-> "escalated", retries |-> 0] /\ UNCHANGED <<cache, result>>
     \/ graph = NoGraph /\ decompose.rung = "escalated" /\ Concludes(NoGraph, Malformed)
  /\ UNCHANGED ticks

\* The model has no tools, or its gateway refuses the forced call with a 4xx.
NoTools ==
  /\ decompose.rung \in Forced
  /\ decompose' = [rung |-> "text", retries |-> 0]
  /\ UNCHANGED <<cache, result, unfit, ticks>>

\* A 403 of the edge, 429 or 503, slept over.
Transient ==
  /\ decompose.rung \in Forced /\ decompose.retries < MaxTransport
  /\ decompose' = [decompose EXCEPT !.retries = @ + 1]
  /\ UNCHANGED <<cache, result, unfit, ticks>>

\* Any other failure, one too many, or an exception decompose lets pass.
ProviderFails ==
  /\ decompose # NoCall
  /\ Weather
  /\ UNCHANGED <<unfit, ticks>>

\* The plain contract repairs nothing and cuts nothing.
AnswerText(list) ==
  /\ decompose.rung = "text"
  /\ unfit' = IF Valid(list) THEN unfit ELSE unfit \cup {"text"}
  /\ IF Valid(list) THEN Concludes(list, list) ELSE Concludes(NoGraph, Malformed)
  /\ UNCHANGED ticks

\* The cache is the process's.
RestartProcess ==
  /\ cache' = {} /\ decompose' = NoCall
  /\ UNCHANGED <<result, unfit, ticks>>

DecompositionNext ==
  \/ BeginDecompose \/ NoTools \/ Transient \/ ProviderFails \/ RestartProcess
  \/ \E list \in Answers : AnswerForced(list) \/ AnswerText(list)

-----------------------------------------------------------------------------
NoTwins(list) == \A k, l \in KeysOf(list) : Lower[k] = Lower[l] => k = l

\* A graph that is run has the tasks of the answer it came from, each dependency
\* the answer states between two of them, whatever else of it had to be repaired,
\* and no other except in place of a name that no task has; and a revision is
\* left to the single task for good only after the model answered, twice or in
\* plain text, and nothing could be made of its answers.  (Lists with keys that differ in case only are
\* another matter: a repair moves the dependencies of one to the other.)
GraphAsAnswered ==
  /\ result.graph # NoGraph /\ NoTwins(result.answer) =>
       LET stated == EdgesOf(result.answer)  drawn == EdgesOf(result.graph)  known == KeysOf(result.answer) IN
       /\ KeysOf(result.graph) = known
       /\ {e \in stated : e.on \in known /\ e.on # e.task} \subseteq drawn
       /\ \A e \in drawn \ stated : \E f \in stated : f.task = e.task /\ f.on \notin known
  /\ NoGraph \in cache => Forced \subseteq unfit \/ "text" \in unfit
=============================================================================
