----------------------------- MODULE AgentTypes -----------------------------
(***************************************************************************)
(* The agent types of a project: src/zero/app/agent_type_service.py on     *)
(* src/zero/persistence/repositories/agent_type_repository.py.             *)
(*                                                                         *)
(* Splitting, merging and retiring a type read and check it first and      *)
(* change it in a transaction later; what another request did in between   *)
(* is not looked at again.  Instances are counted against the limit of     *)
(* their type in the transaction that starts them.  A rollback restores a  *)
(* snapshot that an earlier migration took.                                *)
(***************************************************************************)
EXTENDS Integers, Sequences, FiniteSets

CONSTANTS
  Types,        \* BOUND: the types there can be
  Records,      \* BOUND: the knowledge records there can be
  Instances,    \* BOUND: the instances idle or running at once
  Requests,     \* requests under way at once
  MaxLimit,     \* BOUND: the largest max_concurrent_instances
  MaxSnapshots, \* BOUND: migrations and rollbacks
  None

ASSUME NoneIsNothing == None \notin Types
ASSUME FiniteInstances == IsFiniteSet(Instances)
ASSUME LimitPositive == MaxLimit \in Nat \ {0}
ASSUME SnapshotBound == MaxSnapshots \in Nat

VARIABLES
  type,      \* agent_types.state, "none" without a row
  limit,     \* agent_types.max_concurrent_instances
  agent,     \* agent_instances: type and state of those that are idle or run
  owner,     \* knowledge_records.agent_type_id, None without a row
  knowledge, \* knowledge_records.state
  snapshots, \* topology_snapshots in the order of their versions
  request    \* a migration whose checks have passed

topologyVars == <<type, limit, agent, owner, knowledge, snapshots, request>>

-----------------------------------------------------------------------------
TypeState == {"none", "active", "archived", "retired"}
AgentState == {"none", "idle", "running"}
KnowledgeState == {"none", "candidate", "approved", "archived"}
Snapshot == [type : [Types -> TypeState], owner : [Records -> Types \cup {None}]]
Request ==
  [kind : {"none", "split", "merge", "retire"}, sources : SUBSET Types, limit : 0..MaxLimit]

TopologyTypeOK ==
  /\ type \in [Types -> TypeState]
  /\ limit \in [Types -> 1..MaxLimit]
  /\ agent \in [Instances -> [of : Types \cup {None}, state : AgentState]]
  /\ owner \in [Records -> Types \cup {None}]
  /\ knowledge \in [Records -> KnowledgeState]
  /\ snapshots \in Seq(Snapshot)
  /\ request \in [Requests -> Request]

Idle == [kind |-> "none", sources |-> {}, limit |-> 0]

TopologyInit ==
  /\ type = [t \in Types |-> "none"]
  /\ limit = [t \in Types |-> 1]
  /\ agent = [i \in Instances |-> [of |-> None, state |-> "none"]]
  /\ owner = [r \in Records |-> None]
  /\ knowledge = [r \in Records |-> "none"]
  /\ snapshots = <<>>
  /\ request = [q \in Requests |-> Idle]

RunningOf(t) == {i \in Instances : agent[i].of = t /\ agent[i].state = "running"}

\* MUTANT of HasRoom: one too many.
HasRoomAtLimit(t) == Cardinality(RunningOf(t)) <= limit[t]

HasRoom(t) == Cardinality(RunningOf(t)) < limit[t]

\* MUTANT of Live: candidates are overlooked.
Approved(S) == {r \in Records : owner[r] \in S /\ knowledge[r] = "approved"}

\* list_knowledge_for_type without the archived records.
Live(S) == {r \in Records : owner[r] \in S /\ knowledge[r] \in {"candidate", "approved"}}

-----------------------------------------------------------------------------
(* Types and knowledge.                                                    *)

CreateType(t) ==
  /\ type[t] = "none"
  /\ type' = [type EXCEPT ![t] = "active"]
  /\ UNCHANGED <<limit, agent, owner, knowledge, snapshots, request>>

\* A limit may drop below what is running.
UpdateType(t) ==
  /\ type[t] # "none"
  /\ \E n \in 1..MaxLimit : limit' = [limit EXCEPT ![t] = n]
  /\ UNCHANGED <<type, agent, owner, knowledge, snapshots, request>>

\* The type has to exist, in any state.
AddKnowledge(r, t) ==
  /\ owner[r] = None
  /\ type[t] # "none"
  /\ owner' = [owner EXCEPT ![r] = t]
  /\ \E s \in {"candidate", "approved"} : knowledge' = [knowledge EXCEPT ![r] = s]
  /\ UNCHANGED <<type, limit, agent, snapshots, request>>

-----------------------------------------------------------------------------
(* Instances.                                                              *)

SetInstance(i, t, state) ==
  /\ agent' = [agent EXCEPT ![i] = [of |-> t, state |-> state]]
  /\ UNCHANGED <<type, limit, owner, knowledge, snapshots, request>>

CreateInstance(i, t) ==
  /\ agent[i].state = "none"
  /\ type[t] = "active"
  /\ SetInstance(i, t, "idle")

\* assign_instance_to_task does not ask for the state of the type.
AssignInstance(i) ==
  /\ agent[i].state = "idle"
  /\ HasRoom(agent[i].of)
  /\ SetInstance(i, agent[i].of, "running")

LeaseOf(i, t) ==
  /\ agent[i].state = "none"
  /\ type[t] = "active"
  /\ HasRoom(t)
  /\ SetInstance(i, t, "running")

\* complete_instance and finish_instance: nothing reads the row of an instance
\* that has ended.
FinishInstance(i) ==
  /\ agent[i].state = "running"
  /\ SetInstance(i, None, "none")

-----------------------------------------------------------------------------
(* Migrations: the checks, and then the transaction.                       *)
(* The limit the new types will have is the one read here.                 *)

Widest(S) ==
  CHOOSE n \in 1..MaxLimit : (\E t \in S : limit[t] = n) /\ \A t \in S : limit[t] <= n

Check(q, kind, S) ==
  /\ request[q] = Idle
  /\ \A t \in S : type[t] = "active"
  /\ request' = [request EXCEPT ![q] = [kind |-> kind, sources |-> S, limit |-> Widest(S)]]
  /\ UNCHANGED <<type, limit, agent, owner, knowledge, snapshots>>

CheckSplit(q, t) == Check(q, "split", {t})

CheckMerge(q, S) == Cardinality(S) >= 2 /\ Check(q, "merge", S)

CheckRetire(q, t) == RunningOf(t) = {} /\ Check(q, "retire", {t})

TakeSnapshot ==
  /\ Len(snapshots) < MaxSnapshots
  /\ snapshots' = Append(snapshots, [type |-> type, owner |-> owner])

Done(q) ==
  /\ request' = [request EXCEPT ![q] = Idle]
  /\ UNCHANGED agent

\* Sources end up in state, new types in D are active with their limit.
Replace(S, state, D, n) ==
  /\ \A t \in D : type[t] = "none"
  /\ type' = [t \in Types |-> IF t \in S THEN state ELSE IF t \in D THEN "active" ELSE type[t]]
  /\ limit' = [t \in Types |-> IF t \in D THEN n ELSE limit[t]]

\* Records of the source, archived ones too, are routed to the new types; the
\* live ones that are not are archived.
Split(q) ==
  LET S == request[q].sources IN
  /\ request[q].kind = "split"
  /\ TakeSnapshot
  /\ \E D \in SUBSET Types, routed \in SUBSET {r \in Records : owner[r] \in S} :
        /\ Replace(S, "archived", D, request[q].limit)
        /\ \E route \in [routed -> D] :
              owner' = [r \in Records |-> IF r \in routed THEN route[r] ELSE owner[r]]
        /\ knowledge' = [r \in Records |-> IF r \in Live(S) \ routed THEN "archived" ELSE knowledge[r]]
  /\ Done(q)

Merge(q) ==
  LET S == request[q].sources IN
  /\ request[q].kind = "merge"
  /\ TakeSnapshot
  /\ \E d \in Types :
        /\ Replace(S, "archived", {d}, request[q].limit)
        /\ owner' = [r \in Records |-> IF r \in Live(S) THEN d ELSE owner[r]]
  /\ Done(q)
  /\ UNCHANGED knowledge

\* Without archive_knowledge a type with live records is refused.
Retire(q) ==
  LET S == request[q].sources IN
  /\ request[q].kind = "retire"
  /\ TakeSnapshot
  /\ Replace(S, "retired", {}, 1)
  /\ knowledge' = [r \in Records |-> IF r \in Live(S) THEN "archived" ELSE knowledge[r]]
  /\ Done(q)
  /\ UNCHANGED owner

\* The transaction fails: an unknown destination, a record of another type.
Refuse(q) ==
  /\ request[q] # Idle
  /\ Done(q)
  /\ UNCHANGED <<type, limit, owner, knowledge, snapshots>>

\* MUTANT of Revived: a retired type stays retired.
RevivedArchived(t, then) == then = "active" /\ type[t] = "archived"

\* A type active at the snapshot is active again, a retired one by way of
\* archived.
Revived(t, then) == then = "active" /\ type[t] \in {"archived", "retired"}

\* rollback_to_snapshot archives types that the snapshot does not know and
\* leaves those it knows as archived or retired as they are.
RollBack(k) ==
  LET s == snapshots[k] IN
  /\ TakeSnapshot
  /\ type' = [t \in Types |->
                IF s.type[t] = "none" /\ type[t] = "active" THEN "archived"
                ELSE IF Revived(t, s.type[t]) THEN "active" ELSE type[t]]
  /\ owner' = [r \in Records |-> IF s.owner[r] # None THEN s.owner[r] ELSE owner[r]]
  /\ UNCHANGED <<limit, agent, knowledge, request>>

-----------------------------------------------------------------------------
TopologyNext ==
  \/ \E t \in Types :
        \/ CreateType(t) \/ UpdateType(t)
        \/ \E r \in Records : AddKnowledge(r, t)
        \/ \E i \in Instances : CreateInstance(i, t) \/ LeaseOf(i, t)
        \/ \E q \in Requests : CheckSplit(q, t) \/ CheckRetire(q, t)
  \/ \E i \in Instances : AssignInstance(i) \/ FinishInstance(i)
  \/ \E q \in Requests :
        \/ \E S \in SUBSET Types : CheckMerge(q, S)
        \/ Split(q) \/ Merge(q) \/ Retire(q) \/ Refuse(q)
  \/ \E k \in DOMAIN snapshots : RollBack(k)

TopologySpec == TopologyInit /\ [][TopologyNext]_topologyVars

-----------------------------------------------------------------------------
(* Properties.                                                             *)

\* No step takes a type over the limit it has, however many start instances
\* at once ("the read-then-write race", agent_type_repository.py:325).
WithinLimit ==
  [][\A t \in Types : Cardinality(RunningOf(t)') > Cardinality(RunningOf(t))
                        => Cardinality(RunningOf(t)') <= limit'[t]]_topologyVars

\* A type that a migration takes out of service keeps no live knowledge,
\* whatever was added to it since it was checked.
NothingLeftBehind ==
  [][\A q \in Requests, t \in Types :
       request[q] # Idle /\ request'[q] = Idle /\ type[t] = "active" /\ type'[t] # "active"
         => \A r \in Records : owner'[r] = t => knowledge'[r] = "archived"]_topologyVars

\* A rollback brings back every type that was active, a retired one too, and
\* every record to the type it was with.
RollbackReturns ==
  [][\A k \in DOMAIN snapshots : RollBack(k) =>
       /\ \A t \in Types : snapshots[k].type[t] = "active" => type'[t] = "active"
       /\ \A r \in Records : snapshots[k].owner[r] # None
                               => owner'[r] = snapshots[k].owner[r]]_topologyVars

=============================================================================
