--------------------------- MODULE WorktreeProofs ----------------------------
(***************************************************************************)
(* Proofs about the worktrees of an execution, where tasks are worked on   *)
(* in them (AgentRuntime) and where they are merged (IntegrationService),  *)
(* and about the types of the agents that work in them (AgentTypes): for   *)
(* any tasks and dependencies, workers, works, callers, merges, types and  *)
(* requests, and for every way in which they interleave, fail or crash.    *)
(***************************************************************************)
EXTENDS IntegrationService, AgentRuntime, AgentTypes, FiniteSetTheorems, WellFoundedInduction, TLAPS

(***************************************************************************)
(* Types.                                                                  *)
(***************************************************************************)

LEMMA RestTypes == AnyWork \in Finished /\ Resting \in Client /\ Unmerged \in Merger
<1>1. AnyWork \in Finished
  BY SomeWork DEF AnyWork
<1> QED
  BY <1>1 DEF Resting, Client, Result, Class, Unmerged, Merger

LEMMA CommitTyped ==
  ASSUME MergesTypeOK, NEW m \in Mergers, NEW n \in 1..MaxMerges
  PROVE  /\ merger[m].work \in Finished
         /\ <<merger[m].work, n>> \in Commits
         /\ Integrated(m, n) \in SUBSET Commits
<1>1. merger[m] \in Merger
  BY DEF MergesTypeOK
<1>2. merger[m].work \in Finished /\ merger[m].sha \in SUBSET Commits
  BY <1>1 DEF Merger
<1>3. <<merger[m].work, n>> \in Commits
  BY <1>2 DEF Commits
<1>4. base[merger[m].work] \in SUBSET Commits
  BY <1>2 DEF MergesTypeOK
<1> QED
  BY <1>2, <1>3, <1>4 DEF Integrated, Work

LEMMA TypeWork ==
  ASSUME MergesTypeOK, NEW w \in Finished, WorkStep(w) PROVE MergesTypeOK'
<1>0. review[w] \in Review /\ proposal[w] \in Proposal
  BY DEF MergesTypeOK
<1>1. CASE Prepare(w)
  BY <1>1 DEF Prepare, MergesTypeOK
<1>2. CASE CreateReview(w)
  BY <1>0, <1>2 DEF CreateReview, MergesTypeOK, Review, ReviewState
<1>3. CASE Approve(w) \/ Reject(w) \/ Recover(w)
  BY <1>0, <1>3 DEF Approve, Reject, Recover, MergesTypeOK, Proposal, ProposalState
<1> QED
  BY <1>1, <1>2, <1>3 DEF WorkStep

LEMMA TypeReview ==
  ASSUME MergesTypeOK, NEW c \in Clients, ReviewStep(c) PROVE MergesTypeOK'
<1>0. client[c].work \in Finished /\ client[c].result \in Result /\ client[c].class \in Class
  BY DEF MergesTypeOK, Client
<1>1. CASE TestsRaise(c)
  BY <1>1, RestTypes DEF TestsRaise, ClientStep, MergesTypeOK
<1>2. CASE CommitRecord(c)
  BY <1>0, <1>2, RestTypes DEF CommitRecord, MergesTypeOK, Review, ReviewState
<1>3. CASE CommitPropose(c)
  <2>1. [NoProposal EXCEPT !.state = "proposed", !.checks = (client[c].result = "pass")] \in Proposal
    BY DEF NoProposal, Proposal, ProposalState
  <2> QED
    BY <1>0, <1>3, <2>1, RestTypes DEF CommitPropose, MergesTypeOK
<1>4. ASSUME NEW w \in Finished, BeginTests(c, w) PROVE MergesTypeOK'
  BY <1>4, RestTypes DEF BeginTests, ClientStep, MergesTypeOK, Client
<1>5. ASSUME NEW w \in Finished, BeginPropose(c, w) PROVE MergesTypeOK'
  BY <1>5 DEF BeginPropose, ClientStep, MergesTypeOK, Client, Review
<1>6. ASSUME NEW w \in Finished, NEW r \in Result, BeginRecord(c, w, r) PROVE MergesTypeOK'
  BY <1>6 DEF BeginRecord, ClientStep, MergesTypeOK, Client, Review, Class
<1> QED
  BY <1>1, <1>2, <1>3, <1>4, <1>5, <1>6 DEF ReviewStep

LEMMA TypeMerge ==
  ASSUME MergesTypeOK, NEW m \in Mergers, MergeStep(m) PROVE MergesTypeOK'
<1>0. /\ merger[m] \in Merger /\ merger[m].work \in Finished
      /\ merger[m].commit \in SUBSET Commits /\ merger[m].sha \in SUBSET Commits
  BY DEF MergesTypeOK, Merger
<1>1. ASSUME NEW w \in Finished, BeginMerge(m, w) PROVE MergesTypeOK'
  BY <1>1, RestTypes DEF BeginMerge, MergerStep, MergesTypeOK, Merger
<1>2. CASE MergeRefused(m) \/ MergeDone(m) \/ MergerDies(m)
  BY <1>2, RestTypes DEF MergeRefused, MergeDone, MergerDies, MergerStep, MergesTypeOK
<1>3. CASE ReadTarget(m)
  BY <1>0, <1>3 DEF ReadTarget, MergerStep, MergesTypeOK, Merger
<1>4. ASSUME NEW n \in 1..MaxMerges, Advance(m, n) PROVE MergesTypeOK'
  <2>1. [merger[m] EXCEPT !.pc = "moved", !.commit = Integrated(m, n)] \in Merger
    BY <1>0, CommitTyped DEF Merger
  <2> QED
    BY <1>4, <2>1, CommitTyped DEF Advance, Work, MergerStep, MergesTypeOK
<1>5. CASE Verify(m) \/ MergeFails(m)
  BY <1>0, <1>5 DEF Verify, MergeFails, MergerStep, MergesTypeOK, Merger
<1>6. CASE Link(m) \/ Record(m)
  <2>1. proposal' \in [Finished -> Proposal]
    BY <1>0, <1>6 DEF Link, Record, Work, MergesTypeOK, Proposal, ProposalState
  <2>2. merger' \in [Mergers -> Merger]
    BY <1>0, <1>6 DEF Link, Record, MergerStep, MergesTypeOK, Merger
  <2> QED
    BY <1>6, <2>1, <2>2 DEF Link, Record, MergerStep, MergesTypeOK
<1>7. CASE Undo(m)
  BY <1>0, <1>7, RestTypes DEF Undo, MergerStep, MergesTypeOK
<1> QED
  BY <1>1, <1>2, <1>3, <1>4, <1>5, <1>6, <1>7 DEF MergeStep

\* Every row of the database, the target ref and the local variables of every
\* request keep their types, whatever races, fails or crashes.
THEOREM MergeTypeCorrect == MergesSpec => []MergesTypeOK
<1>1. MergesInit => MergesTypeOK
  BY RestTypes, Classified DEF MergesInit, MergesTypeOK, Review, ReviewState, Result, Proposal,
     ProposalState, NoProposal
<1>2. MergesTypeOK /\ [MergesNext]_mergeVars => MergesTypeOK'
  <2> SUFFICES ASSUME MergesTypeOK, [MergesNext]_mergeVars PROVE MergesTypeOK'
    OBVIOUS
  <2>1. CASE UNCHANGED mergeVars
    BY <2>1 DEF mergeVars, MergesTypeOK
  <2>2. CASE Push
    BY <2>2 DEF Push, NextCommit, MergesTypeOK
  <2> QED
    BY <2>1, <2>2, TypeWork, TypeReview, TypeMerge DEF MergesNext
<1> QED
  BY <1>1, <1>2, PTL DEF MergesSpec

\* A merge goes on with the same work.
LEMMA MergeGoesOn ==
  ASSUME MergesTypeOK, NEW m \in Mergers,
         \/ ReadTarget(m) \/ Verify(m) \/ Link(m) \/ Record(m) \/ MergeFails(m)
         \/ \E n \in 1..MaxMerges : Advance(m, n)
  PROVE  /\ merger[m].pc # "idle"
         /\ merger'[m].work = merger[m].work
         /\ merger'[m].sha = IF Reached(m, "checked") THEN target ELSE merger[m].sha
         /\ \A x \in Mergers : x # m => merger'[x] = merger[x]
         /\ UNCHANGED <<base, review, client>>
<1>1. merger[m] \in Merger /\ merger \in [Mergers -> Merger]
  BY DEF MergesTypeOK
<1>2. CASE ReadTarget(m)
  BY <1>1, <1>2 DEF ReadTarget, MergerStep, Reached, Merger
<1>3. CASE Verify(m) \/ Link(m) \/ Record(m)
  BY <1>1, <1>3 DEF Verify, Link, Record, MergerStep, Reached, Merger
<1>4. CASE MergeFails(m)
  BY <1>1, <1>4 DEF MergeFails, MergerStep, Reached, Merger
<1>5. CASE \E n \in 1..MaxMerges : Advance(m, n)
  <2>1. PICK n \in 1..MaxMerges : Advance(m, n)
    BY <1>5
  <2> DEFINE r == [merger[m] EXCEPT !.pc = "moved", !.commit = Integrated(m, n)]
  <2>2. /\ merger[m].pc = "building"
        /\ merger' = [merger EXCEPT ![m] = r]
        /\ UNCHANGED <<base, review, client>>
    BY <2>1 DEF Advance, MergerStep, Reached
  <2>3. r.work = merger[m].work /\ r.sha = merger[m].sha
    BY <1>1 DEF Merger
  <2> HIDE DEF r
  <2> QED
    BY <1>1, <2>2, <2>3 DEF Reached
<1> QED
  BY <1>2, <1>3, <1>4, <1>5

(***************************************************************************)
(* Approval.  Every commit in any history comes from a merge that found    *)
(* its proposal approved, and approved_by is never cleared.                *)
(***************************************************************************)

HistoriesMade ==
  /\ target \subseteq made
  /\ \A w \in Finished : base[w] \subseteq made
  /\ \A m \in Mergers : merger[m].sha \subseteq made

ApprovalKept ==
  /\ \A w \in Finished :
       /\ proposal[w].state \in {"approved", "merged"} => proposal[w].by
       /\ proposal[w].checks \/ proposal[w].by => proposal[w].state # "none"
       /\ proposal[w].state # "none" => review[w].state # "none"
  /\ \A c \in Clients : client[c].pc # "idle" => review[client[c].work].state # "none"
  /\ \A m \in Mergers : merger[m].pc # "idle" => proposal[merger[m].work].by
  /\ \A w \in Finished, n \in 1..MaxMerges : <<w, n>> \in made => proposal[w].by

ApprovalInv == MergesTypeOK /\ HistoriesMade /\ ApprovalKept

LEMMA HistoriesStep ==
  ASSUME MergesTypeOK, HistoriesMade, [MergesNext]_mergeVars PROVE HistoriesMade'
<1>1. CASE UNCHANGED mergeVars
  BY <1>1 DEF mergeVars, HistoriesMade
<1>2. CASE Push
  BY <1>2 DEF Push, HistoriesMade
<1>3. ASSUME NEW w \in Finished, WorkStep(w) PROVE HistoriesMade'
  <2>1. CASE Prepare(w)
    BY <2>1 DEF Prepare, HistoriesMade, MergesTypeOK
  <2>2. CASE CreateReview(w) \/ Approve(w) \/ Reject(w) \/ Recover(w)
    BY <2>2 DEF CreateReview, Approve, Reject, Recover, HistoriesMade
  <2> QED
    BY <1>3, <2>1, <2>2 DEF WorkStep
<1>4. ASSUME NEW c \in Clients, ReviewStep(c) PROVE HistoriesMade'
  <2>1. UNCHANGED <<target, made, base, merger>>
    BY <1>4 DEF ReviewStep, TestsRaise, CommitRecord, CommitPropose, BeginTests, BeginPropose,
       BeginRecord, ClientStep
  <2> QED
    BY <2>1 DEF HistoriesMade
<1>5. ASSUME NEW m \in Mergers, MergeStep(m) PROVE HistoriesMade'
  <2>0. merger[m].work \in Finished
    BY DEF MergesTypeOK, Merger
  <2>1. CASE MergeRefused(m) \/ MergeDone(m) \/ MergerDies(m) \/ Undo(m)
    BY <2>1 DEF MergeRefused, MergeDone, MergerDies, Undo, MergerStep, Unmerged, HistoriesMade, MergesTypeOK
  <2>4. ASSUME NEW w \in Finished, BeginMerge(m, w) PROVE HistoriesMade'
    BY <2>4 DEF BeginMerge, MergerStep, Unmerged, HistoriesMade, MergesTypeOK
  <2>2. CASE ReadTarget(m) \/ Verify(m) \/ Link(m) \/ Record(m) \/ MergeFails(m)
    <3>1. target' = target /\ made' = made
      BY <2>2 DEF ReadTarget, Verify, Link, Record, MergeFails
    <3> QED
      BY <2>2, <3>1, MergeGoesOn DEF HistoriesMade
  <2>3. ASSUME NEW n \in 1..MaxMerges, Advance(m, n) PROVE HistoriesMade'
    BY <2>0, <2>3 DEF Advance, Integrated, Work, MergerStep, HistoriesMade, MergesTypeOK, Merger
  <2> QED
    BY <1>5, <2>1, <2>2, <2>3, <2>4 DEF MergeStep
<1> QED
  BY <1>1, <1>2, <1>3, <1>4, <1>5 DEF MergesNext

LEMMA ApprovalStep ==
  ASSUME MergesTypeOK, HistoriesMade, ApprovalKept, [MergesNext]_mergeVars PROVE ApprovalKept'
<1>1. CASE UNCHANGED mergeVars
  BY <1>1 DEF mergeVars, ApprovalKept
<1>2. CASE Push
  BY <1>2, DevIsNoWork DEF Push, ApprovalKept
<1>3. ASSUME NEW w \in Finished, WorkStep(w) PROVE ApprovalKept'
  <2>1. CASE Prepare(w)
    BY <2>1 DEF Prepare, ApprovalKept
  <2>2. CASE CreateReview(w)
    BY <2>2 DEF CreateReview, ApprovalKept, MergesTypeOK, Review, Client
  <2>3. CASE Approve(w)
    BY <2>3 DEF Approve, ApprovalKept, MergesTypeOK, Proposal, Merger
  <2>4. CASE Reject(w)
    BY <2>4 DEF Reject, ApprovalKept, MergesTypeOK, Proposal, Merger
  <2>5. CASE Recover(w)
    BY <2>5 DEF Recover, ApprovalKept, MergesTypeOK, Proposal, Merger
  <2> QED
    BY <1>3, <2>1, <2>2, <2>3, <2>4, <2>5 DEF WorkStep
<1>4. ASSUME NEW c \in Clients, ReviewStep(c) PROVE ApprovalKept'
  <2>0. client[c].work \in Finished
    BY DEF MergesTypeOK, Client
  <2>1. CASE TestsRaise(c)
    BY <2>1 DEF TestsRaise, ClientStep, Resting, ApprovalKept, MergesTypeOK
  <2>2. CASE CommitRecord(c)
    BY <2>0, <2>2 DEF CommitRecord, Resting, ApprovalKept, MergesTypeOK, Review, Client
  <2>3. CASE CommitPropose(c)
    BY <2>0, <2>3 DEF CommitPropose, Resting, NoProposal, ApprovalKept, MergesTypeOK, Proposal, Merger
  <2>4. ASSUME NEW w \in Finished, BeginTests(c, w) PROVE ApprovalKept'
    BY <2>4 DEF BeginTests, ClientStep, Resting, ApprovalKept, MergesTypeOK
  <2>5. ASSUME NEW w \in Finished, BeginPropose(c, w) PROVE ApprovalKept'
    BY <2>5 DEF BeginPropose, ClientStep, ApprovalKept, MergesTypeOK
  <2>6. ASSUME NEW w \in Finished, NEW r \in Result, BeginRecord(c, w, r) PROVE ApprovalKept'
    BY <2>6 DEF BeginRecord, ClientStep, ApprovalKept, MergesTypeOK
  <2> QED
    BY <1>4, <2>1, <2>2, <2>3, <2>4, <2>5, <2>6 DEF ReviewStep
<1>5. ASSUME NEW m \in Mergers, MergeStep(m) PROVE ApprovalKept'
  <2>0. merger[m].work \in Finished /\ \A x \in Mergers : merger[x].work \in Finished
    BY DEF MergesTypeOK, Merger
  <2>1. CASE MergeRefused(m) \/ MergeDone(m) \/ MergerDies(m) \/ Undo(m)
    BY <2>1 DEF MergeRefused, MergeDone, MergerDies, Undo, MergerStep, Unmerged, ApprovalKept, MergesTypeOK
  <2>2. ASSUME NEW w \in Finished, BeginMerge(m, w) PROVE ApprovalKept'
    BY <2>2 DEF BeginMerge, MergerStep, Unmerged, ApprovalKept, MergesTypeOK
  <2>3. CASE ReadTarget(m) \/ Verify(m) \/ MergeFails(m)
    <3>1. proposal' = proposal /\ made' = made
      BY <2>3 DEF ReadTarget, Verify, MergeFails
    <3> QED
      BY <2>3, <3>1, MergeGoesOn DEF ApprovalKept
  <2>4. CASE Link(m) \/ Record(m)
    <3>1. made' = made
      BY <2>4 DEF Link, Record
    <3>2. proposal[merger[m].work].by /\ proposal[merger[m].work] \in Proposal
      BY <2>0, <2>4, MergeGoesOn DEF ApprovalKept, MergesTypeOK
    <3>3. ASSUME NEW w \in Finished
          PROVE  /\ proposal'[w].by = proposal[w].by /\ proposal'[w].checks = proposal[w].checks
                 /\ \/ proposal'[w].state = proposal[w].state
                    \/ proposal'[w].state = "merged" /\ proposal[w].by
      BY <2>0, <2>4, <3>2 DEF Link, Record, Work, MergesTypeOK, Proposal
    <3> QED
      BY <2>0, <2>4, <3>1, <3>3, MergeGoesOn DEF ApprovalKept
  <2>5. ASSUME NEW n \in 1..MaxMerges, Advance(m, n) PROVE ApprovalKept'
    BY <2>0, <2>5 DEF Advance, Reached, Work, MergerStep, ApprovalKept, MergesTypeOK, Merger
  <2> QED
    BY <1>5, <2>1, <2>2, <2>3, <2>4, <2>5 DEF MergeStep
<1> QED
  BY <1>1, <1>2, <1>3, <1>4, <1>5 DEF MergesNext

LEMMA ApprovalAlways == MergesSpec => []ApprovalInv
<1>1. MergesInit => HistoriesMade /\ ApprovalKept
  BY DEF MergesInit, HistoriesMade, ApprovalKept, NoProposal, Resting, Unmerged
<1>2. MergesTypeOK /\ HistoriesMade /\ ApprovalKept /\ [MergesNext]_mergeVars => (HistoriesMade /\ ApprovalKept)'
  BY HistoriesStep, ApprovalStep
<1> QED
  BY <1>1, <1>2, MergeTypeCorrect, PTL DEF MergesSpec, ApprovalInv

\* Nothing reaches the target branch that no human approved, for any number
\* of works, callers and merges that race, fail and crash.
THEOREM OnlyApprovedWorkLands == MergesSpec => []OnlyApprovedLands
<1>1. ApprovalInv => OnlyApprovedLands
  <2> SUFFICES ASSUME ApprovalInv, NEW c \in Merges(target) PROVE proposal[c[1]].by
    BY DEF OnlyApprovedLands
  <2>1. c \in made /\ c \in Commits /\ c[1] # Dev
    BY DEF Merges, ApprovalInv, HistoriesMade, MergesTypeOK
  <2>2. PICK w \in Finished, n \in 1..MaxMerges : c = <<w, n>>
    BY <2>1 DEF Commits
  <2> QED
    BY <2>1, <2>2 DEF ApprovalInv, ApprovalKept
<1> QED
  BY <1>1, ApprovalAlways, PTL

(***************************************************************************)
(* One landing.  A source branch never contains its own work, and while a  *)
(* merge is being built the target it read is part of that branch.         *)
(***************************************************************************)

Once(commit) ==
  \A w \in Finished : \A m, n \in 1..MaxMerges :
    <<w, m>> \in commit /\ <<w, n>> \in commit => m = n

OnceKept ==
  /\ Once(target)
  /\ \A w \in Finished : Once(base[w]) /\ \A n \in 1..MaxMerges : <<w, n>> \notin base[w]
  /\ \A m \in Mergers :
       /\ Once(merger[m].sha)
       /\ merger[m].pc = "building" => merger[m].sha \subseteq base[merger[m].work]

LEMMA OnceEmpty == Once({})
BY DEF Once

LEMMA OnceStep ==
  ASSUME ApprovalInv, OnceKept, [MergesNext]_mergeVars PROVE OnceKept'
<1>0. MergesTypeOK
  BY DEF ApprovalInv
<1>1. CASE UNCHANGED mergeVars
  BY <1>1 DEF mergeVars, OnceKept, Once
<1>2. CASE Push
  BY <1>2, DevIsNoWork DEF Push, OnceKept, Once
<1>3. ASSUME NEW w \in Finished, WorkStep(w) PROVE OnceKept'
  <2>1. CASE Prepare(w)
    <3>1. \A n \in 1..MaxMerges : <<w, n>> \notin target
      BY <2>1 DEF Prepare, ApprovalInv, HistoriesMade, ApprovalKept
    <3>2. \A v \in Finished : base'[v] = IF v = w THEN target ELSE base[v]
      BY <1>0, <2>1 DEF Prepare, MergesTypeOK
    <3>3. UNCHANGED <<target, merger>> /\ review[w].state = "none"
      BY <2>1 DEF Prepare
    <3>4. \A m \in Mergers : merger[m].pc = "building" => merger[m].work \in Finished \ {w}
      BY <1>0, <3>3 DEF ApprovalInv, ApprovalKept, MergesTypeOK, Merger
    <3> QED
      BY <3>1, <3>2, <3>3, <3>4 DEF OnceKept, Once
  <2>2. CASE CreateReview(w) \/ Approve(w) \/ Reject(w) \/ Recover(w)
    BY <2>2 DEF CreateReview, Approve, Reject, Recover, OnceKept, Once
  <2> QED
    BY <1>3, <2>1, <2>2 DEF WorkStep
<1>4. ASSUME NEW c \in Clients, ReviewStep(c) PROVE OnceKept'
  <2>1. UNCHANGED <<target, made, base, merger>>
    BY <1>4 DEF ReviewStep, TestsRaise, CommitRecord, CommitPropose, BeginTests, BeginPropose,
       BeginRecord, ClientStep
  <2> QED
    BY <2>1 DEF OnceKept, Once
<1>5. ASSUME NEW m \in Mergers, MergeStep(m) PROVE OnceKept'
  <2>0. merger[m].work \in Finished
    BY <1>0 DEF MergesTypeOK, Merger
  <2>1. CASE MergeRefused(m) \/ MergeDone(m) \/ MergerDies(m) \/ Undo(m)
    <3>1. /\ \A x \in Mergers : merger'[x] = IF x = m THEN Unmerged ELSE merger[x]
          /\ UNCHANGED base /\ target' \in {target, merger[m].sha}
      BY <1>0, <2>1 DEF MergeRefused, MergeDone, MergerDies, Undo, MergerStep, MergesTypeOK
    <3>2. Unmerged.pc = "idle" /\ Unmerged.sha = {}
      BY DEF Unmerged
    <3>3. Once(target')
      BY <3>1 DEF OnceKept
    <3> QED
      BY <3>1, <3>2, <3>3, OnceEmpty DEF OnceKept
  <2>2. ASSUME NEW w \in Finished, BeginMerge(m, w) PROVE OnceKept'
    <3> DEFINE r == [Unmerged EXCEPT !.pc = "checked", !.work = w]
    <3>1. r.pc = "checked" /\ r.sha = {}
      BY DEF Unmerged
    <3>2. /\ \A x \in Mergers : merger'[x] = IF x = m THEN r ELSE merger[x]
          /\ UNCHANGED <<base, target>>
      BY <1>0, <2>2 DEF BeginMerge, MergerStep, MergesTypeOK
    <3> HIDE DEF r
    <3> QED
      BY <3>1, <3>2, OnceEmpty DEF OnceKept
  <2>3. CASE ReadTarget(m)
    <3>1. target \subseteq base[merger[m].work] /\ merger[m].pc = "checked" /\ target' = target
      BY <2>3 DEF ReadTarget, Reached, Work
    <3> QED
      BY <1>0, <2>3, <3>1, MergeGoesOn DEF OnceKept, Reached
  <2>4. CASE Verify(m) \/ Link(m) \/ Record(m) \/ MergeFails(m)
    <3>1. target' = target /\ merger'[m].pc # "building" /\ merger[m].pc # "checked"
      BY <1>0, <2>4 DEF Verify, Link, Record, MergeFails, MergerStep, Reached, MergesTypeOK, Merger
    <3> QED
      BY <1>0, <2>4, <3>1, MergeGoesOn DEF OnceKept, Reached
  <2>5. ASSUME NEW n \in 1..MaxMerges, Advance(m, n) PROVE OnceKept'
    <3>1. merger[m].pc = "building" /\ merger'[m].pc = "moved"
      BY <1>0, <2>5 DEF Advance, MergerStep, Reached, MergesTypeOK, Merger
    <3>2. target' = base[merger[m].work] \cup {<<merger[m].work, n>>}
      BY <2>5, <3>1 DEF Advance, Integrated, Work, OnceKept
    <3>3. Once(target')
      BY <2>0, <3>2 DEF OnceKept, Once
    <3> QED
      BY <1>0, <2>5, <3>1, <3>3, MergeGoesOn DEF OnceKept, Reached
  <2> QED
    BY <1>5, <2>1, <2>2, <2>3, <2>4, <2>5 DEF MergeStep
<1> QED
  BY <1>1, <1>2, <1>3, <1>4, <1>5 DEF MergesNext

\* The work of an execution is in the target branch at most once, however
\* its merge is retried, undone or requested again: the check that the
\* sources contain the target is enough, without any lock.
THEOREM WorkLandsOnce == MergesSpec => []LandsOnce
<1>1. MergesInit => OnceKept
  BY DEF MergesInit, OnceKept, Once, Unmerged
<1>2. ApprovalInv /\ OnceKept /\ [MergesNext]_mergeVars => OnceKept'
  BY OnceStep
<1>3. ApprovalInv /\ OnceKept => LandsOnce
  <2> SUFFICES ASSUME ApprovalInv, OnceKept, NEW c \in Merges(target), NEW d \in Merges(target),
                      c[1] = d[1]
               PROVE  c = d
    BY DEF LandsOnce
  <2>1. /\ c \in target /\ c \in Commits /\ c[1] # Dev
        /\ d \in target /\ d \in Commits /\ d[1] # Dev
    BY DEF Merges, ApprovalInv, MergesTypeOK
  <2>2. PICK w \in Finished, n \in 1..MaxMerges : c = <<w, n>>
    BY <2>1 DEF Commits
  <2>3. PICK v \in Finished, k \in 1..MaxMerges : d = <<v, k>>
    BY <2>1 DEF Commits
  <2> QED
    BY <2>1, <2>2, <2>3 DEF OnceKept, Once
<1> QED
  BY <1>1, <1>2, <1>3, ApprovalAlways, PTL DEF MergesSpec

\* What has landed of a work was approved by a person and landed once.
THEOREM LandsOnApproval == MergesSpec => []ApprovedLandsOnce
<1>1. OnlyApprovedLands /\ LandsOnce <=> ApprovedLandsOnce
  BY DEF ApprovedLandsOnce
<1> QED
  BY <1>1, OnlyApprovedWorkLands, WorkLandsOnce, PTL

(***************************************************************************)
(* Evidence.  A merge that moved the target holds its commit until it is   *)
(* stored, and only then is the proposal merged.                           *)
(***************************************************************************)

Own(w, commit) == \E n \in 1..MaxMerges : <<w, n>> \in commit

EvidenceKept ==
  /\ \A m \in Mergers :
       /\ merger[m].pc \in {"moved", "verified"} => Own(merger[m].work, merger[m].commit)
       /\ merger[m].pc = "linked" => Own(merger[m].work, proposal[merger[m].work].link)
  /\ \A w \in Finished :
       /\ proposal[w].link # {} => Own(w, proposal[w].link)
       /\ proposal[w].state = "merged" => Own(w, proposal[w].link)

\* A step that leaves the evidence and the merges alone.
LEMMA EvidenceQuiet ==
  ASSUME EvidenceKept, UNCHANGED merger,
         \A w \in Finished : /\ proposal'[w].link = proposal[w].link
                             /\ proposal'[w].state = "merged" =>
                                  proposal[w].state = "merged" \/ proposal[w].link # {},
         \A m \in Mergers : merger[m].work \in Finished
  PROVE  EvidenceKept'
BY DEF EvidenceKept, Own

LEMMA EvidenceStep ==
  ASSUME ApprovalInv, EvidenceKept, [MergesNext]_mergeVars PROVE EvidenceKept'
<1>0. MergesTypeOK /\ \A m \in Mergers : merger[m].work \in Finished
  BY DEF ApprovalInv, MergesTypeOK, Merger
<1>1. CASE UNCHANGED mergeVars
  BY <1>0, <1>1, EvidenceQuiet DEF mergeVars
<1>2. CASE Push
  BY <1>0, <1>2, EvidenceQuiet DEF Push
<1>3. ASSUME NEW w \in Finished, WorkStep(w) PROVE EvidenceKept'
  <2>1. UNCHANGED merger
    BY <1>3 DEF WorkStep, Prepare, CreateReview, Approve, Reject, Recover
  <2>2. ASSUME NEW v \in Finished
        PROVE  /\ proposal'[v].link = proposal[v].link
               /\ proposal'[v].state = "merged" => proposal[v].state = "merged" \/ proposal[v].link # {}
    BY <1>0, <1>3 DEF WorkStep, Prepare, CreateReview, Approve, Reject, Recover, MergesTypeOK, Proposal
  <2> QED
    BY <1>0, <2>1, <2>2, EvidenceQuiet
<1>4. ASSUME NEW c \in Clients, ReviewStep(c) PROVE EvidenceKept'
  <2>1. CASE CommitPropose(c)
    <3>1. UNCHANGED merger /\ client[c].work \in Finished
      BY <1>0, <2>1 DEF CommitPropose, MergesTypeOK, Client
    <3>2. ASSUME NEW m \in Mergers, merger[m].pc = "linked"
          PROVE  proposal'[merger[m].work] = proposal[merger[m].work]
      BY <1>0, <2>1, <3>1, <3>2 DEF CommitPropose, ApprovalInv, ApprovalKept, MergesTypeOK
    <3>3. ASSUME NEW w \in Finished
          PROVE  \/ proposal'[w] = proposal[w]
                 \/ proposal'[w].link = {} /\ proposal'[w].state = "proposed"
      BY <1>0, <2>1, <3>1 DEF CommitPropose, MergesTypeOK, NoProposal
    <3> QED
      BY <1>0, <3>1, <3>2, <3>3 DEF EvidenceKept
  <2>2. CASE ~CommitPropose(c)
    <3>1. UNCHANGED <<proposal, merger>>
      BY <1>4, <2>2 DEF ReviewStep, TestsRaise, CommitRecord, BeginTests, BeginPropose,
         BeginRecord, ClientStep
    <3> QED
      BY <1>0, <3>1, EvidenceQuiet
  <2> QED
    BY <2>1, <2>2
<1>5. ASSUME NEW m \in Mergers, MergeStep(m) PROVE EvidenceKept'
  <2>1. CASE \/ MergeRefused(m) \/ MergeDone(m) \/ MergerDies(m) \/ Undo(m)
             \/ \E w \in Finished : BeginMerge(m, w)
    <3>1. CASE MergeRefused(m) \/ MergeDone(m) \/ MergerDies(m) \/ Undo(m)
      BY <1>0, <3>1 DEF MergeRefused, MergeDone, MergerDies, Undo, MergerStep, Unmerged, MergesTypeOK,
         EvidenceKept
    <3>2. ASSUME NEW w \in Finished, BeginMerge(m, w) PROVE EvidenceKept'
      BY <1>0, <3>2 DEF BeginMerge, MergerStep, Unmerged, MergesTypeOK, EvidenceKept
    <3> QED
      BY <2>1, <3>1, <3>2
  <2>2. CASE ReadTarget(m) \/ MergeFails(m)
    <3>1. proposal' = proposal /\ merger'[m].pc \in {"building", "undoing"}
      BY <1>0, <2>2 DEF ReadTarget, MergeFails, MergerStep, MergesTypeOK, Merger
    <3> QED
      BY <1>0, <2>2, <3>1, MergeGoesOn DEF EvidenceKept
  <2>3. ASSUME NEW n \in 1..MaxMerges, Advance(m, n) PROVE EvidenceKept'
    <3>1. proposal' = proposal /\ merger'[m].pc = "moved" /\ merger'[m].commit = Integrated(m, n)
      BY <1>0, <2>3 DEF Advance, MergerStep, MergesTypeOK, Merger
    <3>2. Own(merger[m].work, merger'[m].commit)
      BY <3>1 DEF Own, Integrated, Work
    <3> QED
      BY <1>0, <2>3, <3>1, <3>2, MergeGoesOn DEF EvidenceKept
  <2>4. CASE Verify(m)
    <3>1. /\ proposal' = proposal /\ merger'[m].pc = "verified" /\ merger[m].pc = "moved"
          /\ merger'[m].commit = merger[m].commit
      BY <1>0, <2>4 DEF Verify, MergerStep, Reached, MergesTypeOK, Merger
    <3> QED
      BY <1>0, <2>4, <3>1, MergeGoesOn DEF EvidenceKept
  <2>5. CASE Link(m)
    <3>1. merger[m].pc = "verified" /\ merger'[m].pc = "linked"
      BY <1>0, <2>5 DEF Link, MergerStep, Reached, MergesTypeOK, Merger
    <3>2. \A w \in Finished : /\ proposal'[w].state = proposal[w].state
                              /\ proposal'[w].link = IF w = merger[m].work THEN merger[m].commit
                                                     ELSE proposal[w].link
      BY <1>0, <2>5 DEF Link, Work, MergesTypeOK, Proposal
    <3>3. Own(merger[m].work, merger[m].commit)
      BY <3>1 DEF EvidenceKept
    <3> QED
      BY <1>0, <2>5, <3>1, <3>2, <3>3, MergeGoesOn DEF EvidenceKept
  <2>6. CASE Record(m)
    <3>1. merger[m].pc = "linked" /\ merger'[m].pc = "recorded"
      BY <1>0, <2>6 DEF Record, MergerStep, Reached, MergesTypeOK, Merger
    <3>2. \A w \in Finished : /\ proposal'[w].link = proposal[w].link
                              /\ w # merger[m].work => proposal'[w].state = proposal[w].state
      BY <1>0, <2>6 DEF Record, Work, MergesTypeOK, Proposal
    <3>3. Own(merger[m].work, proposal[merger[m].work].link)
      BY <3>1 DEF EvidenceKept
    <3> QED
      BY <1>0, <2>6, <3>1, <3>2, <3>3, MergeGoesOn DEF EvidenceKept
  <2> QED
    BY <1>5, <2>1, <2>2, <2>3, <2>4, <2>5, <2>6 DEF MergeStep
<1> QED
  BY <1>1, <1>2, <1>3, <1>4, <1>5 DEF MergesNext

\* A merged proposal names the commit it produced, wherever a crash or a
\* failure falls between the steps that store the two.
THEOREM EvidenceBeforeState == MergesSpec => []MergedHasEvidence
<1>1. MergesInit => EvidenceKept
  BY DEF MergesInit, EvidenceKept, NoProposal, Unmerged
<1>2. ApprovalInv /\ EvidenceKept /\ [MergesNext]_mergeVars => EvidenceKept'
  BY EvidenceStep
<1>3. EvidenceKept => MergedHasEvidence
  BY DEF EvidenceKept, Own, MergedHasEvidence
<1> QED
  BY <1>1, <1>2, <1>3, ApprovalAlways, PTL DEF MergesSpec

(***************************************************************************)
(* Product decisions.  A review classified for a human stays classified so *)
(* in every read that a result is computed from.                           *)
(***************************************************************************)

Human(w) == Conflict[w] = "human_decision_required"

HumanKept ==
  /\ \A w \in Finished : Human(w) =>
       /\ review[w].class = "human_decision_required"
       /\ review[w].state # "approved"
       /\ proposal[w].state = "none"
  /\ \A c \in Clients : Human(client[c].work) =>
       /\ client[c].pc # "proposing"
       /\ client[c].pc = "recording" => client[c].class = "human_decision_required"

LEMMA HumanStep ==
  ASSUME ApprovalInv, HumanKept, [MergesNext]_mergeVars PROVE HumanKept'
<1>0. MergesTypeOK /\ \A c \in Clients : client[c].work \in Finished
  BY DEF ApprovalInv, MergesTypeOK, Client
<1>1. CASE UNCHANGED mergeVars
  BY <1>1 DEF mergeVars, HumanKept, Human
<1>2. CASE Push
  BY <1>2 DEF Push, HumanKept, Human
<1>3. ASSUME NEW w \in Finished, WorkStep(w) PROVE HumanKept'
  <2>1. CASE Prepare(w)
    BY <2>1 DEF Prepare, HumanKept, Human
  <2>2. CASE CreateReview(w)
    BY <1>0, <2>2 DEF CreateReview, HumanKept, Human, MergesTypeOK, Review
  <2>3. CASE Approve(w) \/ Reject(w) \/ Recover(w)
    <3>1. proposal[w].state # "none" /\ UNCHANGED <<review, client>>
      BY <2>3 DEF Approve, Reject, Recover, ApprovalInv, ApprovalKept
    <3>2. \A v \in Finished : v # w => proposal'[v] = proposal[v]
      BY <1>0, <2>3 DEF Approve, Reject, Recover, MergesTypeOK
    <3> QED
      BY <3>1, <3>2 DEF HumanKept, Human
  <2> QED
    BY <1>3, <2>1, <2>2, <2>3 DEF WorkStep
<1>4. ASSUME NEW c \in Clients, ReviewStep(c) PROVE HumanKept'
  <2>1. CASE TestsRaise(c)
    BY <1>0, <2>1 DEF TestsRaise, ClientStep, Resting, HumanKept, Human, MergesTypeOK
  <2>2. CASE CommitRecord(c)
    BY <1>0, <2>2 DEF CommitRecord, Resting, HumanKept, Human, MergesTypeOK, Review
  <2>3. CASE CommitPropose(c)
    BY <1>0, <2>3 DEF CommitPropose, Resting, HumanKept, Human, MergesTypeOK
  <2>4. ASSUME NEW w \in Finished, BeginTests(c, w) PROVE HumanKept'
    BY <1>0, <2>4 DEF BeginTests, ClientStep, Resting, HumanKept, Human, MergesTypeOK
  <2>5. ASSUME NEW w \in Finished, BeginPropose(c, w) PROVE HumanKept'
    BY <1>0, <2>5 DEF BeginPropose, ClientStep, HumanKept, Human, MergesTypeOK
  <2>6. ASSUME NEW w \in Finished, NEW r \in Result, BeginRecord(c, w, r) PROVE HumanKept'
    BY <1>0, <2>6 DEF BeginRecord, ClientStep, HumanKept, Human, MergesTypeOK
  <2> QED
    BY <1>4, <2>1, <2>2, <2>3, <2>4, <2>5, <2>6 DEF ReviewStep
<1>5. ASSUME NEW m \in Mergers, MergeStep(m) PROVE HumanKept'
  <2>1. UNCHANGED <<review, client>>
    BY <1>5 DEF MergeStep, ReadTarget, MergeRefused, Verify, Link, Record, MergeDone, MergeFails,
       Undo, MergerDies, BeginMerge, Advance, MergerStep
  <2>2. CASE Link(m) \/ Record(m)
    <3>1. /\ proposal[merger[m].work].state # "none" /\ merger[m].work \in Finished
          /\ \A v \in Finished : v # merger[m].work => proposal'[v] = proposal[v]
      BY <1>0, <2>2 DEF Link, Record, Reached, Work, ApprovalInv, ApprovalKept, MergesTypeOK, Merger
    <3> QED
      BY <2>1, <3>1 DEF HumanKept, Human
  <2>3. CASE ~Link(m) /\ ~Record(m)
    <3>1. UNCHANGED proposal
      BY <1>5, <2>3 DEF MergeStep, ReadTarget, MergeRefused, Verify, MergeDone, MergeFails,
         Undo, MergerDies, BeginMerge, Advance
    <3> QED
      BY <2>1, <3>1 DEF HumanKept, Human
  <2> QED
    BY <2>2, <2>3
<1> QED
  BY <1>1, <1>2, <1>3, <1>4, <1>5 DEF MergesNext

\* Work whose conflicts need a product decision is never approved by passing
\* tests, never proposed and never merged, however test results race.
THEOREM ProductDecisionsReturn == MergesSpec => []HumanDecides
<1>1. MergesInit => HumanKept
  BY DEF MergesInit, HumanKept, Human, NoProposal, Resting
<1>2. ApprovalInv /\ HumanKept /\ [MergesNext]_mergeVars => HumanKept'
  BY HumanStep
<1>3. ApprovalInv /\ HumanKept => HumanDecides
  <2> SUFFICES ASSUME ApprovalInv, HumanKept, NEW w \in Finished, Human(w),
                      NEW c \in target, c[1] = w
               PROVE  FALSE
    BY DEF HumanKept, Human, HumanDecides
  <2>1. c \in Commits /\ c \in made
    BY DEF ApprovalInv, HistoriesMade, MergesTypeOK
  <2>2. PICK v \in Finished, n \in 1..MaxMerges : c = <<v, n>>
    BY <2>1, DevIsNoWork DEF Commits
  <2> QED
    BY <2>1, <2>2 DEF ApprovalInv, ApprovalKept, HumanKept
<1> QED
  BY <1>1, <1>2, <1>3, ApprovalAlways, PTL DEF MergesSpec

(***************************************************************************)
(* History.                                                                *)
(***************************************************************************)

\* The target ref moves forward only, except where a failed merge puts it
\* back: no merge overwrites a merge or a push that came first.
THEOREM HistoryKept == MergesSpec => AdvanceKeepsHistory
<1>1. [MergesNext]_mergeVars => [target \subseteq target' \/ \E m \in Mergers : Reached(m, "undoing")]_mergeVars
  <2> SUFFICES ASSUME MergesNext PROVE target \subseteq target' \/ \E m \in Mergers : Reached(m, "undoing")
    OBVIOUS
  <2>1. CASE Push
    BY <2>1 DEF Push
  <2>2. ASSUME NEW w \in Finished, WorkStep(w) PROVE target \subseteq target'
    BY <2>2 DEF WorkStep, Prepare, CreateReview, Approve, Reject, Recover
  <2>3. ASSUME NEW c \in Clients, ReviewStep(c) PROVE target \subseteq target'
    BY <2>3 DEF ReviewStep, TestsRaise, CommitRecord, CommitPropose, BeginTests, BeginPropose,
       BeginRecord, ClientStep
  <2>4. ASSUME NEW m \in Mergers, MergeStep(m)
        PROVE  target \subseteq target' \/ Reached(m, "undoing")
    <3>1. ASSUME NEW n \in 1..MaxMerges, Advance(m, n) PROVE target \subseteq target'
      BY <3>1 DEF Advance, Integrated
    <3>2. CASE Undo(m)
      BY <3>2 DEF Undo
    <3>3. CASE \/ ReadTarget(m) \/ MergeRefused(m) \/ Verify(m) \/ Link(m) \/ Record(m)
               \/ MergeDone(m) \/ MergeFails(m) \/ MergerDies(m)
               \/ \E w \in Finished : BeginMerge(m, w)
      BY <3>3 DEF ReadTarget, MergeRefused, Verify, Link, Record, MergeDone, MergeFails, MergerDies,
         BeginMerge
    <3> QED
      BY <2>4, <3>1, <3>2, <3>3 DEF MergeStep
  <2> QED
    BY <2>1, <2>2, <2>3, <2>4 DEF MergesNext
<1> QED
  BY <1>1, PTL DEF MergesSpec, AdvanceKeepsHistory

-----------------------------------------------------------------------------
(***************************************************************************)
(* AgentRuntime: the proofs follow run_task from the claim to the report.  *)
(* The lemmas come in the order of the parts of the invariant RunInv: who  *)
(* owns a task, who is at work, in which order rows come into being, who   *)
(* holds a slot, what a retry finds, what stays of accepted work and what  *)
(* branches are built on.                                                  *)
(***************************************************************************)
(* Types.                                                                  *)

LEMMA FreeTyped ==
  /\ Free \in WorkerState
  /\ Free.pc = "idle"
  /\ \A a \in Attempts : a[1] \in Tasks
<1>1. (CHOOSE a \in Attempts : TRUE) \in Attempts
  BY BoundedAttempts
<1>2. \A a \in Attempts : a[1] \in Tasks
  BY AttemptsOfTasks
<1> QED
  BY <1>1, <1>2 DEF Free, WorkerState, Pcs, SettingUp, WorktreeState, Outcomes

LEMMA SetTasksTyped ==
  ASSUME NEW s \in [Tasks -> TaskState], exec \in ExecState, SetTasks(s)
  PROVE  exec' \in ExecState /\ task' \in [Tasks -> TaskState]
BY DEF SetTasks, ExecState, TaskState

LEMMA ReclaimTyped ==
  ASSUME TypeOK, Reclaim
  PROVE  /\ exec' \in ExecState
         /\ task' \in [Tasks -> TaskState]
         /\ att' \in [Attempts -> AttState]
         /\ instance' \in [Attempts -> InstanceState]
<1> DEFINE lost == {t \in Tasks : task[t] = "running" /\ \A a \in Of(t) : att[a] # "running"}
<1>1. [t \in Tasks |-> IF t \in lost THEN "ready" ELSE task[t]] \in [Tasks -> TaskState]
  BY DEF TypeOK, TaskState
<1>2. exec' \in ExecState /\ task' \in [Tasks -> TaskState]
  BY <1>1, SetTasksTyped DEF Reclaim, TypeOK
<1> QED
  BY <1>2 DEF Reclaim, TypeOK, AttState, InstanceState

LEMMA WorkerTyped ==
  ASSUME TypeOK, NEW w \in Workers
  PROVE  /\ worker[w] \in WorkerState
         /\ At(w) \in Attempts /\ At(w)[1] \in Tasks
         /\ worker[w].stale \subseteq Attempts
         /\ worker[w].merge \subseteq Attempts
         /\ worker[w].seen \in WorktreeState
         /\ worker[w].outcome \in Outcomes
BY FreeTyped DEF TypeOK, WorkerState, At

\* The bases git is given for an attempt's worktree.
Bases(a, found) == IF found THEN UNION {LatestSucceeded(d) : d \in DependsOn[a[1]]} ELSE {}

LEMMA BasesTyped ==
  ASSUME TypeOK, NEW a \in Attempts, NEW found \in BOOLEAN, NEW first
  PROVE  /\ Bases(a, found) \subseteq Attempts
         /\ UNION {branch[b] : b \in Bases(a, found) \ first} \subseteq Attempts
<1>1. Bases(a, found) \subseteq Attempts
  BY DEF Bases, LatestSucceeded, Of
<1>2. \A b \in Attempts : branch[b] \subseteq Attempts
  BY DEF TypeOK, WorktreesTypeOK
<1> QED
  BY <1>1, <1>2

\* What a worker that added its worktree found.
Added(w, found, first, s, seen) ==
  /\ worker[w].pc = "leased"
  /\ AddDirectory(At(w), UNION {branch[b] : b \in first})
  /\ first = {} => Bases(At(w), found) = {}
  /\ s = {} => Stale(At(w)[1]) = {}
  /\ \A b, c \in s : b = c
  /\ \A b \in s : seen = row[b]
  /\ worker' = [worker EXCEPT ![w].pc = "added", ![w].stale = s, ![w].seen = seen,
                             ![w].merge = UNION {branch[b] : b \in Bases(At(w), found) \ first}]
  /\ degraded' = IF found THEN degraded ELSE degraded \cup {At(w)}
  /\ UNCHANGED <<runVars, keeper, meddled>>

LEMMA AddWorktreeFinds ==
  ASSUME TypeOK, NEW w \in Workers, AddWorktree(w)
  PROVE  \E found \in BOOLEAN :
           \E first \in SUBSET Bases(At(w), found), s \in SUBSET Stale(At(w)[1]), seen \in WorktreeState :
             Added(w, found, first, s, seen)
<1> DEFINE a == At(w)
<1>1. a \in Attempts /\ worker[w] \in WorkerState /\ worker \in [Workers -> WorkerState]
  BY WorkerTyped DEF TypeOK
<1>2. PICK found \in BOOLEAN :
        /\ \E first \in IF Bases(a, found) = {} THEN {{}} ELSE {{b} : b \in Bases(a, found)} :
              /\ AddDirectory(a, UNION {branch[b] : b \in first})
              /\ \E s \in IF Stale(a[1]) = {} THEN {{}} ELSE {{b} : b \in Stale(a[1])} :
                    worker' = [worker EXCEPT ![w] =
                      [@ EXCEPT !.pc = "added", !.stale = s,
                                !.seen = IF s = {} THEN "none" ELSE row[CHOOSE b \in s : TRUE],
                                !.merge = UNION {branch[b] : b \in Bases(a, found) \ first}]]
        /\ degraded' = IF found THEN degraded ELSE degraded \cup {a}
  BY ZenonT(60) DEF AddWorktree, Bases
<1>3. PICK first \in IF Bases(a, found) = {} THEN {{}} ELSE {{b} : b \in Bases(a, found)} :
              /\ AddDirectory(a, UNION {branch[b] : b \in first})
              /\ \E s \in IF Stale(a[1]) = {} THEN {{}} ELSE {{b} : b \in Stale(a[1])} :
                    worker' = [worker EXCEPT ![w] =
                      [@ EXCEPT !.pc = "added", !.stale = s,
                                !.seen = IF s = {} THEN "none" ELSE row[CHOOSE b \in s : TRUE],
                                !.merge = UNION {branch[b] : b \in Bases(a, found) \ first}]]
  BY <1>2
<1>4. PICK s \in IF Stale(a[1]) = {} THEN {{}} ELSE {{b} : b \in Stale(a[1])} :
                    worker' = [worker EXCEPT ![w] =
                      [@ EXCEPT !.pc = "added", !.stale = s,
                                !.seen = IF s = {} THEN "none" ELSE row[CHOOSE b \in s : TRUE],
                                !.merge = UNION {branch[b] : b \in Bases(a, found) \ first}]]
  BY <1>3
<1> DEFINE seen == IF s = {} THEN "none" ELSE row[CHOOSE b \in s : TRUE]
<1>5. first \in SUBSET Bases(a, found) /\ (first = {} => Bases(a, found) = {})
  BY <1>3
<1>6. s \in SUBSET Stale(a[1]) /\ (s = {} => Stale(a[1]) = {}) /\ \A b, c \in s : b = c
  BY <1>4
<1>7. s # {} => (CHOOSE b \in s : TRUE) \in s
  OBVIOUS
<1>8. \A b \in s : seen = row[b]
  BY <1>6, <1>7
<1>9. seen \in WorktreeState
  BY <1>6, <1>7 DEF Stale, Of, TypeOK, WorktreesTypeOK, WorktreeState
<1>10. worker' = [worker EXCEPT ![w].pc = "added", ![w].stale = s, ![w].seen = seen,
                             ![w].merge = UNION {branch[b] : b \in Bases(a, found) \ first}]
  BY <1>1, <1>4
<1>11. worker[w].pc = "leased" /\ UNCHANGED <<runVars, keeper, meddled>>
  BY DEF AddWorktree
<1> HIDE DEF seen
<1> QED
  BY <1>2, <1>3, <1>5, <1>6, <1>8, <1>9, <1>10, <1>11 DEF Added

\* What one step of a worker leaves alone.
LEMMA WorkerMoves ==
  ASSUME TypeOK, NEW w \in Workers, WorkerStep(w)
  PROVE  /\ worker' \in [Workers -> WorkerState]
         /\ \A v \in Workers \ {w} : worker'[v] = worker[v]
         /\ worker'[w] = Free \/ (worker'[w].at = At(w) /\ worker'[w].pc # "idle")
         /\ worker[w].pc # "idle"
         /\ keeper' = keeper
<1>0. worker[w] \in WorkerState /\ worker \in [Workers -> WorkerState]
  BY DEF TypeOK
<1>1. CASE LeaseInstance(w)
  BY <1>0, <1>1 DEF LeaseInstance, Goto, At, WorkerState, Pcs, SettingUp
<1>10. CASE LeaseDenied(w) \/ SetupFails(w)
  BY <1>0, <1>10 DEF LeaseDenied, SetupFails, Break, At, WorkerState, Pcs, SettingUp, Outcomes
<1>2. CASE LeaseRaises(w) \/ ReportOutcome(w)
  BY <1>0, <1>2, FreeTyped DEF LeaseRaises, ReportOutcome
<1>3. CASE AddWorktree(w)
  <2>0. PICK found \in BOOLEAN :
          \E first \in SUBSET Bases(At(w), found), s \in SUBSET Stale(At(w)[1]), seen \in WorktreeState :
             Added(w, found, first, s, seen)
    BY <1>3, AddWorktreeFinds
  <2>1. PICK first \in SUBSET Bases(At(w), found), s \in SUBSET Stale(At(w)[1]), seen \in WorktreeState :
          Added(w, found, first, s, seen)
    BY <2>0
  <2> DEFINE mm == UNION {branch[b] : b \in Bases(At(w), found) \ first}
  <2>2. s \subseteq Attempts /\ mm \subseteq Attempts
    BY BasesTyped, WorkerTyped DEF Stale, Of
  <2>3. worker' = [worker EXCEPT ![w].pc = "added", ![w].stale = s, ![w].seen = seen, ![w].merge = mm]
    BY <2>1 DEF Added
  <2> HIDE DEF mm
  <2> QED
    <3> DEFINE r == [worker[w] EXCEPT !.pc = "added", !.stale = s, !.seen = seen, !.merge = mm]
    <3>1. r \in WorkerState /\ r.at = At(w) /\ r.pc = "added"
      BY <1>0, <2>2 DEF At, WorkerState, Pcs, SettingUp
    <3>2. worker' = [worker EXCEPT ![w] = r]
      BY <1>0, <2>3
    <3>3. worker[w].pc = "leased" /\ keeper' = keeper
      BY <2>1 DEF Added
    <3> HIDE DEF r
    <3>4. worker' \in [Workers -> WorkerState] /\ worker'[w] = r /\ \A v \in Workers \ {w} : worker'[v] = worker[v]
      BY <1>0, <3>1, <3>2
    <3> QED
      BY <3>1, <3>3, <3>4
<1>4. CASE AbandonStale(w) \/ ActivateWorktree(w)
  BY <1>0, <1>4 DEF AbandonStale, ActivateWorktree, At, WorkerState, Pcs, SettingUp, WorktreeState
<1>5. CASE InsertWorktree(w)
  BY <1>0, <1>5 DEF InsertWorktree, Goto, Break, At, WorkerState, Pcs, SettingUp, Outcomes
<1>6. CASE UseTool(w)
  BY <1>0, <1>6 DEF UseTool, At
<1>7. CASE LoopEnds(w) \/ CollectEvidence(w)
  BY <1>0, <1>7 DEF LoopEnds, CollectEvidence, Goto, Break, At, WorkerState, Pcs, SettingUp, Outcomes
<1>8. CASE CommitWorktree(w) \/ CloseWorktree(w)
  BY <1>0, <1>8 DEF CommitWorktree, CloseWorktree, Goto, At, WorkerState, Pcs, SettingUp
<1>9. CASE CompleteTask(w)
  BY <1>0, <1>9, FreeTyped DEF CompleteTask, Break, At, WorkerState, Pcs, SettingUp, Outcomes
<1> QED
  BY <1>1, <1>2, <1>3, <1>4, <1>5, <1>6, <1>7, <1>8, <1>9, <1>10 DEF WorkerStep

\* The insertion order of a task's rows is counted over finitely many.
LEMMA Counted ==
  ASSUME NEW a \in Attempts
  PROVE  /\ IsFiniteSet({b \in Of(a[1]) : age[b] > 0})
         /\ Cardinality({b \in Of(a[1]) : age[b] > 0}) \in Nat
<1>1. {b \in Of(a[1]) : age[b] > 0} \subseteq Attempts
  BY DEF Of
<1>2. IsFiniteSet({b \in Of(a[1]) : age[b] > 0})
  BY <1>1, BoundedAttempts, FS_Subset
<1> QED
  BY <1>2, FS_CardinalityType

LEMMA WorktreeTypes ==
  ASSUME WorktreesTypeOK, NEW a \in Attempts,
         \/ UNCHANGED wtVars
         \/ \E s \in WorktreeState : SetState(a, s)
         \/ \E s \in SUBSET Attempts : AddDirectory(a, s)
         \/ \E s \in WorktreeState : Abandon(a, s)
         \/ InsertRow(a)
         \/ InsertRefused(a)
         \/ \E s \in SUBSET Attempts : Activate(a, s)
         \/ WriteFile(a) \/ StartCommand(a) \/ EndCommands(a)
         \/ \E s \in BOOLEAN : CommitSucceeded(a, s)
         \/ MarkAndRemove(a)
  PROVE  WorktreesTypeOK'
<1>1. CASE UNCHANGED wtVars
  BY <1>1 DEF wtVars, WorktreesTypeOK
<1>2. CASE \E s \in WorktreeState : SetState(a, s)
  BY <1>2 DEF SetState, WorktreesTypeOK
<1>3. CASE \E s \in SUBSET Attempts : AddDirectory(a, s)
  BY <1>3 DEF AddDirectory, WorktreesTypeOK
<1>4. CASE \E s \in WorktreeState : Abandon(a, s)
  BY <1>4 DEF Abandon, WorktreesTypeOK, WorktreeState
<1>5. CASE InsertRow(a)
  <2>1. 1 + Cardinality({b \in Of(a[1]) : age[b] > 0}) \in Nat
    BY Counted
  <2> QED
    BY <1>5, <2>1 DEF InsertRow, WorktreesTypeOK, WorktreeState
<1>6. CASE InsertRefused(a)
  BY <1>6 DEF InsertRefused, WorktreesTypeOK
<1>7. CASE \E s \in SUBSET Attempts : Activate(a, s)
  BY <1>7 DEF Activate, WorktreesTypeOK, WorktreeState
<1>8. CASE WriteFile(a) \/ StartCommand(a) \/ EndCommands(a)
  BY <1>8 DEF WriteFile, StartCommand, EndCommands, WorktreesTypeOK, WorktreeState
<1>9. CASE \E s \in BOOLEAN : CommitSucceeded(a, s)
  BY <1>9 DEF CommitSucceeded, WorktreesTypeOK, WorktreeState
<1>10. CASE MarkAndRemove(a)
  BY <1>10 DEF MarkAndRemove, WorktreesTypeOK, WorktreeState
<1> QED
  BY <1>1, <1>2, <1>3, <1>4, <1>5, <1>6, <1>7, <1>8, <1>9, <1>10

\* What a worker's step does to the worktrees.
LEMMA WorkerTouches ==
  ASSUME TypeOK, NEW w \in Workers, WorkerStep(w)
  PROVE  \E a \in Attempts :
         \/ UNCHANGED wtVars
         \/ \E s \in WorktreeState : SetState(a, s)
         \/ \E s \in SUBSET Attempts : AddDirectory(a, s)
         \/ \E s \in WorktreeState : Abandon(a, s)
         \/ InsertRow(a)
         \/ InsertRefused(a)
         \/ \E s \in SUBSET Attempts : Activate(a, s)
         \/ WriteFile(a) \/ StartCommand(a) \/ EndCommands(a)
         \/ \E s \in BOOLEAN : CommitSucceeded(a, s)
         \/ MarkAndRemove(a)
<1>0. At(w) \in Attempts /\ worker[w].merge \in SUBSET Attempts /\ worker[w].stale \subseteq Attempts
      /\ worker[w].seen \in WorktreeState
  BY WorkerTyped
<1>1. CASE AddWorktree(w)
  <2>1. PICK found \in BOOLEAN :
          \E first \in SUBSET Bases(At(w), found), s \in SUBSET Stale(At(w)[1]), seen \in WorktreeState :
             Added(w, found, first, s, seen)
    BY <1>1, AddWorktreeFinds
  <2>2. PICK first \in SUBSET Bases(At(w), found), s \in SUBSET Stale(At(w)[1]), seen \in WorktreeState :
          Added(w, found, first, s, seen)
    BY <2>1
  <2>3. \A b \in Attempts : branch[b] \subseteq Attempts
    BY DEF TypeOK, WorktreesTypeOK
  <2>4. UNION {branch[b] : b \in first} \in SUBSET Attempts
    BY <1>0, <2>3, BasesTyped
  <2>5. \E s1 \in SUBSET Attempts : AddDirectory(At(w), s1)
    BY <2>2, <2>4 DEF Added
  <2> QED
    BY <1>0, <2>5
<1>2. CASE AbandonStale(w)
  BY <1>0, <1>2 DEF AbandonStale
<1>3. CASE InsertWorktree(w) \/ ActivateWorktree(w)
  BY <1>0, <1>3 DEF InsertWorktree, ActivateWorktree
<1>4. CASE UseTool(w) \/ LoopEnds(w)
  BY <1>0, <1>4 DEF UseTool, LoopEnds
<1>5. CASE CommitWorktree(w) \/ CloseWorktree(w)
  BY <1>0, <1>5 DEF CommitWorktree, CloseWorktree, WorktreeState
<1>6. CASE \/ LeaseInstance(w) \/ LeaseDenied(w) \/ LeaseRaises(w) \/ SetupFails(w)
           \/ CollectEvidence(w) \/ CompleteTask(w) \/ ReportOutcome(w)
  BY <1>0, <1>6 DEF LeaseInstance, LeaseDenied, LeaseRaises, SetupFails, CollectEvidence, CompleteTask, ReportOutcome
<1> QED
  BY <1>1, <1>2, <1>3, <1>4, <1>5, <1>6 DEF WorkerStep

LEMMA WorkerRunTyped ==
  ASSUME TypeOK, NEW w \in Workers, WorkerStep(w)
  PROVE  /\ exec' \in ExecState
         /\ task' \in [Tasks -> TaskState]
         /\ att' \in [Attempts -> AttState]
         /\ instance' \in [Attempts -> InstanceState]
         /\ degraded' \subseteq Attempts
         /\ meddled' \subseteq Tasks
<1>0. At(w) \in Attempts /\ At(w)[1] \in Tasks /\ worker[w].outcome \in Outcomes
  BY WorkerTyped
<1> USE DEF runVars, history
<1>1. CASE AddWorktree(w)
  BY <1>0, <1>1 DEF AddWorktree, TypeOK
<1>2. CASE AbandonStale(w) \/ InsertWorktree(w)
  BY <1>0, <1>2 DEF AbandonStale, InsertWorktree, Meddle, TypeOK
<1>3. CASE CommitWorktree(w)
  BY <1>0, <1>3 DEF CommitWorktree, TypeOK
<1>4. CASE LeaseInstance(w) \/ CloseWorktree(w)
  BY <1>0, <1>4 DEF LeaseInstance, CloseWorktree, TypeOK, InstanceState
<1>5. CASE CompleteTask(w)
  <2>1. [task EXCEPT ![At(w)[1]] = "completed"] \in [Tasks -> TaskState]
    BY <1>0 DEF TypeOK, TaskState
  <2>2. CASE UNCHANGED runVars
    BY <1>5, <2>2 DEF CompleteTask, TypeOK
  <2>3. CASE SetTasks([task EXCEPT ![At(w)[1]] = "completed"]) /\ att' = [att EXCEPT ![At(w)] = "succeeded"] /\ instance' = [instance EXCEPT ![At(w)] = "completed"]
    <3>1. exec' \in ExecState /\ task' \in [Tasks -> TaskState]
      BY <2>1, <2>3, SetTasksTyped DEF TypeOK
    <3> QED
      BY <1>0, <1>5, <2>3, <3>1 DEF CompleteTask, TypeOK, AttState, InstanceState
  <2> QED
    BY <1>5, <2>2, <2>3 DEF CompleteTask
<1>6. CASE ReportOutcome(w)
  <2> DEFINE s == [task EXCEPT ![At(w)[1]] = IF worker[w].outcome = "unknown" THEN "blocked" ELSE worker[w].outcome]
  <2>1. s \in [Tasks -> TaskState]
    BY <1>0 DEF TypeOK, TaskState, Outcomes
  <2>2. CASE UNCHANGED <<exec, task, att>>
    BY <1>6, <2>2 DEF ReportOutcome, TypeOK
  <2>3. CASE SetTasks(s) /\ att' = [att EXCEPT ![At(w)] = worker[w].outcome]
    <3>1. exec' \in ExecState /\ task' \in [Tasks -> TaskState]
      BY <2>1, <2>3, SetTasksTyped DEF TypeOK
    <3> QED
      BY <1>0, <1>6, <2>3, <3>1 DEF ReportOutcome, TypeOK, AttState, Outcomes
  <2> QED
    BY <1>6, <2>2, <2>3 DEF ReportOutcome
<1>7. CASE \/ LeaseDenied(w) \/ LeaseRaises(w) \/ SetupFails(w) \/ ActivateWorktree(w)
           \/ UseTool(w) \/ LoopEnds(w) \/ CollectEvidence(w)
  BY <1>7 DEF LeaseDenied, LeaseRaises, SetupFails, ActivateWorktree, UseTool, LoopEnds, CollectEvidence, TypeOK
<1> QED
  BY <1>1, <1>2, <1>3, <1>4, <1>5, <1>6, <1>7 DEF WorkerStep

LEMMA TypeKept == TypeOK /\ [Next]_vars => TypeOK'
<1> SUFFICES ASSUME TypeOK, [Next]_vars PROVE TypeOK'
  OBVIOUS
<1>0. keeper \in KeeperState /\ worker \in [Workers -> WorkerState]
  BY DEF TypeOK
<1> USE DEF runVars, history
<1>1. CASE UNCHANGED vars
  BY <1>1 DEF vars, TypeOK, wtVars, WorktreesTypeOK
<1>2. ASSUME NEW w \in Workers, WorkerStep(w) PROVE TypeOK'
  <2>1. WorktreesTypeOK'
    BY <1>2, WorkerTouches, WorktreeTypes DEF TypeOK
  <2> QED
    BY <1>2, <2>1, WorkerMoves, WorkerRunTyped DEF TypeOK
<1>3. ASSUME NEW w \in Workers, NEW a \in Attempts, Claim(w, a) PROVE TypeOK'
  <2>1. [Free EXCEPT !.pc = "claimed", !.at = a] \in WorkerState
    BY FreeTyped DEF WorkerState, Pcs, SettingUp
  <2>2. worker' \in [Workers -> WorkerState]
    BY <1>0, <1>3, <2>1 DEF Claim
  <2>3. WorktreesTypeOK'
    BY <1>3 DEF Claim, TypeOK, wtVars, WorktreesTypeOK
  <2> QED
    BY <1>3, <2>2, <2>3, FreeTyped DEF Claim, TypeOK, TaskState, AttState
<1>4. CASE CancelExecution \/ (\E a \in Attempts : LeaseExpires(a)) \/ ReconcileExpiredLeases
  <2>1. WorktreesTypeOK'
    BY <1>4 DEF CancelExecution, LeaseExpires, ReconcileExpiredLeases, TypeOK, wtVars, WorktreesTypeOK
  <2>2. CASE CancelExecution
    BY <2>1, <2>2 DEF CancelExecution, TypeOK, ExecState, TaskState, AttState
  <2>3. CASE \E a \in Attempts : LeaseExpires(a)
    BY <2>1, <2>3 DEF LeaseExpires, TypeOK, AttState
  <2>4. CASE ReconcileExpiredLeases
    BY <2>1, <2>4, ReclaimTyped DEF ReconcileExpiredLeases, TypeOK
  <2> QED
    BY <1>4, <2>2, <2>3, <2>4
<1>5. CASE Crash \/ Reconcile
  <2>1. WorktreesTypeOK'
    BY <1>5 DEF Crash, Reconcile, TypeOK, wtVars, WorktreesTypeOK
  <2>2. keeper.recoveries + 1 \in 0..MaxFaults
    <3>1. IsFiniteSet(degraded)
      BY BoundedAttempts, FS_Subset DEF TypeOK
    <3>2. Cardinality(degraded) \in Nat
      BY <3>1, FS_CardinalityType
    <3> QED
      BY <1>0, <1>5, <3>2, FaultBound DEF Crash, Reconcile, MayFail, KeeperState
  <2>3. keeper' \in KeeperState
    BY <1>0, <1>5, <2>2 DEF Crash, Reconcile, KeeperState, Steps
  <2>4. worker' \in [Workers -> WorkerState]
    BY <1>0, <1>5, FreeTyped DEF Crash, Reconcile
  <2> QED
    BY <1>5, <2>1, <2>3, <2>4 DEF Crash, Reconcile, TypeOK
<1>6. CASE KeeperStep
  <2>1. CASE RecoverExecutions
    <3>1. keeper' \in KeeperState
      BY <1>0, <2>1 DEF RecoverExecutions, Then, KeeperState, Steps
    <3>2. WorktreesTypeOK'
      BY <2>1 DEF RecoverExecutions, TypeOK, wtVars, WorktreesTypeOK
    <3> QED
      BY <2>1, <3>1, <3>2, ReclaimTyped DEF RecoverExecutions, TypeOK
  <2>2. ASSUME NEW a \in Attempts, InterruptOrphan(a) \/ CleanUp(a) \/ SweepWorktree(a) PROVE TypeOK'
    <3>0. row[a] \in WorktreeState
      BY DEF TypeOK, WorktreesTypeOK
    <3>1. WorktreesTypeOK'
      BY <2>2, <3>0, WorktreeTypes DEF InterruptOrphan, CleanUp, SweepWorktree, TypeOK, WorktreeState
    <3> QED
      BY <2>2, <3>1 DEF InterruptOrphan, CleanUp, SweepWorktree, TypeOK
  <2>3. ASSUME NEW a \in Attempts, InterruptListed(a) PROVE TypeOK'
    <3>1. WorktreesTypeOK'
      BY <2>3, WorktreeTypes DEF InterruptListed, TypeOK, WorktreeState
    <3>2. keeper' \in KeeperState
      BY <1>0, <2>3 DEF InterruptListed, Interrupting, KeeperState, Steps
    <3> QED
      BY <2>3, <3>1, <3>2, FreeTyped DEF InterruptListed, TypeOK
  <2>4. CASE ListActive \/ EndCleaning \/ EndSweep
    <3>1. WorktreesTypeOK'
      BY <2>4 DEF ListActive, EndCleaning, EndSweep, TypeOK, wtVars, WorktreesTypeOK
    <3>2. keeper' \in KeeperState
      <4>1. CASE ListActive
        BY <1>0, <4>1 DEF ListActive, Interrupting, KeeperState, Steps
      <4>2. CASE EndCleaning \/ EndSweep
        BY <1>0, <4>2 DEF EndCleaning, EndSweep, Then, KeeperState, Steps
      <4> QED
        BY <2>4, <4>1, <4>2
    <3> QED
      BY <2>4, <3>1, <3>2 DEF ListActive, EndCleaning, EndSweep, TypeOK
  <2>5. CASE ReleaseStaleInstances
    <3>1. WorktreesTypeOK'
      BY <2>5 DEF ReleaseStaleInstances, TypeOK, wtVars, WorktreesTypeOK
    <3>2. keeper' \in KeeperState
      BY <1>0, <2>5 DEF ReleaseStaleInstances, Then, KeeperState, Steps
    <3> QED
      BY <2>5, <3>1, <3>2 DEF ReleaseStaleInstances, TypeOK, InstanceState
  <2> QED
    BY <1>6, <2>1, <2>2, <2>3, <2>4, <2>5 DEF KeeperStep
<1> QED
  BY <1>1, <1>2, <1>3, <1>4, <1>5, <1>6 DEF Next

LEMMA TypeStarts == Init => TypeOK
<1> SUFFICES ASSUME Init PROVE TypeOK
  OBVIOUS
<1>1. WorktreesTypeOK
  BY DEF Init, WorktreesInit, WorktreesTypeOK, WorktreeState
<1>2. Serving \in KeeperState
  BY FaultBound DEF Serving, KeeperState, Steps
<1> QED
  BY <1>1, <1>2, FreeTyped DEF Init, TypeOK, ExecState, TaskState, AttState, InstanceState

-----------------------------------------------------------------------------
(* Who owns a task.  A step changes executions, tasks and attempts in one  *)
(* of six ways.                                                            *)

OneOwner ==
  /\ \A t \in Tasks : task[t] = "running" <=> \E a \in Of(t) : att[a] \in Open
  /\ \A a, b \in Attempts : a # b /\ a[1] = b[1] /\ att[a] \in Open => att[b] \notin Open
  /\ \A t \in Tasks : task[t] = "running" => exec = "running"
  /\ \A a \in Accepted : task[a[1]] = "completed"
  /\ \A a, b \in Accepted : a[1] = b[1] => a = b
  /\ \A t \in Tasks : task[t] \notin {"pending", "cancelled"} =>
       \A d \in DependsOn[t] : task[d] = "completed"

Graph == <<exec, task, att>>

Claims(a) ==
  /\ exec = "running"
  /\ task[a[1]] = "ready"
  /\ att[a] = "none"
  /\ task' = [task EXCEPT ![a[1]] = "running"]
  /\ att' = [att EXCEPT ![a] = "running"]
  /\ UNCHANGED exec

Ends(a, out, state) ==
  /\ att[a] \in Open
  /\ out \notin Open \cup {"none"}
  /\ out = "succeeded" <=> state = "completed"
  /\ state \in {"completed", "failed", "cancelled", "blocked"}
  /\ att' = [att EXCEPT ![a] = out]
  /\ SetTasks([task EXCEPT ![a[1]] = state])

Cancels ==
  /\ exec' = "cancelled"
  /\ task' = [t \in Tasks |-> IF task[t] = "completed" THEN "completed" ELSE "cancelled"]
  /\ att' = [a \in Attempts |-> IF att[a] \in Open THEN "cancelled" ELSE att[a]]

Lapses(a) ==
  /\ att[a] = "running"
  /\ att' = [att EXCEPT ![a] = "lapsed"]
  /\ UNCHANGED <<exec, task>>

Lost == {t \in Tasks : task[t] = "running" /\ \A a \in Of(t) : att[a] # "running"}

Reclaims ==
  /\ exec = "running"
  /\ att' = [a \in Attempts |-> IF a[1] \in Lost /\ att[a] = "lapsed" THEN "unknown" ELSE att[a]]
  /\ SetTasks([t \in Tasks |-> IF t \in Lost THEN "ready" ELSE task[t]])

\* How a worker's step changes the graph: only to end its own attempt.
LEMMA WorkerGraph ==
  ASSUME TypeOK, NEW w \in Workers, WorkerStep(w)
  PROVE  \/ UNCHANGED Graph
         \/ ReportOutcome(w) /\ Ends(At(w), worker[w].outcome,
              IF worker[w].outcome = "unknown" THEN "blocked" ELSE worker[w].outcome)
         \/ CompleteTask(w) /\ Ends(At(w), "succeeded", "completed") /\ worker' = [worker EXCEPT ![w] = Free]
<1>0. worker[w].outcome \in Outcomes
  BY WorkerTyped
<1> USE DEF Graph, runVars, history
<1>1. CASE ReportOutcome(w)
  BY <1>0, <1>1 DEF ReportOutcome, Ends, Open, Outcomes
<1>2. CASE CompleteTask(w)
  BY <1>2 DEF CompleteTask, Ends, Open
<1>3. CASE AddWorktree(w) \/ AbandonStale(w) \/ InsertWorktree(w) \/ ActivateWorktree(w) \/ CommitWorktree(w)
  BY <1>3 DEF AddWorktree, AbandonStale, InsertWorktree, ActivateWorktree, CommitWorktree
<1>4. CASE LeaseInstance(w) \/ LeaseDenied(w) \/ LeaseRaises(w) \/ SetupFails(w)
  BY <1>4 DEF LeaseInstance, LeaseDenied, LeaseRaises, SetupFails
<1>5. CASE UseTool(w) \/ LoopEnds(w) \/ CollectEvidence(w) \/ CloseWorktree(w)
  BY <1>5 DEF UseTool, LoopEnds, CollectEvidence, CloseWorktree
<1> QED
  BY <1>1, <1>2, <1>3, <1>4, <1>5 DEF WorkerStep

LEMMA GraphMoves ==
  ASSUME TypeOK, [Next]_vars
  PROVE  \/ UNCHANGED Graph
         \/ \E w \in Workers, a \in Attempts : Claim(w, a) /\ Claims(a)
         \/ \E w \in Workers : \E out \in AttState, state \in TaskState :
              WorkerStep(w) /\ Ends(At(w), out, state)
         \/ CancelExecution /\ Cancels
         \/ \E a \in Attempts : Lapses(a)
         \/ Reclaims
<1> USE DEF Graph, runVars
<1>1. CASE UNCHANGED vars
  BY <1>1 DEF vars
<1>2. ASSUME NEW w \in Workers, WorkerStep(w)
      PROVE  UNCHANGED Graph \/ \E out \in AttState, state \in TaskState : Ends(At(w), out, state)
  <2>1. worker[w].outcome \in Outcomes
    BY WorkerTyped
  <2>2. worker[w].outcome \in AttState /\ "succeeded" \in AttState /\ "completed" \in TaskState
        /\ (IF worker[w].outcome = "unknown" THEN "blocked" ELSE worker[w].outcome) \in TaskState
    BY <2>1 DEF Outcomes, AttState, TaskState
  <2> QED
    BY <1>2, <2>2, WorkerGraph
<1>3. ASSUME NEW w \in Workers, NEW a \in Attempts, Claim(w, a) PROVE Claims(a)
  BY <1>3 DEF Claim, Claims
<1>4. CancelExecution => Cancels
  BY DEF CancelExecution, Cancels
<1>5. \A a \in Attempts : LeaseExpires(a) => Lapses(a)
  BY DEF LeaseExpires, Lapses
<1>6. ReconcileExpiredLeases => Reclaims
  BY DEF ReconcileExpiredLeases, Reclaim, Reclaims, Lost
<1>7. Crash \/ Reconcile => UNCHANGED Graph
  BY DEF Crash, Reconcile
<1>8. KeeperStep => UNCHANGED Graph \/ Reclaims
  <2>1. RecoverExecutions => UNCHANGED Graph \/ Reclaims
    BY DEF RecoverExecutions, Reclaim, Reclaims, Lost
  <2>2. \A a \in Attempts : InterruptOrphan(a) \/ InterruptListed(a) \/ CleanUp(a) \/ SweepWorktree(a) => UNCHANGED Graph
    BY DEF InterruptOrphan, InterruptListed, CleanUp, SweepWorktree
  <2>3. ListActive \/ EndCleaning \/ ReleaseStaleInstances \/ EndSweep => UNCHANGED Graph
    BY DEF ListActive, EndCleaning, ReleaseStaleInstances, EndSweep
  <2> QED
    BY <2>1, <2>2, <2>3 DEF KeeperStep
<1> QED
  BY <1>1, <1>2, <1>3, <1>4, <1>5, <1>6, <1>7, <1>8 DEF Next

\* A recomputed graph differs from the one given only in tasks that became
\* ready, all of whose dependencies are completed.
LEMMA Recomputed ==
  ASSUME NEW s \in [Tasks -> TaskState], SetTasks(s)
  PROVE  /\ task' \in [Tasks -> TaskState]
         /\ \A t \in Tasks : \/ task'[t] = s[t]
                             \/ /\ s[t] = "pending" /\ task'[t] = "ready"
                                /\ \A d \in DependsOn[t] : s[d] = "completed"
         /\ exec # "running" => exec' = exec
         /\ exec' # "running" /\ exec = "running" => \A t \in Tasks : task'[t] # "running"
<1> DEFINE r == [t \in Tasks |->
              IF s[t] = "pending" /\ \A d \in DependsOn[t] : s[d] = "completed"
              THEN "ready" ELSE s[t]]
<1>1. /\ task' = r
      /\ exec' = IF exec # "running" THEN exec
                ELSE IF \A t \in Tasks : r[t] = "completed" THEN "completed"
                ELSE IF Ended(r) THEN "failed" ELSE exec
  BY DEF SetTasks
<1>2. r \in [Tasks -> TaskState]
  BY DEF TaskState
<1>3. \A t \in Tasks : \/ r[t] = s[t]
                       \/ /\ s[t] = "pending" /\ r[t] = "ready"
                          /\ \A d \in DependsOn[t] : s[d] = "completed"
  OBVIOUS
<1> HIDE DEF r
<1> QED
  BY <1>1, <1>2, <1>3 DEF Ended

\* What a recomputed graph must be given to have one owner per task.
LEMMA RecomputedOwned ==
  ASSUME NEW s \in [Tasks -> TaskState], SetTasks(s), exec = "running",
         \A t \in Tasks : s[t] = "running" <=> \E a \in Of(t) : att'[a] \in Open,
         \A a, b \in Attempts : a # b /\ a[1] = b[1] /\ att'[a] \in Open => att'[b] \notin Open,
         \A a \in Attempts : att'[a] = "succeeded" => s[a[1]] = "completed",
         \A a, b \in Attempts : att'[a] = "succeeded" /\ att'[b] = "succeeded" /\ a[1] = b[1] => a = b,
         \A t \in Tasks : s[t] \notin {"pending", "cancelled"} => \A d \in DependsOn[t] : s[d] = "completed"
  PROVE  OneOwner'
<1>1. \A t \in Tasks : /\ task'[t] = "running" <=> s[t] = "running"
                       /\ task'[t] = "completed" <=> s[t] = "completed"
  BY Recomputed
<1>2. \A t \in Tasks : task'[t] \notin {"pending", "cancelled"} => \A d \in DependsOn[t] : s[d] = "completed"
  BY Recomputed
<1>3. \A t \in Tasks : DependsOn[t] \subseteq Tasks
  BY Dependencies
<1>4. \A t \in Tasks : task'[t] = "running" => exec' = "running"
  BY Recomputed
<1> QED
  BY <1>1, <1>2, <1>3, <1>4, FreeTyped DEF OneOwner, Accepted, Of

LEMMA OwnerKept ==
  ASSUME TypeOK, OneOwner, [Next]_vars
  PROVE  OneOwner'
<1>0. /\ task \in [Tasks -> TaskState] /\ att \in [Attempts -> AttState]
      /\ \A a \in Attempts : a[1] \in Tasks
  BY FreeTyped DEF TypeOK
<1>1. CASE UNCHANGED Graph
  BY <1>1 DEF Graph, OneOwner, Accepted
<1>2. ASSUME NEW a \in Attempts, Claims(a) PROVE OneOwner'
  <2>1. \A b \in Of(a[1]) : att[b] \notin Open
    BY <1>0, <1>2 DEF Claims, OneOwner
  <2>2. \A b \in Attempts : att'[b] = IF b = a THEN "running" ELSE att[b]
    BY <1>0, <1>2 DEF Claims
  <2>3. \A t \in Tasks : task'[t] = IF t = a[1] THEN "running" ELSE task[t]
    BY <1>0, <1>2 DEF Claims
  <2>4. exec = "running" /\ exec' = exec /\ task[a[1]] = "ready"
    BY <1>2 DEF Claims
  <2>5. \A t \in Tasks : DependsOn[t] \subseteq Tasks
    BY Dependencies
  <2>6. \A t \in Tasks : task'[t] = "running" <=> \E b \in Of(t) : att'[b] \in Open
    BY <1>0, <2>1, <2>2, <2>3 DEF OneOwner, Of, Open
  <2>7. \A b, c \in Attempts : b # c /\ b[1] = c[1] /\ att'[b] \in Open => att'[c] \notin Open
    BY <1>0, <2>1, <2>2 DEF OneOwner, Of
  <2>8. \A t \in Tasks : task'[t] \notin {"pending", "cancelled"} => \A d \in DependsOn[t] : task'[d] = "completed"
    BY <1>0, <2>3, <2>4, <2>5 DEF OneOwner
  <2> QED
    BY <1>0, <2>2, <2>3, <2>4, <2>6, <2>7, <2>8 DEF OneOwner, Accepted
<1>3. ASSUME NEW a \in Attempts, NEW out \in AttState, NEW state \in TaskState, Ends(a, out, state)
      PROVE  OneOwner'
  <2> DEFINE s == [task EXCEPT ![a[1]] = state]
  <2>1. s \in [Tasks -> TaskState] /\ \A t \in Tasks : s[t] = IF t = a[1] THEN state ELSE task[t]
    BY <1>0
  <2>2. task[a[1]] = "running" /\ exec = "running" /\ att[a] \in Open
    BY <1>0, <1>3 DEF Ends, OneOwner, Of
  <2>3. \A b \in Attempts : att'[b] = IF b = a THEN out ELSE att[b]
    BY <1>0, <1>3 DEF Ends
  <2>4. state \notin {"running", "pending", "ready"} /\ out \notin Open /\ (out = "succeeded" <=> state = "completed")
    BY <1>3 DEF Ends
  <2>5. SetTasks(s)
    BY <1>3 DEF Ends
  <2> HIDE DEF s
  <2>6. \A t \in Tasks : s[t] = "running" <=> \E b \in Of(t) : att'[b] \in Open
    BY <1>0, <2>1, <2>2, <2>3, <2>4 DEF OneOwner, Of
  <2>7. \A b, c \in Attempts : b # c /\ b[1] = c[1] /\ att'[b] \in Open => att'[c] \notin Open
    BY <2>3, <2>4 DEF OneOwner
  <2>8. \A b \in Attempts : b[1] = a[1] => att[b] # "succeeded"
    BY <2>2 DEF OneOwner, Accepted
  <2>9. \A b \in Attempts : att'[b] = "succeeded" => s[b[1]] = "completed"
    BY <1>0, <2>1, <2>3, <2>4, <2>8 DEF OneOwner, Accepted
  <2>10. \A b, c \in Attempts : att'[b] = "succeeded" /\ att'[c] = "succeeded" /\ b[1] = c[1] => b = c
    BY <2>3, <2>8 DEF OneOwner, Accepted
  <2>11. \A t \in Tasks : s[t] \notin {"pending", "cancelled"} => \A d \in DependsOn[t] : s[d] = "completed"
    <3>1. \A t \in Tasks : DependsOn[t] \subseteq Tasks
      BY Dependencies
    <3> QED
      BY <1>0, <2>1, <2>2, <2>4, <3>1 DEF OneOwner
  <2> QED
    BY <2>1, <2>2, <2>5, <2>6, <2>7, <2>9, <2>10, <2>11, RecomputedOwned
<1>4. CASE Cancels
  <2>1. /\ exec' = "cancelled"
        /\ \A t \in Tasks : task'[t] = IF task[t] = "completed" THEN "completed" ELSE "cancelled"
        /\ \A a \in Attempts : att'[a] = IF att[a] \in Open THEN "cancelled" ELSE att[a]
    BY <1>4 DEF Cancels
  <2>2. \A t \in Tasks : DependsOn[t] \subseteq Tasks
    BY Dependencies
  <2> QED
    BY <1>0, <2>1, <2>2 DEF OneOwner, Accepted, Of, Open
<1>5. ASSUME NEW a \in Attempts, Lapses(a) PROVE OneOwner'
  <2>1. \A b \in Attempts : /\ att'[b] = "succeeded" <=> att[b] = "succeeded"
                            /\ att'[b] \in Open <=> att[b] \in Open
    BY <1>0, <1>5 DEF Lapses, Open
  <2>2. exec' = exec /\ task' = task
    BY <1>5 DEF Lapses
  <2> QED
    BY <2>1, <2>2 DEF OneOwner, Accepted, Of
<1>6. CASE Reclaims
  <2> DEFINE s == [t \in Tasks |-> IF t \in Lost THEN "ready" ELSE task[t]]
  <2>1. s \in [Tasks -> TaskState] /\ \A t \in Tasks : s[t] = IF t \in Lost THEN "ready" ELSE task[t]
    BY <1>0 DEF TaskState
  <2>2. exec = "running" /\ SetTasks(s)
    BY <1>6 DEF Reclaims
  <2>3. \A b \in Attempts : att'[b] = IF b[1] \in Lost /\ att[b] = "lapsed" THEN "unknown" ELSE att[b]
    BY <1>6 DEF Reclaims
  <2>4. \A t \in Lost : t \in Tasks /\ task[t] = "running" /\ \A a \in Of(t) : att[a] # "running"
    BY DEF Lost
  <2> HIDE DEF s
  <2>5. \A t \in Tasks : s[t] = "running" <=> \E b \in Of(t) : att'[b] \in Open
    BY <1>0, <2>1, <2>3, <2>4 DEF OneOwner, Of, Open
  <2>6. \A b, c \in Attempts : b # c /\ b[1] = c[1] /\ att'[b] \in Open => att'[c] \notin Open
    BY <2>3 DEF OneOwner, Open
  <2>7. \A b \in Attempts : att'[b] = "succeeded" => s[b[1]] = "completed"
    BY <1>0, <2>1, <2>3, <2>4 DEF OneOwner, Accepted
  <2>8. \A b, c \in Attempts : att'[b] = "succeeded" /\ att'[c] = "succeeded" /\ b[1] = c[1] => b = c
    BY <2>3 DEF OneOwner, Accepted
  <2>9. \A t \in Tasks : s[t] \notin {"pending", "cancelled"} => \A d \in DependsOn[t] : s[d] = "completed"
    <3>1. \A t \in Tasks : DependsOn[t] \subseteq Tasks
      BY Dependencies
    <3> QED
      BY <2>1, <2>4, <3>1 DEF OneOwner
  <2> QED
    BY <2>1, <2>2, <2>5, <2>6, <2>7, <2>8, <2>9, RecomputedOwned
<1> QED
  <2>1. \A w \in Workers : At(w) \in Attempts
    BY WorkerTyped
  <2> QED
    BY <1>1, <1>2, <1>3, <1>4, <1>5, <1>6, <2>1, GraphMoves

\* An attempt that was tried stays tried, what is accepted stays accepted, and
\* only the worker that works on it has an attempt accepted.
LEMMA AttemptsMove ==
  ASSUME TypeOK, OneOwner, [Next]_vars, NEW a \in Attempts
  PROVE  /\ att[a] # "none" => att'[a] # "none"
         /\ att[a] = "succeeded" => att'[a] = "succeeded"
         /\ att'[a] \in Open => att[a] \in Open \/ att[a] = "none"
         /\ att[a] = "none" /\ att'[a] # "none" => \E w \in Workers : Claim(w, a)
         /\ att'[a] = "succeeded" /\ att[a] # "succeeded" =>
              /\ att[a] \in Open
              /\ \E w \in Workers : CompleteTask(w) /\ At(w) = a /\ worker' = [worker EXCEPT ![w] = Free]
<1>0. att \in [Attempts -> AttState]
  BY DEF TypeOK
<1>1. CASE UNCHANGED Graph \/ Cancels \/ Reclaims \/ \E b \in Attempts : Lapses(b)
  BY <1>0, <1>1 DEF Graph, Cancels, Reclaims, Lapses, Open
<1>2. ASSUME NEW w \in Workers, NEW b \in Attempts, Claim(w, b), Claims(b)
      PROVE  /\ att[b] = "none" /\ Claim(w, b)
             /\ att'[a] = IF a = b THEN "running" ELSE att[a]
  BY <1>0, <1>2 DEF Claims
<1>3. ASSUME NEW w \in Workers, WorkerStep(w), ~UNCHANGED Graph
      PROVE  /\ att[At(w)] \in Open
             /\ \A b \in Attempts \ {At(w)} : att'[b] = att[b]
             /\ att'[At(w)] \notin Open \cup {"none"}
             /\ att'[At(w)] = "succeeded" => CompleteTask(w) /\ worker' = [worker EXCEPT ![w] = Free]
  <2>1. worker[w].outcome \in Outcomes
    BY WorkerTyped
  <2>2. At(w) \in Attempts
    BY WorkerTyped
  <2>3. CASE Ends(At(w), worker[w].outcome, IF worker[w].outcome = "unknown" THEN "blocked" ELSE worker[w].outcome)
    BY <1>0, <2>1, <2>2, <2>3 DEF Ends, Outcomes
  <2>4. CASE CompleteTask(w) /\ Ends(At(w), "succeeded", "completed") /\ worker' = [worker EXCEPT ![w] = Free]
    BY <1>0, <2>2, <2>4 DEF Ends
  <2> QED
    BY <1>3, <2>3, <2>4, WorkerGraph
<1>4. "running" \in Open /\ "succeeded" \notin Open /\ "none" \notin Open
  BY DEF Open
<1> QED
  BY <1>1, <1>2, <1>3, <1>4, GraphMoves

-----------------------------------------------------------------------------
(* Who is at work.                                                         *)

Busy(w) == worker[w].pc # "idle"

AtWork ==
  /\ \A w \in Workers : Busy(w) => att[At(w)] \notin {"none", "succeeded"}
  /\ \A v, w \in Workers : v # w /\ Busy(v) /\ Busy(w) => At(v) # At(w)
  /\ keeper.boot => \A w \in Workers : ~Busy(w)
  /\ keeper.pc \in {"instances", "graphs", "sweeping"} => keeper.boot
  /\ keeper.pc = "idle" => ~keeper.boot

LEMMA WorkersMove ==
  ASSUME TypeOK, [Next]_vars, NEW v \in Workers
  PROVE  \/ worker'[v] = worker[v]
         \/ worker'[v] = Free
         \/ \E a \in Attempts : /\ Claim(v, a) /\ keeper' = keeper /\ ~keeper.boot
                                /\ worker'[v].at = a /\ worker'[v].pc = "claimed"
         \/ /\ WorkerStep(v) /\ keeper' = keeper
            /\ worker'[v].at = At(v) /\ worker'[v].pc # "idle" /\ worker[v].pc # "idle"
<1>0. worker \in [Workers -> WorkerState]
  BY DEF TypeOK
<1>1. ASSUME NEW w \in Workers, WorkerStep(w)
      PROVE  \/ worker'[v] = worker[v] \/ worker'[v] = Free
             \/ /\ WorkerStep(v) /\ keeper' = keeper
                /\ worker'[v].at = At(v) /\ worker'[v].pc # "idle" /\ worker[v].pc # "idle"
  BY <1>1, WorkerMoves
<1>2. ASSUME NEW w \in Workers, NEW a \in Attempts, Claim(w, a)
      PROVE  \/ worker'[v] = worker[v]
             \/ /\ Claim(v, a) /\ keeper' = keeper /\ ~keeper.boot
                /\ worker'[v].at = a /\ worker'[v].pc = "claimed"
  <2> DEFINE r == [Free EXCEPT !.pc = "claimed", !.at = a]
  <2>1. r.at = a /\ r.pc = "claimed"
    BY DEF Free
  <2>2. worker' = [worker EXCEPT ![w] = r] /\ keeper' = keeper /\ keeper.boot = FALSE
    BY <1>2 DEF Claim
  <2> HIDE DEF r
  <2> QED
    BY <1>0, <1>2, <2>1, <2>2
<1>3. CASE UNCHANGED worker
  BY <1>3
<1>4. CASE Crash
  BY <1>4 DEF Crash
<1>5. UNCHANGED vars \/ CancelExecution \/ (\E a \in Attempts : LeaseExpires(a))
      \/ ReconcileExpiredLeases \/ Reconcile \/ KeeperStep => UNCHANGED worker
  BY DEF vars, CancelExecution, LeaseExpires, ReconcileExpiredLeases, Reconcile, KeeperStep, RecoverExecutions,
     InterruptOrphan, InterruptListed, CleanUp, SweepWorktree, ListActive, EndCleaning, ReleaseStaleInstances, EndSweep
<1> QED
  BY <1>1, <1>2, <1>3, <1>4, <1>5 DEF Next

LEMMA KeeperMoves ==
  ASSUME TypeOK, AtWork, [Next]_vars
  PROVE  /\ keeper'.pc \in {"instances", "graphs", "sweeping"} => keeper'.boot
         /\ keeper'.pc = "idle" => ~keeper'.boot
         /\ keeper'.boot => keeper.boot \/ (Crash /\ worker' = [w \in Workers |-> Free])
<1>0. keeper \in KeeperState
  BY DEF TypeOK
<1>2. CASE UNCHANGED keeper
  BY <1>0, <1>2 DEF AtWork
<1>3. CASE Crash
  BY <1>0, <1>3 DEF Crash, KeeperState
<1>4. CASE Reconcile
  BY <1>0, <1>4 DEF Reconcile, KeeperState, AtWork
<1>5. CASE RecoverExecutions
  BY <1>0, <1>5 DEF RecoverExecutions, Then, KeeperState, AtWork
<1>6. CASE ListActive \/ \E a \in Attempts : InterruptListed(a)
  BY <1>0, <1>6 DEF ListActive, InterruptListed, Interrupting, KeeperState, AtWork
<1>7. CASE EndCleaning \/ ReleaseStaleInstances \/ EndSweep
  BY <1>0, <1>7 DEF EndCleaning, ReleaseStaleInstances, EndSweep, Then, KeeperState, AtWork
<1>8. \/ UNCHANGED keeper \/ Crash \/ Reconcile \/ RecoverExecutions \/ ListActive
      \/ EndCleaning \/ ReleaseStaleInstances \/ EndSweep
      \/ \E a \in Attempts : InterruptListed(a)
  <2>1. \A w \in Workers : WorkerStep(w) => UNCHANGED keeper
    BY WorkerMoves
  <2>2. \A w \in Workers, a \in Attempts : Claim(w, a) => UNCHANGED keeper
    BY DEF Claim
  <2>3. UNCHANGED vars \/ CancelExecution \/ (\E a \in Attempts : LeaseExpires(a))
        \/ ReconcileExpiredLeases => UNCHANGED keeper
    BY DEF vars, CancelExecution, LeaseExpires, ReconcileExpiredLeases
  <2>4. \A a \in Attempts : InterruptOrphan(a) \/ CleanUp(a) \/ SweepWorktree(a) => UNCHANGED keeper
    BY DEF InterruptOrphan, CleanUp, SweepWorktree
  <2> QED
    BY <2>1, <2>2, <2>3, <2>4 DEF Next, KeeperStep
<1> QED
  BY <1>2, <1>3, <1>4, <1>5, <1>6, <1>7, <1>8 DEF Crash

LEMMA AtWorkKept ==
  ASSUME TypeOK, OneOwner, AtWork, [Next]_vars
  PROVE  AtWork'
<1>0. worker \in [Workers -> WorkerState] /\ \A w \in Workers : At(w) \in Attempts
  BY WorkerTyped DEF TypeOK
<1>1. \A v \in Workers : worker'[v].pc # "idle" =>
        \/ worker[v].pc # "idle" /\ worker'[v].at = At(v)
        \/ /\ ~keeper.boot /\ keeper' = keeper /\ Claim(v, worker'[v].at)
           /\ worker'[v].at \in Attempts
  BY WorkersMove, FreeTyped DEF At
<1>2. \A v, w \in Workers, a \in Attempts : Claim(v, a) /\ worker'[w] # worker[w] => v = w
  BY <1>0 DEF Claim
<1>3. \A v \in Workers, a \in Attempts : Claim(v, a) => att[a] = "none" /\ att'[a] = "running"
  BY DEF Claim, TypeOK
<1>4. \A v \in Workers : worker'[v].pc # "idle" => att'[worker'[v].at] \notin {"none", "succeeded"}
  <2> SUFFICES ASSUME NEW v \in Workers, worker'[v].pc # "idle"
               PROVE  att'[worker'[v].at] \notin {"none", "succeeded"}
    OBVIOUS
  <2>1. CASE Claim(v, worker'[v].at) /\ worker'[v].at \in Attempts
    BY <1>3, <2>1
  <2>2. CASE worker[v].pc # "idle" /\ worker'[v].at = At(v)
    <3>1. att[At(v)] \notin {"none", "succeeded"}
      BY <2>2 DEF AtWork, Busy
    <3>2. att'[At(v)] # "none"
      BY <1>0, <3>1, AttemptsMove
    <3>3. ASSUME att'[At(v)] = "succeeded" PROVE FALSE
      <4>1. PICK w \in Workers : CompleteTask(w) /\ At(w) = At(v) /\ worker' = [worker EXCEPT ![w] = Free]
        BY <1>0, <3>1, <3>3, AttemptsMove
      <4>2. worker[w].pc # "idle"
        BY <4>1 DEF CompleteTask
      <4>3. w = v
        BY <2>2, <4>1, <4>2 DEF AtWork, Busy
      <4> QED
        BY <1>0, <4>1, <4>3, FreeTyped
    <3> QED
      BY <2>2, <3>2, <3>3
  <2> QED
    BY <1>1, <2>1, <2>2
<1>5. \A v, w \in Workers : v # w /\ worker'[v].pc # "idle" /\ worker'[w].pc # "idle" => worker'[v].at # worker'[w].at
  <2> SUFFICES ASSUME NEW v \in Workers, NEW w \in Workers, v # w, worker'[v].pc # "idle", worker'[w].pc # "idle",
                      worker'[v].at = worker'[w].at
               PROVE  FALSE
    OBVIOUS
  <2>1. CASE worker[v].pc # "idle" /\ worker'[v].at = At(v) /\ worker[w].pc # "idle" /\ worker'[w].at = At(w)
    BY <2>1 DEF AtWork, Busy
  <2>2. ASSUME NEW x \in Workers, NEW y \in Workers, x # y, Claim(x, worker'[x].at), worker'[x].at \in Attempts,
               worker'[y].pc # "idle", worker'[y].at = worker'[x].at
        PROVE  FALSE
    <3>1. worker'[y] = worker[y] /\ att[worker'[x].at] = "none"
      BY <1>2, <1>3, <2>2
    <3> QED
      BY <2>2, <3>1 DEF AtWork, Busy, At
  <2> QED
    BY <1>1, <2>1, <2>2
<1>6. keeper'.boot => \A v \in Workers : worker'[v].pc = "idle"
  <2>1. ASSUME keeper.boot, NEW v \in Workers PROVE worker'[v].pc = "idle"
    BY <1>1, <2>1 DEF AtWork, Busy
  <2>2. CASE worker' = [w \in Workers |-> Free]
    BY <2>2, FreeTyped
  <2> QED
    BY <2>1, <2>2, KeeperMoves
<1> QED
  BY <1>4, <1>5, <1>6, KeeperMoves DEF AtWork, Busy, At

LEMMA MovesTo ==
  ASSUME TypeOK, NEW w \in Workers
  PROVE  /\ \A pc : Goto(w, pc) => /\ worker'[w].pc = pc
                                  /\ worker'[w].stale = worker[w].stale
                                  /\ worker'[w].merge = worker[w].merge
         /\ \A out : Break(w, out) => /\ worker'[w].pc = "broken"
                                     /\ worker'[w].stale = worker[w].stale
                                     /\ worker'[w].merge = worker[w].merge
<1>0. worker \in [Workers -> WorkerState] /\ worker[w] \in WorkerState
  BY DEF TypeOK
<1>1. ASSUME NEW pc, Goto(w, pc)
      PROVE  worker'[w].pc = pc /\ worker'[w].stale = worker[w].stale /\ worker'[w].merge = worker[w].merge
  BY <1>0, <1>1 DEF Goto, WorkerState
<1>2. ASSUME NEW out, Break(w, out)
      PROVE  worker'[w].pc = "broken" /\ worker'[w].stale = worker[w].stale /\ worker'[w].merge = worker[w].merge
  BY <1>0, <1>2 DEF Break, WorkerState
<1> QED
  BY <1>1, <1>2

\* Which step brings a worker to a place.
LEMMA PlacesReached ==
  ASSUME TypeOK, NEW v \in Workers, WorkerStep(v)
  PROVE  /\ worker'[v].pc # "claimed"
         /\ worker'[v].pc = "leased" => LeaseInstance(v)
         /\ worker'[v].pc = "added" => AddWorktree(v)
         /\ worker'[v].pc = "cleared" => AbandonStale(v)
         /\ worker'[v].pc = "allocated" => InsertWorktree(v) /\ InsertRow(At(v))
         /\ worker'[v].pc = "looping" => ActivateWorktree(v) \/ UseTool(v)
         /\ worker'[v].pc = "answered" => LoopEnds(v)
         /\ worker'[v].pc = "committing" => CollectEvidence(v)
         /\ worker'[v].pc = "completing" => CommitWorktree(v)
         /\ worker'[v].pc = "reporting" => LeaseDenied(v) \/ CloseWorktree(v)
<1>0. worker \in [Workers -> WorkerState] /\ worker[v] \in WorkerState
  BY DEF TypeOK
<1>1. CASE LeaseInstance(v)
  BY <1>0, <1>1 DEF LeaseInstance, Goto
<1>2. CASE LeaseDenied(v)
  BY <1>0, <1>2 DEF LeaseDenied
<1>3. CASE LeaseRaises(v) \/ ReportOutcome(v)
  BY <1>0, <1>3, FreeTyped DEF LeaseRaises, ReportOutcome
<1>4. CASE AddWorktree(v)
  <2>1. PICK found \in BOOLEAN :
          \E first \in SUBSET Bases(At(v), found), s \in SUBSET Stale(At(v)[1]), seen \in WorktreeState :
             Added(v, found, first, s, seen)
    BY <1>4, AddWorktreeFinds
  <2>2. worker'[v].pc = "added"
    BY <1>0, <2>1 DEF Added
  <2> QED
    BY <1>4, <2>2
<1>5. CASE AbandonStale(v)
  BY <1>0, <1>5 DEF AbandonStale
<1>6. CASE InsertWorktree(v)
  BY <1>6, MovesTo DEF InsertWorktree
<1>7. CASE ActivateWorktree(v)
  BY <1>0, <1>7 DEF ActivateWorktree
<1>8. CASE SetupFails(v)
  BY <1>0, <1>8 DEF SetupFails, Break
<1>9. CASE UseTool(v)
  BY <1>0, <1>9 DEF UseTool
<1>10. CASE LoopEnds(v)
  BY <1>10, MovesTo DEF LoopEnds
<1>11. CASE CollectEvidence(v)
  BY <1>11, MovesTo DEF CollectEvidence
<1>12. CASE CommitWorktree(v)
  BY <1>0, <1>12 DEF CommitWorktree, Goto
<1>13. CASE CompleteTask(v)
  <2>1. worker'[v] = Free \/ worker'[v].pc = "broken"
    BY <1>0, <1>13, MovesTo DEF CompleteTask
  <2> QED
    BY <2>1, FreeTyped
<1>14. CASE CloseWorktree(v)
  BY <1>0, <1>14 DEF CloseWorktree, Goto
<1> QED
  BY <1>1, <1>2, <1>3, <1>4, <1>5, <1>6, <1>7, <1>8, <1>9, <1>10, <1>11, <1>12, <1>13, <1>14 DEF WorkerStep

\* What a worker notes of the rows it found and the branches it will merge.
LEMMA NotesKept ==
  ASSUME TypeOK, NEW v \in Workers, WorkerStep(v)
  PROVE  \/ AddWorktree(v)
         \/ /\ worker'[v].stale \subseteq worker[v].stale
            /\ worker'[v] = Free \/ ActivateWorktree(v) \/ worker'[v].merge = worker[v].merge
<1>0. worker \in [Workers -> WorkerState] /\ worker[v] \in WorkerState
  BY DEF TypeOK
<1>1. CASE worker'[v] = Free
  BY <1>1 DEF Free
<1>2. CASE LeaseInstance(v) \/ InsertWorktree(v) \/ LoopEnds(v) \/ CollectEvidence(v) \/ CommitWorktree(v) \/ CloseWorktree(v)
  BY <1>2, MovesTo DEF LeaseInstance, InsertWorktree, LoopEnds, CollectEvidence, CommitWorktree, CloseWorktree
<1>3. CASE SetupFails(v) \/ CompleteTask(v)
  BY <1>0, <1>1, <1>3, MovesTo DEF SetupFails, CompleteTask
<1>4. CASE LeaseDenied(v)
  BY <1>0, <1>4 DEF LeaseDenied, WorkerState
<1>5. CASE AbandonStale(v)
  BY <1>0, <1>5 DEF AbandonStale, WorkerState
<1>6. CASE ActivateWorktree(v)
  BY <1>0, <1>6 DEF ActivateWorktree, WorkerState
<1>7. CASE UseTool(v)
  BY <1>7 DEF UseTool
<1>8. CASE LeaseRaises(v) \/ ReportOutcome(v)
  BY <1>0, <1>1, <1>8 DEF LeaseRaises, ReportOutcome
<1> QED
  BY <1>2, <1>3, <1>4, <1>5, <1>6, <1>7, <1>8 DEF WorkerStep

-----------------------------------------------------------------------------
(* The rows of the worktrees.                                              *)

Before == {"claimed", "leased", "added", "cleared"}
Inserted == {"allocated", "looping", "answered", "committing", "completing"}

RowsInOrder ==
  /\ \A a \in Attempts : att[a] = "none" => row[a] = "none"
  /\ \A a \in Attempts : row[a] = "none" <=> age[a] = 0
  /\ \A w \in Workers : worker[w].pc \in Before => row[At(w)] = "none"
  /\ \A w \in Workers : worker[w].pc \in Inserted => row[At(w)] # "none"
  /\ \A w \in Workers : \A b \in worker[w].stale : row[b] # "none" /\ b[1] = At(w)[1]
  /\ \A w \in Workers : \A b, c \in worker[w].stale : b = c
  /\ \A a \in keeper.list : row[a] # "none"
  /\ \A a, b \in Attempts : a[1] = b[1] /\ row[a] \in InFlight /\ row[b] \in InFlight => a = b
  /\ \A a \in Attempts : age[a] <= Cardinality({b \in Of(a[1]) : age[b] > 0})

Inserts(w) ==
  /\ InsertWorktree(w) /\ InsertRow(At(w))
  /\ worker' = [worker EXCEPT ![w].pc = "allocated"]
  /\ att[At(w)] \in Open \/ At(w)[1] \in meddled'
  /\ UNCHANGED <<Graph, keeper>>

\* A row that exists is written; it becomes in flight only as an interrupted
\* one, by a recovery at a start or beside a live server.
Rewrites(a, s) ==
  /\ row[a] # "none" /\ s # "none"
  /\ row' = [row EXCEPT ![a] = s]
  /\ UNCHANGED age
  /\ s \in InFlight => row[a] \in InFlight \/ (Interruptible(a) /\ (a[1] \in meddled' \/ keeper.boot))

LEMMA WorkerRows ==
  ASSUME TypeOK, RowsInOrder, NEW w \in Workers, WorkerStep(w)
  PROVE  \/ UNCHANGED <<row, age>>
         \/ Inserts(w)
         \/ \E a \in Attempts, s \in WorktreeState : Rewrites(a, s)
<1>0. /\ worker[w] \in WorkerState /\ At(w) \in Attempts /\ At(w)[1] \in Tasks
      /\ row \in [Attempts -> WorktreeState] /\ worker[w].stale \subseteq Attempts
  BY WorkerTyped DEF TypeOK, WorktreesTypeOK
<1> USE DEF wtVars, runVars, history, Graph
<1>1. CASE AddWorktree(w)
  BY <1>1 DEF AddWorktree, AddDirectory
<1>2. CASE AbandonStale(w)
  <2>1. CASE worker[w].stale = {}
    BY <1>2, <2>1 DEF AbandonStale
  <2>2. CASE worker[w].stale # {}
    <3>1. PICK b \in worker[w].stale : Abandon(b, worker[w].seen)
      BY <1>2, <2>2 DEF AbandonStale
    <3>2. PICK s \in {"failed", "cancelled"} : row' = [row EXCEPT ![b] = s]
      BY <3>1 DEF Abandon
    <3>3. row[b] # "none" /\ b \in Attempts
      BY <1>0 DEF RowsInOrder
    <3>4. Rewrites(b, s) /\ s \in WorktreeState
      BY <3>1, <3>2, <3>3 DEF Abandon, Rewrites, InFlight, WorktreeState
    <3> QED
      BY <3>3, <3>4
  <2> QED
    BY <2>1, <2>2
<1>3. CASE InsertWorktree(w)
  <2>1. CASE InsertRow(At(w)) /\ Goto(w, "allocated")
    BY <1>0, <1>3, <2>1 DEF Inserts, InsertWorktree, Goto, Meddle
  <2>2. CASE InsertRefused(At(w))
    BY <2>2 DEF InsertRefused
  <2> QED
    BY <1>3, <2>1, <2>2 DEF InsertWorktree
<1>4. CASE ActivateWorktree(w)
  <2>1. /\ row' = [row EXCEPT ![At(w)] = "active"] /\ age' = age
        /\ "active" \in WORKTREE_TRANSITIONS[row[At(w)]]
    BY <1>4 DEF ActivateWorktree, Activate, CanBecome
  <2>2. row[At(w)] \in {"allocated", "interrupted"}
    BY <1>0, <2>1 DEF WORKTREE_TRANSITIONS, WorktreeState
  <2>3. Rewrites(At(w), "active") /\ "active" \in WorktreeState
    BY <2>1, <2>2 DEF Rewrites, InFlight, WorktreeState
  <2> QED
    BY <1>0, <2>3
<1>5. CASE UseTool(w)
  <2>1. CASE WriteFile(At(w))
    BY <2>1 DEF WriteFile
  <2>2. CASE StartCommand(At(w))
    <3> DEFINE s == IF row[At(w)] = "allocated" THEN "active" ELSE row[At(w)]
    <3>1. row' = [row EXCEPT ![At(w)] = s] /\ age' = age /\ row[At(w)] \in InFlight
      BY <2>2 DEF StartCommand, Usable
    <3>2. Rewrites(At(w), s) /\ s \in WorktreeState
      BY <1>0, <3>1 DEF Rewrites, InFlight, WorktreeState
    <3> QED
      BY <1>0, <3>2
  <2> QED
    BY <1>5, <2>1, <2>2 DEF UseTool
<1>6. CASE CommitWorktree(w)
  <2>1. row' = [row EXCEPT ![At(w)] = "succeeded"] /\ age' = age
    BY <1>6 DEF CommitWorktree, CommitSucceeded
  <2>2. row[At(w)] # "none"
    BY <1>6 DEF CommitWorktree, RowsInOrder, Inserted
  <2>3. Rewrites(At(w), "succeeded") /\ "succeeded" \in WorktreeState
    BY <2>1, <2>2 DEF Rewrites, InFlight, WorktreeState
  <2> QED
    BY <1>0, <2>3
<1>7. CASE CloseWorktree(w)
  <2>1. CASE UNCHANGED wtVars
    BY <2>1
  <2>2. CASE CanBecome(At(w), "failed") /\ SetState(At(w), "failed")
    <3>1. row[At(w)] # "none"
      BY <1>0, <2>2 DEF CanBecome, WORKTREE_TRANSITIONS, WorktreeState
    <3>2. Rewrites(At(w), "failed") /\ "failed" \in WorktreeState
      BY <2>2, <3>1 DEF Rewrites, SetState, InFlight, WorktreeState
    <3> QED
      BY <1>0, <3>2
  <2> QED
    BY <1>7, <2>1, <2>2 DEF CloseWorktree
<1>8. CASE LoopEnds(w)
  BY <1>8 DEF LoopEnds, EndCommands
<1>9. CASE \/ LeaseInstance(w) \/ LeaseDenied(w) \/ LeaseRaises(w) \/ SetupFails(w)
           \/ CollectEvidence(w) \/ CompleteTask(w) \/ ReportOutcome(w)
  BY <1>9 DEF LeaseInstance, LeaseDenied, LeaseRaises, SetupFails, CollectEvidence, CompleteTask, ReportOutcome
<1> QED
  BY <1>1, <1>2, <1>3, <1>4, <1>5, <1>6, <1>7, <1>8, <1>9 DEF WorkerStep

LEMMA RowMoves ==
  ASSUME TypeOK, RowsInOrder, [Next]_vars
  PROVE  \/ UNCHANGED <<row, age>>
         \/ \E w \in Workers : WorkerStep(w) /\ Inserts(w)
         \/ \E a \in Attempts, s \in WorktreeState : Rewrites(a, s)
<1>0. row \in [Attempts -> WorktreeState] /\ keeper.list \subseteq Attempts
  BY DEF TypeOK, WorktreesTypeOK, KeeperState
<1> USE DEF wtVars
<1>1. UNCHANGED vars \/ CancelExecution \/ (\E a \in Attempts : LeaseExpires(a))
      \/ ReconcileExpiredLeases \/ Crash \/ Reconcile \/ RecoverExecutions \/ ListActive
      \/ EndCleaning \/ ReleaseStaleInstances \/ EndSweep => UNCHANGED <<row, age>>
  BY DEF vars, CancelExecution, LeaseExpires, ReconcileExpiredLeases, Crash, Reconcile,
     RecoverExecutions, ListActive, EndCleaning, ReleaseStaleInstances, EndSweep
<1>2. \A w \in Workers, a \in Attempts : Claim(w, a) => UNCHANGED <<row, age>>
  BY DEF Claim
<1>3. ASSUME NEW a \in Attempts, InterruptOrphan(a) PROVE Rewrites(a, "interrupted") /\ "interrupted" \in WorktreeState
  BY <1>0, <1>3 DEF InterruptOrphan, SetState, Rewrites, InFlight, WorktreeState
<1>4. ASSUME NEW a \in Attempts, InterruptListed(a)
      PROVE  UNCHANGED <<row, age>> \/ (Rewrites(a, "interrupted") /\ "interrupted" \in WorktreeState)
  <2>1. row[a] # "none"
    BY <1>4 DEF InterruptListed, RowsInOrder
  <2>2. a[1] \in meddled' \/ keeper.boot
    BY <1>4, FreeTyped DEF InterruptListed, TypeOK, KeeperState
  <2> QED
    BY <1>4, <2>1, <2>2 DEF InterruptListed, SetState, Rewrites, WorktreeState
<1>5. ASSUME NEW a \in Attempts, CleanUp(a)
      PROVE  \E s \in WorktreeState : Rewrites(a, s)
  <2>1. row[a] # "none"
    BY <1>5 DEF CleanUp, MarkAndRemove, Cleanable
  <2>2. PICK s \in {"cleanup_eligible", "removed"} : row' = [row EXCEPT ![a] = s] /\ age' = age
    BY <1>5 DEF CleanUp, MarkAndRemove
  <2> QED
    BY <2>1, <2>2 DEF Rewrites, InFlight, WorktreeState
<1>6. ASSUME NEW a \in Attempts, SweepWorktree(a)
      PROVE  \E s \in WorktreeState : Rewrites(a, s)
  <2>1. PICK s \in {"failed", "cancelled"} : row' = [row EXCEPT ![a] = s] /\ age' = age
    BY <1>6 DEF SweepWorktree, Abandon
  <2> QED
    BY <1>6, <2>1 DEF SweepWorktree, Rewrites, InFlight, WorktreeState
<1> QED
  BY <1>1, <1>2, <1>3, <1>4, <1>5, <1>6, WorkerRows DEF Next, KeeperStep

\* The rows a keeper lists were active.
LEMMA ListMoves ==
  ASSUME TypeOK, [Next]_vars, NEW a \in keeper'.list
  PROVE  a \in keeper.list \/ row[a] = "active"
<1>0. keeper \in KeeperState
  BY DEF TypeOK
<1>1. CASE UNCHANGED keeper
  BY <1>1
<1>2. CASE Crash \/ Reconcile
  BY <1>0, <1>2 DEF Crash, Reconcile, KeeperState
<1>3. CASE RecoverExecutions \/ EndCleaning \/ ReleaseStaleInstances \/ EndSweep
  BY <1>0, <1>3 DEF RecoverExecutions, EndCleaning, ReleaseStaleInstances, EndSweep, Then, KeeperState
<1>4. CASE ListActive
  BY <1>0, <1>4 DEF ListActive, Interrupting, KeeperState
<1>9. ASSUME NEW b \in Attempts, InterruptListed(b) PROVE a \in keeper.list
  <2>1. Interrupting(keeper.list \ {b})
    BY <1>9 DEF InterruptListed
  <2>2. keeper'.list = keeper.list \ {b}
    BY <1>0, <2>1 DEF Interrupting, KeeperState
  <2> QED
    BY <2>2
<1>5. \A w \in Workers : WorkerStep(w) => UNCHANGED keeper
  BY WorkerMoves
<1>6. \A w \in Workers, b \in Attempts : Claim(w, b) => UNCHANGED keeper
  BY DEF Claim
<1>7. UNCHANGED vars \/ CancelExecution \/ (\E b \in Attempts : LeaseExpires(b))
      \/ ReconcileExpiredLeases => UNCHANGED keeper
  BY DEF vars, CancelExecution, LeaseExpires, ReconcileExpiredLeases
<1>8. \A b \in Attempts : InterruptOrphan(b) \/ CleanUp(b) \/ SweepWorktree(b) => UNCHANGED keeper
  BY DEF InterruptOrphan, CleanUp, SweepWorktree
<1> QED
  BY <1>1, <1>2, <1>3, <1>4, <1>5, <1>6, <1>7, <1>8, <1>9 DEF Next, KeeperStep

\* A row comes into being when its worker inserts it, and stays.
LEMMA RowsStay ==
  ASSUME TypeOK, AtWork, RowsInOrder, [Next]_vars, NEW a \in Attempts
  PROVE  /\ row[a] # "none" => row'[a] # "none"
         /\ row[a] = "none" /\ row'[a] # "none" => \E w \in Workers : WorkerStep(w) /\ Inserts(w) /\ At(w) = a
         /\ age'[a] # age[a] => \E w \in Workers : WorkerStep(w) /\ Inserts(w) /\ At(w) = a
<1>0. row \in [Attempts -> WorktreeState] /\ age \in [Attempts -> Nat]
  BY DEF TypeOK, WorktreesTypeOK
<1>1. CASE UNCHANGED <<row, age>>
  BY <1>1
<1>2. ASSUME NEW w \in Workers, WorkerStep(w), Inserts(w)
      PROVE  /\ row'[At(w)] = "allocated"
             /\ \A b \in Attempts \ {At(w)} : row'[b] = row[b] /\ age'[b] = age[b]
  BY <1>0, <1>2, WorkerTyped DEF Inserts, InsertRow
<1>3. ASSUME NEW b \in Attempts, NEW s \in WorktreeState, Rewrites(b, s)
      PROVE  (row'[a] = "none" <=> row[a] = "none") /\ age' = age
  BY <1>0, <1>3 DEF Rewrites
<1> QED
  BY <1>1, <1>2, <1>3, RowMoves

LEMMA OneMore ==
  ASSUME NEW S, IsFiniteSet(S), NEW x, x \notin S
  PROVE  \E n \in Nat : /\ n = 1 + Cardinality(S) /\ n > 0 /\ Cardinality(S) <= n
                        /\ Cardinality(S) \in Nat
                        /\ Cardinality(S \cup {x}) = n
<1>1. Cardinality(S) \in Nat
  BY FS_CardinalityType
<1>2. Cardinality(S \cup {x}) = Cardinality(S) + 1
  BY FS_AddElement
<1> QED
  BY <1>1, <1>2

LEMMA AgesKept ==
  ASSUME TypeOK, AtWork, RowsInOrder, [Next]_vars
  PROVE  /\ \A a \in Attempts : row'[a] = "none" <=> age'[a] = 0
         /\ \A a \in Attempts : age'[a] <= Cardinality({b \in Of(a[1]) : age'[b] > 0})
<1>0. row \in [Attempts -> WorktreeState] /\ age \in [Attempts -> Nat]
  BY DEF TypeOK, WorktreesTypeOK
<1>1. CASE UNCHANGED <<row, age>>
  BY <1>1 DEF RowsInOrder
<1>2. ASSUME NEW w \in Workers, WorkerStep(w), Inserts(w)
      PROVE  /\ \A a \in Attempts : row'[a] = "none" <=> age'[a] = 0
             /\ \A a \in Attempts : age'[a] <= Cardinality({b \in Of(a[1]) : age'[b] > 0})
  <2> DEFINE a == At(w)
             sofar == {b \in Of(a[1]) : age[b] > 0}
  <2>1. a \in Attempts
    BY WorkerTyped
  <2>2. IsFiniteSet(sofar) /\ Cardinality(sofar) \in Nat
    BY <2>1, Counted
  <2>3. row' = [row EXCEPT ![a] = "allocated"] /\ age' = [age EXCEPT ![a] = 1 + Cardinality(sofar)]
    BY <1>2 DEF Inserts, InsertRow
  <2>4. age[a] = 0
    BY <1>2, <2>1 DEF Inserts, InsertWorktree, RowsInOrder, Before
  <2>5. a \notin sofar
    BY <2>4
  <2> HIDE DEF sofar
  <2>6. PICK n \in Nat : /\ n = 1 + Cardinality(sofar) /\ n > 0 /\ Cardinality(sofar) <= n
                         /\ Cardinality(sofar) \in Nat
                         /\ Cardinality(sofar \cup {a}) = n
    BY <2>2, <2>5, OneMore
  <2>7. \A b \in Attempts : /\ age'[b] = IF b = a THEN n ELSE age[b]
                            /\ row'[b] = IF b = a THEN "allocated" ELSE row[b]
    BY <1>0, <2>1, <2>3, <2>6
  <2>8. {b \in Of(a[1]) : age'[b] > 0} = sofar \cup {a}
    BY <2>1, <2>6, <2>7 DEF Of, sofar
  <2>9. Cardinality({b \in Of(a[1]) : age'[b] > 0}) = n
    BY <2>6, <2>8
  <2>10. \A c \in Attempts : c[1] = a[1] => age'[c] <= n
    <3>1. \A c \in Attempts : c[1] = a[1] => {b \in Of(c[1]) : age[b] > 0} = sofar
      BY DEF sofar
    <3>2. \A c \in Attempts : c[1] = a[1] => age[c] <= Cardinality(sofar)
      BY <3>1 DEF RowsInOrder
    <3> QED
      BY <1>0, <2>6, <2>7, <3>2
  <2>11. \A c \in Attempts : c[1] # a[1] => {b \in Of(c[1]) : age'[b] > 0} = {b \in Of(c[1]) : age[b] > 0}
    BY <2>7 DEF Of
  <2>12. \A c \in Attempts : c[1] = a[1] => {b \in Of(c[1]) : age'[b] > 0} = {b \in Of(a[1]) : age'[b] > 0}
    OBVIOUS
  <2>13. \A c \in Attempts : age'[c] <= Cardinality({b \in Of(c[1]) : age'[b] > 0})
    <3> SUFFICES ASSUME NEW c \in Attempts PROVE age'[c] <= Cardinality({b \in Of(c[1]) : age'[b] > 0})
      OBVIOUS
    <3>1. CASE c[1] = a[1]
      BY <2>9, <2>10, <2>12, <3>1
    <3>2. CASE c[1] # a[1]
      <4>1. age'[c] = age[c]
        BY <2>7, <3>2
      <4> QED
        BY <2>11, <3>2, <4>1 DEF RowsInOrder
    <3> QED
      BY <3>1, <3>2
  <2> QED
    BY <2>6, <2>7, <2>13 DEF RowsInOrder
<1>3. ASSUME NEW a \in Attempts, NEW s \in WorktreeState, Rewrites(a, s)
      PROVE  /\ \A b \in Attempts : row'[b] = "none" <=> age'[b] = 0
             /\ \A b \in Attempts : age'[b] <= Cardinality({c \in Of(b[1]) : age'[c] > 0})
  BY <1>0, <1>3 DEF Rewrites, RowsInOrder
<1> QED
  BY <1>1, <1>2, <1>3, RowMoves

LEMMA RowsKept ==
  ASSUME TypeOK, OneOwner, AtWork, RowsInOrder, [Next]_vars
  PROVE  RowsInOrder'
<1>0. /\ row \in [Attempts -> WorktreeState] /\ worker \in [Workers -> WorkerState]
      /\ \A w \in Workers : At(w) \in Attempts /\ worker[w].stale \subseteq Attempts
  BY WorkerTyped DEF TypeOK, WorktreesTypeOK
<1>1. \A a \in Attempts : att'[a] = "none" => row'[a] = "none"
  <2> SUFFICES ASSUME NEW a \in Attempts, att'[a] = "none", row'[a] # "none" PROVE FALSE
    OBVIOUS
  <2>1. att[a] = "none" /\ row[a] = "none"
    BY AttemptsMove DEF RowsInOrder
  <2>2. PICK w \in Workers : Inserts(w) /\ At(w) = a
    BY <2>1, RowsStay
  <2> QED
    BY <2>1, <2>2 DEF Inserts, InsertWorktree, AtWork, Busy
<1>2. ASSUME NEW v \in Workers
      PROVE  /\ worker'[v].pc \in Before => row'[worker'[v].at] = "none"
             /\ worker'[v].pc \in Inserted => row'[worker'[v].at] # "none"
  <2>1. CASE worker'[v] = worker[v]
    <3>1. ASSUME NEW w \in Workers, Inserts(w), At(w) = At(v), worker[v].pc \in Before PROVE FALSE
      <4>1. worker[w].pc = "cleared"
        BY <3>1 DEF Inserts, InsertWorktree
      <4>2. v = w
        BY <3>1, <4>1 DEF AtWork, Busy, Before
      <4>3. worker'[v].pc = "allocated"
        BY <1>0, <3>1, <4>2 DEF Inserts
      <4> QED
        BY <2>1, <4>1, <4>2, <4>3
    <3> QED
      BY <1>0, <2>1, <3>1, RowsStay DEF RowsInOrder, At
  <2>2. CASE worker'[v] = Free
    BY <2>2, FreeTyped DEF Before, Inserted
  <2>3. ASSUME NEW a \in Attempts, Claim(v, a), worker'[v].at = a, worker'[v].pc = "claimed"
        PROVE  worker'[v].pc \in Before /\ worker'[v].pc \notin Inserted /\ row'[worker'[v].at] = "none"
    BY <2>3 DEF Claim, wtVars, RowsInOrder, Before, Inserted
  <2>4. CASE WorkerStep(v) /\ worker'[v].at = At(v)
    <3>1. ASSUME worker'[v].pc \in Before PROVE row'[At(v)] = "none"
      <4>1. worker[v].pc \in Before
        BY <2>4, <3>1, PlacesReached DEF Before, LeaseInstance, AddWorktree, AbandonStale
      <4>2. ASSUME NEW w \in Workers, Inserts(w), At(w) = At(v) PROVE FALSE
        <5>1. worker[w].pc = "cleared"
          BY <4>2 DEF Inserts, InsertWorktree
        <5>2. v = w
          BY <4>1, <4>2, <5>1 DEF AtWork, Busy, Before
        <5>3. worker'[v].pc = "allocated"
          BY <1>0, <4>2, <5>2 DEF Inserts
        <5> QED
          BY <3>1, <5>3 DEF Before
      <4> QED
        BY <1>0, <4>1, <4>2, RowsStay DEF RowsInOrder
    <3>2. ASSUME worker'[v].pc \in Inserted PROVE row'[At(v)] # "none"
      <4>1. CASE InsertRow(At(v))
        BY <1>0, <4>1 DEF InsertRow
      <4>2. CASE worker[v].pc \in Inserted
        BY <1>0, <4>2, RowsStay DEF RowsInOrder
      <4> QED
        BY <2>4, <3>2, <4>1, <4>2, PlacesReached
           DEF Inserted, ActivateWorktree, UseTool, LoopEnds, CollectEvidence, CommitWorktree
    <3> QED
      BY <2>4, <3>1, <3>2
  <2> QED
    BY <2>1, <2>2, <2>3, <2>4, WorkersMove
<1>3. ASSUME NEW v \in Workers
      PROVE  /\ \A b \in worker'[v].stale : row'[b] # "none" /\ b[1] = worker'[v].at[1]
             /\ \A b, c \in worker'[v].stale : b = c
  <2>1. \A b \in Attempts : row[b] # "none" => row'[b] # "none"
    BY RowsStay
  <2>2. CASE worker'[v] = worker[v]
    BY <1>0, <2>1, <2>2 DEF RowsInOrder, At
  <2>3. CASE worker'[v] = Free
    BY <2>3 DEF Free
  <2>4. ASSUME NEW a \in Attempts, Claim(v, a) PROVE worker'[v].stale = {}
    <3>1. worker'[v] = [Free EXCEPT !.pc = "claimed", !.at = a]
      BY <1>0, <2>4 DEF Claim
    <3> QED
      BY <3>1 DEF Free
  <2>5. CASE WorkerStep(v) /\ worker'[v].at = At(v)
    <3>1. CASE AddWorktree(v)
      <4>1. PICK found \in BOOLEAN :
              \E first \in SUBSET Bases(At(v), found), s \in SUBSET Stale(At(v)[1]), seen \in WorktreeState :
                 Added(v, found, first, s, seen)
        BY <3>1, AddWorktreeFinds
      <4>2. PICK first \in SUBSET Bases(At(v), found), s \in SUBSET Stale(At(v)[1]), seen \in WorktreeState :
                 Added(v, found, first, s, seen)
        BY <4>1
      <4> DEFINE mm == UNION {branch[b] : b \in Bases(At(v), found) \ first}
      <4>3. worker' = [worker EXCEPT ![v].pc = "added", ![v].stale = s, ![v].seen = seen, ![v].merge = mm]
        BY <4>2 DEF Added
      <4> HIDE DEF mm
      <4>4. worker'[v].stale = s
        BY <1>0, <4>3 DEF WorkerState
      <4>5. \A b, c \in s : b = c
        BY <4>2 DEF Added
      <4>6. \A b \in s : b \in Attempts /\ b[1] = At(v)[1] /\ row[b] # "none"
        BY DEF Stale, Of, InFlight
      <4> QED
        BY <2>1, <2>5, <4>4, <4>5, <4>6
    <3>2. CASE worker'[v].stale \subseteq worker[v].stale
      BY <1>0, <2>1, <2>5, <3>2 DEF RowsInOrder
    <3> QED
      BY <2>5, <3>1, <3>2, NotesKept
  <2> QED
    BY <2>2, <2>3, <2>4, <2>5, WorkersMove
<1>4. \A a \in keeper'.list : row'[a] # "none"
  <2>1. keeper'.list \subseteq Attempts
    BY TypeKept DEF TypeOK, KeeperState
  <2> QED
    BY <2>1, ListMoves, RowsStay DEF RowsInOrder
<1>5. \A a, b \in Attempts : a[1] = b[1] /\ row'[a] \in InFlight /\ row'[b] \in InFlight => a = b
  <2>1. CASE UNCHANGED <<row, age>>
    BY <2>1 DEF RowsInOrder
  <2>2. ASSUME NEW w \in Workers, Inserts(w)
        PROVE  \A a, b \in Attempts : a[1] = b[1] /\ row'[a] \in InFlight /\ row'[b] \in InFlight => a = b
    <3>1. \A b \in Attempts : row'[b] = IF b = At(w) THEN "allocated" ELSE row[b]
      BY <1>0, <2>2 DEF Inserts, InsertRow
    <3>2. \A b \in Attempts : b[1] = At(w)[1] => row[b] \notin InFlight
      BY <2>2 DEF Inserts, InsertRow, Insertable, Of
    <3> QED
      BY <3>1, <3>2 DEF RowsInOrder
  <2>3. ASSUME NEW c \in Attempts, NEW s \in WorktreeState, Rewrites(c, s)
        PROVE  \A a, b \in Attempts : a[1] = b[1] /\ row'[a] \in InFlight /\ row'[b] \in InFlight => a = b
    <3>1. \A b \in Attempts : row'[b] = IF b = c THEN s ELSE row[b]
      BY <1>0, <2>3 DEF Rewrites
    <3>2. s \in InFlight => row[c] \in InFlight \/ \A b \in Attempts : b[1] = c[1] /\ b # c => row[b] \notin InFlight
      BY <2>3 DEF Rewrites, Interruptible, Of
    <3> QED
      BY <3>1, <3>2 DEF RowsInOrder
  <2> QED
    BY <2>1, <2>2, <2>3, RowMoves
<1> QED
  BY <1>1, <1>2, <1>3, <1>4, <1>5, AgesKept DEF RowsInOrder, At, Of

-----------------------------------------------------------------------------
(* What a step can make of the histories, and rival attempts of a task.    *)

LEMMA HistoriesGrow ==
  ASSUME TypeOK, [Next]_vars
  PROVE  degraded \subseteq degraded' /\ meddled \subseteq meddled'
<1> USE DEF history
<1>1. ASSUME NEW w \in Workers, WorkerStep(w) PROVE degraded \subseteq degraded' /\ meddled \subseteq meddled'
  <2>1. CASE AddWorktree(w) \/ AbandonStale(w) \/ InsertWorktree(w) \/ CommitWorktree(w)
    BY <2>1 DEF AddWorktree, AbandonStale, InsertWorktree, CommitWorktree, Meddle
  <2>2. CASE \/ LeaseInstance(w) \/ LeaseDenied(w) \/ LeaseRaises(w) \/ SetupFails(w) \/ ActivateWorktree(w)
             \/ UseTool(w) \/ LoopEnds(w) \/ CollectEvidence(w) \/ CompleteTask(w) \/ CloseWorktree(w)
             \/ ReportOutcome(w)
    BY <2>2 DEF LeaseInstance, LeaseDenied, LeaseRaises, SetupFails, ActivateWorktree, UseTool, LoopEnds,
       CollectEvidence, CompleteTask, CloseWorktree, ReportOutcome
  <2> QED
    BY <1>1, <2>1, <2>2 DEF WorkerStep
<1>2. \A w \in Workers, a \in Attempts : Claim(w, a) => UNCHANGED history
  BY DEF Claim
<1>3. UNCHANGED vars \/ CancelExecution \/ (\E a \in Attempts : LeaseExpires(a))
      \/ ReconcileExpiredLeases \/ Crash \/ Reconcile => UNCHANGED history
  BY DEF vars, CancelExecution, LeaseExpires, ReconcileExpiredLeases, Crash, Reconcile
<1>4. KeeperStep => degraded \subseteq degraded' /\ meddled \subseteq meddled'
  BY DEF KeeperStep, RecoverExecutions, InterruptOrphan, InterruptListed, CleanUp, SweepWorktree, ListActive,
     EndCleaning, ReleaseStaleInstances, EndSweep
<1> QED
  BY <1>1, <1>2, <1>3, <1>4 DEF Next

LEMMA NoRival ==
  ASSUME TypeOK, OneOwner, NEW a \in Attempts, NEW b \in Attempts, a # b, a[1] = b[1],
         att[a] \in Open \cup {"succeeded"}
  PROVE  att[b] \notin Open \cup {"succeeded"}
<1>1. a[1] \in Tasks
  BY FreeTyped
<1>2. \A c \in Attempts : c[1] = a[1] /\ att[c] \in Open => task[a[1]] = "running"
  BY <1>1 DEF OneOwner, Of
<1>3. \A c \in Attempts : c[1] = a[1] /\ att[c] = "succeeded" => task[a[1]] = "completed"
  BY DEF OneOwner, Accepted
<1>4. att[a] = "succeeded" /\ att[b] = "succeeded" => FALSE
  BY DEF OneOwner, Accepted
<1>5. att[a] \in Open /\ att[b] \in Open => FALSE
  BY DEF OneOwner
<1> QED
  BY <1>2, <1>3, <1>4, <1>5

\* The worktree of the attempt that holds a task is the newest one of it.
Newest ==
  \A a \in Attempts : att[a] \in Open \cup {"succeeded"} /\ row[a] # "none" /\ a[1] \notin meddled =>
    \A b \in Of(a[1]) : b # a => age[b] < age[a]

LEMMA NewestKept ==
  ASSUME TypeOK, OneOwner, AtWork, RowsInOrder, Newest, [Next]_vars
  PROVE  Newest'
<1> SUFFICES ASSUME NEW a \in Attempts, att'[a] \in Open \cup {"succeeded"}, row'[a] # "none", a[1] \notin meddled',
                    NEW b \in Attempts, b[1] = a[1], b # a
             PROVE  age'[b] < age'[a]
  BY DEF Newest, Of
<1>0. age \in [Attempts -> Nat] /\ row \in [Attempts -> WorktreeState] /\ a[1] \notin meddled
  BY HistoriesGrow DEF TypeOK, WorktreesTypeOK
<1>1. att[a] \in Open \cup {"succeeded"}
  <2>1. ASSUME att[a] = "none" PROVE FALSE
    <3>1. PICK w \in Workers : Claim(w, a)
      BY <2>1, AttemptsMove DEF Open
    <3>2. row[a] = "none" /\ row' = row
      BY <2>1, <3>1 DEF Claim, wtVars, RowsInOrder
    <3> QED
      BY <3>2
  <2> QED
    BY <2>1, AttemptsMove
<1>2. CASE UNCHANGED <<row, age>>
  BY <1>0, <1>1, <1>2 DEF Newest, Of
<1>3. ASSUME NEW c \in Attempts, NEW s \in WorktreeState, Rewrites(c, s) PROVE age'[b] < age'[a]
  <2>1. row[a] # "none" /\ age' = age
    BY <1>0, <1>3 DEF Rewrites
  <2> QED
    BY <1>0, <1>1, <2>1 DEF Newest, Of
<1>4. ASSUME NEW w \in Workers, Inserts(w) PROVE age'[b] < age'[a]
  <2>0. At(w) \in Attempts
    BY WorkerTyped
  <2> DEFINE c == At(w)
             n == Cardinality({x \in Of(c[1]) : age[x] > 0})
  <2>1. n \in Nat
    BY <2>0, Counted
  <2>2. age' = [age EXCEPT ![c] = 1 + n] /\ row' = [row EXCEPT ![c] = "allocated"]
    BY <1>4 DEF Inserts, InsertRow
  <2>3. c = a => age[b] <= n
    BY DEF RowsInOrder
  <2> HIDE DEF n
  <2>4. CASE c = a
    <3>1. age'[a] = 1 + n /\ age'[b] = age[b] /\ age[b] \in Nat
      BY <1>0, <2>0, <2>2, <2>4
    <3> QED
      BY <2>1, <2>3, <2>4, <3>1
  <2>5. CASE c # a /\ c[1] = a[1]
    <3>1. c[1] \in meddled'
      BY <1>1, <1>4, <2>0, <2>5, NoRival DEF Inserts
    <3> QED
      BY <2>5, <3>1
  <2>6. CASE c[1] # a[1]
    <3>1. age'[a] = age[a] /\ age'[b] = age[b] /\ row'[a] = row[a]
      BY <1>0, <2>0, <2>2, <2>6
    <3> QED
      BY <1>0, <1>1, <3>1 DEF Newest, Of
  <2> QED
    BY <2>4, <2>5, <2>6
<1> QED
  BY <1>2, <1>3, <1>4, RowMoves

-----------------------------------------------------------------------------
(* The slots of the agent type.  An instance whose run is gone is released *)
(* by the reclaim of its task: the run went down with the task, and nobody *)
(* else can hold it before its lease lapses.                               *)

Orphaned(a) == instance[a] = "running" /\ \A w \in Workers : ~WorksOn(w, a)

Awaited(a) ==
  /\ task[a[1]] = "running"
  /\ \A w \in Workers : Busy(w) /\ At(w)[1] = a[1] => att[At(w)] \notin Open

SlotsHeld ==
  /\ \A w \in Workers : worker[w].pc \in {"claimed", "reporting"} => instance[At(w)] # "running"
  /\ \A a \in Attempts : Orphaned(a) => keeper.boot \/ exec = "cancelled" \/ Awaited(a)
  /\ keeper.pc \in {"graphs", "sweeping"} =>
       \A a \in Attempts : instance[a] = "running" => task[a[1]] = "running"

\* A worker leaves its attempt only where its instance is not running.
LEMMA Leaves ==
  ASSUME TypeOK, [Next]_vars, NEW v \in Workers, Busy(v), ~Busy(v)'
  PROVE  \/ Crash
         \/ LeaseRaises(v) \/ ReportOutcome(v)
         \/ CompleteTask(v) /\ instance'[At(v)] = "completed"
<1>0. worker \in [Workers -> WorkerState] /\ instance \in [Attempts -> InstanceState] /\ At(v) \in Attempts
      /\ worker'[v].pc = "idle" /\ worker[v].pc # "idle" /\ worker'[v] # worker[v]
  BY WorkerTyped DEF TypeOK, Busy
<1>1. ASSUME NEW w \in Workers, WorkerStep(w)
      PROVE  LeaseRaises(v) \/ ReportOutcome(v) \/ (CompleteTask(v) /\ instance'[At(v)] = "completed")
  <2>1. v = w /\ worker'[v] = Free
    BY <1>0, <1>1, WorkerMoves
  <2>2. ~(LeaseInstance(v) \/ InsertWorktree(v) \/ LoopEnds(v) \/ CollectEvidence(v) \/ CommitWorktree(v)
          \/ CloseWorktree(v) \/ SetupFails(v))
    BY <1>0, MovesTo DEF LeaseInstance, InsertWorktree, LoopEnds, CollectEvidence, CommitWorktree, CloseWorktree, SetupFails
  <2>3. ~(LeaseDenied(v) \/ AbandonStale(v) \/ ActivateWorktree(v) \/ UseTool(v))
    BY <1>0 DEF LeaseDenied, AbandonStale, ActivateWorktree, UseTool, WorkerState
  <2>4. ~AddWorktree(v)
    <3> SUFFICES ASSUME AddWorktree(v) PROVE FALSE
      OBVIOUS
    <3>1. PICK found \in BOOLEAN :
            \E first \in SUBSET Bases(At(v), found), s \in SUBSET Stale(At(v)[1]), seen \in WorktreeState :
               Added(v, found, first, s, seen)
      BY AddWorktreeFinds
    <3>2. worker'[v].pc = "added"
      BY <1>0, <3>1 DEF Added
    <3> QED
      BY <1>0, <3>2
  <2>5. CompleteTask(v) => instance'[At(v)] = "completed"
    <3>1. ~Break(v, "failed")
      BY <1>0, MovesTo
    <3> QED
      BY <1>0, <3>1 DEF CompleteTask
  <2> QED
    BY <1>1, <2>1, <2>2, <2>3, <2>4, <2>5 DEF WorkerStep
<1>2. \A w \in Workers, a \in Attempts : Claim(w, a) => worker'[v] = worker[v] \/ worker'[v].pc = "claimed"
  BY <1>0, FreeTyped DEF Claim, WorkerState
<1>3. UNCHANGED vars \/ CancelExecution \/ (\E a \in Attempts : LeaseExpires(a))
      \/ ReconcileExpiredLeases \/ Reconcile \/ KeeperStep => UNCHANGED worker
  BY DEF vars, CancelExecution, LeaseExpires, ReconcileExpiredLeases, Reconcile, KeeperStep, RecoverExecutions,
     InterruptOrphan, InterruptListed, CleanUp, SweepWorktree, ListActive, EndCleaning, ReleaseStaleInstances, EndSweep
<1> QED
  BY <1>0, <1>1, <1>2, <1>3 DEF Next

\* An instance runs once it is leased; reclaiming a task stops those it has.
LEMMA InstancesMove ==
  ASSUME TypeOK, [Next]_vars, NEW a \in Attempts, instance'[a] = "running"
  PROVE  /\ instance[a] = "running" \/ \E w \in Workers : LeaseInstance(w) /\ At(w) = a
         /\ keeper.pc = "instances" /\ keeper'.pc = "graphs" => task[a[1]] = "running" /\ UNCHANGED Graph
         /\ \/ UNCHANGED Graph
            \/ \E w \in Workers, b \in Attempts : Claim(w, b) /\ Claims(b)
            \/ \E w \in Workers : \E out \in AttState, state \in TaskState :
                 WorkerStep(w) /\ Ends(At(w), out, state)
            \/ CancelExecution /\ Cancels
            \/ \E b \in Attempts : Lapses(b)
            \/ Reclaims /\ a[1] \notin Lost
<1>0. instance \in [Attempts -> InstanceState] /\ keeper \in KeeperState
  BY DEF TypeOK
<1> USE DEF runVars, Graph
<1>1. ASSUME NEW w \in Workers, WorkerStep(w)
      PROVE  instance[a] = "running" \/ (LeaseInstance(w) /\ At(w) = a)
  <2>1. At(w) \in Attempts
    BY WorkerTyped
  <2>2. CASE LeaseInstance(w)
    BY <1>0, <2>1, <2>2 DEF LeaseInstance
  <2>3. CASE CloseWorktree(w) \/ CompleteTask(w)
    BY <1>0, <2>1, <2>3 DEF CloseWorktree, CompleteTask
  <2>4. CASE \/ LeaseDenied(w) \/ LeaseRaises(w) \/ AddWorktree(w) \/ AbandonStale(w) \/ InsertWorktree(w)
             \/ ActivateWorktree(w) \/ SetupFails(w) \/ UseTool(w) \/ LoopEnds(w) \/ CollectEvidence(w)
             \/ CommitWorktree(w) \/ ReportOutcome(w)
    BY <2>4 DEF LeaseDenied, LeaseRaises, AddWorktree, AbandonStale, InsertWorktree, ActivateWorktree, SetupFails,
       UseTool, LoopEnds, CollectEvidence, CommitWorktree, ReportOutcome
  <2> QED
    BY <1>1, <2>2, <2>3, <2>4 DEF WorkerStep
<1>2. Reclaim /\ exec = "running" => instance[a] = "running" /\ a[1] \notin Lost /\ Reclaims
  BY <1>0 DEF Reclaim, Reclaims, Lost
<1>3. ReconcileExpiredLeases => instance[a] = "running" /\ a[1] \notin Lost /\ Reclaims
  BY <1>2 DEF ReconcileExpiredLeases
<1>4. RecoverExecutions => instance[a] = "running" /\ (UNCHANGED Graph \/ (a[1] \notin Lost /\ Reclaims))
  BY <1>2 DEF RecoverExecutions
<1>5. ReleaseStaleInstances => instance[a] = "running" /\ task[a[1]] = "running" /\ UNCHANGED Graph
  BY <1>0 DEF ReleaseStaleInstances
<1>6. (\E w \in Workers, b \in Attempts : Claim(w, b)) \/ UNCHANGED vars \/ CancelExecution
      \/ (\E b \in Attempts : LeaseExpires(b)) => UNCHANGED instance
  BY DEF Claim, vars, CancelExecution, LeaseExpires
<1>7. Crash \/ Reconcile \/ ListActive \/ EndCleaning \/ EndSweep
      \/ (\E b \in Attempts : InterruptOrphan(b) \/ InterruptListed(b) \/ CleanUp(b) \/ SweepWorktree(b))
        => UNCHANGED instance /\ UNCHANGED Graph
  BY DEF Crash, Reconcile, InterruptOrphan, InterruptListed, CleanUp, SweepWorktree, ListActive, EndCleaning, EndSweep
<1>8. instance[a] = "running" \/ \E w \in Workers : LeaseInstance(w) /\ At(w) = a
  BY <1>1, <1>3, <1>4, <1>5, <1>6, <1>7 DEF Next, KeeperStep
<1>9. Crash => keeper'.pc = "executions"
  BY <1>0 DEF Crash, KeeperState
<1>10. keeper.pc = "instances" /\ keeper'.pc = "graphs" => ReleaseStaleInstances
  <2> SUFFICES ASSUME keeper.pc = "instances", keeper'.pc = "graphs" PROVE ReleaseStaleInstances
    OBVIOUS
  <2>1. \A w \in Workers : ~WorkerStep(w)
    BY WorkerMoves
  <2>2. \A w \in Workers, b \in Attempts : ~Claim(w, b)
    BY DEF Claim
  <2>3. ~(UNCHANGED vars \/ CancelExecution \/ (\E b \in Attempts : LeaseExpires(b)) \/ ReconcileExpiredLeases)
    BY DEF vars, CancelExecution, LeaseExpires, ReconcileExpiredLeases
  <2>4. ~(Reconcile \/ RecoverExecutions \/ ListActive \/ EndCleaning \/ EndSweep)
    BY DEF Reconcile, RecoverExecutions, ListActive, EndCleaning, EndSweep
  <2>5. \A b \in Attempts : ~(InterruptOrphan(b) \/ InterruptListed(b) \/ CleanUp(b) \/ SweepWorktree(b))
    BY DEF InterruptOrphan, InterruptListed, CleanUp, SweepWorktree
  <2> QED
    BY <1>9, <2>1, <2>2, <2>3, <2>4, <2>5 DEF Next, KeeperStep
<1>11. \/ UNCHANGED Graph
       \/ \E w \in Workers, b \in Attempts : Claim(w, b) /\ Claims(b)
       \/ \E w \in Workers : \E out \in AttState, state \in TaskState :
            WorkerStep(w) /\ Ends(At(w), out, state)
       \/ CancelExecution /\ Cancels
       \/ \E b \in Attempts : Lapses(b)
       \/ Reclaims /\ a[1] \notin Lost
  <2>1. CASE ReconcileExpiredLeases \/ RecoverExecutions
    BY <1>3, <1>4, <2>1
  <2>2. CASE \/ UNCHANGED vars \/ CancelExecution \/ Crash \/ Reconcile \/ ReleaseStaleInstances
             \/ \E b \in Attempts : InterruptOrphan(b) \/ InterruptListed(b) \/ CleanUp(b) \/ SweepWorktree(b) \/ LeaseExpires(b)
             \/ ListActive \/ EndCleaning \/ EndSweep
    <3>1. CancelExecution => Cancels
      BY DEF CancelExecution, Cancels
    <3>2. \A b \in Attempts : LeaseExpires(b) => Lapses(b)
      BY DEF LeaseExpires, Lapses
    <3>3. UNCHANGED vars => UNCHANGED Graph
      BY DEF vars
    <3> QED
      BY <1>5, <1>7, <2>2, <3>1, <3>2, <3>3
  <2>3. ASSUME NEW w \in Workers, WorkerStep(w)
        PROVE  UNCHANGED Graph \/ \E out \in AttState, state \in TaskState : Ends(At(w), out, state)
    <3>1. worker[w].outcome \in Outcomes
      BY WorkerTyped
    <3>2. worker[w].outcome \in AttState /\ "succeeded" \in AttState /\ "completed" \in TaskState
          /\ (IF worker[w].outcome = "unknown" THEN "blocked" ELSE worker[w].outcome) \in TaskState
      BY <3>1 DEF Outcomes, AttState, TaskState
    <3> QED
      BY <2>3, <3>2, WorkerGraph
  <2>4. \A w \in Workers, b \in Attempts : Claim(w, b) => Claims(b)
    BY DEF Claim, Claims
  <2> QED
    BY <2>1, <2>2, <2>3, <2>4 DEF Next, KeeperStep
<1> QED
  BY <1>5, <1>8, <1>10, <1>11

\* While a process starts up nobody else works.
LEMMA Booting ==
  ASSUME TypeOK, AtWork, keeper.boot, [Next]_vars
  PROVE  /\ UNCHANGED vars \/ (\E a \in Attempts : LeaseExpires(a)) \/ KeeperStep
         /\ UNCHANGED <<worker, meddled, degraded>>
<1>1. \A w \in Workers : ~WorkerStep(w) /\ \A a \in Attempts : ~Claim(w, a)
  BY WorkerMoves DEF AtWork, Busy, Claim
<1>2. ~(CancelExecution \/ ReconcileExpiredLeases \/ Crash \/ Reconcile)
  BY DEF CancelExecution, ReconcileExpiredLeases, Crash, Reconcile, AtWork
<1>3. UNCHANGED vars \/ (\E a \in Attempts : LeaseExpires(a)) \/ KeeperStep
  BY <1>1, <1>2 DEF Next
<1>4. UNCHANGED vars \/ (\E a \in Attempts : LeaseExpires(a)) => UNCHANGED <<worker, meddled, degraded>>
  BY DEF vars, history, LeaseExpires
<1>5. KeeperStep => UNCHANGED <<worker, meddled, degraded>>
  BY DEF KeeperStep, history, RecoverExecutions, InterruptOrphan, InterruptListed, CleanUp, SweepWorktree, ListActive,
     EndCleaning, ReleaseStaleInstances, EndSweep
<1> QED
  BY <1>3, <1>4, <1>5

\* The start-up ends with the sweep and reaches it through the release.
LEMMA BootEnds ==
  ASSUME TypeOK, AtWork, keeper.boot, [Next]_vars
  PROVE  /\ ~keeper'.boot => keeper.pc = "sweeping" /\ UNCHANGED Graph
         /\ keeper'.pc = "graphs" => keeper.pc \in {"instances", "graphs"}
         /\ keeper'.pc = "sweeping" => keeper.pc \in {"graphs", "sweeping"}
<1>0. keeper \in KeeperState
  BY DEF TypeOK
<1> USE DEF Graph, runVars
<1>1. CASE UNCHANGED vars \/ \E a \in Attempts : LeaseExpires(a)
  <2>1. keeper' = keeper
    BY <1>1 DEF vars, LeaseExpires
  <2> QED
    BY <2>1
<1>2. CASE RecoverExecutions \/ EndCleaning \/ ReleaseStaleInstances
  BY <1>0, <1>2 DEF RecoverExecutions, EndCleaning, ReleaseStaleInstances, Then, KeeperState, AtWork
<1>3. CASE ListActive
  BY <1>0, <1>3 DEF ListActive, Interrupting, KeeperState
<1>4. ASSUME NEW a \in Attempts, InterruptListed(a)
      PROVE  keeper'.boot = keeper.boot /\ keeper'.pc \in {"cleaning", "interrupting"}
  <2>1. Interrupting(keeper.list \ {a})
    BY <1>4 DEF InterruptListed
  <2> QED
    BY <1>0, <2>1 DEF Interrupting, KeeperState
<1>5. CASE EndSweep
  BY <1>0, <1>5 DEF EndSweep, KeeperState
<1>6. \A a \in Attempts : InterruptOrphan(a) \/ CleanUp(a) \/ SweepWorktree(a) => UNCHANGED keeper
  BY DEF InterruptOrphan, CleanUp, SweepWorktree
<1> QED
  BY <1>1, <1>2, <1>3, <1>4, <1>5, <1>6, Booting DEF KeeperStep

LEMMA VerdictMoves ==
  ASSUME TypeOK, OneOwner, [Next]_vars, exec # "running"
  PROVE  exec' # "running" /\ (exec = "cancelled" => exec' = "cancelled")
<1>0. \A w \in Workers : At(w) \in Attempts
  BY WorkerTyped
<1>1. \A w \in Workers, out \in AttState, state \in TaskState : ~Ends(At(w), out, state)
  BY <1>0, FreeTyped DEF Ends, OneOwner, Of
<1> QED
  BY <1>1, GraphMoves DEF Graph, Claims, Cancels, Lapses, Reclaims, CancelExecution

LEMMA CancelledBy ==
  ASSUME TypeOK, [Next]_vars, exec = "running", ~CancelExecution
  PROVE  exec' # "cancelled"
<1>1. \A s : SetTasks(s) => exec' # "cancelled"
  BY DEF SetTasks
<1> QED
  BY <1>1, GraphMoves DEF Graph, Claims, Ends, Lapses, Reclaims

\* A task somebody's lease holds is let go only by that attempt, by a
\* cancellation, or by the reclaim of a lapsed one.
LEMMA AwaitedStays ==
  ASSUME TypeOK, OneOwner, AtWork, [Next]_vars, NEW a \in Attempts,
         Awaited(a), instance'[a] = "running", exec' # "cancelled"
  PROVE  Awaited(a)'
<1>0. /\ task \in [Tasks -> TaskState] /\ att \in [Attempts -> AttState] /\ a[1] \in Tasks
      /\ \A w \in Workers : At(w) \in Attempts
      /\ worker' \in [Workers -> WorkerState]
  BY FreeTyped, WorkerTyped, TypeKept DEF TypeOK
<1>1. task'[a[1]] = "running"
  <2>1. CASE UNCHANGED Graph \/ \E b \in Attempts : Lapses(b)
    BY <2>1 DEF Graph, Lapses, Awaited
  <2>2. ASSUME NEW b \in Attempts, Claims(b) PROVE task'[a[1]] = "running"
    BY <1>0, <2>2 DEF Claims, Awaited
  <2>3. ASSUME NEW w \in Workers, WorkerStep(w), NEW out \in AttState, NEW state \in TaskState, Ends(At(w), out, state)
        PROVE  task'[a[1]] = "running"
    <3>1. At(w)[1] # a[1]
      BY <2>3, WorkerMoves DEF Ends, Awaited, Busy
    <3> DEFINE s == [task EXCEPT ![At(w)[1]] = state]
    <3>2. s \in [Tasks -> TaskState] /\ s[a[1]] = "running" /\ SetTasks(s)
      BY <1>0, <2>3, <3>1 DEF Ends, Awaited
    <3> HIDE DEF s
    <3> QED
      BY <1>0, <3>2, Recomputed
  <2>4. CASE Reclaims /\ a[1] \notin Lost
    <3> DEFINE s == [t \in Tasks |-> IF t \in Lost THEN "ready" ELSE task[t]]
    <3>1. s \in [Tasks -> TaskState] /\ s[a[1]] = "running" /\ SetTasks(s)
      BY <1>0, <2>4 DEF Reclaims, Awaited, TaskState
    <3> HIDE DEF s
    <3> QED
      BY <1>0, <3>1, Recomputed
  <2>5. CASE Cancels
    BY <2>5 DEF Cancels
  <2> QED
    BY <2>1, <2>2, <2>3, <2>4, <2>5, InstancesMove
<1>2. ASSUME NEW v \in Workers, worker'[v].pc # "idle", worker'[v].at[1] = a[1], att'[worker'[v].at] \in Open
      PROVE  FALSE
  <2>1. \A b \in Attempts : Claim(v, b) => b[1] # a[1]
    BY DEF Claim, Awaited
  <2>2. Busy(v) /\ worker'[v].at = At(v)
    BY <1>2, <2>1, WorkersMove, FreeTyped DEF Busy, At
  <2>3. att[At(v)] \notin Open
    BY <1>2, <2>2 DEF Awaited
  <2>4. att[At(v)] # "none"
    BY <2>2 DEF AtWork
  <2> QED
    BY <1>0, <1>2, <2>2, <2>3, <2>4, AttemptsMove
<1> QED
  BY <1>1, <1>2 DEF Awaited, Busy, At

LEMMA SlotsKept ==
  ASSUME TypeOK, OneOwner, AtWork, SlotsHeld, [Next]_vars
  PROVE  SlotsHeld'
<1>0. /\ \A w \in Workers : At(w) \in Attempts
      /\ worker \in [Workers -> WorkerState] /\ instance \in [Attempts -> InstanceState]
  BY WorkerTyped DEF TypeOK
<1>1. ASSUME NEW v \in Workers, worker'[v].pc \in {"claimed", "reporting"}, instance'[worker'[v].at] = "running"
      PROVE  FALSE
  <2>1. CASE worker'[v] = worker[v]
    <3>1. instance[At(v)] # "running"
      BY <1>1, <2>1 DEF SlotsHeld
    <3>2. PICK w \in Workers : LeaseInstance(w) /\ At(w) = At(v)
      BY <1>0, <1>1, <2>1, <3>1, InstancesMove DEF At
    <3>3. w = v
      BY <1>1, <2>1, <3>2 DEF AtWork, Busy, LeaseInstance
    <3>4. worker'[v].pc = "leased"
      BY <3>2, <3>3, MovesTo DEF LeaseInstance
    <3> QED
      BY <1>1, <3>4
  <2>2. CASE worker'[v] = Free
    BY <1>1, <2>2, FreeTyped
  <2>3. ASSUME NEW a \in Attempts, Claim(v, a), worker'[v].at = a PROVE FALSE
    <3>1. /\ instance[a] = "running" /\ att[a] = "none" /\ task[a[1]] = "ready" /\ exec = "running"
          /\ ~keeper.boot
      BY <1>1, <2>3 DEF Claim
    <3>2. Orphaned(a)
      BY <3>1 DEF Orphaned, WorksOn, AtWork, Busy
    <3> QED
      BY <3>1, <3>2 DEF SlotsHeld, Awaited
  <2>4. CASE WorkerStep(v) /\ worker'[v].at = At(v)
    <3>1. LeaseDenied(v) \/ CloseWorktree(v)
      BY <1>1, <2>4, PlacesReached
    <3>2. CASE LeaseDenied(v)
      BY <1>1, <2>4, <3>2 DEF LeaseDenied, runVars, SlotsHeld
    <3>3. CASE CloseWorktree(v)
      BY <1>0, <1>1, <2>4, <3>3 DEF CloseWorktree
    <3> QED
      BY <3>1, <3>2, <3>3
  <2> QED
    BY <2>1, <2>2, <2>3, <2>4, WorkersMove
<1>2. ASSUME NEW a \in Attempts, instance'[a] = "running", \A w \in Workers : ~(worker'[w].pc # "idle" /\ worker'[w].at = a),
             ~keeper'.boot, exec' # "cancelled"
      PROVE  Awaited(a)'
  <2>1. instance[a] = "running"
    <3>1. ASSUME NEW w \in Workers, LeaseInstance(w), At(w) = a PROVE FALSE
      <4>1. worker'[w].pc = "leased"
        BY <3>1, MovesTo DEF LeaseInstance
      <4>2. worker'[w].at = a
        BY <3>1, <4>1, FreeTyped, WorkerMoves DEF WorkerStep
      <4> QED
        BY <1>2, <4>1, <4>2
    <3> QED
      BY <1>2, <3>1, InstancesMove
  <2>2. ASSUME NEW w \in Workers, WorksOn(w, a) PROVE FALSE
    <3>1. ~Busy(w)'
      <4>1. ASSUME worker'[w].pc # "idle" PROVE FALSE
        <5>1. \A b \in Attempts : ~Claim(w, b)
          BY <2>2 DEF Claim, WorksOn
        <5> QED
          BY <1>2, <2>2, <4>1, <5>1, WorkersMove, FreeTyped DEF WorksOn, At
      <4> QED
        BY <4>1 DEF Busy
    <3>2. ~Crash
      BY <1>2 DEF Crash, TypeOK, KeeperState
    <3>3. LeaseRaises(w) \/ ReportOutcome(w)
      BY <1>2, <2>2, <3>1, <3>2, Leaves DEF WorksOn, Busy
    <3> QED
      BY <2>1, <2>2, <3>3 DEF LeaseRaises, ReportOutcome, SlotsHeld, WorksOn
  <2>3. Orphaned(a)
    BY <2>1, <2>2 DEF Orphaned
  <2>4. exec # "cancelled"
    BY <1>2, VerdictMoves
  <2>5. CASE keeper.boot
    <3>1. keeper.pc = "sweeping" /\ UNCHANGED Graph
      BY <1>2, <2>5, BootEnds
    <3>2. task[a[1]] = "running"
      BY <2>1, <3>1 DEF SlotsHeld
    <3>3. \A w \in Workers : worker'[w].pc = "idle"
      BY <2>5, Booting DEF AtWork, Busy
    <3> QED
      BY <3>1, <3>2, <3>3 DEF Awaited, Busy, Graph
  <2>6. CASE Awaited(a)
    BY <1>2, <2>6, AwaitedStays
  <2> QED
    BY <2>3, <2>4, <2>5, <2>6 DEF SlotsHeld
<1>3. ASSUME keeper'.pc \in {"graphs", "sweeping"}, NEW a \in Attempts, instance'[a] = "running"
      PROVE  task'[a[1]] = "running"
  <2>1. keeper'.boot
    BY <1>3, KeeperMoves
  <2>2. ~Crash
    BY <1>3 DEF Crash, TypeOK, KeeperState
  <2>3. keeper.boot /\ \A w \in Workers : ~Busy(w)
    BY <2>1, <2>2, KeeperMoves DEF AtWork
  <2>4. instance[a] = "running"
    BY <1>3, <2>3, InstancesMove DEF LeaseInstance, Busy
  <2>5. CASE keeper.pc = "instances" /\ keeper'.pc = "graphs"
    BY <1>3, <2>5, InstancesMove DEF Graph
  <2>6. CASE keeper.pc \in {"graphs", "sweeping"}
    <3>1. Awaited(a)
      BY <2>3, <2>4, <2>6 DEF SlotsHeld, Awaited
    <3>2. exec' # "cancelled"
      <4>1. exec = "running"
        BY <3>1, FreeTyped DEF OneOwner, Awaited
      <4>2. ~CancelExecution
        BY <2>3 DEF CancelExecution
      <4> QED
        BY <4>1, <4>2, CancelledBy
    <3> QED
      BY <1>3, <3>1, <3>2, AwaitedStays DEF Awaited
  <2> QED
    BY <1>3, <2>3, <2>5, <2>6, BootEnds
<1> QED
  BY <1>1, <1>2, <1>3 DEF SlotsHeld, Orphaned, WorksOn, At

-----------------------------------------------------------------------------
(* What a retry finds of the attempts before it.                           *)

RetryClear ==
  \A w \in Workers : att[At(w)] \in Open /\ At(w)[1] \notin meddled =>
    /\ worker[w].pc = "added" => Stale(At(w)[1]) \subseteq worker[w].stale
    /\ worker[w].pc = "cleared" => Insertable(At(w))

LEMMA NewInFlight ==
  ASSUME TypeOK, RowsInOrder, [Next]_vars, NEW a \in Attempts, row'[a] \in InFlight, row[a] \notin InFlight
  PROVE  \/ a[1] \in meddled' \/ keeper.boot
         \/ \E w \in Workers : Inserts(w) /\ At(w) = a
<1>0. row \in [Attempts -> WorktreeState]
  BY DEF TypeOK, WorktreesTypeOK
<1>1. ASSUME NEW w \in Workers, Inserts(w) PROVE At(w) = a
  BY <1>0, <1>1, WorkerTyped DEF Inserts, InsertRow
<1>2. ASSUME NEW b \in Attempts, NEW s \in WorktreeState, Rewrites(b, s) PROVE a[1] \in meddled' \/ keeper.boot
  BY <1>0, <1>2 DEF Rewrites
<1> QED
  BY <1>1, <1>2, RowMoves

LEMMA RetryKept ==
  ASSUME TypeOK, OneOwner, AtWork, RowsInOrder, RetryClear, [Next]_vars
  PROVE  RetryClear'
<1> SUFFICES ASSUME NEW v \in Workers, NEW c, c = worker'[v].at, att'[c] \in Open, c[1] \notin meddled',
                    worker'[v].pc \in {"added", "cleared"}
             PROVE  /\ worker'[v].pc = "added" => \A b \in Attempts : b[1] = c[1] /\ row'[b] \in InFlight => b \in worker'[v].stale
                    /\ worker'[v].pc = "cleared" => \A b \in Attempts : b[1] = c[1] => row'[b] \notin InFlight
  BY DEF RetryClear, At, Stale, Of, Insertable
<1>0. /\ row \in [Attempts -> WorktreeState] /\ worker \in [Workers -> WorkerState]
      /\ \A w \in Workers : At(w) \in Attempts /\ worker[w].stale \subseteq Attempts
  BY WorkerTyped DEF TypeOK, WorktreesTypeOK
<1>1. ~keeper.boot
  BY Booting DEF AtWork, Busy
<1>2. worker[v].pc # "idle" /\ c = At(v) /\ (worker'[v] = worker[v] \/ WorkerStep(v))
  BY WorkersMove, FreeTyped DEF At
<1>3. att[c] \in Open /\ c[1] \notin meddled /\ c \in Attempts
  BY <1>0, <1>2, AttemptsMove, HistoriesGrow DEF AtWork, Busy
<1>4. \A b \in Attempts : b[1] = c[1] /\ row'[b] \in InFlight => row[b] \in InFlight
  <2> SUFFICES ASSUME NEW b \in Attempts, b[1] = c[1], row'[b] \in InFlight, row[b] \notin InFlight PROVE FALSE
    OBVIOUS
  <2>1. PICK w \in Workers : Inserts(w) /\ At(w) = b
    BY <1>1, NewInFlight
  <2>2. worker'[w].pc = "allocated" /\ worker[w].pc = "cleared"
    BY <1>0, <2>1 DEF Inserts, InsertWorktree, WorkerState
  <2>3. w # v
    BY <2>2
  <2>4. b # c
    BY <1>2, <2>1, <2>2, <2>3 DEF AtWork, Busy
  <2> QED
    BY <1>3, <2>1, <2>4, NoRival DEF Inserts
<1>5. CASE worker'[v] = worker[v]
  BY <1>0, <1>2, <1>3, <1>4, <1>5 DEF RetryClear, Stale, Of, Insertable
<1>6. CASE AddWorktree(v)
  <2>1. PICK found \in BOOLEAN :
          \E first \in SUBSET Bases(At(v), found), s \in SUBSET Stale(At(v)[1]), seen \in WorktreeState :
             Added(v, found, first, s, seen)
    BY <1>6, AddWorktreeFinds
  <2>2. PICK first \in SUBSET Bases(At(v), found), s \in SUBSET Stale(At(v)[1]), seen \in WorktreeState :
             Added(v, found, first, s, seen)
    BY <2>1
  <2> DEFINE mm == UNION {branch[b] : b \in Bases(At(v), found) \ first}
  <2>3. worker' = [worker EXCEPT ![v].pc = "added", ![v].stale = s, ![v].seen = seen, ![v].merge = mm]
    BY <2>2 DEF Added
  <2> HIDE DEF mm
  <2>4. worker'[v].stale = s /\ worker'[v].pc = "added"
    BY <1>0, <2>3 DEF WorkerState
  <2>5. Stale(c[1]) \subseteq s
    <3>1. \A x, y \in Stale(c[1]) : x = y
      BY DEF Stale, Of, RowsInOrder
    <3> QED
      BY <1>2, <2>2, <3>1 DEF Added
  <2> QED
    BY <1>4, <2>4, <2>5 DEF Stale, Of
<1>7. CASE AbandonStale(v)
  <2>1. worker[v].pc = "added" /\ worker'[v].pc = "cleared"
    BY <1>0, <1>7 DEF AbandonStale, WorkerState
  <2>2. Stale(c[1]) \subseteq worker[v].stale
    BY <1>2, <1>3, <2>1 DEF RetryClear
  <2>3. \A b \in Attempts : b[1] = c[1] => row'[b] \notin InFlight
    <3> SUFFICES ASSUME NEW b \in Attempts, b[1] = c[1], row'[b] \in InFlight PROVE FALSE
      OBVIOUS
    <3>1. b \in worker[v].stale
      BY <1>4, <2>2 DEF Stale, Of
    <3>2. Abandon(b, worker[v].seen)
      BY <1>7, <3>1 DEF AbandonStale, RowsInOrder
    <3> QED
      BY <1>0, <3>2 DEF Abandon, InFlight
  <2> QED
    BY <2>1, <2>3
<1> QED
  BY <1>2, <1>5, <1>6, <1>7, PlacesReached

-----------------------------------------------------------------------------
(* What was accepted keeps its worktree.                                   *)

LEMMA WorkerFrame ==
  ASSUME TypeOK, NEW w \in Workers, WorkerStep(w), NEW a \in Attempts
  PROVE  /\ \/ branch'[a] = branch[a]
            \/ a = At(w) /\ (AddWorktree(w) \/ ActivateWorktree(w) \/ CommitWorktree(w))
         /\ \/ row'[a] = row[a] /\ dir'[a] = dir[a]
            \/ a = At(w)
            \/ AbandonStale(w) /\ a \in worker[w].stale
         /\ worker[w].pc = "completing" => UNCHANGED wtVars
<1>0. /\ row \in [Attempts -> WorktreeState] /\ dir \in [Attempts -> {"absent", "clean", "dirty"}]
      /\ branch \in [Attempts -> SUBSET Attempts] /\ At(w) \in Attempts /\ worker[w].stale \subseteq Attempts
  BY WorkerTyped DEF TypeOK, WorktreesTypeOK
<1> USE DEF wtVars
<1>1. CASE AddWorktree(w)
  <2>1. PICK found \in BOOLEAN :
          \E first \in SUBSET Bases(At(w), found), s \in SUBSET Stale(At(w)[1]), seen \in WorktreeState :
             Added(w, found, first, s, seen)
    BY <1>1, AddWorktreeFinds
  <2>2. PICK from : AddDirectory(At(w), from) /\ worker[w].pc = "leased"
    BY <2>1 DEF Added
  <2> QED
    BY <1>0, <1>1, <2>2 DEF AddDirectory
<1>2. CASE AbandonStale(w)
  <2>1. worker[w].pc # "completing" /\ (worker[w].stale = {} => UNCHANGED wtVars)
    BY <1>2 DEF AbandonStale
  <2>2. worker[w].stale # {} => \E b \in worker[w].stale : Abandon(b, worker[w].seen)
    BY <1>2 DEF AbandonStale
  <2>3. ASSUME NEW b \in worker[w].stale, Abandon(b, worker[w].seen)
        PROVE  branch' = branch /\ (a # b => row'[a] = row[a] /\ dir'[a] = dir[a])
    BY <1>0, <2>3 DEF Abandon
  <2> QED
    BY <1>2, <2>1, <2>2, <2>3
<1>3. CASE InsertWorktree(w)
  BY <1>0, <1>3 DEF InsertWorktree, InsertRow, InsertRefused
<1>4. CASE ActivateWorktree(w)
  BY <1>0, <1>4 DEF ActivateWorktree, Activate
<1>5. CASE UseTool(w)
  BY <1>0, <1>5 DEF UseTool, WriteFile, StartCommand
<1>6. CASE LoopEnds(w)
  BY <1>6 DEF LoopEnds, EndCommands
<1>7. CASE CommitWorktree(w)
  BY <1>0, <1>7 DEF CommitWorktree, CommitSucceeded
<1>8. CASE CloseWorktree(w)
  BY <1>0, <1>8 DEF CloseWorktree, SetState
<1>9. CASE \/ LeaseInstance(w) \/ LeaseDenied(w) \/ LeaseRaises(w) \/ SetupFails(w)
           \/ CollectEvidence(w) \/ CompleteTask(w) \/ ReportOutcome(w)
  BY <1>9 DEF LeaseInstance, LeaseDenied, LeaseRaises, SetupFails, CollectEvidence, CompleteTask, ReportOutcome
<1> QED
  BY <1>1, <1>2, <1>3, <1>4, <1>5, <1>6, <1>7, <1>8, <1>9 DEF WorkerStep

Completing(a) == att[a] \in Open /\ \E w \in Workers : worker[w].pc = "completing" /\ At(w) = a

WorkKept ==
  /\ AcceptedKept
  /\ \A a \in Attempts : Completing(a) /\ a[1] \notin meddled =>
       row[a] = "succeeded" /\ (dir[a] # "absent" \/ a \in degraded)
  /\ keeper.boot => \A a \in keeper.list : row[a] = "active"
  /\ keeper.pc # "interrupting" => keeper.list = {}

Closed == {"succeeded", "cleanup_eligible", "removed"}

LEMMA Spared ==
  ASSUME TypeOK, OneOwner, AtWork, RowsInOrder, WorkKept, [Next]_vars,
         NEW a \in Attempts, row[a] \in Closed, a[1] \notin meddled',
         a \in Accepted \/ Completing(a)
  PROVE  \/ row'[a] = row[a] /\ dir'[a] = dir[a]
         \/ CleanUp(a)
<1>0. /\ row \in [Attempts -> WorktreeState] /\ dir \in [Attempts -> {"absent", "clean", "dirty"}]
  BY DEF TypeOK, WorktreesTypeOK
<1> USE DEF wtVars
<1>1. ASSUME NEW w \in Workers, WorkerStep(w) PROVE row'[a] = row[a] /\ dir'[a] = dir[a]
  <2>0. At(w) \in Attempts /\ worker[w].pc # "idle"
    BY <1>1, WorkerTyped, WorkerMoves
  <2>1. CASE a = At(w)
    <3>1. att[a] # "succeeded"
      BY <2>0, <2>1 DEF AtWork, Busy
    <3>2. PICK v \in Workers : worker[v].pc = "completing" /\ At(v) = a
      BY <3>1 DEF Accepted, Completing
    <3>3. v = w
      BY <2>0, <2>1, <3>2 DEF AtWork, Busy
    <3> QED
      BY <1>1, <3>2, <3>3, WorkerFrame
  <2>2. CASE a # At(w) /\ AbandonStale(w) /\ a \in worker[w].stale
    <3>1. a[1] = At(w)[1]
      BY <2>2 DEF RowsInOrder
    <3>2. att[At(w)] \notin Open
      BY <2>0, <2>2, <3>1, NoRival DEF Accepted, Completing
    <3>3. a[1] \in meddled'
      BY <2>2, <3>1, <3>2 DEF AbandonStale, Meddle
    <3> QED
      BY <3>3
  <2> QED
    BY <1>1, <2>1, <2>2, WorkerFrame
<1>2. ASSUME NEW b \in Attempts, InterruptListed(b) PROVE row'[a] = row[a] /\ dir'[a] = dir[a]
  <2>1. b # a
    <3>1. keeper.boot \in BOOLEAN /\ (keeper.boot => row[b] = "active")
      BY <1>2 DEF InterruptListed, WorkKept, TypeOK, KeeperState
    <3>2. ~keeper.boot => b[1] \in meddled'
      BY <1>2 DEF InterruptListed
    <3> QED
      BY <3>1, <3>2 DEF Closed
  <2> QED
    BY <1>0, <1>2, <2>1 DEF InterruptListed, SetState
<1>3. ASSUME NEW b \in Attempts, InterruptOrphan(b) \/ SweepWorktree(b)
      PROVE  row'[a] = row[a] /\ dir'[a] = dir[a]
  BY <1>0, <1>3 DEF InterruptOrphan, SweepWorktree, SetState, Abandon, InFlight, Closed
<1>4. ASSUME NEW b \in Attempts, CleanUp(b), b # a
      PROVE  row'[a] = row[a] /\ dir'[a] = dir[a]
  BY <1>0, <1>4 DEF CleanUp, MarkAndRemove
<1>5. UNCHANGED vars \/ CancelExecution \/ (\E b \in Attempts : LeaseExpires(b))
      \/ ReconcileExpiredLeases \/ Crash \/ Reconcile \/ RecoverExecutions \/ ListActive
      \/ EndCleaning \/ ReleaseStaleInstances \/ EndSweep => UNCHANGED wtVars
  BY DEF vars, CancelExecution, LeaseExpires, ReconcileExpiredLeases, Crash, Reconcile,
     RecoverExecutions, ListActive, EndCleaning, ReleaseStaleInstances, EndSweep
<1>6. \A w \in Workers, b \in Attempts : Claim(w, b) => UNCHANGED wtVars
  BY DEF Claim
<1> QED
  BY <1>1, <1>2, <1>3, <1>4, <1>5, <1>6 DEF Next, KeeperStep

\* An execution that ended has ended for good.
LEMMA EndedStays ==
  ASSUME TypeOK, [Next]_vars, exec # "running"
  PROVE  exec' # "running"
<1>1. \A w \in Workers : \A out, state : Ends(At(w), out, state) => exec' = exec
  BY DEF Ends, SetTasks
<1> QED
  BY <1>1, GraphMoves DEF Graph, Claims, Cancels, Lapses, Reclaims

LEMMA KeeperLists ==
  ASSUME TypeOK, AtWork, RowsInOrder, WorkKept, [Next]_vars
  PROVE  /\ keeper'.boot => \A a \in keeper'.list : row'[a] = "active"
         /\ keeper'.pc # "interrupting" => keeper'.list = {}
<1>0. /\ keeper \in KeeperState /\ row \in [Attempts -> WorktreeState]
  BY DEF TypeOK, WorktreesTypeOK
<1> USE DEF wtVars
<1>1. CASE UNCHANGED keeper /\ UNCHANGED row
  BY <1>1 DEF WorkKept
<1>2. CASE Crash
  BY <1>0, <1>2 DEF Crash, KeeperState
<1>3. CASE Reconcile
  <2>1. keeper.pc = "idle" /\ keeper'.list = keeper.list
    BY <1>0, <1>3 DEF Reconcile, KeeperState
  <2> QED
    BY <2>1 DEF WorkKept
<1>4. CASE RecoverExecutions \/ EndCleaning \/ ReleaseStaleInstances
  BY <1>0, <1>4 DEF RecoverExecutions, EndCleaning, ReleaseStaleInstances, Then, KeeperState
<1>5. CASE ListActive
  <2> DEFINE list == {a \in Attempts : row[a] = "active"}
  <2>1. Interrupting(list) /\ row' = row
    BY <1>5 DEF ListActive
  <2>2. keeper'.list = list /\ (list # {} => keeper'.pc = "interrupting")
    BY <1>0, <2>1 DEF Interrupting, KeeperState
  <2> QED
    BY <2>1, <2>2
<1>6. ASSUME NEW b \in Attempts, InterruptListed(b)
      PROVE  /\ keeper'.boot => \A a \in keeper'.list : row'[a] = "active"
             /\ keeper'.pc # "interrupting" => keeper'.list = {}
  <2> DEFINE list == keeper.list \ {b}
  <2>1. Interrupting(list) /\ list \subseteq Attempts
    BY <1>0, <1>6 DEF InterruptListed, KeeperState
  <2>2. keeper'.list = list /\ keeper'.boot = keeper.boot /\ (list # {} => keeper'.pc = "interrupting")
    BY <1>0, <2>1 DEF Interrupting, KeeperState
  <2>3. \A a \in list : row'[a] = row[a]
    BY <1>0, <1>6, <2>1 DEF InterruptListed, SetState
  <2> QED
    BY <2>2, <2>3 DEF WorkKept
<1>7. CASE EndSweep
  <2>1. keeper.pc = "sweeping" /\ keeper'.list = keeper.list
    BY <1>0, <1>7 DEF EndSweep, KeeperState
  <2> QED
    BY <2>1 DEF WorkKept
<1>8. ASSUME NEW b \in Attempts, InterruptOrphan(b) \/ CleanUp(b) \/ SweepWorktree(b)
      PROVE  keeper' = keeper /\ keeper.list = {}
  BY <1>8 DEF InterruptOrphan, CleanUp, SweepWorktree, WorkKept
<1>9. ASSUME NEW w \in Workers, WorkerStep(w) PROVE keeper' = keeper /\ ~keeper.boot
  BY <1>9, WorkerMoves DEF AtWork, Busy
<1>10. \A w \in Workers, b \in Attempts : Claim(w, b) => UNCHANGED keeper /\ UNCHANGED row
  BY DEF Claim
<1>11. UNCHANGED vars \/ CancelExecution \/ (\E b \in Attempts : LeaseExpires(b)) \/ ReconcileExpiredLeases
       => UNCHANGED keeper /\ UNCHANGED row
  BY DEF vars, CancelExecution, LeaseExpires, ReconcileExpiredLeases
<1>12. CASE keeper' = keeper /\ (keeper.list = {} \/ ~keeper.boot)
  BY <1>12 DEF WorkKept
<1> QED
  BY <1>1, <1>2, <1>3, <1>4, <1>5, <1>6, <1>7, <1>8, <1>9, <1>10, <1>11, <1>12 DEF Next, KeeperStep

\* Whoever has a commit to report made it.
LEMMA Committed ==
  ASSUME TypeOK, OneOwner, AtWork, [Next]_vars, NEW a \in Attempts, Completing(a)'
  PROVE  \/ Completing(a)
         \/ \E w \in Workers : CommitWorktree(w) /\ At(w) = a /\ worker[w].pc = "committing"
<1>1. PICK v \in Workers : worker'[v].pc = "completing" /\ worker'[v].at = a
  BY DEF Completing, At
<1>2. worker[v].pc # "idle" /\ a = At(v) /\ (worker'[v] = worker[v] \/ WorkerStep(v))
  BY <1>1, WorkersMove, FreeTyped DEF At
<1>3. att[a] \in Open
  BY <1>2, AttemptsMove DEF AtWork, Busy, Completing
<1>4. CASE worker'[v] = worker[v]
  BY <1>1, <1>2, <1>3, <1>4 DEF Completing
<1>5. CASE WorkerStep(v)
  BY <1>1, <1>2, <1>5, PlacesReached DEF CommitWorktree
<1> QED
  BY <1>2, <1>4, <1>5

LEMMA WorkKeptOn ==
  ASSUME TypeOK, OneOwner, AtWork, RowsInOrder, WorkKept, [Next]_vars
  PROVE  WorkKept'
<1>0. /\ row \in [Attempts -> WorktreeState] /\ dir \in [Attempts -> {"absent", "clean", "dirty"}]
  BY DEF TypeOK, WorktreesTypeOK
<1>1. ASSUME NEW a \in Attempts, att'[a] = "succeeded", a[1] \notin meddled'
      PROVE  /\ row'[a] \in Closed
             /\ row'[a] = "succeeded" => dir'[a] # "absent" \/ a \in degraded'
             /\ row'[a] # "succeeded" => exec' # "running"
  <2>0. a[1] \notin meddled /\ degraded \subseteq degraded'
    BY <1>1, HistoriesGrow
  <2>1. CASE att[a] = "succeeded"
    <3>1. /\ row[a] \in Closed
          /\ row[a] = "succeeded" => dir[a] # "absent" \/ a \in degraded
          /\ row[a] # "succeeded" => exec # "running"
      BY <2>0, <2>1 DEF WorkKept, AcceptedKept, Accepted, Closed
    <3>2. CASE row'[a] = row[a] /\ dir'[a] = dir[a]
      <4>1. exec # "running" => exec' # "running"
        BY EndedStays
      <4> QED
        BY <2>0, <3>1, <3>2, <4>1
    <3>3. CASE CleanUp(a)
      <4>1. row'[a] \in {"cleanup_eligible", "removed"} /\ exec' # "running"
        BY <1>0, <3>3 DEF CleanUp, MarkAndRemove, runVars
      <4> QED
        BY <4>1 DEF Closed
    <3> QED
      BY <1>1, <2>1, <3>1, <3>2, <3>3, Spared DEF Accepted
  <2>2. CASE att[a] # "succeeded"
    <3>1. PICK w \in Workers : CompleteTask(w) /\ At(w) = a
      BY <1>1, <2>2, AttemptsMove
    <3>2. Completing(a) /\ row' = row /\ dir' = dir
      BY <1>1, <2>2, <3>1, AttemptsMove DEF CompleteTask, Completing, wtVars
    <3> QED
      BY <2>0, <3>2 DEF WorkKept, Closed
  <2> QED
    BY <2>1, <2>2
<1>2. ASSUME NEW a \in Attempts, Completing(a)', a[1] \notin meddled'
      PROVE  row'[a] = "succeeded" /\ (dir'[a] # "absent" \/ a \in degraded')
  <2>0. a[1] \notin meddled /\ degraded \subseteq degraded'
    BY <1>2, HistoriesGrow
  <2>1. CASE Completing(a)
    <3>1. row[a] = "succeeded" /\ (dir[a] # "absent" \/ a \in degraded)
      BY <2>0, <2>1 DEF WorkKept
    <3>2. exec = "running"
      BY <2>1, FreeTyped DEF Completing, OneOwner, Of
    <3>3. row'[a] = row[a] /\ dir'[a] = dir[a]
      BY <1>2, <2>1, <3>1, <3>2, Spared DEF CleanUp, Closed
    <3> QED
      BY <2>0, <3>1, <3>3
  <2>2. ASSUME NEW w \in Workers, CommitWorktree(w), At(w) = a
        PROVE  row'[a] = "succeeded" /\ (dir'[a] # "absent" \/ a \in degraded')
    BY <1>0, <2>2 DEF CommitWorktree, CommitSucceeded
  <2> QED
    BY <1>2, <2>1, <2>2, Committed
<1>3. AcceptedKept'
  BY <1>1 DEF AcceptedKept, Accepted, Closed
<1> QED
  BY <1>2, <1>3, KeeperLists DEF WorkKept

-----------------------------------------------------------------------------
(* What a branch is built on.                                              *)

\* The branches s hold what was accepted of the tasks that a waits for.
HoldsFor(a, s) ==
  a \notin degraded => \A d \in DependsOn[a[1]] \ meddled : \A b \in Accepted :
    b[1] = d /\ b \notin degraded => b \in s

ToMerge == {"added", "cleared", "allocated"}
Merged == {"looping", "answered", "committing", "completing"}

BranchesBuilt ==
  /\ \A a \in Accepted : HoldsFor(a, branch[a])
  /\ \A a \in Accepted \ degraded : a \in branch[a]
  /\ \A a \in Attempts : Completing(a) => a \in branch[a] \cup degraded
  /\ \A w \in Workers : att[At(w)] \in Open =>
       /\ worker[w].pc \in ToMerge => HoldsFor(At(w), branch[At(w)] \cup worker[w].merge)
       /\ worker[w].pc \in Merged => HoldsFor(At(w), branch[At(w)])

LEMMA BranchesStay ==
  ASSUME TypeOK, [Next]_vars, NEW a \in Attempts
  PROVE  \/ branch'[a] = branch[a]
         \/ \E w \in Workers : /\ WorkerStep(w) /\ At(w) = a
                               /\ AddWorktree(w) \/ ActivateWorktree(w) \/ CommitWorktree(w)
<1> USE DEF wtVars
<1>1. ASSUME NEW w \in Workers, WorkerStep(w)
      PROVE  \/ branch'[a] = branch[a]
             \/ At(w) = a /\ (AddWorktree(w) \/ ActivateWorktree(w) \/ CommitWorktree(w))
  BY <1>1, WorkerFrame
<1>2. \A w \in Workers, b \in Attempts : Claim(w, b) => branch' = branch
  BY DEF Claim
<1>3. UNCHANGED vars \/ CancelExecution \/ (\E b \in Attempts : LeaseExpires(b))
      \/ ReconcileExpiredLeases \/ Crash \/ Reconcile => branch' = branch
  BY DEF vars, CancelExecution, LeaseExpires, ReconcileExpiredLeases, Crash, Reconcile
<1>4. KeeperStep => branch' = branch
  <2>1. RecoverExecutions \/ ListActive \/ EndCleaning \/ ReleaseStaleInstances \/ EndSweep => branch' = branch
    BY DEF RecoverExecutions, ListActive, EndCleaning, ReleaseStaleInstances, EndSweep
  <2>2. \A b \in Attempts : InterruptOrphan(b) \/ InterruptListed(b) => branch' = branch
    BY DEF InterruptOrphan, InterruptListed, SetState
  <2>3. \A b \in Attempts : CleanUp(b) \/ SweepWorktree(b) => branch' = branch
    BY DEF CleanUp, SweepWorktree, MarkAndRemove, Abandon
  <2> QED
    BY <2>1, <2>2, <2>3 DEF KeeperStep
<1> QED
  BY <1>1, <1>2, <1>3, <1>4 DEF Next

\* What a branch holds, it goes on holding: no dependency of a task that was
\* claimed is accepted any more.
LEMMA HoldsStays ==
  ASSUME TypeOK, OneOwner, [Next]_vars, NEW a \in Attempts, att[a] \in Open \cup {"succeeded"},
         NEW s, NEW r, HoldsFor(a, s), s \subseteq r,
         a \notin degraded', NEW d \in DependsOn[a[1]], d \notin meddled',
         NEW b \in Attempts, att'[b] = "succeeded", b[1] = d, b \notin degraded'
  PROVE  b \in r
<1>1. a \notin degraded /\ d \notin meddled /\ b \notin degraded
  BY HistoriesGrow
<1>2. a[1] \in Tasks /\ d \in Tasks
  BY FreeTyped, Dependencies
<1>3. task[a[1]] \in {"running", "completed"}
  BY <1>2 DEF OneOwner, Accepted, Of
<1>4. task[d] = "completed"
  BY <1>2, <1>3 DEF OneOwner
<1>5. ASSUME att[b] # "succeeded" PROVE FALSE
  <2>1. att[b] \in Open
    BY <1>5, AttemptsMove
  <2>2. task[d] = "running"
    BY <1>2, <2>1 DEF OneOwner, Of
  <2> QED
    BY <1>4, <2>2
<1> QED
  BY <1>1, <1>5 DEF HoldsFor, Accepted

\* git is given what every dependency had accepted.
LEMMA BasesHold ==
  ASSUME TypeOK, OneOwner, RowsInOrder, Newest, WorkKept, BranchesBuilt, exec = "running",
         NEW a \in Attempts, NEW d \in DependsOn[a[1]], d \notin meddled,
         NEW b \in Attempts, att[b] = "succeeded", b[1] = d, b \notin degraded
  PROVE  b \in Bases(a, TRUE) /\ b \in branch[b]
<1>1. b \in branch[b]
  BY DEF BranchesBuilt, Accepted
<1>2. row[b] = "succeeded"
  BY DEF WorkKept, AcceptedKept, Accepted
<1>3. \A c \in Of(d) : age[c] <= age[b]
  <2>1. \A c \in Of(d) : c # b => age[c] < age[b]
    BY <1>2 DEF Newest
  <2>2. \A c \in Attempts : age[c] \in Nat
    BY DEF TypeOK, WorktreesTypeOK
  <2> QED
    BY <2>1, <2>2 DEF Of
<1>4. b \in LatestSucceeded(d)
  BY <1>2, <1>3 DEF LatestSucceeded, Of
<1> QED
  BY <1>1, <1>4 DEF Bases

LEMMA AddedHolds ==
  ASSUME TypeOK, OneOwner, RowsInOrder, Newest, WorkKept, BranchesBuilt,
         NEW w \in Workers, AddWorktree(w), att[At(w)] \in Open
  PROVE  HoldsFor(worker[w].at, branch[worker[w].at] \cup worker[w].merge)'
<1>0. /\ worker \in [Workers -> WorkerState] /\ branch \in [Attempts -> SUBSET Attempts]
      /\ At(w) \in Attempts /\ At(w)[1] \in Tasks
  BY WorkerTyped DEF TypeOK, WorktreesTypeOK
<1> DEFINE c == At(w)
<1>1. PICK found \in BOOLEAN :
        \E first \in SUBSET Bases(c, found), s \in SUBSET Stale(c[1]), seen \in WorktreeState :
           Added(w, found, first, s, seen)
  BY AddWorktreeFinds
<1>2. PICK first \in SUBSET Bases(c, found), s \in SUBSET Stale(c[1]), seen \in WorktreeState :
        Added(w, found, first, s, seen)
  BY <1>1
<1> DEFINE mm == UNION {branch[b] : b \in Bases(c, found) \ first}
           from == UNION {branch[b] : b \in first}
<1>3. worker' = [worker EXCEPT ![w].pc = "added", ![w].stale = s, ![w].seen = seen, ![w].merge = mm]
  BY <1>2 DEF Added
<1>4. branch' = [branch EXCEPT ![c] = from]
  BY <1>2 DEF Added, AddDirectory
<1>5. degraded' = (IF found THEN degraded ELSE degraded \cup {c}) /\ meddled' = meddled /\ att' = att
  BY <1>2 DEF Added, runVars
<1>6. \A b \in Bases(c, found) : b \in branch[b] => b \in from \cup mm
  OBVIOUS
<1> HIDE DEF mm, from
<1>7. worker'[w].at = c /\ worker'[w].merge = mm
  BY <1>0, <1>3 DEF WorkerState, At
<1>8. branch'[c] = from
  BY <1>0, <1>4
<1>9. ASSUME c \notin degraded', NEW d \in DependsOn[c[1]], d \notin meddled',
             NEW b \in Attempts, att'[b] = "succeeded", b[1] = d, b \notin degraded'
      PROVE  b \in from \cup mm
  <2>1. found = TRUE
    BY <1>5, <1>9
  <2>2. exec = "running"
    BY <1>0 DEF OneOwner, Of
  <2>3. b \in Bases(c, TRUE) /\ b \in branch[b]
    BY <1>0, <1>5, <1>9, <2>1, <2>2, BasesHold
  <2> QED
    BY <1>6, <2>1, <2>3
<1> QED
  BY <1>7, <1>8, <1>9 DEF HoldsFor, Accepted

LEMMA AddReaches ==
  ASSUME TypeOK, NEW w \in Workers, AddWorktree(w)
  PROVE  worker'[w].pc = "added"
<1>1. PICK found \in BOOLEAN :
        \E first \in SUBSET Bases(At(w), found), s \in SUBSET Stale(At(w)[1]), seen \in WorktreeState :
           Added(w, found, first, s, seen)
  BY AddWorktreeFinds
<1>2. worker \in [Workers -> WorkerState]
  BY DEF TypeOK
<1> QED
  BY <1>1, <1>2 DEF Added

LEMMA BranchesKept ==
  ASSUME TypeOK, OneOwner, AtWork, RowsInOrder, Newest, WorkKept, BranchesBuilt, [Next]_vars
  PROVE  BranchesBuilt'
<1>0. /\ worker \in [Workers -> WorkerState] /\ branch \in [Attempts -> SUBSET Attempts]
      /\ \A w \in Workers : At(w) \in Attempts
      /\ degraded \subseteq degraded'
  BY WorkerTyped, HistoriesGrow DEF TypeOK, WorktreesTypeOK
\* Only the worker of an attempt changes its branch, and not once it completes.
<1>1. \A a \in Attempts : a \in Accepted \/ Completing(a) => branch'[a] = branch[a]
  <2> SUFFICES ASSUME NEW a \in Attempts, a \in Accepted \/ Completing(a),
                      NEW w \in Workers, WorkerStep(w), At(w) = a,
                      AddWorktree(w) \/ ActivateWorktree(w) \/ CommitWorktree(w)
               PROVE  FALSE
    BY BranchesStay
  <2>1. worker[w].pc \in {"leased", "allocated", "committing"}
    BY DEF AddWorktree, ActivateWorktree, CommitWorktree
  <2>2. att[a] # "succeeded"
    BY <2>1 DEF AtWork, Busy
  <2>3. PICK v \in Workers : worker[v].pc = "completing" /\ At(v) = a
    BY <2>2 DEF Accepted, Completing
  <2> QED
    BY <2>1, <2>3 DEF AtWork, Busy
<1>2. ASSUME NEW a \in Attempts, att'[a] = "succeeded"
      PROVE  HoldsFor(a, branch[a])' /\ (a \notin degraded' => a \in branch'[a])
  <2>1. CASE att[a] = "succeeded"
    <3>1. HoldsFor(a, branch[a]) /\ (a \notin degraded => a \in branch[a]) /\ branch'[a] = branch[a]
      BY <1>1, <2>1 DEF BranchesBuilt, Accepted
    <3>2. \A d \in DependsOn[a[1]], b \in Attempts :
            a \notin degraded' /\ d \notin meddled' /\ att'[b] = "succeeded" /\ b[1] = d /\ b \notin degraded'
            => b \in branch[a]
      BY <2>1, <3>1, HoldsStays
    <3> QED
      BY <1>0, <3>1, <3>2 DEF HoldsFor, Accepted
  <2>2. CASE att[a] # "succeeded"
    <3>1. PICK w \in Workers : CompleteTask(w) /\ At(w) = a
      BY <1>2, <2>2, AttemptsMove
    <3>2. att[a] \in Open /\ worker[w].pc = "completing"
      BY <1>2, <2>2, <3>1, AttemptsMove DEF CompleteTask
    <3>3. Completing(a) /\ HoldsFor(a, branch[a]) /\ a \in branch[a] \cup degraded
      BY <3>1, <3>2 DEF BranchesBuilt, Completing, Merged
    <3>4. branch'[a] = branch[a]
      BY <1>1, <3>3
    <3>5. \A d \in DependsOn[a[1]], b \in Attempts :
            a \notin degraded' /\ d \notin meddled' /\ att'[b] = "succeeded" /\ b[1] = d /\ b \notin degraded'
            => b \in branch[a]
      BY <3>2, <3>3, HoldsStays
    <3> QED
      BY <1>0, <3>3, <3>4, <3>5 DEF HoldsFor, Accepted
  <2> QED
    BY <2>1, <2>2
<1>3. ASSUME NEW a \in Attempts, Completing(a)' PROVE a \in branch'[a] \cup degraded'
  <2>1. CASE Completing(a)
    BY <1>0, <1>1, <2>1 DEF BranchesBuilt
  <2>2. ASSUME NEW w \in Workers, CommitWorktree(w), At(w) = a PROVE a \in branch'[a] \cup degraded'
    BY <1>0, <2>2 DEF CommitWorktree, CommitSucceeded
  <2> QED
    BY <1>3, <2>1, <2>2, Committed
<1>4. ASSUME NEW v \in Workers, NEW c, c = worker'[v].at, att'[c] \in Open
      PROVE  /\ worker'[v].pc \in ToMerge => HoldsFor(worker[v].at, branch[worker[v].at] \cup worker[v].merge)'
             /\ worker'[v].pc \in Merged => HoldsFor(worker[v].at, branch[worker[v].at])'
  <2> SUFFICES ASSUME worker'[v].pc \in ToMerge \cup Merged
               PROVE  /\ worker'[v].pc \in ToMerge => HoldsFor(worker[v].at, branch[worker[v].at] \cup worker[v].merge)'
                      /\ worker'[v].pc \in Merged => HoldsFor(worker[v].at, branch[worker[v].at])'
    OBVIOUS
  <2>1. worker[v].pc # "idle" /\ c = At(v) /\ (worker'[v] = worker[v] \/ WorkerStep(v))
    <3>1. worker'[v].pc \notin {"idle", "claimed"}
      BY DEF ToMerge, Merged
    <3>2. worker'[v] # Free
      BY <3>1, FreeTyped
    <3> QED
      BY <1>4, <3>1, <3>2, WorkersMove DEF At, ToMerge, Merged
  <2>2. att[c] \in Open /\ c \in Attempts
    BY <1>0, <1>4, <2>1, AttemptsMove DEF AtWork, Busy
  <2>3. ASSUME NEW s, NEW r, HoldsFor(c, s), s \subseteq r
        PROVE  \A d \in DependsOn[c[1]], b \in Attempts :
            c \notin degraded' /\ d \notin meddled' /\ att'[b] = "succeeded" /\ b[1] = d /\ b \notin degraded'
            => b \in r
    BY <2>2, <2>3, HoldsStays
  <2>4. ASSUME NEW s, HoldsFor(c, s), s \subseteq branch'[c] \cup worker'[v].merge
        PROVE  HoldsFor(worker[v].at, branch[worker[v].at] \cup worker[v].merge)'
    BY <1>4, <2>3, <2>4 DEF HoldsFor, Accepted
  <2>5. ASSUME NEW s, HoldsFor(c, s), s \subseteq branch'[c]
        PROVE  HoldsFor(worker[v].at, branch[worker[v].at])'
    BY <1>4, <2>3, <2>5 DEF HoldsFor, Accepted
  <2>6. ToMerge \cap Merged = {}
    BY DEF ToMerge, Merged
  <2>7. CASE ~WorkerStep(v)
    <3>1. worker'[v] = worker[v]
      BY <2>1, <2>7
    <3>2. branch'[c] = branch[c]
      <4> SUFFICES ASSUME NEW w \in Workers, WorkerStep(w), At(w) = c PROVE FALSE
        BY <2>2, BranchesStay
      <4>1. worker[w].pc # "idle"
        BY WorkerMoves
      <4> QED
        BY <2>1, <2>7, <4>1 DEF AtWork, Busy
    <3>3. /\ worker[v].pc \in ToMerge => HoldsFor(c, branch[c] \cup worker[v].merge)
          /\ worker[v].pc \in Merged => HoldsFor(c, branch[c])
      BY <2>1, <2>2 DEF BranchesBuilt
    <3> QED
      BY <2>4, <2>5, <3>1, <3>2, <3>3
  <2>8. CASE WorkerStep(v)
    <3>1. CASE AddWorktree(v)
      <4>1. worker'[v].pc = "added"
        BY <2>8, <3>1, AddReaches
      <4> QED
        BY <2>1, <2>2, <2>6, <3>1, <4>1, AddedHolds DEF ToMerge
    <3>2. ASSUME AbandonStale(v) \/ (InsertWorktree(v) /\ worker'[v].pc \in ToMerge)
          PROVE  worker'[v].pc \in ToMerge /\ HoldsFor(worker[v].at, branch[worker[v].at] \cup worker[v].merge)'
      <4>1. worker[v].pc \in {"added", "cleared"}
        BY <3>2 DEF AbandonStale, InsertWorktree
      <4>2. worker'[v].pc \in ToMerge
        BY <1>0, <3>2 DEF AbandonStale, ToMerge, WorkerState
      <4>3. branch'[c] = branch[c]
        BY <2>2, <2>8, <4>1, WorkerFrame DEF AddWorktree, ActivateWorktree, CommitWorktree
      <4>4. worker'[v].merge = worker[v].merge
        BY <2>8, <4>1, <4>2, NotesKept, FreeTyped DEF AddWorktree, ActivateWorktree, ToMerge
      <4>5. HoldsFor(c, branch[c] \cup worker[v].merge)
        BY <2>1, <2>2, <4>1 DEF BranchesBuilt, ToMerge
      <4> QED
        BY <2>4, <4>2, <4>3, <4>4, <4>5
    <3>3. ASSUME ActivateWorktree(v)
          PROVE  worker'[v].pc \in Merged /\ HoldsFor(worker[v].at, branch[worker[v].at])'
      <4>1. worker[v].pc = "allocated" /\ worker'[v].pc \in Merged
        BY <1>0, <3>3 DEF ActivateWorktree, Merged, WorkerState
      <4>2. branch'[c] = branch[c] \cup worker[v].merge
        BY <1>0, <2>1, <2>2, <3>3 DEF ActivateWorktree, Activate
      <4>3. HoldsFor(c, branch[c] \cup worker[v].merge)
        BY <2>1, <2>2, <4>1 DEF BranchesBuilt, ToMerge
      <4> QED
        BY <2>5, <4>1, <4>2, <4>3
    <3>4. ASSUME \/ UseTool(v) \/ LoopEnds(v) \/ CollectEvidence(v) \/ CommitWorktree(v),
                 worker'[v].pc \in Merged
          PROVE  HoldsFor(worker[v].at, branch[worker[v].at])'
      <4>1. worker[v].pc \in Merged /\ worker[v].pc \notin {"leased", "allocated"}
        BY <3>4 DEF UseTool, LoopEnds, CollectEvidence, CommitWorktree, Merged
      <4>2. branch[c] \subseteq branch'[c]
        <5>1. CASE branch'[c] = branch[c]
          BY <5>1
        <5>2. CASE CommitWorktree(v)
          BY <1>0, <2>1, <2>2, <5>2 DEF CommitWorktree, CommitSucceeded
        <5> QED
          BY <2>2, <2>8, <4>1, <5>1, <5>2, WorkerFrame DEF AddWorktree, ActivateWorktree
      <4>3. HoldsFor(c, branch[c])
        BY <2>1, <2>2, <4>1 DEF BranchesBuilt
      <4> QED
        BY <2>5, <4>2, <4>3
    <3> QED
      BY <2>6, <2>8, <3>1, <3>2, <3>3, <3>4, PlacesReached DEF ToMerge, Merged
  <2> QED
    BY <2>7, <2>8
<1> QED
  BY <1>2, <1>3, <1>4 DEF BranchesBuilt, Accepted, At

-----------------------------------------------------------------------------
(* The invariant of a run, and what follows from it.                       *)

RunInv ==
  /\ TypeOK /\ OneOwner /\ AtWork
  /\ RowsInOrder /\ Newest
  /\ SlotsHeld /\ RetryClear
  /\ WorkKept /\ BranchesBuilt

LEMMA RunStarts == Init => RunInv
<1> SUFFICES ASSUME Init PROVE RunInv
  OBVIOUS
<1>0. /\ \A a \in Attempts : att[a] = "none" /\ row[a] = "none" /\ age[a] = 0 /\ instance[a] = "none"
      /\ \A w \in Workers : worker[w] = Free
      /\ \A t \in Tasks : task[t] = IF DependsOn[t] = {} THEN "ready" ELSE "pending"
      /\ exec = "running" /\ keeper.pc = "idle" /\ ~keeper.boot /\ keeper.list = {}
  BY DEF Init, WorktreesInit, Serving
<1>1. OneOwner
  BY <1>0 DEF OneOwner, Accepted, Of, Open
<1>2. AtWork
  BY <1>0, FreeTyped DEF AtWork, Busy
<1>3. RowsInOrder
  <2>1. \A w \in Workers : worker[w].stale = {}
    <3>1. Free.stale = {}
      BY DEF Free
    <3> QED
      BY <1>0, <3>1
  <2>2. \A a \in Attempts : age[a] <= Cardinality({b \in Of(a[1]) : age[b] > 0})
    BY <1>0, Counted
  <2>3. \A w \in Workers : worker[w].pc \notin Inserted /\ worker[w].pc \notin Before
    BY <1>0, FreeTyped DEF Inserted, Before
  <2> QED
    BY <1>0, <2>1, <2>2, <2>3 DEF RowsInOrder, InFlight
<1>4. Newest
  BY <1>0 DEF Newest
<1>5. SlotsHeld
  BY <1>0, FreeTyped DEF SlotsHeld, Orphaned
<1>6. RetryClear
  BY <1>0, FreeTyped DEF RetryClear
<1>7. WorkKept
  BY <1>0, FreeTyped DEF WorkKept, AcceptedKept, Accepted, Completing
<1>8. BranchesBuilt
  BY <1>0, FreeTyped DEF BranchesBuilt, Accepted, Completing, ToMerge, Merged
<1> QED
  BY <1>1, <1>2, <1>3, <1>4, <1>5, <1>6, <1>7, <1>8, TypeStarts DEF RunInv

LEMMA RunStays == RunInv /\ [Next]_vars => RunInv'
BY TypeKept, OwnerKept, AtWorkKept, RowsKept, NewestKept, SlotsKept, RetryKept, WorkKeptOn, BranchesKept DEF RunInv

\* The variables of a run hold what the code's tables, rows and locals can hold.
THEOREM RunTypeCorrect == Spec => []TypeOK
<1>1. RunInv => TypeOK
  BY DEF RunInv
<1> QED
  BY <1>1, RunStarts, RunStays, PTL DEF Spec

\* However runs, rival runs, crashes and recoveries interleave, for any graph of
\* tasks, an accepted attempt keeps its worktree until its execution ended, and
\* the branch of every accepted attempt holds the accepted work of the tasks it
\* waited for (_dependency_worktree_bases, complete_worktree, _abandon_worktree
\* and run_all_recovery), but for what git, the database or a meddler denied.
THEOREM AcceptedWorkIsKept == Spec => []AcceptedWorkStands
<1>1. RunInv => AcceptedWorkStands
  BY DEF RunInv, WorkKept, BranchesBuilt, HoldsFor, AcceptedWorkStands, BuildsOnDependencies
<1> QED
  BY <1>1, RunStarts, RunStays, PTL DEF Spec

\* Every running agent instance has a run that finishes it or a recovery that
\* releases it (lease_instance, finish_instance, recover_after_restart and
\* release_stale_running_instances), unless its execution was cancelled.
THEOREM SlotsAreAccounted == Spec => []InstancesAccounted
<1>1. RunInv => InstancesAccounted
  BY DEF RunInv, SlotsHeld, Orphaned, Awaited, InstancesAccounted
<1> QED
  BY <1>1, RunStarts, RunStays, PTL DEF Spec

\* The unique index on the worktrees in flight refuses no attempt that holds
\* its task because of an earlier attempt (create_worktree), unless somebody
\* who had lost the task changed its worktrees.
THEOREM RetriesAreClear == Spec => []NoPoisonedRetry
<1>1. RunInv => NoPoisonedRetry
  BY DEF RunInv, RetryClear, NoPoisonedRetry
<1> QED
  BY <1>1, RunStarts, RunStays, PTL DEF Spec

-----------------------------------------------------------------------------
(***************************************************************************)
(* AgentTypes: what every migration, rollback and start of an instance     *)
(* does to the invariant, and then the three action properties.            *)
(***************************************************************************)

LEMMA PlacesCounted ==
  ASSUME NEW S, S \subseteq Instances
  PROVE  IsFiniteSet(S) /\ Cardinality(S) \in Nat
BY FiniteInstances, FS_Subset, FS_CardinalityType

LEMMA IdleTyped == Idle \in Request
BY LimitPositive DEF Idle, Request

\* An instance that ends or waits takes no place.
LEMMA NoPlaceTaken ==
  ASSUME NEW S, S \subseteq Instances, NEW R, R \subseteq S
  PROVE  ~(Cardinality(R) > Cardinality(S))
<1>1. IsFiniteSet(S) /\ Cardinality(S) \in Nat /\ Cardinality(R) \in Nat
  BY PlacesCounted
<1>2. Cardinality(R) <= Cardinality(S)
  BY <1>1, FS_Subset
<1> QED
  BY <1>1, <1>2

\* One that starts takes one.
LEMMA PlaceTaken ==
  ASSUME NEW S, S \subseteq Instances, NEW i \in Instances, NEW R, R \subseteq S \cup {i},
         NEW n \in Nat, Cardinality(S) < n
  PROVE  Cardinality(R) <= n
<1>1. IsFiniteSet(S) /\ Cardinality(S) \in Nat
  BY PlacesCounted
<1>2. IsFiniteSet(S \cup {i}) /\ Cardinality(S \cup {i}) <= Cardinality(S) + 1
  BY <1>1, FS_AddElement
<1>3. Cardinality(R) <= Cardinality(S \cup {i}) /\ Cardinality(R) \in Nat /\ Cardinality(S \cup {i}) \in Nat
  BY <1>2, FS_Subset, FS_CardinalityType
<1> QED
  BY <1>1, <1>2, <1>3

\* A new instance or one that changes its state is with a type or with none.
LEMMA InstanceMoves ==
  ASSUME TopologyTypeOK, NEW i \in Instances, NEW u \in Types \cup {None}, NEW state \in AgentState,
         SetInstance(i, u, state)
  PROVE  /\ agent' \in [Instances -> [of : Types \cup {None}, state : AgentState]]
         /\ \A t \in Types : /\ RunningOf(t)' \subseteq RunningOf(t) \cup {i}
                             /\ state # "running" \/ t # u => RunningOf(t)' \subseteq RunningOf(t)
<1> DEFINE r == [of |-> u, state |-> state]
<1>1. r \in [of : Types \cup {None}, state : AgentState] /\ r.of = u /\ r.state = state
  OBVIOUS
<1>2. agent' = [agent EXCEPT ![i] = r] /\ agent \in [Instances -> [of : Types \cup {None}, state : AgentState]]
  BY DEF SetInstance, TopologyTypeOK
<1> HIDE DEF r
<1>3. agent' \in [Instances -> [of : Types \cup {None}, state : AgentState]]
  BY <1>1, <1>2
<1>4. \A j \in Instances : agent'[j] = IF j = i THEN r ELSE agent[j]
  BY <1>2
<1> QED
  BY <1>1, <1>3, <1>4 DEF RunningOf

-----------------------------------------------------------------------------
(* The invariant.  What a rollback restores was there, and stays there.    *)

TopologyInv ==
  /\ TopologyTypeOK
  /\ \A q \in Requests : request[q].kind # "none" => request[q].limit \in 1..MaxLimit
  /\ \A k \in DOMAIN snapshots, t \in Types : snapshots[k].type[t] # "none" => type[t] # "none"
  /\ \A k \in DOMAIN snapshots, r \in Records : snapshots[k].owner[r] # None => owner[r] # None
  /\ \A r \in Records : owner[r] # None => knowledge[r] # "none"

\* merge_types finds a largest limit.
LEMMA WidestFound ==
  ASSUME limit \in [Types -> 1..MaxLimit], NEW S \in SUBSET Types, S # {}
  PROVE  Widest(S) \in 1..MaxLimit
<1> DEFINE R == {ss \in Nat \X Nat : ss[1] < ss[2]}
           T == {MaxLimit - limit[t] : t \in S}
<1>0. /\ MaxLimit \in Nat
      /\ \A t \in S : limit[t] \in 1..MaxLimit
  BY LimitPositive
<1>1. T \subseteq Nat /\ T # {}
  BY <1>0
<1>2. IsWellFoundedOn(R, Nat)
  BY NatLessThanWellFounded DEF OpToRel
<1>3. PICK x \in T : \A y \in T : ~ (<<y, x>> \in R)
  <2> HIDE DEF R, T
  <2> QED
    BY <1>1, <1>2, WFMin
<1>4. \A y \in T : x <= y
  <2> SUFFICES ASSUME NEW y \in T PROVE x <= y
    OBVIOUS
  <2>1. x \in Nat /\ y \in Nat
    BY <1>1
  <2>2. <<y, x>> \in Nat \X Nat
    BY <2>1
  <2>3. ~ (<<y, x>>[1] < <<y, x>>[2])
    BY <1>3, <2>2
  <2> QED
    BY <2>1, <2>3
<1>5. PICK m \in S : x = MaxLimit - limit[m]
  OBVIOUS
<1>6. \A t \in S : limit[t] <= limit[m]
  <2> SUFFICES ASSUME NEW t \in S PROVE limit[t] <= limit[m]
    OBVIOUS
  <2>1. x <= MaxLimit - limit[t]
    BY <1>4
  <2>2. limit[t] \in 1..MaxLimit /\ limit[m] \in 1..MaxLimit
    BY <1>0
  <2> HIDE DEF T
  <2> QED
    BY <1>0, <1>5, <2>1, <2>2
<1>7. \E n \in 1..MaxLimit : (\E t \in S : limit[t] = n) /\ \A t \in S : limit[t] <= n
  BY <1>0, <1>6
<1> QED
  BY <1>7 DEF Widest

LEMMA Checked ==
  ASSUME TopologyInv, NEW q \in Requests, NEW kind \in {"split", "merge", "retire"},
         NEW S \in SUBSET Types, S # {}, Check(q, kind, S)
  PROVE  TopologyInv'
<1> DEFINE r == [kind |-> kind, sources |-> S, limit |-> Widest(S)]
<1>1. Widest(S) \in 1..MaxLimit
  BY WidestFound DEF TopologyInv, TopologyTypeOK
<1>2. r \in Request /\ r.limit \in 1..MaxLimit
  BY <1>1, LimitPositive DEF Request
<1>3. request' = [request EXCEPT ![q] = r] /\ request \in [Requests -> Request]
  BY DEF Check, TopologyInv, TopologyTypeOK
<1> HIDE DEF r
<1>4. request' \in [Requests -> Request] /\ \A p \in Requests : request'[p] = IF p = q THEN r ELSE request[p]
  BY <1>2, <1>3
<1>5. UNCHANGED <<type, limit, agent, owner, knowledge, snapshots>>
  BY DEF Check
<1> QED
  BY <1>2, <1>4, <1>5 DEF TopologyInv, TopologyTypeOK

LEMMA SnapshotTaken ==
  ASSUME TopologyInv, TakeSnapshot
  PROVE  /\ snapshots' \in Seq(Snapshot)
         /\ \A k \in DOMAIN snapshots' : \/ k \in DOMAIN snapshots /\ snapshots'[k] = snapshots[k]
                                         \/ snapshots'[k].type = type /\ snapshots'[k].owner = owner
<1> DEFINE s == [type |-> type, owner |-> owner]
<1>1. s \in Snapshot /\ s.type = type /\ s.owner = owner
  BY DEF TopologyInv, TopologyTypeOK, Snapshot
<1>2. snapshots' = Append(snapshots, s) /\ snapshots \in Seq(Snapshot)
  BY DEF TakeSnapshot, TopologyInv, TopologyTypeOK
<1> HIDE DEF s
<1>3. snapshots' \in Seq(Snapshot)
  BY <1>1, <1>2
<1>4. \A k \in 1..Len(snapshots) + 1 : snapshots'[k] = IF k = Len(snapshots) + 1 THEN s ELSE snapshots[k]
  BY <1>2
<1>5. DOMAIN snapshots' = 1..Len(snapshots) + 1 /\ DOMAIN snapshots = 1..Len(snapshots) /\ Len(snapshots) \in Nat
  BY <1>2
<1> QED
  BY <1>1, <1>3, <1>4, <1>5

LEMMA RequestDone ==
  ASSUME TopologyInv, NEW q \in Requests, Done(q)
  PROVE  /\ request' \in [Requests -> Request] /\ agent' = agent
         /\ \A p \in Requests : request'[p].kind # "none" => request'[p].limit \in 1..MaxLimit
         /\ \A p \in Requests \ {q} : request'[p] = request[p]
<1>1. request' = [request EXCEPT ![q] = Idle] /\ request \in [Requests -> Request] /\ agent' = agent
  BY DEF Done, TopologyInv, TopologyTypeOK
<1>2. Idle.kind = "none"
  BY DEF Idle
<1>3. \A p \in Requests : request'[p] = IF p = q THEN Idle ELSE request[p]
  BY <1>1
<1>4. request' \in [Requests -> Request]
  BY <1>1, IdleTyped
<1> QED
  BY <1>1, <1>2, <1>3, <1>4 DEF TopologyInv

\* What a replacement leaves of the types.
LEMMA Replaced ==
  ASSUME TopologyInv, NEW S, NEW D \in SUBSET Types, NEW state \in {"archived", "retired"},
         NEW n \in 1..MaxLimit, Replace(S, state, D, n)
  PROVE  /\ type' \in [Types -> TypeState] /\ limit' \in [Types -> 1..MaxLimit]
         /\ \A t \in Types : type[t] # "none" => type'[t] # "none"
         /\ \A t \in Types : t \in D => type[t] = "none"
         /\ \A t \in Types : type[t] = "active" /\ type'[t] # "active" => t \in S
<1>1. type \in [Types -> TypeState] /\ limit \in [Types -> 1..MaxLimit]
  BY DEF TopologyInv, TopologyTypeOK
<1>2. \A t \in D : type[t] = "none"
  BY DEF Replace
<1>3. /\ type' = [t \in Types |-> IF t \in S THEN state ELSE IF t \in D THEN "active" ELSE type[t]]
      /\ limit' = [t \in Types |-> IF t \in D THEN n ELSE limit[t]]
  BY DEF Replace
<1> QED
  BY <1>1, <1>2, <1>3 DEF TypeState

\* The invariant after a migration or a rollback, part by part.
LEMMA Migrated ==
  ASSUME TopologyInv, TakeSnapshot,
         type' \in [Types -> TypeState], limit' \in [Types -> 1..MaxLimit],
         owner' \in [Records -> Types \cup {None}], knowledge' \in [Records -> KnowledgeState],
         request' \in [Requests -> Request], agent' = agent,
         \A q \in Requests : request'[q].kind # "none" => request'[q].limit \in 1..MaxLimit,
         \A t \in Types : type[t] # "none" => type'[t] # "none",
         \A r \in Records : owner[r] # None => owner'[r] # None,
         \A r \in Records : owner'[r] # None => knowledge'[r] # "none"
  PROVE  TopologyInv'
<1>1. TopologyTypeOK'
  BY SnapshotTaken DEF TopologyInv, TopologyTypeOK
<1>2. \A k \in DOMAIN snapshots', t \in Types : snapshots'[k].type[t] # "none" => type'[t] # "none"
  BY SnapshotTaken DEF TopologyInv
<1>3. \A k \in DOMAIN snapshots', r \in Records : snapshots'[k].owner[r] # None => owner'[r] # None
  BY SnapshotTaken DEF TopologyInv
<1> QED
  BY <1>1, <1>2, <1>3 DEF TopologyInv

LEMMA SplitMigrates ==
  ASSUME TopologyInv, NEW q \in Requests, Split(q)
  PROVE  /\ TopologyInv'
         /\ \A r \in Records : owner'[r] \in Types /\ type[owner'[r]] = "active" /\ type'[owner'[r]] # "active" => knowledge'[r] = "archived"
<1> DEFINE S == request[q].sources
<1>1. PICK D \in SUBSET Types, routed \in SUBSET {x \in Records : owner[x] \in S} :
        /\ Replace(S, "archived", D, request[q].limit)
        /\ \E route \in [routed -> D] :
              owner' = [x \in Records |-> IF x \in routed THEN route[x] ELSE owner[x]]
        /\ knowledge' = [x \in Records |-> IF x \in Live(S) \ routed THEN "archived" ELSE knowledge[x]]
  BY DEF Split
<1>2. PICK route \in [routed -> D] :
              owner' = [x \in Records |-> IF x \in routed THEN route[x] ELSE owner[x]]
  BY <1>1
<1>3. TakeSnapshot /\ Done(q) /\ request[q].kind = "split"
  BY DEF Split
<1>4. /\ owner \in [Records -> Types \cup {None}] /\ knowledge \in [Records -> KnowledgeState]
      /\ agent \in [Instances -> [of : Types \cup {None}, state : AgentState]]
      /\ request[q].limit \in 1..MaxLimit /\ request[q].sources \subseteq Types
  BY <1>3 DEF TopologyInv, TopologyTypeOK, Request
<1>4a. S \subseteq Types
  BY <1>4
<1> HIDE DEF S
<1>5. /\ type' \in [Types -> TypeState] /\ limit' \in [Types -> 1..MaxLimit]
      /\ \A t \in Types : type[t] # "none" => type'[t] # "none"
      /\ \A t \in Types : t \in D => type[t] = "none"
      /\ \A t \in Types : type[t] = "active" /\ type'[t] # "active" => t \in S
  BY <1>1, <1>4, Replaced
<1>6. /\ owner' \in [Records -> Types \cup {None}] /\ knowledge' \in [Records -> KnowledgeState]
      /\ \A x \in Records : owner'[x] # None => knowledge'[x] # "none"
      /\ \A x \in Records : owner[x] # None => owner'[x] # None
  <2>1. \A x \in routed : x \in Records /\ owner[x] # None
    BY <1>4a, NoneIsNothing
  <2>2. \A x \in routed : route[x] \in Types
    OBVIOUS
  <2>3. \A x \in Records : owner'[x] = IF x \in routed THEN route[x] ELSE owner[x]
    BY <1>2
  <2>4. \A x \in Records : knowledge'[x] = IF x \in Live(S) \ routed THEN "archived" ELSE knowledge[x]
    BY <1>1
  <2>5. \A x \in Records : owner[x] # None => knowledge[x] # "none"
    BY DEF TopologyInv
  <2>6. owner' \in [Records -> Types \cup {None}]
    BY <1>2, <1>4, <2>2
  <2>7. knowledge' \in [Records -> KnowledgeState]
    BY <1>1, <1>4 DEF KnowledgeState
  <2>8. \A x \in Records : owner[x] # None => owner'[x] # None
    BY <2>2, <2>3, NoneIsNothing
  <2>9. \A x \in Records : owner'[x] # None => knowledge'[x] # "none"
    BY <2>1, <2>3, <2>4, <2>5
  <2> QED
    BY <2>6, <2>7, <2>8, <2>9
<1>7. TopologyInv'
  BY <1>3, <1>4, <1>5, <1>6, RequestDone, Migrated
<1>8. ASSUME NEW r \in Records, owner'[r] \in Types, type[owner'[r]] = "active", type'[owner'[r]] # "active"
      PROVE  knowledge'[r] = "archived"
  <2>1. owner'[r] \in S /\ owner'[r] \notin D
    BY <1>5, <1>8
  <2>2. r \notin routed /\ owner[r] = owner'[r]
    BY <1>2, <2>1
  <2>3. knowledge[r] \in {"candidate", "approved", "archived"}
    BY <1>4, <1>8, <2>2, NoneIsNothing DEF TopologyInv, KnowledgeState
  <2> QED
    BY <1>1, <2>1, <2>2, <2>3 DEF Live
<1> QED
  BY <1>7, <1>8

LEMMA MergeMigrates ==
  ASSUME TopologyInv, NEW q \in Requests, Merge(q)
  PROVE  /\ TopologyInv'
         /\ \A r \in Records : owner'[r] \in Types /\ type[owner'[r]] = "active" /\ type'[owner'[r]] # "active" => knowledge'[r] = "archived"
<1> DEFINE S == request[q].sources
<1>1. PICK d \in Types :
        /\ Replace(S, "archived", {d}, request[q].limit)
        /\ owner' = [x \in Records |-> IF x \in Live(S) THEN d ELSE owner[x]]
  BY DEF Merge
<1>3. TakeSnapshot /\ Done(q) /\ request[q].kind = "merge" /\ knowledge' = knowledge
  BY DEF Merge
<1>4. /\ owner \in [Records -> Types \cup {None}] /\ knowledge \in [Records -> KnowledgeState]
      /\ agent \in [Instances -> [of : Types \cup {None}, state : AgentState]]
      /\ request[q].limit \in 1..MaxLimit /\ request[q].sources \subseteq Types
  BY <1>3 DEF TopologyInv, TopologyTypeOK, Request
<1> HIDE DEF S
<1>5. /\ type' \in [Types -> TypeState] /\ limit' \in [Types -> 1..MaxLimit]
      /\ \A t \in Types : type[t] # "none" => type'[t] # "none"
      /\ \A t \in Types : t = d => type[t] = "none"
      /\ \A t \in Types : type[t] = "active" /\ type'[t] # "active" => t \in S
  <2>0. PICK D \in SUBSET Types : D = {d}
    OBVIOUS
  <2>1. Replace(S, "archived", D, request[q].limit) /\ d \in D
    BY <1>1, <2>0
  <2>2. type[d] = "none"
    BY <1>1 DEF Replace
  <2> QED
    BY <1>4, <2>1, <2>2, Replaced
<1>6. /\ owner' \in [Records -> Types \cup {None}]
      /\ \A x \in Records : owner'[x] # None => knowledge'[x] # "none"
      /\ \A x \in Records : owner[x] # None => owner'[x] # None
  BY <1>1, <1>3, <1>4, NoneIsNothing DEF TopologyInv, Live
<1>7. TopologyInv'
  BY <1>3, <1>4, <1>5, <1>6, RequestDone, Migrated DEF TopologyInv, TopologyTypeOK
<1>8. ASSUME NEW r \in Records, owner'[r] \in Types, type[owner'[r]] = "active", type'[owner'[r]] # "active"
      PROVE  knowledge'[r] = "archived"
  <2>1. owner'[r] \in S /\ owner'[r] # d
    BY <1>5, <1>8
  <2>2. r \notin Live(S) /\ owner[r] = owner'[r]
    BY <1>1, <2>1
  <2>3. knowledge[r] \in {"candidate", "approved", "archived"}
    BY <1>4, <1>8, <2>2, NoneIsNothing DEF TopologyInv, KnowledgeState
  <2> QED
    BY <1>3, <2>1, <2>2, <2>3 DEF Live
<1> QED
  BY <1>7, <1>8

LEMMA RetireMigrates ==
  ASSUME TopologyInv, NEW q \in Requests, Retire(q)
  PROVE  /\ TopologyInv'
         /\ \A r \in Records : owner'[r] \in Types /\ type[owner'[r]] = "active" /\ type'[owner'[r]] # "active" => knowledge'[r] = "archived"
<1> DEFINE S == request[q].sources
<1>1. /\ Replace(S, "retired", {}, 1)
      /\ knowledge' = [x \in Records |-> IF x \in Live(S) THEN "archived" ELSE knowledge[x]]
      /\ TakeSnapshot /\ Done(q) /\ owner' = owner
  BY DEF Retire
<1>4. /\ owner \in [Records -> Types \cup {None}] /\ knowledge \in [Records -> KnowledgeState]
      /\ agent \in [Instances -> [of : Types \cup {None}, state : AgentState]]
      /\ 1 \in 1..MaxLimit
  BY LimitPositive DEF TopologyInv, TopologyTypeOK
<1> HIDE DEF S
<1>5. /\ type' \in [Types -> TypeState] /\ limit' \in [Types -> 1..MaxLimit]
      /\ \A t \in Types : type[t] # "none" => type'[t] # "none"
      /\ \A t \in Types : type[t] = "active" /\ type'[t] # "active" => t \in S
  BY <1>1, <1>4, Replaced
<1>6. /\ knowledge' \in [Records -> KnowledgeState] /\ owner' = owner
      /\ \A x \in Records : owner'[x] # None => knowledge'[x] # "none"
  BY <1>1, <1>4 DEF TopologyInv, KnowledgeState
<1>7. TopologyInv'
  BY <1>1, <1>4, <1>5, <1>6, RequestDone, Migrated DEF TopologyInv, TopologyTypeOK
<1>8. ASSUME NEW r \in Records, owner'[r] \in Types, type[owner'[r]] = "active", type'[owner'[r]] # "active"
      PROVE  knowledge'[r] = "archived"
  <2>1. owner[r] \in S
    BY <1>1, <1>5, <1>8
  <2>2. knowledge[r] \in {"candidate", "approved", "archived"}
    BY <1>1, <1>4, <1>8, NoneIsNothing DEF TopologyInv, KnowledgeState
  <2> QED
    BY <1>1, <2>1, <2>2 DEF Live
<1> QED
  BY <1>7, <1>8

LEMMA RolledBack ==
  ASSUME TopologyInv, NEW k \in DOMAIN snapshots, RollBack(k)
  PROVE  /\ TopologyInv'
         /\ \A t \in Types : snapshots[k].type[t] = "active" => type'[t] = "active"
         /\ \A r \in Records : snapshots[k].owner[r] # None => owner'[r] = snapshots[k].owner[r]
<1> DEFINE s == snapshots[k]
<1>1. s \in Snapshot
  BY DEF TopologyInv, TopologyTypeOK
<1>2. /\ \A t \in Types : s.type[t] # "none" => type[t] # "none"
      /\ \A r \in Records : s.owner[r] # None => owner[r] # None
  BY DEF TopologyInv
<1>3. /\ type' = [t \in Types |->
                IF s.type[t] = "none" /\ type[t] = "active" THEN "archived"
                ELSE IF Revived(t, s.type[t]) THEN "active" ELSE type[t]]
      /\ owner' = [r \in Records |-> IF s.owner[r] # None THEN s.owner[r] ELSE owner[r]]
      /\ TakeSnapshot
      /\ UNCHANGED <<limit, agent, knowledge, request>>
  BY DEF RollBack
<1> HIDE DEF s
<1>4. type \in [Types -> TypeState] /\ owner \in [Records -> Types \cup {None}]
  BY DEF TopologyInv, TopologyTypeOK
<1>5. s.type \in [Types -> TypeState] /\ s.owner \in [Records -> Types \cup {None}]
  BY <1>1 DEF Snapshot
<1>6. /\ type' \in [Types -> TypeState]
      /\ \A t \in Types : type[t] # "none" => type'[t] # "none"
      /\ \A t \in Types : s.type[t] = "active" => type'[t] = "active"
  BY <1>2, <1>3, <1>4, <1>5 DEF Revived, TypeState
<1>7. /\ owner' \in [Records -> Types \cup {None}]
      /\ \A r \in Records : s.owner[r] # None => owner'[r] = s.owner[r]
      /\ \A r \in Records : owner[r] # None <=> owner'[r] # None
  BY <1>2, <1>3, <1>4, <1>5
<1>8. TopologyInv'
  BY <1>3, <1>6, <1>7, Migrated DEF TopologyInv, TopologyTypeOK
<1> QED
  BY <1>6, <1>7, <1>8 DEF s

\* A step is one of the migrations, changes the instances, or neither.
LEMMA OtherSteps ==
  ASSUME TopologyInv, [TopologyNext]_topologyVars
  PROVE  \/ \E q \in Requests : Split(q) \/ Merge(q) \/ Retire(q)
         \/ \E k \in DOMAIN snapshots : RollBack(k)
         \/ \E i \in Instances, u \in Types \cup {None} : \E state \in AgentState :
              /\ SetInstance(i, u, state)
              /\ state = "running" /\ u \in Types => HasRoom(u)
         \/ /\ TopologyInv' /\ agent' = agent
            /\ \A t \in Types : type[t] # "none" => type'[t] = type[t]
<1> SUFFICES ASSUME ~\E q \in Requests : Split(q) \/ Merge(q) \/ Retire(q),
                    ~\E k \in DOMAIN snapshots : RollBack(k)
             PROVE  \/ \E i \in Instances, u \in Types \cup {None} : \E state \in AgentState :
                         /\ SetInstance(i, u, state)
                         /\ state = "running" /\ u \in Types => HasRoom(u)
                    \/ /\ TopologyInv' /\ agent' = agent
                       /\ \A t \in Types : type[t] # "none" => type'[t] = type[t]
  OBVIOUS
<1>0. /\ type \in [Types -> TypeState] /\ limit \in [Types -> 1..MaxLimit]
      /\ agent \in [Instances -> [of : Types \cup {None}, state : AgentState]]
      /\ owner \in [Records -> Types \cup {None}] /\ knowledge \in [Records -> KnowledgeState]
  BY DEF TopologyInv, TopologyTypeOK
<1> USE DEF AgentState
<1>1. CASE UNCHANGED topologyVars
  BY <1>1 DEF topologyVars, TopologyInv, TopologyTypeOK
<1>2. ASSUME NEW t \in Types, CreateType(t) \/ UpdateType(t)
      PROVE  /\ TopologyInv' /\ agent' = agent
             /\ \A u \in Types : type[u] # "none" => type'[u] = type[u]
  <2>1. CASE CreateType(t)
    <3>1. /\ type' \in [Types -> TypeState] /\ \A u \in Types : type[u] # "none" => type'[u] = type[u]
          /\ UNCHANGED <<limit, agent, owner, knowledge, snapshots, request>>
      BY <1>0, <2>1 DEF CreateType, TypeState
    <3> QED
      BY <3>1 DEF TopologyInv, TopologyTypeOK
  <2>2. CASE UpdateType(t)
    <3>1. limit' \in [Types -> 1..MaxLimit] /\ UNCHANGED <<type, agent, owner, knowledge, snapshots, request>>
      BY <1>0, <2>2 DEF UpdateType
    <3> QED
      BY <3>1 DEF TopologyInv, TopologyTypeOK
  <2> QED
    BY <1>2, <2>1, <2>2
<1>3. ASSUME NEW t \in Types, NEW r \in Records, AddKnowledge(r, t)
      PROVE  /\ TopologyInv' /\ agent' = agent
             /\ \A u \in Types : type[u] # "none" => type'[u] = type[u]
  <2>1. PICK s \in {"candidate", "approved"} :
          /\ owner[r] = None /\ owner' = [owner EXCEPT ![r] = t]
          /\ knowledge' = [knowledge EXCEPT ![r] = s]
          /\ UNCHANGED <<type, limit, agent, snapshots, request>>
    BY <1>3 DEF AddKnowledge
  <2>2. /\ owner' \in [Records -> Types \cup {None}] /\ knowledge' \in [Records -> KnowledgeState]
        /\ \A x \in Records : owner'[x] = IF x = r THEN t ELSE owner[x]
        /\ \A x \in Records : knowledge'[x] = IF x = r THEN s ELSE knowledge[x]
    BY <1>0, <2>1 DEF KnowledgeState
  <2>3. \A x \in Records : owner[x] # None => owner'[x] # None
    BY <2>1, <2>2
  <2>4. \A x \in Records : owner'[x] # None => knowledge'[x] # "none"
    BY <2>2 DEF TopologyInv
  <2>5. TopologyTypeOK'
    BY <2>1, <2>2 DEF TopologyInv, TopologyTypeOK
  <2>6. \A k \in DOMAIN snapshots', x \in Records : snapshots'[k].owner[x] # None => owner'[x] # None
    BY <2>1, <2>3 DEF TopologyInv
  <2> QED
    BY <2>1, <2>4, <2>5, <2>6 DEF TopologyInv
<1>4. \A i \in Instances, t \in Types : CreateInstance(i, t) => SetInstance(i, t, "idle")
  BY DEF CreateInstance
<1>5. \A i \in Instances, t \in Types : LeaseOf(i, t) => SetInstance(i, t, "running") /\ HasRoom(t)
  BY DEF LeaseOf
<1>6. \A i \in Instances : AssignInstance(i) =>
        agent[i].of \in Types \cup {None} /\ SetInstance(i, agent[i].of, "running") /\ HasRoom(agent[i].of)
  BY <1>0 DEF AssignInstance
<1>7. \A i \in Instances : FinishInstance(i) => SetInstance(i, None, "none")
  BY DEF FinishInstance
<1>8. ASSUME NEW q \in Requests, NEW t \in Types, CheckSplit(q, t) \/ CheckRetire(q, t)
      PROVE  /\ TopologyInv' /\ agent' = agent /\ type' = type
  <2>1. PICK S \in SUBSET Types : S = {t}
    OBVIOUS
  <2>2. PICK kind \in {"split", "merge", "retire"} : Check(q, kind, S)
    BY <1>8, <2>1 DEF CheckSplit, CheckRetire
  <2>3. TopologyInv'
    BY <2>1, <2>2, Checked
  <2> QED
    BY <2>2, <2>3 DEF Check
<1>9. ASSUME NEW q \in Requests, NEW S \in SUBSET Types, CheckMerge(q, S)
      PROVE  TopologyInv' /\ agent' = agent /\ type' = type
  <2>1. S # {}
    BY <1>9, FS_EmptySet DEF CheckMerge
  <2> QED
    BY <1>9, <2>1, Checked DEF CheckMerge, Check
<1>10. ASSUME NEW q \in Requests, Refuse(q)
       PROVE  TopologyInv' /\ agent' = agent /\ type' = type
  <2>1. UNCHANGED <<type, limit, owner, knowledge, snapshots>> /\ Done(q)
    BY <1>10 DEF Refuse
  <2> QED
    BY <2>1, RequestDone DEF TopologyInv, TopologyTypeOK
<1> QED
  BY <1>1, <1>2, <1>3, <1>4, <1>5, <1>6, <1>7, <1>8, <1>9, <1>10 DEF TopologyNext

LEMMA TopologyStarts == TopologyInit => TopologyInv
<1> SUFFICES ASSUME TopologyInit PROVE TopologyInv
  OBVIOUS
<1>1. TopologyTypeOK
  <2>1. snapshots \in Seq(Snapshot)
    BY DEF TopologyInit
  <2> QED
    BY <2>1, IdleTyped, LimitPositive DEF TopologyInit, TopologyTypeOK, TypeState, AgentState, KnowledgeState
<1>2. /\ \A q \in Requests : request[q].kind = "none"
      /\ DOMAIN snapshots = {}
      /\ \A r \in Records : owner[r] = None
  BY DEF TopologyInit, Idle
<1> QED
  BY <1>1, <1>2 DEF TopologyInv

LEMMA TopologyStays == TopologyInv /\ [TopologyNext]_topologyVars => TopologyInv'
<1> SUFFICES ASSUME TopologyInv, [TopologyNext]_topologyVars PROVE TopologyInv'
  OBVIOUS
<1>1. ASSUME NEW i \in Instances, NEW u \in Types \cup {None}, NEW state \in AgentState, SetInstance(i, u, state)
      PROVE  TopologyInv'
  <2>1. agent' \in [Instances -> [of : Types \cup {None}, state : AgentState]]
    BY <1>1, InstanceMoves DEF TopologyInv
  <2>2. UNCHANGED <<type, limit, owner, knowledge, snapshots, request>>
    BY <1>1 DEF SetInstance
  <2> QED
    BY <2>1, <2>2 DEF TopologyInv, TopologyTypeOK
<1>2. ASSUME NEW q \in Requests, Split(q) \/ Merge(q) \/ Retire(q) PROVE TopologyInv'
  BY <1>2, SplitMigrates, MergeMigrates, RetireMigrates
<1> QED
  BY <1>1, <1>2, OtherSteps, RolledBack

LEMMA LimitStep ==
  ASSUME TopologyInv, [TopologyNext]_topologyVars, NEW t \in Types,
         Cardinality(RunningOf(t)') > Cardinality(RunningOf(t))
  PROVE  Cardinality(RunningOf(t)') <= limit'[t]
<1>0. RunningOf(t) \subseteq Instances /\ limit[t] \in Nat
  BY DEF RunningOf, TopologyInv, TopologyTypeOK
<1>1. agent' # agent
  <2> SUFFICES ASSUME agent' = agent PROVE FALSE
    OBVIOUS
  <2>1. RunningOf(t)' = RunningOf(t)
    BY DEF RunningOf
  <2> QED
    BY <1>0, <2>1, NoPlaceTaken
<1>2. ASSUME NEW q \in Requests, Split(q) \/ Merge(q) \/ Retire(q) PROVE FALSE
  BY <1>1, <1>2 DEF Split, Merge, Retire, Done
<1>3. ASSUME NEW k \in DOMAIN snapshots, RollBack(k) PROVE FALSE
  BY <1>1, <1>3 DEF RollBack
<1>4. PICK i \in Instances, u \in Types \cup {None} : \E state \in AgentState :
              /\ SetInstance(i, u, state)
              /\ state = "running" /\ u \in Types => HasRoom(u)
  BY <1>1, <1>2, <1>3, OtherSteps
<1>5. PICK state \in AgentState :
              /\ SetInstance(i, u, state)
              /\ state = "running" /\ u \in Types => HasRoom(u)
  BY <1>4
<1>6. limit' = limit
  BY <1>5 DEF SetInstance
<1>7. /\ RunningOf(t)' \subseteq RunningOf(t) \cup {i}
      /\ state # "running" \/ t # u => RunningOf(t)' \subseteq RunningOf(t)
  BY <1>5, InstanceMoves DEF TopologyInv
<1>8. state = "running" /\ t = u
  BY <1>0, <1>7, NoPlaceTaken
<1>9. Cardinality(RunningOf(t)) < limit[t]
  BY <1>5, <1>8 DEF HasRoom
<1> QED
  BY <1>0, <1>6, <1>7, <1>9, PlaceTaken

\* However requests interleave, and whatever limits change, no step starts an
\* instance beyond the limit its type has (assign_instance_to_task,
\* lease_instance_for_task).
THEOREM LimitsHold == TopologySpec => WithinLimit
<1>1. TopologyInv /\ [TopologyNext]_topologyVars =>
        [\A t \in Types : Cardinality(RunningOf(t)') > Cardinality(RunningOf(t))
                            => Cardinality(RunningOf(t)') <= limit'[t]]_topologyVars
  BY LimitStep
<1> QED
  BY <1>1, TopologyStarts, TopologyStays, PTL DEF TopologySpec, WithinLimit

LEMMA ServiceEnds ==
  ASSUME TopologyInv, [TopologyNext]_topologyVars, NEW q \in Requests, NEW t \in Types,
         request[q] # Idle, request'[q] = Idle, type[t] = "active", type'[t] # "active",
         NEW r \in Records, owner'[r] = t
  PROVE  knowledge'[r] = "archived"
<1>1. ASSUME NEW p \in Requests, Split(p) \/ Merge(p) \/ Retire(p) PROVE knowledge'[r] = "archived"
  BY <1>1, SplitMigrates, MergeMigrates, RetireMigrates
<1>2. ASSUME NEW k \in DOMAIN snapshots, RollBack(k) PROVE FALSE
  BY <1>2 DEF RollBack
<1>3. ASSUME NEW i \in Instances, NEW u, NEW state, SetInstance(i, u, state) PROVE FALSE
  BY <1>3 DEF SetInstance
<1> QED
  BY <1>1, <1>2, <1>3, OtherSteps

\* A split, a merge or a retirement whose checks are stale still archives or
\* moves all live knowledge of the type it takes out of service (split_type,
\* merge_types, retire_type).
THEOREM NothingIsLeftBehind == TopologySpec => NothingLeftBehind
<1>1. TopologyInv /\ [TopologyNext]_topologyVars =>
        [\A q \in Requests, t \in Types :
           request[q] # Idle /\ request'[q] = Idle /\ type[t] = "active" /\ type'[t] # "active"
             => \A r \in Records : owner'[r] = t => knowledge'[r] = "archived"]_topologyVars
  BY ServiceEnds
<1> QED
  BY <1>1, TopologyStarts, TopologyStays, PTL DEF TopologySpec, NothingLeftBehind

\* A rollback to any snapshot, after any migrations and rollbacks, makes every
\* type that was active active and returns every record (rollback_to_snapshot).
THEOREM RollbacksReturn == TopologySpec => RollbackReturns
<1>1. TopologyInv /\ [TopologyNext]_topologyVars =>
        [\A k \in DOMAIN snapshots : RollBack(k) =>
           /\ \A t \in Types : snapshots[k].type[t] = "active" => type'[t] = "active"
           /\ \A r \in Records : snapshots[k].owner[r] # None
                               => owner'[r] = snapshots[k].owner[r]]_topologyVars
  BY RolledBack
<1> QED
  BY <1>1, TopologyStarts, TopologyStays, PTL DEF TopologySpec, RollbackReturns
=============================================================================
