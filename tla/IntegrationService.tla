-------------------------- MODULE IntegrationService --------------------------
(***************************************************************************)
(* src/zero/app/integration_service.py: how the work of executions is      *)
(* reviewed, proposed, approved and merged into the target branch of the   *)
(* project's repository.                                                   *)
(*                                                                         *)
(* Two kinds of state must agree: rows of the database (reviews, merge     *)
(* proposals, their evidence) and the target ref of a git repository,      *)
(* which no transaction spans.  execute_merge therefore is a sequence of   *)
(* steps between which other requests run, other people push, any step may *)
(* raise and the process may die.                                          *)
(*                                                                         *)
(* A commit is known by what it contains: it is the set of integration     *)
(* commits and pushes in its history, and is an ancestor of every superset.*)
(***************************************************************************)
EXTENDS Integers, FiniteSets

CONSTANTS
  Finished,   \* finished executions: source worktrees, review, merge proposal
  Clients,    \* callers of the review operations: REST requests, a scheduler tick
  Mergers,    \* requests inside execute_merge
  Dev,        \* a person who pushes to the target branch
  Conflict,   \* how create_review classifies the conflicts of a work
  MaxMerges,  \* BOUND: merge commits of one work in the model
  MaxPushes   \* BOUND: pushes in the model

Class == {"none", "low_risk", "human_decision_required"}

ASSUME SomeWork == Finished # {}
ASSUME DevIsNoWork == Dev \notin Finished
ASSUME Classified == Conflict \in [Finished -> Class]
ASSUME Bounds == MaxMerges \in Nat /\ MaxPushes \in Nat

VARIABLES
  target,    \* the commit the target ref names
  made,      \* the merge commits and pushes made so far
  base,      \* what the source branches of a work are based on
  review,    \* integration_reviews
  proposal,  \* merge_proposals, with the evidence columns
  client,    \* local variables of the review operations
  merger     \* local variables of execute_merge

mergeVars == <<target, made, base, review, proposal, client, merger>>

-----------------------------------------------------------------------------
Commits == (Finished \X (1..MaxMerges)) \cup ({Dev} \X (1..MaxPushes))

Result      == {"not_run", "pass", "fail"}
ReviewState == {"none", "reviewing", "approved", "rejected", "human_decision_paused"}
Review      == [state : ReviewState, result : Result, class : Class]

\* by: approved_by is set.  link: target_revision, with integration_worktree_id
\* and the evidence ids ({} while they are NULL).
ProposalState == {"none", "proposed", "approved", "rejected", "merged"}
Proposal == [state : ProposalState, checks : BOOLEAN, by : BOOLEAN, link : SUBSET Commits]
NoProposal == [state |-> "none", checks |-> FALSE, by |-> FALSE, link |-> {}]

\* testing: in run_combined_tests     recording: in record_combined_test_result
\* proposing: in create_merge_proposal, past the reads
Client == [pc : {"idle", "testing", "recording", "proposing"}, work : Finished,
           result : Result, class : Class]
AnyWork == CHOOSE w \in Finished : TRUE
Resting == [pc |-> "idle", work |-> AnyWork, result |-> "not_run", class |-> "none"]

\* checked: the proposal was found approved      building: target_sha was read
\* moved: update-ref succeeded                   verified: the ref was read back
\* linked: the evidence is stored                recorded: the proposal is merged
\* undoing: in the handler of the exception
Merger == [pc : {"idle", "checked", "building", "moved", "verified", "linked",
                 "recorded", "undoing"},
           work : Finished, sha : SUBSET Commits, commit : SUBSET Commits]
Unmerged == [pc |-> "idle", work |-> AnyWork, sha |-> {}, commit |-> {}]

MergesTypeOK ==
  /\ target \in SUBSET Commits
  /\ made \in SUBSET Commits
  /\ base \in [Finished -> SUBSET Commits]
  /\ review \in [Finished -> Review]
  /\ proposal \in [Finished -> Proposal]
  /\ client \in [Clients -> Client]
  /\ merger \in [Mergers -> Merger]

MergesInit ==
  /\ target = {}
  /\ made = {}
  /\ base = [w \in Finished |-> {}]
  /\ review = [w \in Finished |-> [state |-> "none", result |-> "not_run", class |-> Conflict[w]]]
  /\ proposal = [w \in Finished |-> NoProposal]
  /\ client = [c \in Clients |-> Resting]
  /\ merger = [m \in Mergers |-> Unmerged]

-----------------------------------------------------------------------------
(* The sources of a work and the people around it.                         *)

\* Its worktrees are prepared on the target as it is then.
Prepare(w) ==
  /\ review[w].state = "none"
  /\ base' = [base EXCEPT ![w] = target]
  /\ UNCHANGED <<target, made, review, proposal, client, merger>>

NextCommit(a, n) ==
  /\ <<a, n>> \in Commits \ made
  /\ n > 1 => <<a, n - 1>> \in made

Push ==
  \E n \in 1..MaxPushes :
    /\ NextCommit(Dev, n)
    /\ target' = target \cup {<<Dev, n>>}
    /\ made' = made \cup {<<Dev, n>>}
    /\ UNCHANGED <<base, review, proposal, client, merger>>

-----------------------------------------------------------------------------
(* Reviews.                                                                *)

CreateReview(w) ==
  /\ review[w].state = "none"
  /\ review' = [review EXCEPT ![w].state = "reviewing"]
  /\ UNCHANGED <<target, made, base, proposal, client, merger>>

ClientStep(c, r) ==
  /\ client' = [client EXCEPT ![c] = r]
  /\ UNCHANGED <<target, made, base, review, proposal, merger>>

\* run_combined_tests checks the review and then works in a worktree of its own.
BeginTests(c, w) ==
  /\ client[c].pc = "idle"
  /\ review[w].state = "reviewing"
  /\ ClientStep(c, [Resting EXCEPT !.pc = "testing", !.work = w])

\* It raises before that worktree exists: stale or dirty sources, missing rows.
TestsRaise(c) ==
  /\ client[c].pc = "testing"
  /\ ClientStep(c, Resting)

\* record_combined_test_result, called with the outcome of the tests or by a
\* REST request, reads the classification.
BeginRecord(c, w, r) ==
  /\ \/ client[c].pc = "idle" /\ review[w].state # "none"
     \/ client[c].pc = "testing" /\ client[c].work = w /\ r # "not_run"
  /\ ClientStep(c, [pc |-> "recording", work |-> w, result |-> r, class |->
        IF r = "fail" /\ Conflict[w] # "none" THEN "human_decision_required"
        ELSE review[w].class])

\* MUTANT of CommitRecord: passing tests outrank the classification.
RecordTestsOnly(c) ==
  LET r == client[c] IN
  /\ r.pc = "recording"
  /\ review' = [review EXCEPT ![r.work] =
       [result |-> r.result, class |-> r.class, state |->
          IF r.result = "pass" THEN "approved"
          ELSE IF r.class = "human_decision_required" THEN "human_decision_paused"
          ELSE "rejected"]]
  /\ client' = [client EXCEPT ![c] = Resting]
  /\ UNCHANGED <<target, made, base, proposal, merger>>

CommitRecord(c) ==
  LET r == client[c] IN
  /\ r.pc = "recording"
  /\ review' = [review EXCEPT ![r.work] =
       [result |-> r.result, class |-> r.class, state |->
          IF r.class = "human_decision_required" THEN "human_decision_paused"
          ELSE IF r.result = "pass" THEN "approved" ELSE "rejected"]]
  /\ client' = [client EXCEPT ![c] = Resting]
  /\ UNCHANGED <<target, made, base, proposal, merger>>

-----------------------------------------------------------------------------
(* Proposals.  A review has one here; a second one would be a row like it. *)

BeginPropose(c, w) ==
  /\ client[c].pc = "idle"
  /\ review[w].state = "approved"
  /\ proposal[w].state = "none"
  /\ ClientStep(c, [pc |-> "proposing", work |-> w, result |-> review[w].result,
                    class |-> review[w].class])

CommitPropose(c) ==
  LET r == client[c] IN
  /\ r.pc = "proposing"
  /\ proposal' = [proposal EXCEPT ![r.work] =
       IF @.state = "none"
       THEN [NoProposal EXCEPT !.state = "proposed", !.checks = (r.result = "pass")]
       ELSE @]
  /\ client' = [client EXCEPT ![c] = Resting]
  /\ UNCHANGED <<target, made, base, review, merger>>

\* approve_merge asks for the checks, not for the state.
Approve(w) ==
  /\ proposal[w].checks
  /\ proposal' = [proposal EXCEPT ![w].state = "approved", ![w].by = TRUE]
  /\ UNCHANGED <<target, made, base, review, client, merger>>

\* reject_merge asks for nothing.
Reject(w) ==
  /\ proposal[w].state # "none"
  /\ proposal' = [proposal EXCEPT ![w].state = "rejected"]
  /\ UNCHANGED <<target, made, base, review, client, merger>>

-----------------------------------------------------------------------------
(* execute_merge.                                                          *)

MergerStep(m, r) ==
  /\ merger' = [merger EXCEPT ![m] = r]
  /\ UNCHANGED <<base, review, client>>

Reached(m, pc) == merger[m].pc = pc
Work(m)   == merger[m].work

\* MUTANT of BeginMerge: the state of the proposal is not checked.
BeginMergeUnapproved(m, w) ==
  /\ Reached(m, "idle")
  /\ proposal[w].checks
  /\ MergerStep(m, [Unmerged EXCEPT !.pc = "checked", !.work = w])
  /\ UNCHANGED <<target, made, proposal>>

BeginMerge(m, w) ==
  /\ Reached(m, "idle")
  /\ proposal[w].state = "approved"
  /\ proposal[w].checks
  /\ MergerStep(m, [Unmerged EXCEPT !.pc = "checked", !.work = w])
  /\ UNCHANGED <<target, made, proposal>>

\* The review, its diffs, the repository or the sources do not allow it.
MergeRefused(m) ==
  /\ Reached(m, "checked")
  /\ MergerStep(m, Unmerged)
  /\ UNCHANGED <<target, made, proposal>>

\* MUTANT of ReadTarget: sources that miss the target's commits are accepted.
ReadTargetStale(m) ==
  /\ Reached(m, "checked")
  /\ review[Work(m)].result = "pass"
  /\ MergerStep(m, [merger[m] EXCEPT !.pc = "building", !.sha = target])
  /\ UNCHANGED <<target, made, proposal>>

\* Every source branch must contain the target.
ReadTarget(m) ==
  /\ Reached(m, "checked")
  /\ review[Work(m)].result = "pass"
  /\ target \subseteq base[Work(m)]
  /\ MergerStep(m, [merger[m] EXCEPT !.pc = "building", !.sha = target])
  /\ UNCHANGED <<target, made, proposal>>

\* The sources merged on top of target_sha.
Integrated(m, n) == merger[m].sha \cup base[Work(m)] \cup {<<Work(m), n>>}

\* git update-ref <target> <integration_sha> <target_sha>
Advance(m, n) ==
  /\ Reached(m, "building")
  /\ NextCommit(Work(m), n)
  /\ target = merger[m].sha
  /\ target' = Integrated(m, n)
  /\ made' = made \cup {<<Work(m), n>>}
  /\ MergerStep(m, [merger[m] EXCEPT !.pc = "moved", !.commit = Integrated(m, n)])
  /\ UNCHANGED proposal

Verify(m) ==
  /\ Reached(m, "moved")
  /\ target = merger[m].commit
  /\ MergerStep(m, [merger[m] EXCEPT !.pc = "verified"])
  /\ UNCHANGED <<target, made, proposal>>

\* update_integration_worktree, update_proposal_evidence
Link(m) ==
  /\ Reached(m, "verified")
  /\ proposal' = [proposal EXCEPT ![Work(m)].link = merger[m].commit]
  /\ MergerStep(m, [merger[m] EXCEPT !.pc = "linked"])
  /\ UNCHANGED <<target, made>>

\* update_proposal_state, whatever the state has become.
Record(m) ==
  /\ Reached(m, "linked")
  /\ proposal' = [proposal EXCEPT ![Work(m)].state = "merged"]
  /\ MergerStep(m, [merger[m] EXCEPT !.pc = "recorded"])
  /\ UNCHANGED <<target, made>>

\* The audit event is stored and the call returns.
MergeDone(m) ==
  /\ Reached(m, "recorded")
  /\ MergerStep(m, Unmerged)
  /\ UNCHANGED <<target, made, proposal>>

\* Something raised: git, the database, update-ref or the verification.
MergeFails(m) ==
  /\ merger[m].pc \in {"building", "moved", "verified", "linked", "recorded"}
  /\ MergerStep(m, [merger[m] EXCEPT !.pc = "undoing"])
  /\ UNCHANGED <<target, made, proposal>>

\* The handler puts the ref back to target_sha, whatever it names now.
Undo(m) ==
  /\ Reached(m, "undoing")
  /\ target' = merger[m].sha
  /\ MergerStep(m, Unmerged)
  /\ UNCHANGED <<made, proposal>>

\* The process dies, or git fails in the handler too.
MergerDies(m) ==
  /\ ~Reached(m, "idle")
  /\ MergerStep(m, Unmerged)
  /\ UNCHANGED <<target, made, proposal>>

\* recover_inflight_merges: an approved proposal whose recorded commit the
\* target contains.
Recover(w) ==
  /\ proposal[w].state = "approved"
  /\ proposal[w].link # {}
  /\ proposal[w].link \subseteq target
  /\ proposal' = [proposal EXCEPT ![w].state = "merged"]
  /\ UNCHANGED <<target, made, base, review, client, merger>>

-----------------------------------------------------------------------------
WorkStep(w) ==
  Prepare(w) \/ CreateReview(w) \/ Approve(w) \/ Reject(w) \/ Recover(w)

ReviewStep(c) ==
  \/ TestsRaise(c) \/ CommitRecord(c) \/ CommitPropose(c)
  \/ \E w \in Finished :
        BeginTests(c, w) \/ BeginPropose(c, w) \/ \E r \in Result : BeginRecord(c, w, r)

MergeStep(m) ==
  \/ ReadTarget(m) \/ MergeRefused(m) \/ Verify(m) \/ Link(m) \/ Record(m)
  \/ MergeDone(m) \/ MergeFails(m) \/ Undo(m) \/ MergerDies(m)
  \/ \E w \in Finished : BeginMerge(m, w)
  \/ \E n \in 1..MaxMerges : Advance(m, n)

MergesNext ==
  \/ Push
  \/ \E w \in Finished : WorkStep(w)
  \/ \E c \in Clients : ReviewStep(c)
  \/ \E m \in Mergers : MergeStep(m)

MergesSpec == MergesInit /\ [][MergesNext]_mergeVars

-----------------------------------------------------------------------------
(* Properties.                                                             *)

Merges(commit) == {c \in commit : c[1] # Dev}

\* Nothing reaches the target branch that no human approved, whatever
\* requests race, fail or crash ("Merge requires explicit authority and
\* passing gates", ADR 0022).
OnlyApprovedLands == \A c \in Merges(target) : proposal[c[1]].by

\* The work of an execution is in the target at most once, however often its
\* merge is retried after a crash, undone, or requested twice: sources that
\* do not contain the target are refused.
LandsOnce == \A c, d \in Merges(target) : c[1] = d[1] => c = d

\* What the target holds of an execution was approved, and landed once, however
\* requests, merges, pushes, failures and crashes interleave: the two together.
ApprovedLandsOnce == OnlyApprovedLands /\ LandsOnce

\* A merged proposal names the commit it produced: the evidence is stored
\* before the state, so no crash separates them.
MergedHasEvidence ==
  \A w \in Finished : proposal[w].state = "merged" => \E n \in 1..MaxMerges : <<w, n>> \in proposal[w].link

\* "Product decisions return to humans": a work whose conflicts need one is
\* not merged on the strength of passing tests, however results race.
HumanDecides ==
  \A w \in Finished : Conflict[w] = "human_decision_required" =>
    /\ review[w].state # "approved"
    /\ proposal[w].state = "none"
    /\ \A c \in target : c[1] # w

\* The target ref only moves forward, except where a failed merge puts it
\* back: update-ref names the value it expects, so a merge or a push that
\* came first is never overwritten.
AdvanceKeepsHistory ==
  [][target \subseteq target' \/ \E m \in Mergers : Reached(m, "undoing")]_mergeVars

=============================================================================
