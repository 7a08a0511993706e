# Zero Develop: TLA+ models, model checking and proofs

Zero Develop is a control plane for coding agents. A person talks to it in a
chat or a browser; the conversation becomes a *plan*, a human approves one
revision of it, the revision becomes an *execution* (a graph of tasks), workers
run the tasks with agents that call tools in git worktrees, the results are
tested together, and a human approves the *merge*. All state that matters is in
one SQL database (SQLite or PostgreSQL) and one git repository; the code that
moves it runs in several threads and may run in several processes.

This directory holds TLA+ modules of it, the TLC runs that check them on small
instances, and proofs, checked by TLAPS, that hold for every instance.
Paths below are relative to `src/src/zero/`.

## 1. The system

### 1.1 Components, their state and how they interact

| Component | State it keeps | Operations | Talks to | Modules |
|---|---|---|---|---|
| Plan service (`app/plan_service.py`) | plans, revisions, decisions, handoffs | propose, approve, reject | interfaces; handoffs are read by the scheduler | PlanService, PlanCards |
| Planner (`app/task_decomposition.py`) | the graphs it remembers | ask for a graph, repair, order | provider, scheduler | TaskDecomposition |
| Worker service (`app/worker_service.py`) | executions, tasks, attempts with leases, dependencies | create, claim, renew, complete, fail, unknown outcome, cancel, requeue, reconcile, recover | agent runtime, scheduler, API | WorkerService, ExecutionContract |
| Scheduler (`app/scheduler_service.py`) | retry times | one pass per tick: leases, retries, handoffs, worktrees, reviews, results, dispatch | everything below | the clients in WorkerService, PlanService, AgentRuntime |
| Agent runtime (`app/agent_runtime.py`) | local variables of a run, cancellation events | claim a task, prepare, loop over provider and tools, judge the evidence, report | worker, provider, tool, worktree, type services | AgentRuntime, ToolLoop |
| Worktrees (`app/worktree_service.py`) | rows, directories, branches | create over dependencies, activate, run, commit, fail, abandon, clean up, reconcile | git | Worktrees |
| Agent types (`app/agent_type_service.py`) | types, limits, running instances, knowledge, snapshots | lease, release, split, merge, retire, roll back | scheduler, agent runtime | AgentTypes, AgentRuntime |
| Integration (`app/integration_service.py`) | reviews, test results, proposals; the target branch | review, test, propose, approve, reject, merge, recover | worktrees, git, the sandbox | IntegrationService |
| Approval gate (`app/approval_gate.py`) | decision rows, grants in memory, mode | evaluate a call, resolve a request, retune | agent runtime; web and chat buttons | ApprovalGate, ToolCards |
| Tools (`app/tool_service.py`, `app/tool_runner.py`) | declarations, grants, invocations | declare, grant, revoke, invoke | agent runtime | ToolService |
| Provider service (`app/provider_service.py`, `app/provider_adapter.py`) | requests with claims and leases, answers, usage | send with fallback, cool down, recover, reconcile; read a stream, render a conversation | network | ProviderService, ProviderStream, MessageRendering |
| Context (`app/compaction_service.py`, `app/retrieval_service.py`) | context versions, compaction records | build, compact, recover | agent runtime, provider | ContextVersions |
| Artifacts (`app/artifact_service.py`) | contents, provenance, documents, index | store, approve, supersede, archive, rebuild, search | everybody | Artifacts |
| Telegram (`adapters/telegram.py`, `app/background_workers.py`, `app/telegram_chat.py`, `app/telegram_live.py`) | offset, lanes, event claims, chat log, the message being edited | poll, merge, queue, answer | interface service, chat service | TelegramPolling, PollLock, ChatTurn |
| Interfaces and delivery (`app/interface_service.py`, `app/result_delivery_service.py`) | bindings, event log, one-shot tokens, deliveries | admit, handle an event, press a button, deliver a result | plan service, approval gate, adapters | Admission, PlanCards, ToolCards, ResultDelivery |
| Identity, authorization, secrets | users, links, roles, permissions, references | link, grant, check, resolve | every service | Admission, ConfigSync |
| Persistence (`persistence/`) | connections, the schema | transactions, migrations | everybody | Database, Migrations |
| Configuration (`app/config_sync.py`) | `config.yaml`, references to secrets, bindings | boot, repair, save | every service | ConfigSync |
| Operation (`app/observability_service.py`, `manage/`) | archives, `zero.pid` | back up, restore, start, stop, recover | the file system, processes | Backups, ServiceProcess |
| Web pages, TUI, Discord, sandbox, metrics | sessions, views | I/O | services | section 7 |

`PROJECT.json` lists them with what is modelled of each, and the hazards of each
with the line where they bite.

### 1.2 What makes it hard

* **A handler reads, then decides, then writes.** Almost every service method
  reads its rows *outside* a transaction, checks them, and opens the
  transaction afterwards. Some transactions look again at what was read; many
  do not. Two requests, or a request and a scheduler tick, interleave in
  between. This is the hazard behind most of the properties.
* **Workers die, or are only late.** A lease expires, another worker gets the
  task, and the first one works on in its own worktree and reports late.
* **Some outcomes nobody knows.** A request to a provider, or a message to a
  chat, may have arrived although no answer was read; sending it again would
  pay, and act, twice.
* **Two stores.** A merge moves a git ref and then writes rows; a worktree is a
  row and a directory; a configuration is a file and rows it refers to; a
  restore is two moves of files. A crash falls in between.
* **At least once in, at most once out.** Telegram delivers again what no offset
  confirmed; buttons and texts take different ways; claims expire.
* **Answers come in pieces.** A person's answer to the gate is a row, then a
  grant; an answer of a model is frames that may stop anywhere.
* **Several processes, several versions.** A server, commands, daemons and an
  upgraded server share one file, one port and one pid file.
* **Things must happen.** Nothing polls the graph for readiness: a wake-up lost
  is lost. An execution nobody settles stays open for ever.

### 1.3 What makes each component correct

* *Execution graph*: one owner per task; work accepted once; dependencies
  first; no lost wake-up; cancellation sticks; verdicts final and right;
  retries within budget; executions come to rest.
* *Plans*: a decision is about the revision its author named, by card or web; the
  trail decision, handoff, execution is never broken; the graph is the one the
  model stated.
* *Runs*: accepted work keeps its worktree, and what builds on it contains it; no
  slot is lost; a retry does not trip over its predecessor; a run that lost its
  attempt falls silent.
* *Merges*: only what a human approved lands; once; with its evidence; over
  nobody else's work; product decisions are left to humans.
* *Gate and tools*: nothing runs on a word nobody gave; a denial stays; a person
  is asked once and no button is lost; no grant is used beyond its cap.
* *Provider requests*: one is never sent twice by itself; its answer is whole,
  stored, charged and replayed once; after an unknown outcome nothing is tried
  instead.
* *Messages*: an event is answered once; a send that may have landed is not
  repeated; a turn ends with its answer shown once; only accounts that may speak
  are heard.
* *Storage and operation*: a transaction lands whole or not at all; the newest
  context is the active one; each migration takes effect once; a boot wires what it
  can; a restore loses nothing; no service escapes `zero stop`.

## 2. The plan

Most important behaviour first; every part of it is done, and each has its
section in 3, its run in 4 and its proofs in 5.

1. The execution graph and its contract, plans, merges, the gate, provider
   requests: the services that own the rows.
2. The clients that join them: the agent runtime with its worktrees and
   instances, the tool loop inside it, cards in the chat, the planner.
3. The way in and out: polling, lanes, admission, a turn, results.
4. The ground they stand on: transactions, migrations, context versions,
   artifacts, configuration, archives, processes.

Modules are composed where components interact: AgentRuntime extends Worktrees,
PlanCards extends PlanService, ToolCards extends ApprovalGate, and
WorkerService refines ExecutionContract. Parts that share no state (the parts of
MCStorage, MCMessaging, MCToolLoop, MCPlanService) are checked in one run: a
behaviour moves one of them, chosen at the start, so that their states add up
instead of multiplying.

Left for later: theorems without a condition of section 5 where the code comes to
allow it.

## 3. The modules

Common conventions. A handler whose reads precede its transaction is two
actions (`Begin...` keeps what was read, `Commit...` is the transaction); the
local variables of a call live in a record per caller (`worker`, `caller`,
`user`, `client`, `merger`, `answer`). A transaction is atomic and a unique
index is a guard, as in both databases (Database shows what SQLite makes of
it). Texts and logging are left out. Definitions marked as mutants are
plausible bugs of the definition they vary; each property is shown to notice one. History variables
are marked HISTORY where they are declared.

### 3.1 WorkerService (and ExecutionContract)

| TLA+ | Code |
|---|---|
| `exec`, `task`, `att`, `deps` | `executions.state`, `tasks.state`, `task_attempts.state`, `task_dependencies` |
| `task = "awaiting"` | `blocked` with the reason "provider outcome unknown" |
| `att = "lapsed"` | a running attempt whose `lease_expires_at` passed |
| `worker[w]` | a thread in `AgentRuntime.run_task` |
| `caller[o]` | a REST request or a scheduler tick in an operator's handler |
| `BeginClaim`/`CommitClaim` ... `CommitReconcile` | `claim_task` ... `reconcile_blocked_task` |
| `Recomputed` | `_recompute_readiness`, in the order tasks are listed, with the overlay it keeps; a recursive function, so that it can be proved about |
| `Settled`, `Finish` | `_maybe_complete_execution` |
| `Recover`, `ReconcileExpiredLeases` | `recover_after_restart`, `reconcile_expired_leases` |
| `LeaseExpires`, `Crash` | time passing without renewal; a worker thread that dies |

`ExecutionContract` is what an execution promises to those who wait for it:
results are accepted one by one, each once and after those it builds on, and
then one final verdict. `WorkerService!Contract` maps the rows to it.

### 3.2 PlanService, PlanCards and TaskDecomposition

PlanService is one plan: its revisions, `plan_approvals`, `plan_handoffs`, the
executions started from them, the requests of several people and the passes of
several schedulers. `BeginDecision` is the read of the plan and the comparison
with the number the person named, `ReadRevision` the *second* read of the plan
inside `get_current_revision`, `CommitApprove`/`CommitReject` the transactions.

PlanCards adds the card a message gets: `event[u]` is a thread handling an update,
`button[r]` a one-shot callback token. Minting, sending, spending a token and
calling the plan service are steps of their own, and any of them may be the last
of its thread.

TaskDecomposition is the scheduler's way from a revision to a graph: the ladder
of forced, escalated and plain-text requests, what makes an answer unusable, the
repair of names nobody declared, the order, and the cache of graphs, which also
remembers that there is none. `Lower` and `Score` stand for letter case and
the similarity of names. The order is that of `normalize_task_order`: again and again the
first task whose dependencies are placed (`Ready`), as a recursive function.

### 3.3 IntegrationService

Per execution (`Works`) a review and at most one proposal; the class of a
review is what `detect_conflicts` found. `target` is the set of commits
reachable from the target ref, `base` those of the worktree's fork point: git's
ancestry is set inclusion. `execute_merge` is `BeginMerge`, `ReadTarget`,
`Advance` (`git update-ref` with the old value), `Verify`, `Link` (evidence
row), `Record` (state row), `MergeDone`; `MergeFails` may follow any of them and
leads to `Undo`. `Crash` stops a merge anywhere, and stands too for an undo that
itself fails. `Recover` is `recover_inflight_merges`. `Push` is a person's
push. `MergeRefused` stands for all refusals before anything is written: dirty
repository, drifted diff, path outside the project.

### 3.4 ApprovalGate and ToolCards

`rows` is `tool_approval_decisions`, `grants` is `_session_grants`, `Cause` the
chain of early returns of `evaluate` in the code's order, `call[e]` the
evaluation an execution's attempt is in, `answer[a]` a thread in `resolve`.
`EvaluateAsk`, `MarkExpired`, `MintRequest` are three separate steps, as are
`ReadRequest`, `StoreAnswer` and `AddGrant` or `WriteWildcard`. A restart
empties `grants`. `ZoneShift` is the server's time zone: the code writes a
creation time in UTC and reads it back as local time. `said` and `blocked` are
history: what people allowed for good or for the session (the latter ends with
the process), and which tools they denied as a whole. One reading of several
queries by `evaluate` is one step: the queries are consecutive, look at
different rows, and the answer is used after all of them.

ToolCards adds the card with four buttons: minting its tokens precedes
`evaluate`'s return, and a press reads the request again and runs the same
`resolve` as the HTTP route.

### 3.5 ProviderService, ProviderStream, MessageRendering

| TLA+ | Code |
|---|---|
| `row[<<q, i>>]` | the row of `provider_requests` whose hash is that of request `q` rewritten for entry `i` of the chain |
| `token`, `claims` | `claim_token` and `attempt_count`, as one counter: tokens are random and never used twice |
| `answer`, `charged` | the response artifact, by the claim that stored it; rows of usage |
| `caller[c]` | a thread in `send_request_with_fallback` and the `send_request` it calls |
| `Lookup` ... `Claim` | the look-up by hash, the insert that may lose to a unique index, the claim |
| `Send`, `Heartbeat`, `Responds`, `Retry`, `Fails` | the loop over attempts with one provider |
| `StoreFailure`, `StoreAnswer`, `StoreAnswerFails`, `MarkUnknown` | the writes of a final state, each guarded by the claim token (`Holds`) |
| `GoOn`, `Decide` | what the loop over the chain does with an error; what an existing row allows |
| `cooling` | `_provider_cooldown_until`; the count that arms it is left open: an error that counts may arm it or not |
| `Recover`, `BeginReconcile`, `CommitReconcile` | `recover_stale_provider_requests`, and the query and the update of `reconcile_provider_request` |

Crashes happen anywhere, leases lapse at any time, and a call that lost its
claim goes on until it notices. `doubted` and `deserted` are history: rows once
recorded unknown, and rows whose thread died. Errors are classified by
their text; a text that quotes the random identifier of a row is classified by
it (`ClassOfText`), and `OddIds` says whether such an identifier may hold "429"
or "auth". Left out are requests with an idempotency key (the planner's),
refusals for what a model cannot do (they write nothing), and a reconciliation
that only adds a note. An answer that cannot be stored is taken to end the
call with an error that is not eligible for a fallback, as the code's own texts
do.

ProviderStream is what happens inside one such send, frame by frame. A gateway sends
the names, ids and argument fragments of its calls in any order it may, fragments of
several calls mixed (`named`, `opened`, `piecesSent`); with each frame the reader
keeps what `_openai_stream_events`, `_anthropic_stream_events` and
`_collect_stream`, or `_aggregate_sse_body` for a whole body, keep of it (`idAt`,
`pendingName`, `built`). A stream may break, be cancelled or turn unreadable between
any two frames, and `outcome` is the class of error that follows.

MessageRendering is the way there, message by message: a history of rounds,
interrupted or cut anywhere, and one request that renders it. `seenIds` and
`pendingMap` are the code's; `blocks` is its `merged`, laid flat: each block with
its turn, and with the message and call it comes from. `Suffixed` numbers a rewritten
id; two rewritten ids may become equal by a suffix too ("call_1" and "call" with
suffix 1), only different suffixes of one id may not. A model's text beside its
calls is left out: it changes no pair.

### 3.6 AgentRuntime over Worktrees, and ToolLoop inside it

| TLA+ | Code |
|---|---|
| `worker[w].pc` | where a thread in `run_task` is, from the claim to the report |
| `instance[a]` | the row of `agent_instances` an attempt leased |
| `row[a]`, `dir[a]`, `branch[a]` | the attempt's worktree: its row, its directory (absent, clean, dirty), what its branch contains |
| `command` | rows of `command_runs` that say running |
| `keeper` | a process in its start-up recovery, or in `zero-dev reconcile` |
| `degraded`, `meddled` | history: attempts whose base or checkpoint was denied; tasks whose worktrees somebody else changed |
| `"looping"` | the whole of ToolLoop |

A run that lost its lease does not notice before it next talks to the worker
service; until then it works on, and the transactions of WorkerService are one
step each. `SlowSetup` says whether a lease may lapse before the runtime begins
to renew it.

ToolLoop has one attempt: `pc`, the last response (how many calls, whether they
parse), calls without a result (`open`), the budgets used, the breaker's count
per failure, a delegation's requests (`child`), and whether the attempt is still
`"ours"`. Losing the attempt and the cancellation event are moves of the
environment, at any moment.

ToolService has the rows tools leave behind, beside processes of different
versions that start, declare, grant and die: an invocation reads a grant,
reserves a use of it and runs the handler in three steps.

### 3.7 AgentTypes

Types, limits, instances, the knowledge records of a type, snapshots, and a
request that has passed its checks and not yet begun its transaction. Capacity is
counted in the transaction that starts an instance.

### 3.8 Messages: TelegramPolling, ChatTurn, ResultDelivery, PollLock, Admission

| TLA+ | Code |
|---|---|
| `confirmed`, `poller` | the offset as Telegram knows it; the batch under way and the offset in memory |
| `lane[c]`, `turn[t]` | the queue and thread of a chat (`MaxLanes`, `MaxQueue`); the event a thread processes |
| `claim`, `logged`, `heard` | `interface_event_claims`, `interface_event_log`, the conversation |
| `answering`, `live`, `shown` | the turn under way, the renderer, the messages in the chat |
| `rows`, `drain[w]`, `unanswered` | `result_deliveries`; a thread sending one; rows with a request nobody answered |
| `links`, `rights`, `binding`, `polled`, `access`, `door[h]`, `desk` | links of accounts, roles, bindings, the access mode; a handler at the gates; requests authorised and not yet carried out |

A merged batch carries the id of its first update. The lock file of PollLock is
created and then written, read and then removed: four system calls. PollLock takes
part in the run but has no property: the one its docstring promises does not
hold (section 6).

### 3.9 Storage and operation

| Module | What it is |
|---|---|
| Database | one SQLite file, a connection per thread, a lock per process; repositories that commit by themselves or within `transaction()`, savepoints, time-outs, raising callers, processes that die |
| ContextVersions | versions and compaction records of one execution, `compact` in its six transactions, recovery after a restart |
| ConfigSync | a boot, stage by stage, on its own copy of the file, beside commands, the wizard, `doctor --fix`, revoked secrets, changed keys and databases |
| Artifacts | storing by content; a document's life, its index, and the two writes of a removal |
| Migrations | starting processes of several versions, each migration in a transaction with its row |
| Backups | two daemons, a command and a restore over files that a crash may leave anywhere; a dump is a pair of what its first and its other tables know |
| ServiceProcess | `zero start`, `zero stop`, `zero restart` and `zero-develop serve`: a pid file, a port, a health check, processes slow to bind and slow to leave |

## 4. The runs

| Run | Question | Bounds and why they are enough |
|---|---|---|
| `worker_calls` | Do retries stay within their budget, whoever reports late and whoever revives? | 2 tasks, 2 workers, 1 operator, all calls, 3 attempts: a budget of 2 is exhausted, and exceeded if it can be |
| `worker_contract` | Default deployment: ownership, wake-ups, the contract, and do executions come to rest? | 2 tasks (independent, or one building on the other), 2 workers (a race needs two), 2 attempts (one lost, one late), both cancellations, recovery |
| `plan_races` | The paper trail; are handoffs executed; do cards keep their word; is the graph the one the model stated? | 2 people, 2 schedulers, 2 revisions (one decided, one arriving); lists of up to 3 tasks over names that differ by case and by a slip, 1 failing transport, 2 ticks |
| `merge_races` | What lands, how often, and who decided? | 2 works (one needing tests, one needing a human), 2 merges at once, each work merged up to twice, 1 push, 1 caller |
| `approval_races` | Who allowed what, how often is one asked, is a button lost? | 2 executions (a grant could leak), 2 shapes of arguments, 2 rows, TTL 1 with a clock of 2 values, 2 answers at once, 1 restart |
| `provider_requests` | Is a request sent and answered once, and nothing tried after an unknown outcome? | a chain of 3 (main model, one not offered, one without adapter), 2 calls for one request, 3 claims of the first row (first, retry, late comer) and 1 of the others, 2 attempts per provider, 1 operator |
| `run_tasks` | Does accepted work stand, are slots accounted for, are retries clear? | a task with two attempts and one that builds on it, 2 workers, capacity 1, leases that lapse before renewal begins, 1 crash, reconciliation or failed commit |
| `tool_rounds` | Does a lost attempt fall silent and the loop end; are grants within their cap; does a message survive its travel? | 4 rounds of 2 calls, breaker at 3; 2 processes, 2 versions, 2 calls, 2 grants, cap 1; an answer of 2 calls in 2 fragments each, by every wire; conversations of 4 messages with batches of 2 calls, 3 ids that collide when rewritten or suffixed, cut anywhere and rendered again |
| `topology` | Limits, knowledge and rollback under stale checks | 3 types (two merged into one), 1 record, 2 instances, 1 request between check and transaction, 2 snapshots |
| `messaging` | Answered once, not sent blindly, concluded, shown once, heard only who may | 2 chats, 1 lane, a queue of 1 (both are at their limit), 2 updates, 1 fault; 1 result of 2 messages, 3 attempts, 2 crashes; 3 processes and a dead lock; turns of 2 tool rounds and 2 parts, 3 events, 2 flood strikes; 2 accounts, 2 users, 2 handlers, 2 updates, 2 requests |
| `storage` | Transactions, context, boot, evidence, schema, archives, process | 3 threads in 2 processes, 2 calls of 3 steps, 1 crash; 6 versions, 4 compactions, 2 restarts, 1 task; 2 databases, 2 keys, 1 group, 2 moves, 1 fault; 2 threads, 2 contents, 2 documents, 3 stores, 5 edits, 2 deaths; 3 starters of 2 versions, 2 failures; 2 daemons, 2 archives of which 1 is retained, 1 mishap; 2 terminals, 4 processes |
| `find_lost_message` | A disagreement, section 6 | 1 chat, 1 update |

`CHECK_DEADLOCK FALSE` everywhere: each instance may run out of attempts,
revisions, rows or events, and what is settled rests.
Symmetry is used only in runs without liveness, over model values that are only
compared.

`worker_contract` is the default deployment (`NoRevival`): `task_max_attempts`
is 0 and reconciliation is a manual call. With the operations that revive tasks
its properties are false (section 6).

### 4.1 Fairness

* WorkerService: weak fairness of each worker's own steps and of choosing a
  ready task (the background loop ticks for ever and a live thread goes on), of
  the reconciliation of leases (part of every tick), and of the expiry of a
  lease nobody renews (time passes). None for a crash, for an operator's call,
  or for the expiry of a lease a live worker holds.
* PlanService: strong fairness of the three steps of a scheduler's pass over a
  handoff: the loop lists every unclaimed handoff again and again, and a
  database error does not hit the same transaction every time. None for people.
* ToolLoop: weak fairness of the thread that runs the loop; providers and tools
  answer or time out, and both are outcomes of its step.
* Messages: weak fairness of the poller, of each turn and lane, of each drain and
  of the clock that ends a delivery's lease: threads that loop for ever. None for
  people, crashes or recovery.
* The others make no liveness claim: people, retries and restarts that nobody
  guarantees decide whether they go on.

## 5. The proofs

TLC agrees with everything proved; the proofs say it for every value of the
constants. They assume only the `ASSUME`s of the modules and, where a theorem
names one, a condition: each is a state of affairs the code often is in, and
without it the code does break the property (section 6). Every safety theorem
has the same shape: an inductive invariant, a lemma that it begins, a lemma that
every action keeps it, and the property as one of its parts or a consequence.

### 5.1 WorkerServiceProofs

* `TypeCorrect`, `AttemptsFinal`: for all callers and all settings.
* `OneOwner` (`SingleOwner`), `OneAcceptance`, `Cancellation`,
  `TerminalTasksFinal` under `NoRevival`, from `OwnershipInv`: none of them is
  inductive alone. It adds what a worker in a handler knows about its attempt,
  that a task's newest attempt is the only one that can be open, and that no
  reviver is in progress.
* `OrderRespected`, `WakeupsKept` (`NoLostWakeup`) under `NoRevival`, from
  `GraphInv`. The core is a set of lemmas about `Recomputed`: whatever order the
  tasks are listed in, after it every waiting task waits for one that is not
  completed, and every ready one for none. They need the graph to be acyclic and
  work by the rank.
* `FailuresBounded` (`FailuresWithinBudget`), where revivers come one at a time
  (`OneReviver`) and a budget of 1 is not combined with reconciliation. From
  `BudgetInv`: an attempt counts unless its outcome is unknown, a task is ready only
  while there is room for one more, and a call about to revive a task has seen
  that room, or a task never tried.
* `Refinement` (`ImplementsContract`) under `NoRevival`, from `ContractInv`, which
  adds to `GraphInv` that the execution's state fits its tasks (`VerdictFits`) and
  that what a claim read earlier does no harm (`ClaimsRead`). Each action is one
  step of `ExecutionContract` or none.

### 5.2 PlanServiceProofs

`PlanTypeCorrect`, `TrailKept` (`PaperTrail`), `ProposalsKept`, from `PlanInv`: a
request in progress names a revision that exists, and a scheduler's pass a handoff
that does. `WordKept` (`CardsKeepTheirWord`) from `CardsInv`: while requests to the
plan service come one at a time, a press that acts does so as its card says, and a
spent button has its decision on record.

`GraphSaysWhatWasAnswered` (`GraphAsAnswered`), for answers of any length and any
measure of similarity, from `DecompositionInv`: a call asks again only after the first
answer made no graph, and that is not forgotten before the call is over. The rest is
about operators: a list whose names do not differ by case only keeps its tasks
and each dependency on a declared task through a repair (`RepairKeeps`, which rests
on `KnownStays`: the index by lower case finds such a name under its own spelling);
and putting a list in order never makes a graph of it (`OrderNeverHelps`), because a
list that can be ordered and is short enough was valid before.

### 5.3 ApprovalGateProofs

`GateTypeCorrect` needs `RowsAsked`: the row an answer or an expiry will write
came from a call, never from a tool-wide denial. `AllowancesCovered`
(`AllowedIsCovered`) from `CoverInv`: every rule, grant and coming grant was said.
`DenialStays` from `BlockedInv`: the wildcard row cannot be the target of any later
write. `QuestionAskedOnce` (`AskedOnce`) and `PendingLive` hold on the side of UTC
their hypothesis names, and only there (section 6). `ButtonsKept` (`NoButtonLost`)
from `ButtonInv`: tokens of a card are minted with its request, a press that goes on
has a stored answer behind it, and each step of a card is a step of the gate or
none.

### 5.4 WorktreeProofs

* Merges: `MergeTypeCorrect`; `OnlyApprovedWorkLands` (every commit's history
  contains only approved works, and a merge in progress keeps an approved work in
  hand); `WorkLandsOnce` (if the ref was moved, it still contains what the merge
  read: the compare-and-swap of `update-ref` and the containment check are enough,
  without a lock); `LandsOnApproval` (`ApprovedLandsOnce`), which joins them;
  `EvidenceBeforeState`; `ProductDecisionsReturn` (`HumanDecides`);
  `HistoryKept`.
* Runs, all from `RunInv`: `AcceptedWorkIsKept` (`AcceptedWorkStands`) by `WorkKept`
  and `BranchesBuilt`, which follow a run from the merge of its dependencies to its
  acceptance; `SlotsAreAccounted` (`InstancesAccounted`) by `SlotsHeld`;
  `RetriesAreClear` (`NoPoisonedRetry`) by `RetryClear`. They rest on `RowsInOrder`
  and `Newest`: of a task's worktrees at most one is in flight, and the one of the
  attempt that holds the task, or held it to the end, is the newest.
* Types: `LimitsHold` (`WithinLimit`), `NothingIsLeftBehind` (`NothingLeftBehind`),
  `RollbacksReturn` (`RollbackReturns`), from `TopologyInv`: what a snapshot
  remembers once existed and exists.

### 5.5 ProviderServiceProofs

`ProviderTypeCorrect`. Everything else rests on one lemma, `CallMoves`: as far
as claims are concerned each of the seventeen actions of a call is one of six
moves (it passes, inserts, claims, goes on, settles, answers), and on
`ApartStep`, its counterpart for all other steps. `ClaimInv` says that a row in
flight carries its newest token, that a call that sends holds the claim unless
the row was recorded unknown, and that no two of them have the same token. From it
follow `SentByOne` (`OneSender`), `NewestStored` (`NewestAnswer`), `Charged`,
`Replayed` and `Kept`, and with `OpenInv` (every open row has its call)
`NoneLeftOpen`. These assume that a single person reconciles (`OneOperator`): with
two, the second update is unguarded (section 6). `FallbackIsSure`
(`NoBlindFallback`) needs only that no identifier is odd, and follows from
`DoubtInv` for every chain and every breaker state.

### 5.6 ToolLoopProofs

`Typing`, `SoonSilentHolds`, `PairedHistoryHolds`, `NothingUnresolvedHolds`,
`RequestBudgetHolds`, from one invariant of four parts: `Placed` (what is set at
which place of the loop), `Counted` (requests against the budgets used), `Quiet`
(how many requests can still follow the last renewal) and `Settled` (which calls
have results). `GrantsHold` (`WithinCap`) from `ToolInv`: the rows count at least as
many uses as there are calls and no more than the cap, because test and count are
one statement; cardinalities are bounded with FiniteSetTheorems.

`StreamIsWholeOrNothing` (`WholeOrNothing`) from `StreamInv`: `SentSoFar` says which
frames are still possible after those sent, `ReadSoFar` that what is kept of each
call, on each wire, is just what was sent of it so far. So at an end that is
accepted the calls are those sent, whole; and an end that is retried has handed
nothing on.

`RenderingPairsExactly` (`PairingExact`) from `RenderingInv`, in six parts. Of the
history (`HistoryInv`): behind a batch only its own results follow, none twice. Of
the blocks: each call's id is its own (`UsesInv`, which rests on `FreshIsFree`: with
more suffixes than ids in use one is free); each result rendered so far is of one
message and stands in the turn after its call (`ResultsInv`); turns alternate
(`TurnsInv`). `TableInv` joins them: for each call of the last batch rendered so far
the table has the id of its block, and that block is in the turn before the next
result. When all is rendered (`WhatIsKept`) no result is removed, and a call only if
nothing answers it. The one assumption is that suffixes keep one id apart.

### 5.7 MessagingProofs

* `UnknownStaysUnknown` (`NoBlindRetry`) from `DeliveryInv`: a drain that sends holds
  its row under its own attempt, alone, and a row with an unanswered request can
  only go on to "unknown".
* `TurnsConverge` (`Converges`) from `ChatInv`: what the chat shows at each place of
  a turn, as long as no rendering failed.
* `AnsweredOnlyOnce` (`AnsweredOnce`) from `PollInv`: the claim of an event whose turn
  neither raised nor outlived its lease is never free again.
* `AdmissionIsSound` (`AdmissionSound`) from `AdmissionInv`. Links only grow and a
  verified link stays verified (`LinksSound`); what a handler found out about its
  sender is still so when it acts on it (`DoorSound`); while all links of the
  owner are automatic, only the first of them is heard (`VoiceSound`).

### 5.8 StorageProofs

| Theorem | Property | Invariant and idea |
|---|---|---|
| `TransactionsAtomic` | `TransactionAtomic` | `DatabaseInv`: a connection in a transaction holds just the writes of it that no block took back (`Holding`), and each savepoint those before it |
| `NewestIsActive` | `NewestActive` | `ContextInv`, with one task of the execution at work at a time: at every place of a compaction, the record names what recovery needs |
| `BootsWire` | `Wired` | `ConfigInv`: references are to rows that were inserted, and at each stage of an undisturbed boot (`BootHolds`) the file follows the copy and the copy resolves |
| `EvidenceHolds` | `EvidenceSound` | `ArtifactInv`: a store's look-up and insert are one writer's; a document in the index is approved while curation is in turn |
| `EachMigrationOnce` | `MigratedOnce` | `MigrationInv`: the ledger is a prefix, and what was read before the fence is read again behind it |
| `NothingIsThrownAway` | `NothingThrownAway` | `BackupInv`: where the old content is at each step of a restore, and that no list of archives to prune holds the newest |
| `NoServiceEscapes` | `NoneUnmanaged` | `ServiceInv`: while commands come in order, the one command under way knows the pid it is about |

### 5.9 Only model-checked

`Settles`, `ExecutedInTurn`, `RoundsEnd`, `Concluded`: liveness under fairness, which
is out of the proof system's reach. Every invariant and every action property that a
run checks is proved, under the conditions named above where there are any.

## 6. Where code and words disagree

Shown by a run, with the quoted line in `PROJECT.json`:

* `find_lost_message`: a message that was read, confirmed to Telegram and queued
  for its chat is gone when its lane retires or the process stops
  (`_drain_lane`: "so nothing is lost").

Seen while modelling; the conditions of properties and theorems leave them out.

* *Worker*: `reconcile_blocked_task` writes a task back to ready from a stale read,
  and two workers may own it (`worker_service.py:1405`). A claim decides from a stale read
  of the execution, and the last task may complete in a paused one, which cannot
  be completed (845). Reconciling before dependencies are completed makes a
  task ready too early; a requeue racing a cancellation revives a task; two
  revivers at once, or a budget of 1 with a reconciliation begun on a blocked
  task, exceed the retry budget; a late task cancel can leave the execution
  unsettled; an execution can stay paused when the retry budgets of worker and
  scheduler differ. The cancellation event is set and then discarded (1307), so a
  run that fetches it later never sees it. Cancelling an execution after a crash
  does not release the dead run's instance before the next start.
* *Plan*: an approval takes the revision from a second read (`plan_service.py:417`) and
  may approve one its author, or a card, has not shown, although
  `interface_service.py:1155` excludes it; a rejection racing an approval leaves an
  approved, runnable revision under a rejected plan; a plan can move back to an
  earlier state; an execution can be created after its plan stopped being
  approved. A card whose delivery failed is not sent again while its tokens are
  unused.
* *Planner*: names are repaired by similarity, so a lower-case name of a mixed-case
  task is never repaired, and of keys that differ in case only one takes the other's
  dependencies; lists beyond the limit are cut without a word; an empty slot is
  never left open because the scheduler creates the single task at once.
* *Runtime and worktrees*: a late run abandons the live attempt's worktree
  (`_abandon_worktree`, whose docstring excludes it); recovery calls
  `recover_worktrees_after_restart` after the sweep whose docstring forbids it,
  and `zero-dev reconcile` beside a live server ends live work; on SQLite a
  unique violation of a worktree row is never recognised and its directory
  stays; a crash in `run_command` leaves a command running for ever.
* *Evidence*: the base revision is not moved after dependencies are merged in, so a
  task with two of them that changed nothing passes the diff gate, although it
  "must not pass on its dependencies' work"; tests run after the diff is taken.
* *Tool loop*: the text protocol's breaker counts successes; its fall-back is only
  reached after an empty first response; a delegation's provider errors reach the
  parent, which its docstring excludes; an empty answer in mid-loop is accepted
  without the ladder.
* *Tools and types*: a declaration once stored is not refreshed for all tools, and
  a grant that exists keeps its old limits; two first starts at once may collide. A
  rollback leaves active what the snapshot had archived, and record states
  as they are; retirement counts running instances outside its transaction.
* *Merge*: a failed merge resets the ref to what it read at its start, and removes
  what others brought there meanwhile (`integration_service.py:1301`); a crash after `update-ref`
  and before the evidence row leaves work in the branch that no recovery looks at;
  an audit failure after the state row rolls the ref back and leaves the row
  `merged`; a rejection during a merge is overwritten, and an approval of a merged
  proposal accepted; two test results at once can lose an escalation between
  them; no operation ends a pause for a human decision.
* *Approval gate*: a session grant is looked up before the deny rules
  (`approval_gate.py:261`, while the comment at 265 says deny rules outrank
  everything except the hardline), so an execution that holds one goes on after
  a tool-wide denial: `DeniedToolStays` leaves that cause out. Two answers
  to one request at once are both accepted and the second one stands, while both
  presses are logged as recorded. An expiry may erase an answer given in the same instant.
  "Allow once" lets no call through: nothing `evaluate` reads remembers it. East of UTC
  a request expires early, by the zone's offset, and with the default TTL of ten
  minutes every call is asked again at once; west of it, late.
* *Provider*: `reconcile_provider_request` promises that after
  "not dispatched" the "normal retry paths may proceed" (1480), but the class it
  writes is not one `send_request` retries (736), so that row is refused for
  ever. A row that a thread left pending is refused too (778), though the recovery
  says it is requeued (`observability_service.py:970`). A refusal that quotes an
  identifier with "429" or "auth" in it is taken for an eligible error, and the
  chain goes on after an unknown outcome, against its docstring (511). Without
  streaming nothing renews a lease, and a call that outlives it may send again after
  its row was recorded unknown: `OneSender` allows for that. Two people who
  reconcile one row at once can overwrite a completed one, and a cancellation that
  read an open row overwrites its verdict. A broken Anthropic stream is retried
  although only tool input had arrived; a body of frames answered to a plain request is
  accepted without its end.
* *Messages in*: commands are handled at most once, messages at least once; a
  redelivered batch that grew is merged under an id that was answered; an event
  redelivered within 300 seconds of a crash is taken for one under way and then
  confirmed; a failed event is logged and so never tried again; buttons overtake
  queued texts, and a handler that raises holds up the batch. A message that is only
  a photo, document or voice note is refused although its chat handler says it is
  acknowledged. Two first senders at once may both be linked, and the gate then hears
  only the earlier one.
* *Messages out*: an answer that cannot be read is recorded as failed and sent
  again; when a second message of a result is rejected, the first is sent again
  with it; a binding enabled late receives all earlier results. A turn's further
  messages may fail and it is recorded as shown; an apology may be shown twice.
* *Polling lock*: a process that stood back never asks again; two may poll when
  one is stolen between creation and writing, and any `OSError` means polling
  without a lock.
* *Context and storage*: a compaction that failed after its record was written makes later
  ones from the same source fail; a late activation moves the active pointer
  back when two tasks compact. A write followed by a raised "not found" leaves the
  thread's connection with an open transaction and the write lock
  (`persistence/connection.py:213`), and its next commit commits the abandoned write.
* *Artifacts*: archiving beside a rebuild or an approval leaves a document indexed
  that is not approved, although "Only 'approved' documents are indexed"
  (`0007_artifacts_rag_context.sql:87`); superseding by a document that does not exist
  takes the index entry away and then fails.
* *Configuration*: a binding's stale token reference is never repaired, though the
  fix is said to survive restarts; secrets of a fixed name exist at most once, so a
  second recovery fails; the last good copy is written with the same content as
  the file, so it rolls nothing back; a crash while the first file is made leaves an
  empty one that loads as defaults; revoked grants are given again at start.
* *Operation*: a back-up run that finds the lock busy removes it, so runs overlap
  although "no overlapping runs" is guaranteed (`backup_daemon.py:4`); a dump may be torn between tables;
  a restore that is killed between its moves leaves no database at the path,
  although "atomically" is promised (`manage/cli.py:1295`), and nothing keeps it from a
  running server. `zero restart` does not wait for the old process and then refuses
  to start; of two `zero start` at once the loser's pid may be the one recorded.
* *Scheduler*: a review is requested only in the tick in which the execution
  completed; `run_once` catches `OSError`, `RuntimeError` and `ValueError`, so a
  database error ends the tick.

## 7. What is not modelled

Texts, prompts, wire formats beyond the frames of a stream, page rendering and the
parsing of settings; the network; PostgreSQL's pool and the translation of
dialects; git's objects beyond ancestry and contents beyond clean and dirty; the
sandbox, whose outcomes are choices; Discord and user sessions; web sessions,
passwords, audit rows and permissions other than those Admission has; ranking,
summaries and memory; metrics, logs and scans; the TUI and the consoles; read-only
queries. One plan, one execution graph, one execution's worktrees and one
repository at a time: the code keeps no state across them other than agent
capacity, which AgentTypes and AgentRuntime have. Of a review there is at most one
proposal, and of a session grant only the project at hand.
