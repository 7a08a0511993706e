--------------------------- MODULE ProviderService ---------------------------
(***************************************************************************)
(* Requests to language-model providers (app/provider_service.py).  Each   *)
(* call of send_request_with_fallback walks a chain of (provider, model)   *)
(* entries.  For every entry it tries there is one durable row, found by   *)
(* the hash of the request: it is looked up, inserted, claimed with a      *)
(* fencing token and a lease, sent, and given a final state.  Several      *)
(* threads and processes make calls for the same request; threads die,     *)
(* leases lapse, the start of a process recovers what lapsed, and          *)
(* operators decide about outcomes nobody knows.                           *)
(***************************************************************************)
EXTENDS Integers, FiniteSets

CONSTANTS
  Requests,     \* canonical requests within their deduplication scope
  Streamed,     \* those sent with stream = True
  Entries,      \* length of the chain; entry 1 is the caller's own choice
  Providers,
  ProviderOf,   \* entry -> provider
  Offered,      \* entries whose model get_model() finds
  Adapted,      \* entries whose provider has an adapter in this process
  Callers,      \* threads that call send_request_with_fallback
  Operators,    \* people who reconcile
  MaxAttempts,  \* provider_max_attempts
  OddIds,       \* may a row's random identifier hold "429" or "auth"?
  MaxClaims     \* bound: entry -> claims per row

Chain == 1 .. Entries

ASSUME ConstantsAssumption ==
  /\ Streamed \subseteq Requests
  /\ Entries \in Nat \ {0}
  /\ ProviderOf \in [Chain -> Providers]
  /\ Offered \subseteq Chain /\ Adapted \subseteq Chain
  /\ MaxAttempts \in Nat \ {0}
  /\ OddIds \subseteq BOOLEAN
  /\ MaxClaims \in [Chain -> Nat]

VARIABLES
  row,          \* provider_requests: <<request, entry>> -> row
  caller,       \* caller -> where its call is
  cancelled,    \* callers whose cancel_event is set
  cooling,      \* providers with _provider_cooldown_until in the future
  operator,     \* operator -> where its reconcile_provider_request is
  doubted,      \* history: rows that were once recorded unknown
  deserted      \* history: rows whose caller died with them

vars == <<row, caller, cancelled, cooling, operator, doubted, deserted>>

Keys == Requests \X Chain

States == {"none", "pending", "streaming", "completed", "failed", "cancelled",
           "unknown"}

\* "invalid_request" stands for context_limit and policy_refusal too: nothing
\* tells these three apart.
Classes == {"transient", "rate_limit", "auth_failure", "invalid_request",
            "cancelled", "unknown_outcome", "reconciled_not_dispatched"}

NoClass == "no_class"

\* token: claim_token, 0 for NULL, and claims: attempt_count, are one counter
\* because tokens are never used twice.  answer: the claim whose response
\* artifact is stored.  charged: usage records.  odd: the identifier of the
\* row holds a text that stands for an eligible class of errors.
Row == [state : States, class : Classes \cup {NoClass}, token : Nat,
        lease : {"none", "live", "expired"}, claims : Nat, answer : Nat,
        charged : Nat, odd : BOOLEAN]

NoRow == [state |-> "none", class |-> NoClass, token |-> 0, lease |-> "none",
          claims |-> 0, answer |-> 0, charged |-> 0, odd |-> FALSE]

\* Where a call can be.  At "dispatch" it holds the claim and is about to
\* send, or sleeps before it sends again; at "failing" and "finish" it has an
\* error or a response that is not stored yet; at "unfinal" storing failed.
Places == {"lookup", "insert", "claim", "dispatch", "sent", "failing",
           "finish", "unfinal", "answered", "raised"}

\* i: the entry tried now.  skip: entries the breaker left out.  token: the
\* fencing token held or, once answered, the claim whose answer was returned.
\* doubt (history): the call met an entry whose outcome is not known.
Busy == [at : Places, q : Requests, i : Chain, skip : SUBSET Chain,
         token : Nat, tries : Nat, class : Classes \cup {NoClass},
         doubt : BOOLEAN]

NoCall == [at |-> "idle"]
NoDecision == [at |-> "idle"]

Init ==
  /\ row = [k \in Keys |-> NoRow]
  /\ caller = [c \in Callers |-> NoCall]
  /\ cancelled = {}
  /\ cooling = {}
  /\ operator = [o \in Operators |-> NoDecision]
  /\ doubted = {}
  /\ deserted = {}

Key(c) == <<caller[c].q, caller[c].i>>

\* Mutants of Holds: the token is not compared; a released claim will do.
HoldsAnyToken(c) == row[Key(c)].state = "streaming"

\* The caller holds the claim of its row: what every write with a claim token
\* and every heartbeat asks in its WHERE clause.
Holds(c) ==
  /\ row[Key(c)].state = "streaming"
  /\ row[Key(c)].token = caller[c].token

-----------------------------------------------------------------------------
(* Errors, and which entry is tried next *)

RetriableClasses == {"rate_limit", "transient"}
SameProviderRetryable == {"transient", "rate_limit"}
FallbackEligible == {"transient", "rate_limit", "auth_failure"}

\* Fallbacks on a cooling provider are left out of a call, unless only one
\* entry would be left.
Sick == {i \in Chain : /\ ProviderOf[i] # ProviderOf[1]
                       /\ ProviderOf[i] \in cooling}
LeftOut == IF Cardinality(Chain \ Sick) <= 1 THEN {} ELSE Sick

\* The entries of c's call after the one it is at.
Remaining(c) == {j \in Chain \ caller[c].skip : j > caller[c].i}
Following(c) == CHOOSE j \in Remaining(c) : \A l \in Remaining(c) : j <= l

TryNext(c, doubt) ==
  [caller[c] EXCEPT !.at = "lookup", !.i = Following(c), !.token = 0,
                    !.tries = 0, !.class = NoClass, !.doubt = @ \/ doubt]

GiveUp(c, doubt) ==
  [caller[c] EXCEPT !.at = "raised", !.token = 0, !.tries = 0,
                    !.class = NoClass, !.doubt = @ \/ doubt]

\* Mutant of GoOn: uncertain outcomes fall through to the next entry too.
GoOnAlways(c, class, doubt) ==
  IF class \in FallbackEligible \cup {"unknown_outcome"} /\ Remaining(c) # {}
    THEN TryNext(c, doubt)
    ELSE GiveUp(c, doubt)

\* What the loop over the chain does with an exception of the class.
GoOn(c, class, doubt) ==
  IF class \in FallbackEligible /\ Remaining(c) # {}
    THEN TryNext(c, doubt)
    ELSE GiveUp(c, doubt)

\* _classify_error searches the text of an exception.  A text that quotes the
\* identifier of a row is taken for a rate limit if that holds "429", or for
\* another eligible class.
ClassOfText(k) == IF row[k].odd THEN "rate_limit" ELSE "invalid_request"

\* send_request with an existing row: replay the stored answer, send again, or
\* refuse with a text that quotes the row's identifier and error class.
Decide(c) ==
  LET k == Key(c) IN
  CASE row[k].state = "completed" ->
         [caller[c] EXCEPT !.at = "answered", !.token = row[k].answer]
    [] row[k].state = "failed" /\ row[k].class \in RetriableClasses ->
         [caller[c] EXCEPT !.at = "claim"]
    [] row[k].state = "failed" /\ row[k].class = "auth_failure" ->
         GoOn(c, "auth_failure", FALSE)
    [] OTHER ->
         GoOn(c, ClassOfText(k), row[k].state # "failed")

\* The row after a final state was written to it.
Settled(k, state, class) ==
  [row[k] EXCEPT !.state = state, !.class = class, !.token = 0,
                 !.lease = "none", !.answer = 0]

-----------------------------------------------------------------------------
(* A call, before anything is sent *)

Call(c) ==
  /\ caller[c].at = "idle"
  /\ \E q \in Requests :
       caller' = [caller EXCEPT ![c] =
         [at |-> "lookup", q |-> q, i |-> 1, skip |-> LeftOut, token |-> 0,
          tries |-> 0, class |-> NoClass, doubt |-> FALSE]]
  /\ UNCHANGED <<row, cancelled, cooling, operator, doubted, deserted>>

\* The top of the loop over the chain, when the call was cancelled.
StopBefore(c) ==
  /\ caller[c].at = "lookup"
  /\ c \in cancelled
  /\ caller' = [caller EXCEPT ![c] = GiveUp(c, FALSE)]
  /\ UNCHANGED <<row, cancelled, cooling, operator, doubted, deserted>>

\* get_model() finds nothing for this entry: the next one is tried.
SkipEntry(c) ==
  /\ caller[c].at = "lookup"
  /\ c \notin cancelled
  /\ caller[c].i \notin Offered
  /\ caller' = [caller EXCEPT ![c] =
       IF Remaining(c) # {} THEN TryNext(c, FALSE)
                            ELSE GiveUp(c, FALSE)]
  /\ UNCHANGED <<row, cancelled, cooling, operator, doubted, deserted>>

Lookup(c) ==
  /\ caller[c].at = "lookup"
  /\ c \notin cancelled
  /\ caller[c].i \in Offered
  /\ caller' = [caller EXCEPT ![c] =
       IF row[Key(c)].state = "none" THEN [@ EXCEPT !.at = "insert"]
                                     ELSE Decide(c)]
  /\ UNCHANGED <<row, cancelled, cooling, operator, doubted, deserted>>

\* insert_provider_request, or the winner's row when the hash is taken.
Insert(c) ==
  /\ caller[c].at = "insert"
  /\ \/ /\ row[Key(c)].state = "none"
        /\ \E odd \in OddIds :
             row' = [row EXCEPT ![Key(c)].state = "pending",
                                ![Key(c)].odd = odd]
        /\ caller' = [caller EXCEPT ![c].at = "claim"]
     \/ /\ row[Key(c)].state # "none"
        /\ caller' = [caller EXCEPT ![c] = Decide(c)]
        /\ UNCHANGED row
  /\ UNCHANGED <<cancelled, cooling, operator, doubted, deserted>>

\* Mutant of Claimable: the state is not compared.
ClaimableAlways(k) == row[k].lease \in {"none", "live", "expired"}

Claimable(k) ==
  /\ row[k].state \in {"pending", "failed"}
  /\ row[k].token = 0 \/ row[k].lease = "none"

\* claim_provider_request: a new token and a lease, or an error that quotes
\* the identifier.
Claim(c) ==
  LET k == Key(c) IN
  /\ caller[c].at = "claim"
  /\ \/ /\ Claimable(k)
        /\ row[k].claims < MaxClaims[caller[c].i]
        /\ row' = [row EXCEPT ![k].state = "streaming",
                              ![k].claims = @ + 1,
                              ![k].token = row[k].claims + 1,
                              ![k].lease = "live"]
        /\ caller' = [caller EXCEPT ![c].at = "dispatch",
                                    ![c].token = row[k].claims + 1]
     \/ /\ ~ Claimable(k)
        /\ caller' = [caller EXCEPT ![c] = GoOn(c, ClassOfText(k), TRUE)]
        /\ UNCHANGED row
  /\ UNCHANGED <<cancelled, cooling, operator, doubted, deserted>>

-----------------------------------------------------------------------------
(* Sending *)

\* No adapter is registered for the provider.
NoAdapter(c) ==
  /\ caller[c].at = "dispatch"
  /\ caller[c].i \notin Adapted
  /\ IF Holds(c)
       THEN /\ row' = [row EXCEPT ![Key(c)] =
                         Settled(Key(c), "failed", "invalid_request")]
            /\ caller' = [caller EXCEPT ![c] =
                            GoOn(c, "invalid_request", FALSE)]
       ELSE /\ caller' = [caller EXCEPT ![c] =
                            GoOn(c, ClassOfText(Key(c)), TRUE)]
            /\ UNCHANGED row
  /\ UNCHANGED <<cancelled, cooling, operator, doubted, deserted>>

\* The top of the retry loop: cancelled before it is sent, or sent.
Send(c) ==
  /\ caller[c].at = "dispatch"
  /\ caller[c].i \in Adapted
  /\ caller' = [caller EXCEPT ![c] =
       IF c \in cancelled THEN [@ EXCEPT !.at = "failing", !.class = "cancelled"]
                          ELSE [@ EXCEPT !.at = "sent"]]
  /\ UNCHANGED <<row, cancelled, cooling, operator, doubted, deserted>>

\* An event of the stream arrives: the lease is renewed, or was lost.
Heartbeat(c) ==
  /\ caller[c].at = "sent"
  /\ caller[c].q \in Streamed
  /\ IF Holds(c)
       THEN /\ row' = [row EXCEPT ![Key(c)].lease = "live"]
            /\ UNCHANGED caller
       ELSE /\ caller' = [caller EXCEPT ![c].at = "failing",
                                        ![c].class = "unknown_outcome"]
            /\ UNCHANGED row
  /\ UNCHANGED <<cancelled, cooling, operator, doubted, deserted>>

Responds(c) ==
  /\ caller[c].at = "sent"
  /\ caller' = [caller EXCEPT ![c].at = "finish"]
  /\ UNCHANGED <<row, cancelled, cooling, operator, doubted, deserted>>

MayRetry(c, class) ==
  /\ class \in SameProviderRetryable
  /\ caller[c].tries + 1 < MaxAttempts
  /\ c \notin cancelled

\* A failure that the same provider is asked about again, after a sleep.
Retry(c) ==
  /\ caller[c].at = "sent"
  /\ \E class \in Classes : MayRetry(c, class)
  /\ caller' = [caller EXCEPT ![c].at = "dispatch", ![c].tries = @ + 1]
  /\ UNCHANGED <<row, cancelled, cooling, operator, doubted, deserted>>

\* A failure that ends the attempts with this entry.
Fails(c) ==
  /\ caller[c].at = "sent"
  /\ \E class \in Classes \ {"reconciled_not_dispatched"} :
       /\ ~ MayRetry(c, class)
       /\ class = "cancelled" => c \in cancelled
       /\ caller' = [caller EXCEPT ![c].at = "failing", ![c].class = class]
  /\ UNCHANGED <<row, cancelled, cooling, operator, doubted, deserted>>

-----------------------------------------------------------------------------
(* Storing the outcome *)

\* _arm_provider_cooldown: a rate limit or an authentication failure cools
\* the provider down, any other failure may (the count is not kept here).
Armed(p, class) ==
  CASE class \in {"rate_limit", "auth_failure"} -> {cooling \cup {p}}
    [] class \in {"cancelled", "unknown_outcome"} -> {cooling}
    [] OTHER -> {cooling, cooling \cup {p}}

FinalState(class) ==
  CASE class = "unknown_outcome" -> "unknown"
    [] class = "cancelled" -> "cancelled"
    [] OTHER -> "failed"

Doubt(k, state) == IF state = "unknown" THEN doubted \cup {k} ELSE doubted

\* The failure is stored and handed to the loop over the chain; without the
\* claim, storing it fails with a text that quotes the identifier.
StoreFailure(c) ==
  LET k == Key(c)
      class == caller[c].class IN
  /\ caller[c].at = "failing"
  /\ cooling' \in Armed(ProviderOf[caller[c].i], class)
  /\ IF Holds(c)
       THEN /\ row' = [row EXCEPT ![k] = Settled(k, FinalState(class), class)]
            /\ doubted' = Doubt(k, FinalState(class))
            /\ caller' = [caller EXCEPT ![c] =
                            GoOn(c, class, class = "unknown_outcome")]
       ELSE /\ caller' = [caller EXCEPT ![c] = GoOn(c, ClassOfText(k), TRUE)]
            /\ UNCHANGED <<row, doubted>>
  /\ UNCHANGED <<cancelled, operator, deserted>>

\* One transaction stores the artifact, the state and the usage record.
StoreAnswer(c) ==
  LET k == Key(c) IN
  /\ caller[c].at = "finish"
  /\ cooling' = cooling \ {ProviderOf[caller[c].i]}
  /\ Holds(c)
  /\ \E usage \in {0, 1} :
       row' = [row EXCEPT ![k] =
         [Settled(k, "completed", NoClass) EXCEPT
            !.answer = caller[c].token, !.charged = @ + usage]]
  /\ caller' = [caller EXCEPT ![c].at = "answered"]
  /\ UNCHANGED <<cancelled, operator, doubted, deserted>>

\* That transaction fails and is rolled back: always when the claim is lost,
\* and at any time for the database's own reasons.
StoreAnswerFails(c) ==
  /\ caller[c].at = "finish"
  /\ cooling' = cooling \ {ProviderOf[caller[c].i]}
  /\ caller' = [caller EXCEPT ![c].at = "unfinal"]
  /\ UNCHANGED <<row, cancelled, operator, doubted, deserted>>

\* The answer is lost: the outcome is recorded as unknown if the claim is held.
MarkUnknown(c) ==
  LET k == Key(c) IN
  /\ caller[c].at = "unfinal"
  /\ IF Holds(c)
       THEN /\ row' = [row EXCEPT ![k] =
                         Settled(k, "unknown", "unknown_outcome")]
            /\ doubted' = doubted \cup {k}
       ELSE UNCHANGED <<row, doubted>>
  /\ caller' = [caller EXCEPT ![c] = GoOn(c, "invalid_request", TRUE)]
  /\ UNCHANGED <<cancelled, cooling, operator, deserted>>

Return(c) ==
  /\ caller[c].at \in {"answered", "raised"}
  /\ caller' = [caller EXCEPT ![c] = NoCall]
  /\ cancelled' = cancelled \ {c}
  /\ UNCHANGED <<row, cooling, operator, doubted, deserted>>

-----------------------------------------------------------------------------
(* Everybody else *)

\* Somebody sets the cancel_event of a call.
Cancel(c) ==
  /\ caller[c].at # "idle"
  /\ c \notin cancelled
  /\ cancelled' = cancelled \cup {c}
  /\ UNCHANGED <<row, caller, cooling, operator, doubted, deserted>>

\* The thread or its process dies; so does a write of a final state that fails.
Crash(c) ==
  /\ caller[c].at # "idle"
  /\ deserted' = IF row[Key(c)].state \in {"pending", "streaming"}
                   THEN deserted \cup {Key(c)} ELSE deserted
  /\ caller' = [caller EXCEPT ![c] = NoCall]
  /\ cancelled' = cancelled \ {c}
  /\ UNCHANGED <<row, cooling, operator, doubted>>

LeaseLapses ==
  /\ \E k \in Keys :
       /\ row[k].lease = "live"
       /\ row' = [row EXCEPT ![k].lease = "expired"]
  /\ UNCHANGED <<caller, cancelled, cooling, operator, doubted, deserted>>

CooldownEnds ==
  /\ \E p \in cooling : cooling' = cooling \ {p}
  /\ UNCHANGED <<row, caller, cancelled, operator, doubted, deserted>>

Lapsed == {k \in Keys : row[k].state = "streaming" /\ row[k].lease = "expired"}

\* recover_stale_provider_requests, at the start of some process.
Recover ==
  /\ Lapsed # {}
  /\ row' = [k \in Keys |-> IF k \in Lapsed
                              THEN [row[k] EXCEPT !.state = "unknown",
                                                  !.class = "unknown_outcome",
                                                  !.token = 0,
                                                  !.lease = "none"]
                              ELSE row[k]]
  /\ doubted' = doubted \cup Lapsed
  /\ UNCHANGED <<caller, cancelled, cooling, operator, deserted>>

\* reconcile_provider_request selects a row that is unknown.  The resolution
\* confirmed_dispatched changes the message alone and is left out ...
BeginReconcile(o) ==
  /\ operator[o].at = "idle"
  /\ \E k \in Keys :
       /\ row[k].state = "unknown"
       /\ operator' = [operator EXCEPT ![o] = [at |-> "decided", key |-> k]]
  /\ UNCHANGED <<row, caller, cancelled, cooling, doubted, deserted>>

\* ... and then updates it by its identifier, whatever it is by then.
CommitReconcile(o) ==
  /\ operator[o].at = "decided"
  /\ row' = [row EXCEPT ![operator[o].key].state = "failed",
                         ![operator[o].key].class = "reconciled_not_dispatched"]
  /\ operator' = [operator EXCEPT ![o] = NoDecision]
  /\ UNCHANGED <<caller, cancelled, cooling, doubted, deserted>>

-----------------------------------------------------------------------------

CallStep(c) ==
  \/ Call(c) \/ StopBefore(c) \/ SkipEntry(c) \/ Lookup(c) \/ Insert(c)
  \/ Claim(c) \/ NoAdapter(c) \/ Send(c) \/ Heartbeat(c) \/ Responds(c)
  \/ Retry(c) \/ Fails(c) \/ StoreFailure(c) \/ StoreAnswer(c)
  \/ StoreAnswerFails(c) \/ MarkUnknown(c) \/ Return(c)

Next ==
  \/ \E c \in Callers : CallStep(c) \/ Cancel(c) \/ Crash(c)
  \/ LeaseLapses \/ CooldownEnds \/ Recover
  \/ \E o \in Operators : BeginReconcile(o) \/ CommitReconcile(o)

Spec == Init /\ [][Next]_vars

-----------------------------------------------------------------------------
(* Properties *)

TypeOK ==
  /\ row \in [Keys -> Row]
  /\ caller \in [Callers -> Busy \cup {NoCall}]
  /\ cancelled \subseteq Callers
  /\ cooling \subseteq Providers
  /\ operator \in [Operators ->
       {NoDecision} \cup [at : {"decided"}, key : Keys]]
  /\ doubted \subseteq Keys
  /\ deserted \subseteq Keys

Sending(c) == caller[c].at \in {"dispatch", "sent"}

\* One request is with a provider through two calls at once only after an
\* earlier outcome was declared unknown: lookups, inserts and claims of several
\* threads, retries and lapsed leases never send it twice by themselves.
OneSender ==
  \A c, d \in Callers :
    /\ caller[c].at # "idle" /\ caller[d].at # "idle"
    /\ c # d /\ Sending(c) /\ Sending(d) /\ Key(c) = Key(d)
    => Key(c) \in doubted

\* The answer that is stored is the one to the newest claim: a call that lost
\* its claim, and comes back late, never stores its own over it.
NewestAnswer ==
  \A k \in Keys : row[k].state = "completed" => row[k].answer = row[k].claims

\* A request is charged at most once, and only if its answer is stored.
ChargedOnce ==
  \A k \in Keys :
    /\ row[k].charged <= 1
    /\ row[k].charged = 1 => row[k].state = "completed"

\* What a call returned is what everybody who asks again will be given.
SameAnswer ==
  \A c \in Callers :
    caller[c].at = "answered" =>
      /\ row[Key(c)].state = "completed"
      /\ row[Key(c)].answer = caller[c].token

\* No exit of send_request leaves its row pending or in flight: only a thread
\* that died does.
NothingLeftOpen ==
  \A k \in Keys :
    row[k].state \in {"pending", "streaming"} =>
      \/ k \in deserted
      \/ \E c \in Callers :
           /\ caller[c].at \in {"claim", "dispatch", "sent", "failing",
                                "finish", "unfinal"}
           /\ Key(c) = k

\* A fallback never follows an uncertain outcome: once a call met an entry
\* whose outcome is not known, it tries no other.
NoBlindFallback ==
  \A c \in Callers :
    caller[c].at \notin {"idle", "raised"} => ~ caller[c].doubt

\* A stored answer is never changed nor lost.
AnswerKept ==
  [][\A k \in Keys : row[k].state = "completed" => row'[k] = row[k]]_vars
=============================================================================
