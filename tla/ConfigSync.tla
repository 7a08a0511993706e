----------------------------- MODULE ConfigSync -----------------------------
(***************************************************************************)
(* How config.yaml becomes a wired process (app/config_sync.py).  The file *)
(* names the two credentials, the provider's key and the bot's token, by   *)
(* the id of a row in the encrypted store of some database.  A boot loads  *)
(* the file once, or makes one from the environment, and goes through its  *)
(* copy stage by stage: a reference that does not resolve in the database  *)
(* the engine is using is replaced from the environment, the file is saved *)
(* at once, adapters are registered and bindings written.  Commands load   *)
(* and save the same file from processes of their own; nothing locks it    *)
(* between the two.  A boot may die at any step.                           *)
(***************************************************************************)
EXTENDS Naturals, Sequences, FiniteSets

CONSTANTS
  Databases,   \* the files the engine may find itself on
  Groups,      \* chats the configuration may list
  Keys,        \* versions of ZERO_SECRET_KEY
  None,
  Env,         \* a reference "ENV:<variable>", which the bootstrap writes
  MaxMoves,    \* bound: acts of people and of the environment
  MaxFaults    \* bound: boots that die and saves that fail

ASSUME ConfigAssumption ==
  /\ None \notin Databases \cup Groups /\ None # Env
  /\ {None, Env} \cap Nat = {}
  /\ {MaxMoves, MaxFaults} \subseteq Nat

\* A provider's API key and the bot's token: each has a fixed name in the store.
Credentials == {"key", "token"}

VARIABLES
  secrets,   \* the rows of the encrypted stores: secret_references
  engine,    \* the database the next process opens (ZERO_DATABASE_URL)
  key,       \* ZERO_SECRET_KEY
  env,       \* the credentials exported to the next process
  session,   \* telegram_mode = "user_session"
  file,      \* config.yaml
  bindings,  \* interface_bindings by database and chat
  boot,      \* the server process
  command,   \* a management command under way
  moves, faults

configVars == <<secrets, engine, key, env, session, file, bindings, boot, command, moves, faults>>

-----------------------------------------------------------------------------
(* The file and the store. *)

NoFile == [ref |-> <<>>, groups |-> {}, owner |-> None]
EmptyConfig == [ref |-> [c \in Credentials |-> None], groups |-> {}, owner |-> None]

\* A missing and an empty file both load as the defaults.
Load == IF file = NoFile THEN EmptyConfig ELSE file

Row(db, c) == {i \in DOMAIN secrets : secrets[i].db = db /\ secrets[i].name = c}

\* resolve_value: the row is in this database, not revoked, and written with this key.
Resolves(ref) ==
  /\ ref \in DOMAIN secrets
  /\ secrets[ref].db = engine /\ ~secrets[ref].revoked /\ secrets[ref].key = key

\* store: UNIQUE (project, name) counts revoked and undecipherable rows too.
NameFree(c) == Row(engine, c) = {}

Store(c) == secrets' = Append(secrets, [db |-> engine, name |-> c, revoked |-> FALSE, key |-> key])

Fault == faults < MaxFaults /\ faults' = faults + 1

-----------------------------------------------------------------------------
(* A boot.  "cfg" is its copy of the file, "loaded" what it read. *)

Off == [at |-> "down", cfg |-> NoFile, loaded |-> NoFile, healing |-> None, tried |-> {},
        bot |-> None, adapter |-> FALSE, planner |-> FALSE, disturbed |-> FALSE]

Goto(at) == boot' = [boot EXCEPT !.at = at]

\* The boot survives a save that fails.
Save(cfg, then, otherwise) ==
  \/ file' = cfg /\ boot' = then /\ UNCHANGED faults
  \/ UNCHANGED file /\ Fault /\ boot' = [otherwise EXCEPT !.disturbed = TRUE]

\* _bootstrap_config_from_env: there is no file and there are credentials.  The
\* file is opened for writing before it is written.
Bootstrap ==
  /\ boot.at = "down" /\ file = NoFile /\ env # {}
  /\ \E gs \in {{}, Groups} :
       \/ /\ file' = [ref |-> [c \in Credentials |-> IF c \in env THEN Env ELSE None],
                      groups |-> gs, owner |-> None]
          /\ UNCHANGED faults
       \/ Fault /\ file' = EmptyConfig
  /\ UNCHANGED <<secrets, engine, key, env, session, bindings, boot, command, moves>>

LoadConfig ==
  /\ boot.at = "down" /\ file # NoFile
  /\ boot' = [Off EXCEPT !.at = "sentinels", !.cfg = Load, !.loaded = Load]
  /\ UNCHANGED <<secrets, engine, key, env, session, file, bindings, command, moves, faults>>

\* _resolve_env_sentinel_refs: the key before the token, one save at the end.
Pending == {c \in Credentials : boot.cfg.ref[c] = Env /\ c \in env} \ boot.tried

HasSentinels == \E c \in Credentials : boot.loaded.ref[c] = Env

ResolveSentinel ==
  /\ boot.at = "sentinels" /\ Pending # {}
  /\ boot' = [boot EXCEPT !.at = "look", !.healing = IF "key" \in Pending THEN "key" ELSE "token"]
  /\ UNCHANGED <<secrets, engine, key, env, session, file, bindings, command, moves, faults>>

KeepSentinels ==
  /\ boot.at = "sentinels" /\ Pending = {}
  /\ LET next == [boot EXCEPT !.at = "owner", !.tried = {}] IN
     IF HasSentinels THEN Save(boot.cfg, next, next) ELSE boot' = next /\ UNCHANGED <<file, faults>>
  /\ UNCHANGED <<secrets, engine, key, env, session, bindings, command, moves>>

-----------------------------------------------------------------------------
(* _recover_secret_from_env, called for a sentinel and for a reference that *)
(* does not resolve. *)

\* A recovery that only ever stores a fresh row.
ReusableNever(c) == {}

\* A row that an earlier recovery left and that still resolves is used again.
Reusable(c) == {i \in Row(engine, c) : Resolves(i)}

\* Where the caller goes on: with the new reference or without one.
Healed(ref) ==
  LET c == boot.healing
      sentinel == boot.loaded.ref[c] = Env /\ boot.cfg.ref[c] = Env /\ c \notin boot.tried
  IN  boot' = [boot EXCEPT
        !.healing = None, !.tried = @ \cup {c},
        !.cfg.ref[c] = IF ref = None THEN @ ELSE ref,
        !.at = CASE sentinel -> "sentinels"
                 [] ~sentinel /\ ref = None -> IF c = "key" THEN "bot" ELSE "planner"
                 [] ~sentinel /\ ref # None -> IF c = "key" THEN "keep_key" ELSE "keep_token"]

Reuse ==
  /\ boot.at = "look" /\ Reusable(boot.healing) # {}
  /\ \E i \in Reusable(boot.healing) : Healed(i)
  /\ UNCHANGED <<secrets, engine, key, env, session, file, bindings, command, moves, faults>>

NothingToReuse ==
  /\ boot.at = "look" /\ Reusable(boot.healing) = {}
  /\ Goto("store")
  /\ UNCHANGED <<secrets, engine, key, env, session, file, bindings, command, moves, faults>>

StoreRecovered ==
  /\ boot.at = "store"
  /\ IF NameFree(boot.healing)
     THEN Store(boot.healing) /\ Healed(Len(secrets) + 1)
     ELSE Healed(None) /\ UNCHANGED secrets
  /\ UNCHANGED <<engine, key, env, session, file, bindings, command, moves, faults>>

-----------------------------------------------------------------------------
(* The stages after the sentinels. *)

\* The project of this database is written into the file when another is named there.
KeepOwner ==
  /\ boot.at = "owner"
  /\ LET next == [boot EXCEPT !.at = "provider", !.cfg.owner = engine] IN
     IF boot.cfg.owner # engine THEN Save(next.cfg, next, next)
                                ELSE boot' = next /\ UNCHANGED <<file, faults>>
  /\ UNCHANGED <<secrets, engine, key, env, session, bindings, command, moves>>

SyncProvider ==
  LET ref == boot.cfg.ref["key"] IN
  /\ boot.at = "provider"
  /\ boot' = IF Resolves(ref) THEN [boot EXCEPT !.at = "bot", !.adapter = TRUE]
             ELSE IF ref # None /\ "key" \in env THEN [boot EXCEPT !.at = "look", !.healing = "key", !.tried = {"key"}]
             ELSE [boot EXCEPT !.at = "bot"]
  /\ UNCHANGED <<secrets, engine, key, env, session, file, bindings, command, moves, faults>>

\* A key that was recovered but could not be saved is not used.
KeepKey ==
  /\ boot.at = "keep_key"
  /\ Save(boot.cfg, [boot EXCEPT !.at = "bot", !.adapter = TRUE], [boot EXCEPT !.at = "bot"])
  /\ UNCHANGED <<secrets, engine, key, env, session, bindings, command, moves>>

SyncBot ==
  LET ref == boot.cfg.ref["token"] IN
  /\ boot.at = "bot"
  /\ boot' = IF session THEN [boot EXCEPT !.at = "bindings"]
             ELSE IF ref = None THEN [boot EXCEPT !.at = "planner"]
             ELSE IF Resolves(ref) THEN [boot EXCEPT !.at = "bindings", !.bot = ref]
             ELSE IF "token" \in env
                  THEN [boot EXCEPT !.at = "look", !.healing = "token", !.tried = {"token"}, !.bot = ref]
             ELSE [boot EXCEPT !.at = "planner"]
  /\ UNCHANGED <<secrets, engine, key, env, session, file, bindings, command, moves, faults>>

\* Without the save the bindings are made with the reference that did not resolve.
KeepToken ==
  /\ boot.at = "keep_token"
  /\ Save(boot.cfg, [boot EXCEPT !.at = "bindings", !.bot = boot.cfg.ref["token"]],
                    [boot EXCEPT !.at = "bindings"])
  /\ UNCHANGED <<secrets, engine, key, env, session, bindings, command, moves>>

\* A binding that only drains the bot's updates stands in for missing groups.
Targets == IF boot.cfg.groups = {} THEN {"0"} ELSE boot.cfg.groups

Absent == [enabled |-> FALSE, ref |-> 0]

\* A user session enables what it finds; a bot also fills in a missing reference.
Bound(b) ==
  IF b = Absent THEN [enabled |-> TRUE, ref |-> boot.bot]
  ELSE [enabled |-> TRUE, ref |-> IF b.ref = None /\ ~session THEN boot.bot ELSE b.ref]

Unbound == {g \in Targets : Bound(bindings[engine][g]) # bindings[engine][g]}

Bind(g) ==
  /\ boot.at = "bindings" /\ g \in Unbound
  /\ bindings' = [bindings EXCEPT ![engine][g] = Bound(@)]
  /\ UNCHANGED <<secrets, engine, key, env, session, file, boot, command, moves, faults>>

BindingsDone ==
  /\ boot.at = "bindings" /\ Unbound = {}
  /\ Goto("planner")
  /\ UNCHANGED <<secrets, engine, key, env, session, file, bindings, command, moves, faults>>

\* _sync_planner: an adapter from the file or, made by build_services, from the environment.
SyncPlanner ==
  /\ boot.at = "planner"
  /\ boot' = [boot EXCEPT !.at = "up", !.planner = boot.adapter \/ "key" \in env]
  /\ UNCHANGED <<secrets, engine, key, env, session, file, bindings, command, moves, faults>>

Stop ==
  /\ boot.at = "up" /\ boot' = Off
  /\ UNCHANGED <<secrets, engine, key, env, session, file, bindings, command, moves, faults>>

BootDies ==
  /\ boot.at \notin {"down", "up"} /\ Fault /\ boot' = Off
  /\ UNCHANGED <<secrets, engine, key, env, session, file, bindings, command, moves>>

-----------------------------------------------------------------------------
(* People at the command line, and the environment of the next start. *)

Move == moves < MaxMoves /\ moves' = moves + 1
Meddle == boot' = [boot EXCEPT !.disturbed = (boot.at # "down")]

Idle == [at |-> "idle", cfg |-> NoFile, what |-> None]

\* "telegram add-bot" and "providers add" load, store the secret and save what they loaded.
AddCredential(c) ==
  /\ command = Idle /\ Move
  /\ command' = [at |-> "loaded", cfg |-> Load, what |-> c]
  /\ UNCHANGED <<secrets, engine, key, env, session, file, bindings, boot, faults>>

\* A name that is taken ends the command with an error.
StoreCredential ==
  /\ command.at = "loaded" /\ command.what \in Credentials
  /\ IF NameFree(command.what)
     THEN /\ Store(command.what) /\ Meddle
          /\ command' = [command EXCEPT !.at = "stored", !.cfg.ref[command.what] = Len(secrets) + 1,
                                        !.cfg.owner = IF command.what = "token" THEN engine ELSE @]
     ELSE command' = Idle /\ UNCHANGED <<secrets, boot>>
  /\ UNCHANGED <<engine, key, env, session, file, bindings, moves, faults>>

\* The wizard stores the secret as it is typed, and loads the file when it commits.
WizardStores(c) ==
  /\ command = Idle /\ Move /\ NameFree(c)
  /\ Store(c) /\ Meddle
  /\ command' = [at |-> "answered", cfg |-> [EmptyConfig EXCEPT !.ref[c] = Len(secrets) + 1], what |-> c]
  /\ UNCHANGED <<engine, key, env, session, file, bindings, faults>>

\* _build_config, with the groups the wizard was given, if any.
WizardCommits(gs) ==
  /\ command.at = "answered"
  /\ command' = [command EXCEPT !.at = "stored",
       !.cfg = [Load EXCEPT !.ref[command.what] = command.cfg.ref[command.what],
                            !.groups = IF gs = {} THEN @ ELSE gs]]
  /\ UNCHANGED <<secrets, engine, key, env, session, file, bindings, boot, moves, faults>>

\* "telegram groups add", "enable" and "disable".
ListGroup(g) ==
  /\ command = Idle /\ Move
  /\ command' = [at |-> "stored", what |-> None,
                 cfg |-> [Load EXCEPT !.groups = IF g \in @ THEN @ \ {g} ELSE @ \cup {g}]]
  /\ UNCHANGED <<secrets, engine, key, env, session, file, bindings, boot, faults>>

\* The command saves what it loaded and changed, or was interrupted before.
CommandSaves ==
  /\ command.at = "stored" /\ command' = Idle
  /\ \/ file' = command.cfg /\ Meddle
     \/ UNCHANGED <<file, boot>>
  /\ UNCHANGED <<secrets, engine, key, env, session, bindings, moves, faults>>

Revoke(i) ==
  /\ Move /\ ~secrets[i].revoked
  /\ secrets' = [secrets EXCEPT ![i].revoked = TRUE] /\ Meddle
  /\ UNCHANGED <<engine, key, env, session, file, bindings, command, faults>>

\* "doctor --fix": the one database that holds every reference, usable or not.
Refs == {file.ref[c] : c \in DOMAIN file.ref} \ {None}
HoldingRefs == {db \in Databases : \A r \in Refs : r \in DOMAIN secrets /\ secrets[r].db = db}

DoctorFix ==
  /\ boot.at = "down" /\ command = Idle /\ Move
  /\ Refs # {} /\ \E r \in Refs : ~Resolves(r)
  /\ Cardinality(HoldingRefs) = 1 /\ engine' \in HoldingRefs
  /\ UNCHANGED <<secrets, key, env, session, file, bindings, boot, command, faults>>

\* Started from another directory, with another key, environment or mode.
Environment ==
  /\ boot.at = "down" /\ command = Idle /\ Move
  /\ \/ engine' \in Databases \ {engine} /\ UNCHANGED <<key, env, session>>
     \/ key' \in Keys \ {key} /\ UNCHANGED <<engine, env, session>>
     \/ env' \in (SUBSET Credentials) \ {env} /\ UNCHANGED <<engine, key, session>>
     \/ session' = ~session /\ UNCHANGED <<engine, key, env>>
  /\ UNCHANGED <<secrets, file, bindings, boot, command, faults>>

-----------------------------------------------------------------------------
ConfigInit ==
  /\ secrets = <<>> /\ file = NoFile /\ boot = Off /\ command = Idle
  /\ engine \in Databases /\ key \in Keys /\ env \in {{}, Credentials} /\ session = FALSE
  /\ bindings = [db \in Databases |-> [g \in Groups \cup {"0"} |-> Absent]]
  /\ moves = 0 /\ faults = 0

BootStep ==
  \/ Bootstrap \/ LoadConfig \/ ResolveSentinel \/ KeepSentinels
  \/ Reuse \/ NothingToReuse \/ StoreRecovered
  \/ KeepOwner \/ SyncProvider \/ KeepKey \/ SyncBot \/ KeepToken
  \/ \E g \in Groups \cup {"0"} : Bind(g)
  \/ BindingsDone \/ SyncPlanner \/ Stop \/ BootDies

PeopleStep ==
  \/ \E c \in Credentials : AddCredential(c) \/ WizardStores(c)
  \/ \E gs \in SUBSET Groups : WizardCommits(gs)
  \/ \E g \in Groups : ListGroup(g)
  \/ StoreCredential \/ CommandSaves \/ DoctorFix \/ Environment
  \/ \E i \in DOMAIN secrets : Revoke(i)

ConfigNext == BootStep \/ PeopleStep

-----------------------------------------------------------------------------
(* Properties *)

\* What a boot can use: a reference that resolves, or the exported credential when
\* its name is free or held by a row that resolves.
Usable(c) ==
  LET ref == boot.loaded.ref[c] IN
  /\ ref # None
  /\ \/ Resolves(ref)
     \/ c \in env /\ \A i \in Row(engine, c) : Resolves(i)

\* Whatever an earlier boot that died left behind, a boot that ends undisturbed
\* wires what it can use: every group it read has an enabled binding, which names
\* a credential unless an unsaved repair lost it, the file names rows that
\* resolve, and the planner has an adapter.  (_resolve_env_sentinel_refs:
\* "idempotent: existing resolving rows are reused".)
Wired ==
  boot.at = "up" /\ ~boot.disturbed =>
    /\ session \/ Usable("token") =>
         \A g \in boot.loaded.groups : bindings[engine][g].enabled
    /\ Usable("token") /\ ~session => Resolves(boot.cfg.ref["token"])
    /\ Usable("key") => boot.planner /\ Resolves(boot.cfg.ref["key"])
    /\ \A c \in Credentials : Usable(c) /\ ~(c = "token" /\ session) => file.ref[c] = boot.cfg.ref[c]

=============================================================================
