---------------------------- MODULE StorageProofs ----------------------------
(***************************************************************************)
(* What stays on the host, proved for any number of threads, processes,    *)
(* calls and crashes: the modules that MCStorage composes for TLC.         *)
(***************************************************************************)
EXTENDS Database, ContextVersions, Artifacts, Migrations, Backups, ServiceProcess, ConfigSync,
        FiniteSetTheorems, SequenceTheorems, TLAPS

-----------------------------------------------------------------------------
(***************************************************************************)
(* Migrations.  Whoever is behind the fence is alone there and has looked  *)
(* at the ledger since, so the file it runs is the next one.               *)
(***************************************************************************)
MigrationsSpec == MigrationsInit /\ [][MigrationsNext]_migrationVars

Behind == {"fenced", "running", "ran"}
Under == Behind \cup {"files", "up"}

StarterState == [pc : Under \cup {"off", "refused"}, applied : SUBSET Nat, file : Nat \ {0}]

MigrationsTyped ==
  /\ schema \in Seq(Nat) /\ ledger \subseteq Nat /\ failed \in Nat
  /\ starter \in [Starters -> StarterState]

\* The schema is a prefix of the files, and the ledger names just that prefix.
Prefix ==
  /\ schema = [i \in 1 .. Len(schema) |-> i]
  /\ ledger = 1 .. Len(schema)

\* What a starter has read or passed is in the ledger.
ReadIsApplied ==
  \A p \in Starters :
    /\ starter[p].applied \subseteq ledger
    /\ starter[p].file <= Len(schema) + 1
    /\ starter[p].pc = "up" => Len(schema) >= ShippedBy[p]

\* One at a time behind the fence, where the ledger cannot change.
Fenced ==
  /\ \A p, q \in Starters : starter[p].pc \in Behind /\ starter[q].pc \in Behind => p = q
  /\ \A p \in Starters : starter[p].pc \in {"running", "ran"} => starter[p].file \notin ledger
  /\ \A p \in Starters : starter[p].pc = "ran" => pending = <<starter[p].file>>

MigrationInv == MigrationsTyped /\ Prefix /\ ReadIsApplied /\ Fenced

LEMMA MigrationsBegin == MigrationsInit => MigrationInv
  BY MigrationLimits DEF MigrationsInit, MigrationInv, MigrationsTyped, Prefix, ReadIsApplied, Fenced,
     StarterState, Fresh, Under, Behind

\* Appending the next number to a prefix gives the longer prefix.
LEMMA LongerPrefix ==
  ASSUME NEW s \in Seq(Nat), s = [i \in 1 .. Len(s) |-> i], NEW n, n = Len(s) + 1
  PROVE  /\ s \o <<n>> \in Seq(Nat) /\ Len(s \o <<n>>) = n
         /\ s \o <<n>> = [i \in 1 .. n |-> i]
<1>1. Len(s) \in Nat /\ n \in Nat /\ s \o <<n>> \in Seq(Nat) /\ Len(s \o <<n>>) = n
  OBVIOUS
<1>2. \A i \in 1 .. n : (s \o <<n>>)[i] = i
  <2>1. \A i \in 1 .. Len(s) : s[i] = i
    OBVIOUS
  <2> QED
    BY <1>1, <2>1
<1> QED
  BY <1>1, <1>2

\* How a step moves one starter, in the two forms the actions use.
LEMMA StarterMoves ==
  ASSUME NEW f \in [Starters -> StarterState], NEW p \in Starters,
         NEW pc \in Under \cup {"off", "refused"}
  PROVE  /\ [f EXCEPT ![p].pc = pc] \in [Starters -> StarterState]
         /\ \A n \in Nat \ {0} : [f EXCEPT ![p].pc = pc, ![p].file = n] \in [Starters -> StarterState]
<1>1. f[p] \in StarterState
  OBVIOUS
<1>2. [f[p] EXCEPT !.pc = pc] \in StarterState
  BY <1>1 DEF StarterState
<1>3. ASSUME NEW n \in Nat \ {0} PROVE [f[p] EXCEPT !.pc = pc, !.file = n] \in StarterState
  BY <1>1 DEF StarterState
<1> QED
  BY <1>2, <1>3

LEMMA FileNumbers == MigrationsTyped => \A p \in Starters : starter[p].file \in Nat \ {0}
  BY DEF MigrationsTyped, StarterState

LEMMA MigrationsStep == MigrationInv /\ [MigrationsNext]_migrationVars => MigrationInv'
<1> SUFFICES ASSUME MigrationInv, [MigrationsNext]_migrationVars PROVE MigrationInv'
  OBVIOUS
<1>0. MigrationsTyped /\ Prefix /\ ReadIsApplied /\ Fenced /\ Len(schema) \in Nat
  BY DEF MigrationInv, MigrationsTyped
\* What a step that leaves schema and ledger alone has to show.
<1>a. ASSUME UNCHANGED <<schema, ledger>>, failed' \in Nat, starter' \in [Starters -> StarterState],
             ReadIsApplied', Fenced'
      PROVE  MigrationInv'
  BY <1>0, <1>a DEF MigrationInv, MigrationsTyped, Prefix
<1>1. ASSUME NEW p \in Starters, ReadLedger(p) PROVE MigrationInv'
  <2> DEFINE new == starter'[p]
  <2>1. /\ UNCHANGED <<schema, ledger, failed, pending>> /\ starter' = [starter EXCEPT ![p] = new]
        /\ starter[p].pc = "off" /\ new.pc \in {"refused", "files"} /\ new.applied \subseteq ledger /\ new.file = 1
        /\ new \in StarterState
    <3>1. CASE \E f \in ledger : f > ShippedBy[p]
      BY <1>0, <1>1, <3>1 DEF ReadLedger, Fresh, MigrationsTyped, StarterState, Under, Behind
    <3>2. CASE ~ \E f \in ledger : f > ShippedBy[p]
      BY <1>0, <1>1, <3>2 DEF ReadLedger, MigrationsTyped, StarterState, Under, Behind
    <3> QED
      BY <3>1, <3>2
  <2> HIDE DEF new
  <2>2. starter' \in [Starters -> StarterState]
    BY <1>0, <2>1 DEF MigrationsTyped
  <2>3. ReadIsApplied'
    BY <1>0, <2>1 DEF ReadIsApplied, MigrationsTyped
  <2>4. Fenced'
    BY <1>0, <2>1 DEF Fenced, MigrationsTyped, Behind
  <2> QED
    BY <1>0, <1>a, <2>1, <2>2, <2>3, <2>4 DEF MigrationsTyped
\* The step to the next file, of one that is applied.
<1>b. ASSUME NEW p \in Starters, starter[p].file \in ledger, NextFile(p), UNCHANGED <<schema, ledger, failed, pending>>
      PROVE  MigrationInv'
  <2>1. /\ starter' = [starter EXCEPT ![p].pc = "files", ![p].file = starter[p].file + 1]
        /\ starter[p].file <= Len(schema)
    BY <1>0, <1>b DEF NextFile, Prefix
  <2>2. starter' \in [Starters -> StarterState]
    <3>1. starter[p].file + 1 \in Nat \ {0} /\ "files" \in Under \cup {"off", "refused"}
      BY <1>0, FileNumbers DEF Under
    <3> QED
      BY <1>0, <2>1, <3>1, StarterMoves DEF MigrationsTyped
  <2>3. ReadIsApplied'
    BY <1>0, <1>b, <2>1, FileNumbers DEF ReadIsApplied, MigrationsTyped
  <2>4. Fenced'
    BY <1>0, <1>b, <2>1 DEF Fenced, MigrationsTyped, Behind
  <2> QED
    BY <1>0, <1>a, <1>b, <2>2, <2>3, <2>4 DEF MigrationsTyped
\* The step of one starter to where it has neither read nor passed anything.
<1>c. ASSUME NEW p \in Starters, NEW pc \in Under, Steps(p, pc), UNCHANGED <<schema, ledger, failed>>, Fenced',
             pc = "up" => Len(schema) >= ShippedBy[p]
      PROVE  MigrationInv'
  <2>1. starter' \in [Starters -> StarterState]
    BY <1>0, <1>c, StarterMoves DEF Steps, MigrationsTyped
  <2>2. ReadIsApplied'
    BY <1>0, <1>c DEF ReadIsApplied, Steps, MigrationsTyped
  <2> QED
    BY <1>0, <1>a, <1>c, <2>1, <2>2 DEF MigrationsTyped
<1>2. ASSUME NEW p \in Starters, Skip(p) PROVE MigrationInv'
  BY <1>0, <1>2, <1>b DEF Skip, ReadIsApplied
<1>3. ASSUME NEW p \in Starters, IsUp(p) PROVE MigrationInv'
  <2>1. Len(schema) >= ShippedBy[p]
    BY <1>0, <1>3, MigrationLimits, FileNumbers DEF IsUp, ReadIsApplied
  <2>2. Fenced'
    BY <1>0, <1>3 DEF IsUp, Steps, Fenced, MigrationsTyped, Behind
  <2> QED
    BY <1>3, <1>c, <2>1, <2>2 DEF IsUp, Under
<1>4. ASSUME NEW p \in Starters, TakeFence(p) PROVE MigrationInv'
  <2>1. Fenced'
    BY <1>0, <1>4 DEF TakeFence, Unlocked, Steps, Fenced, MigrationsTyped, Behind
  <2> QED
    BY <1>4, <1>c, <2>1 DEF TakeFence, Under, Behind
<1>5. ASSUME NEW p \in Starters, Reread(p) PROVE MigrationInv'
  <2>1. CASE starter[p].file \in ledger
    BY <1>5, <1>b, <2>1 DEF Reread, Recorded
  <2>2. CASE starter[p].file \notin ledger
    <3>1. Steps(p, "running") /\ UNCHANGED <<schema, ledger, pending, failed>> /\ starter[p].pc = "fenced"
      BY <1>5, <2>2 DEF Reread, Recorded
    <3>2. Fenced'
      BY <1>0, <2>2, <3>1 DEF Steps, Fenced, MigrationsTyped, Behind
    <3> QED
      BY <1>c, <3>1, <3>2 DEF Under, Behind
  <2> QED
    BY <2>1, <2>2
<1>6. ASSUME NEW p \in Starters, RunStatements(p) PROVE MigrationInv'
  <2>1. Fenced'
    BY <1>0, <1>6 DEF RunStatements, Steps, Fenced, MigrationsTyped, Behind
  <2> QED
    BY <1>6, <1>c, <2>1 DEF RunStatements, Under, Behind
<1>7. ASSUME NEW p \in Starters, CommitMigration(p) PROVE MigrationInv'
  <2>1. starter[p].file = Len(schema) + 1
    <3>1. starter[p].file \notin 1 .. Len(schema)
      BY <1>0, <1>7 DEF CommitMigration, Prefix, Fenced
    <3>2. starter[p].file <= Len(schema) + 1 /\ starter[p].file \in Nat \ {0}
      BY <1>0, FileNumbers DEF ReadIsApplied
    <3> QED
      BY <1>0, <3>1, <3>2
  <2>2. schema' = schema \o <<Len(schema) + 1>> /\ ledger' = ledger \cup {Len(schema) + 1}
    BY <1>0, <1>7, <2>1 DEF CommitMigration, Fenced
  <2>3. schema' \in Seq(Nat) /\ Len(schema') = Len(schema) + 1 /\ Prefix'
    <3>1. /\ schema' \in Seq(Nat) /\ Len(schema') = Len(schema) + 1
          /\ schema' = [i \in 1 .. Len(schema') |-> i]
      BY <1>0, <2>2, LongerPrefix DEF Prefix, MigrationsTyped
    <3> QED
      BY <1>0, <2>2, <3>1 DEF Prefix
  <2>4. starter' = [starter EXCEPT ![p].pc = "files", ![p].file = Len(schema) + 2]
    BY <1>0, <1>7, <2>1 DEF CommitMigration, NextFile
  <2>5. MigrationsTyped'
    <3>1. starter' \in [Starters -> StarterState]
      <4>1. Len(schema) + 2 \in Nat \ {0} /\ "files" \in Under \cup {"off", "refused"}
        BY <1>0 DEF Under
      <4> QED
        BY <1>0, <2>4, <4>1, StarterMoves DEF MigrationsTyped
    <3>2. ledger' \subseteq Nat
      <4>1. ledger \subseteq Nat /\ Len(schema) + 1 \in Nat
        BY <1>0 DEF MigrationsTyped
      <4> QED
        BY <2>2, <4>1
    <3> QED
      BY <1>0, <1>7, <2>3, <3>1, <3>2 DEF MigrationsTyped, CommitMigration
  <2>6. ReadIsApplied'
    <3>1. ASSUME NEW q \in Starters PROVE starter'[q].file <= Len(schema) + 2
      BY <1>0, <2>4, FileNumbers DEF ReadIsApplied, MigrationsTyped
    <3>2. ASSUME NEW q \in Starters
          PROVE  /\ starter'[q].applied \subseteq ledger'
                 /\ starter'[q].pc = "up" => Len(schema') >= ShippedBy[q]
      <4>1. /\ starter[q].applied \subseteq ledger
            /\ starter[q].pc = "up" => Len(schema) >= ShippedBy[q]
        BY <1>0 DEF ReadIsApplied
      <4>2. starter'[q].applied = starter[q].applied /\ (starter'[q].pc = "up" => starter[q].pc = "up")
        BY <1>0, <2>4 DEF MigrationsTyped
      <4>3. ShippedBy[q] \in Nat
        BY MigrationLimits
      <4> QED
        BY <1>0, <2>2, <2>3, <4>1, <4>2, <4>3
    <3> QED
      BY <1>0, <2>3, <3>1, <3>2 DEF ReadIsApplied
  <2>7. Fenced'
    BY <1>0, <1>7, <2>4 DEF CommitMigration, Fenced, MigrationsTyped, Behind
  <2> QED
    BY <2>3, <2>5, <2>6, <2>7 DEF MigrationInv
<1>8. ASSUME NEW p \in Starters, StartFails(p) PROVE MigrationInv'
  <2>1. starter' = [starter EXCEPT ![p] = Fresh] /\ UNCHANGED <<schema, ledger>> /\ failed' \in Nat
    BY <1>0, <1>8 DEF StartFails, MigrationsTyped
  <2>2. starter' \in [Starters -> StarterState]
    BY <1>0, <2>1 DEF MigrationsTyped, StarterState, Fresh
  <2>3. ReadIsApplied'
    BY <1>0, <2>1 DEF ReadIsApplied, Fresh, MigrationsTyped
  <2>4. \A q \in Starters : starter'[q].pc = "ran" => pending' = <<starter'[q].file>>
    BY <1>0, <1>8, <2>1 DEF StartFails, Fenced, Fresh, MigrationsTyped, Behind
  <2>5. Fenced'
    BY <1>0, <2>1, <2>4 DEF Fenced, Fresh, MigrationsTyped, Behind
  <2> QED
    BY <1>a, <2>1, <2>2, <2>3, <2>5
<1>9. CASE UNCHANGED migrationVars
  BY <1>0, <1>9 DEF migrationVars, MigrationInv, MigrationsTyped, Prefix, ReadIsApplied, Fenced
<1> QED
  BY <1>1, <1>2, <1>3, <1>4, <1>5, <1>6, <1>7, <1>8, <1>9 DEF MigrationsNext

\* However many processes of whatever versions start at once or are killed, every
\* migration takes effect once and in order, and nobody is up on an older schema.
THEOREM EachMigrationOnce == MigrationsSpec => []MigratedOnce
<1>1. MigrationInv => MigratedOnce
  BY DEF MigrationInv, Prefix, ReadIsApplied, MigratedOnce
<1> QED
  BY <1>1, MigrationsBegin, MigrationsStep, PTL DEF MigrationsSpec

-----------------------------------------------------------------------------
(***************************************************************************)
(* The service.  While commands come one after the other, a process of     *)
(* "zero start" that was not told to stop is about to be written to        *)
(* zero.pid, or stands there and no command is about to replace it.        *)
(***************************************************************************)
ServiceSpec == ServiceInit /\ [][ServiceNext]_hostVars

TermState == [pc : {"prompt", "probe", "spawn", "write", "wait", "unlink"}, pid : Pids \cup {NoPid},
              again : BOOLEAN]
ProcessStates == {"unborn", "starting", "serving", "told", "draining", "dead"}

HostTyped ==
  /\ process \in [Pids -> ProcessStates]
  /\ foreground \subseteq Pids /\ pidFile \in Pids \cup {NoPid}
  /\ term \in [Terminals -> TermState]
  /\ orderly \in BOOLEAN

OneCommand == \A t, u \in Terminals : term[t].pc # "prompt" /\ term[u].pc # "prompt" => t = u

Undisturbed == \A t \in Terminals : term[t].pc \notin {"probe", "spawn", "write", "unlink"}

Managed ==
  \A n \in Pids \ foreground : process[n] \in {"starting", "serving"} =>
    \/ \E t \in Terminals : term[t].pc = "write" /\ term[t].pid = n
    \/ pidFile = n /\ Undisturbed

ServiceInv == HostTyped /\ (orderly => OneCommand /\ Managed)

LEMMA ServiceBegins == ServiceInit => ServiceInv
  BY DEF ServiceInit, ServiceInv, HostTyped, OneCommand, Managed, Prompt, TermState, ProcessStates

LEMMA TermMoves ==
  ASSUME term \in [Terminals -> TermState], NEW t \in Terminals
  PROVE  /\ Returns(t) => term' \in [Terminals -> TermState]
         /\ \A pc \in {"prompt", "probe", "spawn", "write", "wait", "unlink"}, n \in Pids \cup {NoPid} :
              /\ TurnsTo(t, pc, n) => term' \in [Terminals -> TermState]
              /\ \A again \in BOOLEAN : Types(t, pc, n, again) => term' \in [Terminals -> TermState]
<1>1. Prompt \in TermState
  BY DEF Prompt, TermState
<1>2. term[t] \in TermState
  OBVIOUS
<1>3. ASSUME NEW pc \in {"prompt", "probe", "spawn", "write", "wait", "unlink"}, NEW n \in Pids \cup {NoPid}
      PROVE  /\ [term[t] EXCEPT !.pc = pc, !.pid = n] \in TermState
             /\ \A again \in BOOLEAN : [pc |-> pc, pid |-> n, again |-> again] \in TermState
  BY <1>2 DEF TermState
<1>4. ASSUME NEW s \in TermState PROVE [term EXCEPT ![t] = s] \in [Terminals -> TermState]
  OBVIOUS
<1>5. ASSUME NEW pc \in {"prompt", "probe", "spawn", "write", "wait", "unlink"}, NEW n \in Pids \cup {NoPid}, TurnsTo(t, pc, n)
      PROVE  term' \in [Terminals -> TermState]
  <2>1. term' = [term EXCEPT ![t] = [term[t] EXCEPT !.pc = pc, !.pid = n]]
    BY <1>5 DEF TurnsTo
  <2> QED
    BY <1>3, <1>4, <2>1
<1>6. Returns(t) => term' \in [Terminals -> TermState]
  BY <1>1, <1>4 DEF Returns
<1>7. ASSUME NEW pc \in {"prompt", "probe", "spawn", "write", "wait", "unlink"}, NEW n \in Pids \cup {NoPid},
             NEW again \in BOOLEAN, Types(t, pc, n, again)
      PROVE  term' \in [Terminals -> TermState]
  <2>1. term' = [term EXCEPT ![t] = [pc |-> pc, pid |-> n, again |-> again]]
    BY <1>7 DEF Types
  <2> QED
    BY <1>3, <1>4, <2>1
<1> QED
  BY <1>5, <1>6, <1>7

LEMMA ServiceTyping == HostTyped /\ [ServiceNext]_hostVars => HostTyped'
<1> SUFFICES ASSUME HostTyped, [ServiceNext]_hostVars PROVE HostTyped'
  OBVIOUS
<1> USE DEF HostTyped
<1>a. NoPid \in Pids \cup {NoPid} /\ {TRUE, FALSE} = BOOLEAN
  OBVIOUS
<1>1. ASSUME NEW t \in Terminals, TypeStart(t) PROVE HostTyped'
  <2>1. term' \in [Terminals -> TermState]
    BY <1>1, <1>a, TermMoves DEF TypeStart
  <2> QED
    BY <1>1, <2>1 DEF TypeStart
<1>2. ASSUME NEW t \in Terminals, ProbePort(t) PROVE HostTyped'
  <2>1. term' \in [Terminals -> TermState]
    BY <1>2, <1>a, TermMoves DEF ProbePort
  <2> QED
    BY <1>2, <2>1 DEF ProbePort
<1>3. ASSUME NEW t \in Terminals, Spawn(t) PROVE HostTyped'
  <2>1. PICK n \in Pids : Turns(n, "starting") /\ TurnsTo(t, "write", n)
    BY <1>3 DEF Spawn
  <2>2. term' \in [Terminals -> TermState]
    BY <2>1, TermMoves
  <2>3. process' \in [Pids -> ProcessStates]
    BY <2>1 DEF Turns, ProcessStates
  <2> QED
    BY <1>3, <2>2, <2>3 DEF Spawn
<1>4. ASSUME NEW t \in Terminals, WritePid(t) PROVE HostTyped'
  <2>1. term[t].pid \in Pids \cup {NoPid}
    BY DEF TermState
  <2>2. term' \in [Terminals -> TermState]
    BY <1>4, <2>1, TermMoves DEF WritePid
  <2> QED
    BY <1>4, <2>1, <2>2 DEF WritePid
<1>5. ASSUME NEW t \in Terminals, Wait(t) PROVE HostTyped'
  BY <1>5, TermMoves DEF Wait
<1>6. ASSUME NEW t \in Terminals, Signal(t) PROVE HostTyped'
  <2>1. Told(pidFile) \in ProcessStates /\ pidFile \in Pids
    BY <1>6 DEF Signal, Told, ProcessStates
  <2>2. process' \in [Pids -> ProcessStates]
    BY <1>6, <2>1 DEF Signal, Turns
  <2>3. term' \in [Terminals -> TermState]
    BY <1>6, <1>a, TermMoves DEF Signal
  <2> QED
    BY <1>6, <2>2, <2>3 DEF Signal
<1>7. ASSUME NEW t \in Terminals, Unlink(t) PROVE HostTyped'
  <2>1. term' \in [Terminals -> TermState]
    BY <1>7, <1>a, TermMoves DEF Unlink
  <2> QED
    BY <1>7, <2>1 DEF Unlink
<1>8. ASSUME NEW t \in Terminals, Serve(t) PROVE HostTyped'
  BY <1>8 DEF Serve, Turns, ProcessStates
<1>9. ASSUME NEW t \in Terminals, CommandIsKilled(t) PROVE HostTyped'
  BY <1>9, TermMoves DEF CommandIsKilled
<1>10. ASSUME NEW n \in Pids, BindPort(n) \/ ClosePort(n) \/ ProcessExits(n) PROVE HostTyped'
  BY <1>10 DEF BindPort, ClosePort, ProcessExits, Turns, ProcessStates
<1>11. CASE UNCHANGED hostVars
  BY <1>11 DEF hostVars
<1> QED
  BY <1>1, <1>2, <1>3, <1>4, <1>5, <1>6, <1>7, <1>8, <1>9, <1>10, <1>11 DEF ServiceNext

LEMMA ServiceSteps == ServiceInv /\ [ServiceNext]_hostVars => ServiceInv'
<1> SUFFICES ASSUME ServiceInv, [ServiceNext]_hostVars, orderly' PROVE OneCommand' /\ Managed'
  BY ServiceTyping DEF ServiceInv
<1>0. orderly /\ HostTyped /\ HostTyped' /\ OneCommand /\ Managed
  BY ServiceTyping DEF ServiceInv, ServiceNext, hostVars, TypeStart, ProbePort, Spawn, WritePid, Wait, Signal, Unlink, Serve,
     CommandIsKilled, BindPort, ClosePort, ProcessExits
<1> USE DEF OneCommand, Managed, Undisturbed, HostTyped
<1>a. \A t \in Terminals : term[t] = Prompt => term[t].pc = "prompt"
  BY DEF Prompt
<1>b. ASSUME NEW t \in Terminals, MayType(t) PROVE \A u \in Terminals : term[u].pc = "prompt"
  BY <1>0, <1>a, <1>b DEF MayType
\* What a command that was typed while prompts were back leaves: it is the only one.
<1>1. ASSUME NEW t \in Terminals, TypeStart(t) PROVE OneCommand' /\ Managed'
  <2>1. \A n \in Pids \ foreground : process[n] \notin {"starting", "serving"}
    BY <1>0, <1>1, <1>b, SpawnBound DEF TypeStart, Running, Lives, Pids, NoPid
  <2>2. \A u \in Terminals \ {t} : term'[u].pc = "prompt"
    BY <1>0, <1>1, <1>b DEF TypeStart, Types
  <2> QED
    BY <1>0, <1>1, <2>1, <2>2 DEF TypeStart
<1>2. ASSUME NEW t \in Terminals, ProbePort(t) \/ Unlink(t) PROVE OneCommand' /\ Managed'
  <2>1. \A n \in Pids \ foreground : process[n] \notin {"starting", "serving"}
    BY <1>0, <1>2 DEF ProbePort, Unlink
  <2>2. \A u \in Terminals \ {t} : term'[u].pc = "prompt"
    BY <1>0, <1>2 DEF ProbePort, Unlink, Returns, TurnsTo, Types
  <2> QED
    BY <1>0, <1>2, <2>1, <2>2 DEF ProbePort, Unlink
<1>3. ASSUME NEW t \in Terminals, Spawn(t) PROVE OneCommand' /\ Managed'
  <2>1. \A n \in Pids \ foreground : process[n] \notin {"starting", "serving"}
    BY <1>0, <1>3 DEF Spawn
  <2>2. PICK n \in Pids : Turns(n, "starting") /\ TurnsTo(t, "write", n)
    BY <1>3 DEF Spawn
  <2>3. \A u \in Terminals \ {t} : term'[u].pc = "prompt"
    BY <1>0, <1>3, <2>2 DEF Spawn, TurnsTo
  <2>4. term'[t].pc = "write" /\ term'[t].pid = n
    BY <1>0, <2>2 DEF TurnsTo, TermState
  <2>5. \A k \in Pids \ foreground : process'[k] \in {"starting", "serving"} => k = n
    BY <1>0, <2>1, <2>2 DEF Turns
  <2> QED
    BY <1>0, <1>3, <2>3, <2>4, <2>5 DEF Spawn
<1>4. ASSUME NEW t \in Terminals, WritePid(t) PROVE OneCommand' /\ Managed'
  <2>1. \A u \in Terminals \ {t} : term'[u].pc = "prompt"
    BY <1>0, <1>4 DEF WritePid, TurnsTo
  <2>2. term'[t].pc = "wait"
    BY <1>0, <1>4 DEF WritePid, TurnsTo, TermState
  <2>3. \A n \in Pids \ foreground : process[n] \in {"starting", "serving"} => n = term[t].pid
    BY <1>0, <1>4 DEF WritePid
  <2> QED
    BY <1>0, <1>4, <2>1, <2>2, <2>3 DEF WritePid
<1>5. ASSUME NEW t \in Terminals, Wait(t) PROVE OneCommand' /\ Managed'
  <2>1. \A u \in Terminals : term'[u].pc = "prompt"
    BY <1>0, <1>5 DEF Wait, Returns, Prompt
  <2>2. \A n \in Pids \ foreground : process[n] \in {"starting", "serving"} => pidFile = n
    BY <1>0, <1>5 DEF Wait
  <2> QED
    BY <1>5, <2>1, <2>2 DEF Wait
<1>6. ASSUME NEW t \in Terminals, Signal(t) PROVE OneCommand' /\ Managed'
  <2>1. \A u \in Terminals \ {t} : term'[u].pc = "prompt"
    BY <1>0, <1>6, <1>b DEF Signal, Types
  <2>2. pidFile \in Pids /\ process' = [process EXCEPT ![pidFile] = Told(pidFile)]
    BY <1>0, <1>6 DEF Signal, Turns
  <2>3. Told(pidFile) \notin {"starting", "serving"}
    BY DEF Told
  <2>4. \A n \in Pids \ foreground : process[n] \in {"starting", "serving"} => pidFile = n
    BY <1>0, <1>6, <1>b DEF Signal
  <2>5. \A n \in Pids \ foreground : process'[n] \notin {"starting", "serving"}
    BY <1>0, <2>2, <2>3, <2>4
  <2> QED
    BY <1>0, <1>6, <2>1, <2>5 DEF Signal
<1>7. ASSUME NEW t \in Terminals, Serve(t) PROVE OneCommand' /\ Managed'
  <2>1. UNCHANGED <<pidFile, term>> /\ OneCommand'
    BY <1>0, <1>7 DEF Serve
  <2>2. \A n \in Pids \ foreground' : n \in Pids \ foreground /\ process'[n] = process[n]
    BY <1>0, <1>7 DEF Serve, Turns
  <2> QED
    BY <1>0, <2>1, <2>2
<1>8. ASSUME NEW n \in Pids, BindPort(n) \/ ClosePort(n) \/ ProcessExits(n) PROVE OneCommand' /\ Managed'
  <2>1. UNCHANGED <<pidFile, term, foreground>> /\ OneCommand'
    BY <1>0, <1>8 DEF BindPort, ClosePort, ProcessExits
  <2>2. \A k \in Pids : process'[k] \in {"starting", "serving"} => process[k] \in {"starting", "serving"}
    BY <1>0, <1>8 DEF BindPort, ClosePort, ProcessExits, Turns
  <2> QED
    BY <1>0, <2>1, <2>2
<1>9. CASE UNCHANGED hostVars
  BY <1>0, <1>9 DEF hostVars
<1>10. ASSUME NEW t \in Terminals, CommandIsKilled(t) PROVE FALSE
  BY <1>0, <1>10 DEF CommandIsKilled
<1> QED
  BY <1>1, <1>2, <1>3, <1>4, <1>5, <1>6, <1>7, <1>8, <1>9, <1>10 DEF ServiceNext

\* Whoever starts, stops, restarts or serves by hand, one command at a time and none
\* killed: no service of "zero start" escapes "zero stop".
THEOREM NoServiceEscapes == ServiceSpec => []NoneUnmanaged
<1>1. ServiceInv => NoneUnmanaged
  BY DEF ServiceInv, HostTyped, Managed, NoneUnmanaged, Prompt
<1> QED
  BY <1>1, ServiceBegins, ServiceSteps, PTL DEF ServiceSpec

-----------------------------------------------------------------------------
(***************************************************************************)
(* Artifacts.  Whoever stores has the file to itself from its look-up on,  *)
(* so what it found or missed is still so when it writes; and a document   *)
(* being removed has left the index before its state changes.              *)
(***************************************************************************)
ArtifactsSpec == ArtifactsInit /\ [][ArtifactsNext]_artifactVars

Curating == {"approving", "superseded", "archived"}

KeeperState ==
  {s \in [pc : Curating \cup {"idle", "storing"}, on : Contents \cup Documents \cup {Nothing}, found : Nat, no : Nat] :
     s.pc \in Curating => s.on \in Documents}

ArtifactsTyped ==
  /\ keeper \in [Keepers -> KeeperState]
  /\ artifacts \subseteq [id : Nat, content : Contents \cup Documents \cup {Nothing}]
  /\ provenance \subseteq [artifact : Nat, no : Nat]
  /\ document \in [Documents -> {"none", "candidate", "approved", "superseded", "archived"}]
  /\ index \subseteq Documents /\ writer \subseteq Keepers
  /\ {stores, edits, deaths} \subseteq Nat
  /\ refused \in BOOLEAN /\ oneByOne \in BOOLEAN

\* The writer is the one that stores, and what it found is still so.
StoresAlone ==
  /\ \A k \in Keepers : keeper[k].pc = "storing" => writer = {k}
  /\ \A k \in Keepers : keeper[k].pc = "storing" =>
       IF keeper[k].found = 0 THEN SameContent(keeper[k].on) = {}
       ELSE \E a \in artifacts : a.id = keeper[k].found
  /\ \A k \in Keepers : keeper[k].pc = "storing" => keeper[k].no # 0

OncePerContent ==
  /\ ~refused
  /\ \A a \in artifacts : a.id # 0
  /\ \A x \in provenance : \E a \in artifacts : a.id = x.artifact
  /\ \A a, b \in artifacts : a.content = b.content => a = b

\* Where documents are curated by one thread at a time.
CuratedInTurn ==
  /\ \A k, l \in Keepers : keeper[k].pc \in Curating /\ keeper[l].pc \in Curating => k = l
  /\ \A k \in Keepers : keeper[k].pc \in {"superseded", "archived"} => keeper[k].on \notin index
  /\ \A d \in index : document[d] = "approved"

ArtifactInv == ArtifactsTyped /\ StoresAlone /\ OncePerContent /\ (oneByOne => CuratedInTurn)

LEMMA ArtifactsBegin == ArtifactsInit => ArtifactInv
<1> SUFFICES ASSUME ArtifactsInit PROVE ArtifactInv
  OBVIOUS
<1>1. Resting \in KeeperState /\ Resting.pc = "idle"
  BY DEF Resting, KeeperState, Curating
<1>2. keeper \in [Keepers -> KeeperState] /\ \A k \in Keepers : keeper[k].pc = "idle"
  BY <1>1 DEF ArtifactsInit
<1>3. ArtifactsTyped
  <2>1. document \in [Documents -> {"none", "candidate", "approved", "superseded", "archived"}] /\ oneByOne \in BOOLEAN /\ refused \in BOOLEAN
    BY DEF ArtifactsInit
  <2>2. artifacts = {} /\ provenance = {} /\ index = {} /\ writer = {} /\ stores = 0 /\ edits = 0 /\ deaths = 0
    BY DEF ArtifactsInit
  <2> QED
    BY <1>2, <2>1, <2>2 DEF ArtifactsTyped
<1> QED
  BY <1>2, <1>3 DEF ArtifactsInit, ArtifactInv, StoresAlone, OncePerContent, CuratedInTurn, Curating

LEMMA KeeperMoves ==
  ASSUME ArtifactsTyped, NEW k \in Keepers
  PROVE  /\ keeper[k] \in KeeperState
         /\ \A step \in KeeperState : [keeper EXCEPT ![k] = step] \in [Keepers -> KeeperState]
         /\ Resting \in KeeperState
         /\ \A pc \in Curating, d \in Documents : [Resting EXCEPT !.pc = pc, !.on = d] \in KeeperState
  BY DEF ArtifactsTyped, Resting, KeeperState, Curating

LEMMA ArtifactsTyping == ArtifactsTyped /\ [ArtifactsNext]_artifactVars => ArtifactsTyped'
<1> SUFFICES ASSUME ArtifactsTyped, [ArtifactsNext]_artifactVars PROVE ArtifactsTyped'
  OBVIOUS
<1> USE ArtifactLimits
<1>1. ASSUME NEW k \in Keepers, NEW c \in Contents, BeginStore(k, c) PROVE ArtifactsTyped'
  <2> DEFINE found == IF SameContent(c) = {} THEN 0 ELSE (CHOOSE a \in SameContent(c) : TRUE).id
  <2>1. found \in Nat
    BY DEF SameContent, ArtifactsTyped
  <2> HIDE DEF found
  <2>2. keeper' = [keeper EXCEPT ![k] = [pc |-> "storing", on |-> c, no |-> stores + 1, found |-> found]]
        /\ stores' = stores + 1 /\ stores \in Nat
    BY <1>1 DEF BeginStore, Keeps, ArtifactsTyped, found
  <2>3. [pc |-> "storing", on |-> c, no |-> stores + 1, found |-> found] \in KeeperState
    BY <2>1, <2>2 DEF KeeperState, Curating
  <2>4. keeper' \in [Keepers -> KeeperState]
    BY <2>2, <2>3, KeeperMoves
  <2> QED
    BY <1>1, <2>2, <2>4 DEF BeginStore, Excluding, ArtifactsTyped
<1>2. ASSUME NEW k \in Keepers, CommitStore(k) PROVE ArtifactsTyped'
  <2>1. keeper[k].found \in Nat /\ keeper[k].no \in Nat /\ keeper[k].on \in Contents \cup Documents \cup {Nothing}
    BY KeeperMoves DEF KeeperState
  <2>2. /\ artifacts' \subseteq [id : Nat, content : Contents \cup Documents \cup {Nothing}]
        /\ provenance' \subseteq [artifact : Nat, no : Nat] /\ refused' \in BOOLEAN
    <3> DEFINE s == keeper[k]
               id == IF s.found # 0 THEN s.found ELSE s.no
               new == IF s.found = 0 /\ SameContent(s.on) = {} THEN {[id |-> id, content |-> s.on]} ELSE {}
    <3>1. Stored(k)
      BY <1>2 DEF CommitStore
    <3>2. id \in Nat /\ new \subseteq [id : Nat, content : Contents \cup Documents \cup {Nothing}]
      BY <2>1
    <3>3. CASE artifacts' = artifacts \cup new /\ provenance' = provenance \cup {[artifact |-> id, no |-> s.no]} /\ UNCHANGED refused
      BY <2>1, <3>2, <3>3 DEF ArtifactsTyped
    <3>4. CASE refused' = TRUE /\ UNCHANGED <<artifacts, provenance>>
      BY <3>4 DEF ArtifactsTyped
    <3> QED
      BY <3>1, <3>3, <3>4 DEF Stored
  <2>3. keeper' \in [Keepers -> KeeperState]
    BY <1>2, KeeperMoves DEF CommitStore, Rests, Keeps
  <2> QED
    BY <1>2, <2>2, <2>3 DEF CommitStore, ArtifactsTyped
<1>3. ASSUME NEW k \in Keepers, NEW d \in Documents, NEW state \in {"candidate", "approved"}, Ingest(k, d, state)
      PROVE  ArtifactsTyped'
  <2>1. keeper' \in [Keepers -> KeeperState]
    <3>1. keeper' = keeper \/ \E step \in KeeperState : keeper' = [keeper EXCEPT ![k] = step]
      BY <1>3, KeeperMoves DEF Ingest, Keeps, Curating
    <3> QED
      BY <3>1, KeeperMoves DEF ArtifactsTyped
  <2> QED
    BY <1>3, <2>1 DEF Ingest, Curates, curated, ArtifactsTyped
<1>4. ASSUME NEW k \in Keepers, NEW d \in Documents, BeginApprove(k, d) PROVE ArtifactsTyped'
  <2>1. keeper' \in [Keepers -> KeeperState]
    BY <1>4, KeeperMoves DEF BeginApprove, Keeps, Curating
  <2> QED
    BY <1>4, <2>1 DEF BeginApprove, Curates, curated, ArtifactsTyped
<1>5. ASSUME NEW k \in Keepers, NEW d \in Documents, NEW to \in {"superseded", "archived"}, Remove(k, d, to)
      PROVE  ArtifactsTyped'
  <2>1. keeper' \in [Keepers -> KeeperState]
    BY <1>5, KeeperMoves DEF Remove, Keeps, Curating
  <2> QED
    BY <1>5, <2>1 DEF Remove, Writes, Removal, Curates, curated, ArtifactsTyped
<1>6. ASSUME NEW k \in Keepers, Approve(k) \/ FinishRemoval(k) PROVE ArtifactsTyped'
  <2>1. keeper' \in [Keepers -> KeeperState]
    BY <1>6, KeeperMoves DEF Approve, FinishRemoval, Rests, Keeps
  <2>2. document' \in [Documents -> {"none", "candidate", "approved", "superseded", "archived"}]
    BY <1>6 DEF Approve, FinishRemoval, Writes, Removal, ArtifactsTyped
  <2>3. index' \subseteq Documents
    <3>1. Approve(k) => keeper[k].on \in Documents
      BY KeeperMoves DEF Approve, KeeperState, Curating
    <3>2. FinishRemoval(k) => index' \subseteq index
      BY DEF FinishRemoval, Writes, Removal
    <3> QED
      BY <1>6, <3>1, <3>2 DEF Approve, ArtifactsTyped
  <2> QED
    BY <1>6, <2>1, <2>2, <2>3 DEF Approve, FinishRemoval, curated, ArtifactsTyped
<1>7. ASSUME NEW k \in Keepers, Rebuild(k) PROVE ArtifactsTyped'
  BY <1>7 DEF Rebuild, Curates, curated, ArtifactsTyped
<1>8. ASSUME NEW k \in Keepers, Ends(k) PROVE ArtifactsTyped'
  <2>1. keeper' \in [Keepers -> KeeperState]
    BY <1>8, KeeperMoves DEF Ends, Rests, Keeps
  <2> QED
    BY <1>8, <2>1 DEF Ends, ArtifactsTyped
<1>9. CASE UNCHANGED artifactVars
  BY <1>9 DEF artifactVars, ArtifactsTyped
<1> QED
  BY <1>1, <1>2, <1>3, <1>4, <1>5, <1>6, <1>7, <1>8, <1>9 DEF ArtifactsNext

\* Only storing and dying touch what the store is built on.
LEMMA StoresLeftAlone ==
  ASSUME StoresAlone, OncePerContent, UNCHANGED <<artifacts, provenance, writer, refused>>,
         \A l \in Keepers : keeper'[l].pc = "storing" => keeper'[l] = keeper[l]
  PROVE  StoresAlone' /\ OncePerContent'
  BY DEF StoresAlone, OncePerContent, SameContent

LEMMA StoresStep == ArtifactInv /\ [ArtifactsNext]_artifactVars => StoresAlone' /\ OncePerContent'
<1> SUFFICES ASSUME ArtifactInv, [ArtifactsNext]_artifactVars PROVE StoresAlone' /\ OncePerContent'
  OBVIOUS
<1>0. ArtifactsTyped /\ StoresAlone /\ OncePerContent /\ keeper \in [Keepers -> KeeperState] /\ stores \in Nat
  BY DEF ArtifactInv, ArtifactsTyped
<1>1. ASSUME NEW k \in Keepers, NEW c \in Contents, BeginStore(k, c) PROVE StoresAlone' /\ OncePerContent'
  <2> DEFINE found == IF SameContent(c) = {} THEN 0 ELSE (CHOOSE a \in SameContent(c) : TRUE).id
             step == [pc |-> "storing", on |-> c, no |-> stores + 1, found |-> found]
  <2>1. IF found = 0 THEN SameContent(c) = {} ELSE \E a \in artifacts : a.id = found
    BY <1>0 DEF SameContent, OncePerContent
  <2>2. keeper' = [keeper EXCEPT ![k] = step]
    BY <1>1 DEF BeginStore, Keeps
  <2> HIDE DEF found
  <2>3. \A l \in Keepers : keeper'[l].pc = "storing" => l = k
    BY <1>0, <1>1, <2>2 DEF StoresAlone, BeginStore, Writable
  <2>4. writer' = {k} /\ UNCHANGED <<artifacts, provenance, refused>> /\ step.no # 0
    BY <1>0, <1>1 DEF BeginStore, Excluding
  <2> QED
    BY <1>0, <2>1, <2>2, <2>3, <2>4 DEF StoresAlone, OncePerContent, SameContent
<1>2. ASSUME NEW k \in Keepers, CommitStore(k) PROVE StoresAlone' /\ OncePerContent'
  <2>1. \A l \in Keepers : keeper[l].pc = "storing" => l = k
    BY <1>0, <1>2 DEF CommitStore, StoresAlone
  <2>2. \A l \in Keepers : keeper'[l].pc # "storing"
    BY <1>0, <1>2, <2>1 DEF CommitStore, Rests, Keeps, Resting
  <2> DEFINE s == keeper[k]
             id == IF s.found # 0 THEN s.found ELSE s.no
             new == IF s.found = 0 /\ SameContent(s.on) = {} THEN {[id |-> id, content |-> s.on]} ELSE {}
  <2>3. id # 0 /\ (\E a \in artifacts \cup new : a.id = id) /\ \A a \in new : a.id = id /\ a.content = s.on /\ SameContent(s.on) = {}
    <3>1. /\ s.no # 0
          /\ IF s.found = 0 THEN SameContent(s.on) = {} ELSE \E a \in artifacts : a.id = s.found
      BY <1>0, <1>2 DEF CommitStore, StoresAlone
    <3> HIDE DEF s
    <3>2. CASE s.found = 0
      <4>1. id = s.no /\ new = {[id |-> id, content |-> s.on]}
        BY <3>1, <3>2
      <4> HIDE DEF id, new
      <4> DEFINE row == [id |-> id, content |-> s.on]
      <4>2. row \in new /\ row.id = id /\ row.content = s.on /\ \A a \in new : a = row
        BY <4>1
      <4> HIDE DEF row
      <4>3. SameContent(s.on) = {}
        BY <3>1, <3>2
      <4>4. id # 0
        BY <3>1, <4>1
      <4> QED
        BY <4>2, <4>3, <4>4
    <3>3. CASE s.found # 0
      <4>1. id = s.found /\ new = {}
        BY <3>3
      <4> QED
        BY <3>1, <3>3, <4>1
    <3> QED
      BY <3>2, <3>3
  <2>4. artifacts' = artifacts \cup new /\ provenance' = provenance \cup {[artifact |-> id, no |-> s.no]} /\ UNCHANGED refused
    BY <1>2, <2>3 DEF CommitStore, Stored
  <2>5. \A a, b \in new : a = b
    OBVIOUS
  <2> HIDE DEF id, new, s
  <2>6. \A a \in artifacts, b \in new : a.content # b.content
    BY <2>3 DEF SameContent
  <2>7. \A a, b \in artifacts' : a.content = b.content => a = b
    BY <1>0, <2>4, <2>5, <2>6 DEF OncePerContent
  <2>8. \A x \in provenance' : \E a \in artifacts' : a.id = x.artifact
    BY <1>0, <2>3, <2>4 DEF OncePerContent
  <2> QED
    BY <1>0, <2>2, <2>3, <2>4, <2>7, <2>8 DEF StoresAlone, OncePerContent
<1>3. ASSUME NEW k \in Keepers, Ends(k) PROVE StoresAlone' /\ OncePerContent'
  <2>1. \A l \in Keepers : keeper'[l].pc = "storing" => l # k /\ keeper'[l] = keeper[l]
    BY <1>0, <1>3 DEF Ends, Rests, Keeps, Resting
  <2> QED
    BY <1>0, <1>3, <2>1 DEF Ends, StoresAlone, OncePerContent, SameContent
<1>4. ASSUME NEW k \in Keepers, NEW d \in Documents, NEW to \in {"superseded", "archived"}, NEW state \in {"candidate", "approved"},
             Ingest(k, d, state) \/ BeginApprove(k, d) \/ Remove(k, d, to)
      PROVE  StoresAlone' /\ OncePerContent'
  <2>1. UNCHANGED <<artifacts, provenance, writer, refused>>
    BY <1>4 DEF Ingest, BeginApprove, Remove, curated
  <2>2. \A l \in Keepers : keeper'[l].pc = "storing" => keeper'[l] = keeper[l]
    BY <1>0, <1>4 DEF Ingest, BeginApprove, Remove, Keeps, Resting
  <2> QED
    BY <1>0, <2>1, <2>2, StoresLeftAlone
<1>5. ASSUME NEW k \in Keepers, Approve(k) \/ FinishRemoval(k) \/ Rebuild(k) PROVE StoresAlone' /\ OncePerContent'
  <2>1. UNCHANGED <<artifacts, provenance, writer, refused>>
    BY <1>5 DEF Approve, FinishRemoval, Rebuild, curated
  <2>2. \A l \in Keepers : keeper'[l].pc = "storing" => keeper'[l] = keeper[l]
    BY <1>0, <1>5 DEF Approve, FinishRemoval, Rebuild, Rests, Keeps, Resting
  <2> QED
    BY <1>0, <2>1, <2>2, StoresLeftAlone
<1>6. CASE UNCHANGED artifactVars
  BY <1>0, <1>6, StoresLeftAlone DEF artifactVars
<1>7. ASSUME NEW k \in Keepers, NEW d \in Documents, NEW to \in {"superseded", "archived"}, Remove(k, d, to)
      PROVE  StoresAlone' /\ OncePerContent'
  BY <1>4, <1>7
<1>8. ASSUME NEW k \in Keepers, NEW d \in Documents, BeginApprove(k, d) PROVE StoresAlone' /\ OncePerContent'
  BY <1>4, <1>8
<1> QED
  BY <1>1, <1>2, <1>3, <1>4, <1>5, <1>6, <1>7, <1>8 DEF ArtifactsNext

\* Documents curated one by one leave the index before their state changes.
LEMMA CuratedStep == ArtifactInv /\ [ArtifactsNext]_artifactVars => (oneByOne' => CuratedInTurn')
<1> SUFFICES ASSUME ArtifactInv, [ArtifactsNext]_artifactVars, oneByOne' PROVE CuratedInTurn'
  OBVIOUS
<1>0. /\ CuratedInTurn /\ keeper \in [Keepers -> KeeperState] /\ index \subseteq Documents
      /\ document \in [Documents -> {"none", "candidate", "approved", "superseded", "archived"}]
      /\ oneByOne
  BY DEF ArtifactInv, ArtifactsTyped, ArtifactsNext, artifactVars, BeginStore, CommitStore, Ingest, BeginApprove, Remove,
     Approve, FinishRemoval, Rebuild, Ends, curated
<1>a. \A k, l \in Keepers : Curates(k) => keeper[l].pc \notin Curating /\ keeper[k].pc = "idle"
  BY <1>0 DEF Curates, Curating
<1>b. \A k \in Keepers : keeper[k].pc \in Curating => keeper[k].on \in Documents
  BY <1>0 DEF KeeperState
<1>1. ASSUME NEW k \in Keepers, NEW c \in Contents, BeginStore(k, c) \/ CommitStore(k) \/ Ends(k) PROVE CuratedInTurn'
  <2>1. UNCHANGED <<document, index>> /\ \A l \in Keepers : keeper'[l].pc \in Curating => keeper'[l] = keeper[l]
    BY <1>0, <1>1 DEF BeginStore, CommitStore, Ends, Rests, Keeps, Resting, Curating
  <2> QED
    BY <1>0, <2>1 DEF CuratedInTurn, Curating
<1>2. ASSUME NEW k \in Keepers, NEW d \in Documents, NEW state \in {"candidate", "approved"},
             Ingest(k, d, state) \/ BeginApprove(k, d)
      PROVE  CuratedInTurn'
  <2>1. UNCHANGED index /\ \A l \in Keepers : keeper'[l].pc \in Curating => l = k /\ keeper'[l].pc = "approving"
    BY <1>0, <1>2, <1>a DEF Ingest, BeginApprove, Keeps, Resting, Curating
  <2>2. \A e \in index : document'[e] = "approved"
    <3>1. document[d] # "approved"
      BY <1>2 DEF Ingest, BeginApprove
    <3> QED
      BY <1>0, <1>2, <3>1 DEF Ingest, BeginApprove, CuratedInTurn
  <2> QED
    BY <2>1, <2>2 DEF CuratedInTurn, Curating
<1>3. ASSUME NEW k \in Keepers, NEW d \in Documents, NEW to \in {"superseded", "archived"}, Remove(k, d, to)
      PROVE  CuratedInTurn'
  <2>1. index' = index \ {d} /\ UNCHANGED document
    BY <1>3 DEF Remove, Writes, Removal
  <2>2. \A l \in Keepers : keeper'[l].pc \in Curating => l = k /\ keeper'[l].on = d
    BY <1>0, <1>3, <1>a DEF Remove, Keeps, Resting
  <2> QED
    BY <1>0, <2>1, <2>2 DEF CuratedInTurn, Curating
<1>4. ASSUME NEW k \in Keepers, Approve(k) PROVE CuratedInTurn'
  <2>1. \A l \in Keepers : keeper'[l].pc \notin Curating
    BY <1>0, <1>4 DEF Approve, Rests, Keeps, Resting, CuratedInTurn, Curating
  <2>2. \A e \in index' : document'[e] = "approved"
    BY <1>0, <1>4, <1>b DEF Approve, CuratedInTurn, Curating
  <2> QED
    BY <2>1, <2>2 DEF CuratedInTurn, Curating
<1>5. ASSUME NEW k \in Keepers, FinishRemoval(k) PROVE CuratedInTurn'
  <2>1. \A l \in Keepers : keeper'[l].pc \notin Curating
    BY <1>0, <1>5 DEF FinishRemoval, Rests, Keeps, Resting, CuratedInTurn, Curating
  <2>2. \A e \in index' : document'[e] = "approved"
    BY <1>0, <1>5, <1>b DEF FinishRemoval, Writes, Removal, CuratedInTurn, Curating
  <2> QED
    BY <2>1, <2>2 DEF CuratedInTurn, Curating
<1>6. ASSUME NEW k \in Keepers, Rebuild(k) PROVE CuratedInTurn'
  <2>1. index' = {d \in Documents : document[d] = "approved"} /\ UNCHANGED <<document, keeper>>
    BY <1>6 DEF Rebuild
  <2> QED
    BY <1>6, <1>a, <2>1 DEF Rebuild, CuratedInTurn, Curating
<1>7. CASE UNCHANGED artifactVars
  BY <1>0, <1>7 DEF artifactVars, CuratedInTurn
<1>8. ASSUME NEW k \in Keepers, CommitStore(k) \/ Ends(k) PROVE CuratedInTurn'
  <2>1. UNCHANGED <<document, index>> /\ \A l \in Keepers : keeper'[l].pc \in Curating => keeper'[l] = keeper[l]
    BY <1>0, <1>8 DEF CommitStore, Ends, Rests, Keeps, Resting, Curating
  <2> QED
    BY <1>0, <2>1 DEF CuratedInTurn, Curating
<1>9. ASSUME NEW k \in Keepers, NEW d \in Documents, BeginApprove(k, d) PROVE CuratedInTurn'
  BY <1>2, <1>9
<1> QED
  BY <1>1, <1>2, <1>3, <1>4, <1>5, <1>6, <1>7, <1>8, <1>9 DEF ArtifactsNext

\* Whatever threads store and curate, and wherever one of them dies: no store is
\* refused for another's sake, each has its row at an artifact that is there, and
\* where documents are curated in turn a search finds approved ones only.
THEOREM EvidenceHolds == ArtifactsSpec => []EvidenceSound
<1>1. ArtifactInv /\ [ArtifactsNext]_artifactVars => ArtifactInv'
  BY ArtifactsTyping, StoresStep, CuratedStep DEF ArtifactInv
<1>2. ArtifactInv => EvidenceSound
  BY DEF ArtifactInv, OncePerContent, CuratedInTurn, EvidenceSound, Searchable
<1> QED
  BY <1>1, <1>2, ArtifactsBegin, PTL DEF ArtifactsSpec

-----------------------------------------------------------------------------
(***************************************************************************)
(* Transactions.  A connection holds no writes of a transaction but those  *)
(* of the call in whose body its thread is; of these it holds what no      *)
(* block took back, and each savepoint those of before it.                 *)
(***************************************************************************)
DatabaseSpec == DatabaseInit /\ [][DatabaseNext]_dbVars

Rows == [no : Nat, k : Nat, tx : BOOLEAN]
ConnState == [open : BOOLEAN, writes : SUBSET Rows, marks : Seq([writes : SUBSET Rows, steps : Nat])]
CallState == [pc : {"idle", "bare", "mutex", "begin", "body"}, no : Nat, steps : Nat]

DatabaseTyped ==
  /\ conn \in [Threads -> ConnState] /\ call \in [Threads -> CallState]
  /\ calls \in Nat /\ committed \subseteq 0 .. calls
  /\ db \subseteq wrote /\ undone \subseteq wrote /\ wrote \subseteq Rows
  /\ \A t \in Threads : conn[t].writes \subseteq wrote

Called(t) == call[t].pc # "idle"
Wrote(t) == {w \in wrote : w.no = call[t].no}

MarksHold(c, of) ==
  /\ of.pc # "body" => c.marks = <<>>
  /\ \A i \in 1 .. Len(c.marks) :
       /\ c.marks[i].steps <= of.steps
       /\ \A j \in i .. Len(c.marks) : c.marks[i].steps <= c.marks[j].steps
       /\ \A w \in Rows : w \in c.marks[i].writes <=> w \in c.writes /\ (w.no = of.no => w.k <= c.marks[i].steps)

\* What is so for each thread: its call has not ended well, and its connection holds
\* the writes of its transaction, if it is in one, that no block took back.
InCall(t) ==
  /\ call[t].no <= calls
  /\ Called(t) => call[t].no \notin committed
  /\ call[t].pc \in {"mutex", "begin"} => call[t].steps = 0
  /\ Called(t) => \A w \in Wrote(t) : w.k \in 1 .. call[t].steps /\ w.tx = InTransaction(t)

Holding(t) ==
  /\ \A w \in conn[t].writes : w.tx => InTransaction(t) /\ w.no = call[t].no
  /\ InTransaction(t) => \A w \in Wrote(t) : w \in conn[t].writes <=> w \notin undone
  /\ MarksHold(conn[t], call[t])

\* Calls are told apart by their numbers.
Numbered ==
  /\ \A w \in wrote : w.no <= calls
  /\ \A t, u \in Threads : Called(t) /\ Called(u) /\ call[t].no = call[u].no => t = u

DatabaseInv == DatabaseTyped /\ Numbered /\ TransactionAtomic /\ \A t \in Threads : InCall(t) /\ Holding(t)

LEMMA DatabaseBegins == DatabaseInit => DatabaseInv
<1> SUFFICES ASSUME DatabaseInit PROVE DatabaseInv
  OBVIOUS
<1>1. NoTransaction \in ConnState
  BY DEF NoTransaction, ConnState
<1>2. conn \in [Threads -> ConnState] /\ call \in [Threads -> CallState]
  BY <1>1 DEF DatabaseInit, CallState
<1>3. \A t \in Threads : conn[t].writes = {} /\ conn[t].marks = <<>> /\ call[t].pc = "idle" /\ call[t].no = 0 /\ call[t].steps = 0
  BY DEF DatabaseInit, NoTransaction
<1>4. wrote = {} /\ db = {} /\ undone = {} /\ committed = {} /\ calls = 0
  BY DEF DatabaseInit
<1>5. DatabaseTyped
  BY <1>2, <1>3, <1>4 DEF DatabaseTyped
<1>6. \A t \in Threads : MarksHold(conn[t], call[t])
  BY <1>3 DEF MarksHold
<1> QED
  BY <1>3, <1>4, <1>5, <1>6 DEF DatabaseInv, Numbered, InCall, Holding, TransactionAtomic, Called, Wrote, InTransaction

\* A step in a call of one thread, as the others see it.
OwnStep(t) ==
  /\ Called(t) /\ calls' = calls /\ call'[t].no = call[t].no
  /\ conn' \in [Threads -> ConnState] /\ call' \in [Threads -> CallState]
  /\ \A u \in Threads \ {t} : conn'[u] = conn[u] /\ call'[u] = call[u]
  /\ wrote \subseteq wrote' /\ wrote' \subseteq Rows /\ \A w \in wrote' \ wrote : w.no = call[t].no
  /\ undone \subseteq undone' /\ undone' \subseteq wrote' /\ \A w \in undone' \ undone : w.no = call[t].no
  /\ committed' \subseteq committed \cup {call[t].no} /\ committed \subseteq committed'
  /\ db \subseteq db' /\ db' \subseteq wrote' /\ \A w \in db' \ db : w.tx => w.no = call[t].no
  /\ conn'[t].writes \subseteq wrote'

\* What is left to show for it is about the thread alone.
LEMMA OneThreadSteps ==
  ASSUME DatabaseInv, NEW t \in Threads, OwnStep(t), InCall(t)', Holding(t)',
         \A w \in wrote' : w.no = call[t].no /\ w.tx => (w \in db' <=> w.no \in committed' /\ w \notin undone')
  PROVE  DatabaseInv'
<1>0. DatabaseTyped /\ Numbered /\ TransactionAtomic /\ \A u \in Threads : InCall(u) /\ Holding(u)
  BY DEF DatabaseInv
<1>1. /\ call[t] \in CallState /\ call[t].no \in 0 .. calls /\ calls \in Nat
      /\ conn[t] \in ConnState
  <2>1. call[t] \in CallState /\ calls \in Nat /\ conn[t] \in ConnState
    BY <1>0 DEF DatabaseTyped
  <2> QED
    BY <1>0, <2>1 DEF CallState, InCall
<1>2. DatabaseTyped'
  <2>1. \A u \in Threads : conn'[u].writes \subseteq wrote'
    BY <1>0 DEF DatabaseTyped, OwnStep
  <2>2. committed' \subseteq 0 .. calls'
    BY <1>0, <1>1 DEF DatabaseTyped, OwnStep
  <2> QED
    BY <1>0, <2>1, <2>2 DEF DatabaseTyped, OwnStep
<1>4. Numbered'
  <2>1. \A w \in wrote' : w.no <= calls'
    BY <1>0, <1>1 DEF OwnStep, Numbered
  <2>2. \A u \in Threads : call'[u].no = call[u].no /\ (Called(u)' => Called(u))
    BY DEF OwnStep, Called
  <2> QED
    BY <1>0, <2>1, <2>2 DEF Numbered
<1>5. TransactionAtomic'
  <2> SUFFICES ASSUME NEW w \in wrote', w.tx, w.no # call[t].no
               PROVE  w \in db' <=> w.no \in committed' /\ w \notin undone'
    BY DEF TransactionAtomic
  <2>1. w \in wrote /\ (w \in db' <=> w \in db) /\ (w.no \in committed' <=> w.no \in committed)
        /\ (w \in undone' <=> w \in undone)
    BY <1>0 DEF OwnStep
  <2> QED
    BY <1>0, <2>1 DEF TransactionAtomic
<1>6. ASSUME NEW u \in Threads \ {t} PROVE InCall(u)' /\ Holding(u)'
  <2>1. conn'[u] = conn[u] /\ call'[u] = call[u] /\ InCall(u) /\ Holding(u)
    BY <1>0 DEF OwnStep
  <2>2. Called(u) => call[u].no # call[t].no
    BY <1>0 DEF Numbered, OwnStep
  <2>3. Called(u) => Wrote(u)' = Wrote(u)
    BY <2>1, <2>2 DEF Wrote, OwnStep
  <2>4. Called(u) => \A w \in Wrote(u) : w \in undone' <=> w \in undone
    BY <2>2 DEF Wrote, OwnStep
  <2>5. Called(u)' = Called(u) /\ InTransaction(u)' = InTransaction(u) /\ (InTransaction(u) => Called(u))
    BY <2>1 DEF Called, InTransaction
  <2>6. InCall(u)'
    BY <2>1, <2>2, <2>3, <2>5 DEF InCall, OwnStep
  <2> QED
    BY <2>1, <2>3, <2>4, <2>5, <2>6 DEF Holding
<1> QED
  BY <1>2, <1>4, <1>5, <1>6 DEF DatabaseInv

LEMMA DatabaseUnchanged == DatabaseInv /\ UNCHANGED dbVars => DatabaseInv'
  BY DEF dbVars, countVars, historyVars, DatabaseInv, DatabaseTyped, Numbered, TransactionAtomic, InCall, Holding,
     Called, Wrote, InTransaction, MarksHold

\* The invariant as a call of one thread sees it.
LEMMA CallFacts ==
  ASSUME DatabaseInv, NEW t \in Threads
  PROVE  /\ conn \in [Threads -> ConnState] /\ call \in [Threads -> CallState] /\ calls \in Nat
         /\ conn[t] \in ConnState /\ call[t] \in CallState
         /\ db \subseteq wrote /\ undone \subseteq wrote /\ wrote \subseteq Rows /\ conn[t].writes \subseteq wrote
         /\ InCall(t) /\ Holding(t) /\ TransactionAtomic
         /\ InTransaction(t) => \A w \in Wrote(t) : w.tx /\ w \notin db
<1>1. DatabaseTyped /\ InCall(t) /\ Holding(t) /\ TransactionAtomic
  BY DEF DatabaseInv
<1>2. InTransaction(t) => \A w \in Wrote(t) : w.tx /\ w \notin db
  BY <1>1 DEF InCall, Called, InTransaction, Wrote, TransactionAtomic
<1> QED
  BY <1>1, <1>2 DEF DatabaseTyped

\* A thread whose call ends leaves no write of a transaction on its connection.
LEMMA CallEnds ==
  ASSUME DatabaseInv, NEW t \in Threads, OwnStep(t), call'[t].pc = "idle",
         conn'[t] = NoTransaction \/ (conn'[t] = conn[t] /\ ~InTransaction(t)),
         \A w \in wrote' : w.no = call[t].no /\ w.tx => (w \in db' <=> w.no \in committed' /\ w \notin undone')
  PROVE  DatabaseInv'
<1>1. InCall(t)'
  BY CallFacts DEF InCall, Called, OwnStep
<1>2. Holding(t)'
  <2>1. \A w \in conn'[t].writes : ~w.tx
    BY CallFacts DEF Holding, NoTransaction
  <2>2. conn'[t].marks = <<>>
    BY CallFacts DEF Holding, MarksHold, NoTransaction, InTransaction
  <2> QED
    BY <2>1, <2>2 DEF Holding, MarksHold, InTransaction
<1> QED
  BY <1>1, <1>2, OneThreadSteps

LEMMA CallsEndWell ==
  ASSUME DatabaseInv, NEW t \in Threads,
         (RepositoryCommit(t) /\ call[t].pc = "bare") \/ RepositoryRaises(t) \/ Busy(t) \/ Exit(t) \/ Raise(t)
  PROVE  DatabaseInv'
<1>1. call' = [call EXCEPT ![t].pc = "idle"]
  BY DEF RepositoryCommit, RepositoryRaises, Busy, Exit, Raise, Goes
<1>2. conn' = [conn EXCEPT ![t] = NoTransaction] \/ (conn' = conn /\ ~InTransaction(t))
  BY DEF RepositoryCommit, RepositoryRaises, Busy, Exit, Raise, Closed, Outermost, InTransaction, TimesOut
<1>3. call' \in [Threads -> CallState] /\ conn' \in [Threads -> ConnState]
  <2>1. [call[t] EXCEPT !.pc = "idle"] \in CallState
    BY CallFacts DEF CallState
  <2>2. NoTransaction \in ConnState
    BY DEF NoTransaction, ConnState
  <2> QED
    BY <1>1, <1>2, <2>1, <2>2, CallFacts
<1>4. call'[t].no = call[t].no /\ call'[t].pc = "idle" /\ Called(t)
  BY <1>1, CallFacts DEF CallState, RepositoryCommit, RepositoryRaises, Busy, Exit, Raise, Called, Outer, InTransaction, TimesOut
<1>5. conn'[t] = NoTransaction \/ (conn'[t] = conn[t] /\ ~InTransaction(t))
  BY <1>2, CallFacts
<1>6. \A u \in Threads \ {t} : conn'[u] = conn[u] /\ call'[u] = call[u]
  BY <1>1, <1>2, CallFacts
<1>7. wrote' = wrote /\ calls' = calls
  BY DEF RepositoryCommit, RepositoryRaises, Busy, Exit, Raise, historyVars, countVars
<1>8. db' \subseteq db \cup conn[t].writes /\ db \subseteq db'
  BY DEF RepositoryCommit, RepositoryRaises, Busy, Exit, Raise
<1>9. undone' \subseteq undone \cup Wrote(t) /\ undone \subseteq undone'
  BY DEF RepositoryCommit, RepositoryRaises, Busy, Exit, Raise, historyVars, Since, Wrote
<1>10. committed' \subseteq committed \cup {call[t].no} /\ committed \subseteq committed'
  BY DEF RepositoryCommit, RepositoryRaises, Busy, Exit, Raise, historyVars
<1>11. OwnStep(t)
  <2>1. \A w \in db' \ db : w.tx => w.no = call[t].no
    BY <1>8, CallFacts DEF Holding
  <2>2. conn'[t].writes \subseteq wrote'
    BY <1>5, <1>7, CallFacts DEF NoTransaction
  <2>3. db' \subseteq wrote' /\ undone' \subseteq wrote' /\ \A w \in undone' \ undone : w.no = call[t].no
    BY <1>7, <1>8, <1>9, CallFacts DEF Wrote
  <2> QED
    BY <1>3, <1>4, <1>6, <1>7, <1>8, <1>9, <1>10, <2>1, <2>2, <2>3, CallFacts DEF OwnStep
<1>12. \A w \in wrote' : w.no = call[t].no /\ w.tx => (w \in db' <=> w.no \in committed' /\ w \notin undone')
  <2> SUFFICES ASSUME NEW w \in wrote, w.no = call[t].no, w.tx PROVE w \in db' <=> w.no \in committed' /\ w \notin undone'
    BY <1>7
  <2>1. w \in Wrote(t) /\ InTransaction(t) /\ w \notin db /\ w.no \notin committed
    BY <1>4, CallFacts DEF Wrote, InCall, TransactionAtomic
  <2>2. Exit(t) \/ Raise(t)
    BY <2>1 DEF InTransaction, RepositoryRaises, Busy, TimesOut
  <2>3. CASE Exit(t)
    BY <2>1, <2>3, CallFacts DEF Exit, Holding
  <2>4. CASE Raise(t)
    <3>1. w \in undone'
      BY <1>4, <2>1, <2>4, CallFacts DEF Raise, Since, Wrote, InCall
    <3> QED
      BY <2>1, <2>4, <3>1 DEF Raise
  <2> QED
    BY <2>2, <2>3, <2>4
<1> QED
  BY <1>4, <1>5, <1>11, <1>12, CallEnds

LEMMA StatementsStep ==
  ASSUME DatabaseInv, NEW t \in Threads, Execute(t)
  PROVE  DatabaseInv'
<1> DEFINE row == Write(t, call[t].steps + 1, InTransaction(t))
<1>1. PICK w \in {{row}, {}} : /\ conn' = [conn EXCEPT ![t].open = TRUE, ![t].writes = @ \cup w]
                               /\ wrote' = wrote \cup w
  BY DEF Execute
<1>2. /\ call' = [call EXCEPT ![t].steps = @ + 1] /\ Called(t) /\ call[t].pc \in {"bare", "body"}
      /\ UNCHANGED <<db, calls, committed, undone>>
  BY DEF Execute, Counted, Called, countVars
<1>3. call[t].steps \in Nat /\ call[t].no \in Nat
  BY CallFacts DEF CallState
<1>4. row \in Rows /\ row.no = call[t].no /\ row.k = call[t].steps + 1 /\ row.tx = InTransaction(t)
  BY <1>3 DEF Write, Rows, InTransaction
<1>5. row \notin wrote
  BY <1>2, <1>3, <1>4, CallFacts DEF InCall, Wrote
<1> HIDE DEF row
<1>6. /\ call' \in [Threads -> CallState] /\ call'[t].no = call[t].no /\ call'[t].steps = call[t].steps + 1
      /\ call'[t].pc = call[t].pc
  <2>1. [call[t] EXCEPT !.steps = @ + 1] \in CallState
    BY <1>3, CallFacts DEF CallState
  <2> QED
    BY <1>2, <2>1, CallFacts DEF CallState
<1>7. /\ conn' \in [Threads -> ConnState] /\ conn'[t].writes = conn[t].writes \cup w /\ conn'[t].marks = conn[t].marks
  <2>1. [conn[t] EXCEPT !.open = TRUE, !.writes = @ \cup w] \in ConnState
    BY <1>4, CallFacts DEF ConnState
  <2>2. conn' = [conn EXCEPT ![t] = [conn[t] EXCEPT !.open = TRUE, !.writes = @ \cup w]]
    BY <1>1
  <2> QED
    BY <2>1, <2>2, CallFacts DEF ConnState
<1>8. OwnStep(t)
  <2>1. \A u \in Threads \ {t} : conn'[u] = conn[u] /\ call'[u] = call[u]
    BY <1>1, <1>2, CallFacts
  <2> QED
    BY <1>1, <1>2, <1>4, <1>6, <1>7, <2>1, CallFacts DEF OwnStep
<1>9. Wrote(t)' = Wrote(t) \cup w
  BY <1>1, <1>4, <1>6 DEF Wrote
<1>10. InCall(t)'
  BY <1>2, <1>3, <1>4, <1>6, <1>9, CallFacts DEF InCall, Called, InTransaction
<1>11. MarksHold(conn[t], call[t])'
  <2>0. MarksHold(conn[t], call[t]) /\ conn[t].writes \subseteq wrote
    BY CallFacts DEF Holding
  <2>1. conn[t].marks \in Seq([writes : SUBSET Rows, steps : Nat])
    BY CallFacts DEF ConnState
  <2>2. \A i \in 1 .. Len(conn[t].marks) : conn[t].marks[i].steps \in Nat /\ conn[t].marks[i].steps <= call[t].steps
    <3>1. \A i \in 1 .. Len(conn[t].marks) : conn[t].marks[i] \in [writes : SUBSET Rows, steps : Nat]
      BY <2>1, ElementOfSeq
    <3> QED
      BY <2>0, <3>1 DEF MarksHold
  <2>3. \A x \in w : x.no = call[t].no /\ x.k = call[t].steps + 1 /\ x \notin wrote /\ x \in Rows
    BY <1>4, <1>5
  <2>4. ASSUME NEW i \in 1 .. Len(conn[t].marks), NEW x \in w
        PROVE  x \notin conn[t].marks[i].writes /\ ~(x.k <= conn[t].marks[i].steps)
    <3>1. x \notin conn[t].writes
      BY <2>0, <2>3
    <3>2. x \notin conn[t].marks[i].writes
      BY <2>0, <2>3, <3>1 DEF MarksHold
    <3> QED
      BY <1>3, <2>2, <2>3, <3>2
  <2>5. /\ conn'[t].marks = conn[t].marks /\ conn'[t].writes = conn[t].writes \cup w
        /\ call'[t].no = call[t].no /\ call'[t].pc = call[t].pc /\ call[t].steps \in Nat /\ call'[t].steps = call[t].steps + 1
    BY <1>3, <1>6, <1>7
  <2>6. ASSUME NEW i \in 1 .. Len(conn[t].marks)
        PROVE  /\ conn[t].marks[i].steps <= call'[t].steps
               /\ \A x \in Rows : x \in conn[t].marks[i].writes
                    <=> x \in conn'[t].writes /\ (x.no = call[t].no => x.k <= conn[t].marks[i].steps)
    <3>1. conn[t].marks[i].steps <= call'[t].steps
      BY <2>2, <2>5
    <3>2. ASSUME NEW x \in Rows, x \in w
          PROVE  ~(x \in conn[t].marks[i].writes) /\ ~(x.no = call[t].no => x.k <= conn[t].marks[i].steps)
      BY <2>3, <2>4, <3>2
    <3>3. ASSUME NEW x \in Rows, x \notin w
          PROVE  x \in conn[t].marks[i].writes
                   <=> x \in conn'[t].writes /\ (x.no = call[t].no => x.k <= conn[t].marks[i].steps)
      BY <2>0, <2>5, <3>3 DEF MarksHold
    <3> QED
      BY <3>1, <3>2, <3>3
  <2>7. /\ \A i \in 1 .. Len(conn[t].marks) : \A j \in i .. Len(conn[t].marks) : conn[t].marks[i].steps <= conn[t].marks[j].steps
        /\ call[t].pc # "body" => conn[t].marks = <<>>
    BY <2>0 DEF MarksHold
  <2> QED
    BY <2>5, <2>6, <2>7 DEF MarksHold
<1>12. Holding(t)'
  <2>1. \A x \in w : x \notin undone /\ x.tx = InTransaction(t) /\ x.no = call[t].no
    BY <1>4, <1>5, CallFacts
  <2> QED
    BY <1>2, <1>6, <1>7, <1>9, <1>11, <2>1, CallFacts DEF Holding, InTransaction
<1>13. \A x \in wrote' : x.no = call[t].no /\ x.tx => (x \in db' <=> x.no \in committed' /\ x \notin undone')
  <2>1. \A x \in w : x \notin db
    BY <1>4, <1>5, CallFacts
  <2>2. call[t].no \notin committed
    BY <1>2, CallFacts DEF InCall
  <2> QED
    BY <1>1, <1>2, <2>1, <2>2, CallFacts DEF TransactionAtomic
<1> QED
  BY <1>8, <1>10, <1>12, <1>13, OneThreadSteps

\* A repository's own commit within transaction(), and the way into a transaction.
LEMMA EntersTransaction ==
  ASSUME DatabaseInv, NEW t \in Threads,
         (RepositoryCommit(t) /\ call[t].pc = "body") \/ TakeMutex(t) \/ Begin(t)
  PROVE  DatabaseInv'
<1>1. CASE RepositoryCommit(t) /\ call[t].pc = "body"
  <2>1. UNCHANGED dbVars
    BY <1>1 DEF RepositoryCommit, Outermost, InTransaction, dbVars, countVars, historyVars
  <2> QED
    BY <2>1, DatabaseUnchanged
<1>2. CASE TakeMutex(t) \/ Begin(t)
  <2>1. PICK pc \in {"begin", "body"} : /\ call' = [call EXCEPT ![t].pc = pc]
                                        /\ call[t].pc \in {"mutex", "begin"} /\ (pc = "begin" => conn' = conn)
                                        /\ (conn' = conn \/ conn' = [conn EXCEPT ![t].open = TRUE])
    BY <1>2 DEF TakeMutex, Begin, Goes, Locked
  <2>2. UNCHANGED <<db, calls, wrote, committed, undone>>
    BY <1>2 DEF TakeMutex, Begin, countVars, historyVars
  <2>3. /\ call' \in [Threads -> CallState] /\ call'[t].no = call[t].no /\ call'[t].steps = call[t].steps
        /\ call'[t].pc = pc /\ call[t].steps = 0
    <3>1. [call[t] EXCEPT !.pc = pc] \in CallState
      BY CallFacts DEF CallState
    <3> QED
      BY <2>1, <3>1, CallFacts DEF CallState, InCall
  <2>4. conn' \in [Threads -> ConnState] /\ conn'[t].writes = conn[t].writes /\ conn'[t].marks = conn[t].marks
    <3>1. [conn[t] EXCEPT !.open = TRUE] \in ConnState
      BY CallFacts DEF ConnState
    <3>2. conn' = conn \/ conn' = [conn EXCEPT ![t] = [conn[t] EXCEPT !.open = TRUE]]
      BY <2>1
    <3> QED
      BY <3>1, <3>2, CallFacts DEF ConnState
  <2>5. OwnStep(t)
    <3>1. Called(t) /\ \A u \in Threads \ {t} : conn'[u] = conn[u] /\ call'[u] = call[u]
      BY <2>1, CallFacts DEF Called
    <3> QED
      BY <2>2, <2>3, <2>4, <3>1, CallFacts DEF OwnStep
  <2>6. Wrote(t) = {} /\ Wrote(t)' = {} /\ Called(t)
    BY <2>1, <2>2, <2>3, CallFacts DEF InCall, Called, Wrote
  <2>7. InCall(t)'
    BY <2>1, <2>2, <2>3, <2>6, CallFacts DEF InCall, Called
  <2>8. \A w \in conn[t].writes : ~w.tx
    BY <2>1, CallFacts DEF Holding, InTransaction
  <2>9. conn[t].marks = <<>>
    BY <2>1, CallFacts DEF Holding, MarksHold
  <2>10. Holding(t)'
    BY <2>4, <2>6, <2>8, <2>9 DEF Holding, MarksHold
  <2>11. \A w \in wrote' : w.no # call[t].no
    BY <2>2, <2>6 DEF Wrote
  <2> QED
    BY <2>5, <2>7, <2>10, <2>11, OneThreadSteps
<1> QED
  BY <1>1, <1>2

\* Blocks within a block: what a savepoint holds when it is set, released, rolled back to.
LEMMA MarksAfter ==
  ASSUME NEW c \in ConnState, NEW of \in CallState, MarksHold(c, of), of.pc = "body",
         c.writes \subseteq Rows, \A w \in c.writes : w.no = of.no => w.k <= of.steps
  PROVE  /\ LET on == [c EXCEPT !.marks = Append(@, [writes |-> c.writes, steps |-> of.steps + 1])]
            IN  on \in ConnState /\ MarksHold(on, [of EXCEPT !.steps = @ + 1])
         /\ c.marks # <<>> => /\ Released(c) \in ConnState /\ MarksHold(Released(c), of)
                              /\ LET back == [Released(c) EXCEPT !.writes = RolledBack(c)]
                                 IN  back \in ConnState /\ MarksHold(back, of)
<1> DEFINE Mark == [writes : SUBSET Rows, steps : Nat]
           m == c.marks
<1>1. m \in Seq(Mark) /\ of.steps \in Nat
  BY DEF ConnState, CallState
<1>2. \A i \in 1 .. Len(m) : m[i] \in Mark
  BY <1>1, ElementOfSeq
<1>3. \A i \in 1 .. Len(m) : m[i].steps \in Nat /\ m[i].writes \subseteq Rows
  BY <1>2
<1>4. /\ \A i \in 1 .. Len(m) : m[i].steps <= of.steps
      /\ \A i \in 1 .. Len(m) : \A j \in i .. Len(m) : m[i].steps <= m[j].steps
      /\ \A i \in 1 .. Len(m) : \A w \in Rows : w \in m[i].writes <=> w \in c.writes /\ (w.no = of.no => w.k <= m[i].steps)
  BY DEF MarksHold
<1>5. /\ LET on == [c EXCEPT !.marks = Append(@, [writes |-> c.writes, steps |-> of.steps + 1])]
         IN  on \in ConnState /\ MarksHold(on, [of EXCEPT !.steps = @ + 1])
  <2> DEFINE new == [writes |-> c.writes, steps |-> of.steps + 1]
             n == Append(m, new)
             on == [c EXCEPT !.marks = n]
             off == [of EXCEPT !.steps = @ + 1]
  <2>1. new \in Mark /\ new.steps = of.steps + 1 /\ new.writes = c.writes
    BY <1>1
  <2> HIDE DEF new, m
  <2>2. n \in Seq(Mark) /\ Len(n) = Len(m) + 1 /\ n[Len(m) + 1] = new /\ \A i \in 1 .. Len(m) : n[i] = m[i]
    BY <1>1, <2>1
  <2> HIDE DEF n, Mark
  <2>3. on \in ConnState /\ on.marks = n /\ on.writes = c.writes
    BY <2>2 DEF ConnState, Mark
  <2>4. off.steps = of.steps + 1 /\ off.no = of.no /\ off.pc = "body"
    BY DEF CallState
  <2> HIDE DEF on, off
  <2>5. Len(m) \in Nat
    BY <1>1
  <2>6. ASSUME NEW i \in 1 .. Len(n)
        PROVE  /\ n[i].steps <= off.steps
               /\ \A j \in i .. Len(n) : n[i].steps <= n[j].steps
               /\ \A w \in Rows : w \in n[i].writes <=> w \in on.writes /\ (w.no = off.no => w.k <= n[i].steps)
    <3>1. CASE i \in 1 .. Len(m)
      <4>1. n[i] = m[i] /\ m[i].steps <= of.steps /\ m[i].steps \in Nat
        BY <1>3, <1>4, <2>2, <3>1
      <4>2. n[i].steps <= off.steps
        BY <1>1, <2>4, <4>1
      <4>3. ASSUME NEW j \in i .. Len(n) PROVE n[i].steps <= n[j].steps
        <5>1. j \in i .. Len(m) \/ n[j] = new
          BY <2>2, <2>5, <3>1
        <5>2. j \in i .. Len(m) => n[j] = m[j]
          BY <2>2, <2>5, <3>1
        <5> QED
          BY <1>1, <1>4, <2>1, <3>1, <4>1, <5>1, <5>2
      <4> QED
        BY <1>4, <2>3, <2>4, <3>1, <4>1, <4>2, <4>3
    <3>2. CASE i = Len(m) + 1
      <4>1. n[i] = new
        BY <2>2, <3>2
      <4>2. \A w \in c.writes : w.no = of.no => w.k <= of.steps + 1
        BY <1>1 DEF Rows
      <4>3. \A j \in i .. Len(n) : j = i
        BY <2>2, <2>5, <3>2
      <4> QED
        BY <1>1, <2>1, <2>3, <2>4, <4>1, <4>2, <4>3
    <3> QED
      BY <2>2, <2>5, <3>1, <3>2
  <2>7. MarksHold(on, off)
    BY <2>3, <2>4, <2>6 DEF MarksHold
  <2> QED
    BY <2>3, <2>7 DEF on, off, n, new, m
<1>6. ASSUME m # <<>>
      PROVE  /\ Released(c) \in ConnState /\ MarksHold(Released(c), of)
             /\ LET back == [Released(c) EXCEPT !.writes = RolledBack(c)]
                IN  back \in ConnState /\ MarksHold(back, of)
  <2> DEFINE n == SubSeq(m, 1, Len(m) - 1)
             back == [Released(c) EXCEPT !.writes = RolledBack(c)]
  <2>1. Len(m) \in Nat \ {0}
    BY <1>1, <1>6
  <2>2. n \in Seq(Mark) /\ Len(n) = Len(m) - 1 /\ \A i \in 1 .. Len(n) : n[i] = m[i] /\ i \in 1 .. Len(m)
    <3> HIDE DEF m, Mark
    <3>1. 1 \in Int /\ Len(m) - 1 \in Int /\ \A i \in 1 .. Len(m) - 1 : i \in 1 .. Len(m)
      BY <2>1
    <3>2. \A i \in 1 .. Len(m) - 1 : m[i] \in Mark
      BY <1>2, <3>1
    <3>3. /\ n \in Seq(Mark) /\ Len(n) = IF 1 <= Len(m) - 1 THEN (Len(m) - 1) - 1 + 1 ELSE 0
          /\ \A i \in 1 .. (Len(m) - 1) - 1 + 1 : n[i] = m[1 + i - 1]
      <4> HIDE DEF n
      <4> QED
        BY <3>1, <3>2, SubSeqProperties DEF n
    <3> HIDE DEF n
    <3>4. Len(n) = Len(m) - 1
      <4>1. \A l \in Nat \ {0} : (IF 1 <= l - 1 THEN (l - 1) - 1 + 1 ELSE 0) = l - 1
        OBVIOUS
      <4> QED
        BY <2>1, <3>3, <4>1
    <3>5. ASSUME NEW i \in 1 .. Len(n) PROVE n[i] = m[i] /\ i \in 1 .. Len(m)
      <4>1. i \in 1 .. (Len(m) - 1) - 1 + 1 /\ 1 + i - 1 = i /\ i \in 1 .. Len(m)
        BY <2>1, <3>4
      <4> QED
        BY <3>3, <4>1
    <3> QED
      BY <3>3, <3>4, <3>5
  <2>3. RolledBack(c) = m[Len(m)].writes /\ m[Len(m)] \in Mark
    BY <1>2, <2>1 DEF RolledBack
  <2>4. /\ Released(c) \in ConnState /\ Released(c).marks = n /\ Released(c).writes = c.writes
        /\ back \in ConnState /\ back.marks = n /\ back.writes = m[Len(m)].writes
    BY <2>2, <2>3 DEF Released, ConnState
  <2> HIDE DEF n, back, m, Mark
  <2>5. MarksHold(Released(c), of)
    <3>1. \A i \in 1 .. Len(n), j \in 1 .. Len(n) : j \in i .. Len(n) => j \in i .. Len(m)
      BY <2>1, <2>2
    <3>2. /\ of.pc # "body" => n = <<>>
          /\ \A i \in 1 .. Len(n) :
               /\ n[i].steps <= of.steps
               /\ \A x \in Rows : x \in n[i].writes <=> x \in c.writes /\ (x.no = of.no => x.k <= n[i].steps)
      BY <1>4, <2>2 DEF MarksHold
    <3>3. \A i \in 1 .. Len(n) : \A j \in i .. Len(n) : n[i].steps <= n[j].steps
      BY <1>4, <2>2, <3>1 DEF MarksHold
    <3> QED
      BY <2>4, <3>2, <3>3 DEF MarksHold
  <2>6. MarksHold(back, of)
    <3>1. ASSUME NEW i \in 1 .. Len(n), NEW w \in Rows
          PROVE  w \in n[i].writes <=> w \in back.writes /\ (w.no = of.no => w.k <= n[i].steps)
      <4>1. Len(m) \in i .. Len(m) /\ Len(m) \in 1 .. Len(m) /\ i \in 1 .. Len(m) /\ n[i] = m[i]
        BY <2>1, <2>2
      <4>2. m[i].steps <= m[Len(m)].steps /\ m[i].steps \in Nat /\ m[Len(m)].steps \in Nat /\ w.k \in Nat
        BY <1>3, <1>4, <4>1 DEF Rows
      <4>3. w \in m[i].writes <=> w \in c.writes /\ (w.no = of.no => w.k <= m[i].steps)
        BY <1>4, <4>1
      <4>4. w \in m[Len(m)].writes <=> w \in c.writes /\ (w.no = of.no => w.k <= m[Len(m)].steps)
        BY <1>4, <4>1
      <4> QED
        BY <2>4, <4>1, <4>2, <4>3, <4>4
    <3>2. \A i \in 1 .. Len(n), j \in 1 .. Len(n) : j \in i .. Len(n) => j \in i .. Len(m)
      BY <2>1, <2>2
    <3>3. \A i \in 1 .. Len(n) : n[i].steps <= of.steps /\ \A j \in i .. Len(n) : n[i].steps <= n[j].steps
      <4> SUFFICES ASSUME NEW i \in 1 .. Len(n) PROVE n[i].steps <= of.steps /\ \A j \in i .. Len(n) : n[i].steps <= n[j].steps
        OBVIOUS
      <4>1. \A j \in i .. Len(n) : j \in 1 .. Len(n) /\ j \in i .. Len(m)
        BY <2>1, <2>2
      <4> QED
        BY <1>4, <2>2, <4>1
    <3> QED
      BY <2>4, <3>1, <3>3 DEF MarksHold
  <2> QED
    BY <2>4, <2>5, <2>6 DEF back, n, m, Mark
<1> QED
  BY <1>5, <1>6

LEMMA BlocksStep ==
  ASSUME DatabaseInv, NEW t \in Threads, InnerBlock(t) \/ InnerBlockEnds(t) \/ InnerBlockRaises(t)
  PROVE  DatabaseInv'
<1> DEFINE on == [conn[t] EXCEPT !.marks = Append(@, [writes |-> conn[t].writes, steps |-> call[t].steps + 1])]
           back == [Released(conn[t]) EXCEPT !.writes = RolledBack(conn[t])]
<1>0. /\ InTransaction(t) /\ Called(t) /\ call[t].pc = "body" /\ MarksHold(conn[t], call[t])
      /\ conn[t] \in ConnState /\ call[t] \in CallState /\ conn[t].writes \subseteq Rows
      /\ call[t].steps \in Nat
  <2>1. InTransaction(t) /\ Called(t) /\ call[t].pc = "body"
    BY DEF InnerBlock, InnerBlockEnds, InnerBlockRaises, Inner, InTransaction, Called
  <2> QED
    BY <2>1, CallFacts DEF Holding, CallState
<1>1. \A w \in conn[t].writes : w.no = call[t].no => w.k <= call[t].steps
  BY <1>0, CallFacts DEF InCall, Wrote
<1>2. UNCHANGED <<db, calls, wrote, committed>>
  BY DEF InnerBlock, InnerBlockEnds, InnerBlockRaises, historyVars, countVars
\* What a thread has to show for a block: its connection, and what was undone.
<1>3. ASSUME NEW c \in ConnState, NEW s \in CallState,
             conn' = [conn EXCEPT ![t] = c], call' = [call EXCEPT ![t] = s], MarksHold(c, s),
             s.pc = call[t].pc, s.no = call[t].no, s.steps >= call[t].steps,
             c.writes \subseteq conn[t].writes,
             \A w \in undone' \ undone : w \in Wrote(t), undone \subseteq undone',
             \A w \in conn[t].writes : w.no = call[t].no => (w \in c.writes <=> w \notin undone')
      PROVE  DatabaseInv'
  <2>1. conn'[t] = c /\ call'[t] = s /\ \A u \in Threads \ {t} : conn'[u] = conn[u] /\ call'[u] = call[u]
    BY <1>3, CallFacts
  <2>2. conn' \in [Threads -> ConnState] /\ call' \in [Threads -> CallState]
    BY <1>3, CallFacts
  <2>3. Wrote(t)' = Wrote(t) /\ Called(t)' /\ InTransaction(t)'
    BY <1>0, <1>2, <1>3, <2>1 DEF Wrote, Called, InTransaction
  <2>4. OwnStep(t)
    <3>1. undone' \subseteq wrote' /\ \A w \in undone' \ undone : w.no = call[t].no
      BY <1>2, <1>3, CallFacts DEF Wrote
    <3>2. conn'[t].writes \subseteq wrote'
      BY <1>2, <1>3, <2>1, CallFacts
    <3> QED
      BY <1>0, <1>2, <1>3, <2>1, <2>2, <3>1, <3>2, CallFacts DEF OwnStep
  <2>5. InCall(t)'
    <3>1. \A w \in Wrote(t) : w.k \in 1 .. s.steps /\ w.tx
      <4>1. s.steps \in Nat
        BY DEF CallState
      <4> QED
        BY <1>0, <1>3, <4>1, CallFacts DEF InCall
    <3> QED
      BY <1>0, <1>2, <1>3, <2>1, <2>3, <3>1, CallFacts DEF InCall, Called, InTransaction
  <2>6. Holding(t)'
    <3>1. \A w \in Wrote(t) : w \in c.writes <=> w \notin undone'
      BY <1>0, <1>3, CallFacts DEF Holding, Wrote
    <3>2. \A w \in c.writes : w.tx => w.no = s.no
      BY <1>3, CallFacts DEF Holding
    <3> QED
      BY <1>3, <2>1, <2>3, <3>1, <3>2 DEF Holding
  <2>7. \A w \in wrote' : w.no = call[t].no /\ w.tx => (w \in db' <=> w.no \in committed' /\ w \notin undone')
    BY <1>0, <1>2, CallFacts DEF InCall, Wrote
  <2> QED
    BY <2>4, <2>5, <2>6, <2>7, OneThreadSteps
<1>4. CASE InnerBlock(t)
  <2> DEFINE s == [call[t] EXCEPT !.steps = @ + 1]
  <2>1. conn' = [conn EXCEPT ![t] = on] /\ call' = [call EXCEPT ![t] = s] /\ UNCHANGED undone
    BY <1>4 DEF InnerBlock, Counted, historyVars
  <2>2. on \in ConnState /\ MarksHold(on, s)
    BY <1>0, <1>1, MarksAfter
  <2>3. s \in CallState /\ s.pc = call[t].pc /\ s.no = call[t].no /\ s.steps >= call[t].steps
    BY <1>0 DEF CallState
  <2>4. on.writes = conn[t].writes
    BY <1>0 DEF ConnState
  <2> HIDE DEF on, s
  <2>5. \A w \in conn[t].writes : w.no = call[t].no => (w \in on.writes <=> w \notin undone')
    BY <1>0, <2>1, <2>4, CallFacts DEF Holding, Wrote
  <2> QED
    BY <1>3, <2>1, <2>2, <2>3, <2>4, <2>5
<1>5. CASE InnerBlockEnds(t)
  <2>1. conn' = [conn EXCEPT ![t] = Released(conn[t])] /\ call' = [call EXCEPT ![t] = call[t]] /\ UNCHANGED undone
    BY <1>5, CallFacts DEF InnerBlockEnds, historyVars
  <2>2. Released(conn[t]) \in ConnState /\ MarksHold(Released(conn[t]), call[t])
    BY <1>0, <1>1, <1>5, MarksAfter DEF InnerBlockEnds, Inner
  <2>3. Released(conn[t]).writes = conn[t].writes
    BY <1>0 DEF ConnState, Released
  <2>4. \A w \in conn[t].writes : w.no = call[t].no => (w \in Released(conn[t]).writes <=> w \notin undone')
    BY <1>0, <2>1, <2>3, CallFacts DEF Holding, Wrote
  <2> DEFINE c == Released(conn[t])
             s == call[t]
  <2>5. s \in CallState /\ s.pc = call[t].pc /\ s.no = call[t].no /\ s.steps >= call[t].steps
    BY <1>0
  <2>6. c.writes \subseteq conn[t].writes /\ undone \subseteq undone' /\ \A w \in undone' \ undone : w \in Wrote(t)
    BY <2>1, <2>3
  <2>7. conn' = [conn EXCEPT ![t] = c] /\ call' = [call EXCEPT ![t] = s] /\ MarksHold(c, s) /\ c \in ConnState
    BY <2>1, <2>2
  <2>8. \A w \in conn[t].writes : w.no = call[t].no => (w \in c.writes <=> w \notin undone')
    BY <2>4
  <2> HIDE DEF c, s
  <2> QED
    BY <1>3, <2>5, <2>6, <2>7, <2>8
<1>6. CASE InnerBlockRaises(t)
  <2> DEFINE l == Len(conn[t].marks)
  <2>1. conn' = [conn EXCEPT ![t] = back] /\ call' = [call EXCEPT ![t] = call[t]]
        /\ undone' = undone \cup Since(t, conn[t].marks[l].steps) /\ conn[t].marks # <<>>
    BY <1>6, CallFacts DEF InnerBlockRaises, Inner
  <2>2. back \in ConnState /\ MarksHold(back, call[t])
    BY <1>0, <1>1, <2>1, MarksAfter
  <2>3. back.writes = conn[t].marks[l].writes
    BY <1>0 DEF ConnState, Released, RolledBack
  <2>4. /\ l \in 1 .. l /\ conn[t].marks[l].steps \in Nat
        /\ \A w \in Rows : w \in back.writes <=> w \in conn[t].writes /\ (w.no = call[t].no => w.k <= conn[t].marks[l].steps)
    <3>1. conn[t].marks \in Seq([writes : SUBSET Rows, steps : Nat]) /\ l \in Nat \ {0}
      BY <1>0, <2>1 DEF ConnState
    <3>2. l \in 1 .. l
      BY <3>1
    <3>3. conn[t].marks[l] \in [writes : SUBSET Rows, steps : Nat]
      BY <3>1, <3>2, ElementOfSeq
    <3> HIDE DEF back
    <3> QED
      BY <1>0, <2>3, <3>2, <3>3 DEF MarksHold
  <2>5. \A w \in Since(t, conn[t].marks[l].steps) : w \in Wrote(t)
    BY DEF Since, Wrote
  <2> HIDE DEF back
  <2>6. back.writes \subseteq conn[t].writes
    <3>1. back.writes \subseteq Rows
      BY <2>2 DEF ConnState
    <3> QED
      BY <2>4, <3>1
  <2>7. ASSUME NEW w \in conn[t].writes, w.no = call[t].no PROVE w \in back.writes <=> w \notin undone'
    <3>1. w \in Wrote(t) /\ w \in Rows /\ w \notin undone /\ w.k \in Nat
      BY <1>0, <2>7, CallFacts DEF Holding, Wrote, Rows
    <3>2. w \in undone' <=> w.k > conn[t].marks[l].steps
      BY <2>1, <2>7, <3>1 DEF Since, Wrote
    <3> QED
      BY <2>4, <2>7, <3>1, <3>2
  <2> DEFINE s == call[t]
  <2>8. s \in CallState /\ s.pc = call[t].pc /\ s.no = call[t].no /\ s.steps >= call[t].steps
    BY <1>0
  <2>9. undone \subseteq undone' /\ \A w \in undone' \ undone : w \in Wrote(t)
    BY <2>1, <2>5
  <2>10. conn' = [conn EXCEPT ![t] = back] /\ call' = [call EXCEPT ![t] = s] /\ MarksHold(back, s)
    BY <2>1, <2>2
  <2> HIDE DEF s
  <2> QED
    BY <1>3, <2>2, <2>6, <2>7, <2>8, <2>9, <2>10
<1> QED
  BY <1>4, <1>5, <1>6

LEMMA CallsBegin ==
  ASSUME DatabaseInv, NEW t \in Threads, CallRepository(t) \/ Enter(t)
  PROVE  DatabaseInv'
<1>0. DatabaseTyped /\ Numbered /\ TransactionAtomic /\ \A u \in Threads : InCall(u) /\ Holding(u)
  BY DEF DatabaseInv
<1>1. PICK pc \in {"bare", "mutex"} : call' = [call EXCEPT ![t] = [pc |-> pc, no |-> calls + 1, steps |-> 0]]
  BY DEF CallRepository, Enter, Starts
<1>2. /\ calls' = calls + 1 /\ call[t].pc = "idle" /\ calls \in Nat
      /\ UNCHANGED <<db, conn, wrote, committed, undone>>
  BY CallFacts DEF CallRepository, Enter, Starts, historyVars
<1>3. call' \in [Threads -> CallState]
  <2>1. [pc |-> pc, no |-> calls + 1, steps |-> 0] \in CallState
    BY <1>2 DEF CallState
  <2> QED
    BY <1>1, <2>1, CallFacts
<1>4. call'[t] = [pc |-> pc, no |-> calls + 1, steps |-> 0] /\ \A u \in Threads \ {t} : call'[u] = call[u]
  BY <1>1, CallFacts
<1>5. DatabaseTyped'
  BY <1>0, <1>2, <1>3 DEF DatabaseTyped
<1>6. \A u \in Threads : call[u].no \in Nat /\ call[u].no <= calls
  BY <1>0 DEF InCall, DatabaseTyped, CallState
<1>7. Wrote(t)' = {} /\ calls + 1 \notin committed
  <2>1. \A w \in wrote : w.no <= calls /\ w.no \in Nat
    BY <1>0 DEF Numbered, DatabaseTyped, Rows
  <2>2. Wrote(t)' = {}
    BY <1>2, <1>4, <2>1 DEF Wrote
  <2> QED
    BY <1>0, <1>2, <2>2 DEF DatabaseTyped
<1>8. Numbered'
  <2>1. \A w \in wrote : w.no \in Nat
    BY <1>0 DEF DatabaseTyped, Rows
  <2>2. \A w \in wrote' : w.no <= calls'
    BY <1>0, <1>2, <2>1 DEF Numbered
  <2>3. \A u \in Threads \ {t} : call'[u].no # call'[t].no
    BY <1>2, <1>4, <1>6
  <2> QED
    BY <1>0, <1>4, <2>2, <2>3 DEF Numbered, Called
<1>9. TransactionAtomic'
  BY <1>0, <1>2 DEF TransactionAtomic
<1>10. ASSUME NEW u \in Threads \ {t} PROVE InCall(u)' /\ Holding(u)'
  <2>1. call'[u] = call[u] /\ conn' = conn /\ InCall(u) /\ Holding(u)
    BY <1>0, <1>2, <1>4
  <2>2. InCall(u)'
    BY <1>2, <1>6, <2>1 DEF InCall, Called, Wrote, InTransaction
  <2> QED
    BY <1>2, <2>1, <2>2 DEF Holding, Wrote, InTransaction
<1>11. InCall(t)'
  BY <1>2, <1>4, <1>7 DEF InCall, Called
<1>12. Holding(t)'
  <2>1. \A w \in conn[t].writes : ~w.tx
    BY <1>0, <1>2 DEF Holding, InTransaction
  <2>2. conn[t].marks = <<>>
    BY <1>0, <1>2 DEF Holding, MarksHold
  <2> QED
    BY <1>2, <1>7, <2>1, <2>2 DEF Holding, MarksHold
<1> QED
  BY <1>5, <1>8, <1>9, <1>10, <1>11, <1>12 DEF DatabaseInv

LEMMA ProcessesDie ==
  ASSUME DatabaseInv, NEW p, Die(p)
  PROVE  DatabaseInv'
<1>0. DatabaseTyped /\ Numbered /\ TransactionAtomic /\ \A u \in Threads : InCall(u) /\ Holding(u)
  BY DEF DatabaseInv
<1> DEFINE of == {t \in Threads : ProcessOf[t] = p}
           lost == UNION {Since(t, 0) : t \in {u \in of : InTransaction(u)}}
<1>1. /\ conn' = [t \in Threads |-> IF t \in of THEN NoTransaction ELSE conn[t]]
      /\ call' = [t \in Threads |-> IF t \in of THEN [call[t] EXCEPT !.pc = "idle"] ELSE call[t]]
      /\ undone' = undone \cup lost
      /\ UNCHANGED <<db, calls, wrote, committed>>
  BY DEF Die
<1>2. \A t \in Threads : /\ t \in of => conn'[t] = NoTransaction /\ call'[t] = [call[t] EXCEPT !.pc = "idle"]
                         /\ t \notin of => conn'[t] = conn[t] /\ call'[t] = call[t]
  BY <1>1
<1>3. \A w \in lost : \E t \in of : InTransaction(t) /\ w \in Wrote(t)
  BY DEF Since, Wrote
<1>4. \A t \in of : InTransaction(t) => Wrote(t) \subseteq lost
  <2> SUFFICES ASSUME NEW t \in of, InTransaction(t) PROVE Wrote(t) \subseteq Since(t, 0)
    OBVIOUS
  <2>1. \A w \in Wrote(t) : w.k > 0
    BY <1>0 DEF InCall, Called, InTransaction, DatabaseTyped, CallState
  <2> QED
    BY <2>1 DEF Since, Wrote
<1> HIDE DEF lost, of
<1>5. DatabaseTyped'
  <2>1. conn' \in [Threads -> ConnState] /\ call' \in [Threads -> CallState]
    <3>1. NoTransaction \in ConnState
      BY DEF NoTransaction, ConnState
    <3>2. \A t \in Threads : [call[t] EXCEPT !.pc = "idle"] \in CallState /\ call[t] \in CallState /\ conn[t] \in ConnState
      BY <1>0 DEF DatabaseTyped, CallState
    <3> QED
      BY <1>1, <3>1, <3>2
  <2>2. \A t \in Threads : conn'[t].writes \subseteq wrote
    <3>1. NoTransaction.writes = {}
      BY DEF NoTransaction
    <3> QED
      BY <1>0, <1>2, <3>1 DEF DatabaseTyped
  <2>3. undone' \subseteq wrote
    BY <1>0, <1>1, <1>3 DEF DatabaseTyped, Wrote
  <2> QED
    BY <1>0, <1>1, <2>1, <2>2, <2>3 DEF DatabaseTyped
<1>6. \A t \in Threads : call'[t].no = call[t].no /\ (Called(t)' => t \notin of /\ Called(t) /\ call'[t] = call[t] /\ conn'[t] = conn[t])
  <2> SUFFICES ASSUME NEW t \in Threads
                PROVE  call'[t].no = call[t].no /\ (Called(t)' => t \notin of /\ Called(t) /\ call'[t] = call[t] /\ conn'[t] = conn[t])
    OBVIOUS
  <2>1. call[t] \in CallState
    BY <1>0 DEF DatabaseTyped
  <2> QED
    BY <1>2, <2>1 DEF CallState, Called
<1>7. Numbered'
  BY <1>0, <1>1, <1>6 DEF Numbered
<1>8. TransactionAtomic'
  <2> SUFFICES ASSUME NEW w \in wrote, w.tx, w \in lost PROVE ~(w \in db) /\ w.no \notin committed
    BY <1>0, <1>1 DEF TransactionAtomic
  <2>1. PICK t \in of : InTransaction(t) /\ w \in Wrote(t)
    BY <1>3
  <2>2. w.no \notin committed
    BY <1>0, <2>1 DEF InCall, Called, InTransaction, Wrote, of
  <2> QED
    BY <1>0, <2>2 DEF TransactionAtomic
<1>9. ASSUME NEW t \in Threads PROVE InCall(t)' /\ Holding(t)'
  <2>1. CASE Called(t)'
    <3>1. t \notin of /\ Called(t) /\ call'[t] = call[t] /\ conn'[t] = conn[t] /\ InCall(t) /\ Holding(t)
      BY <1>0, <1>6, <2>1
    <3>2. \A w \in Wrote(t) : w \notin lost
      <4> SUFFICES ASSUME NEW w \in Wrote(t), w \in lost PROVE FALSE
        OBVIOUS
      <4>1. PICK u \in of : InTransaction(u) /\ w \in Wrote(u)
        BY <1>3
      <4>2. call[u].no = call[t].no /\ Called(u) /\ u \in Threads
        BY <4>1 DEF Wrote, InTransaction, Called, of
      <4> QED
        BY <1>0, <3>1, <4>1, <4>2 DEF Numbered
    <3>3. InCall(t)'
      BY <1>1, <3>1 DEF InCall, Called, Wrote, InTransaction
    <3> QED
      BY <1>1, <3>1, <3>2, <3>3 DEF Holding, Wrote, InTransaction
  <2>2. CASE ~Called(t)'
    <3>1. call'[t].pc = "idle" /\ call'[t].no = call[t].no
      BY <1>6, <2>2 DEF Called
    <3>2. (\A w \in conn'[t].writes : ~w.tx) /\ conn'[t].marks = <<>>
      <4>1. CASE t \in of
        <5>1. NoTransaction.writes = {} /\ NoTransaction.marks = <<>>
          BY DEF NoTransaction
        <5> QED
          BY <1>2, <4>1, <5>1
      <4>2. CASE t \notin of
        BY <1>0, <1>2, <3>1, <4>2 DEF Holding, MarksHold, InTransaction
      <4> QED
        BY <4>1, <4>2
    <3>3. InCall(t)'
      BY <1>0, <1>1, <2>2, <3>1 DEF InCall
    <3> QED
      BY <3>1, <3>2, <3>3 DEF Holding, MarksHold, InTransaction
  <2> QED
    BY <2>1, <2>2
<1> QED
  BY <1>5, <1>7, <1>8, <1>9 DEF DatabaseInv

\* Whatever repositories commit or leave open, blocks take back and processes die of:
\* a transaction is in the file as a whole once it has ended well, and not at all else.
THEOREM TransactionsAtomic == DatabaseSpec => []TransactionAtomic
<1>1. DatabaseInv /\ [DatabaseNext]_dbVars => DatabaseInv'
  <2> SUFFICES ASSUME DatabaseInv, [DatabaseNext]_dbVars PROVE DatabaseInv'
    OBVIOUS
  <2>1. ASSUME NEW t \in Threads, CallStep(t) PROVE DatabaseInv'
    <3>1. CASE RepositoryCommit(t)
      BY <3>1, CallsEndWell, EntersTransaction DEF RepositoryCommit
    <3> QED
      BY <2>1, <3>1, StatementsStep, CallsEndWell, EntersTransaction, BlocksStep DEF CallStep
  <2>2. ASSUME NEW t \in Threads, CallRepository(t) \/ Enter(t) PROVE DatabaseInv'
    BY <2>2, CallsBegin
  <2>3. ASSUME NEW p, Die(p) PROVE DatabaseInv'
    BY <2>3, ProcessesDie
  <2> QED
    BY <2>1, <2>2, <2>3, DatabaseUnchanged DEF DatabaseNext
<1>2. DatabaseInv => TransactionAtomic
  BY DEF DatabaseInv
<1> QED
  BY <1>1, <1>2, DatabaseBegins, PTL DEF DatabaseSpec

-----------------------------------------------------------------------------
(***************************************************************************)
(* Backups and restores.  From the first move of a restore on, what it     *)
(* found is set aside, or the copy stands in its place; and whatever a     *)
(* daemon is about to delete is older than an archive that is there.       *)
(***************************************************************************)
BackupsSpec == BackupsInit /\ [][BackupsNext]_backupVars

Held == Nat \X Nat
Archives == [at : Nat, holds : Held]
RunState == [pc : {"idle", "locking", "stealing", "dump", "dumping", "encrypted", "hidden", "prune", "pruning",
                   "leaving", "ended"},
             dump : Held, at : Nat, doomed : SUBSET Archives]

BackupsTyped ==
  /\ run \in [Writers -> RunState]
  /\ disk \subseteq Archives /\ written \in Nat /\ newest \in Nat
  /\ live \in Held \cup {Missing}
  /\ serving \in BOOLEAN
  /\ \A w \in Writers : run[w].pc = "dumping" => live # Missing
  /\ restore \in [pc : {"none", "ended", "killed"} \cup Moving, old : Held \cup {Missing}, copy : Held \cup {Missing}]

\* Where the database is that a restore found.
Restoring ==
  /\ serving => live # Missing
  /\ restore.pc # "none" => ~serving /\ restore.old \in Held /\ restore.copy \in Held
  /\ restore.pc = "staged" => live = restore.old
  /\ restore.pc \in {"aside", "installed", "undo"} => restore.old \in aside
  /\ restore.pc = "installed" => live = restore.copy
  /\ restore.pc = "killed" => restore.old \in {live} \cup aside \/ live = restore.copy
  /\ restore.pc = "ended" => live \in {restore.old, restore.copy}

NewestKept ==
  /\ newest > 0 => \E a \in disk : a.at = newest
  /\ \A a \in disk : a.at <= newest
  /\ \A w \in Writers : \A a \in run[w].doomed : a.at < newest

BackupInv == BackupsTyped /\ Restoring /\ NewestKept

LEMMA BackupsBegin == BackupsInit => BackupInv
<1> SUFFICES ASSUME BackupsInit PROVE BackupInv
  OBVIOUS
<1>1. Empty \in Held
  BY DEF Empty, Held
<1>2. NoRun \in RunState /\ NoRun.pc = "idle" /\ NoRun.doomed = {}
  BY <1>1 DEF NoRun, RunState
<1>3. run \in [Writers -> RunState] /\ \A w \in Writers : run[w].pc = "idle" /\ run[w].doomed = {}
  BY <1>2 DEF BackupsInit
<1>4. restore.pc = "none"
  BY DEF BackupsInit, NotRestoring
<1>5. restore \in [pc : {"none", "ended", "killed"} \cup Moving, old : Held \cup {Missing}, copy : Held \cup {Missing}]
  BY DEF BackupsInit, NotRestoring
<1>6. disk = {} /\ written = 0 /\ newest = 0 /\ live = Empty /\ serving = TRUE
  BY DEF BackupsInit
<1> QED
  BY <1>1, <1>3, <1>4, <1>5, <1>6, BackupLimits DEF BackupInv, BackupsTyped, Restoring, NewestKept, Held

\* Contents of the file, and dumps of it.
LEMMA DumpsTyped ==
  ASSUME BackupsTyped
  PROVE  /\ Opened \in Held /\ (live \in Held => Opened = live)
         /\ \A w \in Writers : run[w].pc = "dumping" => /\ Dumped(w) \in RunState
                                                       /\ Dumped(w).doomed = run[w].doomed
                                                       /\ Dumped(w).pc = "encrypted"
<1>1. Empty \in Held /\ Missing \notin Held
  BY BackupLimits DEF Empty, Held
<1>2. Opened \in Held /\ (live \in Held => Opened = live)
  BY <1>1 DEF Opened, BackupsTyped
<1>3. ASSUME NEW w \in Writers, run[w].pc = "dumping"
      PROVE  Dumped(w) \in RunState /\ Dumped(w).doomed = run[w].doomed /\ Dumped(w).pc = "encrypted"
  <2>1. run[w] \in RunState /\ live \in Held
    BY <1>3 DEF BackupsTyped
  <2>2. run[w].dump \in Held /\ live[2] \in Nat
    BY <2>1 DEF RunState, Held
  <2>3. [run[w].dump EXCEPT ![2] = live[2]] \in Held
    BY <2>2 DEF Held
  <2>4. Dumped(w) = [run[w] EXCEPT !.pc = "encrypted", !.dump = [run[w].dump EXCEPT ![2] = live[2]]]
    BY DEF Dumped
  <2> QED
    BY <2>1, <2>3, <2>4 DEF RunState
<1> QED
  BY <1>2, <1>3

\* What a step of one writer has to be: its next state is one, and it dumps only a
\* file that is there.
LEMMA WriterMoves ==
  ASSUME BackupsTyped, NEW w \in Writers, NEW s \in RunState, run' = [run EXCEPT ![w] = s],
         s.pc = "dumping" => live' # Missing, live' = live \/ live' = Opened
  PROVE  /\ run' \in [Writers -> RunState] /\ live' \in Held \cup {Missing}
         /\ \A v \in Writers : run'[v].pc = "dumping" => live' # Missing
<1>1. run' \in [Writers -> RunState] /\ \A v \in Writers \ {w} : run'[v] = run[v]
  BY DEF BackupsTyped
<1>2. run'[w] = s
  BY DEF BackupsTyped
<1>3. live' \in Held \cup {Missing} /\ (live # Missing => live' # Missing)
  BY DumpsTyped, BackupLimits DEF BackupsTyped, Held
<1> QED
  BY <1>1, <1>2, <1>3 DEF BackupsTyped

LEMMA RunsTyped ==
  ASSUME BackupsTyped, NEW w \in Writers
  PROVE  /\ run[w] \in RunState /\ NoRun \in RunState /\ NoRun.pc = "idle" /\ NoRun.doomed = {}
         /\ [NoRun EXCEPT !.pc = "ended"] \in RunState /\ [NoRun EXCEPT !.pc = "ended"].pc = "ended"
         /\ [NoRun EXCEPT !.pc = "ended"].doomed = {}
         /\ \A pc \in {"idle", "locking", "stealing", "dump", "dumping", "encrypted", "hidden", "prune", "pruning", "leaving", "ended"} :
              /\ [run[w] EXCEPT !.pc = pc] \in RunState /\ [run[w] EXCEPT !.pc = pc].pc = pc
              /\ [run[w] EXCEPT !.pc = pc].doomed = run[w].doomed
<1>1. Empty \in Held
  BY DEF Empty, Held
<1>2. run[w] \in RunState
  BY DEF BackupsTyped
<1>3. /\ NoRun \in RunState /\ NoRun.pc = "idle" /\ NoRun.doomed = {}
      /\ [NoRun EXCEPT !.pc = "ended"] \in RunState /\ [NoRun EXCEPT !.pc = "ended"].pc = "ended"
      /\ [NoRun EXCEPT !.pc = "ended"].doomed = {}
  BY <1>1 DEF NoRun, RunState
<1>4. ASSUME NEW pc \in {"idle", "locking", "stealing", "dump", "dumping", "encrypted", "hidden", "prune", "pruning", "leaving", "ended"}
      PROVE  /\ [run[w] EXCEPT !.pc = pc] \in RunState /\ [run[w] EXCEPT !.pc = pc].pc = pc
             /\ [run[w] EXCEPT !.pc = pc].doomed = run[w].doomed
  BY <1>2 DEF RunState
<1> QED
  BY <1>2, <1>3, <1>4

LEMMA RunsOn ==
  ASSUME BackupsTyped, NEW w \in Writers
  PROVE  \A q \in {"idle", "locking", "stealing", "dump", "dumping", "encrypted", "hidden", "prune", "pruning", "leaving", "ended"} :
           Runs(w, q) => \E s \in RunState : run' = [run EXCEPT ![w] = s] /\ s.pc = q /\ s.doomed = run[w].doomed
<1> SUFFICES ASSUME NEW q \in {"idle", "locking", "stealing", "dump", "dumping", "encrypted", "hidden", "prune", "pruning",
                               "leaving", "ended"},
                    Runs(w, q)
             PROVE  \E s \in RunState : run' = [run EXCEPT ![w] = s] /\ s.pc = q /\ s.doomed = run[w].doomed
  OBVIOUS
<1> DEFINE s == [run[w] EXCEPT !.pc = q]
<1>1. run[w] \in RunState
  BY DEF BackupsTyped
<1>2. s \in RunState /\ s.pc = q /\ s.doomed = run[w].doomed
  BY <1>1 DEF RunState
<1>3. run' = [run EXCEPT ![w] = s]
  BY DEF Runs
<1> QED
  BY <1>2, <1>3

\* Steps of a writer that publish nothing and delete nothing.
Quietly(w) ==
  /\ UNCHANGED <<disk, newest, restore, aside>>
  /\ \E s \in RunState : run' = [run EXCEPT ![w] = s] /\ s.doomed \subseteq run[w].doomed /\ (s.pc = "dumping" => live' # Missing)
  /\ live' = live \/ live' = Opened
  /\ written' \in Nat
  /\ serving' \in BOOLEAN /\ (serving' => serving)

LEMMA QuietSteps ==
  ASSUME BackupInv, NEW w \in Writers, Quietly(w)
  PROVE  BackupInv'
<1>0. BackupsTyped /\ Restoring /\ NewestKept
  BY DEF BackupInv
<1>1. PICK s \in RunState : /\ run' = [run EXCEPT ![w] = s] /\ s.doomed \subseteq run[w].doomed
                            /\ (s.pc = "dumping" => live' # Missing)
  BY DEF Quietly
<1>2. UNCHANGED <<disk, newest, restore, aside>> /\ (live' = live \/ live' = Opened) /\ written' \in Nat
      /\ serving' \in BOOLEAN /\ (serving' => serving)
  BY DEF Quietly
<1>3. BackupsTyped'
  <2>1. /\ run' \in [Writers -> RunState] /\ live' \in Held \cup {Missing}
        /\ \A v \in Writers : run'[v].pc = "dumping" => live' # Missing
    BY <1>0, <1>1, <1>2, WriterMoves
  <2> QED
    BY <1>0, <1>2, <2>1 DEF BackupsTyped
<1>4. Restoring'
  <2>1. live' = live \/ (live \notin Held /\ live' \in Held)
    BY <1>0, <1>2, DumpsTyped DEF BackupsTyped
  <2> QED
    BY <1>0, <1>2, <2>1, BackupLimits DEF Restoring, Held
<1>5. NewestKept'
  <2>1. \A v \in Writers : run'[v].doomed \subseteq run[v].doomed
    BY <1>0, <1>1 DEF BackupsTyped
  <2> QED
    BY <1>0, <1>2, <2>1 DEF NewestKept
<1> QED
  BY <1>3, <1>4, <1>5 DEF BackupInv

LEMMA QuietWriters ==
  ASSUME BackupInv, NEW w \in Writers,
         \/ w \in Daemons /\ (BeginRun(w) \/ TakeLock(w) \/ Steal(w) \/ ListingRaises(w) \/ RecordRun(w) \/ Unlock(w))
         \/ w = Command /\ BeginCommand
         \/ w = Embedded /\ StopServer
         \/ DumpFirst(w) \/ DumpRest(w) \/ WriteHidden(w) \/ RunFails(w) \/ IsKilled(w)
  PROVE  Quietly(w)
<1>0. BackupsTyped /\ (restore.pc # "none" => ~serving) /\ serving \in BOOLEAN /\ written \in Nat
  BY DEF BackupInv, Restoring, BackupsTyped
<1>r. UNCHANGED <<disk, newest, restore, aside>>
  BY DEF BeginRun, TakeLock, Steal, ListingRaises, RecordRun, Unlock, BeginCommand, StopServer, DumpFirst, DumpRest,
     WriteHidden, RunFails, IsKilled, fileVars
<1>1. (live' = live \/ live' = Opened) /\ written' \in Nat /\ serving' \in BOOLEAN /\ (serving' => serving)
  <2>1. live' = live \/ live' = Opened
    BY DEF BeginRun, TakeLock, Steal, ListingRaises, RecordRun, Unlock, BeginCommand, StopServer, DumpFirst, DumpRest,
       WriteHidden, RunFails, IsKilled, fileVars
  <2>2. written' \in {written, written + 1}
    BY DEF BeginRun, TakeLock, Steal, ListingRaises, RecordRun, Unlock, BeginCommand, StopServer, DumpFirst, DumpRest,
       WriteHidden, RunFails, IsKilled
  <2>3. serving' \in BOOLEAN /\ (serving' => serving)
    <3>1. IsKilled(w) => serving' = (serving /\ w # Embedded)
      BY DEF IsKilled
    <3>2. StopServer => serving' = FALSE
      BY DEF StopServer
    <3>3. UNCHANGED serving \/ IsKilled(w) \/ StopServer
      BY DEF BeginRun, TakeLock, Steal, ListingRaises, RecordRun, Unlock, BeginCommand, DumpFirst, DumpRest, WriteHidden,
         RunFails, fileVars
    <3>4. CASE IsKilled(w)
      <4>1. (serving /\ w # Embedded) \in BOOLEAN /\ ((serving /\ w # Embedded) => serving)
        OBVIOUS
      <4> QED
        BY <3>1, <3>4, <4>1
    <3>5. CASE StopServer
      BY <3>2, <3>5
    <3>6. CASE UNCHANGED serving
      BY <1>0, <3>6
    <3> QED
      BY <3>3, <3>4, <3>5, <3>6
  <2> QED
    BY <1>0, <2>1, <2>2, <2>3
<1>2. SUFFICES \E s \in RunState : run' = [run EXCEPT ![w] = s] /\ s.doomed \subseteq run[w].doomed /\ (s.pc = "dumping" => live' # Missing)
  BY <1>0, <1>r, <1>1 DEF Quietly
<1>3. ASSUME NEW pc \in {"idle", "locking", "stealing", "dump", "encrypted", "hidden", "leaving", "ended"}, Runs(w, pc)
      PROVE  \E s \in RunState : run' = [run EXCEPT ![w] = s] /\ s.doomed \subseteq run[w].doomed /\ (s.pc = "dumping" => live' # Missing)
  <2>1. PICK s \in RunState : run' = [run EXCEPT ![w] = s] /\ s.pc = pc /\ s.doomed = run[w].doomed
    <3>1. \A q \in {"idle", "locking", "stealing", "dump", "dumping", "encrypted", "hidden", "prune", "pruning", "leaving", "ended"} :
            Runs(w, q) => \E s \in RunState : run' = [run EXCEPT ![w] = s] /\ s.pc = q /\ s.doomed = run[w].doomed
      BY <1>0, RunsOn
    <3> QED
      BY <1>3, <3>1
  <2> QED
    BY <2>1
<1>4. ASSUME run' = [run EXCEPT ![w] = NoRun] \/ run' = [run EXCEPT ![w] = [NoRun EXCEPT !.pc = "ended"]]
      PROVE  \E s \in RunState : run' = [run EXCEPT ![w] = s] /\ s.doomed \subseteq run[w].doomed /\ (s.pc = "dumping" => live' # Missing)
  BY <1>0, <1>4, RunsTyped
<1>5. CASE w \in Daemons /\ (BeginRun(w) \/ Steal(w) \/ ListingRaises(w) \/ RecordRun(w) \/ Unlock(w))
  BY <1>3, <1>4, <1>5 DEF BeginRun, Steal, ListingRaises, RecordRun, Unlock
<1>6. CASE w \in Daemons /\ TakeLock(w)
  BY <1>3, <1>6 DEF TakeLock
<1>7. CASE w = Command /\ BeginCommand
  BY <1>3, <1>7 DEF BeginCommand
<1>8. CASE w = Embedded /\ StopServer
  BY <1>4, <1>8 DEF StopServer
<1>9. CASE RunFails(w) \/ IsKilled(w)
  BY <1>3, <1>4, <1>9 DEF RunFails, IsKilled
<1>10. CASE DumpFirst(w)
  <2> DEFINE s == [run[w] EXCEPT !.pc = "dumping", !.dump = <<Opened[1], Opened[1]>>]
  <2>1. run' = [run EXCEPT ![w] = s] /\ live' = Opened
    BY <1>10 DEF DumpFirst
  <2>2. <<Opened[1], Opened[1]>> \in Held /\ Opened # Missing
    BY <1>0, DumpsTyped, BackupLimits DEF Held
  <2>3. run[w] \in RunState
    BY <1>0 DEF BackupsTyped
  <2>4. s \in RunState /\ s.doomed = run[w].doomed
    BY <2>2, <2>3 DEF RunState
  <2> QED
    BY <2>1, <2>2, <2>4
<1>11. CASE DumpRest(w)
  BY <1>0, <1>11, DumpsTyped DEF DumpRest
<1>12. CASE WriteHidden(w)
  <2> DEFINE s == [run[w] EXCEPT !.pc = "hidden", !.at = written + 1]
  <2>1. run' = [run EXCEPT ![w] = s]
    BY <1>12 DEF WriteHidden
  <2>0. run[w] \in RunState
    BY <1>0 DEF BackupsTyped
  <2>2. s \in RunState /\ s.doomed = run[w].doomed /\ s.pc = "hidden"
    <3>1. written + 1 \in Nat
      BY <1>0
    <3> QED
      BY <2>0, <3>1 DEF RunState
  <2> QED
    BY <2>1, <2>2
<1> QED
  BY <1>5, <1>6, <1>7, <1>8, <1>9, <1>10, <1>11, <1>12

\* An archive is put in place, listed, deleted.
LEMMA PublishStep ==
  ASSUME BackupInv, NEW w \in Writers, Publish(w)
  PROVE  BackupInv'
<1>0. BackupsTyped /\ Restoring /\ NewestKept
  BY DEF BackupInv
<1> DEFINE a == [at |-> run[w].at, holds |-> run[w].dump]
<1>1. a \in Archives /\ a.at = run[w].at /\ run[w].at \in Nat /\ newest \in Nat
  BY <1>0, RunsTyped DEF Archives, RunState, BackupsTyped
<1>2. disk' = disk \cup {a} /\ newest' = IF run[w].at > newest THEN run[w].at ELSE newest
  BY DEF Publish
<1>3. UNCHANGED <<live, aside, serving, restore, written>>
  BY DEF Publish, fileVars
<1>4. PICK s \in RunState : run' = [run EXCEPT ![w] = s] /\ s.pc # "dumping" /\ s.doomed \subseteq run[w].doomed
  <2>1. CASE w = Command
    BY <1>0, <2>1, RunsTyped DEF Publish
  <2>2. CASE w # Command
    <3>1. Runs(w, "prune")
      BY <2>2 DEF Publish
    <3>2. Runs(w, "prune") => \E s \in RunState : run' = [run EXCEPT ![w] = s] /\ s.pc = "prune" /\ s.doomed = run[w].doomed
      BY <1>0, RunsOn
    <3> QED
      BY <3>1, <3>2
  <2> QED
    BY <2>1, <2>2
<1>5. BackupsTyped'
  <2>1. /\ run' \in [Writers -> RunState] /\ \A v \in Writers : run'[v].pc = "dumping" => live' # Missing
    BY <1>0, <1>3, <1>4, WriterMoves
  <2> QED
    BY <1>0, <1>1, <1>2, <1>3, <2>1 DEF BackupsTyped
<1>6. Restoring'
  BY <1>0, <1>3 DEF Restoring
<1>7. NewestKept'
  <2>1. \A v \in Writers : run'[v].doomed \subseteq run[v].doomed /\ run[v].doomed \subseteq Archives
    BY <1>0, <1>4 DEF BackupsTyped, RunState
  <2>2. newest' \in Nat /\ newest <= newest' /\ run[w].at <= newest' /\ (newest' = newest \/ newest' = a.at)
    BY <1>1, <1>2
  <2>3. \A x \in disk : x.at \in Nat
    BY <1>0 DEF BackupsTyped, Archives
  <2>4. \A x \in Archives : x.at < newest => x.at < newest'
    BY <1>1, <2>2 DEF Archives
  <2>5. \A x \in disk' : x.at <= newest'
    BY <1>0, <1>1, <1>2, <2>2, <2>3 DEF NewestKept
  <2>6. \A v \in Writers : \A x \in run'[v].doomed : x.at < newest'
    BY <1>0, <2>1, <2>4 DEF NewestKept
  <2> HIDE DEF a
  <2>7. newest' > 0 => \E x \in disk' : x.at = newest'
    BY <1>0, <1>2, <2>2 DEF NewestKept
  <2> QED
    BY <2>5, <2>6, <2>7 DEF NewestKept
<1> QED
  BY <1>5, <1>6, <1>7 DEF BackupInv

LEMMA PruneSteps ==
  ASSUME BackupInv, NEW d \in Daemons, ListArchives(d) \/ PruneOne(d)
  PROVE  BackupInv'
<1>0. BackupsTyped /\ Restoring /\ NewestKept /\ d \in Writers
  BY DEF BackupInv, Writers
<1>1. UNCHANGED <<live, aside, serving, restore, written, newest>> /\ disk' \subseteq disk /\ run[d].pc \in {"prune", "pruning"}
  BY DEF ListArchives, PruneOne, fileVars
<1>2. PICK gone \in SUBSET Archives, pc \in {"pruning"} :
        run' = [run EXCEPT ![d] = [run[d] EXCEPT !.pc = pc, !.doomed = gone]] /\ \A a \in gone : a.at < newest
  <2>1. CASE ListArchives(d)
    <3>1. Doomed \subseteq Archives /\ \A a \in Doomed : a.at < newest
      <4> SUFFICES ASSUME NEW a \in Doomed PROVE a \in Archives /\ a.at < newest
        OBVIOUS
      <4>1. a \in disk /\ Cardinality({b \in disk : b.at > a.at}) >= Retention
        BY DEF Doomed
      <4>2. {b \in disk : b.at > a.at} # {}
        <5>1. Cardinality({}) = 0 /\ Retention \in Nat \ {0}
          BY BackupLimits, FS_EmptySet
        <5> QED
          BY <4>1, <5>1
      <4>3. PICK b \in disk : b.at > a.at
        BY <4>2
      <4> QED
        BY <1>0, <4>1, <4>3 DEF BackupsTyped, Archives, NewestKept
    <3>2. run' = [run EXCEPT ![d] = [run[d] EXCEPT !.pc = "pruning", !.doomed = Doomed]]
      BY <2>1 DEF ListArchives
    <3> QED
      BY <3>1, <3>2
  <2>2. CASE PruneOne(d)
    <3>1. PICK a \in run[d].doomed : run' = [run EXCEPT ![d].doomed = @ \ {a}]
      BY <2>2 DEF PruneOne
    <3>2. run[d].pc = "pruning" /\ run[d] \in RunState
      BY <1>0, <2>2 DEF PruneOne, BackupsTyped
    <3>3. run' = [run EXCEPT ![d] = [run[d] EXCEPT !.pc = "pruning", !.doomed = run[d].doomed \ {a}]]
      BY <3>1, <3>2 DEF RunState
    <3>4. run[d].doomed \ {a} \in SUBSET Archives
      BY <3>2 DEF RunState
    <3> QED
      BY <1>0, <3>3, <3>4 DEF NewestKept
  <2> QED
    BY <2>1, <2>2
<1>3. run' \in [Writers -> RunState] /\ run'[d].doomed = gone /\ run'[d].pc = "pruning" /\ \A v \in Writers \ {d} : run'[v] = run[v]
  <2>1. run[d] \in RunState
    BY <1>0 DEF BackupsTyped
  <2> DEFINE s == [run[d] EXCEPT !.pc = pc, !.doomed = gone]
  <2>2. s \in RunState /\ s.doomed = gone /\ s.pc = "pruning"
    BY <2>1 DEF RunState
  <2> HIDE DEF s
  <2>3. run' = [run EXCEPT ![d] = s]
    BY <1>2 DEF s
  <2> QED
    BY <1>0, <2>2, <2>3 DEF BackupsTyped
<1>4. BackupsTyped'
  BY <1>0, <1>1, <1>3 DEF BackupsTyped
<1>5. Restoring'
  BY <1>0, <1>1 DEF Restoring
<1>6. newest > 0 => \E a \in disk' : a.at = newest
  <2>1. \A a \in disk \ disk' : a.at # newest
    <3>1. \A a \in run[d].doomed : a.at # newest
      BY <1>0, RunsTyped DEF NewestKept, BackupsTyped, RunState, Archives
    <3> QED
      BY <3>1 DEF ListArchives, PruneOne
  <2> QED
    BY <1>0, <2>1 DEF NewestKept
<1>7. NewestKept'
  BY <1>0, <1>1, <1>2, <1>3, <1>6 DEF NewestKept
<1> QED
  BY <1>4, <1>5, <1>7 DEF BackupInv

\* Moves of a restore: the file is replaced under the dumps that are reading it.
LEMMA ReplaceSteps ==
  ASSUME BackupInv, NEW content \in Held \cup {Missing}, Replaces(content)
  PROVE  /\ run' \in [Writers -> RunState] /\ \A w \in Writers : run'[w].pc # "dumping" /\ run'[w].doomed = run[w].doomed
         /\ NewestKept' /\ live' = content /\ UNCHANGED <<serving, disk, written, newest>>
<1>0. BackupsTyped /\ NewestKept
  BY DEF BackupInv
<1>1. /\ run' = [w \in Writers |-> IF run[w].pc = "dumping" THEN Dumped(w) ELSE run[w]]
      /\ live' = content /\ UNCHANGED <<serving, disk, written, newest>>
  BY DEF Replaces
<1>2. \A w \in Writers : (IF run[w].pc = "dumping" THEN Dumped(w) ELSE run[w]) \in RunState
  BY <1>0, DumpsTyped, RunsTyped
<1>3. run' \in [Writers -> RunState] /\ \A w \in Writers : run'[w].pc # "dumping" /\ run'[w].doomed = run[w].doomed
  BY <1>0, <1>1, <1>2, DumpsTyped
<1> QED
  BY <1>0, <1>1, <1>3 DEF NewestKept

LEMMA RestoreSteps ==
  ASSUME BackupInv, BeginRestore \/ SetAside \/ Install \/ DropOld \/ MoveFails \/ PutBack \/ RestoreIsKilled
  PROVE  BackupInv'
<1>0. BackupsTyped /\ Restoring /\ NewestKept
  BY DEF BackupInv
<1> DEFINE Stages == [pc : {"none", "ended", "killed"} \cup Moving, old : Held \cup {Missing}, copy : Held \cup {Missing}]
<1>1. restore \in Stages /\ \A pc \in {"none", "ended", "killed"} \cup Moving :
        Restores(pc) => restore' \in Stages /\ restore'.pc = pc /\ restore'.old = restore.old /\ restore'.copy = restore.copy
  BY <1>0 DEF BackupsTyped, Restores
<1> HIDE DEF Stages
<1>2. CASE BeginRestore
  <2>1. live' = Opened /\ Opened \in Held /\ live' # Missing /\ ~serving
        /\ UNCHANGED <<aside, serving, disk, run, written, newest>>
    BY <1>0, <1>2, DumpsTyped, BackupLimits DEF BeginRestore, archiveVars, Held
  <2>2. \/ restore' = NotRestoring
        \/ \E a \in disk : restore' = [pc |-> "staged", old |-> Opened, copy |-> a.holds]
    BY <1>2 DEF BeginRestore
  <2>3. \A a \in disk : a.holds \in Held
    BY <1>0 DEF BackupsTyped, Archives
  <2>4. restore' \in Stages /\ (restore'.pc # "none" => restore'.pc = "staged" /\ restore'.old = live' /\ restore'.copy \in Held)
    BY <2>1, <2>2, <2>3 DEF NotRestoring, Moving, Stages
  <2>5. BackupsTyped'
    BY <1>0, <2>1, <2>4 DEF BackupsTyped, Stages
  <2>6. Restoring'
    BY <2>1, <2>4 DEF Restoring
  <2> QED
    BY <1>0, <2>1, <2>5, <2>6 DEF BackupInv, NewestKept
<1>3. CASE SetAside
  <2>1. /\ restore.pc = "staged" /\ live = restore.old /\ ~serving /\ restore.old \in Held /\ restore.copy \in Held
        /\ aside' = aside \cup {live} /\ Replaces(Missing)
        /\ restore' \in Stages /\ restore'.pc = "aside" /\ restore'.old = restore.old /\ restore'.copy = restore.copy
    BY <1>0, <1>1, <1>3 DEF SetAside, Moving, Restoring
  <2>2. BackupsTyped'
    BY <1>0, <2>1, ReplaceSteps DEF BackupsTyped, Stages
  <2>3. Restoring'
    BY <2>1, ReplaceSteps DEF Restoring
  <2> QED
    BY <2>1, <2>2, <2>3, ReplaceSteps DEF BackupInv
<1>4. CASE Install
  <2>1. /\ restore.pc = "aside" /\ restore.old \in aside /\ ~serving /\ restore.old \in Held /\ restore.copy \in Held
        /\ aside' = aside /\ Replaces(restore.copy)
        /\ restore' \in Stages /\ restore'.pc = "installed" /\ restore'.old = restore.old /\ restore'.copy = restore.copy
    BY <1>0, <1>1, <1>4 DEF Install, Moving, Restoring
  <2>2. BackupsTyped'
    BY <1>0, <2>1, ReplaceSteps DEF BackupsTyped, Stages
  <2>3. Restoring'
    BY <2>1, ReplaceSteps DEF Restoring
  <2> QED
    BY <2>1, <2>2, <2>3, ReplaceSteps DEF BackupInv
<1>5. CASE PutBack
  <2>1. /\ restore.pc = "undo" /\ ~serving /\ restore.old \in Held /\ restore.copy \in Held
        /\ Replaces(restore.old)
        /\ restore' \in Stages /\ restore'.pc = "ended" /\ restore'.old = restore.old /\ restore'.copy = restore.copy
    BY <1>0, <1>1, <1>5 DEF PutBack, Moving, Restoring
  <2>2. BackupsTyped'
    BY <1>0, <2>1, ReplaceSteps DEF BackupsTyped, Stages
  <2>3. Restoring'
    BY <2>1, ReplaceSteps DEF Restoring
  <2> QED
    BY <2>1, <2>2, <2>3, ReplaceSteps DEF BackupInv
<1>6. CASE DropOld \/ RestoreIsKilled \/ (MoveFails /\ restore.pc # "installed")
  <2>1. UNCHANGED <<live, serving, disk, run, written, newest>>
    BY <1>6 DEF DropOld, RestoreIsKilled, MoveFails, archiveVars
  <2>2. PICK pc \in {"ended", "killed", "undo"} :
          /\ Restores(pc)
          /\ pc = "ended" => restore.pc \in {"installed", "staged"}
          /\ pc = "undo" => restore.pc = "aside" /\ aside' = aside
          /\ pc = "killed" => restore.pc \in Moving /\ aside' = aside
    BY <1>6 DEF DropOld, RestoreIsKilled, MoveFails
  <2>3. restore' \in Stages /\ restore'.pc = pc /\ restore'.old = restore.old /\ restore'.copy = restore.copy
    BY <1>1, <2>2 DEF Moving
  <2>4. BackupsTyped'
    BY <1>0, <2>1, <2>3 DEF BackupsTyped, Stages
  <2>5. Restoring'
    BY <1>0, <2>1, <2>2, <2>3 DEF Restoring, Moving
  <2> QED
    BY <1>0, <2>1, <2>4, <2>5 DEF BackupInv, NewestKept
<1>7. CASE MoveFails /\ restore.pc = "installed"
  <2>1. /\ restore.old \in aside /\ ~serving /\ restore.old \in Held /\ restore.copy \in Held
        /\ aside' = aside /\ Replaces(Missing)
        /\ restore' \in Stages /\ restore'.pc = "undo" /\ restore'.old = restore.old /\ restore'.copy = restore.copy
    BY <1>0, <1>1, <1>7 DEF MoveFails, Moving, Restoring
  <2>2. BackupsTyped'
    BY <1>0, <2>1, ReplaceSteps DEF BackupsTyped, Stages
  <2>3. Restoring'
    BY <2>1, ReplaceSteps DEF Restoring
  <2> QED
    BY <2>1, <2>2, <2>3, ReplaceSteps DEF BackupInv
<1> QED
  BY <1>2, <1>3, <1>4, <1>5, <1>6, <1>7

LEMMA ServerSteps ==
  ASSUME BackupInv, CommitRows \/ StartServer \/ TenMinutesPass \/ IntervalPasses \/ UNCHANGED backupVars
  PROVE  BackupInv'
<1>0. BackupsTyped /\ Restoring /\ NewestKept
  BY DEF BackupInv
<1>1. UNCHANGED <<disk, run, written, newest, aside>>
  BY DEF CommitRows, StartServer, TenMinutesPass, IntervalPasses, archiveVars, fileVars, backupVars
<1>2. NewestKept'
  BY <1>0, <1>1 DEF NewestKept
<1>3. CASE CommitRows
  <2>1. live' = <<live[2] + 1, live[2] + 1>> /\ serving /\ UNCHANGED <<serving, restore>> /\ restore.pc = "none"
    BY <1>0, <1>3 DEF CommitRows, Restoring
  <2>2. CASE live \in Held
    <3>1. live' \in Held /\ live' # Missing
      BY <2>1, <2>2, BackupLimits DEF Held
    <3> QED
      BY <1>0, <1>1, <1>2, <2>1, <3>1 DEF BackupInv, BackupsTyped, Restoring
  <2>3. live # Missing
    BY <1>0, <2>1 DEF Restoring
  <2> QED
    BY <1>0, <2>2, <2>3 DEF BackupsTyped
<1>4. CASE StartServer
  <2>1. live' = Opened /\ serving' = TRUE /\ restore' = NotRestoring
    BY <1>4 DEF StartServer
  <2>2. live' \in Held /\ live' # Missing
    BY <1>0, <2>1, DumpsTyped, BackupLimits DEF Held
  <2>3. restore'.pc = "none" /\ restore' \in [pc : {"none", "ended", "killed"} \cup Moving, old : Held \cup {Missing}, copy : Held \cup {Missing}]
    BY <2>1 DEF NotRestoring
  <2> QED
    BY <1>0, <1>1, <1>2, <2>1, <2>2, <2>3 DEF BackupInv, BackupsTyped, Restoring
<1>5. CASE TenMinutesPass \/ IntervalPasses \/ UNCHANGED backupVars
  <2>1. UNCHANGED <<live, serving, restore>>
    BY <1>5 DEF TenMinutesPass, IntervalPasses, fileVars, backupVars
  <2> QED
    BY <1>0, <1>1, <1>2, <2>1 DEF BackupInv, BackupsTyped, Restoring
<1> QED
  BY <1>3, <1>4, <1>5

\* However backups overlap, prune, fail and are killed beside a restore that fails or
\* is killed at any of its moves: the database it found is at its path or beside it,
\* or the copy is in its place, and the newest archive ever put in place is there.
THEOREM NothingIsThrownAway == BackupsSpec => []NothingThrownAway
<1>1. BackupInv /\ [BackupsNext]_backupVars => BackupInv'
  <2> SUFFICES ASSUME BackupInv, [BackupsNext]_backupVars PROVE BackupInv'
    OBVIOUS
  <2>1. \A d \in Daemons : d \in Writers
    BY DEF Writers
  <2>2. Command \in Writers /\ Embedded \in Writers
    BY BackupLimits DEF Writers
  <2>3. ASSUME NEW d \in Daemons, BeginRun(d) \/ TakeLock(d) \/ Steal(d) \/ ListingRaises(d) \/ RecordRun(d) \/ Unlock(d)
        PROVE  BackupInv'
    BY <2>1, <2>3, QuietWriters, QuietSteps
  <2>4. ASSUME NEW w \in Writers, DumpFirst(w) \/ DumpRest(w) \/ WriteHidden(w) \/ RunFails(w) \/ IsKilled(w) PROVE BackupInv'
    BY <2>4, QuietWriters, QuietSteps
  <2>5. CASE BeginCommand \/ StopServer
    BY <2>2, <2>5, QuietWriters, QuietSteps
  <2>6. ASSUME NEW d \in Daemons, ListArchives(d) \/ PruneOne(d) PROVE BackupInv'
    BY <2>6, PruneSteps
  <2>7. ASSUME NEW w \in Writers, Publish(w) PROVE BackupInv'
    BY <2>7, PublishStep
  <2>8. CASE BeginRestore \/ SetAside \/ Install \/ DropOld \/ MoveFails \/ PutBack \/ RestoreIsKilled
    BY <2>8, RestoreSteps
  <2>9. CASE CommitRows \/ StartServer \/ TenMinutesPass \/ IntervalPasses \/ UNCHANGED backupVars
    BY <2>9, ServerSteps
  <2> QED
    BY <2>3, <2>4, <2>5, <2>6, <2>7, <2>8, <2>9 DEF BackupsNext
<1>2. BackupInv => NothingThrownAway
  BY DEF BackupInv, Restoring, NewestKept, NothingThrownAway, Moving
<1> QED
  BY <1>1, <1>2, BackupsBegin, PTL DEF BackupsSpec

-----------------------------------------------------------------------------
(***************************************************************************)
(* Compaction, of an execution with one task at work at a time.  The only  *)
(* record that is open is that of the call under way, or of the one a      *)
(* restart interrupted, and it tells which of the two newest versions is   *)
(* active.                                                                 *)
(***************************************************************************)
ContextSpec == ContextInit /\ [][ContextNext]_contextVars

Versions == [by : Nat, size : Sizes]
RecordStates == {"pre_flush", "committed", "activated", "failed", "no_thrash_blocked"}
CompactionRecords == [source : Nat, target : Nat, thrash : Nat, state : RecordStates]
Writing == {"version", "commit", "activate", "activated"}
CompactState == [pc : {"work", "source", "latest", "block", "record"} \cup Writing,
                 source : Nat, thrash : Nat, record : Nat]

ContextTyped ==
  /\ versions \in Seq(Versions) /\ active \in Nat
  /\ records \in Seq(CompactionRecords)
  /\ compact \in [Tasks -> CompactState]
  /\ recovery \in [on : BOOLEAN, todo : SUBSET Nat]

NoneOpen == \A i \in 1 .. Len(records) : ~Open(records[i])

\* A call of compact, and the one record it may have left open.
Compacting(c) ==
  /\ c.pc \in {"latest", "block", "record"} => c.source = active
  /\ c.pc \in Writing => /\ c.record \in 1 .. Len(records)
                         /\ records[c.record].source = c.source /\ records[c.record].target = c.source + 1
                         /\ \A i \in 1 .. Len(records) : Open(records[i]) <=> i = c.record
  /\ c.pc = "version" => active = c.source /\ Len(versions) = c.source
  /\ c.pc \in {"commit", "activate"} => active = c.source /\ Len(versions) = c.source + 1
  /\ c.pc = "activated" => active = c.source + 1 /\ Len(versions) = c.source + 1

InOneCall ==
  Serving => /\ \A t \in Tasks : Compacting(compact[t])
             /\ (\A t \in Tasks : compact[t].pc \notin Writing) => active = Len(versions) /\ NoneOpen

Recovers ==
  recovery.on =>
    /\ compact = [t \in Tasks |-> NotCompacting]
    /\ recovery.todo = {i \in 1 .. Len(records) : Open(records[i])}
    /\ \A i, j \in recovery.todo : i = j
    /\ recovery.todo = {} => active = Len(versions)
    /\ \A i \in recovery.todo :
         /\ records[i].target = records[i].source + 1
         /\ active = Len(versions) \/ (active + 1 = Len(versions) /\ records[i].source = active)

ContextInv == ContextTyped /\ InOneCall /\ Recovers

LEMMA ContextBegins == ContextInit => ContextInv
<1> SUFFICES ASSUME ContextInit PROVE ContextInv
  OBVIOUS
<1>1. NotCompacting \in CompactState /\ NotCompacting.pc = "work"
  BY DEF NotCompacting, CompactState
<1>2. versions = <<>> /\ records = <<>> /\ active = 0 /\ recovery = NotRecovering
      /\ compact \in [Tasks -> CompactState] /\ \A t \in Tasks : compact[t] = NotCompacting
  BY <1>1 DEF ContextInit
<1>3. <<>> \in Seq(Versions) /\ <<>> \in Seq(CompactionRecords) /\ Len(<<>>) = 0
  OBVIOUS
<1>4. recovery \in [on : BOOLEAN, todo : SUBSET Nat] /\ ~recovery.on
  BY <1>2 DEF NotRecovering
<1> QED
  BY <1>1, <1>2, <1>3, <1>4 DEF ContextInv, ContextTyped, InOneCall, Recovers, Compacting, NoneOpen, Writing

\* A step of the one task there is.
LEMMA TaskMoves ==
  ASSUME ContextTyped, \A s, t \in Tasks : s = t, NEW t \in Tasks, NEW c \in CompactState,
         compact' = [compact EXCEPT ![t] = c]
  PROVE  compact' \in [Tasks -> CompactState] /\ \A u \in Tasks : compact'[u] = c
  BY DEF ContextTyped

LEMMA ContextFacts ==
  ASSUME ContextInv, NEW t \in Tasks, Serving
  PROVE  /\ ContextTyped /\ Compacting(compact[t]) /\ compact[t] \in CompactState /\ ~recovery.on
         /\ (\A s, u \in Tasks : s = u) /\ compact[t].pc \notin Writing => active = Len(versions) /\ NoneOpen
         /\ Len(versions) \in Nat /\ Len(records) \in Nat
         /\ compact[t].source \in Nat /\ compact[t].thrash \in Nat /\ compact[t].record \in Nat
<1>1. ContextTyped /\ Compacting(compact[t]) /\ ~recovery.on
  BY DEF ContextInv, InOneCall, Serving
<1>2. compact[t] \in CompactState /\ Len(versions) \in Nat /\ Len(records) \in Nat
  BY <1>1 DEF ContextTyped
<1>3. compact[t].source \in Nat /\ compact[t].thrash \in Nat /\ compact[t].record \in Nat
  BY <1>2 DEF CompactState
<1>4. (\A s, u \in Tasks : s = u) /\ compact[t].pc \notin Writing => active = Len(versions) /\ NoneOpen
  BY DEF ContextInv, InOneCall
<1> QED
  BY <1>1, <1>2, <1>3, <1>4

LEMMA CallMoves ==
  ASSUME NEW c \in CompactState, NEW pc \in {"work", "source", "latest", "block", "record"} \cup Writing, NEW n \in Nat
  PROVE  /\ [c EXCEPT !.pc = pc] \in CompactState /\ [c EXCEPT !.pc = pc].pc = pc
         /\ [c EXCEPT !.pc = pc].source = c.source /\ [c EXCEPT !.pc = pc].record = c.record
         /\ [c EXCEPT !.pc = pc, !.record = n] \in CompactState /\ [c EXCEPT !.pc = pc, !.record = n].pc = pc
         /\ [c EXCEPT !.pc = pc, !.record = n].source = c.source /\ [c EXCEPT !.pc = pc, !.record = n].record = n
  BY DEF CompactState

\* What such a step has to show, while the server serves.
LEMMA OneTaskSteps ==
  ASSUME ContextInv, \A s, u \in Tasks : s = u, NEW t \in Tasks, Serving, NEW c \in CompactState,
         compact' = [compact EXCEPT ![t] = c], UNCHANGED recovery,
         versions' \in Seq(Versions), active' \in Nat, records' \in Seq(CompactionRecords),
         Compacting(c)', c.pc \notin Writing => active' = Len(versions') /\ NoneOpen'
  PROVE  ContextInv'
<1>1. compact' \in [Tasks -> CompactState] /\ \A u \in Tasks : compact'[u] = c
  BY TaskMoves DEF ContextInv
<1>2. ContextTyped'
  BY <1>1 DEF ContextInv, ContextTyped
<1>3. InOneCall'
  <2>1. \A u \in Tasks : Compacting(compact[u])'
    BY <1>1 DEF Compacting
  <2> QED
    BY <1>1, <2>1 DEF InOneCall
<1>4. Recovers'
  BY DEF Serving, Recovers
<1> QED
  BY <1>2, <1>3, <1>4 DEF ContextInv

\* The state of a record changes.
LEMMA RecordMoves ==
  ASSUME ContextTyped, NEW i \in 1 .. Len(records), NEW state \in RecordStates,
         records' = [records EXCEPT ![i].state = state]
  PROVE  /\ records' \in Seq(CompactionRecords) /\ Len(records') = Len(records)
         /\ records'[i].state = state
         /\ \A j \in 1 .. Len(records) : /\ records'[j].source = records[j].source /\ records'[j].target = records[j].target
                                         /\ j # i => records'[j] = records[j]
<1> DEFINE r == [records[i] EXCEPT !.state = state]
<1>0. records \in Seq(CompactionRecords) /\ records[i] \in CompactionRecords
  BY ElementOfSeq DEF ContextTyped
<1>1. r \in CompactionRecords /\ r.source = records[i].source /\ r.target = records[i].target /\ r.state = state
  BY <1>0 DEF CompactionRecords
<1>2. records' = [records EXCEPT ![i] = r]
  OBVIOUS
<1> HIDE DEF r
<1>3. records' \in Seq(CompactionRecords) /\ Len(records') = Len(records)
      /\ \A j \in 1 .. Len(records) : records'[j] = IF j = i THEN r ELSE records[j]
  BY <1>0, <1>1, <1>2, ExceptSeq
<1> QED
  BY <1>1, <1>3

LEMMA BuildStep ==
  ASSUME ContextInv, \A s, u \in Tasks : s = u, NEW t \in Tasks, Build(t)
  PROVE  ContextInv'
<1>0. /\ Serving /\ compact[t].pc = "work" /\ active' = Len(versions) + 1 /\ UNCHANGED <<records, compact, recovery>>
      /\ \E size \in Sizes : versions' = Append(versions, [by |-> 0, size |-> size])
  BY DEF Build, At
<1>1. versions \in Seq(Versions) /\ \A size \in Sizes : [by |-> 0, size |-> size] \in Versions
  BY DEF ContextInv, ContextTyped, Versions
<1>2. versions' \in Seq(Versions) /\ Len(versions') = Len(versions) + 1
  BY <1>0, <1>1, AppendProperties
<1>3. compact' = [compact EXCEPT ![t] = compact[t]] /\ compact[t] \in CompactState
  BY <1>0 DEF ContextInv, ContextTyped
<1>4. NoneOpen /\ Len(versions) \in Nat
  BY <1>0, ContextFacts DEF Writing
<1> DEFINE c == compact[t]
<1>6. NoneOpen' /\ records' \in Seq(CompactionRecords) /\ active' \in Nat /\ active' = Len(versions')
  BY <1>0, <1>2, <1>4 DEF NoneOpen, ContextInv, ContextTyped
<1>7. Compacting(c)'
  BY <1>0 DEF Compacting, Writing
<1> QED
  BY <1>0, <1>2, <1>3, <1>6, <1>7, OneTaskSteps

\* Steps before a record is written.
LEMMA ReadingSteps ==
  ASSUME ContextInv, \A s, u \in Tasks : s = u, NEW t \in Tasks, ShouldCompact(t) \/ ReadSource(t) \/ ReadLatest(t)
  PROVE  ContextInv'
<1>0. /\ Serving /\ compact[t].pc \in {"work", "source", "latest"} /\ UNCHANGED <<versions, active, records, recovery>>
  BY DEF ShouldCompact, ReadSource, ReadLatest, At
<1>1. Thrash \in Nat
  <2>1. records \in Seq(CompactionRecords)
    BY DEF ContextInv, ContextTyped
  <2>2. records # <<>> => Len(records) \in 1 .. Len(records)
    BY <2>1
  <2>3. records # <<>> => records[Len(records)] \in CompactionRecords
    BY <2>1, <2>2, ElementOfSeq
  <2> QED
    BY <2>3 DEF Thrash, CompactionRecords
<1>2. PICK c \in CompactState : /\ compact' = [compact EXCEPT ![t] = c]
                                /\ c.pc \in {"source", "latest", "block", "record"}
                                /\ c.pc # "source" => c.source = active
  <2>1. compact[t] \in CompactState /\ active \in Nat /\ (compact[t].pc = "latest" => compact[t].source = active)
    BY <1>0, ContextFacts DEF ContextTyped, Compacting
  <2>2. CASE ShouldCompact(t)
    <3> DEFINE c == [compact[t] EXCEPT !.pc = "source"]
    <3>1. compact' = [compact EXCEPT ![t] = c]
      BY <2>2 DEF ShouldCompact, Go
    <3>2. c \in CompactState /\ c.pc = "source"
      BY <2>1 DEF CompactState
    <3> QED
      BY <3>1, <3>2
  <2>3. CASE ReadSource(t)
    <3> DEFINE c == [compact[t] EXCEPT !.pc = "latest", !.source = active]
    <3>1. compact' = [compact EXCEPT ![t] = c]
      BY <2>3 DEF ReadSource
    <3>2. c \in CompactState /\ c.pc = "latest" /\ c.source = active
      BY <2>1 DEF CompactState
    <3> QED
      BY <3>1, <3>2
  <2>4. CASE ReadLatest(t)
    <3> DEFINE pc == IF Thrash >= ThrashLimit THEN "block" ELSE "record"
               c == [compact[t] EXCEPT !.pc = pc, !.thrash = Thrash]
    <3>1. compact' = [compact EXCEPT ![t] = c]
      BY <2>4 DEF ReadLatest
    <3>0. pc \in {"block", "record"} /\ compact[t].pc = "latest"
      BY <2>4 DEF ReadLatest, At
    <3> HIDE DEF pc
    <3>2. c \in CompactState /\ c.pc = pc /\ c.source = active
      BY <1>1, <2>1, <3>0 DEF CompactState
    <3> QED
      BY <3>0, <3>1, <3>2
  <2> QED
    BY <2>2, <2>3, <2>4
<1>3. active = Len(versions) /\ NoneOpen /\ ContextTyped
  BY <1>0, ContextFacts DEF Writing
<1>4. Compacting(c)'
  BY <1>0, <1>2 DEF Compacting, Writing
<1> QED
  BY <1>0, <1>2, <1>3, <1>4, OneTaskSteps DEF ContextTyped, NoneOpen

\* A call that ends leaves no record open.
LEMMA LeaveSteps ==
  ASSUME ContextInv, \A s, u \in Tasks : s = u, NEW t \in Tasks, Serving, Leave(t), UNCHANGED recovery,
         versions' \in Seq(Versions), active' \in Nat, records' \in Seq(CompactionRecords), active' = Len(versions'), NoneOpen'
  PROVE  ContextInv'
<1>1. NotCompacting \in CompactState /\ NotCompacting.pc = "work"
  BY DEF NotCompacting, CompactState
<1>2. compact' = [compact EXCEPT ![t] = NotCompacting]
  BY DEF Leave
<1> DEFINE c == NotCompacting
<1>3. Compacting(c)' 
  BY <1>1 DEF Compacting, Writing
<1> HIDE DEF c
<1>4. c \in CompactState /\ compact' = [compact EXCEPT ![t] = c]
  BY <1>1, <1>2 DEF c
<1> QED
  BY <1>3, <1>4, OneTaskSteps

\* A record is added, for a call that goes on or for one that was refused.
LEMMA RecordAdded ==
  ASSUME ContextInv, \A s, u \in Tasks : s = u, NEW t \in Tasks, Serving, compact[t].pc \in {"block", "record"},
         NEW target \in Nat, NEW state \in RecordStates,
         records' = Append(records, Record(t, target, state, compact[t].thrash))
  PROVE  /\ records' \in Seq(CompactionRecords) /\ Len(records') = Len(records) + 1
         /\ \A i \in 1 .. Len(records) : records'[i] = records[i] /\ ~Open(records'[i])
         /\ records'[Len(records) + 1].source = compact[t].source
         /\ records'[Len(records) + 1].target = target /\ records'[Len(records) + 1].state = state
<1>1. Record(t, target, state, compact[t].thrash) \in CompactionRecords /\ records \in Seq(CompactionRecords)
  BY ContextFacts DEF Record, CompactionRecords, ContextTyped
<1>2. /\ records' \in Seq(CompactionRecords) /\ Len(records') = Len(records) + 1
      /\ \A i \in 1 .. Len(records) : records'[i] = records[i]
      /\ records'[Len(records) + 1] = Record(t, target, state, compact[t].thrash)
  BY <1>1, AppendProperties
<1>3. NoneOpen
  BY ContextFacts DEF Writing
<1> QED
  BY <1>2, <1>3 DEF NoneOpen, Record

LEMMA RefusedStep ==
  ASSUME ContextInv, \A s, u \in Tasks : s = u, NEW t \in Tasks, Block(t)
  PROVE  ContextInv'
<1>0. /\ Serving /\ compact[t].pc = "block" /\ Leave(t) /\ UNCHANGED <<versions, active, recovery>>
      /\ records' = records \/ records' = Append(records, Record(t, compact[t].source, "no_thrash_blocked", compact[t].thrash))
  BY DEF Block, At
<1>1. active = Len(versions) /\ NoneOpen /\ ContextTyped /\ Len(records) \in Nat /\ compact[t].source \in Nat
  BY <1>0, ContextFacts DEF Writing
<1>2. records' \in Seq(CompactionRecords) /\ NoneOpen'
  <2>1. CASE records' = records
    BY <1>1, <2>1 DEF ContextTyped, NoneOpen
  <2>2. CASE records' = Append(records, Record(t, compact[t].source, "no_thrash_blocked", compact[t].thrash))
    <3>1. /\ records' \in Seq(CompactionRecords) /\ Len(records') = Len(records) + 1
          /\ \A i \in 1 .. Len(records) : ~Open(records'[i])
          /\ records'[Len(records) + 1].state = "no_thrash_blocked"
      BY <1>0, <1>1, <2>2, RecordAdded DEF RecordStates
    <3>2. \A i \in 1 .. Len(records) + 1 : i \in 1 .. Len(records) \/ i = Len(records) + 1
      BY <1>1
    <3> QED
      BY <3>1, <3>2 DEF NoneOpen, Open
  <2> QED
    BY <1>0, <2>1, <2>2
<1> QED
  BY <1>0, <1>1, <1>2, LeaveSteps DEF ContextTyped

LEMMA InsertRecordStep ==
  ASSUME ContextInv, \A s, u \in Tasks : s = u, NEW t \in Tasks, InsertRecord(t)
  PROVE  ContextInv'
<1>0. /\ Serving /\ compact[t].pc = "record" /\ UNCHANGED <<versions, active, recovery>>
      /\ \/ /\ records' = Append(records, Record(t, compact[t].source + 1, "pre_flush", compact[t].thrash))
            /\ compact' = [compact EXCEPT ![t].pc = "version", ![t].record = Len(records) + 1]
         \/ Leave(t) /\ UNCHANGED records
  BY DEF InsertRecord, At
<1>1. /\ active = Len(versions) /\ NoneOpen /\ ContextTyped /\ compact[t].source = active
      /\ Len(records) \in Nat /\ compact[t].source + 1 \in Nat /\ compact[t] \in CompactState
  BY <1>0, ContextFacts DEF Writing, Compacting
<1>2. CASE Leave(t) /\ UNCHANGED records
  <2>1. NoneOpen'
    BY <1>1, <1>2 DEF NoneOpen
  <2> QED
    BY <1>0, <1>1, <1>2, <2>1, LeaveSteps DEF ContextTyped
<1>3. CASE /\ records' = Append(records, Record(t, compact[t].source + 1, "pre_flush", compact[t].thrash))
           /\ compact' = [compact EXCEPT ![t].pc = "version", ![t].record = Len(records) + 1]
  <2>1. PICK c \in CompactState : /\ compact' = [compact EXCEPT ![t] = c]
                                  /\ c.pc = "version" /\ c.record = Len(records) + 1 /\ c.source = compact[t].source
    <3> DEFINE d == [compact[t] EXCEPT !.pc = "version", !.record = Len(records) + 1]
    <3>1. Len(records) + 1 \in Nat /\ "version" \in Writing
      BY <1>1 DEF Writing
    <3>2. d \in CompactState /\ d.pc = "version" /\ d.record = Len(records) + 1 /\ d.source = compact[t].source
      BY <1>1, <3>1 DEF CompactState
    <3>3. compact' = [compact EXCEPT ![t] = d]
      BY <1>3
    <3> QED
      BY <3>2, <3>3
  <2>3. /\ records' \in Seq(CompactionRecords) /\ Len(records') = Len(records) + 1
        /\ \A i \in 1 .. Len(records) : ~Open(records'[i])
        /\ records'[Len(records) + 1].source = c.source /\ records'[Len(records) + 1].target = c.source + 1
        /\ Open(records'[Len(records) + 1])
    BY <1>0, <1>1, <1>3, <2>1, RecordAdded DEF RecordStates, Open
  <2>4. c.record \in 1 .. Len(records') /\ \A i \in 1 .. Len(records') : Open(records'[i]) <=> i = c.record
    BY <1>1, <2>1, <2>3
  <2>5. active' = c.source /\ Len(versions') = c.source
    BY <1>0, <1>1, <2>1
  <2>6. records'[c.record].source = c.source /\ records'[c.record].target = c.source + 1
    BY <2>1, <2>3
  <2>7. Compacting(c)'
    BY <2>1, <2>4, <2>5, <2>6 DEF Compacting
  <2>8. c.pc \in Writing
    BY <2>1 DEF Writing
  <2>9. versions' \in Seq(Versions) /\ active' \in Nat /\ UNCHANGED recovery
    BY <1>0, <1>1 DEF ContextTyped
  <2> QED
    BY <1>0, <2>1, <2>3, <2>7, <2>8, <2>9, OneTaskSteps
<1> QED
  BY <1>0, <1>2, <1>3

\* The steps that write the version, commit the record and activate the version.
LEMMA WritingSteps ==
  ASSUME ContextInv, \A s, u \in Tasks : s = u, NEW t \in Tasks, InsertVersion(t) \/ Commit(t) \/ ActivateContextVersion(t)
  PROVE  ContextInv'
<1>0. Serving /\ compact[t].pc \in {"version", "commit", "activate"} /\ UNCHANGED recovery
  BY DEF InsertVersion, Commit, ActivateContextVersion, At
<1>1. /\ ContextTyped /\ compact[t] \in CompactState /\ compact[t].source \in Nat /\ compact[t].record \in Nat
      /\ compact[t].record \in 1 .. Len(records) /\ active = compact[t].source /\ Len(versions) \in Nat
      /\ records[compact[t].record].source = compact[t].source
      /\ records[compact[t].record].target = compact[t].source + 1
      /\ \A i \in 1 .. Len(records) : Open(records[i]) <=> i = compact[t].record
  BY <1>0, ContextFacts DEF Compacting, Writing
<1>2. Len(versions) = IF compact[t].pc = "version" THEN active ELSE active + 1
  BY <1>0, ContextFacts DEF Compacting
\* The record stays the one that is open, and the call goes on.
<1>3. ASSUME NEW pc \in Writing, compact' = [compact EXCEPT ![t].pc = pc],
             records' \in Seq(CompactionRecords), Len(records') = Len(records),
             \A i \in 1 .. Len(records) : /\ records'[i].source = records[i].source /\ records'[i].target = records[i].target
                                          /\ Open(records'[i]) = Open(records[i]),
             versions' \in Seq(Versions), active' \in Nat, pc # "version", Len(versions') = compact[t].source + 1,
             active' = IF pc = "activated" THEN compact[t].source + 1 ELSE compact[t].source
      PROVE  ContextInv'
  <2>1. PICK c \in CompactState : /\ compact' = [compact EXCEPT ![t] = c]
                                  /\ c.pc = pc /\ c.source = compact[t].source /\ c.record = compact[t].record
    <3> DEFINE d == [compact[t] EXCEPT !.pc = pc]
    <3>1. d \in CompactState /\ d.pc = pc /\ d.source = compact[t].source /\ d.record = compact[t].record
      BY <1>1 DEF CompactState
    <3>2. compact' = [compact EXCEPT ![t] = d]
      BY <1>3
    <3> QED
      BY <3>1, <3>2
  <2>3. /\ c.record \in 1 .. Len(records')
        /\ records'[c.record].source = c.source /\ records'[c.record].target = c.source + 1
        /\ \A i \in 1 .. Len(records') : Open(records'[i]) <=> i = c.record
    BY <1>1, <1>3, <2>1
  <2>4. /\ c.pc = "activated" => active' = c.source + 1 /\ Len(versions') = c.source + 1
        /\ c.pc \in {"commit", "activate"} => active' = c.source /\ Len(versions') = c.source + 1
    BY <1>3, <2>1
  <2>5. Compacting(c)'
    BY <1>3, <2>1, <2>3, <2>4 DEF Compacting, Writing
  <2> QED
    BY <1>0, <1>3, <2>1, <2>5, OneTaskSteps
<1>4. CASE InsertVersion(t)
  <2>1. PICK size \in Sizes : versions' = Append(versions, [by |-> compact[t].record, size |-> size])
    BY <1>1, <1>2, <1>4 DEF InsertVersion, At
  <2>2. [by |-> compact[t].record, size |-> size] \in Versions /\ versions \in Seq(Versions)
    BY <1>1 DEF Versions, ContextTyped
  <2>3. versions' \in Seq(Versions) /\ Len(versions') = Len(versions) + 1
    BY <2>1, <2>2, AppendProperties
  <2>4. /\ compact' = [compact EXCEPT ![t].pc = "commit"] /\ UNCHANGED <<active, records>> /\ compact[t].pc = "version"
    BY <1>1, <1>2, <1>4 DEF InsertVersion, At, Go
  <2>5. "commit" \in Writing /\ Len(versions') = compact[t].source + 1
    BY <1>1, <1>2, <2>3, <2>4 DEF Writing
  <2>6. records \in Seq(CompactionRecords) /\ active \in Nat
    BY <1>1 DEF ContextTyped
  <2> QED
    BY <1>1, <1>3, <2>3, <2>4, <2>5, <2>6
<1>5. CASE Commit(t)
  <2>1. compact' = [compact EXCEPT ![t].pc = "activate"] /\ UNCHANGED <<versions, active>> /\ compact[t].pc = "commit"
        /\ records' = [records EXCEPT ![compact[t].record].state = "committed"]
    BY <1>5 DEF Commit, SetState, Go, At
  <2>2. /\ records' \in Seq(CompactionRecords) /\ Len(records') = Len(records)
        /\ records'[compact[t].record].state = "committed"
        /\ \A j \in 1 .. Len(records) : /\ records'[j].source = records[j].source /\ records'[j].target = records[j].target
                                        /\ j # compact[t].record => records'[j] = records[j]
    <3>1. "committed" \in RecordStates
      BY DEF RecordStates
    <3> QED
      BY <1>1, <2>1, <3>1, RecordMoves
  <2>3. \A i \in 1 .. Len(records) : Open(records'[i]) = Open(records[i])
    <3>1. Open(records'[compact[t].record]) /\ Open(records[compact[t].record])
      BY <1>1, <2>2 DEF Open
    <3>2. \A i \in 1 .. Len(records) : Open(records'[i]) \in BOOLEAN /\ Open(records[i]) \in BOOLEAN
      BY DEF Open
    <3> QED
      BY <2>2, <3>1, <3>2
  <2>4. "activate" \in Writing /\ Len(versions') = compact[t].source + 1
    BY <1>1, <1>2, <2>1 DEF Writing
  <2>5. versions \in Seq(Versions) /\ active \in Nat
    BY <1>1 DEF ContextTyped
  <2> QED
    BY <1>1, <1>3, <2>1, <2>2, <2>3, <2>4, <2>5
<1>6. CASE ActivateContextVersion(t)
  <2>1. compact' = [compact EXCEPT ![t].pc = "activated"] /\ UNCHANGED <<versions, records>> /\ compact[t].pc = "activate"
        /\ active' = compact[t].source + 1
    BY <1>6 DEF ActivateContextVersion, Go, At
  <2>2. "activated" \in Writing /\ Len(versions') = compact[t].source + 1 /\ active' \in Nat
    BY <1>1, <1>2, <2>1 DEF Writing
  <2>3. versions \in Seq(Versions) /\ records \in Seq(CompactionRecords)
    BY <1>1 DEF ContextTyped
  <2> QED
    BY <1>1, <1>3, <2>1, <2>2, <2>3
<1> QED
  BY <1>4, <1>5, <1>6

LEMMA ActivatedStep ==
  ASSUME ContextInv, \A s, u \in Tasks : s = u, NEW t \in Tasks, Activated(t)
  PROVE  ContextInv'
<1>0. Serving /\ compact[t].pc = "activated" /\ Leave(t) /\ UNCHANGED <<versions, active, recovery>>
  BY DEF Activated, At
<1>1. /\ ContextTyped /\ active = Len(versions) /\ compact[t].record \in 1 .. Len(records)
      /\ \A i \in 1 .. Len(records) : Open(records[i]) => i = compact[t].record
  BY <1>0, ContextFacts DEF Compacting, Writing
<1>2. /\ records' \in Seq(CompactionRecords) /\ Len(records') = Len(records)
      /\ records'[compact[t].record].state = "activated"
      /\ \A j \in 1 .. Len(records) : j # compact[t].record => records'[j] = records[j]
  <2>1. records' = [records EXCEPT ![compact[t].record].state = "activated"] /\ "activated" \in RecordStates
    BY DEF Activated, SetState, RecordStates
  <2> DEFINE n == compact[t].record
  <2>2. n \in 1 .. Len(records) /\ records' = [records EXCEPT ![n].state = "activated"]
    BY <1>1, <2>1
  <2> HIDE DEF n
  <2>3. /\ records' \in Seq(CompactionRecords) /\ Len(records') = Len(records)
        /\ records'[n].state = "activated" /\ \A j \in 1 .. Len(records) : j # n => records'[j] = records[j]
    <3>1. "activated" \in RecordStates /\ ContextTyped /\ n \in 1 .. Len(records)
      BY <1>1, <2>1, <2>2
    <3> QED
      BY <2>2, <3>1, RecordMoves
  <2> QED
    BY <2>3 DEF n
<1>3. NoneOpen'
  BY <1>1, <1>2 DEF NoneOpen, Open
<1> QED
  BY <1>0, <1>1, <1>2, <1>3, LeaveSteps DEF ContextTyped

LEMMA RestartStep ==
  ASSUME ContextInv, \A s, u \in Tasks : s = u, Restart
  PROVE  ContextInv'
<1>0. /\ compact' = [t \in Tasks |-> NotCompacting] /\ UNCHANGED <<versions, active, records>>
      /\ recovery' = [on |-> TRUE, todo |-> OpenRecords] /\ ContextTyped
  BY DEF Restart, ContextInv
<1>1. DOMAIN records = 1 .. Len(records) /\ OpenRecords = {i \in 1 .. Len(records) : Open(records[i])} /\ Len(records) \in Nat
      /\ Len(versions) \in Nat
  BY <1>0, LenProperties DEF OpenRecords, ContextTyped
<1>2. ContextTyped'
  <2>1. NotCompacting \in CompactState
    BY DEF NotCompacting, CompactState
  <2> QED
    BY <1>0, <1>1, <2>1 DEF ContextTyped
<1>3. Recovers'
  <2>1. CASE recovery.on
    BY <1>0, <1>1, <2>1 DEF ContextInv, Recovers
  <2>2. CASE ~recovery.on
    <3>1. CASE \A t \in Tasks : compact[t].pc \notin Writing
      BY <1>0, <1>1, <2>2, <3>1 DEF ContextInv, InOneCall, Serving, NoneOpen, Recovers
    <3>2. ASSUME NEW t \in Tasks, compact[t].pc \in Writing PROVE Recovers'
      <4>1. Compacting(compact[t])
        BY <2>2 DEF ContextInv, InOneCall, Serving
      <4> DEFINE i == compact[t].record
      <4>2. /\ i \in 1 .. Len(records) /\ records[i].source = compact[t].source /\ records[i].target = compact[t].source + 1
            /\ OpenRecords = {i}
            /\ active = Len(versions) \/ (active + 1 = Len(versions) /\ active = compact[t].source)
        BY <1>1, <3>2, <4>1 DEF Compacting, Writing
      <4> HIDE DEF i
      <4> QED
        BY <1>0, <1>1, <4>2 DEF Recovers
    <3> QED
      BY <3>1, <3>2
  <2> QED
    BY <2>1, <2>2
<1> QED
  BY <1>0, <1>2, <1>3 DEF ContextInv, InOneCall, Serving

LEMMA RecoverySteps ==
  ASSUME ContextInv, \A s, u \in Tasks : s = u, RecoverRecord \/ EndRecovery
  PROVE  ContextInv'
<1>0. recovery.on /\ ContextTyped /\ Recovers /\ UNCHANGED <<versions, compact>>
  BY DEF RecoverRecord, EndRecovery, ContextInv
<1>1. Len(versions) \in Nat /\ Len(records) \in Nat /\ DOMAIN versions = 1 .. Len(versions)
  BY <1>0, LenProperties DEF ContextTyped
<1>2. CASE RecoverRecord
  <2>1. PICK i \in recovery.todo :
          /\ IF Finishable(records[i])
               THEN active' = records[i].target /\ records' = [records EXCEPT ![i].state = "activated"]
               ELSE UNCHANGED active /\ records' = [records EXCEPT ![i].state = "failed"]
          /\ recovery' = [recovery EXCEPT !.todo = @ \ {i}]
    BY <1>2 DEF RecoverRecord
  <2>2. /\ i \in 1 .. Len(records) /\ records[i].target = records[i].source + 1
        /\ active = Len(versions) \/ (active + 1 = Len(versions) /\ records[i].source = active)
        /\ \A j \in 1 .. Len(records) : Open(records[j]) => j = i
        /\ compact = [t \in Tasks |-> NotCompacting]
    BY <1>0, <2>1 DEF Recovers
  <2>3. recovery'.on /\ recovery'.todo = {} /\ recovery' \in [on : BOOLEAN, todo : SUBSET Nat]
    BY <1>0, <2>1 DEF Recovers, ContextTyped
  <2>4. PICK state \in {"activated", "failed"} : records' = [records EXCEPT ![i].state = state]
    BY <2>1
  <2>5. /\ records' \in Seq(CompactionRecords) /\ Len(records') = Len(records) /\ records'[i].state = state
        /\ \A j \in 1 .. Len(records) : j # i => records'[j] = records[j]
    <3>1. state \in RecordStates
      BY DEF RecordStates
    <3> QED
      BY <1>0, <2>2, <2>4, <3>1, RecordMoves
  <2>6. \A j \in 1 .. Len(records') : ~Open(records'[j])
    BY <2>2, <2>5 DEF Open
  <2>7. active' = Len(versions)
    <3>1. records[i].source \in Nat /\ active \in Nat
      <4>1. records[i] \in CompactionRecords
        BY <1>0, <2>2, ElementOfSeq DEF ContextTyped
      <4> QED
        BY <1>0, <4>1 DEF CompactionRecords, ContextTyped
    <3>2. CASE active = Len(versions)
      <4>1. ~Finishable(records[i])
        BY <1>1, <2>2, <3>1, <3>2 DEF Finishable
      <4> QED
        BY <2>1, <3>2, <4>1
    <3>3. CASE active + 1 = Len(versions) /\ records[i].source = active
      <4>0. records[i].target = Len(versions) /\ Len(versions) \in 1 .. Len(versions)
        <5>1. records[i].target = records[i].source + 1
          BY <2>2
        <5>2. \A a, n \in Nat : a + 1 = n => n \in 1 .. n
          OBVIOUS
        <5> QED
          BY <1>1, <3>1, <3>3, <5>1, <5>2
      <4>1. Finishable(records[i])
        BY <1>1, <3>3, <4>0 DEF Finishable
      <4> QED
        BY <2>1, <2>2, <3>3, <4>1
    <3> QED
      BY <2>2, <3>2, <3>3
  <2>8. ContextTyped'
    BY <1>0, <1>1, <2>3, <2>5, <2>7 DEF ContextTyped
  <2>9. Recovers'
    BY <1>0, <2>2, <2>3, <2>6, <2>7 DEF Recovers
  <2> QED
    BY <2>3, <2>8, <2>9 DEF ContextInv, InOneCall, Serving
<1>3. CASE EndRecovery
  <2>1. /\ recovery' = NotRecovering /\ UNCHANGED <<active, records>> /\ active = Len(versions) /\ NoneOpen
        /\ compact = [t \in Tasks |-> NotCompacting]
    BY <1>0, <1>3 DEF EndRecovery, Recovers, NoneOpen
  <2>2. ContextTyped' /\ ~recovery'.on
    BY <1>0, <2>1 DEF ContextTyped, NotRecovering
  <2>3. NotCompacting.pc = "work"
    BY DEF NotCompacting
  <2>4. \A t \in Tasks : compact'[t].pc = "work"
    BY <1>0, <2>1, <2>3
  <2>5. InOneCall'
    <3>1. \A t \in Tasks : Compacting(compact[t])'
      BY <2>4 DEF Compacting, Writing
    <3> QED
      BY <1>0, <2>1, <3>1 DEF InOneCall, NoneOpen
  <2> QED
    BY <2>2, <2>5 DEF ContextInv, Recovers
<1> QED
  BY <1>2, <1>3

\* Wherever an execution with one task at work dies, and however often recovery does:
\* whenever the task is not in a compaction, the newest context is the active one.
THEOREM NewestIsActive ==
  ASSUME \A s, t \in Tasks : s = t
  PROVE  ContextSpec => []NewestActive
<1>1. ContextInv /\ [ContextNext]_contextVars => ContextInv'
  <2> SUFFICES ASSUME ContextInv, [ContextNext]_contextVars PROVE ContextInv'
    OBVIOUS
  <2>1. ASSUME NEW t \in Tasks, ShouldCompact(t) \/ ReadSource(t) \/ ReadLatest(t) PROVE ContextInv'
    BY <2>1, ReadingSteps
  <2>2. ASSUME NEW t \in Tasks, InsertVersion(t) \/ Commit(t) \/ ActivateContextVersion(t) PROVE ContextInv'
    BY <2>2, WritingSteps
  <2>3. ASSUME NEW t \in Tasks, Build(t) PROVE ContextInv'
    BY <2>3, BuildStep
  <2>4. ASSUME NEW t \in Tasks, Block(t) PROVE ContextInv'
    BY <2>4, RefusedStep
  <2>5. ASSUME NEW t \in Tasks, InsertRecord(t) PROVE ContextInv'
    BY <2>5, InsertRecordStep
  <2>6. ASSUME NEW t \in Tasks, Activated(t) PROVE ContextInv'
    BY <2>6, ActivatedStep
  <2>7. CASE UNCHANGED contextVars
    BY <2>7 DEF contextVars, ContextInv, ContextTyped, InOneCall, Recovers, Compacting, NoneOpen, Serving
  <2> QED
    BY <2>1, <2>2, <2>3, <2>4, <2>5, <2>6, <2>7, RestartStep, RecoverySteps DEF ContextNext
<1>2. ContextInv => NewestActive
  BY DEF ContextInv, InOneCall, NewestActive, Writing
<1> QED
  BY <1>1, <1>2, ContextBegins, PTL DEF ContextSpec

-----------------------------------------------------------------------------
(***************************************************************************)
(* ConfigSync.  Of a boot nobody interfered with it is known at each stage *)
(* how its copy of the file differs from what it read (only in references  *)
(* that did not resolve), that the file follows the copy but for a repair  *)
(* about to be saved, and that what the stages behind it could use is in   *)
(* use.  Rows are never deleted, so a new one leaves the others resolving. *)
(***************************************************************************)

AnyRef == Nat \cup {None, Env}
Secrets == [db : Databases, name : Credentials, revoked : BOOLEAN, key : Keys]
Configs == [ref : [Credentials -> AnyRef], groups : SUBSET Groups, owner : Databases \cup {None}]
Files == Configs \cup {NoFile}
Stages == {"down", "sentinels", "look", "store", "owner", "provider", "keep_key", "bot",
           "keep_token", "bindings", "planner", "up"}
Boots == [at : Stages, cfg : Files, loaded : Files, healing : Credentials \cup {None},
          tried : SUBSET Credentials, bot : AnyRef, adapter : BOOLEAN, planner : BOOLEAN,
          disturbed : BOOLEAN]
Commands == [at : {"idle", "loaded", "answered", "stored"}, cfg : Files, what : Credentials \cup {None}]

Looking == boot.at \in {"look", "store"}

ConfigTypeOK ==
  /\ secrets \in Seq(Secrets)
  /\ engine \in Databases /\ key \in Keys /\ env \in SUBSET Credentials /\ session \in BOOLEAN
  /\ file \in Files /\ boot \in Boots /\ command \in Commands
  /\ boot.at # "down" => boot.cfg \in Configs /\ boot.loaded \in Configs
  /\ Looking => boot.healing \in Credentials
  /\ command.at # "idle" => command.cfg \in Configs
  /\ command.at = "answered" => command.what \in Credentials

\* No configuration names a row before it is stored.
Known(cfg, rows) == \A c \in DOMAIN cfg.ref : cfg.ref[c] \in Nat => cfg.ref[c] \in rows
RefsKnown == \A cfg \in {file, boot.cfg, boot.loaded, command.cfg} : Known(cfg, DOMAIN secrets)

Unhindered == boot.at # "down" /\ ~boot.disturbed
Early == boot.at = "sentinels" \/ (Looking /\ boot.healing \notin boot.tried)

HeldGood(c) == Resolves(boot.cfg.ref[c])
ReadGood(c) == Resolves(boot.loaded.ref[c])

\* What the boot holds is what it read, but for the references it repaired.
Faithful ==
  /\ boot.cfg.groups = boot.loaded.groups
  /\ \A c \in Credentials :
       /\ boot.loaded.ref[c] = None <=> boot.cfg.ref[c] = None
       /\ ReadGood(c) => boot.cfg.ref[c] = boot.loaded.ref[c]

\* Until the sentinels are saved the file is the one that was read; afterwards it
\* is what the boot holds, but for a repair about to be saved.
FileFollows ==
  /\ Early =>
       /\ file = boot.loaded
       /\ boot.cfg = boot.loaded \/ HasSentinels
       /\ \A c \in Credentials : boot.cfg.ref[c] = Env => boot.loaded.ref[c] = Env
       /\ \A c \in Credentials : Looking /\ boot.healing = c => boot.cfg.ref[c] = Env
  /\ ~Early /\ boot.at \notin {"keep_key", "keep_token"} => file = boot.cfg

\* A repair is of a reference that was read and that does not resolve.
Repairing ==
  /\ \A c \in Credentials : Looking /\ boot.healing = c =>
       /\ boot.loaded.ref[c] # None /\ ~ReadGood(c)
       /\ boot.at = "store" => Reusable(c) = {}
  /\ boot.at = "keep_key" => HeldGood("key")
  /\ boot.at = "keep_token" => HeldGood("token")

PastKey ==
  \/ boot.at \in {"bot", "keep_token", "bindings", "planner"}
  \/ Looking /\ ~Early /\ boot.healing = "token"

KeyInUse ==
  /\ PastKey /\ Usable("key") => boot.adapter /\ HeldGood("key")
  /\ boot.at = "up" /\ Usable("key") => boot.planner /\ HeldGood("key")

GroupsBound ==
  /\ Looking /\ ~Early /\ boot.healing = "token" => ~session
  /\ boot.at = "bindings" => session \/ HeldGood("token")
  /\ boot.at \in {"planner", "up"} =>
       /\ session \/ Usable("token") => \A g \in boot.loaded.groups : bindings[engine][g].enabled
       /\ Usable("token") /\ ~session => HeldGood("token")

BootHolds == Faithful /\ FileFollows /\ Repairing /\ KeyInUse /\ GroupsBound

ConfigInv == ConfigTypeOK /\ RefsKnown /\ (Unhindered => BootHolds)

ConfigSpec == ConfigInit /\ [][ConfigNext]_configVars

LEMMA ConfigsFacts ==
  /\ NoFile \in Files /\ EmptyConfig \in Configs
  /\ (file \in Files => Load \in Configs)
  /\ None \in AnyRef /\ Env \in AnyRef
  /\ \A cfg \in Configs, c \in Credentials, r \in AnyRef :
       /\ [cfg EXCEPT !.ref[c] = r] \in Configs
       /\ cfg.ref[c] \in AnyRef
  /\ \A cfg \in Configs, o \in Databases : [cfg EXCEPT !.owner = o] \in Configs
  /\ \A cfg \in Configs, gs \in SUBSET Groups : [cfg EXCEPT !.groups = gs] \in Configs
  /\ \A cfg \in Configs : cfg \in Files
<1>1. NoFile \in Files /\ EmptyConfig \in Configs BY DEF NoFile, EmptyConfig, Files, Configs, AnyRef
<1>2. file \in Files => Load \in Configs BY <1>1 DEF Load, Files
<1>3. None \in AnyRef /\ Env \in AnyRef /\ \A cfg \in Configs : cfg \in Files BY DEF AnyRef, Files
<1>4. ASSUME NEW cfg \in Configs, NEW c \in Credentials, NEW r \in AnyRef
      PROVE  [cfg EXCEPT !.ref[c] = r] \in Configs /\ cfg.ref[c] \in AnyRef
  <2>1. cfg = [ref |-> cfg.ref, groups |-> cfg.groups, owner |-> cfg.owner] /\ cfg.ref \in [Credentials -> AnyRef]
        /\ cfg.groups \in SUBSET Groups /\ cfg.owner \in Databases \cup {None} BY DEF Configs
  <2>2. [cfg.ref EXCEPT ![c] = r] \in [Credentials -> AnyRef] BY <2>1
  <2>3. [cfg EXCEPT !.ref[c] = r] = [ref |-> [cfg.ref EXCEPT ![c] = r], groups |-> cfg.groups, owner |-> cfg.owner] BY <2>1
  <2> QED BY <2>1, <2>2, <2>3 DEF Configs
<1>5. \A cfg \in Configs, o \in Databases : [cfg EXCEPT !.owner = o] \in Configs BY DEF Configs
<1>6. \A cfg \in Configs, gs \in SUBSET Groups : [cfg EXCEPT !.groups = gs] \in Configs BY DEF Configs
<1> QED BY <1>1, <1>2, <1>3, <1>4, <1>5, <1>6

LEMMA StoreKeepsTypes ==
  ASSUME secrets \in Seq(Secrets), engine \in Databases, key \in Keys, NEW c \in Credentials, Store(c)
  PROVE  /\ secrets' \in Seq(Secrets)
         /\ DOMAIN secrets' = DOMAIN secrets \cup {Len(secrets) + 1}
         /\ Len(secrets) + 1 \in AnyRef
BY DEF Store, Secrets, AnyRef

LEMMA BootUpdates ==
  ASSUME NEW b \in Boots, b.cfg \in Configs, b.loaded \in Configs, NEW at \in Stages
  PROVE  /\ [b EXCEPT !.at = at] \in Boots
         /\ [b EXCEPT !.at = at, !.tried = {}] \in Boots
         /\ [b EXCEPT !.at = at, !.adapter = TRUE] \in Boots
         /\ \A r \in AnyRef : [b EXCEPT !.at = at, !.bot = r] \in Boots
         /\ \A x \in BOOLEAN : [b EXCEPT !.at = at, !.planner = x] \in Boots
         /\ \A o \in Databases :
              /\ [b EXCEPT !.at = at, !.cfg.owner = o] \in Boots
              /\ [b EXCEPT !.at = at, !.cfg.owner = o].cfg = [b.cfg EXCEPT !.owner = o]
<1>1. /\ [b EXCEPT !.at = at] \in Boots
      /\ [b EXCEPT !.at = at, !.tried = {}] \in Boots
      /\ [b EXCEPT !.at = at, !.adapter = TRUE] \in Boots
      /\ \A r \in AnyRef : [b EXCEPT !.at = at, !.bot = r] \in Boots
      /\ \A x \in BOOLEAN : [b EXCEPT !.at = at, !.planner = x] \in Boots
  BY DEF Boots
<1>2. ASSUME NEW o \in Databases
      PROVE  /\ [b EXCEPT !.at = at, !.cfg.owner = o] \in Boots
             /\ [b EXCEPT !.at = at, !.cfg.owner = o].cfg = [b.cfg EXCEPT !.owner = o]
  <2>1. [b.cfg EXCEPT !.owner = o] \in Files BY ConfigsFacts
  <2> QED BY <2>1 DEF Boots
<1> QED BY <1>1, <1>2

\* What a save leaves, written or failed.
LEMMA SaveKeepsTypes ==
  ASSUME NEW cfg \in Configs, NEW then \in Boots, NEW otherwise \in Boots, file \in Files, Save(cfg, then, otherwise),
         then.cfg \in Configs, then.loaded \in Configs, otherwise.cfg \in Configs, otherwise.loaded \in Configs
  PROVE  file' \in Files /\ boot' \in Boots /\ boot'.cfg \in Configs /\ boot'.loaded \in Configs
         /\ boot'.at \in {then.at, otherwise.at}
<1>1. [otherwise EXCEPT !.disturbed = TRUE] \in Boots /\ [otherwise EXCEPT !.disturbed = TRUE].cfg = otherwise.cfg
      /\ [otherwise EXCEPT !.disturbed = TRUE].loaded = otherwise.loaded
      /\ [otherwise EXCEPT !.disturbed = TRUE].at = otherwise.at BY DEF Boots
<1> QED BY <1>1, ConfigsFacts DEF Save

LEMMA MeddleKeepsTypes ==
  ASSUME boot \in Boots, Meddle
  PROVE  boot' \in Boots /\ boot'.at = boot.at /\ boot'.cfg = boot.cfg /\ boot'.loaded = boot.loaded
         /\ boot'.healing = boot.healing
BY DEF Meddle, Boots

\* Where a repair goes on.
Heal(r) ==
  LET c == boot.healing
      sentinel == boot.loaded.ref[c] = Env /\ boot.cfg.ref[c] = Env /\ c \notin boot.tried
  IN  CASE sentinel -> "sentinels"
        [] ~sentinel /\ r = None -> IF c = "key" THEN "bot" ELSE "planner"
        [] ~sentinel /\ r # None -> IF c = "key" THEN "keep_key" ELSE "keep_token"

LEMMA HealedFields ==
  ASSUME boot \in Boots, boot.cfg \in Configs, boot.loaded \in Configs, boot.healing \in Credentials,
         NEW r \in AnyRef, Healed(r)
  PROVE  /\ boot' \in Boots /\ boot'.cfg \in Configs /\ boot'.loaded = boot.loaded
         /\ boot'.cfg = IF r = None THEN boot.cfg ELSE [boot.cfg EXCEPT !.ref[boot.healing] = r]
         /\ boot'.at = Heal(r) /\ boot'.healing = None /\ boot'.tried = boot.tried \cup {boot.healing}
         /\ boot'.adapter = boot.adapter /\ boot'.planner = boot.planner /\ boot'.disturbed = boot.disturbed
<1>1. Heal(r) \in Stages BY DEF Heal, Stages
<1>2. PICK a \in Stages : a = Heal(r) BY <1>1
<1>3. PICK v \in AnyRef : v = IF r = None THEN boot.cfg.ref[boot.healing] ELSE r BY DEF Configs
<1>4. boot' = [boot EXCEPT !.healing = None, !.tried = @ \cup {boot.healing}, !.cfg.ref[boot.healing] = v, !.at = a]
  BY <1>2, <1>3 DEF Healed, Heal
<1>5. boot' = [boot EXCEPT !.healing = None, !.tried = @ \cup {boot.healing},
                           !.cfg = [boot.cfg EXCEPT !.ref[boot.healing] = v], !.at = a]
  BY <1>4 DEF Boots, Configs
<1>6. [boot.cfg EXCEPT !.ref[boot.healing] = v] \in Configs BY ConfigsFacts
<1>7. [boot.cfg EXCEPT !.ref[boot.healing] = v] = IF r = None THEN boot.cfg ELSE [boot.cfg EXCEPT !.ref[boot.healing] = r]
  BY <1>3 DEF Configs
<1>8. PICK w \in Configs : w = [boot.cfg EXCEPT !.ref[boot.healing] = v] BY <1>6
<1>9. boot' = [boot EXCEPT !.healing = None, !.tried = @ \cup {boot.healing}, !.cfg = w, !.at = a] BY <1>5, <1>8
<1> QED BY <1>2, <1>7, <1>8, <1>9, ConfigsFacts DEF Boots

LEMMA BootTypesKept ==
  ASSUME ConfigTypeOK, BootStep
  PROVE  ConfigTypeOK'
<1> USE ConfigsFacts DEF ConfigTypeOK, Looking
<1>1. CASE Bootstrap
  <2>1. file' \in Configs
    <3>1. ASSUME NEW gs \in {{}, Groups}
          PROVE  [ref |-> [c \in Credentials |-> IF c \in env THEN Env ELSE None], groups |-> gs, owner |-> None] \in Configs
      BY DEF Configs
    <3> QED BY <1>1, <3>1 DEF Bootstrap
  <2> QED BY <1>1, <2>1 DEF Bootstrap
<1>2. CASE LoadConfig
  BY <1>2 DEF LoadConfig, Off, Boots, Stages, AnyRef
<1>3. CASE ResolveSentinel
  BY <1>3 DEF ResolveSentinel, Boots, Stages, Pending, Credentials
<1>4. CASE KeepSentinels
  <2> DEFINE next == [boot EXCEPT !.at = "owner", !.tried = {}]
  <2>1. boot \in Boots /\ boot.cfg \in Configs /\ boot.loaded \in Configs BY <1>4 DEF KeepSentinels
  <2>2. next \in Boots BY <2>1, BootUpdates DEF Stages
  <2>3. next.cfg = boot.cfg /\ next.loaded = boot.loaded /\ next.at = "owner" BY <2>1 DEF Boots
  <2>4. Save(boot.cfg, next, next) \/ (boot' = next /\ UNCHANGED file) BY <1>4 DEF KeepSentinels
  <2>5. file' \in Files /\ boot' \in Boots /\ boot'.cfg \in Configs /\ boot'.loaded \in Configs
        /\ boot'.at \in {"owner", "provider"}
    <3> HIDE DEF next
    <3> QED BY <2>1, <2>2, <2>3, <2>4, SaveKeepsTypes
  <2> QED BY <1>4, <2>5 DEF KeepSentinels
<1>5. CASE Reuse \/ StoreRecovered
  <2>1. boot \in Boots /\ boot.cfg \in Configs /\ boot.loaded \in Configs /\ Looking BY <1>5 DEF Reuse, StoreRecovered, Looking
  <2>2. ASSUME NEW r \in AnyRef, Healed(r), boot.healing \in Credentials
        PROVE  boot' \in Boots /\ boot'.cfg \in Configs /\ boot'.loaded \in Configs
    BY <2>1, <2>2, HealedFields
  <2>3. boot.healing \in Credentials BY <2>1
  <2>4. ASSUME NEW r \in AnyRef, Healed(r) PROVE ~Looking'
    <3>1. boot'.at = Heal(r) BY <2>1, <2>3, <2>4, HealedFields
    <3> QED BY <3>1 DEF Heal, Looking
  <2>5. CASE Reuse
    <3>1. PICK r : r \in Reusable(boot.healing) /\ Healed(r) BY <2>5 DEF Reuse
    <3>2. r \in AnyRef BY <3>1 DEF Reusable, Row, AnyRef
    <3> QED BY <2>2, <2>3, <2>4, <2>5, <3>1, <3>2 DEF Reuse
  <2>6. CASE StoreRecovered
    <3>1. CASE NameFree(boot.healing)
      <4>1. Store(boot.healing) /\ Healed(Len(secrets) + 1) BY <2>6, <3>1 DEF StoreRecovered
      <4>2. secrets' \in Seq(Secrets) /\ Len(secrets) + 1 \in AnyRef BY <2>3, <4>1, StoreKeepsTypes
      <4>3. PICK r \in AnyRef : r = Len(secrets) + 1 BY <4>2
      <4>4. Healed(r) BY <4>1, <4>3
      <4> QED BY <2>2, <2>3, <2>4, <2>6, <4>2, <4>4 DEF StoreRecovered
    <3>2. CASE ~NameFree(boot.healing)
      <4>1. Healed(None) BY <2>6, <3>2 DEF StoreRecovered
      <4> QED BY <2>2, <2>3, <2>4, <2>6, <3>2, <4>1 DEF StoreRecovered
    <3> QED BY <3>1, <3>2
  <2> QED BY <1>5, <2>5, <2>6
<1>6. CASE NothingToReuse
  BY <1>6 DEF NothingToReuse, Goto, Boots, Stages
<1>7. CASE KeepOwner
  <2> DEFINE next == [boot EXCEPT !.at = "provider", !.cfg.owner = engine]
  <2>1. boot \in Boots /\ boot.cfg \in Configs /\ boot.loaded \in Configs BY <1>7 DEF KeepOwner
  <2>2. next \in Boots /\ next.cfg = [boot.cfg EXCEPT !.owner = engine]
    <3>1. "provider" \in Stages BY DEF Stages
    <3> QED BY <2>1, <3>1, BootUpdates
  <2>3. next.cfg \in Configs /\ next.loaded = boot.loaded /\ next.at = "provider" BY <2>1, <2>2 DEF Boots
  <2>4. Save(next.cfg, next, next) \/ (boot' = next /\ UNCHANGED file) BY <1>7 DEF KeepOwner
  <2>5. file' \in Files /\ boot' \in Boots /\ boot'.cfg \in Configs /\ boot'.loaded \in Configs
        /\ boot'.at \in {"owner", "provider"}
    <3> HIDE DEF next
    <3> QED BY <2>1, <2>2, <2>3, <2>4, SaveKeepsTypes
  <2> QED BY <1>7, <2>5 DEF KeepOwner
<1>8. CASE SyncProvider
  BY <1>8 DEF SyncProvider, Boots, Stages, Credentials
<1>9. CASE KeepKey \/ KeepToken
  <2>1. boot \in Boots /\ boot.cfg \in Configs /\ boot.loaded \in Configs BY <1>9 DEF KeepKey, KeepToken
  <2>2. file' \in Files /\ boot' \in Boots /\ boot'.cfg \in Configs /\ boot'.loaded \in Configs
        /\ boot'.at \in {"bot", "bindings"}
    <3>1. CASE KeepKey
      <4> DEFINE next == [boot EXCEPT !.at = "bot", !.adapter = TRUE]
                 other == [boot EXCEPT !.at = "bot"]
      <4>1. next \in Boots /\ other \in Boots BY <2>1, BootUpdates DEF Stages
      <4>2. next.cfg = boot.cfg /\ next.loaded = boot.loaded /\ other.cfg = boot.cfg /\ other.loaded = boot.loaded
            /\ next.at = "bot" /\ other.at = "bot" BY <2>1 DEF Boots
      <4>3. Save(boot.cfg, next, other) BY <3>1 DEF KeepKey
      <4> HIDE DEF next, other
      <4> QED BY <2>1, <4>1, <4>2, <4>3, SaveKeepsTypes
    <3>2. CASE KeepToken
      <4> DEFINE next == [boot EXCEPT !.at = "bindings", !.bot = boot.cfg.ref["token"]]
                 other == [boot EXCEPT !.at = "bindings"]
      <4>0. PICK r \in AnyRef : r = boot.cfg.ref["token"] BY <2>1 DEF Credentials
      <4>1. next \in Boots /\ other \in Boots
        <5>1. next = [boot EXCEPT !.at = "bindings", !.bot = r] BY <4>0
        <5>2. \A x \in AnyRef : [boot EXCEPT !.at = "bindings", !.bot = x] \in Boots BY <2>1, BootUpdates DEF Stages
        <5>3. other \in Boots BY <2>1, BootUpdates DEF Stages
        <5> QED BY <5>1, <5>2, <5>3
      <4>2. next.cfg = boot.cfg /\ next.loaded = boot.loaded /\ other.cfg = boot.cfg /\ other.loaded = boot.loaded
            /\ next.at = "bindings" /\ other.at = "bindings" BY <2>1 DEF Boots
      <4>3. Save(boot.cfg, next, other) BY <3>2 DEF KeepToken
      <4> HIDE DEF next, other
      <4> QED BY <2>1, <4>1, <4>2, <4>3, SaveKeepsTypes
    <3> QED BY <1>9, <3>1, <3>2
  <2> QED BY <1>9, <2>2 DEF KeepKey, KeepToken
<1>10. CASE SyncBot
  <2>1. boot \in Boots /\ boot.cfg \in Configs /\ boot.loaded \in Configs BY <1>10 DEF SyncBot
  <2>2. PICK r \in AnyRef : r = boot.cfg.ref["token"] BY <2>1 DEF Credentials
  <2>3. \/ boot' \in {[boot EXCEPT !.at = "bindings"], [boot EXCEPT !.at = "planner"], [boot EXCEPT !.at = "bindings", !.bot = r]}
        \/ boot' = [boot EXCEPT !.at = "look", !.healing = "token", !.tried = {"token"}, !.bot = r]
    BY <1>10, <2>2 DEF SyncBot
  <2>4. boot' \in Boots /\ boot'.cfg = boot.cfg /\ boot'.loaded = boot.loaded /\ (boot'.at = "look" => boot'.healing \in Credentials)
        /\ boot'.at # "store"
    <3>1. ASSUME NEW a \in {"bindings", "planner"}, boot' = [boot EXCEPT !.at = a] \/ boot' = [boot EXCEPT !.at = a, !.bot = r]
          PROVE  boot' \in Boots /\ boot'.cfg = boot.cfg /\ boot'.loaded = boot.loaded /\ boot'.at = a
      <4>1. a \in Stages BY DEF Stages
      <4>2. CASE boot' = [boot EXCEPT !.at = a] BY <2>1, <4>1, <4>2 DEF Boots
      <4>3. CASE boot' = [boot EXCEPT !.at = a, !.bot = r] BY <2>1, <4>1, <4>3 DEF Boots
      <4> QED BY <3>1, <4>2, <4>3
    <3>2. ASSUME boot' = [boot EXCEPT !.at = "look", !.healing = "token", !.tried = {"token"}, !.bot = r]
          PROVE  boot' \in Boots /\ boot'.cfg = boot.cfg /\ boot'.loaded = boot.loaded /\ boot'.at = "look" /\ boot'.healing = "token"
      <4>1. "token" \in Credentials /\ {"token"} \in SUBSET Credentials /\ "look" \in Stages BY DEF Credentials, Stages
      <4> QED BY <2>1, <3>2, <4>1 DEF Boots
    <3> QED BY <2>3, <3>1, <3>2 DEF Credentials
  <2> QED BY <1>10, <2>1, <2>4 DEF SyncBot
<1>11. CASE (\E g \in Groups \cup {"0"} : Bind(g)) \/ BindingsDone \/ SyncPlanner
  <2>1. CASE \E g \in Groups \cup {"0"} : Bind(g) BY <2>1 DEF Bind
  <2>2. CASE BindingsDone BY <2>2 DEF BindingsDone, Goto, Boots, Stages
  <2>3. CASE SyncPlanner
    <3>1. PICK x \in BOOLEAN : boot' = [boot EXCEPT !.at = "up", !.planner = x] BY <2>3 DEF SyncPlanner, Boots
    <3> QED BY <2>3, <3>1 DEF SyncPlanner, Boots, Stages
  <2> QED BY <1>11, <2>1, <2>2, <2>3
<1>12. CASE Stop \/ BootDies
  <2>1. Off \in Boots /\ Off.at = "down" BY DEF Off, Boots, Stages
  <2>2. boot' = Off /\ UNCHANGED <<secrets, engine, key, env, session, file, command>> BY <1>12 DEF Stop, BootDies
  <2> QED BY <2>1, <2>2
<1> QED BY <1>1, <1>2, <1>3, <1>4, <1>5, <1>6, <1>7, <1>8, <1>9, <1>10, <1>11, <1>12 DEF BootStep

LEMMA PeopleTypesKept ==
  ASSUME ConfigTypeOK, PeopleStep
  PROVE  ConfigTypeOK'
<1> USE ConfigsFacts DEF ConfigTypeOK, Looking
<1>1. ASSUME NEW c \in Credentials, AddCredential(c) PROVE ConfigTypeOK'
  BY <1>1 DEF AddCredential, Commands
<1>2. ASSUME NEW c \in Credentials, WizardStores(c) PROVE ConfigTypeOK'
  <2>1. secrets' \in Seq(Secrets) /\ Len(secrets) + 1 \in AnyRef BY <1>2, StoreKeepsTypes DEF WizardStores
  <2>2. [EmptyConfig EXCEPT !.ref[c] = Len(secrets) + 1] \in Configs BY <2>1
  <2>3. command' \in Commands /\ command'.cfg \in Configs /\ command'.what = c BY <1>2, <2>2 DEF WizardStores, Commands
  <2> QED BY <1>2, <2>1, <2>3, MeddleKeepsTypes DEF WizardStores
<1>3. ASSUME NEW gs \in SUBSET Groups, WizardCommits(gs) PROVE ConfigTypeOK'
  <2>1. command.cfg \in Configs /\ command.what \in Credentials /\ Load \in Configs BY <1>3 DEF WizardCommits
  <2>2. [Load EXCEPT !.ref[command.what] = command.cfg.ref[command.what], !.groups = IF gs = {} THEN @ ELSE gs] \in Configs
    <3>1. PICK hs \in SUBSET Groups :
            [Load EXCEPT !.ref[command.what] = command.cfg.ref[command.what], !.groups = IF gs = {} THEN @ ELSE gs]
            = [[Load EXCEPT !.ref[command.what] = command.cfg.ref[command.what]] EXCEPT !.groups = hs]
      BY <2>1 DEF Configs
    <3> QED BY <2>1, <3>1
  <2> QED BY <1>3, <2>2 DEF WizardCommits, Commands
<1>4. ASSUME NEW g \in Groups, ListGroup(g) PROVE ConfigTypeOK'
  <2>1. PICK hs \in SUBSET Groups : command'.cfg = [Load EXCEPT !.groups = hs]
    <3>1. Load \in Configs BY ConfigsFacts
    <3>2. PICK cfg \in Configs : cfg = Load BY <3>1
    <3>3. PICK hs \in SUBSET Groups : hs = IF g \in cfg.groups THEN cfg.groups \ {g} ELSE cfg.groups \cup {g}
      <4>1. cfg.groups \in SUBSET Groups BY <3>2 DEF Configs
      <4> QED BY <1>4, <4>1
    <3> QED BY <1>4, <3>2, <3>3 DEF ListGroup, Configs
  <2>2. command'.cfg \in Configs BY <2>1
  <2> QED BY <1>4, <2>2 DEF ListGroup, Commands
<1>5. CASE StoreCredential
  <2>1. CASE NameFree(command.what)
    <3>1. command.cfg \in Configs /\ command.what \in Credentials /\ Store(command.what) /\ Meddle
      BY <1>5, <2>1 DEF StoreCredential
    <3>2. secrets' \in Seq(Secrets) /\ Len(secrets) + 1 \in AnyRef BY <3>1, StoreKeepsTypes
    <3>3. PICK n \in AnyRef : n = Len(secrets) + 1 BY <3>2
    <3>4. PICK o \in Databases \cup {None} :
            command' = [command EXCEPT !.at = "stored", !.cfg.ref[command.what] = n, !.cfg.owner = o]
      <4>1. command.cfg.owner \in Databases \cup {None}
            /\ [command.cfg EXCEPT !.ref[command.what] = n].owner = command.cfg.owner BY <3>1 DEF Configs
      <4>2. PICK o \in Databases \cup {None} : o = IF command.what = "token" THEN engine ELSE command.cfg.owner BY <4>1
      <4>3. [command EXCEPT !.at = "stored", !.cfg.ref[command.what] = n,
                            !.cfg.owner = IF command.what = "token" THEN engine ELSE @]
            = [command EXCEPT !.at = "stored", !.cfg.ref[command.what] = n, !.cfg.owner = o]
        <5>1. command \in Commands OBVIOUS
        <5> QED BY <4>1, <4>2, <5>1 DEF Commands
      <4> QED BY <1>5, <2>1, <3>3, <4>3 DEF StoreCredential
    <3>5. [[command.cfg EXCEPT !.ref[command.what] = n] EXCEPT !.owner = o] \in Configs BY <3>1, <3>3 DEF Configs
    <3>6. command' = [command EXCEPT !.at = "stored", !.cfg = [[command.cfg EXCEPT !.ref[command.what] = n] EXCEPT !.owner = o]]
      BY <3>1, <3>4 DEF Commands, Configs
    <3>7. command' \in Commands /\ command'.cfg \in Configs /\ command'.at = "stored" BY <3>5, <3>6 DEF Commands
    <3> QED BY <1>5, <3>1, <3>2, <3>7, MeddleKeepsTypes DEF StoreCredential
  <2>2. CASE ~NameFree(command.what) BY <1>5, <2>2 DEF StoreCredential, Commands, Idle
  <2> QED BY <2>1, <2>2
<1>6. CASE CommandSaves
  <2>1. command' \in Commands /\ command'.at = "idle" BY <1>6 DEF CommandSaves, Commands, Idle
  <2>2. CASE file' = command.cfg /\ Meddle BY <1>6, <2>1, <2>2, MeddleKeepsTypes DEF CommandSaves
  <2>3. CASE UNCHANGED <<file, boot>> BY <1>6, <2>1, <2>3 DEF CommandSaves
  <2> QED BY <1>6, <2>2, <2>3 DEF CommandSaves
<1>7. CASE DoctorFix
  BY <1>7 DEF DoctorFix, HoldingRefs
<1>8. CASE Environment
  BY <1>8 DEF Environment
<1>9. ASSUME NEW i \in DOMAIN secrets, Revoke(i) PROVE ConfigTypeOK'
  <2>1. secrets' \in Seq(Secrets)
    <3>1. [secrets[i] EXCEPT !.revoked = TRUE] \in Secrets
      <4>1. PICK r \in Secrets : r = secrets[i] BY <1>9
      <4> QED BY <4>1 DEF Secrets
    <3>2. secrets' = [secrets EXCEPT ![i] = [secrets[i] EXCEPT !.revoked = TRUE]] BY <1>9 DEF Revoke
    <3> QED BY <1>9, <3>1, <3>2
  <2> QED BY <1>9, <2>1, MeddleKeepsTypes DEF Revoke
<1> QED BY <1>1, <1>2, <1>3, <1>4, <1>5, <1>6, <1>7, <1>8, <1>9 DEF PeopleStep

LEMMA KnownFacts ==
  ASSUME NEW rows
  PROVE  /\ Known(NoFile, rows) /\ Known(EmptyConfig, rows)
         /\ \A cfg, more : Known(cfg, rows) /\ rows \subseteq more => Known(cfg, more)
         /\ \A cfg \in Configs, c \in Credentials, r \in rows \cup {None, Env} :
              Known(cfg, rows) => Known([cfg EXCEPT !.ref[c] = r], rows)
         /\ \A cfg \in Configs : Known(cfg, rows) => \A o : Known([cfg EXCEPT !.owner = o], rows)
         /\ \A cfg \in Configs : Known(cfg, rows) => \A gs : Known([cfg EXCEPT !.groups = gs], rows)
         /\ \A cfg \in Configs : (\A c \in Credentials : cfg.ref[c] \in {None, Env}) => Known(cfg, rows)
<1> USE ConfigAssumption
<1>1. Known(NoFile, rows)
  <2>1. DOMAIN NoFile.ref = {} BY DEF NoFile
  <2> QED BY <2>1 DEF Known
<1>2. Known(EmptyConfig, rows) BY DEF Known, EmptyConfig
<1>3. \A cfg, more : Known(cfg, rows) /\ rows \subseteq more => Known(cfg, more) BY DEF Known
<1>4. ASSUME NEW cfg \in Configs, NEW c \in Credentials, NEW r \in rows \cup {None, Env}, Known(cfg, rows)
      PROVE  Known([cfg EXCEPT !.ref[c] = r], rows)
  <2>1. [cfg EXCEPT !.ref[c] = r].ref = [cfg.ref EXCEPT ![c] = r] BY DEF Configs
  <2>2. cfg.ref \in [Credentials -> AnyRef] BY DEF Configs
  <2> QED BY <1>4, <2>1, <2>2 DEF Known
<1>5. ASSUME NEW cfg \in Configs, Known(cfg, rows), NEW o
      PROVE  Known([cfg EXCEPT !.owner = o], rows) /\ Known([cfg EXCEPT !.groups = o], rows)
  <2>1. [cfg EXCEPT !.owner = o].ref = cfg.ref /\ [cfg EXCEPT !.groups = o].ref = cfg.ref BY DEF Configs
  <2> QED BY <1>5, <2>1 DEF Known
<1>6. \A cfg \in Configs : (\A c \in Credentials : cfg.ref[c] \in {None, Env}) => Known(cfg, rows) BY DEF Known, Configs
<1> QED BY <1>1, <1>2, <1>3, <1>4, <1>5, <1>6

LEMMA BootKeepsKnown ==
  ASSUME ConfigTypeOK, RefsKnown, BootStep
  PROVE  RefsKnown'
<1> DEFINE rows == DOMAIN secrets
<1>1. Known(file, rows) /\ Known(boot.cfg, rows) /\ Known(boot.loaded, rows) /\ Known(command.cfg, rows) BY DEF RefsKnown
<1>2. rows \subseteq DOMAIN secrets'
  <2>1. secrets' = secrets \/ \E c \in Credentials : Store(c)
    BY DEF BootStep, Bootstrap, LoadConfig, ResolveSentinel, KeepSentinels, Reuse, NothingToReuse, StoreRecovered, KeepOwner,
           SyncProvider, KeepKey, SyncBot, KeepToken, Bind, BindingsDone, SyncPlanner, Stop, BootDies, ConfigTypeOK, Looking
  <2> QED BY <2>1, StoreKeepsTypes DEF ConfigTypeOK
<1>3. Known(file, DOMAIN secrets') /\ Known(boot.cfg, DOMAIN secrets') /\ Known(boot.loaded, DOMAIN secrets')
      /\ Known(command.cfg, DOMAIN secrets') /\ Known(Load, DOMAIN secrets')
  BY <1>1, <1>2, KnownFacts DEF Load
<1>4. SUFFICES Known(file', DOMAIN secrets') /\ Known(boot'.cfg, DOMAIN secrets') /\ Known(boot'.loaded, DOMAIN secrets')
               /\ command' = command
  BY <1>3 DEF RefsKnown
<1>5. command' = command
  BY DEF BootStep, Bootstrap, LoadConfig, ResolveSentinel, KeepSentinels, Reuse, NothingToReuse, StoreRecovered, KeepOwner,
         SyncProvider, KeepKey, SyncBot, KeepToken, Bind, BindingsDone, SyncPlanner, Stop, BootDies
<1>6. CASE Bootstrap
  <2>1. ASSUME NEW gs \in {{}, Groups},
               file' = [ref |-> [c \in Credentials |-> IF c \in env THEN Env ELSE None], groups |-> gs, owner |-> None]
        PROVE  Known(file', DOMAIN secrets')
    BY <2>1, ConfigAssumption DEF Known
  <2>2. Known(EmptyConfig, DOMAIN secrets') BY KnownFacts
  <2>3. Known(file', DOMAIN secrets') /\ boot' = boot BY <1>6, <2>1, <2>2 DEF Bootstrap
  <2> QED BY <1>3, <1>5, <2>3
<1>7. CASE LoadConfig
  <2>1. boot'.cfg = Load /\ boot'.loaded = Load /\ file' = file BY <1>7 DEF LoadConfig, Off
  <2> QED BY <1>3, <1>5, <2>1
<1>8. CASE KeepOwner
  <2>1. Known([boot.cfg EXCEPT !.owner = engine], DOMAIN secrets') BY <1>3, <1>8, KnownFacts DEF KeepOwner, ConfigTypeOK
  <2>2. file' \in {file, [boot.cfg EXCEPT !.owner = engine]} /\ boot'.cfg = [boot.cfg EXCEPT !.owner = engine] /\ boot'.loaded = boot.loaded
    BY <1>8 DEF KeepOwner, Save, ConfigTypeOK, Boots
  <2> QED BY <1>3, <1>5, <2>1, <2>2
<1>9. CASE Reuse \/ StoreRecovered
  <2>1. ASSUME NEW r \in AnyRef, Healed(r), r \in DOMAIN secrets' \cup {None}
        PROVE  Known(boot'.cfg, DOMAIN secrets') /\ boot'.loaded = boot.loaded
    <3>1. boot.healing \in Credentials /\ boot.cfg \in Configs /\ boot.loaded \in Configs /\ boot \in Boots
      BY <1>9 DEF Reuse, StoreRecovered, ConfigTypeOK, Looking
    <3>2. boot'.loaded = boot.loaded /\ boot'.cfg = IF r = None THEN boot.cfg ELSE [boot.cfg EXCEPT !.ref[boot.healing] = r]
      BY <2>1, <3>1, HealedFields
    <3>3. Known([boot.cfg EXCEPT !.ref[boot.healing] = r], DOMAIN secrets') BY <1>3, <2>1, <3>1, KnownFacts
    <3> QED BY <1>3, <3>2, <3>3
  <2>2. file' = file BY <1>9 DEF Reuse, StoreRecovered
  <2>3. \E r \in AnyRef : Healed(r) /\ r \in DOMAIN secrets' \cup {None}
    <3>1. CASE Reuse BY <3>1 DEF Reuse, Reusable, Row, AnyRef, ConfigTypeOK
    <3>2. CASE StoreRecovered /\ NameFree(boot.healing)
      <4>1. Store(boot.healing) /\ Healed(Len(secrets) + 1) /\ boot.healing \in Credentials
        BY <3>2 DEF StoreRecovered, ConfigTypeOK, Looking
      <4>2. Len(secrets) + 1 \in DOMAIN secrets' /\ Len(secrets) + 1 \in AnyRef BY <4>1, StoreKeepsTypes DEF ConfigTypeOK
      <4> QED BY <4>1, <4>2
    <3>3. CASE StoreRecovered /\ ~NameFree(boot.healing) BY <3>3 DEF StoreRecovered, AnyRef
    <3> QED BY <1>9, <3>1, <3>2, <3>3
  <2> QED BY <1>3, <1>5, <2>1, <2>2, <2>3
<1>10. CASE Stop \/ BootDies
  <2>1. boot'.cfg = NoFile /\ boot'.loaded = NoFile /\ file' = file BY <1>10 DEF Stop, BootDies, Off
  <2> QED BY <1>3, <1>5, <2>1, KnownFacts
<1>11. CASE KeepSentinels \/ KeepKey \/ KeepToken
  <2>1. file' \in {file, boot.cfg} /\ boot'.cfg = boot.cfg /\ boot'.loaded = boot.loaded
    <3>1. CASE KeepSentinels BY <3>1 DEF KeepSentinels, Save, ConfigTypeOK, Boots
    <3>2. CASE KeepKey BY <3>2 DEF KeepKey, Save, ConfigTypeOK, Boots
    <3>3. CASE KeepToken BY <3>3 DEF KeepToken, Save, ConfigTypeOK, Boots
    <3> QED BY <1>11, <3>1, <3>2, <3>3
  <2> QED BY <1>3, <1>5, <2>1
<1>12. CASE ResolveSentinel \/ NothingToReuse \/ SyncProvider \/ SyncBot \/ BindingsDone \/ SyncPlanner \/ \E g \in Groups \cup {"0"} : Bind(g)
  <2>1. file' = file /\ boot'.cfg = boot.cfg /\ boot'.loaded = boot.loaded
    <3>1. CASE ResolveSentinel \/ NothingToReuse BY <3>1 DEF ResolveSentinel, NothingToReuse, Goto, ConfigTypeOK, Boots
    <3>2. CASE SyncProvider BY <3>2 DEF SyncProvider, ConfigTypeOK, Boots
    <3>3. CASE SyncBot BY <3>3 DEF SyncBot, ConfigTypeOK, Boots
    <3>4. CASE BindingsDone \/ SyncPlanner BY <3>4 DEF BindingsDone, SyncPlanner, Goto, ConfigTypeOK, Boots
    <3>5. CASE \E g \in Groups \cup {"0"} : Bind(g) BY <3>5 DEF Bind
    <3> QED BY <1>12, <3>1, <3>2, <3>3, <3>4, <3>5
  <2> QED BY <1>3, <1>5, <2>1
<1> QED BY <1>6, <1>7, <1>8, <1>9, <1>10, <1>11, <1>12 DEF BootStep

LEMMA PeopleKeepKnown ==
  ASSUME ConfigTypeOK, RefsKnown, PeopleStep
  PROVE  RefsKnown'
<1> DEFINE rows == DOMAIN secrets
<1>1. Known(file, rows) /\ Known(boot.cfg, rows) /\ Known(boot.loaded, rows) /\ Known(command.cfg, rows) BY DEF RefsKnown
<1>2. boot'.cfg = boot.cfg /\ boot'.loaded = boot.loaded
  BY DEF PeopleStep, AddCredential, WizardStores, WizardCommits, ListGroup, StoreCredential, CommandSaves, DoctorFix, Environment,
         Revoke, Meddle, ConfigTypeOK, Boots
<1>3. ASSUME rows \subseteq DOMAIN secrets', file' \in {file, command.cfg}, Known(command'.cfg, DOMAIN secrets')
      PROVE  RefsKnown'
  <2>1. \A cfg : Known(cfg, rows) => Known(cfg, DOMAIN secrets') BY <1>3, KnownFacts
  <2>2. Known(file, DOMAIN secrets') /\ Known(boot.cfg, DOMAIN secrets') /\ Known(boot.loaded, DOMAIN secrets')
        /\ Known(command.cfg, DOMAIN secrets')
    BY <1>1, <2>1
  <2> QED BY <1>2, <1>3, <2>2 DEF RefsKnown
<1>4. Known(Load, rows) /\ Load \in Configs BY <1>1, KnownFacts, ConfigsFacts DEF Load, ConfigTypeOK
<1>5. ASSUME NEW c \in Credentials, AddCredential(c) PROVE RefsKnown'
  <2>1. command'.cfg = Load /\ secrets' = secrets /\ file' = file BY <1>5 DEF AddCredential
  <2> QED BY <1>3, <1>4, <2>1
<1>6. ASSUME NEW c \in Credentials, WizardStores(c) PROVE RefsKnown'
  <2>1. DOMAIN secrets' = rows \cup {Len(secrets) + 1} BY <1>6, StoreKeepsTypes DEF WizardStores, ConfigTypeOK
  <2>2. PICK n \in DOMAIN secrets' : n = Len(secrets) + 1 BY <2>1
  <2>3. command'.cfg = [EmptyConfig EXCEPT !.ref[c] = n] /\ file' = file BY <1>6, <2>2 DEF WizardStores
  <2>4. Known([EmptyConfig EXCEPT !.ref[c] = n], DOMAIN secrets') BY KnownFacts, ConfigsFacts
  <2> QED BY <1>3, <2>1, <2>3, <2>4
<1>7. ASSUME NEW gs \in SUBSET Groups, WizardCommits(gs) PROVE RefsKnown'
  <2>1. command.cfg \in Configs /\ command.what \in Credentials BY <1>7 DEF WizardCommits, ConfigTypeOK
  <2>2. PICK r \in AnyRef : r = command.cfg.ref[command.what] BY <2>1, ConfigsFacts
  <2>3. r \in rows \cup {None, Env} BY <1>1, <2>1, <2>2 DEF Known, AnyRef, Configs
  <2>4. PICK cfg \in Configs : cfg = [Load EXCEPT !.ref[command.what] = r] BY <1>4, <2>1, ConfigsFacts
  <2>5. Known(cfg, rows) BY <1>4, <2>1, <2>3, <2>4, KnownFacts
  <2>6. PICK hs : command'.cfg = [cfg EXCEPT !.groups = hs]
    <3>1. PICK old \in Configs : old = Load BY <1>4
    <3>2. PICK hs : hs = IF gs = {} THEN old.groups ELSE gs OBVIOUS
    <3>3. [old EXCEPT !.ref[command.what] = r].groups = old.groups BY DEF Configs
    <3>4. [old EXCEPT !.ref[command.what] = r, !.groups = IF gs = {} THEN @ ELSE gs] = [cfg EXCEPT !.groups = hs]
      BY <2>4, <3>1, <3>2, <3>3
    <3>5. command'.cfg = [old EXCEPT !.ref[command.what] = r, !.groups = IF gs = {} THEN @ ELSE gs]
      BY <1>7, <2>2, <3>1 DEF WizardCommits, ConfigTypeOK, Commands
    <3> QED BY <3>4, <3>5
  <2>7. Known(command'.cfg, rows) BY <2>5, <2>6, KnownFacts
  <2> QED BY <1>3, <1>7, <2>7 DEF WizardCommits
<1>8. ASSUME NEW g \in Groups, ListGroup(g) PROVE RefsKnown'
  <2>1. PICK hs : command'.cfg = [Load EXCEPT !.groups = hs] BY <1>4, <1>8 DEF ListGroup
  <2>2. PICK cfg \in Configs : cfg = Load /\ Known(cfg, rows) BY <1>4
  <2>3. Known([cfg EXCEPT !.groups = hs], rows) BY <2>2, KnownFacts
  <2>4. Known(command'.cfg, rows) BY <2>1, <2>2, <2>3
  <2> QED BY <1>3, <1>8, <2>4 DEF ListGroup
<1>9. CASE StoreCredential
  <2>1. CASE NameFree(command.what)
    <3>1. command.what \in Credentials /\ command.cfg \in Configs /\ Store(command.what) BY <1>9, <2>1 DEF StoreCredential, ConfigTypeOK
    <3>2. DOMAIN secrets' = rows \cup {Len(secrets) + 1} BY <3>1, StoreKeepsTypes DEF ConfigTypeOK
    <3>3. PICK n \in DOMAIN secrets' : n = Len(secrets) + 1 BY <3>2
    <3>4. n \in AnyRef BY <3>1, <3>3, StoreKeepsTypes DEF ConfigTypeOK
    <3>5. PICK cfg \in Configs : cfg = [command.cfg EXCEPT !.ref[command.what] = n] BY <3>1, <3>4, ConfigsFacts
    <3>6. Known(cfg, DOMAIN secrets') BY <1>1, <3>1, <3>2, <3>5, KnownFacts
    <3>7. PICK o : command'.cfg = [cfg EXCEPT !.owner = o]
      <4>1. PICK old \in Commands : old = command BY DEF ConfigTypeOK
      <4>2. PICK o : o = IF old.what = "token" THEN engine ELSE old.cfg.owner OBVIOUS
      <4>3. [old.cfg EXCEPT !.ref[old.what] = n].owner = old.cfg.owner BY <3>1, <4>1 DEF Configs
      <4>4. [old EXCEPT !.at = "stored", !.cfg.ref[old.what] = n, !.cfg.owner = IF old.what = "token" THEN engine ELSE @].cfg
            = [cfg EXCEPT !.owner = o]
        BY <3>5, <4>1, <4>2, <4>3 DEF Commands
      <4> QED BY <1>9, <2>1, <3>3, <4>1, <4>4 DEF StoreCredential
    <3>8. Known(command'.cfg, DOMAIN secrets') BY <3>6, <3>7, KnownFacts
    <3> QED BY <1>3, <1>9, <3>2, <3>8 DEF StoreCredential
  <2>2. CASE ~NameFree(command.what)
    <3>1. command' = Idle /\ secrets' = secrets /\ file' = file BY <1>9, <2>2 DEF StoreCredential
    <3> QED BY <1>3, <3>1, KnownFacts DEF Idle
  <2> QED BY <2>1, <2>2
<1>10. CASE CommandSaves
  <2>1. command' = Idle /\ secrets' = secrets /\ file' \in {file, command.cfg} BY <1>10 DEF CommandSaves
  <2> QED BY <1>3, <2>1, KnownFacts DEF Idle
<1>11. CASE DoctorFix \/ Environment
  BY <1>1, <1>3, <1>11 DEF DoctorFix, Environment
<1>12. ASSUME NEW i \in DOMAIN secrets, Revoke(i) PROVE RefsKnown'
  <2>1. DOMAIN secrets' = DOMAIN secrets BY <1>12 DEF Revoke
  <2> QED BY <1>1, <1>3, <1>12, <2>1 DEF Revoke
<1> QED BY <1>5, <1>6, <1>7, <1>8, <1>9, <1>10, <1>11, <1>12 DEF PeopleStep

\* A step that touches neither the stores nor what the boot refers to.
SameRefs ==
  /\ UNCHANGED <<secrets, engine, key, env, session>>
  /\ boot'.loaded = boot.loaded /\ boot'.cfg.ref = boot.cfg.ref /\ boot'.cfg.groups = boot.cfg.groups

LEMMA SameRefsUse ==
  ASSUME SameRefs
  PROVE  /\ Faithful => Faithful'
         /\ HasSentinels' <=> HasSentinels
         /\ \A c : /\ Usable(c)' <=> Usable(c)
                   /\ HeldGood(c)' <=> HeldGood(c)
                   /\ ReadGood(c)' <=> ReadGood(c)
                   /\ (Reusable(c) = {})' <=> Reusable(c) = {}
BY DEF SameRefs, Faithful, HasSentinels, Usable, HeldGood, ReadGood, Resolves, Row, Reusable

LEMMA IdleHolds ==
  ASSUME UNCHANGED <<secrets, engine, key, env, session, file, bindings, boot>>, Unhindered => BootHolds
  PROVE  Unhindered' => BootHolds'
<1> SUFFICES ASSUME Unhindered, BootHolds PROVE BootHolds' BY DEF Unhindered
<1>1. SameRefs BY DEF SameRefs
<1>2. Faithful' BY <1>1, SameRefsUse DEF BootHolds
<1>3. FileFollows' BY <1>1, SameRefsUse DEF BootHolds, FileFollows, Early, Looking
<1>4. Repairing' BY <1>1, SameRefsUse DEF BootHolds, Repairing, Looking
<1>5. KeyInUse' BY <1>1, SameRefsUse DEF BootHolds, KeyInUse, PastKey, Early, Looking
<1>6. GroupsBound' BY <1>1, SameRefsUse DEF BootHolds, GroupsBound, Early, Looking
<1> QED BY <1>2, <1>3, <1>4, <1>5, <1>6 DEF BootHolds

\* Only the boot itself goes on undisturbed.
LEMMA PeopleLeaveBoot ==
  ASSUME ConfigTypeOK, Unhindered => BootHolds, PeopleStep
  PROVE  Unhindered' => BootHolds'
<1>1. CASE UNCHANGED <<secrets, engine, key, env, session, file, bindings, boot>> BY <1>1, IdleHolds
<1>2. CASE Meddle
  BY <1>2 DEF Meddle, Unhindered, ConfigTypeOK, Boots
<1>3. CASE boot.at = "down" /\ boot' = boot BY <1>3 DEF Unhindered
<1> QED BY <1>1, <1>2, <1>3
  DEF PeopleStep, AddCredential, WizardStores, WizardCommits, ListGroup, StoreCredential, CommandSaves, DoctorFix, Environment, Revoke

LEMMA SentinelsKept ==
  ASSUME ConfigTypeOK, Unhindered => BootHolds, Unhindered', ResolveSentinel \/ KeepSentinels \/ NothingToReuse
  PROVE  BootHolds'
<1>1. boot \in Boots /\ boot.cfg \in Configs /\ boot.loaded \in Configs
  BY DEF ResolveSentinel, KeepSentinels, NothingToReuse, ConfigTypeOK
<1>2. CASE ResolveSentinel
  <2>1. /\ boot.at = "sentinels" /\ boot'.at = "look" /\ boot'.cfg = boot.cfg /\ boot'.loaded = boot.loaded /\ file' = file
        /\ boot'.tried = boot.tried /\ boot'.disturbed = boot.disturbed
        /\ boot'.healing \in Credentials /\ boot.cfg.ref[boot'.healing] = Env /\ boot'.healing \notin boot.tried
    BY <1>1, <1>2 DEF ResolveSentinel, Pending, Boots, Credentials
  <2>2. SameRefs /\ BootHolds BY <1>2, <2>1 DEF SameRefs, ResolveSentinel, Unhindered
  <2>3. PICK c \in Credentials : c = boot'.healing BY <2>1
  <2>4. boot.loaded.ref[c] = Env /\ ~ReadGood(c)
    <3>1. boot.loaded.ref[c] = Env BY <2>1, <2>2, <2>3 DEF BootHolds, FileFollows, Early
    <3>2. Env \notin DOMAIN secrets
      <4>1. DOMAIN secrets \subseteq Nat BY DEF ConfigTypeOK
      <4> QED BY <4>1, ConfigAssumption
    <3> QED BY <3>1, <3>2 DEF ReadGood, Resolves
  <2>5. Faithful' /\ GroupsBound' /\ KeyInUse' BY <2>1, <2>2, SameRefsUse DEF BootHolds, GroupsBound, KeyInUse, PastKey, Early, Looking
  <2>6. FileFollows' BY <2>1, <2>2, <2>3, SameRefsUse DEF BootHolds, FileFollows, Early, Looking
  <2>7. Repairing' BY <2>1, <2>2, <2>3, <2>4, SameRefsUse, ConfigAssumption DEF Repairing, Looking
  <2> QED BY <2>5, <2>6, <2>7 DEF BootHolds
<1>3. CASE KeepSentinels
  <2>1. /\ boot.at = "sentinels" /\ boot'.at = "owner" /\ boot'.cfg = boot.cfg /\ boot'.loaded = boot.loaded
        /\ boot.disturbed = FALSE
        /\ HasSentinels => file' = boot.cfg
        /\ ~HasSentinels => file' = file
    BY <1>1, <1>3 DEF KeepSentinels, Save, Boots, Unhindered
  <2>2. SameRefs /\ BootHolds BY <1>3, <2>1 DEF SameRefs, KeepSentinels, Unhindered
  <2>3. Faithful' /\ GroupsBound' /\ KeyInUse' /\ Repairing'
    BY <2>1, <2>2, SameRefsUse DEF BootHolds, GroupsBound, KeyInUse, PastKey, Early, Looking, Repairing
  <2>4. FileFollows' BY <2>1, <2>2 DEF BootHolds, FileFollows, Early, Looking
  <2> QED BY <2>3, <2>4 DEF BootHolds
<1>4. CASE NothingToReuse
  <2>1. /\ boot.at = "look" /\ boot'.at = "store" /\ boot'.cfg = boot.cfg /\ boot'.loaded = boot.loaded /\ file' = file
        /\ boot'.tried = boot.tried /\ boot'.disturbed = boot.disturbed /\ boot'.healing = boot.healing
        /\ boot.healing \in Credentials
    BY <1>1, <1>4 DEF NothingToReuse, Goto, Boots, ConfigTypeOK, Looking
  <2>2. SameRefs /\ BootHolds BY <1>4, <2>1 DEF SameRefs, NothingToReuse, Unhindered
  <2>3. PICK c \in Credentials : c = boot.healing /\ Reusable(c) = {} BY <1>4, <2>1 DEF NothingToReuse
  <2>4. Faithful' /\ GroupsBound'
    <3>2. session' = session BY <2>2 DEF SameRefs
    <3>3. Early <=> Early' BY <2>1 DEF Early, Looking
    <3> QED BY <2>1, <2>2, <3>2, <3>3, SameRefsUse DEF BootHolds, GroupsBound, Looking
  <2>7. KeyInUse'
    <3>1. PastKey' => PastKey BY <2>1 DEF PastKey, Early, Looking
    <3>2. boot'.adapter = boot.adapter BY <1>1, <1>4 DEF NothingToReuse, Goto, Boots
    <3> QED BY <2>1, <2>2, <3>1, <3>2, SameRefsUse DEF BootHolds, KeyInUse
  <2>5. FileFollows' BY <2>1, <2>2, SameRefsUse DEF BootHolds, FileFollows, Early, Looking
  <2>6. Repairing' BY <2>1, <2>2, <2>3, SameRefsUse DEF BootHolds, Repairing, Looking
  <2> QED BY <2>4, <2>5, <2>6, <2>7 DEF BootHolds
<1> QED BY <1>2, <1>3, <1>4

LEMMA StagesKept ==
  ASSUME ConfigTypeOK, Unhindered => BootHolds, Unhindered', KeepOwner \/ SyncProvider \/ KeepKey \/ SyncBot \/ KeepToken
  PROVE  BootHolds'
<1>1. boot \in Boots /\ boot.cfg \in Configs /\ boot.loaded \in Configs
  BY DEF KeepOwner, SyncProvider, KeepKey, SyncBot, KeepToken, ConfigTypeOK
<1>2. CASE KeepOwner
  <2>1. /\ boot.at = "owner" /\ boot'.at = "provider" /\ boot'.loaded = boot.loaded /\ boot.disturbed = FALSE
        /\ boot'.cfg = [boot.cfg EXCEPT !.owner = engine]
        /\ boot.cfg.owner # engine => file' = boot'.cfg
        /\ boot.cfg.owner = engine => file' = file
    BY <1>1, <1>2 DEF KeepOwner, Save, Boots, Unhindered
  <2>2. SameRefs /\ BootHolds BY <1>1, <1>2, <2>1 DEF SameRefs, KeepOwner, Unhindered, Configs
  <2>3. Faithful' /\ GroupsBound' /\ KeyInUse' /\ Repairing'
    BY <2>1, <2>2, SameRefsUse DEF BootHolds, GroupsBound, KeyInUse, PastKey, Early, Looking, Repairing
  <2>4. file = boot.cfg BY <2>1, <2>2 DEF BootHolds, FileFollows, Early, Looking
  <2>5. FileFollows'
    <3>1. boot.cfg.owner = engine => boot'.cfg = boot.cfg BY <1>1, <2>1 DEF Configs
    <3> QED BY <2>1, <2>4, <3>1 DEF FileFollows, Early, Looking
  <2> QED BY <2>3, <2>5 DEF BootHolds
<1>3. CASE SyncProvider
  <2>1. /\ boot.at = "provider" /\ boot'.loaded = boot.loaded /\ boot'.cfg = boot.cfg /\ boot'.disturbed = boot.disturbed /\ file' = file
        /\ \/ boot'.at = "bot" /\ HeldGood("key") /\ boot'.adapter
           \/ /\ boot'.at = "look" /\ boot'.healing = "key" /\ boot'.tried = {"key"}
              /\ ~HeldGood("key") /\ boot.cfg.ref["key"] # None
           \/ boot'.at = "bot" /\ ~HeldGood("key") /\ (boot.cfg.ref["key"] = None \/ "key" \notin env)
    BY <1>1, <1>3 DEF SyncProvider, HeldGood, Boots
  <2>2. SameRefs /\ BootHolds BY <1>3, <2>1 DEF SameRefs, SyncProvider, Unhindered
  <2>3. "key" \in Credentials BY DEF Credentials
  <2>4. ReadGood("key") => HeldGood("key") BY <2>2, <2>3 DEF BootHolds, Faithful, ReadGood, HeldGood
  <2>5. boot.loaded.ref["key"] = None <=> boot.cfg.ref["key"] = None BY <2>2, <2>3 DEF BootHolds, Faithful
  <2>6. Faithful' /\ GroupsBound' /\ FileFollows'
    BY <2>1, <2>2, SameRefsUse DEF BootHolds, FileFollows, GroupsBound, Early, Looking
  <2>7. KeyInUse'
    <3>1. ~HeldGood("key") /\ (boot.cfg.ref["key"] = None \/ "key" \notin env) => ~Usable("key")
      BY <2>4, <2>5 DEF Usable, ReadGood
    <3> QED BY <2>1, <2>2, <3>1, SameRefsUse DEF KeyInUse, PastKey, Early, Looking
  <2>8. Repairing' BY <2>1, <2>2, <2>4, <2>5, SameRefsUse DEF Repairing, Looking
  <2> QED BY <2>6, <2>7, <2>8 DEF BootHolds
<1>4. CASE KeepKey
  <2>1. /\ boot.at = "keep_key" /\ boot'.at = "bot" /\ boot'.loaded = boot.loaded /\ boot'.cfg = boot.cfg /\ boot.disturbed = FALSE
        /\ file' = boot.cfg /\ boot'.adapter
    BY <1>1, <1>4 DEF KeepKey, Save, Boots, Unhindered
  <2>2. SameRefs /\ BootHolds BY <1>4, <2>1 DEF SameRefs, KeepKey, Unhindered
  <2> QED BY <2>1, <2>2, SameRefsUse DEF BootHolds, FileFollows, GroupsBound, KeyInUse, PastKey, Early, Looking, Repairing
<1>5. CASE SyncBot
  <2>1. /\ boot.at = "bot" /\ boot'.loaded = boot.loaded /\ boot'.cfg = boot.cfg /\ boot'.disturbed = boot.disturbed /\ file' = file
        /\ boot'.adapter = boot.adapter
        /\ \/ boot'.at = "bindings" /\ (session \/ HeldGood("token"))
           \/ /\ boot'.at = "look" /\ boot'.healing = "token" /\ boot'.tried = {"token"}
              /\ ~HeldGood("token") /\ boot.cfg.ref["token"] # None
           \/ boot'.at = "planner" /\ ~session /\ boot.cfg.ref["token"] = None
           \/ boot'.at = "planner" /\ ~session /\ ~HeldGood("token") /\ "token" \notin env
    BY <1>1, <1>5 DEF SyncBot, HeldGood, Boots
  <2>2. SameRefs /\ BootHolds BY <1>5, <2>1 DEF SameRefs, SyncBot, Unhindered
  <2>3. "token" \in Credentials BY DEF Credentials
  <2>4. ReadGood("token") => HeldGood("token") BY <2>2, <2>3 DEF BootHolds, Faithful, ReadGood, HeldGood
  <2>5. boot.loaded.ref["token"] = None <=> boot.cfg.ref["token"] = None BY <2>2, <2>3 DEF BootHolds, Faithful
  <2>6. Faithful' /\ FileFollows' /\ KeyInUse'
    BY <2>1, <2>2, SameRefsUse DEF BootHolds, FileFollows, KeyInUse, PastKey, Early, Looking
  <2>7. GroupsBound'
    <3>1. (boot.cfg.ref["token"] = None \/ (~HeldGood("token") /\ "token" \notin env)) => ~Usable("token")
      BY <2>4, <2>5 DEF Usable, ReadGood
    <3>2. session' = session BY <2>2 DEF SameRefs
    <3>4. boot'.at \in {"look", "store"} => ~session BY <1>5, <2>1 DEF SyncBot
    <3> QED BY <2>1, <2>2, <3>1, <3>2, <3>4, SameRefsUse DEF GroupsBound, Looking
  <2>8. Repairing' BY <2>1, <2>2, <2>4, <2>5, SameRefsUse DEF Repairing, Looking
  <2> QED BY <2>6, <2>7, <2>8 DEF BootHolds
<1>6. CASE KeepToken
  <2>1. /\ boot.at = "keep_token" /\ boot'.at = "bindings" /\ boot'.loaded = boot.loaded /\ boot'.cfg = boot.cfg
        /\ boot.disturbed = FALSE /\ file' = boot.cfg /\ boot'.adapter = boot.adapter
    BY <1>1, <1>6 DEF KeepToken, Save, Boots, Unhindered
  <2>2. SameRefs /\ BootHolds BY <1>6, <2>1 DEF SameRefs, KeepToken, Unhindered
  <2> QED BY <2>1, <2>2, SameRefsUse DEF BootHolds, FileFollows, GroupsBound, KeyInUse, PastKey, Early, Looking, Repairing
<1> QED BY <1>2, <1>3, <1>4, <1>5, <1>6

LEMMA BindingsKept ==
  ASSUME ConfigTypeOK, Unhindered => BootHolds, Unhindered',
         (\E g \in Groups \cup {"0"} : Bind(g)) \/ BindingsDone \/ SyncPlanner
  PROVE  BootHolds'
<1>1. boot \in Boots /\ boot.cfg \in Configs /\ boot.loaded \in Configs
  BY DEF Bind, BindingsDone, SyncPlanner, ConfigTypeOK
<1>2. CASE \E g \in Groups \cup {"0"} : Bind(g)
  <2>1. boot.at = "bindings" /\ boot' = boot /\ file' = file /\ SameRefs BY <1>2 DEF Bind, SameRefs
  <2>2. BootHolds BY <2>1 DEF Unhindered
  <2>3. session' = session BY <2>1 DEF SameRefs
  <2> QED BY <2>1, <2>2, <2>3, SameRefsUse DEF BootHolds, FileFollows, GroupsBound, KeyInUse, PastKey, Early, Looking, Repairing
<1>3. CASE BindingsDone
  <2>1. /\ boot.at = "bindings" /\ boot'.at = "planner" /\ boot'.loaded = boot.loaded /\ boot'.cfg = boot.cfg
        /\ boot'.disturbed = boot.disturbed /\ boot'.adapter = boot.adapter
        /\ file' = file /\ bindings' = bindings /\ engine' = engine /\ session' = session
    BY <1>1, <1>3 DEF BindingsDone, Goto, Boots
  <2>2. SameRefs /\ BootHolds BY <1>3, <2>1 DEF SameRefs, BindingsDone, Unhindered
  <2>3. \A g \in boot.loaded.groups : bindings[engine][g].enabled
    <3>1. TAKE g \in boot.loaded.groups
    <3>2. g \in Targets BY <2>2, <3>1 DEF BootHolds, Faithful, Targets
    <3>3. Bound(bindings[engine][g]) = bindings[engine][g] BY <1>3, <3>2 DEF BindingsDone, Unbound
    <3>4. Bound(bindings[engine][g]).enabled BY DEF Bound
    <3> QED BY <3>3, <3>4
  <2>4. GroupsBound' BY <2>1, <2>2, <2>3, SameRefsUse DEF BootHolds, GroupsBound, Looking
  <2> QED BY <2>1, <2>2, <2>4, SameRefsUse DEF BootHolds, FileFollows, KeyInUse, PastKey, Early, Looking, Repairing
<1>4. CASE SyncPlanner
  <2>1. /\ boot.at = "planner" /\ boot'.at = "up" /\ boot'.loaded = boot.loaded /\ boot'.cfg = boot.cfg
        /\ boot'.disturbed = boot.disturbed /\ (boot.adapter => boot'.planner)
        /\ file' = file /\ bindings' = bindings /\ engine' = engine /\ session' = session
    BY <1>1, <1>4 DEF SyncPlanner, Boots
  <2>2. SameRefs /\ BootHolds BY <1>4, <2>1 DEF SameRefs, SyncPlanner, Unhindered
  <2>3. KeyInUse'
    <3>1. Usable("key") => boot.adapter /\ HeldGood("key") BY <2>1, <2>2 DEF BootHolds, KeyInUse, PastKey
    <3>2. ~PastKey' BY <2>1 DEF PastKey, Looking
    <3>3. Usable("key")' => boot.adapter /\ HeldGood("key")' BY <2>2, <3>1, SameRefsUse
    <3>5. Usable("key")' => boot'.planner /\ HeldGood("key")' BY <2>1, <3>3
    <3> QED BY <3>2, <3>5, Zenon DEF KeyInUse
  <2>4. GroupsBound' BY <2>1, <2>2, SameRefsUse DEF BootHolds, GroupsBound, Looking
  <2> QED BY <2>1, <2>2, <2>3, <2>4, SameRefsUse DEF BootHolds, FileFollows, Early, Looking, Repairing
<1> QED BY <1>2, <1>3, <1>4

\* A new row resolves and disturbs no other row.
LEMMA StoreKeepsRows ==
  ASSUME ConfigTypeOK, NEW c \in Credentials, Store(c), UNCHANGED <<engine, key, env, session>>
  PROVE  /\ \A n : n = Len(secrets) + 1 => Resolves(n)'
         /\ \A r \in DOMAIN secrets \cup {None, Env} : Resolves(r)' <=> Resolves(r)
         /\ \A d \in Credentials \ {c} : Row(engine, d)' = Row(engine, d)
<1>1. /\ DOMAIN secrets' = DOMAIN secrets \cup {Len(secrets) + 1} /\ DOMAIN secrets \subseteq Nat /\ Len(secrets) + 1 \in Nat
      /\ secrets'[Len(secrets) + 1] = [db |-> engine, name |-> c, revoked |-> FALSE, key |-> key]
      /\ \A i \in DOMAIN secrets : secrets'[i] = secrets[i]
  BY DEF Store, ConfigTypeOK
<1>2. \A n : n = Len(secrets) + 1 => Resolves(n)' BY <1>1 DEF Resolves
<1>3. ASSUME NEW r \in DOMAIN secrets \cup {None, Env} PROVE Resolves(r)' <=> Resolves(r)
  <2>1. None \notin DOMAIN secrets' /\ Env \notin DOMAIN secrets' BY <1>1, ConfigAssumption
  <2> QED BY <1>1, <2>1 DEF Resolves
<1>4. ASSUME NEW d \in Credentials \ {c} PROVE Row(engine, d)' = Row(engine, d)
  BY <1>1 DEF Row
<1> QED BY <1>2, <1>3, <1>4

\* The references of one record to rows of the store.
LEMMA KnownRefs ==
  ASSUME ConfigTypeOK, RefsKnown, boot.cfg \in Configs, boot.loaded \in Configs, NEW c \in Credentials
  PROVE  /\ boot.cfg.ref[c] \in DOMAIN secrets \cup {None, Env}
         /\ boot.loaded.ref[c] \in DOMAIN secrets \cup {None, Env}
BY DEF RefsKnown, Known, Configs, AnyRef

LEMMA RepairKept ==
  ASSUME ConfigTypeOK, RefsKnown, Unhindered => BootHolds, Unhindered', Reuse \/ StoreRecovered
  PROVE  BootHolds'
<1>1. boot \in Boots /\ boot.cfg \in Configs /\ boot.loaded \in Configs /\ boot.healing \in Credentials /\ Looking /\ file' = file
      /\ boot.at # "down" /\ UNCHANGED <<engine, key, env, session, bindings>>
  BY DEF Reuse, StoreRecovered, ConfigTypeOK, Looking
<1>2. PICK c \in Credentials : c = boot.healing BY <1>1
\* What the repair comes to: a reference that resolves, or none because the name
\* is held by a row that does not.
<1>3. PICK r \in AnyRef :
        /\ Healed(r)
        /\ r # None => Resolves(r)' /\ r \in Nat
        /\ r = None => secrets' = secrets /\ Row(engine, c) # {} /\ Reusable(c) = {}
        /\ secrets' = secrets \/ Store(c)
  <2>1. CASE Reuse
    <3>1. PICK r : r \in Reusable(c) /\ Healed(r) BY <1>2, <2>1 DEF Reuse
    <3>2. r \in DOMAIN secrets /\ Resolves(r) BY <3>1 DEF Reusable, Row
    <3>3. r \in Nat /\ r \in AnyRef /\ r # None BY <3>2, ConfigAssumption DEF ConfigTypeOK, AnyRef
    <3>4. secrets' = secrets /\ Resolves(r)' BY <2>1, <3>2 DEF Reuse, Resolves
    <3> QED BY <3>1, <3>3, <3>4
  <2>2. CASE StoreRecovered /\ NameFree(c)
    <3>1. Store(c) /\ Healed(Len(secrets) + 1) BY <1>2, <2>2 DEF StoreRecovered
    <3>3. PICK r \in Nat : r = Len(secrets) + 1 BY DEF ConfigTypeOK
    <3>4. r \in AnyRef /\ r # None /\ Healed(r) BY <3>1, <3>3, ConfigAssumption DEF AnyRef
    <3>5. Resolves(r)' BY <1>1, <3>1, <3>3, StoreKeepsRows
    <3> QED BY <3>1, <3>4, <3>5
  <2>3. CASE StoreRecovered /\ ~NameFree(c)
    <3>1. Healed(None) /\ secrets' = secrets /\ boot.at = "store" BY <1>2, <2>3 DEF StoreRecovered
    <3>2. Row(engine, c) # {} BY <2>3 DEF NameFree
    <3>3. ~boot.disturbed
      <4>1. boot'.disturbed = boot.disturbed BY <1>1, <3>1, HealedFields DEF AnyRef
      <4> QED BY <4>1 DEF Unhindered
    <3>4. Reusable(c) = {} BY <1>1, <1>2, <3>1, <3>3 DEF Unhindered, BootHolds, Repairing
    <3> QED BY <3>1, <3>2, <3>4 DEF AnyRef
  <2> QED BY <2>1, <2>2, <2>3
<1>4. /\ boot' \in Boots /\ boot'.cfg \in Configs /\ boot'.loaded = boot.loaded
      /\ boot'.cfg = IF r = None THEN boot.cfg ELSE [boot.cfg EXCEPT !.ref[c] = r]
      /\ boot'.at = Heal(r) /\ boot'.healing = None /\ boot'.tried = boot.tried \cup {c}
      /\ boot'.adapter = boot.adapter /\ boot'.disturbed = boot.disturbed
  BY <1>1, <1>2, <1>3, HealedFields
<1>5. BootHolds BY <1>1, <1>4 DEF Unhindered
<1>6. boot.loaded.ref[c] # None /\ ~ReadGood(c) BY <1>1, <1>2, <1>5 DEF BootHolds, Repairing
\* What resolved resolves still, and nothing else does but the new row.
<1>7. \A d \in Credentials :
        /\ ReadGood(d)' <=> ReadGood(d)
        /\ d # c => (HeldGood(d)' <=> HeldGood(d)) /\ boot'.cfg.ref[d] = boot.cfg.ref[d]
        /\ d # c => (Usable(d)' <=> Usable(d))
  <2>1. TAKE d \in Credentials
  <2>2. PICK lr : lr = boot.loaded.ref[d] OBVIOUS
  <2>3. PICK hr : hr = boot.cfg.ref[d] OBVIOUS
  <2>4. lr \in DOMAIN secrets \cup {None, Env} /\ hr \in DOMAIN secrets \cup {None, Env} BY <1>1, <2>2, <2>3, KnownRefs
  <2>5. \A x \in DOMAIN secrets \cup {None, Env} : Resolves(x)' <=> Resolves(x)
    <3>1. CASE secrets' = secrets BY <1>1, <3>1 DEF Resolves
    <3>2. CASE Store(c) BY <1>1, <3>2, StoreKeepsRows
    <3> QED BY <1>3, <3>1, <3>2
  <2>6. boot'.loaded.ref[d] = lr BY <1>4, <2>2
  <2>7. ReadGood(d)' <=> ReadGood(d)
    <3>1. ReadGood(d)' <=> Resolves(lr)' BY <2>6 DEF ReadGood, Resolves
    <3>2. ReadGood(d) <=> Resolves(lr) BY <2>2 DEF ReadGood
    <3> QED BY <2>4, <2>5, <3>1, <3>2
  <2>8. ASSUME d # c PROVE boot'.cfg.ref[d] = hr BY <1>1, <1>4, <2>3, <2>8 DEF Configs
  <2>9. ASSUME d # c PROVE HeldGood(d)' <=> HeldGood(d)
    <3>1. HeldGood(d)' <=> Resolves(hr)' BY <2>8, <2>9 DEF HeldGood, Resolves
    <3>2. HeldGood(d) <=> Resolves(hr) BY <2>3 DEF HeldGood
    <3> QED BY <2>4, <2>5, <3>1, <3>2
  <2>10. ASSUME d # c PROVE Usable(d)' <=> Usable(d)
    <3>1. Row(engine, d)' = Row(engine, d)
      <4>1. CASE secrets' = secrets BY <1>1, <4>1 DEF Row
      <4>2. CASE Store(c) BY <1>1, <2>10, <4>2, StoreKeepsRows
      <4> QED BY <1>3, <4>1, <4>2
    <3>2. \A i \in Row(engine, d) : i \in DOMAIN secrets BY DEF Row
    <3>3. (\A i \in Row(engine, d)' : Resolves(i)') <=> (\A i \in Row(engine, d) : Resolves(i)) BY <2>5, <3>1, <3>2
    <3>4. Usable(d)' <=> lr # None /\ (ReadGood(d)' \/ (d \in env /\ \A i \in Row(engine, d)' : Resolves(i)'))
      BY <1>1, <2>6 DEF Usable, ReadGood, Row, Resolves
    <3>5. Usable(d) <=> lr # None /\ (ReadGood(d) \/ (d \in env /\ \A i \in Row(engine, d) : Resolves(i)))
      BY <2>2 DEF Usable, ReadGood
    <3> QED BY <2>7, <3>3, <3>4, <3>5
  <2> QED BY <2>3, <2>7, <2>8, <2>9, <2>10
<1>8. r # None => boot'.cfg.ref[c] = r /\ HeldGood(c)'
  <2>1. ASSUME r # None PROVE boot'.cfg.ref[c] = r BY <1>1, <1>4, <2>1 DEF Configs
  <2> QED BY <1>3, <2>1 DEF HeldGood, Resolves
<1>9. r = None => ~Usable(c)'
  <2>1. ASSUME r = None PROVE ~Usable(c)'
    <3>1. secrets' = secrets /\ Row(engine, c) # {} /\ Reusable(c) = {} BY <1>3, <2>1
    <3>2. PICK i \in Row(engine, c) : ~Resolves(i) BY <3>1 DEF Reusable
    <3>3. ~Resolves(i)' /\ i \in Row(engine, c)' BY <1>1, <3>1, <3>2 DEF Resolves, Row
    <3>4. ~ReadGood(c)' BY <1>6, <1>7
    <3> QED BY <1>1, <3>3, <3>4 DEF Usable, ReadGood, Row, Resolves
  <2> QED BY <2>1
<1>10. Faithful'
  <2>1. boot'.cfg.groups = boot'.loaded.groups BY <1>1, <1>4, <1>5 DEF BootHolds, Faithful, Configs
  <2>2. ASSUME NEW d \in Credentials
        PROVE  /\ boot'.loaded.ref[d] = None <=> boot'.cfg.ref[d] = None
               /\ ReadGood(d)' => boot'.cfg.ref[d] = boot'.loaded.ref[d]
    <3>1. CASE d = c BY <1>4, <1>5, <1>6, <1>7, <1>8, <3>1 DEF BootHolds, Faithful
    <3>2. CASE d # c BY <1>4, <1>5, <1>7, <3>2 DEF BootHolds, Faithful
    <3> QED BY <3>1, <3>2
  <2> QED BY <2>1, <2>2 DEF Faithful
<1>11. CASE Early
  <2>1. /\ file = boot.loaded /\ (boot.cfg = boot.loaded \/ HasSentinels) /\ boot.cfg.ref[c] = Env /\ boot.loaded.ref[c] = Env
        /\ \A d \in Credentials : boot.cfg.ref[d] = Env => boot.loaded.ref[d] = Env
    BY <1>1, <1>2, <1>5, <1>11 DEF BootHolds, FileFollows
  <2>2. c \notin boot.tried BY <1>1, <1>2, <1>11 DEF Early, Looking
  <2>3. boot'.at = "sentinels" 
    <3>1. boot.healing = c BY <1>2
    <3> QED BY <1>4, <2>1, <2>2, <3>1 DEF Heal
  <2>4. HasSentinels' BY <1>4, <2>1 DEF HasSentinels
  <2>5. \A d \in Credentials : boot'.cfg.ref[d] = Env => boot'.loaded.ref[d] = Env
    BY <1>4, <1>7, <2>1
  <2>6. FileFollows' BY <1>1, <1>4, <2>1, <2>3, <2>4, <2>5 DEF FileFollows, Early, Looking
  <2> QED BY <1>10, <2>3, <2>6 DEF BootHolds, Repairing, KeyInUse, GroupsBound, PastKey, Early, Looking
<1>12. CASE ~Early
  <2>1. c \in boot.tried /\ file = boot.cfg BY <1>1, <1>2, <1>5, <1>12 DEF BootHolds, FileFollows, Early, Looking
  <2>2. boot'.at = IF r = None THEN (IF c = "key" THEN "bot" ELSE "planner")
                               ELSE (IF c = "key" THEN "keep_key" ELSE "keep_token")
    BY <1>2, <1>4, <2>1 DEF Heal
  <2>3. c = "key" \/ c = "token" BY DEF Credentials
  <2>4. FileFollows' BY <1>1, <1>4, <2>1, <2>2 DEF FileFollows, Early, Looking
  <2>5. Repairing' BY <1>8, <2>2, <2>3 DEF Repairing, Looking
  <2>6. KeyInUse'
    <3>1. CASE c = "key" BY <1>9, <2>2, <3>1 DEF KeyInUse, PastKey, Looking
    <3>2. CASE c = "token"
      <4>1. "key" \in Credentials /\ "key" # c BY <3>2 DEF Credentials
      <4>2. PastKey BY <1>1, <1>2, <1>12, <3>2 DEF PastKey
      <4>3. Usable("key")' => boot'.adapter /\ HeldGood("key")' BY <1>4, <1>5, <1>7, <4>1, <4>2 DEF BootHolds, KeyInUse
      <4>4. boot'.at # "up" BY <2>2
      <4> QED BY <4>3, <4>4 DEF KeyInUse
    <3> QED BY <2>3, <3>1, <3>2
  <2>7. GroupsBound'
    <3>1. CASE c = "key" BY <2>2, <3>1 DEF GroupsBound, Looking
    <3>2. CASE c = "token" /\ r # None BY <2>2, <3>2 DEF GroupsBound, Looking
    <3>3. CASE c = "token" /\ r = None
      <4>1. ~Usable("token")' BY <1>9, <3>3
      <4>2. ~session' BY <1>1, <1>2, <1>5, <1>12, <3>3 DEF BootHolds, GroupsBound
      <4> QED BY <2>2, <3>3, <4>1, <4>2 DEF GroupsBound, Looking
    <3> QED BY <2>3, <3>1, <3>2, <3>3
  <2> QED BY <1>10, <2>4, <2>5, <2>6, <2>7 DEF BootHolds
<1> QED BY <1>11, <1>12

LEMMA ConfigInvInit == ConfigInit => ConfigInv
<1> SUFFICES ASSUME ConfigInit PROVE ConfigInv OBVIOUS
<1>1. boot = Off /\ command = Idle /\ file = NoFile /\ secrets = <<>> BY DEF ConfigInit
<1>2. ConfigTypeOK
  <2>1. Off \in Boots /\ Idle \in Commands BY ConfigsFacts DEF Off, Idle, Boots, Commands, Stages
  <2>2. boot.at = "down" /\ command.at = "idle" BY <1>1 DEF Off, Idle
  <2>3. secrets \in Seq(Secrets) BY <1>1
  <2>4. /\ engine \in Databases /\ key \in Keys /\ env \in SUBSET Credentials /\ session \in BOOLEAN
    BY DEF ConfigInit
  <2>5. file \in Files /\ boot \in Boots /\ command \in Commands BY <1>1, <2>1, ConfigsFacts
  <2>6. ~Looking BY <2>2 DEF Looking
  <2> QED BY <2>2, <2>3, <2>4, <2>5, <2>6 DEF ConfigTypeOK
<1>3. RefsKnown BY <1>1, KnownFacts DEF RefsKnown, Off, Idle
<1>4. ~Unhindered BY <1>1 DEF Unhindered, Off
<1> QED BY <1>2, <1>3, <1>4 DEF ConfigInv

LEMMA ConfigInvKept == ConfigInv /\ [ConfigNext]_configVars => ConfigInv'
<1> SUFFICES ASSUME ConfigInv, [ConfigNext]_configVars PROVE ConfigInv' OBVIOUS
<1>1. ConfigTypeOK /\ RefsKnown /\ (Unhindered => BootHolds) BY DEF ConfigInv
<1>2. CASE PeopleStep BY <1>1, <1>2, PeopleTypesKept, PeopleKeepKnown, PeopleLeaveBoot DEF ConfigInv
<1>3. CASE BootStep
  <2>1. ConfigTypeOK' /\ RefsKnown' BY <1>1, <1>3, BootTypesKept, BootKeepsKnown
  <2>2. ASSUME Unhindered' PROVE BootHolds'
    <3>1. CASE ResolveSentinel \/ KeepSentinels \/ NothingToReuse BY <1>1, <2>2, <3>1, SentinelsKept
    <3>2. CASE KeepOwner \/ SyncProvider \/ KeepKey \/ SyncBot \/ KeepToken BY <1>1, <2>2, <3>2, StagesKept
    <3>3. CASE (\E g \in Groups \cup {"0"} : Bind(g)) \/ BindingsDone \/ SyncPlanner BY <1>1, <2>2, <3>3, BindingsKept
    <3>4. CASE Reuse \/ StoreRecovered BY <1>1, <2>2, <3>4, RepairKept
    <3>5. CASE Bootstrap \/ Stop \/ BootDies BY <2>2, <3>5 DEF Bootstrap, Stop, BootDies, Off, Unhindered
    <3>6. CASE LoadConfig
      <4>1. /\ boot'.at = "sentinels" /\ boot'.cfg = Load /\ boot'.loaded = Load /\ file' = file /\ Load = file
        BY <3>6 DEF LoadConfig, Off, Load
      <4> QED BY <4>1 DEF BootHolds, Faithful, FileFollows, Repairing, KeyInUse, GroupsBound, PastKey, Early, Looking, HeldGood, ReadGood
    <3> QED BY <1>3, <3>1, <3>2, <3>3, <3>4, <3>5, <3>6 DEF BootStep
  <2> QED BY <2>1, <2>2 DEF ConfigInv
<1>4. CASE UNCHANGED configVars
  <2>1. UNCHANGED <<secrets, engine, key, env, session, file, bindings, boot, command>> BY <1>4 DEF configVars
  <2>2. ConfigTypeOK' BY <1>1, <2>1 DEF ConfigTypeOK, Looking
  <2>3. RefsKnown' BY <1>1, <2>1 DEF RefsKnown
  <2>4. Unhindered' => BootHolds'
    BY <1>1, <2>1, IdleHolds
  <2> QED BY <2>2, <2>3, <2>4 DEF ConfigInv
<1> QED BY <1>2, <1>3, <1>4 DEF ConfigNext

LEMMA ConfigInvWires == ConfigInv => Wired
<1> SUFFICES ASSUME ConfigInv, boot.at = "up", ~boot.disturbed PROVE Wired BY DEF Wired
<1>1. BootHolds BY DEF ConfigInv, Unhindered
<1>2. session \/ Usable("token") => \A g \in boot.loaded.groups : bindings[engine][g].enabled BY <1>1 DEF BootHolds, GroupsBound
<1>3. Usable("token") /\ ~session => Resolves(boot.cfg.ref["token"]) BY <1>1 DEF BootHolds, GroupsBound, HeldGood
<1>4. Usable("key") => boot.planner /\ Resolves(boot.cfg.ref["key"]) BY <1>1 DEF BootHolds, KeyInUse, HeldGood
<1>5. file = boot.cfg BY <1>1 DEF BootHolds, FileFollows, Early, Looking
<1> QED BY <1>2, <1>3, <1>4, <1>5 DEF Wired

\* Wired holds of every configuration, credential store and environment: whatever
\* boots that died, failed saves and commands beside it left, a boot that ends
\* undisturbed has bound the groups it read, names rows that resolve, in the file
\* too, and has an adapter for the planner (sync_management_config).
THEOREM BootsWire == ConfigSpec => []Wired
<1>1. ConfigInit => ConfigInv BY ConfigInvInit
<1>2. ConfigInv /\ [ConfigNext]_configVars => ConfigInv' BY ConfigInvKept
<1>3. ConfigInv => Wired BY ConfigInvWires
<1> QED BY <1>1, <1>2, <1>3, PTL DEF ConfigSpec

=============================================================================
