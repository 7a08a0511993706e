--------------------------- MODULE ServiceProcess ---------------------------
(***************************************************************************)
(* The service as a plain process: "zero start", "zero stop" and           *)
(* "zero restart" of src/zero/manage/cli.py and "zero-develop serve" of    *)
(* src/zero/cli.py, on a host that systemd does not manage.                *)
(*                                                                         *)
(* What they know of the service is zero.pid, whether its pid is alive,    *)
(* whether the port can be bound and who answers /healthz on it.  A        *)
(* process imports and migrates for a while before it binds the port, and  *)
(* works on for a while after it was told to stop: it first keeps the      *)
(* port, then drains without it.  Pids are not used again.                 *)
(***************************************************************************)
EXTENDS Integers

CONSTANTS
  Terminals,  \* where commands are typed
  MaxSpawns   \* BOUND: processes spawned

ASSUME SpawnBound == MaxSpawns \in Nat

Pids == 1 .. MaxSpawns
NoPid == 0   \* no process; a zero.pid that is absent or unreadable

VARIABLES
  process,     \* per pid
  foreground,  \* the pids of "zero-develop serve"
  pidFile,     \* zero.pid
  term,        \* per terminal: the command under way and the pid it is about
  orderly      \* whether commands are typed one after the other and none is killed

hostVars == <<process, foreground, pidFile, term, orderly>>

-----------------------------------------------------------------------------
Prompt == [pc |-> "prompt", pid |-> NoPid, again |-> FALSE]

ServiceInit ==
  /\ process = [n \in Pids |-> "unborn"] /\ foreground = {} /\ pidFile = NoPid
  /\ term = [t \in Terminals |-> Prompt] /\ orderly \in BOOLEAN

Lives(n) == n # NoPid /\ process[n] \in {"starting", "serving", "told", "draining"}
PortHeld == \E n \in Pids : process[n] \in {"serving", "told"}
Turns(n, state) == process' = [process EXCEPT ![n] = state]

Returns(t) == term' = [term EXCEPT ![t] = Prompt]
TurnsTo(t, pc, n) == term' = [term EXCEPT ![t].pc = pc, ![t].pid = n]
Types(t, pc, n, again) == term' = [term EXCEPT ![t] = [pc |-> pc, pid |-> n, again |-> again]]
MayType(t) == term[t] = Prompt /\ (orderly => \A u \in Terminals : term[u] = Prompt)

-----------------------------------------------------------------------------
(* cmd_start *)

\* MUTANT of Running: the process is taken for running once it serves.
RunningIfServing == pidFile # NoPid /\ process[pidFile] = "serving"

\* "a second `zero start` used to spawn a doomed duplicate"
Running == Lives(pidFile)

TypeStart(t) ==
  /\ MayType(t)
  /\ ~Running
  /\ Types(t, "probe", NoPid, FALSE)
  /\ UNCHANGED <<process, foreground, pidFile, orderly>>

\* The port is refused whoever holds it, a healthy service of ours too.
ProbePort(t) ==
  /\ term[t].pc = "probe"
  /\ IF PortHeld THEN Returns(t) ELSE TurnsTo(t, "spawn", NoPid)
  /\ UNCHANGED <<process, foreground, pidFile, orderly>>

Spawn(t) ==
  /\ term[t].pc = "spawn"
  /\ \E n \in Pids :
       /\ process[n] = "unborn" /\ \A k \in 1 .. n - 1 : process[k] # "unborn"
       /\ Turns(n, "starting") /\ TurnsTo(t, "write", n)
  /\ UNCHANGED <<foreground, pidFile, orderly>>

WritePid(t) ==
  /\ term[t].pc = "write"
  /\ pidFile' = term[t].pid
  /\ TurnsTo(t, "wait", term[t].pid)
  /\ UNCHANGED <<process, foreground, orderly>>

\* The child exited, /healthz answered and the child is still there, or 25
\* seconds are over: zero.pid stays in every case.
Wait(t) ==
  /\ term[t].pc = "wait"
  /\ Returns(t)
  /\ UNCHANGED <<process, foreground, pidFile, orderly>>

-----------------------------------------------------------------------------
(* cmd_stop, cmd_restart and _cmd_serve *)

Told(n) ==
  CASE process[n] = "starting" -> "dead"
    [] process[n] = "serving" -> "told"
    [] OTHER -> process[n]

\* SIGTERM, and no waiting for what comes of it.
Signal(t) ==
  /\ MayType(t) /\ pidFile # NoPid
  /\ Turns(pidFile, Told(pidFile))
  /\ \E again \in BOOLEAN : Types(t, "unlink", NoPid, again)
  /\ UNCHANGED <<foreground, pidFile, orderly>>

\* "zero restart" goes on with cmd_start, which finds no zero.pid.
Unlink(t) ==
  /\ term[t].pc = "unlink"
  /\ pidFile' = NoPid
  /\ IF term[t].again THEN Types(t, "probe", NoPid, FALSE) ELSE Returns(t)
  /\ UNCHANGED <<process, foreground, orderly>>

Serve(t) ==
  /\ MayType(t) /\ ~Running /\ ~PortHeld
  /\ \E n \in Pids :
       /\ process[n] = "unborn" /\ \A k \in 1 .. n - 1 : process[k] # "unborn"
       /\ Turns(n, "starting") /\ foreground' = foreground \cup {n}
  /\ UNCHANGED <<pidFile, term, orderly>>

-----------------------------------------------------------------------------
(* The processes. *)

BindPort(n) ==
  /\ process[n] = "starting"
  /\ Turns(n, IF PortHeld THEN "dead" ELSE "serving")
  /\ UNCHANGED <<foreground, pidFile, term, orderly>>

ClosePort(n) ==
  /\ process[n] = "told"
  /\ Turns(n, "draining")
  /\ UNCHANGED <<foreground, pidFile, term, orderly>>

ProcessExits(n) ==
  /\ Lives(n)
  /\ Turns(n, "dead")
  /\ UNCHANGED <<foreground, pidFile, term, orderly>>

CommandIsKilled(t) ==
  /\ term[t] # Prompt /\ ~orderly
  /\ Returns(t)
  /\ UNCHANGED <<process, foreground, pidFile, orderly>>

ServiceNext ==
  \/ \E t \in Terminals :
        \/ TypeStart(t) \/ ProbePort(t) \/ Spawn(t) \/ WritePid(t) \/ Wait(t)
        \/ Signal(t) \/ Unlink(t) \/ Serve(t) \/ CommandIsKilled(t)
  \/ \E n \in Pids : BindPort(n) \/ ClosePort(n) \/ ProcessExits(n)

-----------------------------------------------------------------------------
\* PROPERTY.  As long as commands come one after the other and none is killed, no
\* service runs behind the back of "zero stop": whenever a prompt is back, a process
\* of "zero start" that was not told to stop is the one zero.pid names, however slow
\* processes are to bind the port and to leave, and whoever else serves.
NoneUnmanaged ==
  orderly /\ (\A t \in Terminals : term[t] = Prompt)
    => \A n \in Pids \ foreground : process[n] \in {"starting", "serving"} => pidFile = n
=============================================================================
