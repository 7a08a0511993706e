------------------------------ MODULE PollLock ------------------------------
(***************************************************************************)
(* The advisory lock on polling one bot token: TokenPollLock of            *)
(* src/zero/app/poll_lock.py as the polling worker uses it                 *)
(* (background_workers._polling_loop).                                     *)
(*                                                                         *)
(* A process creates the lock file and then writes its pid into it; one    *)
(* that finds the file reads it and removes it when it names no live       *)
(* process.  Each of these is a system call of its own.                    *)
(***************************************************************************)
EXTENDS Integers, FiniteSets

CONSTANTS
  Processes,  \* the processes that may come to poll, one pid each
  Dead        \* a process that died before

ASSUME DeadIsOther == Dead \notin Processes

VARIABLES
  file,  \* the lock files at the path, at most one: who created it, pid written
  lock   \* where each process is in try_acquire

lockVars == <<file, lock>>

LockInit ==
  /\ file \in {{}} \cup {{[by |-> Dead, written |-> w]} : w \in BOOLEAN}
  /\ lock = [p \in Processes |-> [pc |-> "off", tries |-> 0]]

\* holder_pid and _pid_alive.
NamesLive == \E f \in file : f.written /\ f.by # Dead /\ lock[f.by].pc # "gone"

Step(p, pc) == lock' = [lock EXCEPT ![p].pc = pc]

-----------------------------------------------------------------------------
Start(p) ==
  /\ lock[p].pc = "off"
  /\ Step(p, "create")
  /\ UNCHANGED file

\* os.open with O_CREAT and O_EXCL.
Create(p) ==
  /\ lock[p].pc = "create"
  /\ lock' = [lock EXCEPT ![p] = [pc |-> IF file = {} THEN "write" ELSE "read", tries |-> @.tries + 1]]
  /\ file' = IF file = {} THEN {[by |-> p, written |-> FALSE]} ELSE file

\* The pid goes into the file that p created, at the path or not.
WritePid(p) ==
  /\ lock[p].pc = "write"
  /\ file' = {[f EXCEPT !.written = @ \/ f.by = p] : f \in file}
  /\ Step(p, "polls")

ReadPid(p) ==
  /\ lock[p].pc = "read"
  /\ Step(p, IF NamesLive THEN "skips" ELSE "steal")
  /\ UNCHANGED file

Tries == 2

Steal(p) ==
  /\ lock[p].pc = "steal"
  /\ file' = {}
  /\ Step(p, IF lock[p].tries < Tries THEN "create" ELSE "skips")

\* The worker stops: release_all removes the file if it names this process.
\* The loop asks for the lock once and keeps to the answer until then.
Release(p) ==
  /\ lock[p].pc \in {"polls", "skips"}
  /\ Step(p, "gone")
  /\ file' = IF lock[p].pc = "polls" THEN {f \in file : ~(f.by = p /\ f.written)} ELSE file

Die(p) ==
  /\ lock[p].pc \notin {"off", "gone"}
  /\ Step(p, "gone")
  /\ UNCHANGED file

LockNext ==
  \E p \in Processes :
    \/ Start(p) \/ Create(p) \/ WritePid(p) \/ ReadPid(p) \/ Steal(p) \/ Release(p) \/ Die(p)

-----------------------------------------------------------------------------

=============================================================================
