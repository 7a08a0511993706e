----------------------------- MODULE Worktrees -----------------------------
(***************************************************************************)
(* The worktrees of src/zero/app/worktree_service.py: the rows of one      *)
(* execution, their directories and what their git branches contain.       *)
(*                                                                         *)
(* Each attempt of a task makes at most one worktree, so a worktree is     *)
(* named by its attempt <<task, number>>.  The definitions here are the    *)
(* service's operations on its own state; AgentRuntime says who calls them *)
(* and when.  update_worktree_state checks nothing: an operation reads the *)
(* row, checks the transition on what it read, and writes.  Where git runs *)
(* between the two, reading and writing are separate definitions.          *)
(***************************************************************************)
EXTENDS Integers, FiniteSets

CONSTANTS
  Tasks,      \* the tasks of the execution
  Attempts    \* BOUND: the attempts there can be, pairs of task and number

ASSUME AttemptsOfTasks == Attempts \subseteq Tasks \X (Nat \ {0})
ASSUME BoundedAttempts == IsFiniteSet(Attempts) /\ Attempts # {}

VARIABLES
  row,      \* worktrees.state, "none" without a row
  age,      \* the order of worktrees.created_at, 0 without a row
  dir,      \* the directory: absent, clean or with uncommitted changes
  branch,   \* the attempts whose work the branch zero/<id> contains
  command   \* the worktrees with a command_runs row in state running

wtVars == <<row, age, dir, branch, command>>

-----------------------------------------------------------------------------
WorktreeState == {"none", "allocated", "active", "interrupted", "succeeded", "failed",
                  "cancelled", "cleanup_eligible", "removed"}

\* MUTANT of InFlight: every row that still has a directory.
DISK_RESIDENT == {"allocated", "active", "interrupted", "succeeded", "failed", "cancelled"}

\* The states of the partial unique index idx_worktrees_task_active.
InFlight == {"allocated", "active", "interrupted"}

WORKTREE_TRANSITIONS ==
  [s \in WorktreeState |->
     CASE s = "allocated"        -> {"active", "cancelled", "interrupted"}
       [] s = "active"           -> {"succeeded", "failed", "interrupted", "cancelled"}
       [] s = "interrupted"      -> {"active", "cancelled", "cleanup_eligible"}
       [] s \in {"succeeded", "failed", "cancelled"} -> {"cleanup_eligible", "removed"}
       [] s = "cleanup_eligible" -> {"removed"}
       [] OTHER                  -> {}]

CanBecome(a, state) == state \in WORKTREE_TRANSITIONS[row[a]]

WorktreesTypeOK ==
  /\ row \in [Attempts -> WorktreeState]
  /\ age \in [Attempts -> Nat]
  /\ dir \in [Attempts -> {"absent", "clean", "dirty"}]
  /\ branch \in [Attempts -> SUBSET Attempts]
  /\ command \subseteq Attempts

WorktreesInit ==
  /\ row = [a \in Attempts |-> "none"]
  /\ age = [a \in Attempts |-> 0]
  /\ dir = [a \in Attempts |-> "absent"]
  /\ branch = [a \in Attempts |-> {}]
  /\ command = {}

Of(t) == {a \in Attempts : a[1] = t}

SetState(a, state) ==
  /\ row' = [row EXCEPT ![a] = state]
  /\ UNCHANGED <<age, dir, branch, command>>

-----------------------------------------------------------------------------
(* create_worktree.                                                        *)

\* get_worktree_for_task: the index leaves at most one.
\* MUTANT of Stale: a row a restart marked interrupted is not looked for.
StaleActive(t) == {a \in Of(t) : row[a] \in {"allocated", "active"}}

Stale(t) == {a \in Of(t) : row[a] \in InFlight}

\* git worktree add, the hygiene baseline and the two rev-parse calls.
AddDirectory(a, base) ==
  /\ dir' = [dir EXCEPT ![a] = "clean"]
  /\ branch' = [branch EXCEPT ![a] = base]
  /\ UNCHANGED <<row, age, command>>

\* _abandon_worktree of a row that was read in state seen.
Abandon(a, seen) ==
  /\ dir' = [dir EXCEPT ![a] = "absent"]
  /\ row' = [row EXCEPT ![a] = IF seen = "active" THEN "failed" ELSE "cancelled"]
  /\ UNCHANGED <<age, branch, command>>

Insertable(a) == \A b \in Of(a[1]) : row[b] \notin InFlight

InsertRow(a) ==
  /\ Insertable(a)
  /\ row' = [row EXCEPT ![a] = "allocated"]
  /\ age' = [age EXCEPT ![a] = 1 + Cardinality({b \in Of(a[1]) : age[b] > 0})]
  /\ UNCHANGED <<dir, branch, command>>

\* The unique index refuses the row.  On PostgreSQL the message names the
\* index and the new directory is removed; SQLite's names the column, so the
\* error is not taken for a duplicate and the directory stays.
InsertRefused(a) ==
  /\ ~Insertable(a)
  /\ dir' \in {dir, [dir EXCEPT ![a] = "absent"]}
  /\ UNCHANGED <<row, age, branch, command>>

-----------------------------------------------------------------------------
(* _merge_worktree_base, activate_worktree and complete_worktree.          *)

Activate(a, merged) ==
  /\ CanBecome(a, "active")
  /\ row' = [row EXCEPT ![a] = "active"]
  /\ branch' = [branch EXCEPT ![a] = @ \cup merged]
  /\ UNCHANGED <<age, dir, command>>

\* complete_worktree(succeeded=True) past its check: the commit, if the
\* directory is there and git does not fail, and the row.
CommitSucceeded(a, committed) ==
  /\ committed => dir[a] # "absent"
  /\ row' = [row EXCEPT ![a] = "succeeded"]
  /\ dir' = [dir EXCEPT ![a] = IF committed THEN "clean" ELSE @]
  /\ branch' = [branch EXCEPT ![a] = IF committed THEN @ \cup {a} ELSE @]
  /\ UNCHANGED <<age, command>>

\* The latest succeeded worktree of a task, as _dependency_worktree_bases
\* picks it: the last in the order of created_at.
\* MUTANT of LatestSucceeded: the first one instead of the last.
EarliestSucceeded(t) ==
  {a \in Of(t) : /\ row[a] = "succeeded"
                 /\ \A b \in Of(t) : row[b] = "succeeded" => age[b] >= age[a]}

LatestSucceeded(t) ==
  {a \in Of(t) : /\ row[a] = "succeeded"
                 /\ \A b \in Of(t) : row[b] = "succeeded" => age[b] <= age[a]}

-----------------------------------------------------------------------------
(* run_command and the other tools that write files.                       *)

Usable(a) == row[a] \in InFlight /\ dir[a] # "absent"

WriteFile(a) ==
  /\ Usable(a)
  /\ dir' = [dir EXCEPT ![a] = "dirty"]
  /\ UNCHANGED <<row, age, branch, command>>

StartCommand(a) ==
  /\ Usable(a)
  /\ command' = command \cup {a}
  /\ dir' = [dir EXCEPT ![a] = "dirty"]
  /\ row' = [row EXCEPT ![a] = IF @ = "allocated" THEN "active" ELSE @]
  /\ UNCHANGED <<age, branch>>

EndCommands(a) ==
  /\ command' = command \ {a}
  /\ UNCHANGED <<row, age, dir, branch>>

-----------------------------------------------------------------------------
(* Cleaning up, for rows whose execution ended.  remove_worktree lets git  *)
(* refuse when there are uncommitted changes; the row then stays.          *)

Cleanable(a) == row[a] \in {"succeeded", "failed", "cancelled"} /\ a \notin command

MarkAndRemove(a) ==
  /\ Cleanable(a)
  /\ IF dir[a] = "dirty"
     THEN row' = [row EXCEPT ![a] = "cleanup_eligible"] /\ UNCHANGED dir
     ELSE /\ row' = [row EXCEPT ![a] = "removed"]
          /\ dir' = [dir EXCEPT ![a] = "absent"]
  /\ UNCHANGED <<age, branch, command>>
=============================================================================
