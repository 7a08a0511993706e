---------------------------- MODULE ToolService ----------------------------
(***************************************************************************)
(* Tools, their handlers and their grants: src/zero/app/tool_service.py,   *)
(* tool_runner.py, the rows of tool_repository.py, and what config_sync.py *)
(* does to both at every start.                                            *)
(*                                                                         *)
(* A tool's declaration and grants are rows that outlive the process; its  *)
(* handler is a callable of one process, of that process's version of the  *)
(* code.  A server and a command beside it share the rows.  Both kinds of  *)
(* tool are granted and called alike: the model follows the workspace tool.*)
(***************************************************************************)
EXTENDS Integers, Sequences, FiniteSets

CONSTANTS
  Processes,
  Versions,      \* versions of the code a process can start with
  Calls,         \* invocations
  Workspace,     \* a tool of register_worktree_tools: a failure ends the start
  Extension,     \* a tool of the configuration: a failure is logged
  Caps,          \* max_invocations a person can grant
  Unlimited,     \* no max_invocations
  MaxGrants,     \* BOUND: grants given
  MaxStarts      \* BOUND: starts of a process

ASSUME CapsAreNumbers == Caps \subseteq Nat

Tools == {Workspace, Extension}
None == 0

VARIABLES
  row,        \* tools: the version a tool's declaration is of, or None
  grant,      \* tool_grants: the number of the grant of the workspace tool, or None
  given,      \* the grants ever given: max_invocations and invocation_count
  proc,       \* per process: how far its start is, its version, its handlers
  invocation, \* per call of invoke: where it is and what it read
  starts

toolVars == <<row, grant, given, proc, invocation, starts>>

-----------------------------------------------------------------------------
Down == [pc |-> "down", version |-> None, bound |-> {}, saw |-> FALSE]
NoInvocation ==
  [pc |-> "new", proc |-> None, declared |-> None, grant |-> None, counted |-> None,
   result |-> "none"]

ToolInit ==
  /\ row = [t \in Tools |-> None] /\ grant = None /\ given = <<>>
  /\ proc = [p \in Processes |-> Down]
  /\ invocation = [c \in Calls |-> NoInvocation]
  /\ starts = 0

rows == <<row, grant, given>>

At(p, pc) == proc[p].pc = pc
To(p, pc) == proc' = [proc EXCEPT ![p].pc = pc]

\* insert_grant: where a grant is in force nothing changes, its limits neither.
InsertGrant(cap) ==
  IF grant # None THEN UNCHANGED <<grant, given>>
  ELSE /\ Len(given) < MaxGrants
       /\ given' = Append(given, [cap |-> cap, used |-> 0])
       /\ grant' = Len(given) + 1

Answered(c, result) ==
  [NoInvocation EXCEPT !.pc = "ended", !.grant = invocation[c].grant,
                       !.counted = invocation[c].counted, !.result = result]
Answers(c, result) == invocation' = [invocation EXCEPT ![c] = Answered(c, result)]

-----------------------------------------------------------------------------
(* A process starts: build_services, then config sync. *)

StartProcess(p) ==
  /\ At(p, "down") /\ starts < MaxStarts
  /\ starts' = starts + 1
  /\ \E v \in Versions :
       proc' = [proc EXCEPT ![p] = [Down EXCEPT !.pc = "declare", !.version = v,
                                                !.saw = row[Workspace] # None]]
  /\ UNCHANGED <<rows, invocation>>

\* The declaration of a tool that is known is refreshed with its handler.
Declared(p) == proc[p].version

\* register_worktree_tools: the names in use were listed before.
DeclareWorkspaceTool(p) ==
  /\ At(p, "declare")
  /\ IF proc[p].saw
       THEN /\ row' = [row EXCEPT ![Workspace] = Declared(p)]
            /\ proc' = [proc EXCEPT ![p].pc = "look", ![p].bound = {Workspace}]
       ELSE IF row[Workspace] = None
       THEN /\ row' = [row EXCEPT ![Workspace] = proc[p].version]
            /\ proc' = [proc EXCEPT ![p].pc = "look", ![p].bound = {Workspace}]
       ELSE proc' = [proc EXCEPT ![p] = Down] /\ UNCHANGED row
  /\ UNCHANGED <<grant, given, invocation, starts>>

LookUpExtension(p) ==
  /\ At(p, "look")
  /\ proc' = [proc EXCEPT ![p].pc = "extend", ![p].saw = row[Extension] # None]
  /\ UNCHANGED <<rows, invocation, starts>>

\* A tool that is known has its handler bound again; a new one has it bound first.
Bound(p) == proc[p].bound \cup {Extension}

\* A name taken meanwhile ends the step, which is logged.
EnsureExtension(p) ==
  /\ At(p, "extend")
  /\ IF proc[p].saw \/ row[Extension] # None THEN UNCHANGED row
     ELSE row' = [row EXCEPT ![Extension] = proc[p].version]
  /\ proc' = [proc EXCEPT ![p].pc = "grant", ![p].bound = Bound(p)]
  /\ UNCHANGED <<grant, given, invocation, starts>>

\* The floors: what has no grant gets one without a limit.
EnsureGrant(p) ==
  /\ At(p, "grant")
  /\ InsertGrant(Unlimited)
  /\ To(p, "up")
  /\ UNCHANGED <<row, invocation, starts>>

Die(p) ==
  /\ ~At(p, "down")
  /\ proc' = [proc EXCEPT ![p] = Down]
  /\ invocation' = [c \in Calls |->
                      IF invocation[c].proc = p /\ invocation[c].pc # "ended"
                      THEN Answered(c, "died") ELSE invocation[c]]
  /\ UNCHANGED <<rows, starts>>

-----------------------------------------------------------------------------
(* People with tool.manage. *)

GrantTool(cap) ==
  /\ row[Workspace] # None /\ InsertGrant(cap)
  /\ UNCHANGED <<row, proc, invocation, starts>>

RevokeToolGrant ==
  /\ grant # None
  /\ grant' = None
  /\ UNCHANGED <<row, given, proc, invocation, starts>>

-----------------------------------------------------------------------------
(* invoke. *)

\* The tool is looked up by name; its input is validated, or not.
Invoke(c, p) ==
  /\ invocation[c].pc = "new" /\ At(p, "up")
  /\ invocation' = [invocation EXCEPT ![c] =
                      [NoInvocation EXCEPT !.pc = "grant", !.proc = p, !.declared = row[Workspace]]]
  /\ UNCHANGED <<rows, proc, starts>>

GetGrant(c) ==
  /\ invocation[c].pc = "grant"
  /\ IF grant = None THEN Answers(c, "denied")
     ELSE invocation' = [invocation EXCEPT ![c].pc = "reserve", ![c].grant = grant]
  /\ UNCHANGED <<rows, proc, starts>>

\* MUTANT of Reserves: the limit is what get_grant read.
ReservesUnread(c) == grant = invocation[c].grant

\* reserve_invocation: one statement on the grant that was read.
Reserves(c) ==
  LET g == invocation[c].grant IN
  grant = g /\ (given[g].cap = Unlimited \/ given[g].used < given[g].cap)

ReserveInvocation(c) ==
  /\ invocation[c].pc = "reserve"
  /\ IF Reserves(c)
       THEN /\ given' = [given EXCEPT ![grant].used = @ + 1]
            /\ invocation' = [invocation EXCEPT ![c].pc = "run", ![c].counted = grant]
       ELSE Answers(c, "denied") /\ UNCHANGED given
  /\ UNCHANGED <<row, grant, proc, starts>>

\* Inline or in a child process with a deadline; what the handler of one version
\* returns is validated against what was declared.
RunHandler(c) ==
  LET p == proc[invocation[c].proc] IN
  /\ invocation[c].pc = "run"
  /\ IF Workspace \notin p.bound THEN Answers(c, "no handler")
     ELSE \/ Answers(c, "failed")
          \/ Answers(c, IF invocation[c].declared # p.version THEN "output refused" ELSE "success")
  /\ UNCHANGED <<rows, proc, starts>>

ToolNext ==
  \/ \E p \in Processes :
       \/ StartProcess(p) \/ DeclareWorkspaceTool(p) \/ LookUpExtension(p) \/ EnsureExtension(p)
       \/ EnsureGrant(p) \/ Die(p)
  \/ (\E cap \in Caps : GrantTool(cap)) \/ RevokeToolGrant
  \/ \E c \in Calls :
       \/ \E p \in Processes : Invoke(c, p)
       \/ GetGrant(c) \/ ReserveInvocation(c) \/ RunHandler(c)

-----------------------------------------------------------------------------
\* No grant is used more often than it allows, however many calls read it at once,
\* and a call that read a grant which was revoked and given anew runs under neither.
WithinCap ==
  /\ \A g \in DOMAIN given :
       given[g].cap = Unlimited \/ Cardinality({c \in Calls : invocation[c].counted = g}) <= given[g].cap
  /\ \A c \in Calls : invocation[c].counted \in {None, invocation[c].grant}
=============================================================================
