------------------------------ MODULE Database ------------------------------
(***************************************************************************)
(* What a transaction is: Database of src/zero/persistence/connection.py   *)
(* over one SQLite file, as the repositories use it.                       *)
(*                                                                         *)
(* Every thread has a connection of its own.  A repository called on its   *)
(* own executes and commits; inside database.transaction() its commits are *)
(* ignored and the outermost block commits, or rolls back what is left of  *)
(* it; a block within a block is a savepoint.  SQLite lets one connection  *)
(* write at a time, and a lock of the process lets one thread of it be in  *)
(* transaction() at a time.                                                *)
(***************************************************************************)
EXTENDS Integers, Sequences, FiniteSets

CONSTANTS
  Threads,
  ProcessOf,  \* the process of each thread
  MaxCalls,   \* BOUND: calls, of all threads
  MaxSteps,   \* BOUND: statements and inner blocks per call
  MaxCrashes  \* BOUND: processes that die

ASSUME DatabaseLimits ==
  /\ MaxCalls \in Nat /\ MaxSteps \in Nat /\ MaxCrashes \in Nat
  /\ DOMAIN ProcessOf = Threads

VARIABLES
  db,         \* the writes that are in the file
  conn,       \* per thread: whether a transaction is open, its writes, its savepoints
  call,       \* per thread: what it is doing, the number of its call and the steps so far
  calls,      \* calls so far
  mutex,      \* the threads that hold the lock of their process
  crashes,    \* processes that died so far
  wrote,      \* HISTORY: the writes that were executed
  committed,  \* HISTORY: the transactions that ended well
  undone      \* HISTORY: the writes of blocks that raised

historyVars == <<wrote, committed, undone>>
countVars == <<calls, crashes>>
dbVars == <<db, conn, call, mutex, countVars, historyVars>>

-----------------------------------------------------------------------------
NoTransaction == [open |-> FALSE, writes |-> {}, marks |-> <<>>]

DatabaseInit ==
  /\ db = {} /\ mutex = {} /\ calls = 0 /\ crashes = 0
  /\ wrote = {} /\ committed = {} /\ undone = {}
  /\ conn = [t \in Threads |-> NoTransaction]
  /\ call = [t \in Threads |-> [pc |-> "idle", no |-> 0, steps |-> 0]]

Goes(t, pc) == call' = [call EXCEPT ![t].pc = pc]
Starts(t, pc) ==
  /\ call[t].pc = "idle" /\ calls < MaxCalls
  /\ calls' = calls + 1
  /\ call' = [call EXCEPT ![t] = [pc |-> pc, no |-> calls + 1, steps |-> 0]]
More(t) == call[t].steps < MaxSteps
Counted(t) == call' = [call EXCEPT ![t].steps = @ + 1]
Closed(t) == conn' = [conn EXCEPT ![t] = NoTransaction]

\* SQLite's write lock: free, or of this connection already.
Grants(t) == \A u \in Threads \ {t} : ~conn[u].open

Write(t, k, tx) == [no |-> call[t].no, k |-> k, tx |-> tx]
InTransaction(t) == call[t].pc = "body"

\* The writes the call made in its steps after the k-th.
Since(t, k) == {w \in wrote : w.no = call[t].no /\ w.k > k}

-----------------------------------------------------------------------------
CallRepository(t) ==
  /\ Starts(t, "bare")
  /\ UNCHANGED <<db, conn, mutex, crashes, historyVars>>

\* A statement opens a transaction if none is open, also one that finds no row
\* to change.
Execute(t) ==
  /\ call[t].pc \in {"bare", "body"} /\ More(t) /\ Grants(t)
  /\ \E w \in {{Write(t, call[t].steps + 1, InTransaction(t))}, {}} :
       /\ conn' = [conn EXCEPT ![t].open = TRUE, ![t].writes = @ \cup w]
       /\ wrote' = wrote \cup w
  /\ Counted(t)
  /\ UNCHANGED <<db, mutex, countVars, committed, undone>>

\* MUTANT of Outermost: a repository's commit reaches the connection.
OutermostAny(t) == TRUE

\* _TransactionConnection.
Outermost(t) == ~InTransaction(t)

\* conn.commit() in a repository.
RepositoryCommit(t) ==
  /\ call[t].pc \in {"bare", "body"}
  /\ IF Outermost(t) THEN db' = db \cup conn[t].writes /\ Closed(t) ELSE UNCHANGED <<db, conn>>
  /\ IF call[t].pc = "bare" THEN Goes(t, "idle") ELSE UNCHANGED call
  /\ UNCHANGED <<mutex, countVars, historyVars>>

\* An exception out of a repository called on its own: the one for a violated
\* constraint rolls back first, the others leave the connection as it is.
RepositoryRaises(t) ==
  /\ call[t].pc = "bare"
  /\ Goes(t, "idle")
  /\ Closed(t) \/ UNCHANGED conn
  /\ UNCHANGED <<db, mutex, countVars, historyVars>>

-----------------------------------------------------------------------------
(* transaction(). *)

Enter(t) ==
  /\ Starts(t, "mutex")
  /\ UNCHANGED <<db, conn, mutex, crashes, historyVars>>

TakeMutex(t) ==
  /\ call[t].pc = "mutex"
  /\ \A u \in mutex : ProcessOf[u] # ProcessOf[t]
  /\ mutex' = mutex \cup {t}
  /\ Goes(t, "begin")
  /\ UNCHANGED <<db, conn, countVars, historyVars>>

\* BEGIN IMMEDIATE.
Locked(t) == TRUE

\* A transaction that is open already on the thread's connection is taken over.
Begin(t) ==
  /\ call[t].pc = "begin" /\ Grants(t)
  /\ conn' = [conn EXCEPT ![t].open = Locked(t)]
  /\ Goes(t, "body")
  /\ UNCHANGED <<db, mutex, countVars, historyVars>>

\* "database is locked", after five seconds.
TimesOut(t) == call[t].pc \in {"bare", "begin"} /\ ~Grants(t)

Busy(t) ==
  /\ TimesOut(t)
  /\ IF call[t].pc = "begin" THEN mutex' = mutex \ {t} /\ Closed(t) ELSE UNCHANGED <<mutex, conn>>
  /\ Goes(t, "idle")
  /\ UNCHANGED <<db, countVars, historyVars>>

InnerBlock(t) ==
  /\ InTransaction(t) /\ More(t)
  /\ Counted(t)
  /\ conn' = [conn EXCEPT ![t].marks = Append(@, [writes |-> conn[t].writes, steps |-> call[t].steps + 1])]
  /\ UNCHANGED <<db, mutex, countVars, historyVars>>

\* ROLLBACK TO SAVEPOINT.
RolledBack(c) == c.marks[Len(c.marks)].writes

Inner(t) == InTransaction(t) /\ conn[t].marks # <<>>
Released(c) == [c EXCEPT !.marks = SubSeq(@, 1, Len(@) - 1)]

InnerBlockEnds(t) ==
  /\ Inner(t)
  /\ conn' = [conn EXCEPT ![t] = Released(@)]
  /\ UNCHANGED <<db, call, mutex, countVars, historyVars>>

\* Who called the inner block lets the exception pass or goes on.
InnerBlockRaises(t) ==
  /\ Inner(t)
  /\ undone' = undone \cup Since(t, conn[t].marks[Len(conn[t].marks)].steps)
  /\ conn' = [conn EXCEPT ![t] = [Released(@) EXCEPT !.writes = RolledBack(conn[t])]]
  /\ UNCHANGED <<db, call, mutex, countVars, wrote, committed>>

Outer(t) == InTransaction(t) /\ conn[t].marks = <<>>

\* The connection is closed, well or not.
Exit(t) ==
  /\ Outer(t)
  /\ db' = db \cup conn[t].writes
  /\ committed' = committed \cup {call[t].no}
  /\ Closed(t) /\ Goes(t, "idle") /\ mutex' = mutex \ {t}
  /\ UNCHANGED <<countVars, wrote, undone>>

Raise(t) ==
  /\ Outer(t)
  /\ undone' = undone \cup Since(t, 0)
  /\ Closed(t) /\ Goes(t, "idle") /\ mutex' = mutex \ {t}
  /\ UNCHANGED <<db, countVars, wrote, committed>>

-----------------------------------------------------------------------------
Die(p) ==
  LET of == {t \in Threads : ProcessOf[t] = p} IN
  /\ crashes < MaxCrashes
  /\ crashes' = crashes + 1
  /\ conn' = [t \in Threads |-> IF t \in of THEN NoTransaction ELSE conn[t]]
  /\ call' = [t \in Threads |-> IF t \in of THEN [call[t] EXCEPT !.pc = "idle"] ELSE call[t]]
  /\ mutex' = mutex \ of
  /\ undone' = undone \cup UNION {Since(t, 0) : t \in {u \in of : InTransaction(u)}}
  /\ UNCHANGED <<db, calls, wrote, committed>>

CallStep(t) ==
  \/ Execute(t) \/ RepositoryCommit(t) \/ RepositoryRaises(t)
  \/ TakeMutex(t) \/ Begin(t) \/ Busy(t)
  \/ InnerBlock(t) \/ InnerBlockEnds(t) \/ InnerBlockRaises(t) \/ Exit(t) \/ Raise(t)

DatabaseNext ==
  \/ \E t \in Threads : CallRepository(t) \/ Enter(t) \/ CallStep(t)
  \/ \E p \in {ProcessOf[t] : t \in Threads} : Die(p)

-----------------------------------------------------------------------------
\* Of a transaction all that its blocks did not take back is in the file once it
\* has ended well, and until then, or if it raises or dies, nothing is: whatever
\* its repositories commit, its inner blocks undo and the connection still holds
\* from before.
TransactionAtomic ==
  \A w \in {v \in wrote : v.tx} : w \in db <=> w.no \in committed /\ w \notin undone
=============================================================================
