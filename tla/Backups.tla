------------------------------ MODULE Backups ------------------------------
(***************************************************************************)
(* Backups and restores of the SQLite file: BackupService of               *)
(* src/zero/app/observability_service.py, the scheduled daemons of         *)
(* src/zero/manage/services/backup_daemon.py, one in the server and one    *)
(* that "zero backup-daemon" runs, and the commands of                     *)
(* src/zero/manage/cli.py.                                                 *)
(*                                                                         *)
(* A backup dumps table after table, outside any transaction, beside the   *)
(* server's commits; it is written under a hidden name and moved into      *)
(* place.  A restore sets the file aside, moves the verified copy into     *)
(* place and deletes what it set aside; it undoes the moves when one of    *)
(* them fails.  The operator restores while the server is stopped, which   *)
(* no code sees to; the other daemon runs on.                              *)
(*                                                                         *)
(* What a database holds is a pair: the last commit its first tables know  *)
(* and the last its other tables know.                                     *)
(***************************************************************************)
EXTENDS Integers, FiniteSets

CONSTANTS
  Daemons,      \* processes that run a BackupDaemon
  Command,      \* a process that runs "zero backup create" or "zero update apply"
  Embedded,     \* the daemon in the server's process
  Missing,      \* no file, or no archive
  Retention,    \* config.backups.retention
  MaxCommits,   \* BOUND: transactions of the server
  MaxArchives,  \* BOUND: archives written
  MaxHours,     \* BOUND: intervals of the schedule
  MaxMishaps    \* BOUND: processes killed and operations failed

Writers == Daemons \cup {Command}

ASSUME BackupLimits ==
  /\ Retention \in Nat \ {0}
  /\ {MaxCommits, MaxArchives, MaxHours, MaxMishaps} \subseteq Nat
  /\ Embedded \in Daemons /\ Command \notin Daemons
  /\ Missing \notin Nat \X Nat

VARIABLES
  live,      \* what the file at the database's path holds
  aside,     \* what the files .restore-old-* hold
  serving,   \* whether the server runs
  restore,   \* the restore under way, or its outcome
  disk,      \* the archives zero-backup-*: when written, and what of
  run,       \* per writer: what it does, its dump, and the archives it prunes
  lockFile,  \* .backup.lock: whose, and whether it is ten minutes old
  last,      \* last-backup.json
  written,   \* archives written so far; the order of their mtimes
  newest,    \* HISTORY: the newest archive that was in place
  hours, mishaps

backupVars == <<live, aside, serving, restore, disk, run, lockFile, last, written, newest, hours, mishaps>>
archiveVars == <<disk, run, lockFile, last, written, newest>>
fileVars == <<live, aside, serving, restore>>

-----------------------------------------------------------------------------
Empty == <<0, 0>>   \* a file that connect() created and migrations filled
NoRun == [pc |-> "idle", dump |-> Empty, at |-> 0, doomed |-> {}]
NotRestoring == [pc |-> "none", old |-> Missing, copy |-> Missing]
NoLock == [by |-> "nobody", old |-> FALSE]
Moving == {"staged", "aside", "installed", "undo"}

BackupsInit ==
  /\ live = Empty /\ aside = {} /\ serving = TRUE /\ restore = NotRestoring
  /\ disk = {} /\ run = [w \in Writers |-> NoRun] /\ lockFile = NoLock
  /\ last = "none" /\ written = 0 /\ newest = 0 /\ hours = 0 /\ mishaps = 0

Alive(w) == w = Embedded => serving
Runs(w, pc) == run' = [run EXCEPT ![w].pc = pc]

\* connect() creates the file that is not there.
Opened == IF live = Missing THEN Empty ELSE live

-----------------------------------------------------------------------------
(* The server. *)

CommitRows ==
  /\ serving /\ live[2] < MaxCommits
  /\ live' = <<live[2] + 1, live[2] + 1>>
  /\ UNCHANGED <<aside, serving, restore, archiveVars, hours, mishaps>>

StopServer ==
  /\ serving /\ run[Embedded].pc \in {"idle", "ended"}
  /\ serving' = FALSE /\ run' = [run EXCEPT ![Embedded] = NoRun]
  /\ UNCHANGED <<live, aside, restore, disk, lockFile, last, written, newest, hours, mishaps>>

StartServer ==
  /\ ~serving /\ restore.pc \notin Moving
  /\ serving' = TRUE /\ live' = Opened /\ restore' = NotRestoring
  /\ UNCHANGED <<aside, archiveVars, hours, mishaps>>

-----------------------------------------------------------------------------
(* A run of a daemon: run_once. *)

\* An error is recorded without a time: the next run is due at once.  Without
\* a record the newest archive tells, which is as old as the clock of runs.
Due == last \in {"error", "old"} \/ (last = "none" /\ (disk = {} \/ hours > 0))

BeginRun(d) ==
  /\ Alive(d) /\ run[d].pc = "idle" /\ Due /\ written < MaxArchives
  /\ Runs(d, "locking")
  /\ UNCHANGED <<fileVars, disk, lockFile, last, written, newest, hours, mishaps>>

\* A lock of ten minutes may be stolen; whoever finds a younger one leaves, and
\* leaving deletes the file.
TakeLock(d) ==
  /\ run[d].pc = "locking"
  /\ \/ lockFile = NoLock /\ lockFile' = [by |-> d, old |-> FALSE] /\ Runs(d, "dump")
     \/ lockFile # NoLock /\ lockFile.old /\ Runs(d, "stealing") /\ UNCHANGED lockFile
     \/ lockFile # NoLock /\ ~lockFile.old /\ Runs(d, "idle") /\ lockFile' = NoLock
  /\ UNCHANGED <<fileVars, disk, last, written, newest, hours, mishaps>>

Steal(d) ==
  /\ run[d].pc = "stealing"
  /\ lockFile' = NoLock /\ Runs(d, "locking")
  /\ UNCHANGED <<fileVars, disk, last, written, newest, hours, mishaps>>

BeginCommand ==
  /\ run[Command].pc = "idle" /\ written < MaxArchives
  /\ Runs(Command, "dump")
  /\ UNCHANGED <<fileVars, disk, lockFile, last, written, newest, hours, mishaps>>

-----------------------------------------------------------------------------
(* backup_to_file. *)

DumpFirst(w) ==
  /\ run[w].pc = "dump"
  /\ live' = Opened
  /\ run' = [run EXCEPT ![w].pc = "dumping", ![w].dump = <<Opened[1], Opened[1]>>]
  /\ UNCHANGED <<aside, serving, restore, disk, lockFile, last, written, newest, hours, mishaps>>

Dumped(w) == [run[w] EXCEPT !.pc = "encrypted", !.dump[2] = live[2]]

DumpRest(w) ==
  /\ run[w].pc = "dumping"
  /\ run' = [run EXCEPT ![w] = Dumped(w)]
  /\ UNCHANGED <<fileVars, disk, lockFile, last, written, newest, hours, mishaps>>

WriteHidden(w) ==
  /\ run[w].pc = "encrypted" /\ written < MaxArchives
  /\ written' = written + 1
  /\ run' = [run EXCEPT ![w].pc = "hidden", ![w].at = written + 1]
  /\ UNCHANGED <<fileVars, disk, lockFile, last, newest, hours, mishaps>>

\* Names carry the time, so there is no archive to replace.
Publish(w) ==
  /\ run[w].pc = "hidden"
  /\ disk' = disk \cup {[at |-> run[w].at, holds |-> run[w].dump]}
  /\ newest' = IF run[w].at > newest THEN run[w].at ELSE newest
  /\ IF w = Command THEN run' = [run EXCEPT ![w] = NoRun] ELSE Runs(w, "prune")
  /\ UNCHANGED <<fileVars, lockFile, last, written, hours, mishaps>>

-----------------------------------------------------------------------------
(* _prune, last-backup.json and the lock. *)

\* MUTANT of Doomed: one archive too many.
DoomedToo == {a \in disk : Cardinality({b \in disk : b.at > a.at}) >= Retention - 1}

Doomed == {a \in disk : Cardinality({b \in disk : b.at > a.at}) >= Retention}

ListArchives(d) ==
  /\ run[d].pc = "prune"
  /\ run' = [run EXCEPT ![d].pc = "pruning", ![d].doomed = Doomed]
  /\ UNCHANGED <<fileVars, disk, lockFile, last, written, newest, hours, mishaps>>

\* stat of an archive that the other daemon deleted since the listing raises: the
\* daemon's loop ends.
ListingRaises(d) ==
  /\ run[d].pc = "prune" /\ \E e \in Daemons \ {d} : run[e].pc = "pruning" /\ run[e].doomed # {}
  /\ run' = [run EXCEPT ![d] = [NoRun EXCEPT !.pc = "ended"]] /\ lockFile' = NoLock
  /\ UNCHANGED <<fileVars, disk, last, written, newest, hours, mishaps>>

PruneOne(d) ==
  /\ run[d].pc = "pruning"
  /\ \E a \in run[d].doomed :
       disk' = disk \ {a} /\ run' = [run EXCEPT ![d].doomed = @ \ {a}]
  /\ UNCHANGED <<fileVars, lockFile, last, written, newest, hours, mishaps>>

RecordRun(d) ==
  /\ run[d].pc = "pruning" /\ run[d].doomed = {}
  /\ last' = "recent" /\ Runs(d, "leaving")
  /\ UNCHANGED <<fileVars, disk, lockFile, written, newest, hours, mishaps>>

\* Whoever's lock it is by now.
Unlock(d) ==
  /\ run[d].pc = "leaving"
  /\ lockFile' = NoLock /\ run' = [run EXCEPT ![d] = NoRun]
  /\ UNCHANGED <<fileVars, disk, last, written, newest, hours, mishaps>>

\* The backup fails; a process is killed, the server with the daemon in it.
RunFails(w) ==
  /\ run[w].pc \in {"dump", "dumping", "encrypted", "hidden"} /\ mishaps < MaxMishaps
  /\ mishaps' = mishaps + 1
  /\ IF w = Command THEN run' = [run EXCEPT ![w] = NoRun] /\ UNCHANGED last
     ELSE last' = "error" /\ Runs(w, "leaving")
  /\ UNCHANGED <<fileVars, disk, lockFile, written, newest, hours>>

IsKilled(w) ==
  /\ run[w].pc # "idle" /\ mishaps < MaxMishaps
  /\ mishaps' = mishaps + 1
  /\ run' = [run EXCEPT ![w] = NoRun]
  /\ serving' = (serving /\ w # Embedded)
  /\ UNCHANGED <<live, aside, restore, disk, lockFile, last, written, newest, hours>>

-----------------------------------------------------------------------------
(* restore_from_file: the archive is decrypted, replayed into a copy and    *)
(* checked before anything is moved.                                        *)

Restores(pc) == restore' = [restore EXCEPT !.pc = pc]

\* Whoever dumps a file that is moved or replaced goes on reading it, and it does
\* not change any more.
Replaces(content) ==
  /\ live' = content
  /\ run' = [w \in Writers |-> IF run[w].pc = "dumping" THEN Dumped(w) ELSE run[w]]
  /\ UNCHANGED <<serving, disk, lockFile, last, written, newest, hours>>

\* Another key, another schema, a torn dump whose rows refer to rows it lacks:
\* nothing was touched.
BeginRestore ==
  /\ ~serving /\ restore.pc \notin Moving
  /\ live' = Opened
  /\ \E a \in disk :
       restore' \in {[pc |-> "staged", old |-> Opened, copy |-> a.holds], NotRestoring}
  /\ UNCHANGED <<aside, serving, archiveVars, hours, mishaps>>

SetAside ==
  /\ restore.pc = "staged"
  /\ Restores("aside") /\ aside' = aside \cup {live} /\ Replaces(Missing)
  /\ UNCHANGED mishaps

Install ==
  /\ restore.pc = "aside"
  /\ Restores("installed") /\ Replaces(restore.copy)
  /\ UNCHANGED <<aside, mishaps>>

DropOld ==
  /\ restore.pc = "installed"
  /\ Restores("ended") /\ aside' = aside \ {restore.old}
  /\ UNCHANGED <<live, serving, archiveVars, hours, mishaps>>

\* A move, or the mode of the file, fails: an installed copy is deleted.
MoveFails ==
  /\ restore.pc \in {"staged", "aside", "installed"} /\ mishaps < MaxMishaps
  /\ mishaps' = mishaps + 1
  /\ Restores(IF restore.pc = "staged" THEN "ended" ELSE "undo")
  /\ IF restore.pc = "installed" THEN Replaces(Missing) ELSE UNCHANGED <<live, serving, archiveVars, hours>>
  /\ UNCHANGED aside

\* MUTANT of PutBack: what was set aside stays there.
PutBackNothing ==
  /\ restore.pc = "undo"
  /\ Restores("ended")
  /\ UNCHANGED <<live, aside, serving, archiveVars, hours, mishaps>>

PutBack ==
  /\ restore.pc = "undo"
  /\ Restores("ended") /\ Replaces(restore.old) /\ aside' = aside \ {restore.old}
  /\ UNCHANGED mishaps

RestoreIsKilled ==
  /\ restore.pc \in Moving /\ mishaps < MaxMishaps
  /\ mishaps' = mishaps + 1 /\ Restores("killed")
  /\ UNCHANGED <<live, aside, serving, archiveVars, hours>>

-----------------------------------------------------------------------------
TenMinutesPass ==
  /\ lockFile # NoLock /\ ~lockFile.old
  /\ lockFile' = [lockFile EXCEPT !.old = TRUE]
  /\ UNCHANGED <<fileVars, disk, run, last, written, newest, hours, mishaps>>

IntervalPasses ==
  /\ hours < MaxHours
  /\ hours' = hours + 1
  /\ last' = IF last = "recent" THEN "old" ELSE last
  /\ lockFile' = [lockFile EXCEPT !.old = lockFile # NoLock]
  /\ UNCHANGED <<fileVars, disk, run, written, newest, mishaps>>

BackupsNext ==
  \/ CommitRows \/ StopServer \/ StartServer
  \/ BeginCommand
  \/ \E d \in Daemons : BeginRun(d) \/ TakeLock(d) \/ Steal(d) \/ ListArchives(d) \/ ListingRaises(d) \/ PruneOne(d) \/ RecordRun(d) \/ Unlock(d)
  \/ \E w \in Writers : DumpFirst(w) \/ DumpRest(w) \/ WriteHidden(w) \/ Publish(w) \/ RunFails(w) \/ IsKilled(w)
  \/ BeginRestore \/ SetAside \/ Install \/ DropOld \/ MoveFails \/ PutBack \/ RestoreIsKilled
  \/ TenMinutesPass \/ IntervalPasses

-----------------------------------------------------------------------------
\* PROPERTY.  The database a restore found is whole, at its path or beside it, until
\* the copy is in place; a restore that returns or raises leaves the one or the other
\* at the path ("atomically restore", observability_service.py:488); and while daemons
\* overlap, prune, fail and are killed, the newest archive ever put in place is there.
NothingThrownAway ==
  /\ restore.pc \in Moving \cup {"killed"} =>
       restore.old \in {live} \cup aside \/ live = restore.copy
  /\ restore.pc = "ended" => live \in {restore.old, restore.copy}
  /\ newest > 0 => \E a \in disk : a.at = newest
=============================================================================
