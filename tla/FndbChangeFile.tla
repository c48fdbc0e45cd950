--------------------------- MODULE FndbChangeFile ---------------------------
(***************************************************************************)
(* The file name database (FNDB) of one TEXMF root, shared by the sessions *)
(* of several processes (Core/Fndb).                                       *)
(*                                                                         *)
(* The database is a base file, which Fndb::Create rebuilds from the disk, *)
(* and a change file, to which Fndb::Add and Fndb::Remove append one line  *)
(* per file.  A session reads the base file once, keeps the result in      *)
(* memory (view), remembers how many bytes of the change file it has       *)
(* applied (offset), and reads on when its file system watcher has seen    *)
(* the change file modified.  Appending takes an exclusive flock, reading  *)
(* a shared one; Fndb::Create takes none.                                  *)
(***************************************************************************)
EXTENDS Integers, Sequences

CONSTANTS
  Session,     \* one MiKTeX process each
  Path,        \* files below the root
  None,        \* no file
  MaxRecords,  \* bound: lines in the change file
  MaxRebuilds  \* bound: calls of Fndb::Create

ASSUME ConstantsAssumption == None \notin Path /\ MaxRecords \in Nat /\ MaxRebuilds \in Nat

VARIABLES
  disk,      \* the files that exist
  base,      \* the base file: does it exist, and what it lists
  tmp,       \* the temporary file Fndb::Create moves over the base file
  changes,   \* the change file: does it exist, and its lines
  pc, op,    \* per session: next step of the operation that is executed
  loaded,    \* per session: the FNDB is in memory
  view,      \* per session: fileNames (while rebuilding: what the scan found)
  offset,    \* per session: changeFileSize
  modified,  \* per session: changeFileModified
  event,     \* per session: a Modified notification is on its way
  orphan,    \* sessions whose open change file has been deleted since
  rebuilds,  \* number of calls of Refresh so far
  dirty,     \* history: files whose update of the index was abandoned
  moved,     \* history: files that were renamed, record still to be removed
  damaged,   \* history: the first "FNDB damaged" error
  lost,      \* history: a notification has been lost
  collided   \* history: sessions have got into each other's way

diskVars    == <<disk, base, tmp, changes>>
sessionVars == <<pc, op, loaded, view, offset, modified, event, orphan>>
historyVars == <<rebuilds, dirty, moved, damaged, lost, collided>>
vars == <<diskVars, sessionVars, historyVars>>
-----------------------------------------------------------------------------
(* Lines of the change file, and what they do to a view.                   *)

Added(p)   == [kind |-> "+", path |-> p]
Removed(p) == [kind |-> "-", path |-> p]
Line == {Added(p) : p \in Path} \cup {Removed(p) : p \in Path}

\* "+name:dir:info\n" is longer than "-name:dir\n".
Length(r) == IF r.kind = "+" THEN 2 ELSE 1

\* starts[k]: the offset at which line k + 1 starts.
Starts(lines) ==
  LET start[k \in 0..Len(lines)] == IF k = 0 THEN 0 ELSE start[k - 1] + Length(lines[k])
  IN  start

Size(lines) == Starts(lines)[Len(lines)]

ApplyLine(v, r) == IF r.kind = "+" THEN v \cup {r.path} ELSE v \ {r.path}

\* The read loop of ApplyChangeFile over the lines after line k: v, and what
\* it has become after line j.
Views(v, k, lines) ==
  LET after[j \in k..Len(lines)] == IF j = k THEN v ELSE ApplyLine(after[j - 1], lines[j])
  IN  after

Replay(v, lines) == Views(v, 0, lines)[Len(lines)]

\* EraseRecord finds nothing to erase for line j.
BadLine(views, lines, j) == lines[j].kind = "-" /\ lines[j].path \notin views[j - 1]

\* The loop stops at a line it cannot digest, having counted it.
Digest(v, k, lines) ==
  LET views == Views(v, k, lines)
      Bad(j) == BadLine(views, lines, j)
      first == CHOOSE j \in k + 1..Len(lines) : Bad(j) /\ \A i \in k + 1..j - 1 : ~ Bad(i)
  IN  IF \E j \in k + 1..Len(lines) : Bad(j)
      THEN [view |-> views[first - 1], offset |-> Starts(lines)[first], damaged |-> "notFound"]
      ELSE [view |-> views[Len(lines)], offset |-> Size(lines), damaged |-> "no"]

\* Mutant: the reader does not seek to the offset.
ReadOnWithoutSeek(v, n, lines) ==
  IF n >= Size(lines) THEN [view |-> v, offset |-> n, damaged |-> "no"]
                      ELSE Digest(v, 0, lines)

\* The line that ends behind offset n is the first the reader gets to see
\* when n is in the middle of it.
EndOfLineAt(n, lines) ==
  CHOOSE k \in 1..Len(lines) : Starts(lines)[k - 1] < n /\ n < Starts(lines)[k]

\* What ApplyChangeFile makes of view v when it has applied n bytes.  Behind
\* the end of the file there is nothing to read; a debug build does not get
\* there, its assertion has failed (ChangeFileGrows).
ReadOn(v, n, lines) ==
  IF n >= Size(lines) THEN [view |-> v, offset |-> n, damaged |-> "no"]
  ELSE IF \E k \in 0..Len(lines) : Starts(lines)[k] = n
  THEN Digest(v, CHOOSE k \in 0..Len(lines) : Starts(lines)[k] = n, lines)
  ELSE [view |-> v, offset |-> Starts(lines)[EndOfLineAt(n, lines)], damaged |-> "tampered"]

NoFile == [exists |-> FALSE, files |-> {}]
NoChanges == [exists |-> FALSE, lines |-> <<>>]

\* An operation, on a file and perhaps on the one that it is moved to.
Op(kind, p, q) == [kind |-> kind, path |-> p, dest |-> q, phase |-> "check", fresh |-> FALSE]
NoOp == Op("none", None, None)

\* What the two files say together.
Index == Replay(base.files, changes.lines)
-----------------------------------------------------------------------------
Goto(s, step) == pc' = [pc EXCEPT ![s] = step]
Set(f, s, x) == [f EXCEPT ![s] = x]

ApplySteps   == {"stat", "read", "clear", "raise"}
UpdateSteps  == {"open", "lock", "append", "recordGone"}
RebuildSteps == {"scan", "writeTmp", "deleteBase", "move", "deleteChanges"}

Rebuilding(s) == pc[s] \in RebuildSteps
Others(s) == Session \ {s}

Adding(s) == op[s].kind = "add"
Removing(s) == op[s].kind \in {"remove", "move"}
Moving(s) == op[s].kind = "move"

\* The files the operation of s is about.
Concerned(s) ==
  (IF Adding(s) \/ Removing(s) THEN {op[s].path} ELSE {})
    \cup (IF Moving(s) THEN {op[s].dest} ELSE {})

InFlight(p) == {s \in Session : p \in Concerned(s)}

Collide(when) == collided' = (collided \/ when)

Raise(error) == damaged' = IF damaged = "no" THEN error ELSE damaged

\* The session has not applied the whole change file.
Stale(s) == offset[s] # Size(changes.lines)

Init ==
  /\ disk \in SUBSET Path
  /\ base = [exists |-> TRUE, files |-> disk]
  /\ tmp = NoFile /\ changes = NoChanges
  /\ pc = [s \in Session |-> "idle"] /\ op = [s \in Session |-> NoOp]
  /\ loaded = [s \in Session |-> FALSE] /\ view = [s \in Session |-> {}]
  /\ offset = [s \in Session |-> 0]
  /\ modified = [s \in Session |-> FALSE] /\ event = [s \in Session |-> FALSE]
  /\ orphan = {} /\ rebuilds = 0 /\ dirty = {} /\ moved = {}
  /\ damaged = "no" /\ lost = FALSE /\ collided = FALSE

\* The operation of s is over.
Done(s) == Goto(s, "idle") /\ op' = Set(op, s, NoOp)

\* The operation of s is given up: the file it was about is left as it is.
Abandon(s) ==
  /\ Done(s)
  /\ dirty' = dirty \cup Concerned(s)
-----------------------------------------------------------------------------
(* Operations that a session starts.  The file itself is created before    *)
(* its name is looked up and added (File::Copy, File::CreateLink); it is   *)
(* deleted after its name has been removed (File::Delete with UpdateFndb); *)
(* it is renamed before its name is removed and the new one added          *)
(* (File::Move).  Callers do not create, rename or delete one and the same *)
(* file at the same time.                                                  *)

Begin(s, o) ==
  /\ pc[s] = "idle"
  /\ op' = Set(op, s, o)
  /\ Goto(s, IF loaded[s] THEN "stat" ELSE "load")
  /\ Collide(\E t \in Session : Rebuilding(t))

Query(s) ==
  /\ Begin(s, Op("query", None, None))
  /\ UNCHANGED <<diskVars, loaded, view, offset, modified, event, orphan,
                 rebuilds, dirty, moved, damaged, lost>>

AddFile(s, p) ==
  /\ \A t \in InFlight(p) : op[t].kind = "add"
  /\ Len(changes.lines) < MaxRecords
  /\ Begin(s, Op("add", p, None))
  /\ disk' = disk \cup {p} /\ moved' = moved \ {p}
  /\ UNCHANGED <<base, tmp, changes, loaded, view, offset, modified, event, orphan,
                 rebuilds, dirty, damaged, lost>>

\* Mutant: the file is deleted before its record.
RemoveFileFirst(s, p) ==
  /\ p \in disk /\ InFlight(p) = {}
  /\ Len(changes.lines) < MaxRecords
  /\ Begin(s, Op("remove", p, None))
  /\ disk' = disk \ {p}
  /\ UNCHANGED <<base, tmp, changes, loaded, view, offset, modified, event, orphan,
                 rebuilds, dirty, moved, damaged, lost>>

RemoveFile(s, p) ==
  /\ p \in disk /\ InFlight(p) = {}
  /\ Len(changes.lines) < MaxRecords
  /\ Begin(s, Op("remove", p, None))
  /\ UNCHANGED <<diskVars, loaded, view, offset, modified, event, orphan,
                 rebuilds, dirty, moved, damaged, lost>>

\* The target of the renaming may exist.
MoveFile(s, p, q) ==
  /\ p \in disk /\ p # q /\ InFlight(p) = {} /\ InFlight(q) = {}
  /\ Len(changes.lines) + 1 < MaxRecords
  /\ Begin(s, Op("move", p, q))
  /\ disk' = (disk \ {p}) \cup {q} /\ moved' = (moved \cup {p}) \ {q}
  /\ UNCHANGED <<base, tmp, changes, loaded, view, offset, modified, event, orphan,
                 rebuilds, dirty, damaged, lost>>

\* Fndb::Refresh
Refresh(s) ==
  /\ pc[s] = "idle" /\ rebuilds < MaxRebuilds
  /\ rebuilds' = rebuilds + 1
  /\ op' = Set(op, s, Op("rebuild", None, None))
  /\ Goto(s, "scan")
  /\ UNCHANGED <<diskVars, loaded, view, offset, modified, event, orphan,
                 dirty, moved, damaged, lost, collided>>

\* The session has no FNDB in memory (any more); OnChange is not called.
Unload(s) ==
  /\ loaded' = Set(loaded, s, FALSE) /\ view' = Set(view, s, {})
  /\ offset' = Set(offset, s, 0) /\ event' = Set(event, s, FALSE)

\* SessionImpl::GetFileNameDatabase, FileNameDatabase::Initialize.  Without
\* a base file nothing is loaded: Add creates one, the others do without.
Load(s) ==
  /\ pc[s] = "load"
  /\ IF base.exists
     THEN /\ loaded' = Set(loaded, s, TRUE)
          /\ view' = Set(view, s, base.files)
          /\ offset' = Set(offset, s, 0)
          /\ modified' = Set(modified, s, TRUE)
          /\ Goto(s, "stat")
          /\ op' = [op EXCEPT ![s].fresh = TRUE]
     ELSE /\ \/ op[s].kind = "query" /\ Done(s)
             \/ Removing(s) /\ Goto(s, "recordGone") /\ UNCHANGED op
             \/ Adding(s) /\ Goto(s, "scan") /\ UNCHANGED op
          /\ UNCHANGED <<loaded, view, offset, modified>>
  /\ UNCHANGED <<diskVars, event, orphan, historyVars>>
-----------------------------------------------------------------------------
(* ApplyChangeFile                                                         *)

\* FileExists is about to tell whether the update is needed.
Checks(s) == (Adding(s) \/ Removing(s)) /\ op[s].phase = "check" /\ ~ op[s].fresh

\* FileExists has been answered, the record is to be written.  Add looks for
\* the base file again, and creates it if it is gone.
Update(s) ==
  IF Adding(s) /\ ~ base.exists
  THEN Goto(s, "scan") /\ UNCHANGED op
  ELSE Goto(s, "stat") /\ op' = [op EXCEPT ![s].phase = "update"]

\* After ApplyChangeFile: Initialize returns to the caller, who calls it once
\* more; a query is answered; FileExists tells whether an update is needed at
\* all; an update goes on to open the change file.
Proceed(s) ==
  \/ op[s].fresh /\ Goto(s, "stat") /\ op' = [op EXCEPT ![s].fresh = FALSE]
  \/ ~ op[s].fresh /\ op[s].kind = "query" /\ Done(s)
  \/ ~ op[s].fresh /\ op[s].phase = "update" /\ Goto(s, "open") /\ UNCHANGED op
  \/ Checks(s) /\ Adding(s) /\ op[s].path \in view[s] /\ Done(s)
  \/ Checks(s) /\ Removing(s) /\ op[s].path \notin view[s]
       /\ Goto(s, "recordGone") /\ UNCHANGED op
  \/ Checks(s) /\ (Adding(s) <=> op[s].path \notin view[s]) /\ Update(s)

\* The flag is tested, and the size of the change file if the flag is set.
StatChangeFile(s) ==
  /\ pc[s] = "stat"
  /\ IF ~ modified[s]
     THEN Proceed(s) /\ Collide(Stale(s) /\ Checks(s))
     ELSE /\ Goto(s, IF changes.exists /\ Stale(s) THEN "read" ELSE "clear")
          /\ UNCHANGED <<op, collided>>
  /\ UNCHANGED <<diskVars, loaded, view, offset, modified, event, orphan,
                 rebuilds, dirty, moved, damaged, lost>>

WriteLocked == {t \in Session : pc[t] = "append" /\ t \notin orphan}

\* Open, shared lock, read to the end, unlock.
ReadChangeFile(s) ==
  LET r == ReadOn(view[s], offset[s], changes.lines)
  IN /\ pc[s] = "read" /\ changes.exists /\ WriteLocked = {}
     /\ view' = Set(view, s, r.view)
     /\ offset' = Set(offset, s, r.offset)
     /\ Raise(r.damaged)
     /\ Goto(s, IF r.damaged = "no" THEN "clear" ELSE "raise")
     /\ UNCHANGED <<diskVars, op, loaded, modified, event, orphan,
                    rebuilds, dirty, moved, lost, collided>>

\* The file has been deleted since, or the shared lock is not to be had.
ReadFails(s) ==
  /\ pc[s] = "read" /\ (~ changes.exists \/ WriteLocked # {})
  /\ Goto(s, "raise")
  /\ UNCHANGED <<diskVars, op, loaded, view, offset, modified, event, orphan,
                 historyVars>>

\* MIKTEX_AUTO(changeFileModified = false) runs when the scope is left.  A
\* notification that came in after the read is forgotten with the others.
\* When Initialize fails, the database that was being loaded is dropped.
ClearModified(s) ==
  LET dropped == pc[s] = "raise" /\ op[s].fresh
  IN
  /\ pc[s] \in {"clear", "raise"}
  /\ modified' = Set(modified, s, FALSE)
  /\ lost' = (lost \/ (Stale(s) /\ ~ event[s] /\ ~ dropped))
  /\ Collide(pc[s] = "clear" /\ Stale(s) /\ Checks(s))
  /\ IF pc[s] = "clear" THEN Proceed(s) /\ UNCHANGED dirty ELSE Abandon(s)
  /\ IF dropped THEN Unload(s) ELSE UNCHANGED <<loaded, view, offset, event>>
  /\ UNCHANGED <<diskVars, orphan, rebuilds, moved, damaged>>
-----------------------------------------------------------------------------
(* OpenChangeFileExclusively, Add and Remove                               *)

OpenChangeFile(s) ==
  /\ pc[s] = "open"
  /\ changes' = [changes EXCEPT !.exists = TRUE]
  /\ Goto(s, "lock")
  /\ UNCHANGED <<disk, base, tmp, op, loaded, view, offset, modified, event, orphan,
                 historyVars>>

\* The exclusive lock.  What others appended since ApplyChangeFile is not
\* looked at any more.
LockChangeFile(s) ==
  /\ pc[s] = "lock" /\ (s \in orphan \/ WriteLocked = {})
  /\ Collide(s \in orphan \/ Stale(s))
  /\ Goto(s, "append")
  /\ UNCHANGED <<diskVars, op, loaded, view, offset, modified, event, orphan,
                 rebuilds, dirty, moved, damaged, lost>>

\* "Could not acquire exclusive lock." after two seconds.
LockTimesOut(s) ==
  /\ pc[s] = "lock" /\ s \notin orphan /\ WriteLocked # {}
  /\ Abandon(s)
  /\ UNCHANGED <<diskVars, loaded, view, offset, modified, event, orphan,
                 rebuilds, moved, damaged, lost, collided>>

\* Writing line r: counted is what is added to changeFileSize.
WriteLineCounting(s, r, counted) ==
  /\ offset' = Set(offset, s, offset[s] + counted)
  /\ view' = Set(view, s, ApplyLine(view[s], r))
  /\ modified' = Set(modified, s, TRUE)
  /\ IF s \in orphan THEN UNCHANGED <<changes, event>>
     ELSE /\ changes' = [changes EXCEPT !.lines = Append(@, r)]
          /\ event' = [t \in Session |-> event[t] \/ loaded[t]]
  /\ orphan' = orphan \ {s}

\* Mutants: the size of a "-" line is subtracted; it is not counted at all.
WriteLineSubtracting(s, r) ==
  WriteLineCounting(s, r, IF r.kind = "+" THEN Length(r) ELSE - Length(r))
WriteLineUncounted(s, r) == WriteLineCounting(s, r, 0)

\* Write line r, count it, flush, unlock, set the flag.  inotify tells every
\* session that has the database loaded.
WriteLine(s, r) == WriteLineCounting(s, r, Length(r))

\* Add: InsertRecord, and a line if the record is new.
AppendAdd(s) ==
  LET p == op[s].path
  IN /\ pc[s] = "append" /\ Adding(s)
     /\ IF p \in view[s]
        THEN /\ modified' = Set(modified, s, TRUE)
             /\ orphan' = orphan \ {s}
             /\ UNCHANGED <<changes, view, offset, event>>
        ELSE WriteLine(s, Added(p))
     /\ dirty' = dirty \ {p}
     /\ Done(s)
     /\ UNCHANGED <<disk, base, tmp, loaded, rebuilds, moved, damaged, lost, collided>>

\* Remove: EraseRecord, which raises an error if there is no such record,
\* and a line.
AppendRemove(s) ==
  LET p == op[s].path
  IN /\ pc[s] = "append" /\ Removing(s) /\ p \in view[s]
     /\ WriteLine(s, Removed(p))
     /\ Goto(s, "recordGone")
     /\ moved' = moved \ {p}
     /\ UNCHANGED <<disk, base, tmp, op, loaded, rebuilds, dirty, damaged, lost, collided>>

EraseFails(s) ==
  /\ pc[s] = "append" /\ Removing(s) /\ op[s].path \notin view[s]
  /\ Raise("notFound")
  /\ orphan' = orphan \ {s}
  /\ Abandon(s)
  /\ UNCHANGED <<diskVars, loaded, view, offset, modified, event,
                 rebuilds, moved, lost, collided>>

\* The file itself is deleted, after its record.
UnlinkFile(s) ==
  /\ pc[s] = "recordGone" /\ ~ Moving(s)
  /\ disk' = disk \ {op[s].path}
  /\ dirty' = dirty \ {op[s].path}
  /\ Done(s)
  /\ UNCHANGED <<base, tmp, changes, loaded, view, offset, modified, event, orphan,
                 rebuilds, moved, damaged, lost, collided>>

\* File::Move goes on with the new name.
AddMovedFile(s) ==
  /\ pc[s] = "recordGone" /\ Moving(s)
  /\ op' = Set(op, s, Op("add", op[s].dest, None))
  /\ Goto(s, IF loaded[s] THEN "stat" ELSE "load")
  /\ UNCHANGED <<diskVars, loaded, view, offset, modified, event, orphan, historyVars>>
-----------------------------------------------------------------------------
(* FndbManager::Create                                                     *)

\* Collect the files, then unload the session's own database.  The history
\* starts afresh here: a rebuild that no other session disturbs is to repair
\* whatever has happened before.
ScanDisk(s) ==
  /\ pc[s] = "scan"
  /\ view' = Set(view, s, disk)
  /\ loaded' = Set(loaded, s, FALSE) /\ offset' = Set(offset, s, 0)
  /\ modified' = Set(modified, s, FALSE) /\ event' = Set(event, s, FALSE)
  /\ IF \E t \in Others(s) : loaded[t] \/ pc[t] # "idle"
     THEN collided' = TRUE /\ UNCHANGED <<damaged, lost>>
     ELSE collided' = FALSE /\ lost' = FALSE /\ damaged' = "no"
  /\ Goto(s, "writeTmp")
  /\ UNCHANGED <<diskVars, op, orphan, rebuilds, dirty, moved>>

WriteTmp(s) ==
  /\ pc[s] = "writeTmp"
  /\ tmp' = [exists |-> TRUE, files |-> view[s]]
  /\ view' = Set(view, s, {})
  /\ Goto(s, "deleteBase")
  /\ UNCHANGED <<disk, base, changes, op, loaded, offset, modified, event, orphan,
                 historyVars>>

DeleteBase(s) ==
  /\ pc[s] = "deleteBase"
  /\ base' = NoFile
  /\ Goto(s, "move")
  /\ UNCHANGED <<disk, tmp, changes, op, loaded, view, offset, modified, event, orphan,
                 historyVars>>

MoveTmp(s) ==
  /\ pc[s] = "move"
  /\ IF tmp.exists
     THEN base' = tmp /\ tmp' = NoFile /\ Goto(s, "deleteChanges")
          /\ UNCHANGED <<op, dirty>>
     ELSE Abandon(s) /\ UNCHANGED <<base, tmp>>
  /\ UNCHANGED <<disk, changes, loaded, view, offset, modified, event, orphan,
                 rebuilds, moved, damaged, lost, collided>>

\* Mutant: the change file stays.
KeepChanges(s) ==
  /\ pc[s] = "deleteChanges"
  /\ dirty' = {} /\ moved' = {}
  /\ IF op[s].kind = "add"
     THEN Goto(s, "load") /\ op' = [op EXCEPT ![s].phase = "update"]
     ELSE Done(s)
  /\ UNCHANGED <<diskVars, loaded, view, offset, modified, event, orphan,
                 rebuilds, damaged, lost, collided>>

\* The change file goes last; whoever has it open writes to an orphan.  Add,
\* which had to create the database, starts over.
DeleteChanges(s) ==
  /\ pc[s] = "deleteChanges"
  /\ changes' = NoChanges
  /\ orphan' = orphan \cup {t \in Session : pc[t] \in {"lock", "append"}}
  /\ dirty' = {} /\ moved' = {}
  /\ IF op[s].kind = "add"
     THEN Goto(s, "load") /\ op' = [op EXCEPT ![s].phase = "update"]
     ELSE Done(s)
  /\ UNCHANGED <<disk, base, tmp, loaded, view, offset, modified, event,
                 rebuilds, damaged, lost, collided>>
-----------------------------------------------------------------------------
\* Mutant: OnChange takes the notification for one of another file.
DeliverToNobody(s) ==
  /\ event[s]
  /\ event' = Set(event, s, FALSE)
  /\ UNCHANGED <<diskVars, pc, op, loaded, view, offset, modified, orphan, historyVars>>

\* The watcher thread of s calls OnChange for the change file.
Deliver(s) ==
  /\ event[s]
  /\ event' = Set(event, s, FALSE)
  /\ modified' = Set(modified, s, TRUE)
  /\ UNCHANGED <<diskVars, pc, op, loaded, view, offset, orphan, historyVars>>

\* The process of s ends or is killed (and is started again at its next
\* operation), or a session that is idle unloads the database.  Locks are
\* released, files stay as they are.
Exit(s) ==
  /\ loaded[s] \/ pc[s] # "idle"
  /\ Abandon(s)
  /\ Unload(s) /\ modified' = Set(modified, s, FALSE)
  /\ orphan' = orphan \ {s}
  /\ Collide(Rebuilding(s) /\ pc[s] # "scan")
  /\ UNCHANGED <<diskVars, rebuilds, moved, damaged, lost>>

Step(s) ==
  \/ Load(s) \/ StatChangeFile(s) \/ ReadChangeFile(s) \/ ReadFails(s)
  \/ ClearModified(s) \/ OpenChangeFile(s) \/ LockChangeFile(s) \/ LockTimesOut(s)
  \/ AppendAdd(s) \/ AppendRemove(s) \/ EraseFails(s) \/ UnlinkFile(s)
  \/ AddMovedFile(s)
  \/ ScanDisk(s) \/ WriteTmp(s) \/ DeleteBase(s) \/ MoveTmp(s) \/ DeleteChanges(s)

Next ==
  \E s \in Session :
    \/ Query(s) \/ Refresh(s) \/ Deliver(s) \/ Exit(s) \/ Step(s)
    \/ \E p \in Path : AddFile(s, p) \/ RemoveFile(s, p)
    \/ \E p, q \in Path : MoveFile(s, p, q)

Spec == Init /\ [][Next]_vars

-----------------------------------------------------------------------------
Operation ==
  [kind : {"none", "rebuild", "query"}, path : {None}, dest : {None}, phase : {"check"},
   fresh : BOOLEAN]
  \cup [kind : {"add", "remove"}, path : Path, dest : {None}, phase : {"check", "update"},
        fresh : BOOLEAN]
  \cup [kind : {"move"}, path : Path, dest : Path, phase : {"check", "update"},
        fresh : BOOLEAN]
FileState == [exists : BOOLEAN, files : SUBSET Path]

\* Every variable stays in its range.
TypeOK ==
  /\ disk \subseteq Path /\ base \in FileState /\ tmp \in FileState
  /\ changes \in [exists : BOOLEAN, lines : Seq(Line)]
  /\ pc \in [Session -> {"idle", "load"} \cup ApplySteps \cup UpdateSteps \cup RebuildSteps]
  /\ op \in [Session -> Operation]
  /\ loaded \in [Session -> BOOLEAN] /\ view \in [Session -> SUBSET Path]
  /\ offset \in [Session -> Nat]
  /\ modified \in [Session -> BOOLEAN] /\ event \in [Session -> BOOLEAN]
  /\ orphan \subseteq {s \in Session : pc[s] \in {"lock", "append"}}
  /\ rebuilds \in Nat /\ dirty \subseteq Path /\ moved \subseteq Path
  /\ damaged \in {"no", "tampered", "notFound"}
  /\ lost \in BOOLEAN /\ collided \in BOOLEAN

\* Nobody is exchanging the files of the database, and since the last
\* undisturbed rebuild no update was decided on or appended with a stale view,
\* and no rebuild took place beside other sessions or was killed.
Quiet == ~ collided /\ \A s \in Session : ~ Rebuilding(s)

\* Unless sessions have got into each other's way, what a session has in memory
\* is the base file with a whole number of lines of the change file applied to
\* it, and offset says how many.
ViewIsReplay ==
  ~ collided =>
    \A s \in Session : loaded[s] =>
      \E k \in 0..Len(changes.lines) :
        /\ offset[s] = Starts(changes.lines)[k]
        /\ view[s] = Views(base.files, 0, changes.lines)[k]

\* MIKTEX_ASSERT(newChangeFileSize > changeFileSize) holds when s is about to
\* compare the size of the change file with what it has applied.
ChangeFileGrows(s) ==
  pc[s] = "stat" /\ modified[s] /\ changes.exists /\ Stale(s) =>
    Size(changes.lines) > offset[s]

\* "FNDB damaged" is never raised, and the assertion about the size of the
\* change file never fails, by sessions that append, query, load, miss
\* notifications or are killed in the middle of an update: it takes an update
\* decided on or appended with a stale view, or a rebuild that others do not
\* know of or that is killed.  After a rebuild that nobody disturbed, whatever
\* came before, this holds again.
DamageHasCause ==
  damaged # "no" \/ (\E s \in Session : ~ ChangeFileGrows(s)) => collided

\* A session that is going to skip the change file (flag clear, no event on
\* its way) has applied all of it.
NothingMissed ==
  ~ collided /\ ~ lost =>
    \A s \in Session :
      loaded[s] /\ pc[s] \in {"idle", "stat", "open", "lock", "append"} =>
        modified[s] \/ event[s] \/ ~ Stale(s)

\* The index agrees with the disk.  It lists no file that does not exist, but
\* for files that have been renamed: a record is written after its file has
\* been created and removed before its file is deleted, and a crash in between
\* does not change that.  And it lists every file but those whose update is
\* under way or has been abandoned (crash, lock timeout); Refresh takes care of
\* the latter.
IndexAgreesWithDisk ==
  Quiet =>
    /\ Index \ disk \subseteq moved
    /\ \A p \in disk : p \in Index \/ p \in dirty \/ InFlight(p) # {}

\* A rebuild that nobody disturbs leaves an index of exactly the files on the
\* disk, whatever has gone wrong before it.
RefreshRepairs ==
  [][\A s \in Session :
       pc[s] = "deleteChanges" /\ pc'[s] # "deleteChanges" /\ ~ collided' => Index' = disk']_vars

\* "FNDB change file has been tampered with." is not said of a change file
\* that nobody but MiKTeX has written to.
NotTampered == damaged # "tampered"

=============================================================================
