------------------------------ MODULE LockFile ------------------------------
(***************************************************************************)
(* The lock file protocol of MiKTeX (Core/LockFile/LockFile.cpp).          *)
(*                                                                         *)
(* Several processes, each with some LockFile objects, agree through one   *)
(* file: TryLock creates it with the creator's process id and name inside, *)
(* Unlock deletes it, and a TryLock that finds the file asks the operating *)
(* system whether the creator is still there and deletes the file if not.  *)
(* Every file system call is one step, so the steps of all processes       *)
(* interleave; a process can die between any two of them.                  *)
(*                                                                         *)
(* The file is opened by std::ofstream in mode "out": created when it does *)
(* not exist, TRUNCATED when it does.  A stream stays attached to the file *)
(* it opened: when somebody unlinks that file the stream writes to an      *)
(* orphan, so "attached" holds the objects whose open stream still refers  *)
(* to the file that the path names.                                        *)
(***************************************************************************)
EXTENDS Integers, FiniteSets

CONSTANTS
  Process,       \* programs that use the lock, and unrelated ones
  LockObject,    \* LockFileImpl instances, all for the same path
  ProcessOf,     \* the process an object lives in
  Name,          \* process names as the system reports them
  NameOf,        \* the name of each process
  Pid,           \* process ids the system hands out
  Unprivileged,  \* processes that may read the directory but not write to it
  MaySignal,     \* pairs <<p, q>>: kill(2) lets p send a signal to q
  MayRead        \* pairs <<p, q>>: p may open the /proc files of q

ASSUME ConstantsAssumption ==
  /\ ProcessOf \in [LockObject -> Process]
  /\ NameOf \in [Process -> Name]
  /\ Pid \subseteq Nat \ {0}
  /\ Unprivileged \subseteq Process
  /\ MaySignal \subseteq Process \X Process
  /\ MayRead \subseteq Process \X Process

VARIABLES
  status,    \* status[p]: what the process table says of p
  pid,       \* pid[p]: the id p was started with last
  file,      \* content of the lock file, or Absent
  attached,  \* objects whose output stream is open on that very file
  pc,        \* pc[o]: where object o is in TryLock / Unlock
  seen,      \* seen[o]: the content that o read in CheckLockFile
  expired,   \* expired[o]: now() has passed tryUntil
  raced      \* history: a step hit a file that was not the one it had checked

fileVars == <<file, attached>>
procVars == <<status, pid>>
vars == <<status, pid, file, attached, pc, seen, expired, raced>>
-----------------------------------------------------------------------------
(* The content of the file: two lines, a process id and a process name.    *)

\* Mutant: the pid of a permanent lock is one of an ordinary process.
OrdinaryPid == 1

NoPid == 0
PermanentPid == -1

Empty         == [kind |-> "empty",   pid |-> NoPid,        owner |-> {}]
PermanentLock == [kind |-> "written", pid |-> PermanentPid, owner |-> {}]
Absent        == [kind |-> "absent",  pid |-> NoPid,        owner |-> {}]
OwnedBy(i, n) == [kind |-> "written", pid |-> i,            owner |-> {n}]

Content == {Empty, PermanentLock} \cup {OwnedBy(i, n) : i \in Pid, n \in Name}

\* Mutant: GetCurrentProcess does not set the id (unxProcess has -1 then).
SignatureWithoutPid(p) == OwnedBy(PermanentPid, NameOf[p])

\* What process p writes into the file.
Signature(p) == OwnedBy(pid[p], NameOf[p])

Running(p) == status[p] = "running"

\* Nobody who is running has signed this: its creator is gone, a zombie, or
\* has left its id to a process with another name.
IsGarbage(c) ==
  /\ c.pid \in Pid
  /\ ~ \E p \in Process :
         pid[p] = c.pid /\ NameOf[p] \in c.owner /\ status[p] = "running"

\* The processes, zombies included, with this id: one at most.
WithPid(i) == {p \in Process : pid[p] = i /\ status[p] # "down"}
-----------------------------------------------------------------------------
ProbeSteps == {"probe", "name", "status"}
TryLockSteps == ProbeSteps \cup {"exists", "create", "write", "read", "delete", "sleep"}
Steps == TryLockSteps \cup {"idle", "held", "unlink", "failed"}

\* A lock file can be left over from an earlier session of the machine.
Init ==
  /\ status = [p \in Process |-> "down"]
  /\ pid \in [Process -> Pid]
  /\ file \in {Absent, PermanentLock} \cup {OwnedBy(i, n) : i \in Pid, n \in Name}
  /\ attached = {}
  /\ pc = [o \in LockObject |-> "idle"]
  /\ seen = [o \in LockObject |-> Absent]
  /\ expired = [o \in LockObject |-> FALSE]
  /\ raced = FALSE

At(o, step) == pc[o] = step /\ Running(ProcessOf[o])
Goto(o, step) == pc' = [pc EXCEPT ![o] = step]
Privileged(o) == ProcessOf[o] \notin Unprivileged

\* What may be seen of process p by the process of o.
Signals(o, p) == <<ProcessOf[o], p>> \in MaySignal
Reads(o, p) == <<ProcessOf[o], p>> \in MayRead

\* An exception leaves TryLock.
Throw(o) == Goto(o, "failed") /\ seen' = [seen EXCEPT ![o] = Absent]

\* TryLock is entered, by an object that does not hold the lock.
CallTryLock(o) ==
  /\ At(o, "idle") \/ At(o, "failed")
  /\ Goto(o, "exists")
  /\ expired' = [expired EXCEPT ![o] = FALSE]
  /\ UNCHANGED <<procVars, fileVars, seen, raced>>

\* The clock passes tryUntil; with a timeout of 0ms this is at once.
Expire(o) ==
  /\ pc[o] \in TryLockSteps /\ Running(ProcessOf[o]) /\ ~ expired[o]
  /\ expired' = [expired EXCEPT ![o] = TRUE]
  /\ UNCHANGED <<procVars, fileVars, pc, seen, raced>>

\* if (!File::Exists(path))
CheckExists(o) ==
  /\ At(o, "exists")
  /\ Goto(o, IF file = Absent THEN "create" ELSE "read")
  /\ UNCHANGED <<procVars, fileVars, seen, expired, raced>>

\* File::CreateOutputStream(path): creates the file, or truncates one that
\* has come into being since CheckExists.
CreateFile(o) ==
  /\ At(o, "create") /\ Privileged(o)
  /\ raced' = (raced \/ file # Absent)
  /\ file' = Empty
  /\ attached' = attached \cup {o}
  /\ Goto(o, "write")
  /\ UNCHANGED <<procVars, seen, expired>>

\* Mutant: "locked = true" stands behind the try block.
CreateDeniedAndLocked(o) ==
  /\ At(o, "create") /\ ~ Privileged(o)
  /\ Goto(o, "held")
  /\ UNCHANGED <<procVars, fileVars, seen, expired, raced>>

\* UnauthorizedAccessException is swallowed; the file is checked instead.
CreateDenied(o) ==
  /\ At(o, "create") /\ ~ Privileged(o)
  /\ Goto(o, "read")
  /\ UNCHANGED <<procVars, fileVars, seen, expired, raced>>

\* Mutant: the stream is closed before anything is written.
WriteNothing(o) ==
  /\ At(o, "write")
  /\ attached' = attached \ {o}
  /\ Goto(o, "held")
  /\ UNCHANGED <<procVars, file, seen, expired, raced>>

\* os << pid << name; os.close(); locked = true
WriteSignature(o) ==
  /\ At(o, "write")
  /\ file' = IF o \in attached THEN Signature(ProcessOf[o]) ELSE file
  /\ attached' = attached \ {o}
  /\ Goto(o, "held")
  /\ UNCHANGED <<procVars, seen, expired, raced>>

\* The stream throws when the data cannot be written (disk full); the empty
\* file stays and the exception leaves TryLock.
WriteFails(o) ==
  /\ At(o, "write")
  /\ attached' = attached \ {o}
  /\ Goto(o, "failed")
  /\ UNCHANGED <<procVars, file, seen, expired, raced>>

\* ReadLockFile and the tests on the pid that need no system call.  A file
\* that is gone (IOException) or may not be read is not garbage.  An empty
\* file makes std::stoi throw; one's own pid is MIKTEX_UNEXPECTED.
ReadLockFile(o) ==
  /\ At(o, "read")
  /\ \/ /\ file \in {Absent, PermanentLock} \/ ~ Privileged(o)
        /\ Goto(o, "sleep")
        /\ UNCHANGED seen
     \/ /\ file = Empty \/ file.pid = pid[ProcessOf[o]]
        /\ Throw(o)
     \/ /\ file.pid \in Pid \ {pid[ProcessOf[o]]}
        /\ Goto(o, "probe")
        /\ seen' = [seen EXCEPT ![o] = file]
  /\ UNCHANGED <<procVars, fileVars, expired, raced>>

\* Process::GetProcess: kill(pid, 0).  An unknown id (ESRCH) is garbage.  A
\* process of another user (EPERM) is a MiKTeXException, which nobody in
\* CheckLockFile or TryLock catches.
GetProcess(o) ==
  /\ At(o, "probe")
  /\ \/ /\ WithPid(seen[o].pid) = {}
        /\ Goto(o, "delete")
        /\ UNCHANGED seen
     \/ \E p \in WithPid(seen[o].pid) :
          \/ /\ Signals(o, p)
             /\ Goto(o, "name")
             /\ UNCHANGED seen
          \/ ~ Signals(o, p) /\ Throw(o)
  /\ UNCHANGED <<procVars, fileVars, expired, raced>>

\* Mutant: the names are not compared.
GetAnyProcessName(o) ==
  /\ At(o, "name")
  /\ Goto(o, IF WithPid(seen[o].pid) = {} THEN "delete" ELSE "status")
  /\ UNCHANGED <<procVars, fileVars, seen, expired, raced>>

\* get_ProcessName reads /proc/<pid>/comm.  A process that has gone away in
\* the meantime has no name (garbage), or opening the file throws, if it goes
\* between File::Exists and the open.  UnauthorizedAccessException is not
\* garbage, another name is.
GetProcessName(o) ==
  /\ At(o, "name")
  /\ \/ /\ WithPid(seen[o].pid) = {}
        /\ (Goto(o, "delete") /\ UNCHANGED seen) \/ Throw(o)
     \/ \E p \in WithPid(seen[o].pid) :
          /\ Goto(o, IF ~ Reads(o, p) THEN "sleep"
                     ELSE IF NameOf[p] \in seen[o].owner THEN "status" ELSE "delete")
          /\ UNCHANGED seen
  /\ UNCHANGED <<procVars, fileVars, expired, raced>>

\* GetProcessInfo reads /proc/<pid>/comm once more and /proc/<pid>/stat.  Of a
\* process that has gone away it knows nothing, not that it is a zombie; so
\* the file is not garbage.
GetProcessInfo(o) ==
  /\ At(o, "status")
  /\ \/ /\ WithPid(seen[o].pid) = {}
        /\ (Goto(o, "sleep") /\ UNCHANGED seen) \/ Throw(o)
     \/ \E p \in WithPid(seen[o].pid) :
          /\ Goto(o, IF Reads(o, p) /\ status[p] = "zombie" THEN "delete" ELSE "sleep")
          /\ UNCHANGED seen
  /\ UNCHANGED <<procVars, fileVars, expired, raced>>

\* File::Delete(path) of what was garbage when it was probed; whatever file
\* the path names now goes.  FileNotFoundException is swallowed and the loop
\* starts over, the deadline notwithstanding (tryAgain).
DeleteGarbage(o) ==
  /\ At(o, "delete") /\ (Privileged(o) \/ file = Absent)
  /\ raced' = (raced \/ (file # Absent /\ ~ IsGarbage(file)))
  /\ file' = Absent
  /\ attached' = {}
  /\ seen' = [seen EXCEPT ![o] = Absent]
  /\ Goto(o, "exists")
  /\ UNCHANGED <<procVars, expired>>

\* Any other exception of File::Delete leaves TryLock.
DeleteDenied(o) ==
  /\ At(o, "delete") /\ ~ Privileged(o) /\ file # Absent
  /\ Throw(o)
  /\ UNCHANGED <<procVars, fileVars, expired, raced>>

\* Mutant: the loop does not look at the clock.
SleepAgain(o) ==
  /\ At(o, "sleep")
  /\ seen' = [seen EXCEPT ![o] = Absent]
  /\ Goto(o, "exists")
  /\ UNCHANGED <<procVars, fileVars, expired, raced>>

\* sleep_for(10ms), then the loop condition.
Sleep(o) ==
  /\ At(o, "sleep")
  /\ seen' = [seen EXCEPT ![o] = Absent]
  /\ Goto(o, IF expired[o] THEN "idle" ELSE "exists")
  /\ UNCHANGED <<procVars, fileVars, expired, raced>>

\* Unlock: locked = false ...
CallUnlock(o) ==
  /\ At(o, "held")
  /\ Goto(o, "unlink")
  /\ UNCHANGED <<procVars, fileVars, seen, expired, raced>>

\* Mutant: "locked" stays set.
UnlinkKeepsLocked(o) ==
  /\ At(o, "unlink")
  /\ file' = Absent
  /\ attached' = {}
  /\ Goto(o, "held")
  /\ UNCHANGED <<procVars, seen, expired, raced>>

\* ... and File::Delete(path), which throws if the file is gone.  The
\* destructor swallows that exception, a direct caller gets it.
Unlink(o) ==
  /\ At(o, "unlink")
  /\ IF file = Absent THEN Goto(o, "idle") \/ Goto(o, "failed") ELSE Goto(o, "idle")
  /\ file' = Absent
  /\ attached' = {}
  /\ UNCHANGED <<procVars, seen, expired, raced>>
-----------------------------------------------------------------------------
(* The operating system and its users.                                     *)

\* A process is started; ids of running processes and zombies are taken.
Start(p) ==
  /\ status[p] = "down"
  /\ \E i \in Pid :
       /\ \A q \in Process : status[q] # "down" => pid[q] # i
       /\ pid' = [pid EXCEPT ![p] = i]
  /\ status' = [status EXCEPT ![p] = "running"]
  /\ UNCHANGED <<fileVars, pc, seen, expired, raced>>

\* A process ends, in the middle of whatever it was doing.  Its streams are
\* closed and its objects are gone; the lock file is not.
Die(p) ==
  LET mine == {o \in LockObject : ProcessOf[o] = p}
  IN /\ Running(p)
     /\ status' = [status EXCEPT ![p] = "zombie"]
     /\ attached' = attached \ mine
     /\ pc' = [o \in LockObject |-> IF o \in mine THEN "idle" ELSE pc[o]]
     /\ seen' = [o \in LockObject |-> IF o \in mine THEN Absent ELSE seen[o]]
     /\ expired' = [o \in LockObject |-> IF o \in mine THEN FALSE ELSE expired[o]]
     /\ UNCHANGED <<pid, file, raced>>

\* The parent of a zombie collects it; its id is free again.
Reap(p) ==
  /\ status[p] = "zombie"
  /\ status' = [status EXCEPT ![p] = "down"]
  /\ UNCHANGED <<pid, fileVars, pc, seen, expired, raced>>

\* An administrator locks permanently by hand (pid -1).
PlacePermanentLock ==
  /\ file = Absent
  /\ file' = PermanentLock
  /\ UNCHANGED <<procVars, attached, pc, seen, expired, raced>>
-----------------------------------------------------------------------------
\* What the code of an object does next once TryLock or Unlock is called.
Advance(o) ==
  \/ CheckExists(o) \/ CreateFile(o) \/ CreateDenied(o)
  \/ WriteSignature(o) \/ WriteFails(o)
  \/ ReadLockFile(o) \/ GetProcess(o) \/ GetProcessName(o) \/ GetProcessInfo(o)
  \/ DeleteGarbage(o) \/ DeleteDenied(o)
  \/ Sleep(o) \/ Unlink(o)

Next ==
  \/ \E o \in LockObject : CallTryLock(o) \/ CallUnlock(o) \/ Expire(o) \/ Advance(o)
  \/ \E p \in Process : Start(p) \/ Die(p) \/ Reap(p)
  \/ PlacePermanentLock

Spec == Init /\ [][Next]_vars

\* Running threads are scheduled and the clock advances.  Nobody is obliged
\* to call TryLock or Unlock, to die or to be started.
Fairness ==
  \A o \in LockObject : WF_vars(Advance(o)) /\ WF_vars(Expire(o))

FairSpec == Spec /\ Fairness
-----------------------------------------------------------------------------
Holders == {o \in LockObject : pc[o] = "held"}

\* Every variable stays in its range; only a running process has an object
\* that is in the middle of something.
TypeOK ==
  /\ status \in [Process -> {"down", "running", "zombie"}]
  /\ pid \in [Process -> Pid]
  /\ file \in Content \cup {Absent}
  /\ attached \subseteq {o \in LockObject : pc[o] = "write"}
  /\ pc \in [LockObject -> Steps]
  /\ seen \in [LockObject -> Content \cup {Absent}]
  /\ expired \in [LockObject -> BOOLEAN]
  /\ raced \in BOOLEAN
  /\ \A o \in LockObject : pc[o] # "idle" => Running(ProcessOf[o])

\* TryLock returns true to one object at a time (the callers' reading of the
\* interface: "Another MiKTeX program has exclusevily locked ...").
MutualExclusion == Cardinality(Holders) <= 1

\* Two objects hold the lock only after one of the two check-then-act races
\* of TryLock has happened: a file truncated between File::Exists and the
\* open, or a live owner's file removed between the probe and File::Delete.
MutualExclusionUnlessRaced == raced \/ MutualExclusion

\* As long as no race has happened the file on disk is the holder's own until
\* its Unlock deletes it: Unlock neither fails nor deletes somebody else's
\* lock, and any other process that reads the file finds a live owner.
HolderOwnsFile ==
  ~ raced => \A o \in LockObject :
               pc[o] \in {"held", "unlink"} => file = Signature(ProcessOf[o])

\* A permanent lock (pid -1) is never taken for garbage: only a race removes
\* it, whatever processes come and go.
PermanentLockKept ==
  [][file = PermanentLock /\ ~ raced' => file' = PermanentLock]_vars

\* The lock file names a creator that is no longer running.
Stale == IsGarbage(file)

\* What keeps o from recognising a stale file: the id is that of a process
\* whose name it may not read, or the creator is a zombie that is collected
\* between get_ProcessName and GetProcessInfo.
OwnerIsHidden(o) == \E p \in WithPid(file.pid) : ~ Reads(o, p)
OwnerVanishes(o) == pc[o] = "status" /\ WithPid(seen[o].pid) = {}

\* A TryLock that starts while the lock is stale gets rid of the stale file,
\* even with a timeout of 0ms, unless it dies, cannot see whose file it is, or
\* ends with an exception: the dead creator's id is its own, or that of
\* another user's process (kill fails with EPERM), or a process with that id
\* goes away between two looks at it.
StaleLockReclaimed ==
  \A o \in LockObject : Privileged(o) =>
    (Stale /\ At(o, "exists")) ~>
      (\/ ~ Stale \/ pc[o] = "failed" \/ ~ Running(ProcessOf[o])
       \/ OwnerIsHidden(o) \/ OwnerVanishes(o))

\* TryLock comes back, if from some time on no process dies any more: the
\* garbage branch ignores the deadline, and processes that lock and die for
\* ever can keep it looping, but each turn takes a file that somebody who
\* died has left.
TryLockReturns ==
  <>[][\A p \in Process : ~ Die(p)]_vars =>
    \A o \in LockObject : pc[o] \in TryLockSteps ~> pc[o] \notin TryLockSteps

\* Refinement: the lock file implements the exclusive lock, with a race as
\* the event that breaks it.
Exclusive == INSTANCE ExclusiveLock
               WITH Client <- LockObject, holders <- Holders, broken <- raced

ExclusiveSpec == Exclusive!Spec

=============================================================================
