--------------------------- MODULE LockFileProofs ---------------------------
(* Proofs about the lock file protocol, for any number of processes, lock  *)
(* objects, process names, process ids and restarts.                       *)
EXTENDS LockFile, FiniteSetTheorems, TLAPS

\* Between CreateFile and Unlink an object has a claim on the file.
Claim(o) == pc[o] \in {"write", "held", "unlink"}

\* As long as no race has happened, one object at most has a claim, and the
\* file is what that object has made of it.  Mutual exclusion alone is not
\* inductive: it says nothing of the file a second object would look at.
ClaimInv ==
  ~ raced =>
    /\ \A o \in LockObject : pc[o] = "write" => file = Empty /\ o \in attached
    /\ \A o \in LockObject :
         pc[o] \in {"held", "unlink"} => file = Signature(ProcessOf[o])
    /\ \A o, q \in LockObject : Claim(o) /\ Claim(q) => o = q

-----------------------------------------------------------------------------
(* Contents of the file.                                                   *)

\* A process's signature is a proper content, different from the special ones.
LEMMA SignatureContent ==
  ASSUME TypeOK, NEW p \in Process
  PROVE  /\ Signature(p) \in Content
         /\ Signature(p) # Absent
         /\ Signature(p) # Empty
         /\ Signature(p) # PermanentLock
         /\ Signature(p).pid \in Pid
<1>1. pid[p] \in Pid /\ NameOf[p] \in Name
  BY ConstantsAssumption DEF TypeOK
<1>2. pid[p] # PermanentPid /\ pid[p] # NoPid
  BY <1>1, ConstantsAssumption DEF PermanentPid, NoPid
<1>3. Signature(p) \in Content
  BY <1>1 DEF Signature, Content
<1>4. Signature(p).pid = pid[p] /\ Signature(p).kind = "written"
  BY DEF Signature, OwnedBy
<1>5. Signature(p) # Absent /\ Signature(p) # Empty
  BY <1>4 DEF Absent, Empty
<1>6. Signature(p) # PermanentLock
  BY <1>2, <1>4 DEF PermanentLock
<1>7. QED
  BY <1>1, <1>3, <1>4, <1>5, <1>6

\* A file that a running process has signed is not garbage, neither is an
\* empty file nor a permanent lock.
LEMMA NotGarbage ==
  ASSUME TypeOK
  PROVE  /\ \A p \in Process : Running(p) => ~ IsGarbage(Signature(p))
         /\ ~ IsGarbage(Empty)
         /\ ~ IsGarbage(PermanentLock)
<1>1. ~ IsGarbage(Empty) /\ ~ IsGarbage(PermanentLock)
  BY ConstantsAssumption DEF IsGarbage, Empty, PermanentLock, NoPid, PermanentPid
<1>2. ASSUME NEW p \in Process, Running(p)
      PROVE  ~ IsGarbage(Signature(p))
  BY <1>2 DEF IsGarbage, Signature, OwnedBy, Running
<1>3. QED
  BY <1>1, <1>2
-----------------------------------------------------------------------------
\* Every variable stays in its range, and only objects of running processes
\* are in the middle of an operation.
THEOREM TypeCorrect == Spec => []TypeOK
<1>1. Init => TypeOK
  <2> SUFFICES ASSUME Init PROVE TypeOK
    OBVIOUS
  <2>1. file \in Content \cup {Absent}
    BY DEF Init, Content
  <2>2. \A o \in LockObject : pc[o] = "idle"
    BY DEF Init
  <2>3. pc \in [LockObject -> Steps] /\ seen \in [LockObject -> Content \cup {Absent}]
    BY DEF Init, Steps
  <2>4. status \in [Process -> {"down", "running", "zombie"}] /\ pid \in [Process -> Pid]
    BY DEF Init
  <2>5. expired \in [LockObject -> BOOLEAN] /\ raced \in BOOLEAN
    BY DEF Init
  <2>6. attached \subseteq {o \in LockObject : pc[o] = "write"}
    BY DEF Init
  <2>7. QED
    BY <2>1, <2>2, <2>3, <2>4, <2>5, <2>6 DEF TypeOK
<1>2. TypeOK /\ [Next]_vars => TypeOK'
  <2> SUFFICES ASSUME TypeOK, [Next]_vars PROVE TypeOK'
    OBVIOUS
  <2> USE DEF TypeOK, Steps, TryLockSteps, ProbeSteps, At, Goto, Throw, procVars, fileVars, Running
  <2>1. ASSUME NEW o \in LockObject, CallTryLock(o) PROVE TypeOK'
    BY <2>1 DEF CallTryLock
  <2>2. ASSUME NEW o \in LockObject, CallUnlock(o) PROVE TypeOK'
    BY <2>2 DEF CallUnlock
  <2>3. ASSUME NEW o \in LockObject, Expire(o) PROVE TypeOK'
    BY <2>3 DEF Expire
  <2>4. ASSUME NEW o \in LockObject, Advance(o) PROVE TypeOK'
    <3>1. CASE CheckExists(o)
      BY <3>1 DEF CheckExists
    <3>2. CASE CreateFile(o)
      BY <3>2 DEF CreateFile, Content
    <3>3. CASE CreateDenied(o)
      BY <3>3 DEF CreateDenied
    <3>4. CASE WriteSignature(o)
      <4>1. ProcessOf[o] \in Process
        BY ConstantsAssumption
      <4>2. file' \in Content \cup {Absent}
        BY <3>4, <4>1, SignatureContent DEF WriteSignature
      <4>3. QED
        BY <3>4, <4>2 DEF WriteSignature
    <3>5. CASE WriteFails(o)
      BY <3>5 DEF WriteFails
    <3>6. CASE ReadLockFile(o)
      BY <3>6 DEF ReadLockFile
    <3>7. CASE GetProcess(o)
      BY <3>7 DEF GetProcess
    <3>8. CASE GetProcessName(o)
      BY <3>8 DEF GetProcessName
    <3>9. CASE GetProcessInfo(o)
      BY <3>9 DEF GetProcessInfo
    <3>10. CASE DeleteGarbage(o)
      BY <3>10 DEF DeleteGarbage
    <3>11. CASE DeleteDenied(o)
      BY <3>11 DEF DeleteDenied
    <3>12. CASE Sleep(o)
      BY <3>12 DEF Sleep
    <3>13. CASE Unlink(o)
      BY <3>13 DEF Unlink
    <3>14. QED
      BY <2>4, <3>1, <3>2, <3>3, <3>4, <3>5, <3>6, <3>7, <3>8, <3>9, <3>10, <3>11,
         <3>12, <3>13 DEF Advance
  <2>5. ASSUME NEW p \in Process, Start(p) PROVE TypeOK'
    BY <2>5, ConstantsAssumption DEF Start
  <2>6. ASSUME NEW p \in Process, Die(p) PROVE TypeOK'
    BY <2>6, ConstantsAssumption DEF Die
  <2>7. ASSUME NEW p \in Process, Reap(p) PROVE TypeOK'
    BY <2>7, ConstantsAssumption DEF Reap
  <2>8. CASE PlacePermanentLock
    BY <2>8 DEF PlacePermanentLock, Content
  <2>9. CASE UNCHANGED vars
    BY <2>9 DEF vars
  <2>10. QED
    BY <2>1, <2>2, <2>3, <2>4, <2>5, <2>6, <2>7, <2>8, <2>9 DEF Next
<1>3. QED
  BY <1>1, <1>2, PTL DEF Spec

-----------------------------------------------------------------------------
\* ClaimInv is inductive, given the types.
LEMMA ClaimInduction == TypeOK /\ TypeOK' /\ ClaimInv /\ [Next]_vars => ClaimInv'
<1> SUFFICES ASSUME TypeOK, TypeOK', ClaimInv, [Next]_vars, ~ raced'
             PROVE  ClaimInv'
  BY DEF ClaimInv
<1> USE DEF At, Goto, Throw, procVars, fileVars, Claim, ClaimInv
<1>types. /\ pc \in [LockObject -> Steps] /\ attached \subseteq LockObject
          /\ status \in [Process -> {"down", "running", "zombie"}]
          /\ pid \in [Process -> Pid]
          /\ raced \in BOOLEAN
          /\ \A o \in LockObject : ProcessOf[o] \in Process
  BY ConstantsAssumption DEF TypeOK
<1>signed. \A o \in LockObject :
             /\ Signature(ProcessOf[o]) # Absent
             /\ Signature(ProcessOf[o]) # Empty
  BY <1>types, SignatureContent
<1>running. \A o \in LockObject : pc[o] # "idle" => Running(ProcessOf[o])
  BY DEF TypeOK
\* An unchanged process table leaves every signature as it was.
<1>same. ASSUME UNCHANGED pid PROVE \A p \in Process : Signature(p)' = Signature(p)
  BY <1>same DEF Signature, OwnedBy
<1>1. ASSUME NEW o \in LockObject, CallTryLock(o) PROVE ClaimInv'
  BY <1>1, <1>types, <1>same DEF CallTryLock
<1>2. ASSUME NEW o \in LockObject, CallUnlock(o) PROVE ClaimInv'
  BY <1>2, <1>types, <1>same DEF CallUnlock
<1>3. ASSUME NEW o \in LockObject, Expire(o) PROVE ClaimInv'
  BY <1>3, <1>types, <1>same DEF Expire
<1>4. ASSUME NEW o \in LockObject, Advance(o) PROVE ClaimInv'
  <2>1. CASE CheckExists(o)
    BY <2>1, <1>types, <1>same DEF CheckExists
  <2>2. CASE CreateFile(o)
    \* The file was absent, so nobody had a claim.
    <3>1. ~ raced /\ file = Absent
      BY <2>2, <1>types DEF CreateFile
    <3>2. \A q \in LockObject : ~ Claim(q)
      BY <3>1, <1>signed, <1>types DEF Absent, Empty
    <3>3. QED
      BY <2>2, <3>2, <1>types, <1>same DEF CreateFile
  <2>3. CASE CreateDenied(o)
    BY <2>3, <1>types, <1>same DEF CreateDenied
  <2>4. CASE WriteSignature(o)
    BY <2>4, <1>types, <1>same DEF WriteSignature
  <2>5. CASE WriteFails(o)
    BY <2>5, <1>types, <1>same DEF WriteFails
  <2>6. CASE ReadLockFile(o)
    BY <2>6, <1>types, <1>same DEF ReadLockFile
  <2>7. CASE GetProcess(o)
    BY <2>7, <1>types, <1>same DEF GetProcess
  <2>8. CASE GetProcessName(o)
    BY <2>8, <1>types, <1>same DEF GetProcessName
  <2>9. CASE GetProcessInfo(o)
    BY <2>9, <1>types, <1>same DEF GetProcessInfo
  <2>10. CASE DeleteGarbage(o)
    \* What is deleted is garbage or nothing, so nobody had a claim on it.
    <3>1. ~ raced /\ (file = Absent \/ IsGarbage(file))
      BY <2>10, <1>types DEF DeleteGarbage
    <3>2. \A q \in LockObject : ~ Claim(q)
      BY <3>1, <1>signed, <1>types, <1>running, NotGarbage DEF Absent, Empty
    <3>3. QED
      BY <2>10, <3>2, <1>types, <1>same DEF DeleteGarbage
  <2>11. CASE DeleteDenied(o)
    BY <2>11, <1>types, <1>same DEF DeleteDenied
  <2>12. CASE Sleep(o)
    BY <2>12, <1>types, <1>same DEF Sleep
  <2>13. CASE Unlink(o)
    \* The only claim on the file is the one that is given up.
    BY <2>13, <1>types, <1>same DEF Unlink
  <2>14. QED
    BY <1>4, <2>1, <2>2, <2>3, <2>4, <2>5, <2>6, <2>7, <2>8, <2>9, <2>10, <2>11,
       <2>12, <2>13 DEF Advance
<1>5. ASSUME NEW p \in Process, Start(p) PROVE ClaimInv'
  \* The process that gets a new id has no object in the middle of anything.
  <2>1. \A o \in LockObject : pc[o] # "idle" => ProcessOf[o] # p
    BY <1>5, <1>running DEF Start, Running
  <2>2. \A q \in Process : q # p => Signature(q)' = Signature(q)
    BY <1>5, <1>types DEF Start, Signature, OwnedBy
  <2>3. QED
    BY <1>5, <2>1, <2>2, <1>types DEF Start
<1>6. ASSUME NEW p \in Process, Die(p) PROVE ClaimInv'
  BY <1>6, <1>types, <1>same DEF Die
<1>7. ASSUME NEW p \in Process, Reap(p) PROVE ClaimInv'
  BY <1>7, <1>types, <1>same DEF Reap
<1>8. CASE PlacePermanentLock
  BY <1>8, <1>types, <1>same, <1>signed DEF PlacePermanentLock, Absent, Empty
<1>9. CASE UNCHANGED vars
  BY <1>9, <1>types, <1>same DEF vars
<1>10. QED
  BY <1>1, <1>2, <1>3, <1>4, <1>5, <1>6, <1>7, <1>8, <1>9 DEF Next

LEMMA ClaimInvariant == Spec => []ClaimInv
<1>1. Init => ClaimInv
  BY DEF Init, ClaimInv, Claim
<1>2. QED
  BY <1>1, ClaimInduction, TypeCorrect, PTL DEF Spec

-----------------------------------------------------------------------------
\* Two objects hold the lock only after a race: TryLock's check-then-act
\* steps are the only way to lose exclusiveness, whatever dies or restarts.
THEOREM MutualExclusionTheorem == Spec => []MutualExclusionUnlessRaced
<1>1. TypeOK /\ ClaimInv => MutualExclusionUnlessRaced
  <2> SUFFICES ASSUME TypeOK, ClaimInv, ~ raced PROVE Cardinality(Holders) <= 1
    BY DEF MutualExclusionUnlessRaced, MutualExclusion
  <2>1. \A o, q \in Holders : o = q
    BY DEF Holders, ClaimInv, Claim
  <2>2. CASE Holders = {}
    BY <2>2, FS_EmptySet
  <2>3. CASE Holders # {}
    <3>1. PICK o : Holders = {o}
      BY <2>1, <2>3
    <3>2. QED
      BY <3>1, FS_Singleton
  <2>4. QED
    BY <2>2, <2>3
<1>2. QED
  BY <1>1, TypeCorrect, ClaimInvariant, PTL

\* The file on disk stays the holder's own until its Unlock deletes it.
THEOREM HolderOwnsFileTheorem == Spec => []HolderOwnsFile
<1>1. ClaimInv => HolderOwnsFile
  BY DEF ClaimInv, HolderOwnsFile
<1>2. QED
  BY <1>1, ClaimInvariant, PTL

\* CheckLockFile never takes a permanent lock for garbage: only a race can
\* remove it.
THEOREM PermanentLockTheorem == Spec => PermanentLockKept
<1>1. ASSUME TypeOK, ClaimInv, [Next]_vars
      PROVE  [file = PermanentLock /\ ~ raced' => file' = PermanentLock]_vars
  <2> SUFFICES ASSUME Next, file = PermanentLock, ~ raced'
               PROVE  file' = PermanentLock
    BY <1>1
  <2> USE DEF At, Goto, procVars, fileVars
  <2>1. file # Absent /\ file # Empty /\ ~ IsGarbage(file)
    BY <1>1, NotGarbage DEF PermanentLock, Absent, Empty
  <2>2. \A o \in LockObject : file # Signature(ProcessOf[o])
    BY <1>1, SignatureContent, ConstantsAssumption
  <2>3. ASSUME NEW o \in LockObject, Advance(o) PROVE file' = PermanentLock
    <3>1. CASE CreateFile(o)
      BY <2>1, <3>1 DEF CreateFile
    <3>2. CASE WriteSignature(o)
      BY <1>1, <2>1, <3>2 DEF WriteSignature, ClaimInv
    <3>3. CASE DeleteGarbage(o)
      BY <2>1, <3>3 DEF DeleteGarbage
    <3>4. CASE Unlink(o)
      BY <1>1, <2>2, <3>4 DEF Unlink, ClaimInv
    <3>5. CASE ~ (CreateFile(o) \/ WriteSignature(o) \/ DeleteGarbage(o) \/ Unlink(o))
      BY <2>3, <3>5 DEF Advance, CheckExists, CreateDenied, WriteFails, ReadLockFile,
                        GetProcess, GetProcessName, GetProcessInfo, DeleteDenied, Sleep
    <3>6. QED
      BY <3>1, <3>2, <3>3, <3>4, <3>5
  <2>4. CASE \E o \in LockObject : CallTryLock(o) \/ CallUnlock(o) \/ Expire(o)
    BY <2>4 DEF CallTryLock, CallUnlock, Expire
  <2>5. CASE \E p \in Process : Start(p) \/ Die(p) \/ Reap(p)
    BY <2>5 DEF Start, Die, Reap
  <2>6. CASE PlacePermanentLock
    BY <2>1, <2>6 DEF PlacePermanentLock
  <2>7. QED
    BY <2>3, <2>4, <2>5, <2>6 DEF Next
<1>2. QED
  BY <1>1, TypeCorrect, ClaimInvariant, PTL DEF Spec, PermanentLockKept

-----------------------------------------------------------------------------
\* The steps that leave Holders and raced alone.
LEMMA QuietSteps ==
  ASSUME TypeOK, NEW o \in LockObject,
         \/ CallTryLock(o) \/ Expire(o) \/ CheckExists(o) \/ CreateDenied(o)
         \/ WriteFails(o) \/ ReadLockFile(o) \/ GetProcess(o) \/ GetProcessName(o)
         \/ GetProcessInfo(o) \/ DeleteDenied(o) \/ Sleep(o) \/ Unlink(o)
  PROVE  UNCHANGED <<Holders, raced>>
  BY DEF TypeOK, Holders, At, Goto, Throw, CallTryLock, Expire, CheckExists, CreateDenied,
         WriteFails, ReadLockFile, GetProcess, GetProcessName, GetProcessInfo,
         DeleteDenied, Sleep, Unlink

\* The lock file implements the exclusive lock: TryLock's last step is
\* Acquire, Unlock and the death of a process are Release, and the races are
\* what breaks the lock.
THEOREM Refinement == Spec => ExclusiveSpec
<1>1. Init => Exclusive!Init
  BY DEF Init, Exclusive!Init, Holders
<1>2. ASSUME TypeOK, ClaimInv, [Next]_vars
      PROVE  [Exclusive!Next]_(Exclusive!lockVars)
  <2> SUFFICES ASSUME Next
               PROVE  Exclusive!Next \/ UNCHANGED <<Holders, raced>>
    BY <1>2 DEF vars, Exclusive!lockVars, Holders
  <2> USE DEF At, Goto
  <2>1. ASSUME NEW o \in LockObject, WriteSignature(o) PROVE Exclusive!Acquire(o)
    <3>1. pc[o] = "write" /\ o \notin Holders /\ raced' = raced
      BY <2>1 DEF WriteSignature, Holders
    <3>2. Holders = {} \/ raced
      BY <1>2, <3>1 DEF ClaimInv, Claim, Holders
    <3>3. Holders' = Holders \cup {o}
      BY <1>2, <2>1 DEF WriteSignature, Holders, TypeOK
    <3>4. QED
      BY <3>1, <3>2, <3>3 DEF Exclusive!Acquire
  <2>2. ASSUME NEW o \in LockObject, CallUnlock(o) PROVE Exclusive!Release({o})
    BY <1>2, <2>2 DEF CallUnlock, Holders, TypeOK, Exclusive!Release
  <2>3. ASSUME NEW o \in LockObject, CreateFile(o) \/ DeleteGarbage(o)
        PROVE  Exclusive!Break \/ UNCHANGED <<Holders, raced>>
    <3>1. Holders' = Holders
      BY <1>2, <2>3 DEF CreateFile, DeleteGarbage, Holders, TypeOK
    <3>2. raced' = raced \/ raced' = TRUE
      BY <1>2, <2>3 DEF CreateFile, DeleteGarbage, TypeOK
    <3>3. QED
      BY <3>1, <3>2 DEF Exclusive!Break
  <2>4. ASSUME NEW p \in Process, Die(p)
        PROVE  \E S \in SUBSET LockObject : Exclusive!Release(S)
    <3> DEFINE S == {o \in Holders : ProcessOf[o] = p}
    <3>1. Holders' = Holders \ S /\ raced' = raced
      BY <1>2, <2>4 DEF Die, Holders, TypeOK
    <3>2. S \subseteq Holders /\ S \in SUBSET LockObject
      BY DEF Holders
    <3>3. Exclusive!Release(S)
      BY <3>1, <3>2 DEF Exclusive!Release
    <3>4. QED
      BY <3>2, <3>3
  <2>5. ASSUME NEW p \in Process, Start(p) \/ Reap(p) PROVE UNCHANGED <<Holders, raced>>
    BY <2>5 DEF Start, Reap, Holders
  <2>6. CASE PlacePermanentLock
    BY <2>6 DEF PlacePermanentLock, Holders
  <2>7. ASSUME NEW o \in LockObject,
               CallTryLock(o) \/ CallUnlock(o) \/ Expire(o) \/ Advance(o)
        PROVE  Exclusive!Next \/ UNCHANGED <<Holders, raced>>
    BY <1>2, <2>1, <2>2, <2>3, <2>7, QuietSteps DEF Advance, Exclusive!Next
  <2>8. QED
    BY <2>4, <2>5, <2>6, <2>7 DEF Next, Exclusive!Next
<1>3. QED
  BY <1>1, <1>2, TypeCorrect, ClaimInvariant, PTL DEF Spec, ExclusiveSpec, Exclusive!Spec

=============================================================================
