--------------------------- MODULE ExclusiveLock ---------------------------
(***************************************************************************)
(* What callers of MiKTeX::Core::LockFile rely on: a lock that at most one *)
(* client holds, for as long as nothing has broken the lock.  A client     *)
(* that dies gives its lock back.  Once the lock is broken nothing is      *)
(* promised any more.                                                      *)
(*                                                                         *)
(* This is the interface the package manager, the auto maintenance and the *)
(* console program are written against; LockFile.tla is what they get.     *)
(***************************************************************************)

CONSTANT Client

VARIABLES holders,  \* the clients whose TryLock has returned true
          broken    \* TRUE when the promise has been given up

lockVars == <<holders, broken>>

Init == holders = {} /\ broken = FALSE

Acquire(c) ==
  /\ c \notin holders
  /\ holders = {} \/ broken
  /\ holders' = holders \cup {c}
  /\ UNCHANGED broken

\* Several clients at once: the objects of one process die together.
Release(S) ==
  /\ S \subseteq holders
  /\ holders' = holders \ S
  /\ UNCHANGED broken

Break == broken' = TRUE /\ UNCHANGED holders

Next ==
  \/ \E c \in Client : Acquire(c)
  \/ \E S \in SUBSET Client : Release(S)
  \/ Break

Spec == Init /\ [][Next]_lockVars

=============================================================================
