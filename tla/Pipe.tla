-------------------------------- MODULE Pipe --------------------------------
(***************************************************************************)
(* The pipe between the two threads of a compressed stream                 *)
(* (Core/Utils/Pipe.h): a ring buffer under a mutex, with one condition    *)
(* variable for the reader and one for the writer.                         *)
(*                                                                         *)
(* What a thread does between acquiring the mutex and waiting or returning *)
(* is atomic but for the flag "done", which Close sets WITHOUT the mutex.  *)
(* So the evaluation of a wait predicate and the falling asleep that       *)
(* follows are two steps.  A thread that is notified tries to acquire the  *)
(* mutex and evaluates its predicate again.                                *)
(***************************************************************************)
EXTENDS Integers, Sequences

CONSTANTS
  Capacity,  \* size of the ring buffer
  MaxCount,  \* bound: bytes per call of Read and Write
  MaxBytes   \* bound: bytes written altogether

ASSUME ConstantsAssumption ==
  Capacity \in Nat \ {0} /\ MaxCount \in Nat \ {0} /\ MaxBytes \in Nat

VARIABLES
  buffer, head, tail, size,
  done,       \* the pipe has been closed
  mutex,      \* the side that holds the mutex, or "free"
  pc,         \* per side: next step of the call it executes, "out" if none
  left,       \* per side: bytes of this call still to be transferred
  closing,    \* sides that are in Close, between the flag and the notification
  closed,     \* sides that have called Close
  sent,       \* number of bytes put into the buffer
  received,   \* the bytes taken from it
  short,      \* the last Read returned less than it was asked for
  lost        \* history: a side fell asleep after Close had notified it

ringVars == <<buffer, head, tail, size>>
callVars == <<mutex, pc, left>>
dataVars == <<sent, received>>
pipeVars == <<buffer, head, tail, size, done, mutex, pc, left, closing, closed,
              sent, received, short, lost>>

Side == {"writer", "reader"}
Index == 0..Capacity - 1
Byte == 1..MaxBytes

Least(a, b) == IF a <= b THEN a ELSE b

PipeInit ==
  /\ buffer = [i \in Index |-> 0] /\ head = 0 /\ tail = 0 /\ size = 0
  /\ done = FALSE /\ mutex = "free"
  /\ pc = [t \in Side |-> "out"] /\ left = [t \in Side |-> 0]
  /\ closing = {} /\ closed = {}
  /\ sent = 0 /\ received = <<>> /\ short = FALSE /\ lost = FALSE
-----------------------------------------------------------------------------
CanWrite == size < Capacity
CanRead == size > 0

\* Mutant: an index that leaves the buffer starts over at 0.
AdvanceToStart(i, n) == IF i + n < Capacity THEN i + n ELSE 0

\* head and tail run around the buffer.
Advance(i, n) == (i + n) % Capacity

\* What the two sides wait for.
Ready(t) == done \/ IF t = "writer" THEN CanWrite ELSE CanRead

Goto(t, step) == pc' = [pc EXCEPT ![t] = step]

\* Mutant: nobody is notified.
NotifyNobody(t, step) == Goto(t, step)

\* notify_one wakes the other side if it is asleep.
NotifyOther(t, step) ==
  pc' = [u \in Side |-> IF u = t THEN step
                        ELSE IF pc[u] = "asleep" THEN "lock" ELSE pc[u]]

\* A call of Write or Read.
Call(t, n) ==
  /\ pc[t] = "out" /\ t \notin closing
  /\ Goto(t, "lock")
  /\ left' = [left EXCEPT ![t] = n]
  /\ UNCHANGED <<ringVars, done, mutex, closing, closed, dataVars, short, lost>>

\* The mutex is acquired: by unique_lock, or again after a notification.
Lock(t) ==
  /\ pc[t] = "lock" /\ mutex = "free"
  /\ IF left[t] = 0 THEN Goto(t, "out") /\ UNCHANGED mutex
                    ELSE Goto(t, "check") /\ mutex' = t
  /\ UNCHANGED <<ringVars, left, done, closing, closed, dataVars, short, lost>>

\* The wait predicate is false: the thread is going to sleep ...
MustWait(t) ==
  /\ pc[t] = "check" /\ ~ Ready(t)
  /\ Goto(t, "drowsy")
  /\ UNCHANGED <<ringVars, done, mutex, left, closing, closed, dataVars, short, lost>>

\* Mutant: the thread sleeps with the mutex.
FallAsleepLocked(t) ==
  /\ pc[t] = "drowsy"
  /\ Goto(t, "asleep")
  /\ lost' = (lost \/ (done /\ closing = {}))
  /\ UNCHANGED <<ringVars, done, mutex, left, closing, closed, dataVars, short>>

\* ... and does: the mutex is released and the thread waits, in one step.
FallAsleep(t) ==
  /\ pc[t] = "drowsy"
  /\ Goto(t, "asleep")
  /\ mutex' = "free"
  /\ lost' = (lost \/ (done /\ closing = {}))
  /\ UNCHANGED <<ringVars, done, left, closing, closed, dataVars, short>>

\* A condition variable may wake a thread for no reason.
WakeSpuriously(t) ==
  /\ pc[t] = "asleep"
  /\ Goto(t, "lock")
  /\ UNCHANGED <<ringVars, done, mutex, left, closing, closed, dataVars, short, lost>>

\* Write: as much as there is room for goes into the buffer, around its end if
\* need be.
CopyIn ==
  LET n    == Least(left["writer"], Capacity - size)
      num1 == Least(n, Capacity - tail)
      num2 == n - num1
  IN /\ pc["writer"] = "check" /\ ~ done /\ CanWrite
     /\ buffer' = [i \in Index |->
          IF tail <= i /\ i < tail + num1 THEN sent + 1 + (i - tail)
          ELSE IF i < num2 THEN sent + num1 + 1 + i
          ELSE buffer[i]]
     /\ tail' = Advance(tail, n)
     /\ size' = size + n
     /\ sent' = sent + n
     /\ left' = [left EXCEPT !["writer"] = @ - n]
     /\ NotifyOther("writer", IF left["writer"] = n THEN "out" ELSE "check")
     /\ mutex' = IF left["writer"] = n THEN "free" ELSE "writer"
     /\ UNCHANGED <<head, received, done, closing, closed, short, lost>>

\* Write into a closed pipe: BrokenPipeException.
Break ==
  /\ pc["writer"] = "check" /\ done
  /\ Goto("writer", "broken")
  /\ left' = [left EXCEPT !["writer"] = 0]
  /\ mutex' = "free"
  /\ UNCHANGED <<ringVars, done, closing, closed, dataVars, short, lost>>

\* Read: as much as is wanted and there.
CopyOut ==
  LET n    == Least(left["reader"], size)
      num1 == Least(n, Capacity - head)
  IN /\ pc["reader"] = "check" /\ (done \/ CanRead)
     /\ received' = received \o
          [j \in 1..n |-> IF j <= num1 THEN buffer[head + j - 1]
                                       ELSE buffer[j - num1 - 1]]
     /\ head' = Advance(head, n)
     /\ size' = size - n
     /\ left' = [left EXCEPT !["reader"] = @ - n]
     /\ NotifyOther("reader", "copied")
     /\ UNCHANGED <<buffer, tail, done, mutex, closing, closed, sent, short, lost>>

\* noMore = done, and the loop condition.
ReadMore ==
  /\ pc["reader"] = "copied"
  /\ IF left["reader"] = 0 \/ done
     THEN /\ Goto("reader", "out") /\ mutex' = "free"
          /\ short' = (left["reader"] > 0)
          /\ left' = [left EXCEPT !["reader"] = 0]
     ELSE Goto("reader", "check") /\ UNCHANGED <<mutex, left, short>>
  /\ UNCHANGED <<ringVars, done, closing, closed, dataVars, lost>>

\* Close: the flag, without the mutex ...
SetDone(t) ==
  /\ pc[t] \in {"out", "broken"} /\ t \notin closed
  /\ done' = TRUE
  /\ closing' = closing \cup {t} /\ closed' = closed \cup {t}
  /\ UNCHANGED <<ringVars, callVars, dataVars, short, lost>>

\* Mutant: only the reader is notified.
NotifyReaderClosed(t) ==
  /\ t \in closing
  /\ closing' = closing \ {t}
  /\ pc' = [pc EXCEPT !["reader"] = IF @ = "asleep" THEN "lock" ELSE @]
  /\ UNCHANGED <<ringVars, done, mutex, left, closed, dataVars, short, lost>>

\* ... and then notify_one on both condition variables.
NotifyClosed(t) ==
  /\ t \in closing
  /\ closing' = closing \ {t}
  /\ pc' = [u \in Side |-> IF pc[u] = "asleep" THEN "lock" ELSE pc[u]]
  /\ UNCHANGED <<ringVars, done, mutex, left, closed, dataVars, short, lost>>
-----------------------------------------------------------------------------
\* What goes on inside a call of side t.
Inside(t) ==
  \/ Lock(t) \/ MustWait(t) \/ FallAsleep(t)
  \/ t = "writer" /\ (CopyIn \/ Break)
  \/ t = "reader" /\ (CopyOut \/ ReadMore)

PipeNext ==
  \E t \in Side :
    \/ Inside(t) \/ WakeSpuriously(t) \/ SetDone(t) \/ NotifyClosed(t)
    \/ \E n \in 0..MaxCount : (t = "writer" => sent + n <= MaxBytes) /\ Call(t, n)

PipeSpec == PipeInit /\ [][PipeNext]_pipeVars
-----------------------------------------------------------------------------
PipeSteps == {"out", "lock", "check", "drowsy", "asleep", "copied", "broken"}

\* Every variable stays in its range, and exactly the side that is between
\* acquiring and releasing the mutex owns it.
PipeTypeOK ==
  /\ buffer \in [Index -> 0..MaxBytes] /\ head \in Index /\ tail \in Index
  /\ size \in 0..Capacity /\ sent \in 0..MaxBytes /\ received \in Seq(Byte)
  /\ done \in BOOLEAN /\ short \in BOOLEAN /\ lost \in BOOLEAN
  /\ mutex \in Side \cup {"free"}
  /\ pc \in [Side -> PipeSteps] /\ left \in [Side -> 0..MaxCount]
  /\ closing \subseteq closed /\ closed \subseteq Side
  /\ \A t \in Side : pc[t] \in {"check", "drowsy", "copied"} <=> mutex = t

\* Refinement: the pipe is a byte channel.
Channel == INSTANCE ByteChannel WITH closed <- done

ChannelSpec == Channel!Spec
=============================================================================
