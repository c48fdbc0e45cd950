---------------------------- MODULE StreamProofs ----------------------------
(* Proofs about the pipe and the compressed streams, for every size of the  *)
(* buffer, of the calls, of the chunks and of the file.                     *)
EXTENDS CompressedStream, SequenceTheorems, TLAPS

\* Where the k-th byte that is still in the buffer lies.
Slot(k) == Advance(head, k)

\* The ring buffer holds the bytes that have been sent and not received.
RingInv ==
  /\ sent = Len(received) + size
  /\ tail = Slot(size)
  /\ \A k \in 0..size - 1 : buffer[Slot(k)] = Len(received) + 1 + k

\* Each call stays within its bound, and each side within its half of the code.
CallInv ==
  /\ sent + left["writer"] <= MaxBytes
  /\ pc["writer"] # "copied" /\ pc["reader"] # "broken"

\* A read that came back from the buffer with less than was asked for has
\* emptied it.
EmptiedInv == pc["reader"] = "copied" /\ left["reader"] > 0 => size = 0

\* While main reads, nobody but a worker that has handed over a good file
\* closes the pipe.
ReadingInv ==
  reading /\ main = "open" =>
    /\ done => kind = "good" /\ sent = MaxBytes
    /\ short => kind = "good" /\ Len(received) = MaxBytes

\* While main writes, the worker asks until the pipe is closed and empty.
WritingInv ==
  ~ reading =>
    /\ before <= Len(received)
    /\ done => main # "open"
    /\ main # "open" => Returned("writer")
    /\ pc["reader"] \in {"lock", "check", "drowsy", "asleep"} => left["reader"] > 0
    /\ asked /\ pc["reader"] \in {"copied", "out"} /\ Len(received) = before =>
         done /\ size = 0
    /\ worker \in {"notify", "finish"} \/ state = "successful" => done /\ size = 0

\* What the pipe keeps by itself, whoever calls it.
PipeInv == PipeTypeOK /\ RingInv /\ CallInv /\ EmptiedInv

-----------------------------------------------------------------------------
(* The ring.                                                               *)

\* Advance goes once around the buffer at most.
LEMMA AdvanceValue ==
  ASSUME NEW i \in Index, NEW n \in 0..Capacity
  PROVE  /\ Advance(i, n) = IF i + n < Capacity THEN i + n ELSE i + n - Capacity
         /\ Advance(i, n) \in Index
BY ConstantsAssumption DEF Advance, Index

\* What CopyOut takes from the buffer are the oldest bytes, in order.
LEMMA TakenInOrder ==
  ASSUME PipeInv, CopyOut
  PROVE  \E n \in 0..size :
           /\ n = Least(left["reader"], size)
           /\ received' = received \o [j \in 1..n |-> Len(received) + j]
           /\ received' \in Seq(Byte)
           /\ Len(received') = Len(received) + n
<1> DEFINE n    == Least(left["reader"], size)
           num1 == Least(n, Capacity - head)
           taken == [j \in 1..n |-> IF j <= num1 THEN buffer[head + j - 1]
                                                 ELSE buffer[j - num1 - 1]]
           next == [j \in 1..n |-> Len(received) + j]
<1>1. /\ size \in 0..Capacity /\ head \in Index /\ left["reader"] \in 0..MaxCount
      /\ received \in Seq(Byte) /\ sent \in 0..MaxBytes
  BY DEF PipeInv, PipeTypeOK, Side
<1>2. n \in 0..size /\ num1 \in 0..n /\ num1 <= Capacity - head
      /\ (num1 = n \/ num1 = Capacity - head)
  BY <1>1, ConstantsAssumption DEF Least, Index
<1>3. Len(received) \in Nat /\ sent = Len(received) + size
  BY <1>1, LenProperties DEF PipeInv, RingInv
<1>4. ASSUME NEW j \in 1..n
      PROVE  (IF j <= num1 THEN buffer[head + j - 1] ELSE buffer[j - num1 - 1])
                = Len(received) + j
  <2>1. j - 1 \in 0..size - 1 /\ j - 1 \in 0..Capacity
    BY <1>1, <1>2, ConstantsAssumption
  <2>2. buffer[Slot(j - 1)] = Len(received) + j
    BY <1>3, <2>1 DEF PipeInv, RingInv
  <2>3. Slot(j - 1) = IF head + j - 1 < Capacity THEN head + j - 1
                                                ELSE head + j - 1 - Capacity
    BY <1>1, <2>1, AdvanceValue, ConstantsAssumption DEF Slot, Index
  <2>4. (IF j <= num1 THEN head + j - 1 ELSE j - num1 - 1) = Slot(j - 1)
    BY <1>1, <1>2, <2>3, ConstantsAssumption DEF Index
  <2>5. QED
    BY <2>2, <2>4
<1>5. taken = next
  BY <1>4
<1>6. received' = received \o next
  <2> HIDE DEF next
  <2>1. received' = received \o taken
    BY DEF CopyOut
  <2>2. QED
    BY <1>5, <2>1
<1>7. next \in Seq(Byte) /\ Len(next) = n
  <2>1. n \in Nat
    BY <1>1, <1>2
  <2>2. \A j \in 1..n : Len(received) + j \in Byte
    BY <1>1, <1>2, <1>3, ConstantsAssumption DEF Byte
  <2>3. next \in [1..n -> Byte]
    BY <2>2
  <2>4. next \in Seq(Byte)
    <3> HIDE DEF next, n
    <3> QED  BY <2>1, <2>3, SeqDef
  <2>5. Len(next) = n
    BY <2>1
  <2>6. QED
    BY <2>4, <2>5
<1>8. received \o next \in Seq(Byte) /\ Len(received \o next) = Len(received) + n
  <2> HIDE DEF next
  <2> QED  BY <1>1, <1>7, ConcatProperties
<1>9. QED
  BY <1>2, <1>6, <1>8

-----------------------------------------------------------------------------
(* The pipe keeps its invariant.                                           *)

\* Steps that leave the ring alone keep what is in it.
LEMMA RingUntouched ==
  ASSUME RingInv, UNCHANGED <<buffer, head, tail, size, sent, received>>
  PROVE  RingInv'
BY DEF RingInv, Slot

\* Notifications wake threads, they do nothing else to them.
LEMMA NotifyMoves ==
  ASSUME PipeTypeOK, NEW t \in Side, NEW step \in PipeSteps, NotifyOther(t, step)
  PROVE  /\ pc' \in [Side -> PipeSteps] /\ pc'[t] = step
         /\ \A u \in Side \ {t} : pc'[u] = pc[u] \/ (pc[u] = "asleep" /\ pc'[u] = "lock")
BY DEF PipeTypeOK, NotifyOther, PipeSteps

\* A write puts the bytes behind those that are there, around the end if need be.
LEMMA CopyInKeepsRing ==
  ASSUME PipeInv, CopyIn
  PROVE  /\ PipeTypeOK' /\ RingInv' /\ CallInv' /\ EmptiedInv'
<1> DEFINE n    == Least(left["writer"], Capacity - size)
           num1 == Least(n, Capacity - tail)
           num2 == n - num1
<1> USE ConstantsAssumption
<1>1. /\ size \in 0..Capacity - 1 /\ head \in Index /\ tail \in Index
      /\ left["writer"] \in 0..MaxCount /\ left \in [Side -> 0..MaxCount]
      /\ sent \in 0..MaxBytes /\ buffer \in [Index -> 0..MaxBytes]
      /\ sent + left["writer"] <= MaxBytes
  BY DEF PipeInv, PipeTypeOK, CallInv, CopyIn, CanWrite, Side
<1>2. /\ n \in 0..Capacity - size /\ n <= left["writer"] /\ num1 \in 0..n /\ num2 \in 0..n
      /\ num1 <= Capacity - tail /\ (num1 = n \/ num1 = Capacity - tail)
      /\ num2 = n - num1
  BY <1>1 DEF Least, Index
<1>3. /\ buffer' = [i \in Index |->
           IF tail <= i /\ i < tail + num1 THEN sent + 1 + (i - tail)
           ELSE IF i < num2 THEN sent + num1 + 1 + i
           ELSE buffer[i]]
      /\ tail' = Advance(tail, n) /\ size' = size + n /\ sent' = sent + n
      /\ left' = [left EXCEPT !["writer"] = @ - n]
      /\ NotifyOther("writer", IF left["writer"] = n THEN "out" ELSE "check")
      /\ mutex' = IF left["writer"] = n THEN "free" ELSE "writer"
      /\ UNCHANGED <<head, received, done, closing, closed, short, lost>>
      /\ pc["writer"] = "check"
  BY DEF CopyIn
<1> HIDE DEF n, num1, num2
<1>4. received \in Seq(Byte) /\ Len(received) \in Nat /\ sent = Len(received) + size
  BY LenProperties DEF PipeInv, PipeTypeOK, RingInv
<1>5. buffer' \in [Index -> 0..MaxBytes] /\ tail' \in Index /\ size' \in 0..Capacity
      /\ sent' \in 0..MaxBytes /\ left' \in [Side -> 0..MaxCount]
      /\ sent' + left'["writer"] <= MaxBytes
  <2>1. ASSUME NEW i \in Index PROVE buffer'[i] \in 0..MaxBytes
    BY <1>1, <1>2, <1>3 DEF Index
  <2>2. tail' \in Index
    BY <1>1, <1>2, <1>3, AdvanceValue
  <2>3. left' \in [Side -> 0..MaxCount] /\ left'["writer"] = left["writer"] - n
    BY <1>1, <1>2, <1>3 DEF Side
  <2>4. QED
    BY <1>1, <1>2, <1>3, <2>1, <2>2, <2>3
<1>6. /\ pc' \in [Side -> PipeSteps]
      /\ pc'["writer"] = IF left["writer"] = n THEN "out" ELSE "check"
      /\ pc'["reader"] = pc["reader"] \/ (pc["reader"] = "asleep" /\ pc'["reader"] = "lock")
  <2>1. (IF left["writer"] = n THEN "out" ELSE "check") \in PipeSteps
    BY DEF PipeSteps
  <2>2. QED
    BY <1>3, <2>1, NotifyMoves DEF Side, PipeInv
<1>7. mutex = "writer" /\ pc["reader"] \notin {"check", "drowsy", "copied"}
  BY <1>3 DEF PipeInv, PipeTypeOK, Side
<1>8. PipeTypeOK'
  <2>1. /\ head' \in Index /\ received' \in Seq(Byte) /\ done' \in BOOLEAN
        /\ short' \in BOOLEAN /\ lost' \in BOOLEAN /\ mutex' \in Side \cup {"free"}
        /\ closing' \subseteq closed' /\ closed' \subseteq Side
    BY <1>3 DEF PipeInv, PipeTypeOK, Side
  <2>2. \A t \in Side : pc'[t] \in {"check", "drowsy", "copied"} <=> mutex' = t
    BY <1>3, <1>6, <1>7 DEF Side
  <2>3. QED
    BY <1>5, <1>6, <2>1, <2>2 DEF PipeTypeOK
<1>9. RingInv'
  <2>1. sent' = Len(received') + size'
    BY <1>1, <1>2, <1>3, <1>4
  <2>2. tail = IF head + size < Capacity THEN head + size ELSE head + size - Capacity
    <3>1. tail = Advance(head, size) /\ size \in 0..Capacity
      BY <1>1 DEF PipeInv, RingInv, Slot
    <3>2. QED
      BY <1>1, <3>1, AdvanceValue
  <2>3. tail' = Advance(head, size + n)
    <3>1. tail' = IF tail + n < Capacity THEN tail + n ELSE tail + n - Capacity
      BY <1>1, <1>2, <1>3, AdvanceValue
    <3>2. Advance(head, size + n) =
            IF head + (size + n) < Capacity THEN head + (size + n)
                                            ELSE head + (size + n) - Capacity
      <4>1. size + n \in 0..Capacity
        BY <1>1, <1>2
      <4>2. QED
        BY <1>1, <4>1, AdvanceValue
    <3>3. QED
      BY <1>1, <1>2, <2>2, <3>1, <3>2 DEF Index
  <2>4. ASSUME NEW k \in 0..size' - 1
        PROVE  buffer'[Advance(head', k)] = Len(received') + 1 + k
    <3> SUFFICES buffer'[Advance(head, k)] = Len(received) + 1 + k
      BY <1>3
    <3>1. k \in 0..Capacity /\ k < size + n
      BY <1>1, <1>2, <1>3
    <3>2. /\ Advance(head, k) = IF head + k < Capacity THEN head + k ELSE head + k - Capacity
          /\ Advance(head, k) \in Index
      BY <1>1, <3>1, AdvanceValue
    <3>3. CASE k < size
      <4>1. buffer[Advance(head, k)] = Len(received) + 1 + k
        BY <1>1, <3>3 DEF PipeInv, RingInv, Slot
      <4>2. ~ (tail <= Advance(head, k) /\ Advance(head, k) < tail + num1)
            /\ ~ (Advance(head, k) < num2)
        BY <1>1, <1>2, <2>2, <3>2, <3>3 DEF Index
      <4>3. QED
        BY <1>3, <3>2, <4>1, <4>2
    <3>4. CASE k >= size
      <4>1. CASE k - size < num1
        <5>1. Advance(head, k) = tail + (k - size)
          BY <1>1, <1>2, <2>2, <3>2, <3>4, <4>1 DEF Index
        <5>2. buffer'[Advance(head, k)] = sent + 1 + (Advance(head, k) - tail)
          BY <1>1, <1>2, <1>3, <3>2, <3>4, <4>1, <5>1 DEF Index
        <5>3. QED
          BY <1>1, <1>4, <3>4, <5>1, <5>2 DEF Index
      <4>2. CASE k - size >= num1
        <5>1. Advance(head, k) = k - size - num1 /\ Advance(head, k) < num2
              /\ ~ (tail <= Advance(head, k) /\ Advance(head, k) < tail + num1)
          BY <1>1, <1>2, <2>2, <3>1, <3>2, <3>4, <4>2 DEF Index
        <5>2. buffer'[Advance(head, k)] = sent + num1 + 1 + Advance(head, k)
          BY <1>3, <3>2, <5>1
        <5>3. QED
          BY <1>1, <1>2, <1>4, <3>4, <5>1, <5>2
      <4>3. QED
        BY <1>1, <1>2, <3>4, <4>1, <4>2
    <3>5. QED
      BY <1>1, <3>3, <3>4
  <2>5. tail' = Advance(head', size')
    BY <1>3, <2>3
  <2>6. QED
    BY <2>1, <2>4, <2>5 DEF RingInv, Slot
<1>10. CallInv'
  BY <1>5, <1>6 DEF CallInv, PipeInv
<1>11. EmptiedInv'
  BY <1>6, <1>7 DEF EmptiedInv
<1>12. QED
  BY <1>8, <1>9, <1>10, <1>11

\* A read takes the oldest bytes away.
LEMMA CopyOutKeepsRing ==
  ASSUME PipeInv, CopyOut
  PROVE  PipeTypeOK' /\ RingInv' /\ CallInv' /\ EmptiedInv'
<1> USE ConstantsAssumption
<1>1. PICK n \in 0..size :
         /\ n = Least(left["reader"], size)
         /\ received' = received \o [j \in 1..n |-> Len(received) + j]
         /\ received' \in Seq(Byte)
         /\ Len(received') = Len(received) + n
  BY TakenInOrder
<1>2. /\ size \in 0..Capacity /\ head \in Index /\ tail \in Index
      /\ left \in [Side -> 0..MaxCount] /\ left["reader"] \in 0..MaxCount
      /\ sent \in 0..MaxBytes /\ buffer \in [Index -> 0..MaxBytes]
  BY DEF PipeInv, PipeTypeOK, Side
<1>3. /\ head' = Advance(head, n) /\ size' = size - n
      /\ left' = [left EXCEPT !["reader"] = @ - n]
      /\ NotifyOther("reader", "copied")
      /\ UNCHANGED <<buffer, tail, done, mutex, closing, closed, sent, short, lost>>
      /\ pc["reader"] = "check"
  BY <1>1 DEF CopyOut
<1>4. Len(received) \in Nat /\ sent = Len(received) + size
  BY LenProperties DEF PipeInv, PipeTypeOK, RingInv
<1>5. n <= left["reader"] /\ (n < left["reader"] => n = size)
  BY <1>1, <1>2 DEF Least
<1>6. /\ head' \in Index /\ size' \in 0..Capacity /\ left' \in [Side -> 0..MaxCount]
      /\ left'["reader"] = left["reader"] - n /\ left'["writer"] = left["writer"]
      /\ Advance(head, n) = IF head + n < Capacity THEN head + n ELSE head + n - Capacity
  <2>1. n \in 0..Capacity
    BY <1>1, <1>2
  <2>2. /\ head' \in Index
        /\ Advance(head, n) = IF head + n < Capacity THEN head + n ELSE head + n - Capacity
    BY <1>2, <1>3, <2>1, AdvanceValue
  <2>3. size' \in 0..Capacity
    BY <1>1, <1>2, <1>3
  <2>4. left' \in [Side -> 0..MaxCount] /\ left'["reader"] = left["reader"] - n
        /\ left'["writer"] = left["writer"]
    BY <1>1, <1>2, <1>3, <1>5 DEF Side
  <2>5. QED
    BY <2>2, <2>3, <2>4
<1>7. /\ pc' \in [Side -> PipeSteps] /\ pc'["reader"] = "copied"
      /\ pc'["writer"] = pc["writer"] \/ (pc["writer"] = "asleep" /\ pc'["writer"] = "lock")
  BY <1>3, NotifyMoves DEF Side, PipeSteps, PipeInv
<1>8. mutex = "reader" /\ pc["writer"] \notin {"check", "drowsy", "copied"}
  BY <1>3 DEF PipeInv, PipeTypeOK, Side
<1>9. PipeTypeOK'
  <2>1. /\ buffer' \in [Index -> 0..MaxBytes] /\ tail' \in Index /\ sent' \in 0..MaxBytes
        /\ done' \in BOOLEAN
        /\ short' \in BOOLEAN /\ lost' \in BOOLEAN /\ mutex' \in Side \cup {"free"}
        /\ closing' \subseteq closed' /\ closed' \subseteq Side
    BY <1>3 DEF PipeInv, PipeTypeOK, Side
  <2>2. \A t \in Side : pc'[t] \in {"check", "drowsy", "copied"} <=> mutex' = t
    BY <1>3, <1>7, <1>8 DEF Side
  <2>3. QED
    BY <1>1, <1>6, <1>7, <2>1, <2>2 DEF PipeTypeOK
<1>10. RingInv'
  <2>1. sent' = Len(received') + size'
    BY <1>1, <1>2, <1>3, <1>4
  <2>2. ASSUME NEW k \in 0..size - n
        PROVE  Advance(head', k) = Advance(head, n + k)
    <3>1. k \in 0..Capacity /\ n + k \in 0..Capacity
      BY <1>1, <1>2
    <3>2. Advance(head', k) = IF head' + k < Capacity THEN head' + k ELSE head' + k - Capacity
      BY <1>6, <3>1, AdvanceValue
    <3>3. Advance(head, n + k) = IF head + (n + k) < Capacity THEN head + (n + k)
                                                             ELSE head + (n + k) - Capacity
      BY <1>2, <3>1, AdvanceValue
    <3>4. head' = IF head + n < Capacity THEN head + n ELSE head + n - Capacity
      BY <1>3, <1>6
    <3>5. head \in 0..Capacity - 1 /\ n \in 0..Capacity /\ size - n \in 0..Capacity
      BY <1>1, <1>2 DEF Index
    <3>6. QED
      BY <3>1, <3>2, <3>3, <3>4, <3>5
  <2>3. tail' = Advance(head', size')
    <3>1. Advance(head', size - n) = Advance(head, size)
      <4>1. size - n \in 0..size - n /\ n + (size - n) = size
        BY <1>1, <1>2
      <4>2. QED
        BY <2>2, <4>1
    <3>2. tail = Advance(head, size)
      BY DEF PipeInv, RingInv, Slot
    <3>3. QED
      BY <1>3, <3>1, <3>2
  <2>4. ASSUME NEW k \in 0..size' - 1
        PROVE  buffer'[Advance(head', k)] = Len(received') + 1 + k
    <3>1. k \in 0..size - n /\ n + k \in 0..size - 1
      BY <1>1, <1>2, <1>3
    <3>2. buffer[Advance(head, n + k)] = Len(received) + 1 + (n + k)
      BY <3>1 DEF PipeInv, RingInv, Slot
    <3>3. Advance(head', k) = Advance(head, n + k)
      BY <2>2, <3>1
    <3>4. Len(received') + 1 + k = Len(received) + 1 + (n + k)
      BY <1>1, <1>2, <1>4, <3>1
    <3>5. QED
      BY <1>3, <3>2, <3>3, <3>4
  <2>5. QED
    BY <2>1, <2>3, <2>4 DEF RingInv, Slot
<1>11. CallInv'
  BY <1>3, <1>6, <1>7 DEF CallInv, PipeInv
<1>12. EmptiedInv'
  BY <1>1, <1>2, <1>3, <1>5, <1>6 DEF EmptiedInv
<1>13. QED
  BY <1>9, <1>10, <1>11, <1>12

\* Steps of side t that leave the ring alone keep the invariant, if they pay
\* attention to what the side has and holds.
LEMMA QuietStep ==
  ASSUME PipeInv,
         UNCHANGED <<buffer, head, tail, size, sent, received>>,
         pc' \in [Side -> PipeSteps], left' \in [Side -> 0..MaxCount],
         mutex' \in Side \cup {"free"},
         done' \in BOOLEAN, short' \in BOOLEAN, lost' \in BOOLEAN,
         closing' \subseteq closed', closed' \subseteq Side,
         \A t \in Side : pc'[t] \in {"check", "drowsy", "copied"} <=> mutex' = t,
         sent + left'["writer"] <= MaxBytes,
         pc'["writer"] # "copied", pc'["reader"] # "broken",
         pc'["reader"] = "copied" => pc["reader"] = "copied" /\ left'["reader"] = left["reader"]
  PROVE  PipeInv'
<1>1. RingInv'
  BY RingUntouched DEF PipeInv
<1>2. PipeTypeOK'
  BY DEF PipeInv, PipeTypeOK
<1>3. CallInv' /\ EmptiedInv'
  BY DEF PipeInv, CallInv, EmptiedInv
<1>4. QED
  BY <1>1, <1>2, <1>3 DEF PipeInv

\* Calling, waiting, sleeping and closing.
LEMMA QuietSteps ==
  ASSUME PipeInv, NEW t \in Side
  PROVE  /\ \A n \in 0..MaxCount :
              (t = "writer" => sent + n <= MaxBytes) /\ Call(t, n) => PipeInv'
         /\ Lock(t) \/ MustWait(t) \/ FallAsleep(t) \/ WakeSpuriously(t) => PipeInv'
         /\ SetDone(t) \/ NotifyClosed(t) => PipeInv'
<1> USE DEF Goto, ringVars, callVars, dataVars
<1>1. /\ pc \in [Side -> PipeSteps] /\ left \in [Side -> 0..MaxCount]
      /\ mutex \in Side \cup {"free"}
      /\ done \in BOOLEAN /\ short \in BOOLEAN /\ lost \in BOOLEAN
      /\ closing \subseteq closed /\ closed \subseteq Side
      /\ \A u \in Side : pc[u] \in {"check", "drowsy", "copied"} <=> mutex = u
      /\ sent + left["writer"] <= MaxBytes
      /\ pc["writer"] # "copied" /\ pc["reader"] # "broken"
  BY DEF PipeInv, PipeTypeOK, CallInv
<1>2. "writer" \in Side /\ "reader" \in Side /\ \A u \in Side : u = "writer" \/ u = "reader"
  BY DEF Side
<1>3. ASSUME NEW n \in 0..MaxCount, t = "writer" => sent + n <= MaxBytes, Call(t, n)
      PROVE  PipeInv'
  <2>1. /\ pc' = [pc EXCEPT ![t] = "lock"] /\ left' = [left EXCEPT ![t] = n]
        /\ pc[t] = "out"
        /\ UNCHANGED <<buffer, head, tail, size, sent, received, done, mutex, closing,
                       closed, short, lost>>
    BY <1>3 DEF Call
  <2>2. /\ pc' \in [Side -> PipeSteps] /\ left' \in [Side -> 0..MaxCount]
        /\ sent + left'["writer"] <= MaxBytes
    BY <1>1, <1>2, <1>3, <2>1 DEF PipeSteps
  <2>3. \A u \in Side : pc'[u] \in {"check", "drowsy", "copied"} <=> mutex' = u
    BY <1>1, <2>1
  <2>4. /\ pc'["writer"] # "copied" /\ pc'["reader"] # "broken"
        /\ pc'["reader"] = "copied" =>
             pc["reader"] = "copied" /\ left'["reader"] = left["reader"]
    <3>1. ASSUME pc'["reader"] = "copied"
          PROVE  left'["reader"] = left["reader"] /\ pc["reader"] = "copied"
      <4>1. mutex = "reader" /\ t # "reader"
        BY <1>1, <1>2, <2>1, <3>1
      <4>2. QED
        BY <1>1, <1>2, <2>1, <3>1, <4>1
    <3>2. QED
      BY <1>1, <1>2, <2>1, <3>1
  <2>5. QED
    BY <1>1, <2>1, <2>2, <2>3, <2>4, QuietStep
<1>4. CASE Lock(t)
  BY <1>1, <1>2, <1>4, QuietStep DEF Lock, PipeSteps
<1>5. CASE MustWait(t)
  BY <1>1, <1>2, <1>5, QuietStep DEF MustWait, PipeSteps
<1>6. CASE FallAsleep(t)
  BY <1>1, <1>2, <1>6, QuietStep DEF FallAsleep, PipeSteps
<1>7. CASE WakeSpuriously(t)
  BY <1>1, <1>2, <1>7, QuietStep DEF WakeSpuriously, PipeSteps
<1>8. CASE SetDone(t)
  BY <1>1, <1>2, <1>8, QuietStep DEF SetDone, PipeSteps
<1>9. CASE NotifyClosed(t)
  <2>1. pc' = [u \in Side |-> IF pc[u] = "asleep" THEN "lock" ELSE pc[u]]
    BY <1>9 DEF NotifyClosed
  <2>2. pc' \in [Side -> PipeSteps]
    BY <1>1, <2>1 DEF PipeSteps
  <2>3. QED
    BY <1>1, <1>2, <1>9, <2>1, <2>2, QuietStep DEF NotifyClosed
<1>10. QED
  BY <1>3, <1>4, <1>5, <1>6, <1>7, <1>8, <1>9

\* A closed pipe, and the end of a read.
LEMMA EndOfCall ==
  ASSUME PipeInv, Break \/ ReadMore
  PROVE  PipeInv'
<1> USE DEF Goto, ringVars, dataVars
<1>1. /\ pc \in [Side -> PipeSteps] /\ left \in [Side -> 0..MaxCount]
      /\ mutex \in Side \cup {"free"}
      /\ done \in BOOLEAN /\ short \in BOOLEAN /\ lost \in BOOLEAN
      /\ closing \subseteq closed /\ closed \subseteq Side
      /\ \A u \in Side : pc[u] \in {"check", "drowsy", "copied"} <=> mutex = u
      /\ sent \in 0..MaxBytes /\ sent + left["writer"] <= MaxBytes
      /\ pc["writer"] # "copied" /\ pc["reader"] # "broken"
  BY DEF PipeInv, PipeTypeOK, CallInv
<1>2. "writer" \in Side /\ "reader" \in Side /\ \A u \in Side : u = "writer" \/ u = "reader"
  BY DEF Side
<1>3. CASE Break
  <2>1. left' \in [Side -> 0..MaxCount] /\ sent + left'["writer"] <= MaxBytes
        /\ left'["reader"] = left["reader"]
    BY <1>1, <1>2, <1>3, ConstantsAssumption DEF Break
  <2>2. pc' = [pc EXCEPT !["writer"] = "broken"] /\ pc["writer"] = "check"
    BY <1>3 DEF Break
  <2>3. QED
    BY <1>1, <1>2, <1>3, <2>1, <2>2, QuietStep DEF Break, PipeSteps
<1>4. CASE ReadMore
  <2>1. left' \in [Side -> 0..MaxCount] /\ left'["writer"] = left["writer"]
    BY <1>1, <1>2, <1>4, ConstantsAssumption DEF ReadMore
  <2>2. short' \in BOOLEAN
    <3>1. short' = (left["reader"] > 0) \/ short' = short
      BY <1>4 DEF ReadMore
    <3>2. (left["reader"] > 0) \in BOOLEAN
      OBVIOUS
    <3>3. QED
      BY <1>1, <3>1, <3>2
  <2>3. /\ pc' \in [Side -> PipeSteps] /\ pc'["reader"] \in {"out", "check"}
        /\ pc'["writer"] = pc["writer"]
        /\ mutex' \in Side \cup {"free"}
        /\ \A u \in Side : pc'[u] \in {"check", "drowsy", "copied"} <=> mutex' = u
    BY <1>1, <1>2, <1>4 DEF ReadMore, PipeSteps
  <2>4. QED
    BY <1>1, <1>2, <1>4, <2>1, <2>2, <2>3, QuietStep DEF ReadMore
<1>5. QED
  BY <1>3, <1>4

\* Every step of the pipe keeps its invariant.
LEMMA PipeKeeps ==
  ASSUME PipeInv, [PipeNext]_pipeVars
  PROVE  PipeInv'
<1>1. CASE UNCHANGED pipeVars
  <2>1. PipeTypeOK' /\ RingInv' /\ CallInv' /\ EmptiedInv'
    BY <1>1, RingUntouched DEF pipeVars, PipeInv, PipeTypeOK, CallInv, EmptiedInv
  <2>2. QED
    BY <2>1 DEF PipeInv
<1>2. CASE PipeNext
  <2>1. PICK t \in Side :
          \/ Inside(t) \/ WakeSpuriously(t) \/ SetDone(t) \/ NotifyClosed(t)
          \/ \E n \in 0..MaxCount : (t = "writer" => sent + n <= MaxBytes) /\ Call(t, n)
    BY <1>2 DEF PipeNext
  <2>2. CASE CopyIn
    BY <2>2, CopyInKeepsRing DEF PipeInv
  <2>3. CASE CopyOut
    BY <2>3, CopyOutKeepsRing DEF PipeInv
  <2>4. CASE Break \/ ReadMore
    BY <2>4, EndOfCall
  <2>5. QED
    BY <2>1, <2>2, <2>3, <2>4, QuietSteps DEF Inside
<1>3. QED
  BY <1>1, <1>2

LEMMA PipeStarts == PipeInit => PipeInv
<1> SUFFICES ASSUME PipeInit PROVE PipeInv
  OBVIOUS
<1> USE ConstantsAssumption
<1>1. Advance(0, 0) = 0
  <2>1. 0 \in Index /\ 0 \in 0..Capacity
    BY DEF Index
  <2>2. QED
    BY <2>1, AdvanceValue
<1>2. received \in Seq(Byte) /\ Len(received) = 0
  BY DEF PipeInit
<1>3. PipeTypeOK
  BY <1>2 DEF PipeInit, PipeTypeOK, PipeSteps, Side, Index
<1>4. RingInv
  BY <1>1, <1>2 DEF PipeInit, RingInv, Slot
<1>5. CallInv /\ EmptiedInv
  BY DEF PipeInit, CallInv, EmptiedInv, Side
<1>6. QED
  BY <1>3, <1>4, <1>5 DEF PipeInv

-----------------------------------------------------------------------------
(* The stream uses the pipe as a pipe.                                     *)

\* Every step of main and of the worker is a step of the pipe, or none.
LEMMA StreamUsesPipe ==
  ASSUME reading \in BOOLEAN, [Next]_vars
  PROVE  [PipeNext]_pipeVars
<1> SUFFICES ASSUME Next, ~ UNCHANGED pipeVars PROVE PipeNext
  BY DEF vars
<1>1. MainSide \in Side /\ WorkerSide \in Side
      /\ (MainSide = "writer" <=> ~ reading) /\ (WorkerSide = "writer" <=> reading)
  BY DEF MainSide, WorkerSide, Side
<1>2. ChunkSize \in 0..MaxCount
  BY ConstantsAssumption, StreamAssumption
<1>3. ASSUME NEW n \in 1..MaxCount, MainCall(n) PROVE PipeNext
  <2>1. n \in 0..MaxCount
    BY ConstantsAssumption
  <2>2. QED
    BY <1>1, <1>3, <2>1 DEF MainCall, PipeNext
<1>4. CASE InPipe(MainSide)
  BY <1>1, <1>4 DEF InPipe, PipeNext
<1>5. CASE Destroy \/ DestroyNotify \/ Join
  BY <1>1, <1>5 DEF Destroy, DestroyNotify, Join, PipeNext
<1>6. CASE InPipe(WorkerSide)
  BY <1>1, <1>6 DEF InPipe, PipeNext
<1>7. ASSUME NEW n \in 0..MaxCount, WorkerWrite(n) PROVE PipeNext
  BY <1>7 DEF WorkerWrite, PipeNext, Side
<1>8. CASE WorkerRead
  BY <1>2, <1>8 DEF WorkerRead, PipeNext, Side
<1>9. CASE WorkerEnds \/ WorkerNotify
  BY <1>1, <1>9 DEF WorkerEnds, WorkerNotify, PipeNext
<1>10. CASE WorkerGotChunk \/ WorkerFinish \/ WorkerFails \/ WorkerSpins
  BY <1>10 DEF WorkerGotChunk, WorkerFinish, WorkerFails, WorkerSpins
<1>11. ASSUME NEW t \in Side, WakeSpuriously(t) PROVE PipeNext
  BY <1>11 DEF PipeNext
<1>12. QED
  BY <1>3, <1>4, <1>5, <1>6, <1>7, <1>8, <1>9, <1>10, <1>11 DEF Next, WorkerStep

\* Together: the invariant of the streams.
StreamInv == PipeInv /\ TypeOK /\ ReadingInv /\ WritingInv

\* The sides of the two threads.
LEMMA Sides ==
  ASSUME reading \in BOOLEAN
  PROVE  /\ reading => MainSide = "reader" /\ WorkerSide = "writer"
         /\ ~ reading => MainSide = "writer" /\ WorkerSide = "reader"
         /\ MainSide \in Side /\ WorkerSide \in Side
BY DEF MainSide, WorkerSide, Side

LEMMA TypeKeeps ==
  ASSUME StreamInv, Next
  PROVE  PipeInv' /\ TypeOK'
<1>1. PipeInv'
  BY StreamUsesPipe, PipeKeeps DEF StreamInv, TypeOK, vars
<1>2. Len(received) \in Nat
  BY LenProperties DEF StreamInv, TypeOK, PipeTypeOK
<1>3. PipeTypeOK'
  BY <1>1 DEF PipeInv
<1>4. TypeOK'
  <2> USE <1>2, <1>3 DEF StreamInv, TypeOK, streamVars
  <2>1. ASSUME NEW n \in 1..MaxCount, MainCall(n) PROVE TypeOK'
    BY <2>1 DEF MainCall
  <2>2. CASE InPipe(MainSide) \/ InPipe(WorkerSide)
    BY <2>2 DEF InPipe
  <2>3. CASE Destroy \/ DestroyNotify \/ Join
    BY <2>3 DEF Destroy, DestroyNotify, Join
  <2>4. ASSUME NEW n \in 0..MaxCount, WorkerWrite(n) PROVE TypeOK'
    BY <2>4 DEF WorkerWrite
  <2>5. CASE WorkerRead \/ WorkerGotChunk
    BY <2>5 DEF WorkerRead, WorkerGotChunk
  <2>6. CASE WorkerEnds \/ WorkerNotify \/ WorkerFinish \/ WorkerFails \/ WorkerSpins
    BY <2>6 DEF WorkerEnds, WorkerNotify, WorkerFinish, WorkerFails, WorkerSpins
  <2>7. ASSUME NEW t \in Side, WakeSpuriously(t), UNCHANGED streamVars PROVE TypeOK'
    BY <2>7
  <2>8. QED
    BY <2>1, <2>2, <2>3, <2>4, <2>5, <2>6, <2>7 DEF Next, WorkerStep
<1>5. QED
  BY <1>1, <1>4

\* How many bytes there are.
LEMMA Count ==
  ASSUME PipeInv
  PROVE  /\ Len(received) \in Nat /\ size \in 0..Capacity /\ sent \in 0..MaxBytes
         /\ sent = Len(received) + size
         /\ left["reader"] \in 0..MaxCount /\ left["writer"] \in 0..MaxCount
BY LenProperties DEF PipeInv, PipeTypeOK, RingInv, Side

\* A read takes what is wanted or what is there.
LEMMA CountTaken ==
  ASSUME PipeInv, CopyOut
  PROVE  /\ Len(received') \in Nat /\ Len(received') >= Len(received)
         /\ size = 0 => Len(received') = Len(received) /\ size' = 0
         /\ Len(received') = Len(received) /\ left["reader"] > 0 => size = 0
         /\ UNCHANGED <<done, sent, short, lost>>
<1>1. PICK n \in 0..size : n = Least(left["reader"], size) /\ Len(received') = Len(received) + n
  BY TakenInOrder
<1>2. size' = size - n
  BY <1>1 DEF CopyOut
<1>3. n = 0 /\ left["reader"] > 0 => size = 0
  BY <1>1, Count DEF Least
<1>4. QED
  BY <1>1, <1>2, <1>3, Count, ConstantsAssumption DEF CopyOut

LEMMA ReadingKeeps ==
  ASSUME StreamInv, Next
  PROVE  ReadingInv'
<1> SUFFICES ASSUME reading', main' = "open"
             PROVE  /\ done' => kind' = "good" /\ sent' = MaxBytes
                    /\ short' => kind' = "good" /\ Len(received') = MaxBytes
  BY DEF ReadingInv
<1> USE DEF streamVars, ringVars, callVars, dataVars, Goto
<1>1. /\ PipeInv /\ EmptiedInv /\ reading \in BOOLEAN /\ ConstantsAssumption
      /\ reading /\ main = "open" =>
           /\ done => kind = "good" /\ sent = MaxBytes
           /\ short => kind = "good" /\ Len(received) = MaxBytes
  BY ConstantsAssumption DEF StreamInv, PipeInv, TypeOK, ReadingInv
<1> DEFINE Same == UNCHANGED <<reading, kind, main, done, short, sent, received>>
<1>2. CASE Same
  BY <1>1, <1>2
<1>3. ASSUME NEW n \in 1..MaxCount, MainCall(n) PROVE Same
  BY <1>3 DEF MainCall, Call
<1>4. CASE InPipe(MainSide) \/ InPipe(WorkerSide)
  <2>1. PICK t \in Side : InPipe(t)
    BY <1>1, <1>4, Sides
  <2>2. UNCHANGED <<reading, kind, main>>
    BY <2>1 DEF InPipe
  <2>3. CASE Lock(t) \/ MustWait(t) \/ FallAsleep(t) \/ Break
    BY <1>2, <2>2, <2>3 DEF Lock, MustWait, FallAsleep, Break
  <2>4. CASE CopyIn
    <3>1. ~ done /\ UNCHANGED <<done, short, received>>
      BY <2>4 DEF CopyIn
    <3>2. QED
      BY <1>1, <2>2, <3>1
  <2>5. CASE CopyOut
    <3>1. short => size = 0
      BY <1>1, <2>2, Count, ConstantsAssumption
    <3>2. QED
      BY <1>1, <2>2, <2>5, <3>1, CountTaken
  <2>6. CASE ReadMore
    <3>1. UNCHANGED <<done, sent, received>> /\ pc["reader"] = "copied"
      BY <2>6 DEF ReadMore
    <3>2. CASE short' = short
      BY <1>1, <2>2, <3>1, <3>2
    <3>3. CASE short' = (left["reader"] > 0) /\ (left["reader"] = 0 \/ done)
      <4>1. short' => done /\ size = 0
        <5>1. short' => left["reader"] > 0
          BY <3>3
        <5>2. left["reader"] > 0 => left["reader"] # 0
          BY <1>1, Count
        <5>3. QED
          BY <1>1, <3>1, <3>3, <5>1, <5>2 DEF EmptiedInv
      <4>2. short' => Len(received) = sent
        BY <1>1, <4>1, Count
      <4>3. QED
        BY <1>1, <2>2, <3>1, <4>1, <4>2
    <3>4. QED
      BY <2>6, <3>2, <3>3 DEF ReadMore
  <2>7. QED
    BY <2>1, <2>3, <2>4, <2>5, <2>6 DEF InPipe, Inside
<1>5. CASE Destroy \/ DestroyNotify \/ Join
  BY <1>5 DEF Destroy, DestroyNotify, Join
<1>6. ASSUME NEW n \in 0..MaxCount, WorkerWrite(n) PROVE Same
  BY <1>6 DEF WorkerWrite, Call
<1>7. CASE WorkerRead \/ WorkerGotChunk
  BY <1>2, <1>7 DEF WorkerRead, WorkerGotChunk, Call, pipeVars
<1>8. CASE WorkerEnds
  BY <1>1, <1>8 DEF WorkerEnds, SetDone
<1>9. CASE WorkerNotify \/ WorkerFinish \/ WorkerFails \/ WorkerSpins
  BY <1>2, <1>9 DEF WorkerNotify, NotifyClosed, WorkerFinish, WorkerFails, WorkerSpins, pipeVars
<1>10. ASSUME NEW t \in Side, WakeSpuriously(t), UNCHANGED streamVars PROVE Same
  BY <1>10 DEF WakeSpuriously
<1>11. QED
  BY <1>2, <1>3, <1>4, <1>5, <1>6, <1>7, <1>8, <1>9, <1>10 DEF Next, WorkerStep

\* The steps that leave alone what the worker has seen of main's bytes.
LEMMA WritingSame ==
  ASSUME StreamInv,
         UNCHANGED <<reading, before, done, main, asked, received, size, left>>,
         worker' \in {"notify", "finish"} \/ state' = "successful" =>
           worker \in {"notify", "finish"} \/ state = "successful",
         ~ reading /\ Returned("writer") => pc'["writer"] = pc["writer"],
         ~ reading => pc'["reader"] = pc["reader"] \/ pc'["reader"] \notin {"copied", "out"},
         ~ reading /\ pc'["reader"] \in {"lock", "check", "drowsy", "asleep"} =>
           pc["reader"] \in {"lock", "check", "drowsy", "asleep"}
  PROVE  WritingInv'
BY DEF StreamInv, WritingInv, Returned

LEMMA WritingKeeps ==
  ASSUME StreamInv, Next
  PROVE  WritingInv'
<1> SUFFICES ASSUME ~ reading'
             PROVE  WritingInv'
  BY DEF WritingInv
<1> USE DEF streamVars, ringVars, callVars, dataVars, Goto
<1>1. /\ PipeInv /\ reading \in BOOLEAN
      /\ ConstantsAssumption /\ StreamAssumption
      /\ pc \in [Side -> PipeSteps] /\ "writer" \in Side /\ "reader" \in Side
      /\ left \in [Side -> 0..MaxCount]
      /\ pc["writer"] \in {"check", "drowsy", "copied"} <=> mutex = "writer"
      /\ pc["reader"] \in {"check", "drowsy", "copied"} <=> mutex = "reader"
  BY ConstantsAssumption, StreamAssumption DEF StreamInv, PipeInv, TypeOK, PipeTypeOK, Side
<1>2. ~ reading /\ MainSide = "writer" /\ WorkerSide = "reader" /\ UNCHANGED <<reading, kind>>
  <2>1. UNCHANGED <<reading, kind>>
    BY DEF Next, MainCall, InPipe, Destroy, DestroyNotify, Join, WorkerStep, WorkerWrite,
       WorkerRead, WorkerGotChunk, WorkerEnds, WorkerNotify, WorkerFinish, WorkerFails,
       WorkerSpins
  <2>2. QED
    BY <1>1, <2>1, Sides
<1>3. ASSUME NEW n \in 1..MaxCount, MainCall(n) PROVE WritingInv'
  <2>1. main = "open" /\ UNCHANGED <<reading, before, done, main, asked, received, size,
                                     worker, state>>
        /\ pc'["reader"] = pc["reader"] /\ left'["reader"] = left["reader"]
    BY <1>1, <1>2, <1>3 DEF MainCall, Call
  <2>2. QED
    BY <1>2, <2>1 DEF StreamInv, WritingInv
<1>4. ASSUME NEW t \in Side, Lock(t), UNCHANGED streamVars PROVE WritingInv'
  <2>1. t = "reader" => left["reader"] # 0
    BY <1>1, <1>2, <1>4, Count DEF StreamInv, WritingInv, Lock
  <2>2. UNCHANGED <<reading, before, done, main, asked, received, size, left, worker, state>>
    BY <1>4 DEF Lock
  <2>3. pc[t] = "lock" /\ pc' = [pc EXCEPT ![t] = pc'[t]]
        /\ (t = "reader" => pc'[t] = "check")
    BY <1>1, <1>4, <2>1 DEF Lock
  <2>4. QED
    BY <1>1, <1>2, <2>2, <2>3, WritingSame DEF Returned, Side
<1>5. ASSUME NEW t \in Side, MustWait(t) \/ FallAsleep(t) \/ WakeSpuriously(t),
             UNCHANGED streamVars
      PROVE  WritingInv'
  <2>1. UNCHANGED <<reading, before, done, main, asked, received, size, left, worker, state>>
    BY <1>5 DEF MustWait, FallAsleep, WakeSpuriously
  <2>2. pc[t] \in {"check", "drowsy", "asleep"} /\ pc'[t] \in {"drowsy", "asleep", "lock"}
        /\ pc' = [pc EXCEPT ![t] = pc'[t]]
    BY <1>1, <1>5 DEF MustWait, FallAsleep, WakeSpuriously
  <2>3. QED
    BY <1>1, <1>2, <2>1, <2>2, WritingSame DEF Returned, Side
<1>6. ASSUME CopyIn, UNCHANGED streamVars PROVE WritingInv'
  <2>1. /\ pc["writer"] = "check" /\ ~ done /\ UNCHANGED <<done, received>>
        /\ left'["reader"] = left["reader"]
        /\ NotifyOther("writer", IF left["writer"] =
                                      Least(left["writer"], Capacity - size)
                                 THEN "out" ELSE "check")
    BY <1>1, <1>6 DEF CopyIn
  <2>2. pc'["reader"] = pc["reader"] \/ (pc["reader"] = "asleep" /\ pc'["reader"] = "lock")
    BY <1>1, <2>1 DEF NotifyOther, Side
  <2>3. main = "open"
    BY <1>2, <2>1 DEF StreamInv, WritingInv, Returned
  <2>4. pc'["reader"] # "copied"
    BY <1>1, <2>1, <2>2
  <2>5. QED
    BY <1>2, <1>6, <2>1, <2>2, <2>3, <2>4 DEF StreamInv, WritingInv
<1>7. ASSUME CopyOut, UNCHANGED streamVars PROVE WritingInv'
  <2>1. /\ pc["reader"] = "check" /\ (done \/ size > 0) /\ NotifyOther("reader", "copied")
    BY <1>7 DEF CopyOut, CanRead
  <2>2. /\ pc'["reader"] = "copied"
        /\ Returned("writer") => pc'["writer"] = pc["writer"]
    BY <1>1, <2>1 DEF NotifyOther, Returned, Side
  <2>3. left["reader"] > 0
    BY <1>2, <2>1 DEF StreamInv, WritingInv
  <2>4. before <= Len(received) /\ before \in Nat
    BY <1>2 DEF StreamInv, WritingInv, TypeOK
  <2>5. before <= Len(received')
    BY <1>1, <1>7, <2>4, Count, CountTaken
  <2>6. Len(received') = before => Len(received') = Len(received)
    BY <1>1, <1>7, <2>4, Count, CountTaken
  <2>7. Len(received') = before => done /\ size' = 0
    BY <1>1, <1>7, <2>1, <2>3, <2>6, CountTaken
  <2>8. done' = done /\ (size = 0 => size' = 0)
    BY <1>1, <1>7, CountTaken
  <2>9. QED
    BY <1>2, <1>7, <2>2, <2>5, <2>7, <2>8 DEF StreamInv, WritingInv, Returned
<1>8. ASSUME Break, UNCHANGED streamVars PROVE WritingInv'
  <2>1. /\ UNCHANGED <<done, received, size>> /\ left'["reader"] = left["reader"]
        /\ pc'["reader"] = pc["reader"] /\ pc'["writer"] = "broken"
    BY <1>1, <1>8 DEF Break
  <2>2. QED
    BY <1>2, <1>8, <2>1 DEF StreamInv, WritingInv, Returned
<1>9. ASSUME ReadMore, UNCHANGED streamVars PROVE WritingInv'
  <2>1. /\ pc["reader"] = "copied" /\ UNCHANGED <<done, received, size>>
        /\ pc'["writer"] = pc["writer"]
        /\ pc'["reader"] = "out" \/ (pc'["reader"] = "check" /\ left'["reader"] > 0)
    BY <1>1, <1>9, Count DEF ReadMore
  <2>2. QED
    BY <1>2, <1>9, <2>1 DEF StreamInv, WritingInv, Returned
<1>10. CASE Destroy
  <2>1. /\ Returned("writer") /\ done' /\ main' = "notify"
        /\ UNCHANGED <<before, asked, received, size, worker, state, pc, left>>
    BY <1>2, <1>10 DEF Destroy, SetDone
  <2>2. QED
    BY <1>2, <2>1 DEF StreamInv, WritingInv, Returned
<1>11. ASSUME NEW t \in Side, NotifyClosed(t)
       PROVE  /\ UNCHANGED <<done, received, size, left>>
              /\ Returned("writer") => pc'["writer"] = pc["writer"]
              /\ pc'["reader"] = pc["reader"]
                   \/ (pc["reader"] = "asleep" /\ pc'["reader"] = "lock")
  BY <1>1, <1>11 DEF NotifyClosed, Returned
<1>12. CASE DestroyNotify
  <2>1. main # "open" /\ main' # "open" /\ UNCHANGED <<before, asked, worker, state>>
        /\ NotifyClosed("writer")
    BY <1>2, <1>12 DEF DestroyNotify
  <2>2. QED
    BY <1>1, <1>2, <1>11, <2>1 DEF StreamInv, WritingInv, Returned
<1>13. CASE Join
  <2>1. main = "join" /\ main' = "gone"
        /\ UNCHANGED <<pc, left, done, received, size, before, asked, worker, state>>
    BY <1>13 DEF Join, pipeVars
  <2>2. QED
    BY <1>2, <2>1 DEF StreamInv, WritingInv, Returned
<1>14. CASE WorkerRead
  <2>1. /\ asked' /\ before' = Len(received)
        /\ UNCHANGED <<main, worker, state, done, received, size>>
        /\ pc'["reader"] = "lock" /\ pc'["writer"] = pc["writer"]
        /\ left'["reader"] = ChunkSize
    BY <1>1, <1>14 DEF WorkerRead, Call
  <2>2. ChunkSize > 0 /\ Len(received) \in Nat
    BY <1>1, Count DEF StreamAssumption
  <2>3. QED
    BY <1>2, <2>1, <2>2 DEF StreamInv, WritingInv, Returned
<1>15. CASE WorkerGotChunk
  <2>1. ~ asked'
        /\ UNCHANGED <<main, worker, state, before, done, received, size, pc, left>>
    BY <1>15 DEF WorkerGotChunk, pipeVars
  <2>2. QED
    BY <1>2, <2>1 DEF StreamInv, WritingInv, Returned
<1>16. CASE WorkerEnds
  <2>1. /\ asked /\ Len(received) = before /\ pc["reader"] = "out" /\ done'
        /\ UNCHANGED <<main, state, before, asked, received, size, pc, left>>
    BY <1>2, <1>16 DEF WorkerEnds, Working, SetDone
  <2>2. done /\ size = 0
    BY <1>2, <2>1 DEF StreamInv, WritingInv
  <2>3. QED
    BY <1>2, <2>1, <2>2 DEF StreamInv, WritingInv, Returned
<1>17. CASE WorkerNotify
  <2>1. worker = "notify" /\ NotifyClosed("reader") /\ UNCHANGED <<main, before, asked, state>>
    BY <1>2, <1>17 DEF WorkerNotify
  <2>2. QED
    BY <1>1, <1>2, <1>11, <2>1 DEF StreamInv, WritingInv, Returned
<1>18. CASE WorkerFinish \/ WorkerFails \/ WorkerSpins
  <2>1. UNCHANGED <<main, before, asked, done, received, size, pc, left>>
    BY <1>18 DEF WorkerFinish, WorkerFails, WorkerSpins, pipeVars
  <2>2. worker' \in {"notify", "finish"} \/ state' = "successful" =>
          worker \in {"notify", "finish"} \/ state = "successful"
    BY <1>18 DEF WorkerFinish, WorkerFails, WorkerSpins
  <2>3. QED
    BY <1>2, <2>1, <2>2 DEF StreamInv, WritingInv, Returned
<1>19. \A n \in 0..MaxCount : ~ WorkerWrite(n)
  BY <1>2 DEF WorkerWrite
<1>20. \A t \in Side : InPipe(t) => WritingInv'
  BY <1>4, <1>5, <1>6, <1>7, <1>8, <1>9 DEF InPipe, Inside
<1>21. InPipe(MainSide) \/ InPipe(WorkerSide) => WritingInv'
  BY <1>1, <1>2, <1>20
<1>22. QED
  BY <1>3, <1>5, <1>10, <1>12, <1>13, <1>14, <1>15, <1>16, <1>17, <1>18, <1>19, <1>21
  DEF Next, WorkerStep

LEMMA StreamInvariant == Spec => []StreamInv
<1>1. Init => StreamInv
  <2> SUFFICES ASSUME Init PROVE StreamInv
    OBVIOUS
  <2>1. PipeInv
    BY PipeStarts DEF Init
  <2>2. TypeOK
    BY <2>1 DEF Init, TypeOK, PipeInv
  <2>3. ReadingInv /\ WritingInv
    BY DEF Init, PipeInit, ReadingInv, WritingInv, Side, Returned
  <2>4. QED
    BY <2>1, <2>2, <2>3 DEF StreamInv
<1>2. StreamInv /\ UNCHANGED vars => StreamInv'
  <2> SUFFICES ASSUME StreamInv, UNCHANGED vars PROVE StreamInv'
    OBVIOUS
  <2>1. UNCHANGED pipeVars /\ UNCHANGED streamVars
    BY DEF vars
  <2>2. PipeInv'
    BY <2>1, PipeKeeps DEF StreamInv
  <2>3. TypeOK'
    BY <2>1, <2>2 DEF StreamInv, TypeOK, PipeInv, streamVars
  <2>4. ReadingInv' /\ WritingInv'
    BY <2>1 DEF StreamInv, ReadingInv, WritingInv, Returned, pipeVars, streamVars
  <2>5. QED
    BY <2>2, <2>3, <2>4 DEF StreamInv
<1>3. StreamInv /\ [Next]_vars => StreamInv'
  BY <1>2, TypeKeeps, ReadingKeeps, WritingKeeps DEF StreamInv
<1>4. QED
  BY <1>1, <1>3, PTL DEF Spec

-----------------------------------------------------------------------------
(* The theorems.                                                           *)

\* Every variable of the pipe and of the stream stays in its range, and exactly
\* the side that is in the critical section owns the mutex.
THEOREM TypeCorrect == Spec => []TypeOK
<1>1. StreamInv => TypeOK
  BY DEF StreamInv
<1>2. QED
  BY <1>1, StreamInvariant, PTL

\* Nothing is cut off unnoticed: a clean end of the data is the whole file,
\* and a file that was written without an error is complete.
THEOREM NothingTruncatedTheorem == Spec => []NothingTruncated
<1>1. StreamInv => NothingTruncated
  <2> SUFFICES ASSUME StreamInv PROVE NothingTruncated
    OBVIOUS
  <2>1. reading /\ main = "open" /\ short => kind = "good" /\ Len(received) = MaxBytes
    BY DEF StreamInv, ReadingInv
  <2>2. ~ reading /\ state = "successful" => Len(received) = sent
    BY Count DEF StreamInv, WritingInv
  <2>3. QED
    BY <2>1, <2>2 DEF NothingTruncated
<1>2. QED
  BY <1>1, StreamInvariant, PTL

\* The pipe between the two threads of a stream is a byte channel: the bytes
\* come out in the order in which they went in, none is lost or made up, never
\* more than Capacity are under way, and none goes in once it is closed.
THEOREM ChannelTheorem == Spec => ChannelSpec
<1>1. Init => Channel!Init
  BY DEF Init, PipeInit, Channel!Init
<1>2. ASSUME StreamInv, [Next]_vars
      PROVE  [Channel!Next]_(Channel!channelVars)
  <2> USE DEF ringVars, callVars, dataVars
  <2> SUFFICES ASSUME ~ UNCHANGED <<sent, received, done>>
               PROVE  Channel!Next
    BY DEF Channel!channelVars
  <2>1. PipeInv /\ Len(received) \in Nat /\ size \in 0..Capacity
        /\ sent = Len(received) + size /\ sent \in 0..MaxBytes
    BY <1>2, Count DEF StreamInv
  <2>2. PipeNext
    BY <1>2, StreamUsesPipe DEF StreamInv, TypeOK, pipeVars
  <2>3. CASE CopyIn
    <3> DEFINE n == Least(left["writer"], Capacity - size)
    <3>1. ~ done /\ size < Capacity /\ sent' = sent + n /\ UNCHANGED <<received, done>>
      BY <2>3 DEF CopyIn, CanWrite
    <3>2. n \in 0..Capacity - size
      BY <2>1, <3>1, Count, ConstantsAssumption DEF Least
    <3>3. n # 0
      BY <2>1, <3>1
    <3>4. n \in 1..Capacity /\ Channel!UnderWay + n <= Capacity
      BY <2>1, <3>2, <3>3, ConstantsAssumption DEF Channel!UnderWay
    <3>5. Channel!Send(n)
      BY <3>1, <3>4 DEF Channel!Send
    <3>6. QED
      BY <3>4, <3>5 DEF Channel!Next
  <2>4. CASE CopyOut
    <3>1. PICK n \in 0..size :
            /\ received' = received \o [j \in 1..n |-> Len(received) + j]
            /\ Len(received') = Len(received) + n
      BY <2>1, <2>4, TakenInOrder
    <3>2. UNCHANGED <<sent, done>>
      BY <2>4 DEF CopyOut
    <3>3. n # 0
      <4>1. SUFFICES ASSUME n = 0 PROVE received' = received
        BY <3>2
      <4>2. received \in Seq(Byte)
        BY <2>1 DEF PipeInv, PipeTypeOK
      <4>3. [j \in 1..0 |-> Len(received) + j] = <<>>
        OBVIOUS
      <4>4. QED
        BY <3>1, <4>1, <4>2, <4>3, ConcatEmptySeq
    <3>4. n \in 1..Capacity /\ n <= Channel!UnderWay
      BY <2>1, <3>3, ConstantsAssumption DEF Channel!UnderWay
    <3>5. Channel!Receive(n)
      BY <3>1, <3>2, <3>4 DEF Channel!Receive
    <3>6. QED
      BY <3>4, <3>5 DEF Channel!Next
  <2>5. ASSUME NEW t \in Side, SetDone(t) PROVE Channel!Close
    BY <2>5 DEF SetDone, Channel!Close
  <2>6. ASSUME NEW t \in Side,
               \/ Lock(t) \/ MustWait(t) \/ FallAsleep(t) \/ WakeSpuriously(t)
               \/ NotifyClosed(t) \/ Break \/ ReadMore
               \/ \E n \in 0..MaxCount : Call(t, n)
        PROVE  UNCHANGED <<sent, received, done>>
    BY <2>6 DEF Lock, MustWait, FallAsleep, WakeSpuriously, NotifyClosed, Break, ReadMore, Call
  <2>7. QED
    BY <2>2, <2>3, <2>4, <2>5, <2>6 DEF PipeNext, Inside, Channel!Next
<1>3. QED
  BY <1>1, <1>2, StreamInvariant, PTL DEF Spec, ChannelSpec, Channel!Spec

=============================================================================
