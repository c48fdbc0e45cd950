----------------------- MODULE FileSystemWatcherProofs -----------------------
(* Proofs about the file system watcher, for every set of subscribers and    *)
(* every size of the kernel's queue.                                         *)
EXTENDS FileSystemWatcher, SequenceTheorems, TLAPS

\* The places of the threads agree.
PlaceInv ==
  /\ owner = "stopped" => notifier = "ended" /\ watcher = "ended"
  /\ done => owner \in {"notify", "join", "stopped"}
  /\ watcher # "handle" => batch = <<>>
  /\ notifier # "deliver" => notifications = <<>> /\ visited = {}
  /\ notifier = "deliver" => notifications # <<>>

\* Why the notify thread sleeps.
WakeInv ==
  /\ notifier = "drowsy" => pending = <<>>
  /\ notifier = "asleep" /\ pending # <<>> => watcher = "handle"
  /\ notifier = "asleep" /\ done => lost \/ owner = "notify"

\* The events of s follow those up to n, none left out.
Follows(s, n) == \A i \in 1..Len(s) : s[i] = n + i

\* The last event before those in the queue, in the batch, in the pending list
\* and among those that are being delivered.
BeforeQueue == happened - Len(queue)
BeforeBatch == BeforeQueue - Len(batch)
BeforePending == BeforeBatch - Len(pending)
Delivered == BeforePending - Len(notifications)

\* What is on its way is in order.
OrderInv ==
  ~ dropped =>
    /\ Follows(queue, BeforeQueue) /\ Follows(batch, BeforeBatch)
    /\ Follows(pending, BeforePending) /\ Follows(notifications, Delivered)

\* The last event that c has got, if any, and the one before its first.
Last(c) == IF c \in visited THEN Delivered + 1 ELSE Delivered
BeforeFirst(c) == Last(c) - Len(log[c])

\* What each subscriber has got is in order and ends where the rest begins.
LogInv ==
  ~ torn /\ ~ dropped =>
    \A c \in callbacks : Follows(log[c], BeforeFirst(c)) /\ BeforeFirst(c) <= since[c]

IInv == TypeOK /\ PlaceInv /\ WakeInv /\ OrderInv /\ LogInv
-----------------------------------------------------------------------------
LEMMA AppendFollows ==
  ASSUME NEW s \in Seq(Event), NEW n \in Int, NEW e \in Event,
         Follows(s, n), e = n + Len(s) + 1
  PROVE  Follows(Append(s, e), n)
BY AppendProperties, LenProperties DEF Follows, Event

LEMMA TailFollows ==
  ASSUME NEW s \in Seq(Event), s # <<>>, NEW n \in Int, Follows(s, n)
  PROVE  /\ Head(s) = n + 1
         /\ Follows(Tail(s), n + 1)
<1>1. Len(s) \in Nat \ {0} /\ Head(s) = s[1]
  BY EmptySeq
<1>2. \A i \in 1..Len(Tail(s)) : Tail(s)[i] = s[i + 1] /\ i + 1 \in 1..Len(s)
  BY <1>1, HeadTailProperties
<1>3. QED
  BY <1>1, <1>2 DEF Follows

LEMMA SplitFollows ==
  ASSUME NEW s \in Seq(Event), NEW m \in 1..Len(s), NEW n \in Int, Follows(s, n)
  PROVE  /\ SubSeq(s, 1, m) \in Seq(Event) /\ Len(SubSeq(s, 1, m)) = m
         /\ SubSeq(s, m + 1, Len(s)) \in Seq(Event)
         /\ Len(SubSeq(s, m + 1, Len(s))) = Len(s) - m
         /\ Follows(SubSeq(s, 1, m), n) /\ Follows(SubSeq(s, m + 1, Len(s)), n + m)
<1>1. Len(s) \in Nat /\ \A i \in 1..Len(s) : s[i] \in Event
  BY LenProperties, ElementOfSeq
<1>2. /\ SubSeq(s, 1, m) \in Seq(Event) /\ Len(SubSeq(s, 1, m)) = m
      /\ \A i \in 1..m : SubSeq(s, 1, m)[i] = s[1 + i - 1]
  BY <1>1, SubSeqProperties
<1>3. /\ SubSeq(s, m + 1, Len(s)) \in Seq(Event)
      /\ Len(SubSeq(s, m + 1, Len(s))) = Len(s) - m
      /\ \A i \in 1..Len(s) - m : SubSeq(s, m + 1, Len(s))[i] = s[m + 1 + i - 1]
  BY <1>1, SubSeqProperties
<1>4. QED
  BY <1>1, <1>2, <1>3 DEF Follows

\* Without the events, the same of the two halves of a sequence.
LEMMA Split ==
  ASSUME NEW s \in Seq(Event), NEW m \in 1..Len(s)
  PROVE  /\ SubSeq(s, 1, m) \in Seq(Event)
         /\ SubSeq(s, m + 1, Len(s)) \in Seq(Event)
         /\ Len(SubSeq(s, m + 1, Len(s))) = Len(s) - m
<1>1. Len(s) \in Nat /\ \A i \in 1..Len(s) : s[i] \in Event
  BY LenProperties, ElementOfSeq
<1>2. QED
  BY <1>1, SubSeqProperties

LEMMA FollowsIsRun ==
  ASSUME NEW s \in Seq(Event), NEW n \in Int, Follows(s, n)
  PROVE  s = [i \in 1..Len(s) |-> (n + 1) + i - 1]
<1>1. s \in [1..Len(s) -> Event] /\ Len(s) \in Nat
  BY LenProperties
<1>2. \A i \in 1..Len(s) : s[i] = (n + 1) + i - 1
  BY <1>1 DEF Follows
<1>3. QED
  BY <1>1, <1>2

LEMMA LastOne ==
  ASSUME NEW s \in Seq(Event), s # <<>>
  PROVE  Tail(s) = <<>> <=> Len(s) = 1
<1>1. Len(s) \in Nat \ {0} /\ Len(Tail(s)) = Len(s) - 1
  BY EmptySeq, HeadTailProperties
<1>2. ASSUME Len(s) = 1 PROVE Tail(s) = <<>>
  <2>1. SubSeq(s, 2, 1) = <<>>
    BY SubSeqEmpty
  <2>2. Tail(s) = SubSeq(s, 2, 1)
    BY <1>2, TailIsSubSeq, Zenon
  <2>3. QED
    BY <2>1, <2>2, Zenon
<1>3. ASSUME Tail(s) = <<>> PROVE Len(s) = 1
  <2>1. Len(<<>>) = 0
    BY EmptySeq
  <2>2. Len(s) - 1 = 0
    BY <1>1, <1>3, <2>1, Zenon
  <2>3. Len(s) \in Nat
    BY LenProperties
  <2>4. QED
    BY <2>2, <2>3
<1>4. QED
  BY <1>2, <1>3
-----------------------------------------------------------------------------
\* Every step of the kernel and of the watch thread keeps the types.
LEMMA WatcherKeepsTypes ==
  ASSUME TypeOK, PlaceInv, Change \/ WatchStep \/ WatcherFails
  PROVE  TypeOK'
<1> USE DEF kernelVars, watcherVars, notifierVars, ownerVars, subscriberVars
<1>1. CASE Change
  <2>1. Len(queue) < QueueLimit =>
          /\ Append(queue, happened + 1) \in Seq(Event)
          /\ Len(Append(queue, happened + 1)) = Len(queue) + 1
    BY <1>1, AppendProperties, ConstantsAssumption DEF Change, TypeOK, Event
  <2>2. Len(queue) \in Nat
    BY LenProperties DEF TypeOK
  <2>3. /\ queue' \in Seq(Event) /\ Len(queue') <= QueueLimit /\ dropped' \in BOOLEAN
    <3>1. CASE Len(queue) < QueueLimit
      <4>1. queue' = Append(queue, happened + 1) /\ dropped' = dropped
        BY <1>1, <3>1 DEF Change
      <4>2. queue' \in Seq(Event) /\ Len(queue') = Len(queue) + 1
        BY <2>1, <3>1, <4>1
      <4>3. QED
        BY <2>2, <3>1, <4>1, <4>2, ConstantsAssumption DEF TypeOK
    <3>2. CASE ~ (Len(queue) < QueueLimit)
      BY <1>1, <3>2 DEF Change, TypeOK
    <3>3. QED
      BY <3>1, <3>2
  <2>4. happened' \in 0..MaxEvents
    BY <1>1, ConstantsAssumption DEF Change, TypeOK
  <2>5. QED
    BY <1>1, <2>3, <2>4 DEF Change, TypeOK
<1>2. ASSUME NEW n \in 1..QueueLimit, ReadEvents(n) PROVE TypeOK'
  <2>1. n \in 1..Len(queue) /\ Len(queue) \in Nat
    BY <1>2, LenProperties DEF ReadEvents, TypeOK
  <2>2. batch' \in Seq(Event) /\ queue' \in Seq(Event) /\ Len(queue') <= QueueLimit
    BY <1>2, <2>1, Split, ConstantsAssumption DEF ReadEvents, TypeOK
  <2>3. QED
    BY <1>2, <2>2 DEF ReadEvents, TypeOK
<1>3. CASE WatcherCancelled
  BY <1>3 DEF WatcherCancelled, TypeOK
<1>4. CASE Push
  <2>1. Head(batch) \in Event /\ Tail(batch) \in Seq(Event)
    BY <1>4, HeadTailProperties DEF Push, TypeOK
  <2>2. Append(pending, Head(batch)) \in Seq(Event)
    BY <2>1, AppendProperties DEF TypeOK
  <2>3. QED
    BY <1>4, <2>1, <2>2 DEF Push, TypeOK
<1>5. CASE NotifyPushed
  BY <1>5 DEF NotifyPushed, Wake, TypeOK
<1>6. CASE WatcherFails
  BY <1>6 DEF WatcherFails, TypeOK
<1>7. QED
  BY <1>1, <1>2, <1>3, <1>4, <1>5, <1>6 DEF WatchStep

\* So does every step of the notify thread.
LEMMA NotifierKeepsTypes ==
  ASSUME TypeOK, PlaceInv, NotifyStep \/ WakeSpuriously
  PROVE  TypeOK'
<1> USE DEF kernelVars, watcherVars, ownerVars, subscriberVars
<1>1. CASE TestDone
  BY <1>1 DEF TestDone, TypeOK
<1>2. CASE LockNotifyMutex
  BY <1>2 DEF LockNotifyMutex, TypeOK
<1>3. CASE MustWait
  BY <1>3 DEF MustWait, TypeOK
<1>4. CASE FallAsleep
  <2>1. lost' \in BOOLEAN
    BY <1>4 DEF FallAsleep, TypeOK
  <2>2. QED
    BY <1>4, <2>1 DEF FallAsleep, TypeOK
<1>5. CASE TakePending
  <2>1. <<>> \in Seq(Event)
    BY EmptySeq
  <2>2. QED
    BY <1>5, <2>1 DEF TakePending, StartDelivery, TypeOK
<1>6. ASSUME NEW c \in Subscriber, OnChange(c) PROVE TypeOK'
  <2>1. Head(notifications) \in Event
    BY <1>6, HeadTailProperties DEF OnChange, PlaceInv, TypeOK
  <2>2. Append(log[c], Head(notifications)) \in Seq(Event)
    BY <2>1, AppendProperties DEF TypeOK
  <2>3. QED
    BY <1>6, <2>2 DEF OnChange, TypeOK
<1>7. CASE NextEvent
  <2>1. Tail(notifications) \in Seq(Event)
    BY <1>7, HeadTailProperties DEF NextEvent, PlaceInv, TypeOK
  <2>2. QED
    BY <1>7, <2>1 DEF NextEvent, TypeOK
<1>8. CASE WakeSpuriously
  BY <1>8 DEF WakeSpuriously, TypeOK
<1>9. QED
  BY <1>1, <1>2, <1>3, <1>4, <1>5, <1>6, <1>7, <1>8 DEF NotifyStep

\* And so do the owner and the subscribers.
LEMMA OthersKeepTypes ==
  ASSUME TypeOK, PlaceInv,
         \/ Start \/ Stop \/ StopStep
         \/ \E c \in Subscriber : Subscribe(c) \/ Unsubscribe(c)
  PROVE  TypeOK'
<1> USE DEF kernelVars, watcherVars, notifierVars, ownerVars, subscriberVars
<1>1. CASE Start
  <2>1. starts' \in 0..MaxStarts
    BY <1>1, ConstantsAssumption DEF Start, TypeOK
  <2>2. mutex' = "free" /\ notifier' = "loop"
    BY <1>1 DEF Start, TypeOK, PlaceInv
  <2>3. QED
    BY <1>1, <2>1, <2>2 DEF Start, TypeOK
<1>2. CASE Stop
  BY <1>2 DEF Stop, TypeOK
<1>3. CASE SetDone
  BY <1>3 DEF SetDone, TypeOK
<1>4. CASE NotifyDone
  BY <1>4 DEF NotifyDone, Wake, TypeOK
<1>5. CASE Join
  BY <1>5 DEF Join, TypeOK
<1>6. ASSUME NEW c \in Subscriber, Subscribe(c) \/ Unsubscribe(c) PROVE TypeOK'
  <2>1. torn' \in BOOLEAN
    BY <1>6 DEF Subscribe, Unsubscribe, TypeOK
  <2>2. <<>> \in Seq(Event) /\ 0 \in 0..MaxEvents
    BY EmptySeq, ConstantsAssumption
  <2>3. since' \in [Subscriber -> 0..MaxEvents] /\ log' \in [Subscriber -> Seq(Event)]
    <3>1. /\ since' = [since EXCEPT ![c] = happened] \/ since' = [since EXCEPT ![c] = 0]
          /\ log' = [log EXCEPT ![c] = <<>>]
      BY <1>6 DEF Subscribe, Unsubscribe
    <3>2. /\ happened \in 0..MaxEvents /\ since \in [Subscriber -> 0..MaxEvents]
          /\ log \in [Subscriber -> Seq(Event)]
      BY DEF TypeOK
    <3>3. QED
      BY <2>2, <3>1, <3>2
  <2>4. callbacks' \subseteq Subscriber
    BY <1>6 DEF Subscribe, Unsubscribe, TypeOK
  <2>5. QED
    BY <1>6, <2>1, <2>3, <2>4 DEF Subscribe, Unsubscribe, TypeOK
<1>7. QED
  BY <1>1, <1>2, <1>3, <1>4, <1>5, <1>6 DEF StopStep
-----------------------------------------------------------------------------
(* The places of the threads, and why the notify thread sleeps.               *)

\* Steps of the kernel and of the watch thread.
LEMMA WatcherKeepsPlaces ==
  ASSUME TypeOK, PlaceInv, WakeInv, Change \/ WatchStep \/ WatcherFails
  PROVE  PlaceInv' /\ WakeInv'
<1> USE DEF kernelVars, watcherVars, notifierVars, ownerVars, subscriberVars,
            PlaceInv, WakeInv
<1>1. CASE Change
  BY <1>1 DEF Change
<1>2. ASSUME NEW n \in 1..QueueLimit, ReadEvents(n) PROVE PlaceInv' /\ WakeInv'
  BY <1>2 DEF ReadEvents
<1>3. CASE WatcherCancelled
  BY <1>3 DEF WatcherCancelled
<1>4. CASE Push
  <2>1. notifier # "drowsy"
    BY <1>4 DEF Push, TypeOK
  <2>2. QED
    BY <1>4, <2>1 DEF Push
<1>5. CASE NotifyPushed
  BY <1>5 DEF NotifyPushed, Wake
<1>6. CASE WatcherFails
  BY <1>6 DEF WatcherFails
<1>7. QED
  BY <1>1, <1>2, <1>3, <1>4, <1>5, <1>6 DEF WatchStep

\* Steps of the notify thread.
LEMMA NotifierKeepsPlaces ==
  ASSUME TypeOK, PlaceInv, WakeInv, NotifyStep \/ WakeSpuriously
  PROVE  PlaceInv' /\ WakeInv'
<1> USE DEF kernelVars, watcherVars, ownerVars, subscriberVars, PlaceInv, WakeInv
<1>1. CASE TestDone
  BY <1>1 DEF TestDone
<1>2. CASE LockNotifyMutex
  BY <1>2 DEF LockNotifyMutex
<1>3. CASE MustWait
  BY <1>3 DEF MustWait, SomethingToDo
<1>4. CASE FallAsleep
  BY <1>4 DEF FallAsleep
<1>5. CASE TakePending
  BY <1>5 DEF TakePending, StartDelivery
<1>6. ASSUME NEW c \in Subscriber, OnChange(c) PROVE PlaceInv' /\ WakeInv'
  BY <1>6 DEF OnChange
<1>7. CASE NextEvent
  <2>1. notifications \in Seq(Event) /\ notifications # <<>>
    BY <1>7 DEF NextEvent, TypeOK
  <2>2. Tail(notifications) = <<>> <=> Len(notifications) = 1
    BY <2>1, LastOne
  <2>3. QED
    BY <1>7, <2>2 DEF NextEvent
<1>8. CASE WakeSpuriously
  BY <1>8 DEF WakeSpuriously
<1>9. QED
  BY <1>1, <1>2, <1>3, <1>4, <1>5, <1>6, <1>7, <1>8 DEF NotifyStep

\* Steps of the owner and of the subscribers.
LEMMA OthersKeepPlaces ==
  ASSUME TypeOK, PlaceInv, WakeInv,
         \/ Start \/ Stop \/ StopStep
         \/ \E c \in Subscriber : Subscribe(c) \/ Unsubscribe(c)
  PROVE  PlaceInv' /\ WakeInv'
<1> USE DEF kernelVars, watcherVars, notifierVars, ownerVars, subscriberVars,
            PlaceInv, WakeInv
<1>1. CASE Start
  BY <1>1 DEF Start
<1>2. CASE Stop
  BY <1>2 DEF Stop
<1>3. CASE SetDone
  BY <1>3 DEF SetDone
<1>4. CASE NotifyDone
  BY <1>4 DEF NotifyDone, Wake
<1>5. CASE Join
  BY <1>5 DEF Join
<1>6. ASSUME NEW c \in Subscriber, Subscribe(c) \/ Unsubscribe(c)
      PROVE  PlaceInv' /\ WakeInv'
  BY <1>6 DEF Subscribe, Unsubscribe
<1>7. QED
  BY <1>1, <1>2, <1>3, <1>4, <1>5, <1>6 DEF StopStep
-----------------------------------------------------------------------------
(* The order of the events.                                                   *)

\* The lengths add up.
LEMMA Lengths ==
  ASSUME TypeOK
  PROVE  /\ happened \in Int /\ Len(queue) \in Nat /\ Len(batch) \in Nat
         /\ Len(pending) \in Nat /\ Len(notifications) \in Nat
         /\ \A c \in Subscriber : since[c] \in Int /\ log[c] \in Seq(Event) /\ Len(log[c]) \in Nat
         /\ BeforeQueue \in Int /\ BeforeBatch \in Int /\ BeforePending \in Int
         /\ Delivered \in Int /\ Delivered <= happened
         /\ \A c \in Subscriber : Last(c) \in Int /\ BeforeFirst(c) \in Int
<1>1. /\ happened \in Int /\ Len(queue) \in Nat /\ Len(batch) \in Nat
      /\ Len(pending) \in Nat /\ Len(notifications) \in Nat
      /\ \A c \in Subscriber : since[c] \in Int /\ log[c] \in Seq(Event) /\ Len(log[c]) \in Nat
  BY LenProperties DEF TypeOK
<1>2. /\ BeforeQueue \in Int /\ BeforeBatch \in Int /\ BeforePending \in Int
      /\ Delivered \in Int /\ Delivered <= happened
  BY <1>1 DEF BeforeQueue, BeforeBatch, BeforePending, Delivered
<1>3. \A c \in Subscriber : Last(c) \in Int
  BY <1>2 DEF Last
<1>4. \A c \in Subscriber : BeforeFirst(c) \in Int
  BY <1>1, <1>3 DEF BeforeFirst
<1>5. QED
  BY <1>1, <1>2, <1>3, <1>4

\* A step that changes nothing of what is in order, or of what counts.
LEMMA NothingMoves ==
  ASSUME TypeOK, OrderInv, LogInv,
         UNCHANGED <<happened, queue, batch, pending, notifications, visited, log, since,
                     callbacks, torn, dropped>>
  PROVE  OrderInv' /\ LogInv'
<1>1. /\ BeforeQueue' = BeforeQueue /\ BeforeBatch' = BeforeBatch
      /\ BeforePending' = BeforePending /\ Delivered' = Delivered
  BY DEF BeforeQueue, BeforeBatch, BeforePending, Delivered
<1>2. OrderInv'
  BY <1>1 DEF OrderInv, Follows
<1>3. LogInv'
  BY <1>1 DEF LogInv, Follows, Last, BeforeFirst
<1>4. QED
  BY <1>2, <1>3

\* A step that hands events on, with nothing delivered.
LEMMA NobodyGets ==
  ASSUME LogInv, Delivered' = Delivered,
         UNCHANGED <<visited, log, since, callbacks, torn>>, dropped \in BOOLEAN,
         ~ dropped' => ~ dropped
  PROVE  LogInv'
BY DEF LogInv, Follows, Last, BeforeFirst

LEMMA WatcherKeepsOrder ==
  ASSUME TypeOK, PlaceInv, OrderInv, LogInv, Change \/ WatchStep \/ WatcherFails
  PROVE  OrderInv' /\ LogInv'
<1>0. /\ happened \in Int /\ Len(queue) \in Nat /\ Len(batch) \in Nat
      /\ Len(pending) \in Nat /\ Len(notifications) \in Nat
      /\ BeforeQueue \in Int /\ BeforeBatch \in Int /\ BeforePending \in Int
  BY Lengths
<1> USE DEF kernelVars, watcherVars, notifierVars, ownerVars, subscriberVars
<1>1. CASE Change
  <2>1. UNCHANGED <<batch, pending, notifications, visited, log, since, callbacks, torn>>
    BY <1>1 DEF Change
  <2>2. CASE Len(queue) < QueueLimit
    <3>1. /\ queue' = Append(queue, happened + 1) /\ dropped' = dropped
          /\ happened' = happened + 1 /\ happened + 1 \in Event
      BY <1>1, <2>2, ConstantsAssumption DEF Change, TypeOK, Event
    <3>2. queue \in Seq(Event)
      BY DEF TypeOK
    <3>3. Len(queue') = Len(queue) + 1
      BY <3>1, <3>2, AppendProperties
    <3>4. /\ BeforeQueue' = BeforeQueue /\ BeforeBatch' = BeforeBatch
          /\ BeforePending' = BeforePending /\ Delivered' = Delivered
      BY <1>0, <2>1, <3>1, <3>3 DEF BeforeQueue, BeforeBatch, BeforePending, Delivered
    <3>5. happened + 1 = BeforeQueue + Len(queue) + 1
      BY <1>0 DEF BeforeQueue
    <3>6. ~ dropped => Follows(queue', BeforeQueue)
      BY <1>0, <3>1, <3>2, <3>5, AppendFollows DEF OrderInv
    <3>7. dropped' = dropped
      BY <3>1
    <3>8. OrderInv'
      BY <2>1, <3>4, <3>6, <3>7 DEF OrderInv, Follows
    <3>9. QED
      BY <2>1, <3>4, <3>7, <3>8, NobodyGets DEF TypeOK
  <2>3. CASE ~ (Len(queue) < QueueLimit)
    <3>1. dropped' = TRUE
      BY <1>1, <2>3 DEF Change
    <3>2. QED
      BY <3>1 DEF OrderInv, LogInv
  <2>4. QED
    BY <2>2, <2>3
<1>2. ASSUME NEW n \in 1..QueueLimit, ReadEvents(n) PROVE OrderInv' /\ LogInv'
  <2>1. /\ n \in 1..Len(queue) /\ queue \in Seq(Event) /\ batch = <<>> /\ Len(batch) = 0
        /\ batch' = SubSeq(queue, 1, n) /\ queue' = SubSeq(queue, n + 1, Len(queue))
        /\ UNCHANGED <<happened, dropped, pending, notifications, visited, log, since,
                       callbacks, torn>>
    BY <1>2, EmptySeq DEF ReadEvents, TypeOK, PlaceInv
  <2>2. Len(batch') = n /\ Len(queue') = Len(queue) - n
    <3>1. /\ Len(queue) \in Nat /\ n \in Int
          /\ \A i \in 1..Len(queue) : queue[i] \in Event
      BY <2>1, ElementOfSeq
    <3>2. QED
      BY <2>1, <3>1, SubSeqProperties
  <2>3. /\ BeforeQueue' = BeforeQueue + n /\ BeforeBatch' = BeforeQueue
        /\ BeforeBatch' = BeforeBatch
        /\ BeforePending' = BeforePending /\ Delivered' = Delivered
    <3>1. /\ n \in Int /\ Len(batch) = 0
          /\ UNCHANGED <<happened, pending, notifications>>
      BY <2>1
    <3>2. QED
      BY <1>0, <2>2, <3>1 DEF BeforeQueue, BeforeBatch, BeforePending, Delivered
  <2>4. ~ dropped => Follows(batch', BeforeQueue) /\ Follows(queue', BeforeQueue + n)
    BY <1>0, <2>1, SplitFollows DEF OrderInv
  <2>5. UNCHANGED <<dropped, pending, notifications, visited, log, since, callbacks, torn>>
    BY <2>1
  <2>6. OrderInv'
    BY <2>3, <2>4, <2>5 DEF OrderInv, Follows
  <2>7. QED
    BY <2>3, <2>5, <2>6, NobodyGets DEF TypeOK
<1>3. CASE WatcherCancelled
  BY <1>3, NothingMoves DEF WatcherCancelled
<1>4. CASE Push
  <2>1. /\ batch # <<>> /\ batch \in Seq(Event) /\ pending \in Seq(Event)
        /\ batch' = Tail(batch) /\ pending' = Append(pending, Head(batch))
        /\ UNCHANGED <<happened, dropped, queue, notifications, visited, log, since,
                       callbacks, torn>>
    BY <1>4 DEF Push, TypeOK
  <2>2. Head(batch) \in Event /\ Len(batch') = Len(batch) - 1
    BY <2>1, HeadTailProperties
  <2>3. Len(pending') = Len(pending) + 1
    BY <2>1, <2>2, AppendProperties
  <2>4. /\ BeforeQueue' = BeforeQueue /\ BeforeBatch' = BeforeBatch + 1
        /\ BeforePending' = BeforePending /\ Delivered' = Delivered
    BY <1>0, <2>1, <2>2, <2>3 DEF BeforeQueue, BeforeBatch, BeforePending, Delivered
  <2>5. ~ dropped => Head(batch) = BeforeBatch + 1 /\ Follows(batch', BeforeBatch + 1)
    BY <1>0, <2>1, TailFollows DEF OrderInv
  <2>6. BeforeBatch + 1 = BeforePending + Len(pending) + 1
    BY <1>0 DEF BeforePending
  <2>7. ~ dropped => Follows(pending', BeforePending)
    BY <1>0, <2>1, <2>2, <2>5, <2>6, AppendFollows DEF OrderInv
  <2>8. UNCHANGED <<dropped, queue, notifications, visited, log, since, callbacks, torn>>
    BY <2>1
  <2>9. OrderInv'
    BY <2>4, <2>5, <2>7, <2>8 DEF OrderInv, Follows
  <2>10. QED
    BY <2>4, <2>8, <2>9, NobodyGets DEF TypeOK
<1>5. CASE NotifyPushed
  BY <1>5, NothingMoves DEF NotifyPushed
<1>6. CASE WatcherFails
  BY <1>6, NothingMoves DEF WatcherFails
<1>7. QED
  BY <1>1, <1>2, <1>3, <1>4, <1>5, <1>6 DEF WatchStep
LEMMA NotifierKeepsOrder ==
  ASSUME TypeOK, PlaceInv, OrderInv, LogInv, NotifyStep \/ WakeSpuriously
  PROVE  OrderInv' /\ LogInv'
<1> USE DEF kernelVars, watcherVars, ownerVars, subscriberVars
<1>0. /\ happened \in Int /\ Len(queue) \in Nat /\ Len(batch) \in Nat
      /\ Len(pending) \in Nat /\ Len(notifications) \in Nat
      /\ BeforeQueue \in Int /\ BeforeBatch \in Int /\ BeforePending \in Int
      /\ Delivered \in Int /\ \A c \in Subscriber : BeforeFirst(c) \in Int /\ Last(c) \in Int
      /\ \A c \in Subscriber : log[c] \in Seq(Event) /\ Len(log[c]) \in Nat
  BY Lengths
<1>1. CASE TestDone \/ LockNotifyMutex \/ MustWait \/ FallAsleep \/ WakeSpuriously
  <2>1. UNCHANGED <<happened, queue, batch, pending, notifications, visited, log, since,
                    callbacks, torn, dropped>>
    BY <1>1 DEF TestDone, LockNotifyMutex, MustWait, FallAsleep, WakeSpuriously
  <2>2. QED
    BY <2>1, NothingMoves
<1>2. CASE TakePending
  <2>1. /\ notifications = <<>> /\ notifications' = pending /\ pending' = <<>>
        /\ UNCHANGED <<happened, dropped, queue, batch, visited, log, since, callbacks,
                       torn>>
    BY <1>2 DEF TakePending, PlaceInv
  <2>2. Len(notifications) = 0 /\ Len(pending') = 0
    BY <2>1, EmptySeq
  <2>3. Len(notifications') = Len(pending)
    BY <2>1
  <2>4. /\ BeforeQueue' = BeforeQueue /\ BeforeBatch' = BeforeBatch
        /\ BeforePending' = BeforeBatch /\ Delivered' = BeforePending
        /\ Delivered' = Delivered
    BY <1>0, <2>1, <2>2, <2>3 DEF BeforeQueue, BeforeBatch, BeforePending, Delivered
  <2>5. Follows(pending', BeforePending')
    BY <2>2 DEF Follows
  <2>6. OrderInv'
    BY <2>1, <2>4, <2>5 DEF OrderInv, Follows
  <2>7. QED
    BY <2>1, <2>4, <2>6, NobodyGets DEF TypeOK
<1>3. ASSUME NEW c \in Subscriber, OnChange(c) PROVE OrderInv' /\ LogInv'
  <2>1. /\ notifications # <<>> /\ notifications \in Seq(Event)
        /\ c \notin visited /\ c \in callbacks /\ visited' = visited \cup {c}
        /\ log' = [log EXCEPT ![c] = Append(@, Head(notifications))]
        /\ UNCHANGED <<happened, dropped, queue, batch, pending, notifications, since,
                       callbacks, torn>>
    BY <1>3 DEF OnChange, PlaceInv, TypeOK
  <2>2. /\ BeforeQueue' = BeforeQueue /\ BeforeBatch' = BeforeBatch
        /\ BeforePending' = BeforePending /\ Delivered' = Delivered
    BY <2>1 DEF BeforeQueue, BeforeBatch, BeforePending, Delivered
  <2>3. OrderInv'
    BY <2>1, <2>2 DEF OrderInv, Follows
  <2>4. ASSUME ~ torn, ~ dropped
        PROVE  Follows(log'[c], BeforeFirst(c)') /\ BeforeFirst(c)' <= since'[c]
    <3>1. Head(notifications) = Delivered + 1 /\ Head(notifications) \in Event
      BY <1>0, <2>1, <2>4, TailFollows, HeadTailProperties DEF OrderInv
    <3>2. Follows(log[c], BeforeFirst(c)) /\ BeforeFirst(c) <= since[c]
      BY <2>1, <2>4 DEF LogInv
    <3>3. log'[c] = Append(log[c], Head(notifications))
      BY <2>1 DEF TypeOK
    <3>4. BeforeFirst(c) = Delivered - Len(log[c])
      BY <2>1 DEF BeforeFirst, Last
    <3>5. Follows(log'[c], BeforeFirst(c)) /\ Len(log'[c]) = Len(log[c]) + 1
      <4>1. Head(notifications) = BeforeFirst(c) + Len(log[c]) + 1
        BY <1>0, <3>1, <3>4
      <4>2. QED
        BY <1>0, <3>1, <3>2, <3>3, <4>1, AppendFollows, AppendProperties
    <3>6. BeforeFirst(c)' = BeforeFirst(c)
      <4>1. BeforeFirst(c)' = (Delivered + 1) - Len(log'[c])
        <5>1. c \in visited' /\ Delivered' = Delivered
          BY <2>1, <2>2
        <5>2. Last(c)' = Delivered + 1
          BY <5>1 DEF Last
        <5>3. QED
          BY <5>2 DEF BeforeFirst
      <4>2. Delivered \in Int /\ Len(log[c]) \in Nat /\ Len(log'[c]) = Len(log[c]) + 1
        BY <1>0, <3>5
      <4>3. QED
        BY <3>4, <4>1, <4>2
    <3>7. QED
      BY <2>1, <3>2, <3>5, <3>6
  <2>5. ASSUME ~ torn, ~ dropped, NEW d \in callbacks, d # c
        PROVE  Follows(log'[d], BeforeFirst(d)') /\ BeforeFirst(d)' <= since'[d]
    <3>1. log'[d] = log[d] /\ BeforeFirst(d)' = BeforeFirst(d)
      BY <2>1, <2>2, <2>5 DEF BeforeFirst, Last, TypeOK
    <3>2. QED
      BY <2>1, <2>5, <3>1 DEF LogInv
  <2>6. LogInv'
    BY <2>1, <2>4, <2>5 DEF LogInv
  <2>7. QED
    BY <2>3, <2>6
<1>4. CASE NextEvent
  <2>1. /\ notifications # <<>> /\ notifications \in Seq(Event)
        /\ callbacks \subseteq visited /\ callbacks \subseteq Subscriber
        /\ notifications' = Tail(notifications) /\ visited' = {}
        /\ UNCHANGED <<happened, dropped, queue, batch, pending, log, since, callbacks,
                       torn>>
    BY <1>4 DEF NextEvent, PlaceInv, TypeOK
  <2>2. Len(notifications') = Len(notifications) - 1
    BY <2>1, HeadTailProperties
  <2>3. /\ BeforeQueue' = BeforeQueue /\ BeforeBatch' = BeforeBatch
        /\ BeforePending' = BeforePending /\ Delivered' = Delivered + 1
    BY <1>0, <2>1, <2>2 DEF BeforeQueue, BeforeBatch, BeforePending, Delivered
  <2>4. ~ dropped => Follows(notifications', Delivered + 1)
    BY <1>0, <2>1, TailFollows DEF OrderInv
  <2>5. UNCHANGED <<dropped, queue, batch, pending>>
    BY <2>1
  <2>6. OrderInv'
    BY <2>3, <2>4, <2>5 DEF OrderInv, Follows
  <2>7. UNCHANGED <<dropped, torn, callbacks, since, log>> /\ visited' = {}
        /\ callbacks \subseteq visited
    BY <2>1
  <2>8. \A c \in callbacks : BeforeFirst(c)' = BeforeFirst(c)
    BY <2>3, <2>7 DEF BeforeFirst, Last
  <2>9. LogInv'
    BY <2>7, <2>8 DEF LogInv, Follows
  <2>10. QED
    BY <2>6, <2>9
<1>5. QED
  BY <1>1, <1>2, <1>3, <1>4 DEF NotifyStep

LEMMA OthersKeepOrder ==
  ASSUME TypeOK, PlaceInv, OrderInv, LogInv,
         \/ Start \/ Stop \/ StopStep
         \/ \E c \in Subscriber : Subscribe(c) \/ Unsubscribe(c)
  PROVE  OrderInv' /\ LogInv'
<1> USE DEF kernelVars, watcherVars, notifierVars, ownerVars, subscriberVars
<1>1. CASE Start \/ Stop \/ StopStep
  <2>1. UNCHANGED <<happened, queue, batch, pending, notifications, visited, log, since,
                    callbacks, torn, dropped>>
    BY <1>1 DEF Start, Stop, StopStep, SetDone, NotifyDone, Join
  <2>2. QED
    BY <2>1, NothingMoves
<1>2. ASSUME NEW c \in Subscriber, Subscribe(c) \/ Unsubscribe(c)
      PROVE  OrderInv' /\ LogInv'
  <2>1. UNCHANGED <<happened, queue, batch, pending, notifications, visited, dropped>>
    BY <1>2 DEF Subscribe, Unsubscribe
  <2>2. /\ BeforeQueue' = BeforeQueue /\ BeforeBatch' = BeforeBatch
        /\ BeforePending' = BeforePending /\ Delivered' = Delivered
    BY <2>1 DEF BeforeQueue, BeforeBatch, BeforePending, Delivered
  <2>3. OrderInv'
    BY <2>1, <2>2 DEF OrderInv, Follows
  <2>4. ASSUME ~ torn', ~ dropped', NEW d \in callbacks'
        PROVE  Follows(log'[d], BeforeFirst(d)') /\ BeforeFirst(d)' <= since'[d]
    <3>1. ~ torn /\ visited = {} /\ log' = [log EXCEPT ![c] = <<>>]
      BY <1>2, <2>4 DEF Subscribe, Unsubscribe, Traversing, PlaceInv
    <3>2. CASE d = c
      <4>1. since' = [since EXCEPT ![c] = happened]
        BY <1>2, <2>4, <3>2 DEF Subscribe, Unsubscribe
      <4>2. since'[d] = happened /\ log'[d] = <<>> /\ Len(log'[d]) = 0
        BY <3>1, <3>2, <4>1, EmptySeq DEF TypeOK
      <4>3. BeforeFirst(d)' = Delivered
        BY <2>1, <2>2, <3>1, <4>2, Lengths DEF BeforeFirst, Last
      <4>4. QED
        BY <4>2, <4>3, Lengths DEF Follows
    <3>3. CASE d # c
      <4>1. log'[d] = log[d] /\ since'[d] = since[d] /\ d \in callbacks
        BY <1>2, <2>4, <3>1, <3>3 DEF Subscribe, Unsubscribe, TypeOK
      <4>2. BeforeFirst(d)' = BeforeFirst(d)
        BY <2>1, <2>2, <4>1 DEF BeforeFirst, Last
      <4>3. QED
        BY <2>1, <2>4, <3>1, <4>1, <4>2 DEF LogInv
    <3>4. QED
      BY <3>2, <3>3
  <2>5. LogInv'
    BY <2>4 DEF LogInv
  <2>6. QED
    BY <2>3, <2>5
<1>3. QED
  BY <1>1, <1>2
-----------------------------------------------------------------------------
LEMMA Starts == Init => IInv
<1> SUFFICES ASSUME Init PROVE IInv
  OBVIOUS
<1>1. <<>> \in Seq(Event) /\ Len(<<>>) = 0 /\ 0 \in 0..MaxEvents /\ 0 \in 0..MaxStarts
  BY EmptySeq, ConstantsAssumption
<1>2. TypeOK
  <2>1. since \in [Subscriber -> 0..MaxEvents] /\ log \in [Subscriber -> Seq(Event)]
    BY <1>1 DEF Init
  <2>2. /\ queue \in Seq(Event) /\ batch \in Seq(Event) /\ pending \in Seq(Event)
        /\ notifications \in Seq(Event) /\ Len(queue) <= QueueLimit
    BY <1>1, ConstantsAssumption DEF Init
  <2>3. QED
    BY <1>1, <2>1, <2>2 DEF Init, TypeOK
<1>3. PlaceInv /\ WakeInv
  BY DEF Init, PlaceInv, WakeInv
<1>4. OrderInv /\ LogInv
  BY <1>1 DEF Init, OrderInv, LogInv, Follows
<1>5. QED
  BY <1>2, <1>3, <1>4 DEF IInv

LEMMA Keeps == IInv /\ [Next]_vars => IInv'
<1> SUFFICES ASSUME IInv, [Next]_vars PROVE IInv'
  OBVIOUS
<1> USE DEF IInv
<1>1. CASE Change \/ WatchStep \/ WatcherFails
  BY <1>1, WatcherKeepsTypes, WatcherKeepsPlaces, WatcherKeepsOrder
<1>2. CASE NotifyStep \/ WakeSpuriously
  BY <1>2, NotifierKeepsTypes, NotifierKeepsPlaces, NotifierKeepsOrder
<1>3. CASE \/ Start \/ Stop \/ StopStep
           \/ \E c \in Subscriber : Subscribe(c) \/ Unsubscribe(c)
  BY <1>3, OthersKeepTypes, OthersKeepPlaces, OthersKeepOrder
<1>4. CASE UNCHANGED vars
  <2>1. TypeOK' /\ PlaceInv' /\ WakeInv'
    BY <1>4 DEF vars, kernelVars, watcherVars, notifierVars, ownerVars, subscriberVars,
                TypeOK, PlaceInv, WakeInv
  <2>2. OrderInv' /\ LogInv'
    BY <1>4, NothingMoves DEF vars, kernelVars, watcherVars, notifierVars, ownerVars,
                              subscriberVars
  <2>3. QED
    BY <2>1, <2>2
<1>5. QED
  BY <1>1, <1>2, <1>3, <1>4 DEF Next

\* The threads and the kernel keep the invariant.
THEOREM Invariance == Spec => []IInv
BY Starts, Keeps, PTL DEF Spec

\* Every variable stays in its range; in particular nobody but the notify
\* thread holds the mutex between two steps, and it does while it makes up its
\* mind (NotifySubscribers).
THEOREM TypeCorrect == Spec => []TypeOK
<1>1. IInv => TypeOK
  BY DEF IInv
<1>2. QED
  BY <1>1, Invariance, PTL

\* The notify thread sleeps beside its work only if the notification of Stop
\* has come between its look at the flag and its sleep (StopThreads).
THEOREM NoOversleepTheorem == Spec => []NotifierDoesNotOversleep
<1>1. IInv => NotifierDoesNotOversleep
  BY DEF IInv, PlaceInv, WakeInv, NotifierDoesNotOversleep, SomethingToDo
<1>2. QED
  BY <1>1, Invariance, PTL

\* Through queue, buffer, list and delivery, over any number of starts and
\* stops, a subscriber gets the events in order and none is left out.
THEOREM NoEventSkippedTheorem == Spec => []NoEventSkipped
<1>1. ASSUME IInv PROVE NoEventSkipped
  <2>1. SUFFICES ASSUME ~ torn, ~ dropped, NEW c \in callbacks
                 PROVE  \E first \in 1..since[c] + 1 :
                          log[c] = [i \in 1..Len(log[c]) |-> first + i - 1]
    BY DEF NoEventSkipped
  <2>2. /\ c \in Subscriber /\ log[c] \in Seq(Event) /\ Len(log[c]) \in Nat
        /\ since[c] \in Nat /\ BeforeFirst(c) \in Int
    BY <1>1, Lengths, ConstantsAssumption DEF IInv, TypeOK
  <2>3. Follows(log[c], BeforeFirst(c)) /\ BeforeFirst(c) <= since[c]
    BY <1>1, <2>1 DEF IInv, LogInv
  <2>4. \E n \in Int : Follows(log[c], n) /\ n + 1 \in 1..since[c] + 1
    <3>1. CASE Len(log[c]) = 0
      <4>1. Follows(log[c], 0) /\ 0 \in Int /\ 0 + 1 \in 1..since[c] + 1
        BY <2>2, <3>1 DEF Follows
      <4>2. QED
        BY <4>1
    <3>2. CASE Len(log[c]) # 0
      <4>1. log[c][1] = BeforeFirst(c) + 1 /\ log[c][1] \in Event
        BY <2>2, <2>3, <3>2, ElementOfSeq DEF Follows
      <4>2. BeforeFirst(c) + 1 \in 1..since[c] + 1
        BY <2>2, <2>3, <4>1 DEF Event
      <4>3. QED
        BY <2>2, <2>3, <4>2
    <3>3. QED
      BY <3>1, <3>2
  <2>5. PICK n \in Int : Follows(log[c], n) /\ n + 1 \in 1..since[c] + 1
    BY <2>4
  <2>6. log[c] = [i \in 1..Len(log[c]) |-> (n + 1) + i - 1]
    BY <2>2, <2>5, FollowsIsRun
  <2>7. QED
    BY <2>5, <2>6
<1>2. QED
  BY <1>1, Invariance, PTL
=============================================================================
