------------------------- MODULE FileSystemWatcher -------------------------
(***************************************************************************)
(* The file system watcher of a session (Core/FileSystemWatcher): a        *)
(* "watch" thread reads events from inotify and puts them into a list of   *)
(* pending notifications, a "notify" thread takes the list and calls       *)
(* OnChange of every subscriber.  A third thread, the owner, starts and    *)
(* stops the two.  The file name databases that a session has loaded are   *)
(* the subscribers.                                                        *)
(*                                                                         *)
(* StopThreads sets the flag "done" and notifies WITHOUT the mutex of the  *)
(* condition variable, so a wait predicate and the falling asleep are two  *)
(* steps.  The set of subscribers is traversed without its mutex: what     *)
(* happens when it is changed meanwhile is undefined ("torn").             *)
(***************************************************************************)
EXTENDS Integers, Sequences, Functions

CONSTANTS
  Subscriber,  \* objects that can subscribe
  QueueLimit,  \* events the kernel keeps (fs.inotify.max_queued_events)
  MaxEvents,   \* bound: events altogether
  MaxStarts    \* bound: calls of Start

ASSUME ConstantsAssumption ==
  QueueLimit \in Nat \ {0} /\ MaxEvents \in Nat /\ MaxStarts \in Nat

VARIABLES
  owner,          \* where the owner is in Start / Stop
  starts,         \* number of calls of Start
  done,           \* the flag
  cancelled,      \* a byte is in the cancel pipe
  happened,       \* events so far; they are numbered in order
  queue,          \* events in the kernel
  watcher,        \* where the watch thread is
  batch,          \* events it has read and not yet handled
  quit,           \* it saw the cancel pipe when it read them
  failure,        \* a thread has ended with an exception
  notifier,       \* where the notify thread is
  mutex,          \* notifyMutex: "free" or "notifier"
  pending,        \* pendingNotifications
  notifications,  \* what the notify thread is delivering
  visited,        \* subscribers that have got the first of these
  callbacks,      \* the subscribers
  since,          \* per subscriber: happened when it subscribed
  log,            \* per subscriber: events OnChange was called with
  lost,           \* history: asleep after the last notification of Stop
  dropped,        \* history: the kernel's queue was full
  torn            \* history: callbacks changed while being traversed

kernelVars == <<happened, queue, dropped>>
watcherVars == <<watcher, batch, quit, failure>>
notifierVars == <<notifier, mutex, notifications, visited, log, lost>>
ownerVars == <<owner, starts, done, cancelled>>
subscriberVars == <<callbacks, since, torn>>
vars == <<kernelVars, watcherVars, notifierVars, ownerVars, subscriberVars, pending>>

Init ==
  /\ owner = "stopped" /\ starts = 0 /\ done = FALSE /\ cancelled = FALSE
  /\ happened = 0 /\ queue = <<>> /\ dropped = FALSE
  /\ watcher = "ended" /\ batch = <<>> /\ quit = FALSE /\ failure = FALSE
  /\ notifier = "ended" /\ mutex = "free" /\ notifications = <<>> /\ visited = {}
  /\ pending = <<>> /\ callbacks = {}
  /\ since = [c \in Subscriber |-> 0] /\ log = [c \in Subscriber |-> <<>>]
  /\ lost = FALSE /\ torn = FALSE
-----------------------------------------------------------------------------
(* The kernel.                                                             *)

\* A file in a watched directory changes.  IN_Q_OVERFLOW has no directory and
\* is ignored by HandleDirectoryChange, so an event the queue has no room for
\* is gone.
Change ==
  /\ happened < MaxEvents
  /\ happened' = happened + 1
  /\ IF Len(queue) < QueueLimit
     THEN queue' = Append(queue, happened + 1) /\ UNCHANGED dropped
     ELSE dropped' = TRUE /\ UNCHANGED queue
  /\ UNCHANGED <<watcherVars, notifierVars, ownerVars, subscriberVars, pending>>
-----------------------------------------------------------------------------
(* The watch thread: WatchDirectories, HandleDirectoryChange.              *)

\* select returns; what is there is read, as much as fits into the buffer.
ReadEvents(n) ==
  /\ watcher = "select" /\ n \in 1..Len(queue)
  /\ batch' = SubSeq(queue, 1, n)
  /\ queue' = SubSeq(queue, n + 1, Len(queue))
  /\ quit' = cancelled
  /\ watcher' = "handle"
  /\ UNCHANGED <<happened, dropped, failure, notifierVars, ownerVars, subscriberVars,
                 pending>>

\* Only the cancel pipe is readable.
WatcherCancelled ==
  /\ watcher = "select" /\ queue = <<>> /\ cancelled
  /\ watcher' = "ended"
  /\ UNCHANGED <<kernelVars, batch, quit, failure, notifierVars, ownerVars,
                 subscriberVars, pending>>

\* select is interrupted by a signal (EINTR), or read fails.
WatcherFails ==
  /\ watcher = "select"
  /\ watcher' = "ended" /\ failure' = TRUE
  /\ UNCHANGED <<kernelVars, batch, quit, notifierVars, ownerVars, subscriberVars,
                 pending>>

\* pendingNotifications.push_back(ev), under notifyMutex
Push ==
  /\ watcher = "handle" /\ batch # <<>> /\ mutex = "free"
  /\ pending' = Append(pending, Head(batch))
  /\ batch' = Tail(batch)
  /\ UNCHANGED <<kernelVars, watcher, quit, failure, notifierVars, ownerVars,
                 subscriberVars>>

Wake == notifier' = IF notifier = "asleep" THEN "lock" ELSE notifier

\* Mutant: nobody is notified of the events.
HandledSilently ==
  /\ watcher = "handle" /\ batch = <<>>
  /\ watcher' = IF quit THEN "ended" ELSE "select"
  /\ UNCHANGED <<kernelVars, batch, quit, failure, notifierVars, ownerVars,
                 subscriberVars, pending>>

\* notifyCondition.notify_all() after the last event, without the mutex.
NotifyPushed ==
  /\ watcher = "handle" /\ batch = <<>>
  /\ Wake
  /\ watcher' = IF quit THEN "ended" ELSE "select"
  /\ UNCHANGED <<kernelVars, batch, quit, failure, mutex, notifications, visited, log,
                 lost, ownerVars, subscriberVars, pending>>
-----------------------------------------------------------------------------
(* The notify thread: NotifySubscribers.                                   *)

\* while (!done)
TestDone ==
  /\ notifier = "loop"
  /\ notifier' = IF done THEN "ended" ELSE "lock"
  /\ UNCHANGED <<kernelVars, watcherVars, mutex, notifications, visited, log, lost,
                 ownerVars, subscriberVars, pending>>

\* The mutex is acquired, or acquired again after a notification.
LockNotifyMutex ==
  /\ notifier = "lock" /\ mutex = "free"
  /\ notifier' = "check" /\ mutex' = "notifier"
  /\ UNCHANGED <<kernelVars, watcherVars, notifications, visited, log, lost,
                 ownerVars, subscriberVars, pending>>

SomethingToDo == done \/ pending # <<>>

\* The wait predicate is false: the thread is going to sleep ...
MustWait ==
  /\ notifier = "check" /\ ~ SomethingToDo
  /\ notifier' = "drowsy"
  /\ UNCHANGED <<kernelVars, watcherVars, mutex, notifications, visited, log, lost,
                 ownerVars, subscriberVars, pending>>

\* Mutant: the thread sleeps with the mutex.
FallAsleepLocked ==
  /\ notifier = "drowsy"
  /\ notifier' = "asleep"
  /\ lost' = (lost \/ owner = "join")
  /\ UNCHANGED <<kernelVars, watcherVars, mutex, notifications, visited, log,
                 ownerVars, subscriberVars, pending>>

\* ... and does.  Stop may have set the flag and notified in between.
FallAsleep ==
  /\ notifier = "drowsy"
  /\ notifier' = "asleep" /\ mutex' = "free"
  /\ lost' = (lost \/ owner = "join")
  /\ UNCHANGED <<kernelVars, watcherVars, notifications, visited, log,
                 ownerVars, subscriberVars, pending>>

WakeSpuriously ==
  /\ notifier = "asleep"
  /\ notifier' = "lock"
  /\ UNCHANGED <<kernelVars, watcherVars, mutex, notifications, visited, log, lost,
                 ownerVars, subscriberVars, pending>>

StartDelivery ==
  notifier' = (IF pending = <<>> THEN "loop" ELSE "deliver") /\ mutex' = "free"

\* Mutant: the list is copied, not swapped.
CopyPending ==
  /\ notifier = "check" /\ SomethingToDo
  /\ notifications' = pending
  /\ StartDelivery
  /\ UNCHANGED <<kernelVars, watcherVars, visited, log, lost, ownerVars,
                 subscriberVars, pending>>

\* std::swap(notifications, pendingNotifications), and the mutex is released.
TakePending ==
  /\ notifier = "check" /\ SomethingToDo
  /\ notifications' = pending /\ pending' = <<>>
  /\ StartDelivery
  /\ UNCHANGED <<kernelVars, watcherVars, visited, log, lost, ownerVars, subscriberVars>>

\* c->OnChange(ev)
OnChange(c) ==
  /\ notifier = "deliver" /\ c \in callbacks \ visited
  /\ log' = [log EXCEPT ![c] = Append(@, Head(notifications))]
  /\ visited' = visited \cup {c}
  /\ UNCHANGED <<kernelVars, watcherVars, notifier, mutex, notifications, lost,
                 ownerVars, subscriberVars, pending>>

\* The next event, or the next round.
NextEvent ==
  /\ notifier = "deliver" /\ callbacks \subseteq visited
  /\ notifications' = Tail(notifications) /\ visited' = {}
  /\ notifier' = IF Len(notifications) = 1 THEN "loop" ELSE "deliver"
  /\ UNCHANGED <<kernelVars, watcherVars, mutex, log, lost, ownerVars, subscriberVars,
                 pending>>
-----------------------------------------------------------------------------
(* The owner and other threads of the session.                             *)

\* running becomes true, a new cancel pipe, StartThreads.
Start ==
  /\ owner = "stopped" /\ starts < MaxStarts
  /\ owner' = "running" /\ starts' = starts + 1
  /\ cancelled' = FALSE /\ done' = FALSE
  /\ watcher' = "select" /\ notifier' = "loop"
  /\ UNCHANGED <<kernelVars, batch, quit, failure, mutex, notifications, visited, log,
                 lost, subscriberVars, pending>>

\* Stop: running becomes false, a byte for the watch thread ...
Stop ==
  /\ owner = "running"
  /\ owner' = "stop" /\ cancelled' = TRUE
  /\ UNCHANGED <<kernelVars, watcherVars, notifierVars, starts, done, subscriberVars,
                 pending>>

\* ... StopThreads: the flag ...
SetDone ==
  /\ owner = "stop"
  /\ owner' = "notify" /\ done' = TRUE
  /\ UNCHANGED <<kernelVars, watcherVars, notifierVars, starts, cancelled,
                 subscriberVars, pending>>

\* Mutant: nobody is notified of the flag.
JoinUnnotified ==
  /\ owner = "notify"
  /\ owner' = "join"
  /\ UNCHANGED <<kernelVars, watcherVars, notifierVars, starts, done, cancelled,
                 subscriberVars, pending>>

\* ... notify_all ...
NotifyDone ==
  /\ owner = "notify"
  /\ owner' = "join"
  /\ Wake
  /\ UNCHANGED <<kernelVars, watcherVars, mutex, notifications, visited, log, lost,
                 starts, done, cancelled, subscriberVars, pending>>

\* ... and both threads are joined.  An exception of a thread is thrown again.
Join ==
  /\ owner = "join" /\ notifier = "ended" /\ watcher = "ended"
  /\ owner' = "stopped"
  /\ UNCHANGED <<kernelVars, watcherVars, notifierVars, starts, done, cancelled,
                 subscriberVars, pending>>

Traversing == notifier = "deliver"

Subscribe(c) ==
  /\ c \notin callbacks
  /\ callbacks' = callbacks \cup {c}
  /\ since' = [since EXCEPT ![c] = happened]
  /\ log' = [log EXCEPT ![c] = <<>>]
  /\ torn' = (torn \/ Traversing)
  /\ UNCHANGED <<kernelVars, watcherVars, notifier, mutex, notifications, visited, lost,
                 ownerVars, pending>>

Unsubscribe(c) ==
  /\ c \in callbacks
  /\ callbacks' = callbacks \ {c}
  /\ since' = [since EXCEPT ![c] = 0]
  /\ log' = [log EXCEPT ![c] = <<>>]
  /\ torn' = (torn \/ Traversing)
  /\ UNCHANGED <<kernelVars, watcherVars, notifier, mutex, notifications, visited, lost,
                 ownerVars, pending>>
-----------------------------------------------------------------------------
WatchStep == (\E n \in 1..QueueLimit : ReadEvents(n)) \/ WatcherCancelled \/ Push \/ NotifyPushed

NotifyStep ==
  \/ TestDone \/ LockNotifyMutex \/ MustWait \/ FallAsleep \/ TakePending
  \/ (\E c \in Subscriber : OnChange(c)) \/ NextEvent

StopStep == SetDone \/ NotifyDone \/ Join

\* The notify thread has no failure of its own: OnChange of the only kind of
\* subscriber, FileNameDatabase, compares names and sets a flag.
Next ==
  \/ Change \/ WatchStep \/ WatcherFails \/ NotifyStep \/ WakeSpuriously
  \/ Start \/ Stop \/ StopStep
  \/ \E c \in Subscriber : Subscribe(c) \/ Unsubscribe(c)

Spec == Init /\ [][Next]_vars

\* The threads are scheduled, and neither is kept from the mutex for ever.
\* Nobody need change a file, subscribe, start or stop.
Fairness ==
  /\ WF_vars(WatchStep) /\ WF_vars(NotifyStep) /\ WF_vars(StopStep)
  /\ SF_vars(Push) /\ SF_vars(LockNotifyMutex)

FairSpec == Spec /\ Fairness
-----------------------------------------------------------------------------
Event == 1..MaxEvents

\* Every variable stays in its range.
TypeOK ==
  /\ owner \in {"stopped", "running", "stop", "notify", "join"}
  /\ starts \in 0..MaxStarts /\ happened \in 0..MaxEvents
  /\ watcher \in {"ended", "select", "handle"}
  /\ notifier \in {"ended", "loop", "lock", "check", "drowsy", "asleep", "deliver"}
  /\ mutex = (IF notifier \in {"check", "drowsy"} THEN "notifier" ELSE "free")
  /\ done \in BOOLEAN /\ cancelled \in BOOLEAN /\ quit \in BOOLEAN
  /\ failure \in BOOLEAN /\ lost \in BOOLEAN /\ dropped \in BOOLEAN /\ torn \in BOOLEAN
  /\ queue \in Seq(Event) /\ Len(queue) <= QueueLimit
  /\ batch \in Seq(Event) /\ pending \in Seq(Event) /\ notifications \in Seq(Event)
  /\ callbacks \subseteq Subscriber /\ visited \subseteq Subscriber
  /\ since \in [Subscriber -> 0..MaxEvents] /\ log \in [Subscriber -> Seq(Event)]

\* A subscriber gets the events in the order in which they happened, each of
\* them once and none left out, beginning with one that happened no later than
\* the first after Subscribe, however many the watch thread reads at a time.
\* Exceptions: the kernel's queue overflowed, or the
\* set of subscribers was changed in the middle of a delivery.
NoEventSkipped ==
  ~ torn /\ ~ dropped =>
    \A c \in callbacks :
      \E first \in 1..since[c] + 1 :
        log[c] = [i \in 1..Len(log[c]) |-> first + i - 1]

\* The notify thread sleeps only while there is nothing to do for it, or a
\* notification is still to come.  The exception is a Stop whose notification
\* came between the predicate and the sleep.
NotifierDoesNotOversleep ==
  notifier = "asleep" /\ SomethingToDo =>
    lost \/ watcher = "handle" \/ owner = "notify"

\* A change reaches everybody who has subscribed, unless the watch thread has
\* failed, the watcher is stopped or the subscriber leaves.
ChangeIsNoticed ==
  \A c \in Subscriber, e \in Event :
    (e \in Range(queue) /\ c \in callbacks /\ owner = "running")
      ~> (e \in Range(log[c]) \/ c \notin callbacks \/ failure
            \/ owner # "running" \/ torn)

\* Stop returns, even if a thread has failed, unless its notification is lost.
StopReturns == owner = "stop" ~> owner = "stopped" \/ lost
=============================================================================
