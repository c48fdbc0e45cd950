------------------------------ MODULE DviPages ------------------------------
(***************************************************************************)
(* The page cache of the DVI library (Libraries/MiKTeX/Dvi: DviImpl and    *)
(* DviPageImpl), which the previewer Yap draws from.  Three threads use    *)
(* one object: the client ("main"), the page loader, which loads the pages *)
(* that follow the current one, and the garbage collector, which frees     *)
(* the pages that lie outside the window around it.                        *)
(*                                                                         *)
(* dviMutex is recursive and protects the page table; every page has a     *)
(* mutex of its own, taken while dviMutex is held and given back later     *)
(* without it.  Deleting a page takes that mutex too.  Meanwhile TeX       *)
(* writes the file anew: the table is then built again, by whichever       *)
(* thread notices.                                                         *)
(*                                                                         *)
(* Pages are numbered from 1 here and from 0 in the code.  Whether a       *)
(* second has passed (lastChecked), how big a page is and when it was last *)
(* visited is left open: both outcomes are allowed.                        *)
(***************************************************************************)
EXTENDS Integers, Sequences, FiniteSets

CONSTANTS
  MaxPages,    \* bound: pages of a document
  MaxVersion,  \* bound: how often the file is written
  PageCount,   \* number of pages of each version of the file
  Window,      \* pages the loader works ahead (10 in the code)
  Operation    \* what the client does

Version == 0..MaxVersion

ASSUME ConstantsAssumption ==
  /\ MaxPages \in Nat \ {0} /\ MaxVersion \in Nat /\ Window \in Nat \ {0}
  /\ PageCount \in [Version -> 1..MaxPages]
  /\ Operation \subseteq {"draw", "magnify", "search", "name", "status"}

VARIABLES
  file,           \* the DVI file: version, time stamp, "ready", "busy" or "gone"
  table,          \* pages: per page whether it is frozen (loaded), who has locked it
  tableTime,      \* history: time stamp of the file the table was read from
  lastWriteTime,  \* dviInfo.lastWriteTime
  changed,        \* hasDviFileChanged
  owner,          \* who holds dviMutex
  current,        \* currentPageIdx
  direction,      \* where the client is going, 1 or -1
  newPage,        \* hNewPageEvent
  scanned,        \* hScannedEvent
  bye,            \* hByeByeEvent
  pc,             \* where each thread is
  arg,            \* the page it is working on
  op,             \* what the client is doing
  best,           \* biggestPageIdx: what the collector will free
  error,          \* fatalMiKTeXError or fatalError: miktexException is waiting
  reported        \* history: CheckCondition has thrown it in the client

fileVars == <<file>>
tableVars == <<table, tableTime, lastWriteTime, changed, scanned>>
placeVars == <<current, direction, newPage>>
errorVars == <<error, reported>>
vars == <<file, tableVars, owner, placeVars, bye, pc, arg, op, best, errorVars>>

Thread == {"main", "loader", "gc"}

\* The constructor has started the two threads; the first scan comes after it
\* and does not take dviMutex.
Init ==
  /\ file = [version |-> 0, time |-> 0, state |-> "ready"]
  /\ table = <<>> /\ tableTime = 0 /\ lastWriteTime = 0
  /\ changed = FALSE /\ scanned = FALSE
  /\ owner = "none" /\ current = 0 /\ direction = 1
  /\ newPage = FALSE /\ bye = FALSE
  /\ pc = [main |-> "scanOpen", loader |-> "wait", gc |-> "sleep"]
  /\ arg = [t \in Thread |-> 0] /\ op = "create" /\ best = 0
  /\ error = FALSE /\ reported = FALSE
-----------------------------------------------------------------------------
(* Locks, exceptions, returns.                                             *)

Free(p) == table[p].holder = "none"
LockedBy(t, p) == [table EXCEPT ![p].holder = t]
Unlocked(p) == [table EXCEPT ![p].holder = "none"]

Mine(t) == owner \in {"none", t}

Goto(t, place) == pc' = [pc EXCEPT ![t] = place]

\* The client leaves the library: idle, or without a document if the first
\* scan has failed.
ClientLeaves(place) ==
  /\ owner' = IF owner = "main" THEN "none" ELSE owner
  /\ Goto("main", place)
  /\ arg' = [arg EXCEPT !["main"] = 0] /\ op' = "none"

\* An exception leaves every critical section.  It ends the loader, which
\* keeps it for the client.
Throws(t) ==
  /\ UNCHANGED reported
  /\ \/ /\ t = "main"
        /\ ClientLeaves(IF op = "create" THEN "failed" ELSE "idle")
        /\ UNCHANGED error
     \/ /\ t = "loader"
        /\ owner' = IF owner = t THEN "none" ELSE owner
        /\ Goto(t, "ended") /\ error' = TRUE
        /\ arg' = [arg EXCEPT ![t] = 0] /\ UNCHANGED op

\* CheckCondition throws in the client what a background thread has died of.
\* The loader comes to it as well, but only the loader's own exception is ever
\* there to be thrown.
CheckFails(t) == t = "main" /\ error
Reports ==
  /\ ClientLeaves("idle")
  /\ error' = FALSE /\ reported' = TRUE

\* GetLoadedPage returns nullptr: an exception in the client, the next page in
\* the loader.
ReturnsNothing(t) ==
  \/ t = "main" /\ ClientLeaves("idle")
  \/ /\ t = "loader"
     /\ owner' = "none" /\ Goto(t, "tick")
     /\ arg' = [arg EXCEPT ![t] = @ + direction] /\ UNCHANGED op
-----------------------------------------------------------------------------
(* GetLoadedPage, for the client and for the loader.                       *)

\* What GetPageStatus answers.  A page that is not loaded is NotLoaded whatever
\* has become of the file; once in a second it "looks" at the file.
PageStatus(p, looks) ==
  IF p > Len(table) THEN "Unknown"
  ELSE IF ~table[p].frozen THEN "NotLoaded"
  ELSE IF changed THEN "Changed"
  ELSE IF ~looks \/ file.state = "busy" THEN "Loaded"
  ELSE IF file.state = "gone" THEN "Lost"
  ELSE IF lastWriteTime # file.time THEN "Changed" ELSE "Loaded"

SeesTime(p, looks) ==
  p <= Len(table) /\ table[p].frozen /\ ~changed /\ looks /\ file.state = "ready"

\* Mutant: the new time stamp is taken, but not that there is a change.
TimeTakenOnly(p, looks) ==
  /\ lastWriteTime' = IF SeesTime(p, looks) THEN file.time ELSE lastWriteTime
  /\ UNCHANGED changed

TakesTime(p, looks) ==
  /\ lastWriteTime' = IF SeesTime(p, looks) THEN file.time ELSE lastWriteTime
  /\ changed' = (PageStatus(p, looks) = "Changed" \/ changed)

\* GetPageStatus, called by the client or by GetLoadedPage.  It locks the page
\* for a moment and waits for whoever uses it.
Status(t) ==
  /\ pc[t] = "status" /\ Mine(t) /\ ~CheckFails(t)
  /\ arg[t] <= Len(table) => Free(arg[t])
  /\ \E looks \in BOOLEAN :
       LET status == PageStatus(arg[t], looks)
       IN /\ TakesTime(arg[t], looks)
          /\ \/ /\ t = "main" /\ op = "status" /\ ClientLeaves("idle")
             \/ /\ ~(t = "main" /\ op = "status") /\ status \in {"Lost", "Unknown"}
                /\ ReturnsNothing(t)
             \/ /\ ~(t = "main" /\ op = "status") /\ status \notin {"Lost", "Unknown"}
                /\ Goto(t, CASE status = "Changed" -> "scanOpen"
                             [] status = "NotLoaded" -> "load"
                             [] status = "Loaded" -> "get")
                /\ owner' = t /\ UNCHANGED <<arg, op>>
  /\ UNCHANGED <<file, table, tableTime, scanned, placeVars, bye, best, errorVars>>

CheckCondition ==
  /\ pc["main"] \in {"enter", "status", "get"} /\ CheckFails("main")
  /\ Reports
  /\ UNCHANGED <<file, tableVars, placeVars, bye, best>>

\* Scan opens the file ...
ScanOpen(t) ==
  /\ pc[t] = "scanOpen"
  /\ \/ /\ file.state = "ready" /\ Goto(t, "scanFree")
        /\ UNCHANGED <<owner, arg, op, errorVars>>
     \/ file.state # "ready" /\ Throws(t)
  /\ UNCHANGED <<file, tableVars, placeVars, bye, best>>

\* Mutant: a page is deleted without its lock.
DeletedAtOnce == TRUE

\* ~DviPageImpl locks the page, so deleting the pages waits for all users.
NobodyUsesAPage == \A p \in DOMAIN table : Free(p)

\* ... deletes all pages and takes the time stamp, ...
ScanFree(t) ==
  /\ pc[t] = "scanFree" /\ NobodyUsesAPage
  /\ table' = <<>>
  /\ lastWriteTime' = file.time
  /\ Goto(t, "scanRead")
  /\ UNCHANGED <<file, tableTime, changed, scanned, owner, placeVars, bye, arg, op,
                 best, errorVars>>

NewTable(n) == [p \in 1..n |-> [frozen |-> FALSE, holder |-> "none"]]

\* ... and reads the new table.
ScanRead(t) ==
  /\ pc[t] = "scanRead"
  /\ table' = NewTable(PageCount[file.version])
  /\ tableTime' = file.time
  /\ scanned' = TRUE /\ changed' = FALSE
  /\ \/ op = "create" /\ t = "main" /\ ClientLeaves("idle")
     \/ /\ ~(op = "create" /\ t = "main")
        /\ Goto(t, "load") /\ UNCHANGED <<owner, arg, op>>
  /\ UNCHANGED <<file, lastWriteTime, placeVars, bye, best, errorVars>>

\* The file is not a valid DVI file, or a font cannot be found: there are no
\* pages or only some, and hasDviFileChanged stays as it is.
ScanFails(t) ==
  /\ pc[t] = "scanRead"
  /\ \E n \in 0..PageCount[file.version] - 1 : table' = NewTable(n)
  /\ tableTime' = file.time
  /\ Throws(t)
  /\ UNCHANGED <<file, lastWriteTime, changed, scanned, placeVars, bye, best>>

\* DoPage.  The page may be gone: the table that Scan has just read can be
\* shorter, and the index is not checked again.
Load(t) ==
  /\ pc[t] = "load" /\ arg[t] \in DOMAIN table /\ Free(arg[t])
  /\ file.state = "ready" /\ ~bye
  /\ table' = [table EXCEPT ![arg[t]].frozen = TRUE]
  /\ Goto(t, "get")
  /\ UNCHANGED <<file, tableTime, lastWriteTime, changed, scanned, owner, placeVars, bye,
                 arg, op, best, errorVars>>

\* It fails: the file is missing or invalid, or the thread is told to end; a
\* file that is used by another process leaves the page empty and frozen.
LoadFails(t) ==
  /\ pc[t] = "load" /\ arg[t] \in DOMAIN table /\ Free(arg[t])
  /\ table' = [table EXCEPT ![arg[t]].frozen = (file.state = "busy")]
  /\ Throws(t)
  /\ UNCHANGED <<file, tableTime, lastWriteTime, changed, scanned, placeVars, bye, best>>

\* pages[pageIdx] behind the end of the vector.
Crash(t) ==
  /\ pc[t] = "load" /\ arg[t] > Len(table)
  /\ pc' = [u \in Thread |-> "crashed"]
  /\ UNCHANGED <<file, tableVars, owner, placeVars, bye, arg, op, best, errorVars>>

\* Only the client's requests move the window.
Visits(t, p) ==
  IF t = "main" /\ p # current
  THEN /\ direction' = IF p < current THEN -1 ELSE 1
       /\ current' = p /\ newPage' = TRUE
  ELSE UNCHANGED placeVars

\* GetPage locks the page for the caller; the magnifying glass, GetSource and
\* the searches keep dviMutex while they use it.
Get(t) ==
  /\ pc[t] = "get" /\ Mine(t) /\ ~CheckFails(t)
  /\ \/ /\ arg[t] \in DOMAIN table /\ Free(arg[t])
        /\ table' = LockedBy(t, arg[t])
        /\ Visits(t, arg[t])
        /\ owner' = IF t = "main" /\ op \in {"magnify", "search"} THEN t ELSE "none"
        /\ Goto(t, "use") /\ UNCHANGED <<arg, op>>
     \/ /\ arg[t] > Len(table)
        /\ ReturnsNothing(t)
        /\ UNCHANGED <<table, placeVars>>
  /\ UNCHANGED <<file, tableTime, lastWriteTime, changed, scanned, bye, best, errorVars>>
-----------------------------------------------------------------------------
(* The client.                                                             *)

Calls(o, p) ==
  /\ pc["main"] = "idle" /\ (o = "search" => p = 1)
  /\ Goto("main", "enter")
  /\ arg' = [arg EXCEPT !["main"] = p] /\ op' = o
  /\ UNCHANGED <<file, tableVars, owner, placeVars, bye, best, errorVars>>

Enter ==
  /\ pc["main"] = "enter" /\ owner = "none" /\ ~error
  /\ owner' = "main"
  /\ Goto("main", IF op = "name" THEN "get" ELSE "status")
  /\ UNCHANGED <<file, tableVars, placeVars, bye, arg, op, best, errorVars>>

\* The client is done with the page, or drawing it has failed.
Unlock ==
  /\ pc["main"] = "use"
  /\ table' = Unlocked(arg["main"])
  /\ ClientLeaves("idle")
  /\ UNCHANGED <<file, tableTime, lastWriteTime, changed, scanned, placeVars, bye, best,
                 errorVars>>

\* FindHyperLabel and FindSource go on to the next page.
SearchNext ==
  /\ pc["main"] = "use" /\ op = "search" /\ arg["main"] < Len(table)
  /\ table' = Unlocked(arg["main"])
  /\ arg' = [arg EXCEPT !["main"] = @ + 1]
  /\ Goto("main", "status")
  /\ UNCHANGED <<file, tableTime, lastWriteTime, changed, scanned, owner, placeVars, bye,
                 op, best, errorVars>>

Dispose ==
  /\ pc["main"] \in {"idle", "failed"}
  /\ bye' = TRUE /\ Goto("main", "join")
  /\ UNCHANGED <<file, tableVars, owner, placeVars, arg, op, best, errorVars>>

Join ==
  /\ pc["main"] = "join" /\ pc["gc"] = "ended" /\ pc["loader"] = "ended"
  /\ NobodyUsesAPage
  /\ table' = <<>> /\ Goto("main", "disposed")
  /\ UNCHANGED <<file, tableTime, lastWriteTime, changed, scanned, owner, placeVars, bye,
                 arg, op, best, errorVars>>
-----------------------------------------------------------------------------
(* PageLoader.                                                             *)

LoaderEnds ==
  /\ pc["loader"] \in {"wait", "tick"} /\ bye
  /\ Goto("loader", "ended") /\ arg' = [arg EXCEPT !["loader"] = 0]
  /\ UNCHANGED <<file, tableVars, owner, placeVars, bye, op, best, errorVars>>

LoaderStarts ==
  /\ pc["loader"] = "wait" /\ scanned
  /\ scanned' = FALSE
  /\ Goto("loader", "tick") /\ arg' = [arg EXCEPT !["loader"] = current + 1]
  /\ UNCHANGED <<file, table, tableTime, lastWriteTime, changed, owner, placeVars, bye, op,
                 best, errorVars>>

\* The pages that the loader loads and the collector spares.
InWindow(p) ==
  IF direction > 0 THEN p \in current .. current + Window - 1
  ELSE p \in current - Window + 1 .. current

\* Mutant: the loader runs on behind the last page and does not turn back.
RunsOn(p) == p + direction

\* Mutant: behind the last page the loader stays where it is.
StaysThere(p) == IF p \in DOMAIN table THEN p + direction ELSE p

\* A page outside of the table: start again behind the current page.
NextPage(p) == (IF p \in DOMAIN table THEN p ELSE current) + direction

LoaderTick ==
  /\ pc["loader"] = "tick" /\ ~bye /\ owner = "none"
  /\ newPage' = FALSE
  /\ LET p == IF newPage THEN current ELSE arg["loader"]
     IN \/ /\ p \in DOMAIN table /\ InWindow(p) /\ Free(p)
           /\ owner' = "loader" /\ Goto("loader", "status")
           /\ arg' = [arg EXCEPT !["loader"] = p]
        \/ /\ ~(p \in DOMAIN table /\ InWindow(p) /\ Free(p))
           /\ arg' = [arg EXCEPT !["loader"] = NextPage(p)]
           /\ UNCHANGED <<owner, pc>>
  /\ UNCHANGED <<file, tableVars, current, direction, bye, op, best, errorVars>>

\* GetNumberOfDviBitmaps, outside of dviMutex, with the page locked.
Render ==
  /\ pc["loader"] = "use"
  /\ table' = Unlocked(arg["loader"])
  /\ Goto("loader", "tick")
  /\ arg' = [arg EXCEPT !["loader"] = @ + direction]
  /\ UNCHANGED <<file, tableTime, lastWriteTime, changed, scanned, owner, placeVars, bye,
                 op, best, errorVars>>

\* Mutant: the page is not unlocked on the way out.
RenderKeepsLock ==
  /\ pc["loader"] = "use"
  /\ Throws("loader")
  /\ UNCHANGED <<file, tableVars, placeVars, bye, best>>

RenderFails ==
  /\ pc["loader"] = "use"
  /\ table' = Unlocked(arg["loader"])
  /\ Throws("loader")
  /\ UNCHANGED <<file, tableTime, lastWriteTime, changed, scanned, placeVars, bye, best>>
-----------------------------------------------------------------------------
(* GarbageCollector.                                                       *)

GcEnds ==
  /\ pc["gc"] \in {"sleep", "sweep"} /\ bye
  /\ Goto("gc", "ended") /\ arg' = [arg EXCEPT !["gc"] = 0] /\ best' = 0
  /\ UNCHANGED <<file, tableVars, owner, placeVars, bye, op, errorVars>>

GcWakes ==
  /\ pc["gc"] = "sleep" /\ ~bye
  /\ Goto("gc", "sweep") /\ arg' = [arg EXCEPT !["gc"] = 1] /\ best' = 0
  /\ UNCHANGED <<file, tableVars, owner, placeVars, bye, op, errorVars>>

\* GetNumberOfPages throws what the loader has died of in the collector ...
GcCheck ==
  /\ pc["gc"] \in {"sweep", "collect"} /\ owner = "none" /\ error
  /\ error' = FALSE
  /\ Goto("gc", "dying") /\ arg' = [arg EXCEPT !["gc"] = 0] /\ best' = 0
  /\ UNCHANGED <<file, tableVars, owner, placeVars, bye, op, reported>>

\* Mutant: the collector keeps the exception for itself.
GcSwallows == Goto("gc", "ended") /\ UNCHANGED error

\* ... which keeps it for the client and ends as well.
GcRethrows == Goto("gc", "ended") /\ error' = TRUE

GcDies ==
  /\ pc["gc"] = "dying"
  /\ GcRethrows
  /\ UNCHANGED <<file, tableVars, owner, placeVars, bye, arg, op, best, reported>>

\* One page of the sweep: the biggest old one outside of the window is kept in
\* mind; dviMutex is given back after each page.
GcVisit ==
  /\ pc["gc"] = "sweep" /\ ~bye /\ owner = "none" /\ ~error
  /\ LET p == arg["gc"]
     IN \/ /\ p \in DOMAIN table
           /\ arg' = [arg EXCEPT !["gc"] = @ + 1]
           /\ \/ UNCHANGED best
              \/ ~InWindow(p) /\ table[p].frozen /\ Free(p) /\ best' = p
           /\ UNCHANGED pc
        \/ /\ p > Len(table)
           /\ Goto("gc", IF best = 0 THEN "sleep" ELSE "collect")
           /\ arg' = [arg EXCEPT !["gc"] = 0] /\ UNCHANGED best
  /\ UNCHANGED <<file, tableVars, owner, placeVars, bye, op, errorVars>>

\* The table and the window may be others by now; only the lock is looked at
\* again.
GcCollect ==
  /\ pc["gc"] = "collect" /\ owner = "none" /\ ~error
  /\ IF best \in DOMAIN table /\ Free(best)
     THEN table' = [table EXCEPT ![best].frozen = FALSE]
     ELSE UNCHANGED table
  /\ Goto("gc", "sleep") /\ best' = 0
  /\ UNCHANGED <<file, tableTime, lastWriteTime, changed, scanned, owner, placeVars, bye,
                 arg, op, errorVars>>
-----------------------------------------------------------------------------
(* Other processes.                                                        *)

Others == <<tableVars, owner, placeVars, bye, pc, arg, op, best, errorVars>>

\* TeX writes the file anew, perhaps within the second of the last time.
WriterOpens ==
  /\ file.state # "busy" /\ file.version < MaxVersion
  /\ \E time \in {file.time, file.time + 1} :
       file' = [version |-> file.version + 1, time |-> time, state |-> "busy"]
  /\ UNCHANGED Others

\* A program opens it for reading and does not share it.
ReaderOpens ==
  /\ file.state = "ready" /\ file' = [file EXCEPT !.state = "busy"] /\ UNCHANGED Others

Closes ==
  /\ file.state = "busy" /\ file' = [file EXCEPT !.state = "ready"] /\ UNCHANGED Others

Deletes ==
  /\ file.state = "ready" /\ file' = [file EXCEPT !.state = "gone"] /\ UNCHANGED Others
-----------------------------------------------------------------------------
GetLoadedPage(t) ==
  \/ Status(t) \/ ScanOpen(t) \/ ScanFree(t) \/ ScanRead(t) \/ ScanFails(t)
  \/ Load(t) \/ LoadFails(t) \/ Crash(t) \/ Get(t)

Client == CheckCondition \/ GetLoadedPage("main") \/ Unlock \/ SearchNext \/ Join
PageLoader ==
  LoaderEnds \/ LoaderStarts \/ LoaderTick \/ GetLoadedPage("loader") \/ Render
  \/ RenderFails
GarbageCollector ==
  GcEnds \/ GcWakes \/ GcCheck \/ GcDies \/ GcVisit \/ GcCollect

Over == pc["main"] \in {"disposed", "crashed"} /\ UNCHANGED vars

Next ==
  \/ \E o \in Operation, p \in 1..MaxPages : Calls(o, p)
  \/ Dispose \/ Enter \/ Client \/ PageLoader \/ GarbageCollector
  \/ WriterOpens \/ ReaderOpens \/ Closes \/ Deletes
  \/ Over

Spec == Init /\ [][Next]_vars

\* Every thread runs on.  Entering is strong: the two background threads give
\* dviMutex back and wait on hByeByeEvent before they take it again.
FairSpec ==
  /\ Spec
  /\ WF_vars(Client) /\ SF_vars(Enter)
  /\ WF_vars(PageLoader) /\ WF_vars(GarbageCollector)
-----------------------------------------------------------------------------
\* Where a thread can be.
Place ==
  {"idle", "failed", "enter", "status", "scanOpen", "scanFree", "scanRead", "load", "get",
   "use", "join", "disposed", "wait", "tick", "sleep", "sweep", "collect", "dying", "ended",
   "crashed"}

\* Every variable stays in its range, and only threads that can hold a lock do.
TypeOK ==
  /\ file \in [version : Version, time : Version, state : {"ready", "busy", "gone"}]
  /\ table \in Seq([frozen : BOOLEAN, holder : {"none", "main", "loader"}])
  /\ Len(table) <= MaxPages
  /\ tableTime \in Version /\ lastWriteTime \in Version
  /\ changed \in BOOLEAN /\ scanned \in BOOLEAN
  /\ owner \in {"none", "main", "loader"}
  /\ current \in 0..MaxPages /\ direction \in {-1, 1} /\ newPage \in BOOLEAN
  /\ bye \in BOOLEAN
  /\ pc \in [Thread -> Place]
  /\ arg \in [Thread -> 0..MaxPages + 1]
  /\ op \in Operation \union {"create", "none"}
  /\ best \in 0..MaxPages
  /\ error \in BOOLEAN /\ reported \in BOOLEAN

\* A page that the client draws or the loader renders is still there, locked
\* by that thread and loaded: neither the collector nor a scan by the other
\* thread takes it away.  (For the name of a page it need not be loaded.)
PageInUseStays ==
  \A t \in {"main", "loader"} :
    pc[t] = "use" =>
      /\ arg[t] \in DOMAIN table /\ table[arg[t]].holder = t
      /\ (t = "main" /\ op = "name") \/ table[arg[t]].frozen

\* If the file has another time stamp than the one the page table was read
\* from, this is known (hasDviFileChanged) or the next look at the file will
\* show it: no order of looking, scanning and writing loses a change.
NoChangeMissed ==
  table # <<>> /\ file.time # tableTime => changed \/ lastWriteTime # file.time

\* What the loader has died of is kept until the client has been told: also
\* when CheckCondition throws it in the collector first.
NoErrorLost ==
  pc["loader"] = "ended" /\ ~bye => error \/ reported \/ pc["gc"] = "dying"

\* Every call of the client returns, Dispose with its two joins included:
\* the locks of the table and of the pages do not block each other.
CallsReturn ==
  pc["main"] \notin {"idle", "failed"} ~>
    pc["main"] \in {"idle", "failed", "disposed", "crashed"}

\* While the client stays where it is, the loader comes to all pages ahead of
\* it, and the collector leaves them alone in the end.  (The current page is
\* not promised: the loader starts again behind it.)
PrefetchComesRound ==
  <>[](pc["main"] = "idle" /\ current \in DOMAIN table
       /\ pc["loader"] \notin {"wait", "ended"}) =>
  <>[](\A p \in DOMAIN table \ {current} : InWindow(p) => table[p].frozen)
=============================================================================
