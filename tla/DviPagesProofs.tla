--------------------------- MODULE DviPagesProofs ---------------------------
(* Proofs about the page cache of the DVI library, for every number of pages, *)
(* of versions of the file, every window and every set of operations.         *)
EXTENDS DviPages, SequenceTheorems, TLAPS

Page == [frozen : BOOLEAN, holder : {"none", "main", "loader"}]

\* The two threads that load pages.
Loading == {"main", "loader"}

\* Where a thread is in GetLoadedPage and holds dviMutex.
Inside == {"status", "scanOpen", "scanFree", "scanRead", "load", "get"}

\* A file that is written anew is not older, and nobody knows a later time.
TimeInv == lastWriteTime <= file.time /\ file.time <= file.version

\* Going back one is on page 1 at least; the loader asks for pages that exist or
\* have existed.
PlaceInv ==
  /\ direction = -1 => current >= 1
  /\ pc["loader"] \in Inside \union {"use"} => arg["loader"] \in 1..MaxPages

\* The client asks for pages from the first on.
AskInv ==
  pc["main"] \in Inside \union {"use", "enter"} /\ op # "create" => arg["main"] >= 1

\* While the first scan runs, without dviMutex, the loader waits for it and the
\* collector finds no page that is loaded.
CreateInv ==
  op = "create" =>
    /\ pc["main"] \in {"scanOpen", "scanFree", "scanRead"} /\ pc["loader"] = "wait"
    /\ ~ scanned /\ ~ bye

\* Who is in GetLoadedPage holds dviMutex, and so does a client that searches or
\* uses the magnifying glass.
OwnerInv ==
  /\ \A t \in Loading : pc[t] \in Inside => owner = t \/ (t = "main" /\ op = "create")
  /\ pc["main"] = "use" /\ op \in {"magnify", "search"} => owner = "main"

NameOnly(t) == t = "main" /\ op = "name"

Loaded(p) == p \in DOMAIN table /\ table[p].frozen

\* What has been seen in GetLoadedPage holds until the page is returned, and
\* then as long as it is used.
SeenInv ==
  \A t \in Loading :
    /\ pc[t] = "scanRead" => table = <<>>
    /\ pc[t] = "get" /\ ~ NameOnly(t) => Loaded(arg[t])
    /\ pc[t] = "use" =>
         /\ arg[t] \in DOMAIN table /\ table[arg[t]].holder = t
         /\ NameOnly(t) \/ table[arg[t]].frozen

IInv ==
  /\ TypeOK /\ TimeInv /\ PlaceInv /\ AskInv /\ CreateInv /\ OwnerInv /\ SeenInv
  /\ NoChangeMissed /\ NoErrorLost
-----------------------------------------------------------------------------
(* Tables.                                                                    *)

\* A table is a function on its pages.
LEMMA TableIsFunction ==
  ASSUME NEW T \in Seq(Page)
  PROVE  Len(T) \in Nat /\ DOMAIN T = 1..Len(T) /\ T \in [1..Len(T) -> Page]
BY LenProperties

\* Loading or freeing a page keeps the table a table, and so does locking it.
LEMMA FrozenOfPage ==
  ASSUME NEW T \in Seq(Page), NEW p \in DOMAIN T, NEW b \in BOOLEAN
  PROVE  /\ [T EXCEPT ![p].frozen = b] \in Seq(Page)
         /\ Len([T EXCEPT ![p].frozen = b]) = Len(T)
<1>1. Len(T) \in Nat /\ p \in 1..Len(T) /\ T[p] \in Page
  BY TableIsFunction, ElementOfSeq
<1>2. [T[p] EXCEPT !.frozen = b] \in Page
  BY <1>1 DEF Page
<1>3. /\ [T EXCEPT ![p] = [T[p] EXCEPT !.frozen = b]] \in Seq(Page)
      /\ Len([T EXCEPT ![p] = [T[p] EXCEPT !.frozen = b]]) = Len(T)
  BY <1>1, <1>2, ExceptSeq
<1>4. QED
  BY <1>3

LEMMA HolderOfPage ==
  ASSUME NEW T \in Seq(Page), NEW p \in DOMAIN T, NEW h \in {"none", "main", "loader"}
  PROVE  /\ [T EXCEPT ![p].holder = h] \in Seq(Page)
         /\ Len([T EXCEPT ![p].holder = h]) = Len(T)
<1>1. Len(T) \in Nat /\ p \in 1..Len(T) /\ T[p] \in Page
  BY TableIsFunction, ElementOfSeq
<1>2. [T[p] EXCEPT !.holder = h] \in Page
  BY <1>1 DEF Page
<1>3. /\ [T EXCEPT ![p] = [T[p] EXCEPT !.holder = h]] \in Seq(Page)
      /\ Len([T EXCEPT ![p] = [T[p] EXCEPT !.holder = h]]) = Len(T)
  BY <1>1, <1>2, ExceptSeq
<1>4. QED
  BY <1>3

LEMMA NewTableIsTable ==
  ASSUME NEW n \in Nat
  PROVE  NewTable(n) \in Seq(Page) /\ Len(NewTable(n)) = n
<1>1. NewTable(n) \in [1..n -> Page]
  BY DEF NewTable, Page
<1>2. NewTable(n) \in Seq(Page)
  BY <1>1, SeqDef
<1>3. DOMAIN NewTable(n) = 1..n
  BY DEF NewTable
<1>4. QED
  BY <1>2, <1>3, LenProperties
-----------------------------------------------------------------------------
(* Types.                                                                     *)

\* The parts of TypeOK that the ways out of a critical section change.
OutTypes ==
  /\ owner' \in {"none", "main", "loader"}
  /\ pc' \in [Thread -> Place]
  /\ arg' \in [Thread -> 0..MaxPages + 1]
  /\ op' \in Operation \union {"create", "none"}

LEMMA LeavesTypes ==
  ASSUME TypeOK, ClientLeaves("idle") \/ ClientLeaves("failed")
  PROVE  OutTypes
BY ConstantsAssumption DEF TypeOK, Place, OutTypes, ClientLeaves, Goto, Thread

LEMMA ThrowsTypes ==
  ASSUME TypeOK, NEW t \in Loading, Throws(t)
  PROVE  OutTypes /\ error' \in BOOLEAN /\ reported' \in BOOLEAN
<1>1. CASE t = "main"
  <2>1. ClientLeaves("idle") \/ ClientLeaves("failed")
    BY <1>1 DEF Throws
  <2>2. OutTypes
    BY <2>1, LeavesTypes
  <2>3. QED
    BY <1>1, <2>2 DEF Throws, TypeOK, Place
<1>2. CASE t = "loader"
  BY <1>2, ConstantsAssumption DEF Throws, TypeOK, Place, OutTypes, Goto, Thread
<1>3. QED
  BY <1>1, <1>2 DEF Loading

LEMMA NothingTypes ==
  ASSUME TypeOK, PlaceInv, NEW t \in Loading, pc[t] \in Inside, ReturnsNothing(t)
  PROVE  OutTypes
<1>1. CASE t = "main"
  <2>1. ClientLeaves("idle")
    BY <1>1 DEF ReturnsNothing
  <2>2. QED
    BY <2>1, LeavesTypes
<1>2. CASE t = "loader"
  <2>1. arg["loader"] + direction \in 0..MaxPages + 1
    BY <1>2, ConstantsAssumption DEF TypeOK, Place, PlaceInv
  <2>2. QED
    BY <1>2, <2>1 DEF ReturnsNothing, TypeOK, Place, OutTypes, Goto, Thread
<1>3. QED
  BY <1>1, <1>2 DEF Loading

\* What comes after GetPageStatus.
GoesOn(t, looks) ==
  /\ \E place \in {"scanOpen", "load", "get"} :
       /\ Goto(t, place)
       /\ place = "get" => PageStatus(arg[t], looks) = "Loaded"
  /\ owner' = t /\ UNCHANGED <<arg, op>>

AfterStatus(t, looks) ==
  \/ t = "main" /\ ClientLeaves("idle")
  \/ ReturnsNothing(t)
  \/ GoesOn(t, looks)

LEMMA StatusOutcome ==
  ASSUME NEW t \in Loading, Status(t)
  PROVE  \E looks \in BOOLEAN : TakesTime(arg[t], looks) /\ AfterStatus(t, looks)
<1>1. PICK looks \in BOOLEAN :
        LET status == PageStatus(arg[t], looks)
        IN /\ TakesTime(arg[t], looks)
           /\ \/ t = "main" /\ op = "status" /\ ClientLeaves("idle")
              \/ /\ ~(t = "main" /\ op = "status") /\ status \in {"Lost", "Unknown"}
                 /\ ReturnsNothing(t)
              \/ /\ ~(t = "main" /\ op = "status") /\ status \notin {"Lost", "Unknown"}
                 /\ Goto(t, CASE status = "Changed" -> "scanOpen"
                              [] status = "NotLoaded" -> "load"
                              [] status = "Loaded" -> "get")
                 /\ owner' = t /\ UNCHANGED <<arg, op>>
  BY DEF Status
<1>2. PageStatus(arg[t], looks) \in {"Unknown", "NotLoaded", "Changed", "Loaded", "Lost"}
  BY DEF PageStatus
<1>3. AfterStatus(t, looks)
  BY <1>1, <1>2 DEF AfterStatus, GoesOn
<1>4. QED
  BY <1>1, <1>3

LEMMA LoadingKeepsTypes ==
  ASSUME TypeOK, PlaceInv, NEW t \in Loading, GetLoadedPage(t)
  PROVE  TypeOK'
<1> USE DEF fileVars, tableVars, placeVars, errorVars, Loading, Thread
<1>0. /\ table \in Seq(Page) /\ Len(table) \in Nat /\ DOMAIN table = 1..Len(table)
      /\ Len(table) <= MaxPages
  BY TableIsFunction DEF TypeOK, Place, Page
<1>1. CASE Status(t)
  <2>1. UNCHANGED <<file, table, tableTime, scanned, placeVars, bye, best, errorVars>>
    BY <1>1 DEF Status
  <2>2. PICK looks \in BOOLEAN : TakesTime(arg[t], looks) /\ AfterStatus(t, looks)
    BY <1>1, StatusOutcome
  <2>3. lastWriteTime' \in Version /\ changed' \in BOOLEAN
    BY <2>2 DEF TakesTime, SeesTime, TypeOK, Place
  <2>4. OutTypes
    <3>1. pc[t] \in Inside
      BY <1>1 DEF Status, Inside
    <3>2. CASE GoesOn(t, looks)
      BY <3>2 DEF GoesOn, Goto, TypeOK, Place, OutTypes
    <3>3. QED
      BY <2>2, <3>1, <3>2, LeavesTypes, NothingTypes DEF AfterStatus
  <2>5. QED
    BY <2>1, <2>3, <2>4 DEF TypeOK, Place, OutTypes
<1>2. CASE ScanOpen(t)
  <2>1. OutTypes /\ error' \in BOOLEAN /\ reported' \in BOOLEAN
    <3>1. CASE Throws(t)
      BY <3>1, ThrowsTypes
    <3>2. CASE Goto(t, "scanFree") /\ UNCHANGED <<owner, arg, op, errorVars>>
      BY <3>2 DEF Goto, TypeOK, Place, OutTypes
    <3>3. QED
      BY <1>2, <3>1, <3>2 DEF ScanOpen
  <2>2. QED
    BY <1>2, <2>1 DEF ScanOpen, TypeOK, Place, OutTypes
<1>3. CASE ScanFree(t)
  <2>1. <<>> \in Seq(Page) /\ Len(<<>>) <= MaxPages
    BY EmptySeq, ConstantsAssumption
  <2>2. file.time \in Version
    BY DEF TypeOK, Place
  <2>3. QED
    BY <1>3, <2>1, <2>2 DEF ScanFree, Goto, TypeOK, Place, Page
<1>4. CASE ScanRead(t)
  <2>1. PageCount[file.version] \in 1..MaxPages /\ file.time \in Version
    BY ConstantsAssumption DEF TypeOK, Place
  <2>2. table' \in Seq(Page) /\ Len(table') <= MaxPages
    BY <1>4, <2>1, NewTableIsTable, ConstantsAssumption DEF ScanRead
  <2>3. OutTypes
    <3>1. CASE ClientLeaves("idle")
      BY <3>1, LeavesTypes
    <3>2. CASE Goto(t, "load") /\ UNCHANGED <<owner, arg, op>>
      BY <3>2 DEF Goto, TypeOK, Place, OutTypes
    <3>3. QED
      BY <1>4, <3>1, <3>2 DEF ScanRead
  <2>4. QED
    BY <1>4, <2>1, <2>2, <2>3 DEF ScanRead, TypeOK, Place, OutTypes, Page
<1>5. CASE ScanFails(t)
  <2>1. PageCount[file.version] \in 1..MaxPages /\ file.time \in Version
    BY ConstantsAssumption DEF TypeOK, Place
  <2>2. table' \in Seq(Page) /\ Len(table') <= MaxPages
    <3>1. PICK n \in 0..PageCount[file.version] - 1 : table' = NewTable(n)
      BY <1>5 DEF ScanFails
    <3>2. n \in Nat /\ n <= MaxPages
      BY <2>1, ConstantsAssumption
    <3>3. QED
      BY <3>1, <3>2, NewTableIsTable
  <2>3. OutTypes /\ error' \in BOOLEAN /\ reported' \in BOOLEAN
    BY <1>5, ThrowsTypes DEF ScanFails
  <2>4. QED
    BY <1>5, <2>1, <2>2, <2>3 DEF ScanFails, TypeOK, Place, OutTypes, Page
<1>6. CASE Load(t)
  <2>1. table' \in Seq(Page) /\ Len(table') = Len(table)
    BY <1>0, <1>6, FrozenOfPage DEF Load
  <2>2. QED
    BY <1>0, <1>6, <2>1 DEF Load, Goto, TypeOK, Place, Page
<1>7. CASE LoadFails(t)
  <2>1. table' \in Seq(Page) /\ Len(table') = Len(table)
    <3>1. (file.state = "busy") \in BOOLEAN
      OBVIOUS
    <3>2. QED
      BY <1>0, <1>7, <3>1, FrozenOfPage DEF LoadFails
  <2>2. OutTypes /\ error' \in BOOLEAN /\ reported' \in BOOLEAN
    BY <1>7, ThrowsTypes DEF LoadFails
  <2>3. QED
    BY <1>0, <1>7, <2>1, <2>2 DEF LoadFails, TypeOK, Place, OutTypes, Page
<1>8. CASE Crash(t)
  BY <1>8 DEF Crash, TypeOK, Place
<1>9. CASE Get(t)
  <2>1. CASE arg[t] \in DOMAIN table /\ Free(arg[t])
    <3>1. /\ table' = LockedBy(t, arg[t]) /\ Visits(t, arg[t])
          /\ owner' \in {"none", t} /\ Goto(t, "use") /\ UNCHANGED <<arg, op>>
      BY <1>0, <1>9, <2>1 DEF Get
    <3>2. table' \in Seq(Page) /\ Len(table') = Len(table)
      BY <1>0, <2>1, <3>1, HolderOfPage DEF LockedBy
    <3>3. current' \in 0..MaxPages /\ direction' \in {-1, 1} /\ newPage' \in BOOLEAN
      <4>1. arg[t] \in 0..MaxPages
        BY <1>0, <2>1, ConstantsAssumption
      <4>2. CASE t = "main" /\ arg[t] # current
        BY <3>1, <4>1, <4>2 DEF Visits, TypeOK, Place
      <4>3. CASE ~(t = "main" /\ arg[t] # current)
        BY <3>1, <4>3 DEF Visits, TypeOK, Place
      <4>4. QED
        BY <4>2, <4>3
    <3>4. QED
      BY <1>0, <1>9, <3>1, <3>2, <3>3 DEF Get, Goto, TypeOK, Place, Page
  <2>2. CASE ~(arg[t] \in DOMAIN table /\ Free(arg[t]))
    <3>1. ReturnsNothing(t) /\ UNCHANGED <<table, placeVars>> /\ pc[t] \in Inside
      BY <1>9, <2>2 DEF Get, Inside
    <3>2. OutTypes
      BY <3>1, NothingTypes
    <3>3. QED
      BY <1>9, <3>1, <3>2 DEF Get, TypeOK, Place, OutTypes
  <2>3. QED
    BY <2>1, <2>2
<1>10. QED
  BY <1>1, <1>2, <1>3, <1>4, <1>5, <1>6, <1>7, <1>8, <1>9 DEF GetLoadedPage

LEMMA ClientKeepsTypes ==
  ASSUME TypeOK, SeenInv,
         \/ CheckCondition \/ Enter \/ Unlock \/ SearchNext \/ Dispose \/ Join
         \/ \E o \in Operation, p \in 1..MaxPages : Calls(o, p)
  PROVE  TypeOK'
<1> USE DEF fileVars, tableVars, placeVars, errorVars, Thread
<1>0. /\ table \in Seq(Page) /\ Len(table) \in Nat /\ DOMAIN table = 1..Len(table)
      /\ Len(table) <= MaxPages
  BY TableIsFunction DEF TypeOK, Place, Page
<1>1. CASE CheckCondition
  <2>1. OutTypes
    BY <1>1, LeavesTypes DEF CheckCondition, Reports
  <2>2. QED
    BY <1>1, <2>1 DEF CheckCondition, Reports, TypeOK, Place, OutTypes
<1>2. CASE Enter
  BY <1>2 DEF Enter, Goto, TypeOK, Place
<1>3. ASSUME pc["main"] = "use"
      PROVE  /\ arg["main"] \in DOMAIN table
             /\ Unlocked(arg["main"]) \in Seq(Page) /\ Len(Unlocked(arg["main"])) = Len(table)
  <2>1. arg["main"] \in DOMAIN table
    BY <1>3 DEF SeenInv, Loading
  <2>2. QED
    BY <1>0, <2>1, HolderOfPage DEF Unlocked
<1>4. CASE Unlock
  <2>1. OutTypes
    BY <1>4, LeavesTypes DEF Unlock
  <2>2. table' \in Seq(Page) /\ Len(table') = Len(table)
    BY <1>3, <1>4 DEF Unlock
  <2>3. QED
    BY <1>0, <1>4, <2>1, <2>2 DEF Unlock, TypeOK, Place, OutTypes, Page
<1>5. CASE SearchNext
  <2>1. table' \in Seq(Page) /\ Len(table') = Len(table) /\ arg["main"] \in DOMAIN table
    BY <1>3, <1>5 DEF SearchNext
  <2>2. arg["main"] + 1 \in 0..MaxPages + 1
    BY <1>0, <2>1, ConstantsAssumption
  <2>3. QED
    BY <1>0, <1>5, <2>1, <2>2 DEF SearchNext, Goto, TypeOK, Place, Page
<1>6. CASE Dispose
  BY <1>6 DEF Dispose, Goto, TypeOK, Place
<1>7. CASE Join
  <2>1. <<>> \in Seq(Page) /\ Len(<<>>) <= MaxPages
    BY EmptySeq, ConstantsAssumption
  <2>2. QED
    BY <1>7, <2>1 DEF Join, Goto, TypeOK, Place, Page
<1>8. ASSUME NEW o \in Operation, NEW p \in 1..MaxPages, Calls(o, p) PROVE TypeOK'
  <2>1. p \in 0..MaxPages + 1
    BY ConstantsAssumption
  <2>2. QED
    BY <1>8, <2>1 DEF Calls, Goto, TypeOK, Place
<1>9. QED
  BY <1>1, <1>2, <1>4, <1>5, <1>6, <1>7, <1>8

LEMMA LoaderKeepsTypes ==
  ASSUME TypeOK, PlaceInv, SeenInv,
         LoaderEnds \/ LoaderStarts \/ LoaderTick \/ Render \/ RenderFails
  PROVE  TypeOK'
<1> USE DEF fileVars, tableVars, placeVars, errorVars, Thread
<1>0. /\ table \in Seq(Page) /\ Len(table) \in Nat /\ DOMAIN table = 1..Len(table)
      /\ Len(table) <= MaxPages
  BY TableIsFunction DEF TypeOK, Place, Page
<1>1. CASE LoaderEnds
  BY <1>1, ConstantsAssumption DEF LoaderEnds, Goto, TypeOK, Place
<1>2. CASE LoaderStarts
  <2>1. current + 1 \in 0..MaxPages + 1
    BY ConstantsAssumption DEF TypeOK, Place
  <2>2. QED
    BY <1>2, <2>1 DEF LoaderStarts, Goto, TypeOK, Place
<1>3. CASE LoaderTick
  <2>1. /\ newPage' = FALSE /\ owner' \in {"none", "loader"}
        /\ pc' \in {pc, [pc EXCEPT !["loader"] = "status"]}
        /\ UNCHANGED <<file, tableVars, current, direction, bye, op, best, errorVars>>
        /\ \E p : arg' = [arg EXCEPT !["loader"] = p] /\ p \in 0..MaxPages + 1
    <3>1. PICK p : /\ p = IF newPage THEN current ELSE arg["loader"]
                   /\ \/ /\ p \in DOMAIN table
                         /\ owner' = "loader" /\ Goto("loader", "status")
                         /\ arg' = [arg EXCEPT !["loader"] = p]
                      \/ /\ arg' = [arg EXCEPT !["loader"] = NextPage(p)]
                         /\ UNCHANGED <<owner, pc>>
      BY <1>3 DEF LoaderTick
    <3>2. p \in 0..MaxPages + 1
      BY <3>1, ConstantsAssumption DEF TypeOK, Place
    <3>3. NextPage(p) \in 0..MaxPages + 1
      <4>1. CASE p \in DOMAIN table
        BY <1>0, <4>1, ConstantsAssumption DEF NextPage, TypeOK, Place
      <4>2. CASE p \notin DOMAIN table
        BY <4>2, ConstantsAssumption DEF NextPage, TypeOK, Place, PlaceInv
      <4>3. QED
        BY <4>1, <4>2
    <3>4. owner' \in {"none", "loader"} /\ pc' \in {pc, [pc EXCEPT !["loader"] = "status"]}
      BY <1>3, <3>1 DEF LoaderTick, Goto
    <3>5. \E q : arg' = [arg EXCEPT !["loader"] = q] /\ q \in 0..MaxPages + 1
      BY <3>1, <3>2, <3>3
    <3>6. QED
      BY <1>3, <3>4, <3>5 DEF LoaderTick
  <2>2. arg' \in [Thread -> 0..MaxPages + 1]
    BY <2>1 DEF TypeOK, Place
  <2>3. UNCHANGED <<file, tableVars, current, direction, bye, op, best, errorVars>>
        /\ newPage' \in BOOLEAN /\ owner' \in {"none", "main", "loader"}
    BY <2>1
  <2>4. CASE pc' = pc
    BY <2>2, <2>3, <2>4 DEF TypeOK, Place
  <2>5. CASE pc' = [pc EXCEPT !["loader"] = "status"]
    BY <2>2, <2>3, <2>5 DEF TypeOK, Place
  <2>6. QED
    BY <2>1, <2>4, <2>5
<1>4. ASSUME pc["loader"] = "use"
      PROVE  /\ arg["loader"] \in DOMAIN table
             /\ Unlocked(arg["loader"]) \in Seq(Page)
             /\ Len(Unlocked(arg["loader"])) = Len(table)
  <2>1. arg["loader"] \in DOMAIN table
    BY <1>4 DEF SeenInv, Loading
  <2>2. QED
    BY <1>0, <2>1, HolderOfPage DEF Unlocked
<1>5. CASE Render
  <2>1. table' \in Seq(Page) /\ Len(table') = Len(table) /\ arg["loader"] \in DOMAIN table
    BY <1>4, <1>5 DEF Render
  <2>2. arg["loader"] + direction \in 0..MaxPages + 1
    BY <1>0, <2>1, ConstantsAssumption DEF TypeOK, Place
  <2>3. QED
    BY <1>0, <1>5, <2>1, <2>2 DEF Render, Goto, TypeOK, Place, Page
<1>6. CASE RenderFails
  <2>1. table' \in Seq(Page) /\ Len(table') = Len(table)
    BY <1>4, <1>6 DEF RenderFails
  <2>2. OutTypes /\ error' \in BOOLEAN /\ reported' \in BOOLEAN
    BY <1>6, ThrowsTypes DEF RenderFails, Loading
  <2>3. QED
    BY <1>0, <1>6, <2>1, <2>2 DEF RenderFails, TypeOK, Place, OutTypes, Page
<1>7. QED
  BY <1>1, <1>2, <1>3, <1>5, <1>6

LEMMA CollectorKeepsTypes ==
  ASSUME TypeOK, GarbageCollector
  PROVE  TypeOK'
<1> USE DEF fileVars, tableVars, placeVars, errorVars, Thread
<1>0. /\ table \in Seq(Page) /\ Len(table) \in Nat /\ DOMAIN table = 1..Len(table)
      /\ Len(table) <= MaxPages
  BY TableIsFunction DEF TypeOK, Place, Page
<1>1. CASE GcEnds \/ GcWakes \/ GcCheck \/ GcDies
  <2>1. 0 \in 0..MaxPages + 1 /\ 1 \in 0..MaxPages + 1 /\ 0 \in 0..MaxPages
    BY ConstantsAssumption
  <2>2. CASE GcEnds
    BY <2>1, <2>2 DEF GcEnds, Goto, TypeOK, Place
  <2>3. CASE GcWakes
    BY <2>1, <2>3 DEF GcWakes, Goto, TypeOK, Place
  <2>4. CASE GcCheck
    BY <2>1, <2>4 DEF GcCheck, Goto, TypeOK, Place
  <2>5. CASE GcDies
    BY <2>5 DEF GcDies, GcRethrows, Goto, TypeOK, Place
  <2>6. QED
    BY <1>1, <2>2, <2>3, <2>4, <2>5
<1>2. CASE GcVisit
  <2>1. CASE arg["gc"] \in DOMAIN table
    <3>1. arg["gc"] \in 0..MaxPages /\ arg["gc"] + 1 \in 0..MaxPages + 1
      BY <1>0, <2>1, ConstantsAssumption
    <3>2. QED
      BY <1>0, <1>2, <2>1, <3>1 DEF GcVisit, TypeOK, Place
  <2>2. CASE arg["gc"] \notin DOMAIN table
    BY <1>2, <2>2, ConstantsAssumption DEF GcVisit, Goto, TypeOK, Place
  <2>3. QED
    BY <2>1, <2>2
<1>3. CASE GcCollect
  <2>1. table' \in Seq(Page) /\ Len(table') = Len(table)
    <3>1. CASE best \in DOMAIN table /\ Free(best)
      BY <1>0, <1>3, <3>1, FrozenOfPage DEF GcCollect
    <3>2. CASE ~(best \in DOMAIN table /\ Free(best))
      BY <1>0, <1>3, <3>2 DEF GcCollect
    <3>3. QED
      BY <3>1, <3>2
  <2>2. QED
    BY <1>0, <1>3, <2>1, ConstantsAssumption DEF GcCollect, Goto, TypeOK, Place, Page
<1>4. QED
  BY <1>1, <1>2, <1>3 DEF GarbageCollector

LEMMA OthersKeepTypes ==
  ASSUME TypeOK, TimeInv, WriterOpens \/ ReaderOpens \/ Closes \/ Deletes
  PROVE  TypeOK'
<1> USE DEF fileVars, tableVars, placeVars, errorVars, Others
<1>1. CASE WriterOpens
  <2>1. PICK time \in {file.time, file.time + 1} :
          file' = [version |-> file.version + 1, time |-> time, state |-> "busy"]
    BY <1>1 DEF WriterOpens
  <2>2. file.version + 1 \in Version /\ time \in Version
    BY <1>1, <2>1, ConstantsAssumption DEF WriterOpens, TypeOK, Place, TimeInv, Version
  <2>3. QED
    BY <1>1, <2>1, <2>2 DEF WriterOpens, TypeOK, Place
<1>2. CASE ReaderOpens \/ Closes \/ Deletes
  BY <1>2 DEF ReaderOpens, Closes, Deletes, TypeOK, Place
<1>3. QED
  BY <1>1, <1>2
-----------------------------------------------------------------------------
(* Changes of the file, and errors.                                           *)

\* A step that neither looks at the file nor fills the table.
LEMMA NoLook ==
  ASSUME TimeInv, NoChangeMissed, UNCHANGED <<file, lastWriteTime, changed, tableTime>>,
         table' # <<>> => table # <<>>
  PROVE  TimeInv' /\ NoChangeMissed'
BY DEF TimeInv, NoChangeMissed

\* Changing a page does not make a table of an empty one.
LEMMA NotEmpty ==
  ASSUME TypeOK, NEW p \in DOMAIN table
  PROVE  table # <<>>
<1>1. /\ table \in Seq(Page) /\ Len(table) \in Nat /\ DOMAIN table = 1..Len(table)
  BY TableIsFunction DEF TypeOK, Page
<1>2. Len(table) # 0
  BY <1>1
<1>3. QED
  BY <1>2, EmptySeq

LEMMA TimesKept ==
  ASSUME TypeOK, TimeInv, NoChangeMissed, SeenInv, Next
  PROVE  TimeInv' /\ NoChangeMissed'
<1> USE DEF fileVars, tableVars, placeVars, errorVars, Others
<1>0. /\ file.time \in Int /\ file.version \in Int /\ lastWriteTime \in Int
      /\ tableTime \in Int /\ changed \in BOOLEAN
  BY ConstantsAssumption DEF TypeOK, Version
<1>1. ASSUME NEW t \in Loading, Status(t) PROVE TimeInv' /\ NoChangeMissed'
  <2>1. PICK looks \in BOOLEAN : TakesTime(arg[t], looks)
    BY <1>1 DEF Status
  <2>2. UNCHANGED <<file, table, tableTime>>
    BY <1>1 DEF Status
  <2>3. /\ lastWriteTime' = IF SeesTime(arg[t], looks) THEN file.time ELSE lastWriteTime
        /\ changed' = (PageStatus(arg[t], looks) = "Changed" \/ changed)
    BY <2>1 DEF TakesTime
  <2>4. CASE SeesTime(arg[t], looks)
    <3>1. lastWriteTime # file.time => PageStatus(arg[t], looks) = "Changed"
      <4>1. arg[t] \in Int /\ Len(table) \in Int
        BY ConstantsAssumption, TableIsFunction DEF TypeOK, Page, Loading, Thread
      <4>2. QED
        BY <2>4, <4>1 DEF SeesTime, PageStatus
    <3>2. changed \/ lastWriteTime # file.time => changed'
      BY <2>3, <3>1
    <3>3. lastWriteTime' = file.time
      BY <2>3, <2>4
    <3>4. QED
      BY <1>0, <2>2, <3>2, <3>3 DEF TimeInv, NoChangeMissed
  <2>5. CASE ~ SeesTime(arg[t], looks)
    BY <1>0, <2>2, <2>3, <2>5 DEF TimeInv, NoChangeMissed
  <2>6. QED
    BY <2>4, <2>5
<1>2. ASSUME NEW t \in Loading, ScanFree(t) \/ ScanRead(t) \/ ScanFails(t)
      PROVE  TimeInv' /\ NoChangeMissed'
  BY <1>0, <1>2 DEF ScanFree, ScanRead, ScanFails, TimeInv, NoChangeMissed
<1>3. ASSUME NEW t \in Loading, ScanOpen(t) \/ Crash(t) PROVE TimeInv' /\ NoChangeMissed'
  BY <1>3, NoLook DEF ScanOpen, Crash
<1>4. ASSUME NEW t \in Loading, Load(t) \/ LoadFails(t) PROVE TimeInv' /\ NoChangeMissed'
  BY <1>4, NoLook, NotEmpty DEF Load, LoadFails
<1>5. ASSUME NEW t \in Loading, Get(t) PROVE TimeInv' /\ NoChangeMissed'
  <2>1. table' = table \/ arg[t] \in DOMAIN table
    BY <1>5 DEF Get
  <2>2. QED
    BY <1>5, <2>1, NoLook, NotEmpty DEF Get
<1>6. ASSUME NEW t \in Loading, GetLoadedPage(t) PROVE TimeInv' /\ NoChangeMissed'
  BY <1>1, <1>2, <1>3, <1>4, <1>5, <1>6 DEF GetLoadedPage
<1>7. CASE Client
  <2>1. CASE CheckCondition \/ Join
    BY <2>1, NoLook DEF CheckCondition, Join
  <2>2. CASE Unlock \/ SearchNext
    <3>1. arg["main"] \in DOMAIN table
      BY <2>2 DEF Unlock, SearchNext, SeenInv, Loading
    <3>2. QED
      BY <2>2, <3>1, NoLook, NotEmpty DEF Unlock, SearchNext
  <2>3. QED
    BY <1>6, <1>7, <2>1, <2>2 DEF Client, Loading
<1>8. CASE PageLoader
  <2>1. CASE LoaderEnds \/ LoaderStarts \/ LoaderTick
    BY <2>1, NoLook DEF LoaderEnds, LoaderStarts, LoaderTick
  <2>2. CASE Render \/ RenderFails
    <3>1. arg["loader"] \in DOMAIN table
      BY <2>2 DEF Render, RenderFails, SeenInv, Loading
    <3>2. QED
      BY <2>2, <3>1, NoLook, NotEmpty DEF Render, RenderFails
  <2>3. QED
    BY <1>6, <1>8, <2>1, <2>2 DEF PageLoader, Loading
<1>9. CASE GarbageCollector
  <2>1. CASE GcEnds \/ GcWakes \/ GcCheck \/ GcDies \/ GcVisit
    BY <2>1, NoLook DEF GcEnds, GcWakes, GcCheck, GcDies, GcVisit
  <2>2. CASE GcCollect
    <3>1. table' = table \/ best \in DOMAIN table
      BY <2>2 DEF GcCollect
    <3>2. QED
      BY <2>2, <3>1, NoLook, NotEmpty DEF GcCollect
  <2>3. QED
    BY <1>9, <2>1, <2>2 DEF GarbageCollector
<1>10. CASE \/ Dispose \/ Enter \/ Over
            \/ \E o \in Operation, p \in 1..MaxPages : Calls(o, p)
  BY <1>10, NoLook DEF Dispose, Enter, Over, Calls, vars
<1>11. CASE WriterOpens
  <2>1. PICK time \in {file.time, file.time + 1} :
          file' = [version |-> file.version + 1, time |-> time, state |-> "busy"]
    BY <1>11 DEF WriterOpens
  <2>2. UNCHANGED <<lastWriteTime, changed, tableTime, table>>
    BY <1>11 DEF WriterOpens
  <2>3. QED
    BY <1>0, <2>1, <2>2 DEF TimeInv, NoChangeMissed
<1>12. CASE ReaderOpens \/ Closes \/ Deletes
  <2>1. file'.time = file.time /\ file'.version = file.version
    BY <1>12 DEF ReaderOpens, Closes, Deletes, TypeOK
  <2>2. UNCHANGED <<lastWriteTime, changed, tableTime, table>>
    BY <1>12 DEF ReaderOpens, Closes, Deletes
  <2>3. QED
    BY <2>1, <2>2 DEF TimeInv, NoChangeMissed
<1>13. QED
  BY <1>7, <1>8, <1>9, <1>10, <1>11, <1>12 DEF Next
-----------------------------------------------------------------------------
(* Who holds dviMutex.                                                        *)

\* What an exception or a return leaves behind.
LEMMA LeavesOwner ==
  ASSUME TypeOK, CreateInv, OwnerInv, NEW t \in Loading,
         \/ pc[t] \in Inside /\ ReturnsNothing(t)
         \/ pc[t] \in Inside \union {"use"} /\ Throws(t)
         \/ t = "main" /\ (ClientLeaves("idle") \/ ClientLeaves("failed"))
  PROVE  CreateInv' /\ OwnerInv'
<1> USE DEF Loading, Inside, Thread, Goto
<1>1. pc \in [Thread -> Place]
  BY DEF TypeOK
<1>2. CASE t = "main"
  <2>1. /\ op' = "none" /\ owner' = IF owner = "main" THEN "none" ELSE owner
        /\ pc' = [pc EXCEPT !["main"] = "idle"] \/ pc' = [pc EXCEPT !["main"] = "failed"]
    BY <1>2 DEF Throws, ReturnsNothing, ClientLeaves
  <2>2. QED
    BY <1>1, <2>1 DEF CreateInv, OwnerInv
<1>3. CASE t = "loader"
  <2>1. /\ op' = op /\ (owner' = owner \/ owner = "loader")
        /\ pc' = [pc EXCEPT !["loader"] = "ended"] \/ pc' = [pc EXCEPT !["loader"] = "tick"]
    <3>1. CASE Throws(t)
      BY <1>3, <3>1 DEF Throws
    <3>2. CASE pc[t] \in Inside /\ ReturnsNothing(t)
      BY <1>3, <3>2 DEF ReturnsNothing, OwnerInv
    <3>3. QED
      BY <1>3, <3>1, <3>2
  <2>2. op # "create"
    BY <1>3 DEF CreateInv, Throws, ReturnsNothing
  <2>3. pc'["main"] = pc["main"] /\ pc'["loader"] \notin Inside
    BY <1>1, <2>1
  <2>4. QED
    BY <2>1, <2>2, <2>3 DEF CreateInv, OwnerInv
<1>4. QED
  BY <1>2, <1>3

LEMMA OwnersKept ==
  ASSUME TypeOK, CreateInv, OwnerInv, Next
  PROVE  CreateInv' /\ OwnerInv'
<1> USE DEF Loading, Inside, Thread, Goto, fileVars, tableVars, placeVars, errorVars
<1>0. pc \in [Thread -> Place]
  BY DEF TypeOK
<1>1. ASSUME NEW t \in Loading, Status(t) PROVE CreateInv' /\ OwnerInv'
  <2>1. PICK looks \in BOOLEAN : AfterStatus(t, looks)
    BY <1>1, StatusOutcome
  <2>2. CASE ReturnsNothing(t) \/ (t = "main" /\ ClientLeaves("idle"))
    BY <1>1, <2>2, LeavesOwner DEF Status
  <2>3. CASE GoesOn(t, looks)
    <3>1. /\ pc[t] = "status" /\ Mine(t) /\ UNCHANGED <<op, scanned, bye>>
      BY <1>1, <2>3 DEF Status, GoesOn
    <3>2. op # "create" /\ owner = t /\ owner' = t
      BY <2>3, <3>1 DEF CreateInv, OwnerInv, GoesOn
    <3>3. PICK place \in {"scanOpen", "load", "get"} : pc' = [pc EXCEPT ![t] = place]
      BY <2>3 DEF GoesOn
    <3>4. QED
      BY <1>0, <3>1, <3>2, <3>3 DEF CreateInv, OwnerInv
  <2>4. QED
    BY <2>1, <2>2, <2>3 DEF AfterStatus
<1>2. ASSUME NEW t \in Loading, ScanOpen(t) PROVE CreateInv' /\ OwnerInv'
  <2>1. CASE Throws(t)
    BY <1>2, <2>1, LeavesOwner DEF ScanOpen
  <2>2. CASE ~ Throws(t)
    BY <1>0, <1>2, <2>2 DEF ScanOpen, CreateInv, OwnerInv
  <2>3. QED
    BY <2>1, <2>2
<1>3. ASSUME NEW t \in Loading, ScanFree(t) PROVE CreateInv' /\ OwnerInv'
  BY <1>0, <1>3 DEF ScanFree, CreateInv, OwnerInv
<1>4. ASSUME NEW t \in Loading, ScanRead(t) PROVE CreateInv' /\ OwnerInv'
  <2>1. CASE t = "main" /\ ClientLeaves("idle")
    BY <1>4, <2>1, LeavesOwner DEF ScanRead
  <2>2. CASE ~(t = "main" /\ ClientLeaves("idle"))
    <3>1. /\ ~(op = "create" /\ t = "main") /\ pc[t] = "scanRead"
          /\ pc' = [pc EXCEPT ![t] = "load"] /\ UNCHANGED <<owner, op>>
      BY <1>4, <2>2 DEF ScanRead
    <3>2. op # "create"
      BY <3>1 DEF CreateInv
    <3>3. QED
      BY <1>0, <3>1, <3>2 DEF CreateInv, OwnerInv
  <2>3. QED
    BY <2>1, <2>2
<1>5. ASSUME NEW t \in Loading, ScanFails(t) \/ LoadFails(t) PROVE CreateInv' /\ OwnerInv'
  BY <1>5, LeavesOwner DEF ScanFails, LoadFails
<1>6. ASSUME NEW t \in Loading, Load(t) PROVE CreateInv' /\ OwnerInv'
  BY <1>0, <1>6 DEF Load, CreateInv, OwnerInv
<1>7. ASSUME NEW t \in Loading, Crash(t) PROVE CreateInv' /\ OwnerInv'
  BY <1>7 DEF Crash, CreateInv, OwnerInv
<1>8. ASSUME NEW t \in Loading, Get(t) PROVE CreateInv' /\ OwnerInv'
  <2>1. CASE ReturnsNothing(t)
    BY <1>8, <2>1, LeavesOwner DEF Get
  <2>2. CASE ~ ReturnsNothing(t)
    <3>1. /\ pc[t] = "get" /\ pc' = [pc EXCEPT ![t] = "use"] /\ UNCHANGED <<op, scanned, bye>>
          /\ Mine(t) /\ (t = "main" /\ op \in {"magnify", "search"} => owner' = t)
      BY <1>8, <2>2 DEF Get
    <3>2. op # "create" /\ owner = t
      BY <3>1 DEF CreateInv, OwnerInv
    <3>3. CASE t = "main"
      BY <1>0, <3>1, <3>2, <3>3 DEF CreateInv, OwnerInv
    <3>4. CASE t = "loader"
      BY <1>0, <3>1, <3>2, <3>4 DEF CreateInv, OwnerInv
    <3>5. QED
      BY <3>3, <3>4
  <2>3. QED
    BY <2>1, <2>2
<1>9. ASSUME NEW t \in Loading, GetLoadedPage(t) PROVE CreateInv' /\ OwnerInv'
  BY <1>1, <1>2, <1>3, <1>4, <1>5, <1>6, <1>7, <1>8, <1>9 DEF GetLoadedPage
<1>10. CASE Client \/ Dispose \/ Enter \/ \E o \in Operation, p \in 1..MaxPages : Calls(o, p)
  <2>1. CASE CheckCondition
    BY <1>0, <2>1 DEF CheckCondition, Reports, ClientLeaves, CreateInv, OwnerInv
  <2>2. CASE Unlock
    BY <1>0, <2>2, LeavesOwner DEF Unlock
  <2>3. CASE SearchNext
    BY <1>0, <2>3 DEF SearchNext, CreateInv, OwnerInv
  <2>4. CASE Join
    BY <1>0, <2>4 DEF Join, CreateInv, OwnerInv
  <2>5. CASE Dispose
    BY <1>0, <2>5 DEF Dispose, CreateInv, OwnerInv
  <2>6. CASE Enter
    BY <1>0, <2>6 DEF Enter, CreateInv, OwnerInv
  <2>7. ASSUME NEW o \in Operation, NEW p \in 1..MaxPages, Calls(o, p)
        PROVE  CreateInv' /\ OwnerInv'
    BY <1>0, <2>7, ConstantsAssumption DEF Calls, CreateInv, OwnerInv
  <2>8. QED
    BY <1>9, <1>10, <2>1, <2>2, <2>3, <2>4, <2>5, <2>6, <2>7 DEF Client
<1>11. CASE PageLoader
  <2>1. CASE LoaderEnds
    BY <1>0, <2>1 DEF LoaderEnds, CreateInv, OwnerInv
  <2>2. CASE LoaderStarts
    BY <1>0, <2>2 DEF LoaderStarts, CreateInv, OwnerInv
  <2>3. CASE LoaderTick
    <3>1. /\ pc["loader"] = "tick" /\ owner = "none" /\ UNCHANGED <<op, scanned, bye>>
          /\ \/ owner' = "loader" /\ pc' = [pc EXCEPT !["loader"] = "status"]
             \/ UNCHANGED <<owner, pc>>
      BY <2>3 DEF LoaderTick
    <3>2. QED
      BY <1>0, <3>1 DEF CreateInv, OwnerInv
  <2>4. CASE Render
    BY <1>0, <2>4 DEF Render, CreateInv, OwnerInv
  <2>5. CASE RenderFails
    BY <2>5, LeavesOwner DEF RenderFails
  <2>6. QED
    BY <1>9, <1>11, <2>1, <2>2, <2>3, <2>4, <2>5 DEF PageLoader
<1>12. CASE GarbageCollector
  <2>1. /\ UNCHANGED <<owner, op, scanned, bye>>
        /\ pc'["main"] = pc["main"] /\ pc'["loader"] = pc["loader"]
    BY <1>0, <1>12 DEF GarbageCollector, GcEnds, GcWakes, GcCheck, GcDies, GcRethrows, GcVisit,
                       GcCollect
  <2>2. QED
    BY <2>1 DEF CreateInv, OwnerInv
<1>13. CASE WriterOpens \/ ReaderOpens \/ Closes \/ Deletes \/ Over
  <2>1. UNCHANGED <<owner, op, scanned, bye, pc>>
    BY <1>13 DEF WriterOpens, ReaderOpens, Closes, Deletes, Over, Others, vars
  <2>2. QED
    BY <2>1 DEF CreateInv, OwnerInv
<1>14. QED
  BY <1>10, <1>11, <1>12, <1>13 DEF Next
-----------------------------------------------------------------------------
(* The window, and the loader's page.                                         *)

LEMMA PlacesKept ==
  ASSUME TypeOK, PlaceInv, Next
  PROVE  PlaceInv'
<1> USE DEF Loading, Inside, Thread, Goto, fileVars, tableVars, placeVars, errorVars
<1>0. /\ pc \in [Thread -> Place]
      /\ arg \in [Thread -> 0..MaxPages + 1]
      /\ DOMAIN table = 1..Len(table) /\ Len(table) \in Nat /\ Len(table) <= MaxPages
  BY TableIsFunction DEF TypeOK, Page
<1>1. ASSUME NEW t \in Loading, GetLoadedPage(t) PROVE PlaceInv'
  <2>1. pc[t] \in Inside
    BY <1>1 DEF GetLoadedPage, Status, ScanOpen, ScanFree, ScanRead, ScanFails, Load,
                LoadFails, Crash, Get
  <2>2. direction' = -1 => current' >= 1
    <3>1. CASE Get(t) /\ Visits(t, arg[t]) /\ arg[t] \in DOMAIN table
      BY <1>0, <3>1 DEF Visits, PlaceInv
    <3>2. CASE UNCHANGED placeVars
      BY <3>2 DEF PlaceInv
    <3>3. QED
      BY <1>1, <3>1, <3>2 DEF GetLoadedPage, Status, ScanOpen, ScanFree, ScanRead, ScanFails,
                              Load, LoadFails, Crash, Get
  <2>3. pc'["loader"] \in Inside \union {"use"} =>
          /\ pc["loader"] \in Inside \union {"use"} /\ arg'["loader"] = arg["loader"]
    <3>1. CASE t = "main"
      <4>1. CASE \/ ClientLeaves("idle") \/ ClientLeaves("failed")
                 \/ UNCHANGED arg /\ \E place : Goto("main", place)
        BY <1>0, <4>1 DEF ClientLeaves
      <4>2. CASE Crash(t)
        BY <1>0, <4>2 DEF Crash
      <4>3. QED
        BY <1>1, <3>1, <4>1, <4>2, StatusOutcome
           DEF GetLoadedPage, ScanOpen, ScanFree, ScanRead, ScanFails, Load, LoadFails, Get,
               AfterStatus, GoesOn, Throws, ReturnsNothing
    <3>2. CASE t = "loader"
      <4>1. CASE Throws(t) \/ ReturnsNothing(t)
        BY <1>0, <3>2, <4>1 DEF Throws, ReturnsNothing
      <4>2. CASE UNCHANGED arg
        BY <2>1, <3>2, <4>2
      <4>3. QED
        BY <1>1, <3>2, <4>1, <4>2, StatusOutcome
           DEF GetLoadedPage, ScanOpen, ScanFree, ScanRead, ScanFails, Load, LoadFails, Get,
               Crash, AfterStatus, GoesOn
    <3>3. QED
      BY <3>1, <3>2
  <2>4. QED
    BY <2>2, <2>3 DEF PlaceInv
<1>2. CASE LoaderTick
  <2>1. /\ UNCHANGED <<current, direction>> /\ pc["loader"] = "tick"
        /\ \/ pc' = pc
           \/ \E p \in DOMAIN table : arg' = [arg EXCEPT !["loader"] = p]
    BY <1>2 DEF LoaderTick
  <2>2. CASE pc' = pc
    BY <2>1, <2>2 DEF PlaceInv
  <2>3. ASSUME NEW p \in DOMAIN table, arg' = [arg EXCEPT !["loader"] = p] PROVE PlaceInv'
    <3>1. arg'["loader"] \in 1..MaxPages
      BY <1>0, <2>3, ConstantsAssumption
    <3>2. QED
      BY <2>1, <3>1 DEF PlaceInv
  <2>4. QED
    BY <2>1, <2>2, <2>3
<1>3. ASSUME UNCHANGED <<current, direction>>,
             \/ pc'["loader"] \notin Inside \union {"use"}
             \/ pc'["loader"] = pc["loader"] /\ arg'["loader"] = arg["loader"]
      PROVE  PlaceInv'
  BY <1>3 DEF PlaceInv
<1>4. CASE Client \/ Dispose \/ Enter \/ \E o \in Operation, p \in 1..MaxPages : Calls(o, p)
  BY <1>0, <1>1, <1>3, <1>4 DEF Client, CheckCondition, Reports, ClientLeaves, Unlock,
       SearchNext, Join, Dispose, Enter, Calls
<1>5. CASE PageLoader
  <2>1. CASE LoaderEnds \/ LoaderStarts \/ Render \/ RenderFails
    <3>1. pc'["loader"] \in {"ended", "tick"} /\ UNCHANGED <<current, direction>>
      BY <1>0, <2>1 DEF LoaderEnds, LoaderStarts, Render, RenderFails, Throws
    <3>2. pc'["loader"] \notin Inside \union {"use"}
      BY <3>1
    <3>3. QED
      BY <3>1, <3>2 DEF PlaceInv
  <2>2. QED
    BY <1>1, <1>2, <1>5, <2>1 DEF PageLoader
<1>6. CASE GarbageCollector
  BY <1>0, <1>3, <1>6 DEF GarbageCollector, GcEnds, GcWakes, GcCheck, GcDies, GcRethrows,
       GcVisit, GcCollect
<1>7. CASE WriterOpens \/ ReaderOpens \/ Closes \/ Deletes \/ Over
  BY <1>3, <1>7 DEF WriterOpens, ReaderOpens, Closes, Deletes, Over, Others, vars
<1>8. QED
  BY <1>4, <1>5, <1>6, <1>7 DEF Next

LEMMA AskKept ==
  ASSUME TypeOK, AskInv, SeenInv, Next
  PROVE  AskInv'
<1> USE DEF Thread, Goto, fileVars, tableVars, placeVars, errorVars
<1>0. /\ pc \in [Thread -> Place]
      /\ arg \in [Thread -> 0..MaxPages + 1]
  BY DEF TypeOK
<1>1. ASSUME \/ pc'["main"] \notin Inside \union {"use", "enter"}
             \/ /\ pc["main"] \in Inside \union {"use", "enter"} /\ op' = op
                /\ arg'["main"] = arg["main"]
      PROVE  AskInv'
  BY <1>1 DEF AskInv
<1>2. ASSUME ClientLeaves("idle") \/ ClientLeaves("failed") PROVE AskInv'
  BY <1>0, <1>2 DEF ClientLeaves, AskInv, Inside
<1>3. CASE GetLoadedPage("main")
  <2>1. pc["main"] \in Inside
    BY <1>3 DEF GetLoadedPage, Status, ScanOpen, ScanFree, ScanRead, ScanFails, Load,
                LoadFails, Crash, Get, Inside
  <2>2. \/ ClientLeaves("idle") \/ ClientLeaves("failed") \/ Crash("main")
        \/ UNCHANGED <<arg, op>>
    BY <1>3, StatusOutcome
       DEF GetLoadedPage, ScanOpen, ScanFree, ScanRead, ScanFails, Load, LoadFails, Get,
           AfterStatus, GoesOn, Throws, ReturnsNothing, Loading
  <2>3. CASE Crash("main")
    BY <1>0, <2>3 DEF Crash, AskInv, Inside
  <2>4. CASE UNCHANGED <<arg, op>>
    BY <2>1, <2>4 DEF AskInv
  <2>5. QED
    BY <1>2, <2>2, <2>3, <2>4
<1>4. CASE GetLoadedPage("loader")
  <2>1. CASE Crash("loader")
    BY <1>0, <2>1 DEF Crash, AskInv, Inside
  <2>2. CASE ~ Crash("loader")
    <3>1. pc'["main"] = pc["main"] /\ arg'["main"] = arg["main"] /\ op' = op
      <4>1. CASE Throws("loader") \/ ReturnsNothing("loader")
        BY <1>0, <4>1 DEF Throws, ReturnsNothing
      <4>2. CASE UNCHANGED <<arg, op>> /\ \E place : Goto("loader", place)
        BY <1>0, <4>2
      <4>3. QED
        BY <1>4, <2>2, <4>1, <4>2, StatusOutcome
           DEF GetLoadedPage, ScanOpen, ScanFree, ScanRead, ScanFails, Load, LoadFails, Get,
               AfterStatus, GoesOn, Loading
    <3>2. QED
      BY <3>1 DEF AskInv
  <2>3. QED
    BY <2>1, <2>2
<1>5. CASE Enter
  BY <1>0, <1>5 DEF Enter, AskInv, Inside
<1>6. CASE SearchNext
  <2>1. arg["main"] \in DOMAIN table
    BY <1>6 DEF SearchNext, SeenInv, Loading
  <2>2. DOMAIN table = 1..Len(table) /\ Len(table) \in Nat
    BY TableIsFunction DEF TypeOK, Page
  <2>3. arg'["main"] = arg["main"] + 1 /\ arg["main"] >= 1 /\ arg["main"] \in Int
    BY <1>0, <1>6, <2>1, <2>2 DEF SearchNext
  <2>4. QED
    BY <2>3 DEF AskInv
<1>7. CASE CheckCondition \/ Unlock \/ Join \/ Dispose
  <2>1. ClientLeaves("idle") \/ pc'["main"] \in {"join", "disposed"}
    BY <1>0, <1>7 DEF CheckCondition, Reports, Unlock, Join, Dispose
  <2>2. pc'["main"] \in {"join", "disposed"} => AskInv'
    BY DEF AskInv, Inside
  <2>3. QED
    BY <1>2, <2>1, <2>2
<1>8. ASSUME NEW o \in Operation, NEW p \in 1..MaxPages, Calls(o, p) PROVE AskInv'
  BY <1>0, <1>8 DEF Calls, AskInv
<1>9. CASE LoaderEnds \/ LoaderStarts \/ LoaderTick \/ Render \/ RenderFails
  <2>1. pc'["main"] = pc["main"] /\ arg'["main"] = arg["main"] /\ op' = op
    BY <1>0, <1>9 DEF LoaderEnds, LoaderStarts, LoaderTick, Render, RenderFails, Throws
  <2>2. QED
    BY <2>1 DEF AskInv
<1>10. CASE GarbageCollector
  <2>1. pc'["main"] = pc["main"] /\ arg'["main"] = arg["main"] /\ op' = op
    BY <1>0, <1>10 DEF GarbageCollector, GcEnds, GcWakes, GcCheck, GcDies, GcRethrows, GcVisit,
                       GcCollect
  <2>2. QED
    BY <2>1 DEF AskInv
<1>11. CASE WriterOpens \/ ReaderOpens \/ Closes \/ Deletes \/ Over
  BY <1>11 DEF WriterOpens, ReaderOpens, Closes, Deletes, Over, Others, vars, AskInv
<1>12. QED
  BY <1>3, <1>4, <1>5, <1>6, <1>7, <1>8, <1>9, <1>10, <1>11
     DEF Next, Client, PageLoader
-----------------------------------------------------------------------------
(* Pages that have been seen, and pages in use.                               *)

\* A step of a thread that is not u leaves what u has seen if it spares the
\* pages that are locked, and all pages while u holds dviMutex.
SparesPages(u) ==
  \A p \in DOMAIN table :
    table[p].holder = u =>
      p \in DOMAIN table' /\ table'[p].holder = u /\ table'[p].frozen = table[p].frozen

SparesTable ==
  /\ table = <<>> => table' = <<>>
  /\ \A p \in DOMAIN table : p \in DOMAIN table' /\ (table[p].frozen => table'[p].frozen)

SeenBy(u) ==
  /\ pc[u] = "scanRead" => table = <<>>
  /\ pc[u] = "get" /\ ~ NameOnly(u) => Loaded(arg[u])
  /\ pc[u] = "use" =>
       /\ arg[u] \in DOMAIN table /\ table[arg[u]].holder = u
       /\ NameOnly(u) \/ table[arg[u]].frozen

LEMMA Spared ==
  ASSUME SeenInv, NEW u \in Loading,
         pc'[u] = pc[u] /\ arg'[u] = arg[u] /\ (u = "main" => op' = op),
         pc[u] = "use" => SparesPages(u), pc[u] \in {"scanRead", "get"} => SparesTable
  PROVE  SeenBy(u)'
BY DEF SeenInv, SeenBy, SparesPages, SparesTable, NameOnly, Loaded

\* Locking and unlocking a page changes nothing else.
LEMMA HolderOnly ==
  ASSUME table \in Seq(Page), NEW p \in DOMAIN table, NEW h,
         table' = [table EXCEPT ![p].holder = h]
  PROVE  /\ DOMAIN table' = DOMAIN table
         /\ \A q \in DOMAIN table :
              /\ table'[q].frozen = table[q].frozen
              /\ table'[q].holder = IF q = p THEN h ELSE table[q].holder
         /\ SparesTable
<1>1. \A q \in DOMAIN table : table[q] \in Page
  BY TableIsFunction
<1>2. /\ DOMAIN table' = DOMAIN table
      /\ \A q \in DOMAIN table :
           /\ table'[q].frozen = table[q].frozen
           /\ table'[q].holder = IF q = p THEN h ELSE table[q].holder
  BY <1>1 DEF Page
<1>3. table # <<>>
  BY EmptySeq, TableIsFunction
<1>4. QED
  BY <1>2, <1>3 DEF SparesTable

LEMMA FrozenOnly ==
  ASSUME table \in Seq(Page), NEW p \in DOMAIN table, NEW b \in BOOLEAN,
         table' = [table EXCEPT ![p].frozen = b]
  PROVE  /\ DOMAIN table' = DOMAIN table
         /\ \A q \in DOMAIN table :
              /\ table'[q].frozen = IF q = p THEN b ELSE table[q].frozen
              /\ table'[q].holder = table[q].holder
         /\ table # <<>>
<1>1. \A q \in DOMAIN table : table[q] \in Page
  BY TableIsFunction
<1>2. /\ DOMAIN table' = DOMAIN table
      /\ \A q \in DOMAIN table :
           /\ table'[q].frozen = IF q = p THEN b ELSE table[q].frozen
           /\ table'[q].holder = table[q].holder
  BY <1>1 DEF Page
<1>3. table # <<>>
  BY EmptySeq, TableIsFunction
<1>4. QED
  BY <1>2, <1>3

LEMMA SeenKept ==
  ASSUME TypeOK, PlaceInv, AskInv, CreateInv, OwnerInv, SeenInv, Next
  PROVE  SeenInv'
<1> USE DEF Loading, Thread, Goto, fileVars, tableVars, placeVars, errorVars
<1>0. /\ pc \in [Thread -> Place]
      /\ arg \in [Thread -> 0..MaxPages + 1] /\ table \in Seq(Page)
  BY DEF TypeOK, Page
\* It is enough to look at the two threads.
<1>1. SeenBy("main")' /\ SeenBy("loader")' => SeenInv'
  BY DEF SeenInv, SeenBy, NameOnly, Loaded
\* Where the other thread is while this one is in GetLoadedPage.
<1>2. ASSUME NEW t \in Loading, NEW u \in Loading, u # t, pc[t] \in Inside
      PROVE  pc[u] \notin Inside
  BY <1>2 DEF OwnerInv, CreateInv, Inside
\* A thread that is not in one of the three places has seen nothing.
<1>3. ASSUME NEW u \in Loading, pc'[u] \notin {"scanRead", "get", "use"} PROVE SeenBy(u)'
  BY <1>3 DEF SeenBy
\* Exceptions and returns end in other places.
<1>4. ASSUME NEW t \in Loading,
             \/ Throws(t) \/ ReturnsNothing(t)
             \/ t = "main" /\ (ClientLeaves("idle") \/ ClientLeaves("failed"))
      PROVE  /\ pc'[t] \notin {"scanRead", "get", "use"}
             /\ \A u \in Loading \ {t} : pc'[u] = pc[u] /\ arg'[u] = arg[u]
             /\ t = "loader" => op' = op
  <2>1. CASE t = "main"
    <3>1. ClientLeaves("idle") \/ ClientLeaves("failed")
      BY <1>4, <2>1 DEF Throws, ReturnsNothing
    <3>2. QED
      BY <1>0, <2>1, <3>1 DEF ClientLeaves
  <2>2. CASE t = "loader"
    BY <1>0, <1>4, <2>2 DEF Throws, ReturnsNothing
  <2>3. QED
    BY <2>1, <2>2
\* A step of t in GetLoadedPage.
<1>5. ASSUME NEW t \in Loading, NEW u \in Loading, u # t, pc[t] \in Inside,
             pc'[u] = pc[u], arg'[u] = arg[u], u = "main" => op' = op,
             pc[u] = "use" => SparesPages(u)
      PROVE  SeenBy(u)'
  <2>1. pc[u] \notin {"scanRead", "get"}
    BY <1>2, <1>5 DEF Inside
  <2>2. QED
    BY <1>5, <2>1 DEF SeenInv, SeenBy, SparesPages, NameOnly
<1>6. ASSUME NEW t \in Loading, Status(t) PROVE SeenInv'
  <2>1. PICK looks \in BOOLEAN : AfterStatus(t, looks)
    BY <1>6, StatusOutcome
  <2>2. pc[t] = "status" /\ table' = table
    BY <1>6 DEF Status
  <2>3. SeenBy(t)'
    <3>1. CASE GoesOn(t, looks) /\ PageStatus(arg[t], looks) = "Loaded"
      <4>1. op # "create" \/ t = "loader"
        BY <2>2 DEF CreateInv
      <4>2. arg[t] \in Int /\ arg[t] >= 1 /\ Len(table) \in Nat /\ DOMAIN table = 1..Len(table)
        BY <1>0, <2>2, <4>1, TableIsFunction DEF PlaceInv, AskInv, Inside
      <4>3. Loaded(arg[t])
        BY <3>1, <4>2 DEF PageStatus, Loaded
      <4>4. arg' = arg /\ op' = op /\ pc'[t] \in {"scanOpen", "load", "get"}
        BY <1>0, <3>1 DEF GoesOn
      <4>5. QED
        BY <2>2, <4>3, <4>4 DEF SeenBy, Loaded
    <3>2. CASE GoesOn(t, looks) /\ PageStatus(arg[t], looks) # "Loaded"
      BY <1>0, <1>3, <3>2 DEF GoesOn
    <3>3. CASE ~ GoesOn(t, looks)
      BY <1>3, <1>4, <2>1, <3>3 DEF AfterStatus
    <3>4. QED
      BY <3>1, <3>2, <3>3
  <2>4. ASSUME NEW u \in Loading, u # t PROVE SeenBy(u)'
    <3>1. pc'[u] = pc[u] /\ arg'[u] = arg[u] /\ (u = "main" => op' = op)
      BY <1>0, <1>4, <2>1, <2>4 DEF AfterStatus, GoesOn
    <3>2. SparesPages(u) /\ pc[t] \in Inside
      BY <2>2 DEF SparesPages, Inside
    <3>3. QED
      BY <1>5, <2>4, <3>1, <3>2
  <2>5. SeenBy("main")' /\ SeenBy("loader")'
    BY <2>3, <2>4
  <2>6. QED
    BY <1>1, <2>5
<1>7. ASSUME NEW t \in Loading, NEW u \in Loading, u # t, pc[t] \in Inside,
             \/ Throws(t) \/ ReturnsNothing(t)
             \/ t = "main" /\ (ClientLeaves("idle") \/ ClientLeaves("failed"))
             \/ UNCHANGED <<arg, op>> /\ \E place : Goto(t, place),
             pc[u] = "use" => SparesPages(u)
      PROVE  SeenBy(u)'
  <2>1. pc'[u] = pc[u] /\ arg'[u] = arg[u] /\ (u = "main" => op' = op)
    <3>1. CASE UNCHANGED <<arg, op>> /\ \E place : Goto(t, place)
      BY <1>0, <1>7, <3>1
    <3>2. CASE ~(UNCHANGED <<arg, op>> /\ \E place : Goto(t, place))
      BY <1>4, <1>7, <3>2
    <3>3. QED
      BY <3>1, <3>2
  <2>2. QED
    BY <1>5, <1>7, <2>1
<1>8. ASSUME NEW t \in Loading, ScanOpen(t) PROVE SeenInv'
  <2>1. /\ pc[t] \in Inside /\ table' = table
        /\ Throws(t) \/ (UNCHANGED <<arg, op>> /\ Goto(t, "scanFree"))
    BY <1>8 DEF ScanOpen, Inside
  <2>2. \A u \in Loading : SparesPages(u)
    BY <2>1 DEF SparesPages
  <2>3. SeenBy(t)'
    BY <1>0, <1>3, <1>4, <2>1
  <2>4. ASSUME NEW u \in Loading, u # t PROVE SeenBy(u)'
    BY <1>7, <2>1, <2>2, <2>4
  <2>5. SeenBy("main")' /\ SeenBy("loader")'
    BY <2>3, <2>4
  <2>6. QED
    BY <1>1, <2>5
<1>9. ASSUME NEW t \in Loading, ScanFree(t) PROVE SeenInv'
  <2>1. /\ pc[t] \in Inside /\ table' = <<>> /\ UNCHANGED <<arg, op>> /\ Goto(t, "scanRead")
        /\ NobodyUsesAPage
    BY <1>9 DEF ScanFree, Inside
  <2>2. \A u \in Loading : pc[u] # "use"
    BY <2>1 DEF NobodyUsesAPage, Free, SeenInv
  <2>3. pc'[t] = "scanRead"
    BY <1>0, <2>1
  <2>4. SeenBy(t)'
    BY <2>1, <2>3 DEF SeenBy
  <2>5. ASSUME NEW u \in Loading, u # t PROVE SeenBy(u)'
    BY <1>7, <2>1, <2>2, <2>5
  <2>6. SeenBy("main")' /\ SeenBy("loader")'
    BY <2>4, <2>5
  <2>7. QED
    BY <1>1, <2>6
<1>10. ASSUME NEW t \in Loading, ScanRead(t) \/ ScanFails(t) PROVE SeenInv'
  <2>1. /\ pc[t] = "scanRead"
        /\ \/ Throws(t)
           \/ t = "main" /\ ClientLeaves("idle")
           \/ UNCHANGED <<arg, op>> /\ Goto(t, "load")
    BY <1>10 DEF ScanRead, ScanFails
  <2>2. \A p \in DOMAIN table : FALSE
    BY <2>1, TableIsFunction, <1>0 DEF SeenInv
  <2>3. \A u \in Loading : pc[u] # "use"
    BY <2>2 DEF SeenInv
  <2>4. SeenBy(t)'
    BY <1>0, <1>3, <1>4, <2>1
  <2>5. ASSUME NEW u \in Loading, u # t PROVE SeenBy(u)'
    BY <1>7, <2>1, <2>3, <2>5 DEF Inside
  <2>6. SeenBy("main")' /\ SeenBy("loader")'
    BY <2>4, <2>5
  <2>7. QED
    BY <1>1, <2>6
\* Loading a page that is not locked, or the attempt, spares those that are.
<1>11. ASSUME NEW p \in DOMAIN table, NEW b \in BOOLEAN, Free(p),
              table' = [table EXCEPT ![p].frozen = b], NEW u \in Loading
       PROVE  SparesPages(u)
  <2>1. DOMAIN table' = DOMAIN table
    BY <1>0, <1>11, FrozenOnly
  <2>2. \A q \in DOMAIN table :
          /\ table'[q].frozen = IF q = p THEN b ELSE table[q].frozen
          /\ table'[q].holder = table[q].holder
    BY <1>0, <1>11, FrozenOnly
  <2>3. table[p].holder # u
    BY <1>11 DEF Free
  <2>4. QED
    BY <2>1, <2>2, <2>3 DEF SparesPages
<1>12. ASSUME NEW t \in Loading, Load(t) PROVE SeenInv'
  <2>1. /\ pc[t] \in Inside /\ arg[t] \in DOMAIN table /\ Free(arg[t])
        /\ table' = [table EXCEPT ![arg[t]].frozen = TRUE]
        /\ UNCHANGED <<arg, op>> /\ Goto(t, "get")
    BY <1>12 DEF Load, Inside
  <2>2. \A u \in Loading : SparesPages(u)
    BY <1>11, <2>1
  <2>3. arg'[t] \in DOMAIN table' /\ table'[arg'[t]].frozen
    BY <1>0, <2>1, FrozenOnly
  <2>4. SeenBy(t)'
    BY <1>0, <2>1, <2>3 DEF SeenBy, Loaded
  <2>5. ASSUME NEW u \in Loading, u # t PROVE SeenBy(u)'
    BY <1>7, <2>1, <2>2, <2>5
  <2>6. SeenBy("main")' /\ SeenBy("loader")'
    BY <2>4, <2>5
  <2>7. QED
    BY <1>1, <2>6
<1>13. ASSUME NEW t \in Loading, LoadFails(t) PROVE SeenInv'
  <2>1. /\ pc[t] \in Inside /\ arg[t] \in DOMAIN table /\ Free(arg[t]) /\ Throws(t)
        /\ table' = [table EXCEPT ![arg[t]].frozen = (file.state = "busy")]
    BY <1>13 DEF LoadFails, Inside
  <2>2. (file.state = "busy") \in BOOLEAN
    OBVIOUS
  <2>3. \A u \in Loading : SparesPages(u)
    BY <1>11, <2>1, <2>2
  <2>4. SeenBy(t)'
    BY <1>3, <1>4, <2>1
  <2>5. ASSUME NEW u \in Loading, u # t PROVE SeenBy(u)'
    BY <1>7, <2>1, <2>3, <2>5
  <2>6. SeenBy("main")' /\ SeenBy("loader")'
    BY <2>4, <2>5
  <2>7. QED
    BY <1>1, <2>6
<1>14. ASSUME NEW t \in Loading, Crash(t) PROVE SeenInv'
  <2>1. pc'["main"] = "crashed" /\ pc'["loader"] = "crashed"
    BY <1>14 DEF Crash
  <2>2. QED
    BY <1>1, <1>3, <2>1
\* Locking a page that nobody has locked, or giving back one's own.
<1>15. ASSUME NEW p \in DOMAIN table, NEW h, table' = [table EXCEPT ![p].holder = h],
              NEW u \in Loading, table[p].holder # u
       PROVE  SparesPages(u) /\ SparesTable
  <2>1. DOMAIN table' = DOMAIN table
    BY <1>0, <1>15, HolderOnly
  <2>2. \A q \in DOMAIN table :
          /\ table'[q].frozen = table[q].frozen
          /\ table'[q].holder = IF q = p THEN h ELSE table[q].holder
    BY <1>0, <1>15, HolderOnly
  <2>3. SparesTable
    BY <1>0, <1>15, HolderOnly
  <2>4. QED
    BY <1>15, <2>1, <2>2, <2>3 DEF SparesPages
<1>16. ASSUME NEW t \in Loading, Get(t) PROVE SeenInv'
  <2>1. pc[t] = "get"
    BY <1>16 DEF Get
  <2>2. CASE /\ arg[t] \in DOMAIN table /\ Free(arg[t]) /\ table' = LockedBy(t, arg[t])
             /\ Goto(t, "use") /\ UNCHANGED <<arg, op>>
    <3>1. table' = [table EXCEPT ![arg[t]].holder = t]
      BY <2>2 DEF LockedBy
    <3>2. ASSUME NEW u \in Loading PROVE SparesPages(u)
      BY <1>15, <2>2, <3>1, <3>2 DEF Free
    <3>3. /\ arg[t] \in DOMAIN table' /\ table'[arg[t]].holder = t
          /\ table'[arg[t]].frozen = table[arg[t]].frozen
      BY <1>0, <2>2, <3>1, HolderOnly
    <3>4. NameOnly(t) \/ table[arg[t]].frozen
      BY <2>1 DEF SeenInv, Loaded
    <3>5. SeenBy(t)'
      BY <1>0, <2>2, <3>3, <3>4 DEF SeenBy, NameOnly
    <3>6. ASSUME NEW u \in Loading, u # t PROVE SeenBy(u)'
      BY <1>7, <2>1, <2>2, <3>2, <3>6 DEF Inside
    <3>7. SeenBy("main")' /\ SeenBy("loader")'
      BY <3>5, <3>6
    <3>8. QED
      BY <1>1, <3>7
  <2>3. CASE ReturnsNothing(t) /\ table' = table
    <3>1. \A u \in Loading : SparesPages(u)
      BY <2>3 DEF SparesPages
    <3>2. SeenBy(t)'
      BY <1>3, <1>4, <2>3
    <3>3. ASSUME NEW u \in Loading, u # t PROVE SeenBy(u)'
      BY <1>7, <2>1, <2>3, <3>1, <3>3 DEF Inside
    <3>4. SeenBy("main")' /\ SeenBy("loader")'
      BY <3>2, <3>3
    <3>5. QED
      BY <1>1, <3>4
  <2>4. QED
    BY <1>16, <2>2, <2>3 DEF Get
<1>17. ASSUME NEW t \in Loading, GetLoadedPage(t) PROVE SeenInv'
  BY <1>6, <1>8, <1>9, <1>10, <1>12, <1>13, <1>14, <1>16, <1>17 DEF GetLoadedPage
\* Steps of threads that are not in GetLoadedPage: where they stay, the table
\* is spared.
<1>18. ASSUME table' = table, NEW u \in Loading PROVE SparesPages(u) /\ SparesTable
  BY <1>18 DEF SparesPages, SparesTable
<1>19. ASSUME NEW u \in Loading, pc'[u] = pc[u], arg'[u] = arg[u], u = "main" => op' = op,
              pc[u] = "use" => SparesPages(u), pc[u] \in {"scanRead", "get"} => SparesTable
       PROVE  SeenBy(u)'
  <2>1. (pc[u] = "use" => SparesPages(u)) /\ (pc[u] \in {"scanRead", "get"} => SparesTable)
    BY <1>19
  <2>2. pc'[u] = pc[u] /\ arg'[u] = arg[u] /\ (u = "main" => op' = op)
    BY <1>19
  <2>3. QED
    BY <2>1, <2>2, Spared
<1>20. CASE CheckCondition \/ Dispose \/ Enter
            \/ \E o \in Operation, p \in 1..MaxPages : Calls(o, p)
  <2>1. table' = table /\ pc'["loader"] = pc["loader"] /\ arg'["loader"] = arg["loader"]
    BY <1>0, <1>20 DEF CheckCondition, Reports, ClientLeaves, Dispose, Enter, Calls
  <2>2. SeenBy("loader")'
    BY <1>18, <1>19, <2>1
  <2>3. pc'["main"] \in {"idle", "join", "status", "enter"}
        \/ (pc'["main"] = "get" /\ op' = "name")
    <3>1. CASE CheckCondition \/ Dispose \/ \E o \in Operation, p \in 1..MaxPages : Calls(o, p)
      BY <1>0, <3>1 DEF CheckCondition, Reports, ClientLeaves, Dispose, Calls
    <3>2. CASE Enter
      BY <1>0, <3>2 DEF Enter
    <3>3. QED
      BY <1>20, <3>1, <3>2
  <2>4. SeenBy("main")'
    BY <2>3 DEF SeenBy, NameOnly
  <2>5. QED
    BY <1>1, <2>2, <2>4
<1>21. CASE Unlock \/ SearchNext
  <2>1. /\ pc["main"] = "use" /\ table' = [table EXCEPT ![arg["main"]].holder = "none"]
        /\ pc'["main"] \in {"idle", "status"}
        /\ pc'["loader"] = pc["loader"] /\ arg'["loader"] = arg["loader"]
    BY <1>0, <1>21 DEF Unlock, SearchNext, Unlocked, ClientLeaves
  <2>2. arg["main"] \in DOMAIN table /\ table[arg["main"]].holder # "loader"
    BY <2>1 DEF SeenInv
  <2>3. SparesPages("loader") /\ SparesTable
    BY <1>15, <2>1, <2>2
  <2>4. SeenBy("loader")'
    BY <1>19, <2>1, <2>3
  <2>5. SeenBy("main")'
    BY <1>3, <2>1
  <2>6. QED
    BY <1>1, <2>4, <2>5
<1>22. CASE Join
  <2>1. pc'["main"] = "disposed" /\ pc'["loader"] = "ended"
    BY <1>0, <1>22 DEF Join
  <2>2. QED
    BY <1>1, <1>3, <2>1
<1>23. CASE LoaderEnds \/ LoaderStarts \/ LoaderTick
  <2>1. /\ table' = table /\ pc'["main"] = pc["main"] /\ arg'["main"] = arg["main"] /\ op' = op
        /\ pc'["loader"] \in {"ended", "tick", "status"}
    BY <1>0, <1>23 DEF LoaderEnds, LoaderStarts, LoaderTick
  <2>2. SeenBy("main")'
    BY <1>18, <1>19, <2>1
  <2>3. SeenBy("loader")'
    BY <1>3, <2>1
  <2>4. QED
    BY <1>1, <2>2, <2>3
<1>24. CASE Render \/ RenderFails
  <2>1. /\ pc["loader"] = "use" /\ table' = [table EXCEPT ![arg["loader"]].holder = "none"]
        /\ pc'["loader"] \in {"tick", "ended"}
        /\ pc'["main"] = pc["main"] /\ arg'["main"] = arg["main"] /\ op' = op
    BY <1>0, <1>24 DEF Render, RenderFails, Unlocked, Throws
  <2>2. arg["loader"] \in DOMAIN table /\ table[arg["loader"]].holder # "main"
    BY <2>1 DEF SeenInv
  <2>3. SparesPages("main") /\ SparesTable
    BY <1>15, <2>1, <2>2
  <2>4. SeenBy("main")'
    BY <1>19, <2>1, <2>3
  <2>5. SeenBy("loader")'
    BY <1>3, <2>1
  <2>6. QED
    BY <1>1, <2>4, <2>5
<1>25. CASE GarbageCollector
  <2>1. /\ op' = op
        /\ \A u \in Loading : pc'[u] = pc[u] /\ arg'[u] = arg[u]
    BY <1>0, <1>25 DEF GarbageCollector, GcEnds, GcWakes, GcCheck, GcDies, GcRethrows, GcVisit,
                       GcCollect
  <2>2. CASE table' = table
    BY <1>1, <1>18, <1>19, <2>1, <2>2
  <2>3. CASE GcCollect /\ best \in DOMAIN table /\ Free(best)
    <3>1. table' = [table EXCEPT ![best].frozen = FALSE] /\ owner = "none"
      BY <2>3 DEF GcCollect
    <3>2. ASSUME NEW u \in Loading PROVE SparesPages(u)
      BY <1>11, <2>3, <3>1, <3>2
    <3>3. table # <<>>
      BY <1>0, <2>3, <3>1, FrozenOnly
    <3>4. ASSUME NEW u \in Loading PROVE pc[u] \notin {"scanRead", "get"}
      BY <3>1, <3>3, <3>4 DEF SeenInv, OwnerInv, CreateInv, Inside
    <3>5. QED
      BY <1>1, <1>19, <2>1, <3>2, <3>4
  <2>4. QED
    BY <1>25, <2>2, <2>3 DEF GarbageCollector, GcEnds, GcWakes, GcCheck, GcDies, GcVisit,
                             GcCollect
<1>26. CASE WriterOpens \/ ReaderOpens \/ Closes \/ Deletes \/ Over
  <2>1. UNCHANGED <<table, pc, arg, op>>
    BY <1>26 DEF WriterOpens, ReaderOpens, Closes, Deletes, Over, Others, vars
  <2>2. QED
    BY <2>1 DEF SeenInv, NameOnly, Loaded
<1>27. QED
  BY <1>17, <1>20, <1>21, <1>22, <1>23, <1>24, <1>25, <1>26 DEF Next, Client, PageLoader
-----------------------------------------------------------------------------
(* What the loader has died of.                                               *)

\* The loader ends with its exception put away, or because the object is being
\* disposed of; the exception is taken by the client or by the collector.
LEMMA ErrorsKept ==
  ASSUME TypeOK, OwnerInv, CreateInv, NoErrorLost, Next
  PROVE  NoErrorLost'
<1> USE DEF Loading, Thread, Goto, fileVars, tableVars, placeVars, errorVars
<1>0. /\ pc \in [Thread -> Place]
  BY DEF TypeOK
<1>1. ASSUME pc'["loader"] = "ended" => pc["loader"] = "ended",
             pc["gc"] = "dying" => pc'["gc"] = "dying",
             error => error', reported => reported', bye => bye'
      PROVE  NoErrorLost'
  BY <1>1 DEF NoErrorLost
<1>2. ASSUME error' \/ reported' \/ bye' PROVE NoErrorLost'
  BY <1>2 DEF NoErrorLost
<1>3. ASSUME Throws("loader") \/ ReturnsNothing("loader")
      PROVE  error' \/ pc' = [pc EXCEPT !["loader"] = "tick"]
  BY <1>3 DEF Throws, ReturnsNothing
<1>4. ASSUME Throws("main") \/ ReturnsNothing("main")
             \/ ClientLeaves("idle") \/ ClientLeaves("failed")
      PROVE  pc'["loader"] = pc["loader"] /\ pc'["gc"] = pc["gc"]
  BY <1>0, <1>4 DEF Throws, ReturnsNothing, ClientLeaves
<1>5. ASSUME GetLoadedPage("main") PROVE NoErrorLost'
  <2>1. CASE Crash("main")
    BY <1>0, <2>1 DEF Crash, NoErrorLost
  <2>2. CASE ~ Crash("main")
    <3>1. error' = error /\ reported' = reported /\ bye' = bye
      BY <1>5, <2>2 DEF GetLoadedPage, Status, ScanOpen, ScanFree, ScanRead, ScanFails, Load,
                        LoadFails, Get, Throws
    <3>2. pc'["loader"] = pc["loader"] /\ pc'["gc"] = pc["gc"]
      <4>1. \/ Throws("main") \/ ReturnsNothing("main") \/ ClientLeaves("idle")
            \/ \E place : Goto("main", place)
        BY <1>5, <2>2, StatusOutcome
           DEF GetLoadedPage, ScanOpen, ScanFree, ScanRead, ScanFails, Load, LoadFails, Get,
               AfterStatus, GoesOn
      <4>2. CASE \E place : Goto("main", place)
        BY <1>0, <4>2
      <4>3. QED
        BY <1>4, <4>1, <4>2
    <3>3. QED
      BY <1>1, <3>1, <3>2
  <2>3. QED
    BY <2>1, <2>2
<1>6. ASSUME GetLoadedPage("loader") PROVE NoErrorLost'
  <2>1. pc["loader"] # "ended"
    BY <1>6 DEF GetLoadedPage, Status, ScanOpen, ScanFree, ScanRead, ScanFails, Load,
                LoadFails, Crash, Get
  <2>2. error' \/ pc'["loader"] # "ended"
    <3>1. \/ Throws("loader") \/ ReturnsNothing("loader") \/ Crash("loader")
          \/ \E place \in {"scanOpen", "scanFree", "scanRead", "load", "get", "use"} :
               Goto("loader", place)
      BY <1>6, StatusOutcome
         DEF GetLoadedPage, ScanOpen, ScanFree, ScanRead, ScanFails, Load, LoadFails, Get,
             AfterStatus, GoesOn
    <3>2. CASE Crash("loader")
      BY <3>2 DEF Crash
    <3>3. CASE \E place \in {"scanOpen", "scanFree", "scanRead", "load", "get", "use"} :
                 Goto("loader", place)
      BY <1>0, <3>3
    <3>4. CASE Throws("loader") \/ ReturnsNothing("loader")
      BY <1>0, <1>3, <3>4
    <3>5. QED
      BY <3>1, <3>2, <3>3, <3>4
  <2>3. QED
    BY <2>2 DEF NoErrorLost
<1>7. CASE CheckCondition
  BY <1>2, <1>7 DEF CheckCondition, Reports
<1>8. CASE Unlock \/ SearchNext \/ Enter
           \/ \E o \in Operation, p \in 1..MaxPages : Calls(o, p)
  <2>1. UNCHANGED <<error, reported, bye>>
    BY <1>8 DEF Unlock, SearchNext, Enter, Calls
  <2>2. pc'["loader"] = pc["loader"] /\ pc'["gc"] = pc["gc"]
    BY <1>0, <1>4, <1>8 DEF Unlock, SearchNext, Enter, Calls
  <2>3. QED
    BY <1>1, <2>1, <2>2
<1>9. CASE Join \/ Dispose
  <2>1. UNCHANGED <<error, reported>> /\ (bye => bye')
    BY <1>9 DEF Join, Dispose
  <2>2. pc'["loader"] = pc["loader"] /\ pc'["gc"] = pc["gc"]
    BY <1>0, <1>9 DEF Join, Dispose
  <2>3. QED
    BY <1>1, <2>1, <2>2
<1>10. CASE LoaderEnds
  BY <1>2, <1>10 DEF LoaderEnds
<1>11. CASE LoaderStarts \/ LoaderTick \/ Render \/ RenderFails
  <2>1. error' \/ pc'["loader"] \in {"tick", "status"}
    BY <1>0, <1>11 DEF LoaderStarts, LoaderTick, Render, RenderFails, Throws
  <2>2. QED
    BY <2>1 DEF NoErrorLost
<1>12. CASE GcEnds
  BY <1>2, <1>12 DEF GcEnds
<1>13. CASE GcWakes \/ GcVisit \/ GcCollect
  <2>1. UNCHANGED <<error, reported, bye>> /\ pc["gc"] # "dying"
    BY <1>13 DEF GcWakes, GcVisit, GcCollect
  <2>2. pc'["loader"] = pc["loader"]
    BY <1>0, <1>13 DEF GcWakes, GcVisit, GcCollect
  <2>3. QED
    BY <1>1, <2>1, <2>2
<1>14. CASE GcCheck
  <2>1. pc'["gc"] = "dying"
    BY <1>0, <1>14 DEF GcCheck
  <2>2. QED
    BY <2>1 DEF NoErrorLost
<1>15. CASE GcDies
  BY <1>2, <1>15 DEF GcDies, GcRethrows
<1>16. CASE WriterOpens \/ ReaderOpens \/ Closes \/ Deletes \/ Over
  <2>1. UNCHANGED <<pc, error, reported, bye>>
    BY <1>16 DEF WriterOpens, ReaderOpens, Closes, Deletes, Over, Others, vars
  <2>2. QED
    BY <2>1 DEF NoErrorLost
<1>17. QED
  BY <1>5, <1>6, <1>7, <1>8, <1>9, <1>10, <1>11, <1>12, <1>13, <1>14, <1>15, <1>16
     DEF Next, Client, PageLoader, GarbageCollector
-----------------------------------------------------------------------------
(* The invariant.                                                             *)

LEMMA Starts ==
  ASSUME Init
  PROVE  IInv
<1>1. TypeOK
  <2>1. <<>> \in Seq([frozen : BOOLEAN, holder : {"none", "main", "loader"}])
        /\ Len(<<>>) = 0
    OBVIOUS
  <2>2. 0 \in Version /\ 0 \in 0..MaxPages /\ 0 <= MaxPages /\ 0 \in 0..MaxPages + 1
    BY ConstantsAssumption DEF Version
  <2>3. table \in Seq([frozen : BOOLEAN, holder : {"none", "main", "loader"}])
        /\ Len(table) <= MaxPages
    BY <2>1, <2>2 DEF Init
  <2>4. /\ file \in [version : Version, time : Version, state : {"ready", "busy", "gone"}]
        /\ tableTime \in Version /\ lastWriteTime \in Version
        /\ arg \in [Thread -> 0..MaxPages + 1] /\ best \in 0..MaxPages
        /\ current \in 0..MaxPages /\ direction \in {-1, 1}
    BY <2>2 DEF Init, Thread
  <2>5. /\ changed \in BOOLEAN /\ scanned \in BOOLEAN /\ newPage \in BOOLEAN
        /\ bye \in BOOLEAN /\ error \in BOOLEAN /\ reported \in BOOLEAN
        /\ owner \in {"none", "main", "loader"} /\ op \in Operation \union {"create", "none"}
    BY DEF Init
  <2>6. pc \in [Thread -> Place]
    BY DEF Init, Thread, Place
  <2>7. QED
    BY <2>3, <2>4, <2>5, <2>6 DEF TypeOK
<1>2. TimeInv /\ PlaceInv /\ AskInv /\ CreateInv /\ OwnerInv /\ SeenInv
  BY DEF Init, TimeInv, PlaceInv, AskInv, CreateInv, OwnerInv, SeenInv, Inside, Loading,
         NameOnly, Loaded
<1>3. NoChangeMissed /\ NoErrorLost
  BY DEF Init, NoChangeMissed, NoErrorLost
<1>4. QED
  BY <1>1, <1>2, <1>3 DEF IInv

LEMMA Keeps ==
  ASSUME IInv, [Next]_vars
  PROVE  IInv'
<1>1. CASE Next
  <2>1. /\ TypeOK /\ TimeInv /\ PlaceInv /\ AskInv /\ CreateInv /\ OwnerInv /\ SeenInv
        /\ NoChangeMissed /\ NoErrorLost
    BY DEF IInv
  <2>2. TypeOK'
    <3>1. ASSUME NEW t \in Loading, GetLoadedPage(t) PROVE TypeOK'
      BY <2>1, <3>1, LoadingKeepsTypes
    <3>2. CASE Over
      BY <2>1, <3>2 DEF Over, vars, fileVars, tableVars, placeVars, errorVars, TypeOK
    <3>3. QED
      BY <1>1, <2>1, <3>1, <3>2, ClientKeepsTypes, LoaderKeepsTypes, CollectorKeepsTypes,
         OthersKeepTypes
         DEF Next, Client, PageLoader, Loading
  <2>3. TimeInv' /\ NoChangeMissed'
    BY <1>1, <2>1, TimesKept
  <2>4. CreateInv' /\ OwnerInv'
    BY <1>1, <2>1, OwnersKept
  <2>5. PlaceInv' /\ AskInv'
    BY <1>1, <2>1, PlacesKept, AskKept
  <2>6. SeenInv'
    BY <1>1, <2>1, SeenKept
  <2>7. NoErrorLost'
    BY <1>1, <2>1, ErrorsKept
  <2>8. QED
    BY <2>2, <2>3, <2>4, <2>5, <2>6, <2>7 DEF IInv
<1>2. CASE UNCHANGED vars
  BY <1>2 DEF vars, fileVars, tableVars, placeVars, errorVars, IInv, TypeOK, TimeInv, PlaceInv,
       AskInv, CreateInv, OwnerInv, SeenInv, NoChangeMissed, NoErrorLost, NameOnly, Loaded
<1>3. QED
  BY <1>1, <1>2

\* The three threads keep the invariant, whatever happens to the file.
THEOREM Invariance == Spec => []IInv
<1>1. Init => IInv
  BY Starts
<1>2. IInv /\ [Next]_vars => IInv'
  BY Keeps
<1>3. QED
  BY <1>1, <1>2, PTL DEF Spec

\* All variables stay in their ranges, and only the client and the loader hold
\* locks (DviImpl, DviPageImpl).
THEOREM TypeCorrect == Spec => []TypeOK
<1>1. IInv => TypeOK
  BY DEF IInv
<1>2. QED
  BY <1>1, Invariance, PTL

\* A page that the client draws or the loader renders is not taken away by the
\* collector (DviImpl::GarbageCollector) or by a scan of the other thread.
THEOREM PageInUseTheorem == Spec => []PageInUseStays
<1>1. IInv => PageInUseStays
  BY DEF IInv, SeenInv, PageInUseStays, Loading, NameOnly
<1>2. QED
  BY <1>1, Invariance, PTL

\* No order of looking, scanning and writing loses a change of the file
\* (DviImpl::GetPageStatus, DviImpl::Scan).
THEOREM NoChangeMissedTheorem == Spec => []NoChangeMissed
<1>1. IInv => NoChangeMissed
  BY DEF IInv
<1>2. QED
  BY <1>1, Invariance, PTL

\* What the loader has died of is kept until the client has been told
\* (DviImpl::CheckCondition and the two threads' exception handlers).
THEOREM NoErrorLostTheorem == Spec => []NoErrorLost
<1>1. IInv => NoErrorLost
  BY DEF IInv
<1>2. QED
  BY <1>1, Invariance, PTL
=============================================================================
