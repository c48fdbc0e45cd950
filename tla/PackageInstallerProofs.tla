----------------------- MODULE PackageInstallerProofs -----------------------
(***************************************************************************)
(* Proofs about PackageInstaller, for all processes, packages, files,      *)
(* contents, dependencies and bounds.  The inductive invariant says, for   *)
(* each stage of a job, what is left to be done; it is proved in layers,   *)
(* each of which uses those before it.                                     *)
(***************************************************************************)
EXTENDS PackageInstaller, FiniteSetTheorems, TLAPS

\* What the job is at, or will be at when packages.ini has been written.
Stage == IF phase = "save" THEN after ELSE phase

\* The packages that are installed according to whoever has the say.
Believed == IF phase = "idle" THEN recorded ELSE installed[Me]

\* What package-manifests.ini says, or will say when the job is done.
Drafted == IF phase = "idle" THEN manifest ELSE drafts

Replacing == {"drop", "extract", "unindex", "index", "mark", "settle"}
Extracted == {"unindex", "index", "mark", "settle"}

\* The registers of the job at each stage.
Registered ==
  /\ phase # "idle" => holder \in loaded
  /\ phase = "save" => after # "next"
  /\ phase # "idle" => \A p \in removing : known[Me][p] # 0
  /\ Stage \in Replacing \cup {"fetch"} => pkg \in adding
  /\ Stage \in Replacing \cup {"fetch", "delete"} => pkg \in Package /\ known[Me][pkg] # 0
  /\ IF Stage \in {"drop", "delete"} THEN files \subseteq Contents[pkg][known[Me][pkg]]
                                     ELSE files = {}
  /\ Stage \in {"drop", "settle"} => pkg \in installed[Me]
  /\ Stage \in {"delete", "extract", "unindex", "index", "mark"} => pkg \notin installed[Me]
  /\ phase = "reload" => manifest = drafts

\* The disk and the new version of the package at each stage.
Progress ==
  /\ Stage \in {"drop", "extract"} => deleted \cap disk = {}
  /\ Stage = "unindex" => (deleted \ NewFiles) \cap disk = {}
  /\ Stage \in Extracted => NewFiles \subseteq disk
  /\ Stage \in {"mark", "settle"} => NewFiles \subseteq index
  /\ Stage \in {"index", "mark", "settle"} => drafts[pkg] = version
  /\ Stage = "settle" => extracted[pkg] = version
  /\ \A p \in recorded : extracted[p] # 0
  /\ \A x \in Process : \A p \in installed[x] : extracted[p] # 0

\* packages.ini is what the holder believes, unless it is being written.
Synchronised ==
  /\ phase = "save" => recorded = {}
  /\ ~ stale /\ phase # "save" => recorded = Believed

\* The manifests that are, or are going to be, on the disk and in the table
\* are those of the installed versions.
Manifests ==
  ~ stale => \A p \in Believed \ unwritten :
    /\ Drafted[p] = extracted[p]
    /\ phase # "idle" => known[Me][p] = extracted[p] \/ (Stage = "settle" /\ p = pkg)

Indexed(p) ==
  \A f \in Owned(p) \cap disk :
    \/ f \in index
    \/ phase \in {"unindex", "index"} /\ f \in NewFiles
    \/ \E q \in leftover \ {p} : f \in EverOwned(q)

AllIndexed == ~ stale => \A p \in Believed : Indexed(p)

AllExist ==
  ~ stale => \A p \in Believed \ broken :
    (phase = "drop" /\ pkg = p) \/ Owned(p) \cap Private(p) \subseteq disk

\* A file that is excepted from NoOrphans and from what reference counts mean.
Excused(f) == \E q \in leftover \cup unwritten : f \in EverOwned(q)

\* The installed packages that have file f, says the table of x.
Claims(x, f) == {p \in installed[x] : known[x][p] # 0 /\ f \in Contents[p][known[x][p]]}

\* The reference count of f in the table of x is at most ...
Bound(x, f) ==
  IF x = holder /\ Stage \in Replacing \cup {"delete"}
  THEN Cardinality(Claims(x, f) \ {pkg}) + (IF f \in files THEN 1 ELSE 0)
  ELSE Cardinality(Claims(x, f))

Counted == \A x \in Process, f \in File : Excused(f) \/ ref[x][f] <= Bound(x, f)

Holding == IF phase = "drop" THEN Believed \ {pkg} ELSE Believed

\* File f belongs to an installed package, or to the one that is worked on.
Accounted(f) ==
  \/ Excused(f) \/ (\E p \in Holding : f \in Owned(p)) \/ f \in files
  \/ phase \in {"unindex", "index", "mark"} /\ f \in NewFiles

AllAccounted == ~ stale /\ ~ torn => \A f \in disk : Accounted(f)

\* Dependencies: what is still missing is going to be added.
Needed(p) == {p} \cup (IF p \in late THEN {} ELSE Requires[p][known[Me][p]])

Following ==
  /\ phase = "idle" \/ reload => wanted = {}
  /\ followed => removing = {} /\ adding \subseteq late
  /\ phase \notin {"idle", "save"} /\ (phase = "settle" \/ wanted \ adding # {})
       => recorded = installed[Me]
  /\ \A p \in wanted : known[Me][p] # 0 \/ (p \in adding /\ ~ followed)
  /\ followed => \A p \in wanted : \A q \in Needed(p) :
       q \in installed[Me] \/ q \in adding \/ known[Me][q] = 0

IInv ==
  /\ TypeOK /\ Registered /\ Progress /\ Synchronised /\ Manifests /\ AllIndexed
  /\ AllExist /\ Counted /\ AllAccounted /\ Following
-----------------------------------------------------------------------------
(* Lemmas about the operators.                                             *)

\* The contents and the dependencies of a version are files and packages.
LEMMA ContentsType ==
  ASSUME NEW p \in Package, NEW v \in Version
  PROVE  Contents[p][v] \subseteq File /\ Requires[p][v] \subseteq Package
BY PackagesAssumption

\* The first version is a version, and so is every version that is known.
LEMMA Versions ==
  /\ 1 \in Version /\ 0 \in 0..MaxVersion /\ Version \subseteq 0..MaxVersion
  /\ \A v \in 0..MaxVersion : v # 0 => v \in Version
BY PackagesAssumption DEF Version

\* What is installed is extracted as a whole.
LEMMA NewFilesType ==
  ASSUME TypeOK, pkg \in Package
  PROVE  NewFiles \subseteq File
BY ContentsType DEF TypeOK, NewFiles

\* The files of a package are files.
LEMMA FilesType ==
  ASSUME TypeOK, Registered
  PROVE  files \subseteq File
BY DEF TypeOK

\* All packages that are collected are packages.
LEMMA ClosureType ==
  ASSUME NEW ps, NEW versions
  PROVE  Closure(ps, versions) \subseteq Package
BY DEF Closure

\* A job that ends leaves its registers in their range.
LEMMA RegistersType ==
  ASSUME Registers
  PROVE  /\ holder' = "free" /\ phase' = "idle" /\ after' = "next"
         /\ wanted' = {} /\ adding' = {} /\ removing' = {} /\ late' = {}
         /\ followed' = FALSE /\ reload' = FALSE /\ drafts' \in [Package -> 0..MaxVersion]
         /\ drafts' = Unknown /\ pkg' = None /\ version' = 1 /\ files' = {} /\ deleted' = {}
BY Versions DEF Registers, Forgotten, Unknown

\* Loading a table leaves the tables in their range.
LEMMA LoadType ==
  ASSUME TypeOK, NEW x \in Process, LoadTable(x) \/ NeedTable(x)
  PROVE  /\ loaded' \subseteq Process /\ installed' \in [Process -> SUBSET Package]
         /\ known' \in [Process -> [Package -> 0..MaxVersion]]
         /\ ref' \in [Process -> [File -> Nat]]
<1>1. NoRefs \in [File -> Nat]
  BY DEF NoRefs
<1> QED BY <1>1 DEF TypeOK, LoadTable, NeedTable, tableVars

\* An abandoned job leaves the disk and the history in their range.
LEMMA AbandonType ==
  ASSUME TypeOK, Registered, Abandon
  PROVE  /\ disk' \subseteq File /\ troubles' \in 0..MaxTroubles
         /\ broken' \subseteq Package /\ leftover' \subseteq Package
         /\ unwritten' \subseteq Package /\ Registers
         /\ UNCHANGED <<recorded, manifest, index, newest, jobs, extracted, stale>>
<1>1. ~ Untouched => pkg \in Package
  BY DEF TypeOK, Registered, Untouched, Stage, Replacing, Phases
<1>2. disk' \subseteq File
  <2>1. CASE phase = "extract"
    BY <2>1, <1>1, NewFilesType DEF Abandon, Untouched, TypeOK
  <2>2. CASE phase # "extract"
    BY <2>2 DEF Abandon, TypeOK
  <2> QED BY <2>1, <2>2
<1>3. broken' \subseteq Package
  BY <1>1 DEF Abandon, TypeOK, Untouched
<1>4. leftover' \subseteq Package
  BY <1>1 DEF Abandon, TypeOK
<1>5. unwritten' \subseteq Package
  BY DEF Abandon, TypeOK
<1>6. troubles' \in 0..MaxTroubles
  BY PackagesAssumption DEF Abandon, TypeOK
<1> QED BY <1>2, <1>3, <1>4, <1>5, <1>6 DEF Abandon


\* Every step keeps every variable in its range.
LEMMA TypeStep ==
  ASSUME TypeOK, Registered, [Next]_vars
  PROVE  TypeOK'
<1> USE DEF vars, diskVars, tableVars, planVars, stepVars, countVars, historyVars, Me, Goto
<1>1. ASSUME NEW p \in Package, Release(p) PROVE TypeOK'
  BY <1>1, PackagesAssumption DEF Release, TypeOK, Phases, Version
<1>2. ASSUME NEW x \in Process, Ask(x) PROVE TypeOK'
  BY <1>2 DEF Ask, LoadTable, TypeOK, Phases, NoRefs
<1>3. ASSUME NEW x \in Process, Forget(x) PROVE TypeOK'
  BY <1>3, PackagesAssumption DEF Forget, TypeOK, Phases, Unknown, NoRefs, Version
<1>4. ASSUME NEW x \in Process, UpdateDb(x) PROVE TypeOK'
  <2>1. stale' \in BOOLEAN /\ jobs' \in 0..MaxJobs
    BY <1>4, PackagesAssumption DEF UpdateDb, Lock, TypeOK
  <2>2. /\ loaded' \subseteq Process /\ installed' \in [Process -> SUBSET Package]
        /\ known' \in [Process -> [Package -> 0..MaxVersion]]
        /\ ref' \in [Process -> [File -> Nat]]
    BY <1>4, LoadType DEF UpdateDb, Lock
  <2>3. drafts' \in [Package -> 0..MaxVersion]
    BY <1>4, Versions DEF UpdateDb, TypeOK
  <2> QED BY <1>4, <2>1, <2>2, <2>3, PackagesAssumption DEF UpdateDb, Lock, TypeOK, Phases
<1>5. ASSUME NEW x \in Process, NEW add \in SUBSET Package, NEW remove \in SUBSET Package,
             InstallRemove(x, add, remove) PROVE TypeOK'
  <2>1. stale' \in BOOLEAN /\ jobs' \in 0..MaxJobs
    BY <1>5, PackagesAssumption DEF InstallRemove, Lock, TypeOK
  <2>2. /\ loaded' \subseteq Process /\ installed' \in [Process -> SUBSET Package]
        /\ known' \in [Process -> [Package -> 0..MaxVersion]]
        /\ ref' \in [Process -> [File -> Nat]]
    BY <1>5, LoadType DEF InstallRemove, Lock
  <2>3. wanted' \subseteq Package /\ adding' \subseteq Package
    BY <1>5, ClosureType DEF InstallRemove
  <2> QED BY <1>5, <2>1, <2>2, <2>3, PackagesAssumption DEF InstallRemove, Lock, TypeOK,
      Phases
<1>6. ASSUME NEW p \in Package, NextPackage(p) PROVE TypeOK'
  BY <1>6 DEF NextPackage, TypeOK, Phases
<1>7. ASSUME NEW p \in Package, RemovePackage(p) PROVE TypeOK'
  BY <1>7, PackagesAssumption DEF RemovePackage, Save, TypeOK, Phases, Registered, Stage,
     Replacing, Unknown, NoRefs, Version
<1>8. ASSUME NEW f \in File, DropFile(f) PROVE TypeOK'
  <2>1. holder \in Process /\ Released(f) \in Nat
    BY <1>8 DEF DropFile, Dropping, Released, TypeOK
  <2>2. ref' \in [Process -> [File -> Nat]]
    BY <1>8, <2>1 DEF DropFile, TypeOK
  <2>3. disk' \subseteq File /\ deleted' \subseteq File
    BY <1>8 DEF DropFile, TypeOK
  <2> QED BY <1>8, <2>2, <2>3 DEF DropFile, TypeOK
<1>9. ASSUME NEW f \in File, KeepFile(f) PROVE TypeOK'
  BY <1>9, PackagesAssumption DEF KeepFile, TypeOK, Phases, Registered, Stage, Replacing
<1>10. ASSUME Fetch PROVE TypeOK'
  BY <1>10, PackagesAssumption DEF Fetch, TypeOK, Phases, Registered, Stage, Replacing,
     Version
<1>11. ASSUME Unmark PROVE TypeOK'
  BY <1>11 DEF Unmark, Save, TypeOK, Phases
<1>12. ASSUME WriteRecords PROVE TypeOK'
  BY <1>12 DEF WriteRecords, TypeOK, Phases
<1>13. ASSUME Extract PROVE TypeOK'
  <2>1. disk' \subseteq File
    BY <1>13, NewFilesType DEF Extract, TypeOK, Registered, Stage, Replacing
  <2> QED BY <1>13, <2>1 DEF Extract, TypeOK, Phases
<1>14. ASSUME Unindex PROVE TypeOK'
  BY <1>14, PackagesAssumption DEF Unindex, TypeOK, Phases, Registered, Stage, Replacing,
     Unknown, NoRefs, Version
<1>15. ASSUME Index PROVE TypeOK'
  <2>1. index' \subseteq File
    BY <1>15, NewFilesType DEF Index, TypeOK, Registered, Stage, Replacing
  <2> QED BY <1>15, <2>1 DEF Index, TypeOK, Phases
<1>16. ASSUME Mark PROVE TypeOK'
  BY <1>16, PackagesAssumption DEF Mark, Save, TypeOK, Phases, Registered, Stage, Replacing,
     Unknown, NoRefs, Version
<1>17. ASSUME Settle PROVE TypeOK'
  BY <1>17, PackagesAssumption DEF Settle, Forgotten, TypeOK, Phases, Registered, Stage,
     Replacing, Unknown, NoRefs, Version
<1>18. ASSUME PackageRemoved PROVE TypeOK'
  BY <1>18, PackagesAssumption DEF PackageRemoved, Forgotten, TypeOK, Phases, Registered,
     Stage, Replacing, Unknown, NoRefs, Version
<1>19. ASSUME Follow PROVE TypeOK'
  <2>1. adding' \subseteq Package
    BY <1>19, ClosureType DEF Follow
  <2> QED BY <1>19, <2>1 DEF Follow, TypeOK, Phases
<1>20. ASSUME EmptyManifests PROVE TypeOK'
  BY <1>20, PackagesAssumption DEF EmptyManifests, Done, TypeOK, Phases, Registered, Stage,
     Replacing, Unknown, NoRefs, Version
<1>21. ASSUME WriteManifests PROVE TypeOK'
  <2>1. CASE reload
    BY <1>21, <2>1 DEF WriteManifests, TypeOK, Phases
  <2>2. CASE ~ reload
    BY <1>21, <2>2, RegistersType, Versions DEF WriteManifests, TypeOK, Phases
  <2> QED BY <2>1, <2>2
<1>22. ASSUME Reload PROVE TypeOK'
  <2>1. holder \in Process
    BY <1>22 DEF Reload, TypeOK
  <2>2. /\ loaded' \subseteq Process /\ installed' \in [Process -> SUBSET Package]
        /\ known' \in [Process -> [Package -> 0..MaxVersion]]
        /\ ref' \in [Process -> [File -> Nat]]
    BY <1>22, <2>1, LoadType DEF Reload
  <2> QED BY <1>22, <2>2, RegistersType, Versions DEF Reload, TypeOK, Phases
<1>23. ASSUME Fail PROVE TypeOK'
  <2>1. /\ disk' \subseteq File /\ troubles' \in 0..MaxTroubles /\ Registers
        /\ broken' \subseteq Package /\ leftover' \subseteq Package /\ unwritten' \subseteq Package
        /\ UNCHANGED <<recorded, manifest, index, newest, jobs, extracted, stale>>
    BY <1>23, AbandonType DEF Fail
  <2> QED BY <1>23, <2>1, RegistersType, Versions DEF Fail, TypeOK, Phases
<1>24. ASSUME NEW f \in File, DeletionFails(f) PROVE TypeOK'
  <2>1. /\ disk' \subseteq File /\ troubles' \in 0..MaxTroubles /\ Registers
        /\ broken' \subseteq Package /\ leftover' \subseteq Package /\ unwritten' \subseteq Package
        /\ UNCHANGED <<recorded, manifest, index, newest, jobs, extracted, stale>>
    BY <1>24, AbandonType DEF DeletionFails
  <2>2. ref' \in [Process -> [File -> Nat]]
    BY <1>24 DEF DeletionFails, TypeOK
  <2> QED BY <1>24, <2>1, <2>2, RegistersType, Versions DEF DeletionFails, TypeOK, Phases
<1>25. ASSUME Die PROVE TypeOK'
  <2>1. /\ disk' \subseteq File /\ troubles' \in 0..MaxTroubles /\ Registers
        /\ broken' \subseteq Package /\ leftover' \subseteq Package /\ unwritten' \subseteq Package
        /\ UNCHANGED <<recorded, manifest, index, newest, jobs, extracted, stale>>
    BY <1>25, AbandonType DEF Die
  <2>2. torn' \in BOOLEAN
    BY <1>25 DEF Die, TypeOK
  <2>3. Unknown \in [Package -> 0..MaxVersion] /\ NoRefs \in [File -> Nat]
    BY Versions DEF Unknown, NoRefs
  <2>4. /\ loaded' \subseteq Process /\ installed' \in [Process -> SUBSET Package]
        /\ known' \in [Process -> [Package -> 0..MaxVersion]]
        /\ ref' \in [Process -> [File -> Nat]]
    BY <1>25, <2>3 DEF Die, TypeOK
  <2> QED BY <2>1, <2>2, <2>4, RegistersType, Versions DEF TypeOK, Phases
<1>26. CASE UNCHANGED vars
  BY <1>26 DEF TypeOK, Phases
<1> QED BY <1>1, <1>2, <1>3, <1>4, <1>5, <1>6, <1>7, <1>8, <1>9, <1>10, <1>11, <1>12, <1>13,
    <1>14, <1>15, <1>16, <1>17, <1>18, <1>19, <1>20, <1>21, <1>22, <1>23, <1>24, <1>25,
    <1>26 DEF Next, Working

\* Every step leaves the registers as the next stage needs them.
LEMMA RegisteredStep ==
  ASSUME TypeOK, Registered, [Next]_vars
  PROVE  Registered'
<1> USE DEF vars, diskVars, tableVars, planVars, stepVars, countVars, historyVars, Me, Goto
<1>1. ASSUME NEW p \in Package, Release(p) PROVE Registered'
  BY <1>1, Versions DEF Release, TypeOK, Registered, Stage, Replacing
<1>2. ASSUME NEW x \in Process, Ask(x) PROVE Registered'
  BY <1>2, Versions DEF Ask, LoadTable, TypeOK, Registered, Stage, Replacing
<1>3. ASSUME NEW x \in Process, Forget(x) PROVE Registered'
  BY <1>3, Versions DEF Forget, TypeOK, Registered, Stage, Replacing
<1>4. ASSUME NEW x \in Process, UpdateDb(x) PROVE Registered'
  BY <1>4, Versions DEF UpdateDb, Lock, NeedTable, LoadTable, TypeOK, Registered, Stage,
     Replacing
<1>5. ASSUME NEW x \in Process, NEW add \in SUBSET Package, NEW remove \in SUBSET Package,
             InstallRemove(x, add, remove) PROVE Registered'
  BY <1>5, Versions DEF InstallRemove, Lock, NeedTable, LoadTable, TypeOK, Registered,
     Stage, Replacing
<1>6. ASSUME NEW p \in Package, NextPackage(p) PROVE Registered'
  BY <1>6, Versions DEF NextPackage, TypeOK, Registered, Stage, Replacing
<1>7. ASSUME NEW p \in Package, RemovePackage(p) PROVE Registered'
  BY <1>7, Versions DEF RemovePackage, Save, TypeOK, Registered, Stage, Replacing
<1>8. ASSUME NEW f \in File, DropFile(f) PROVE Registered'
  BY <1>8, Versions DEF DropFile, Dropping, TypeOK, Registered, Stage, Replacing
<1>9. ASSUME NEW f \in File, KeepFile(f) PROVE Registered'
  BY <1>9, Versions DEF KeepFile, TypeOK, Registered, Stage, Replacing
<1>10. ASSUME Fetch PROVE Registered'
  BY <1>10, Versions DEF Fetch, TypeOK, Registered, Stage, Replacing
<1>11. ASSUME Unmark PROVE Registered'
  BY <1>11, Versions DEF Unmark, Save, TypeOK, Registered, Stage, Replacing
<1>12. ASSUME WriteRecords PROVE Registered'
  BY <1>12, Versions DEF WriteRecords, TypeOK, Registered, Stage, Replacing
<1>13. ASSUME Extract PROVE Registered'
  BY <1>13, Versions DEF Extract, TypeOK, Registered, Stage, Replacing
<1>14. ASSUME Unindex PROVE Registered'
  BY <1>14, Versions DEF Unindex, TypeOK, Registered, Stage, Replacing
<1>15. ASSUME Index PROVE Registered'
  BY <1>15, Versions DEF Index, TypeOK, Registered, Stage, Replacing
<1>16. ASSUME Mark PROVE Registered'
  BY <1>16, Versions DEF Mark, Save, TypeOK, Registered, Stage, Replacing
<1>17. ASSUME Settle PROVE Registered'
  <2>1. version # 0
    BY DEF TypeOK, Version
  <2>2. holder \in Process /\ pkg \in Package
    BY <1>17 DEF Settle, TypeOK, Registered, Stage, Replacing
  <2>3. \A p \in removing' : known'[Me][p] # 0
    BY <1>17, <2>1, <2>2 DEF Settle, TypeOK, Registered, Stage, Replacing
  <2> QED BY <1>17, <2>2, <2>3 DEF Settle, Forgotten, Registered, Stage, Replacing
<1>18. ASSUME PackageRemoved PROVE Registered'
  BY <1>18, Versions DEF PackageRemoved, Forgotten, TypeOK, Registered, Stage, Replacing
<1>19. ASSUME Follow PROVE Registered'
  BY <1>19, Versions DEF Follow, TypeOK, Registered, Stage, Replacing
<1>20. ASSUME EmptyManifests PROVE Registered'
  BY <1>20, Versions DEF EmptyManifests, Done, TypeOK, Registered, Stage, Replacing
<1>21. ASSUME WriteManifests PROVE Registered'
  BY <1>21, Versions DEF WriteManifests, Registers, Forgotten, TypeOK, Registered, Stage,
     Replacing
<1>22. ASSUME Reload PROVE Registered'
  BY <1>22, Versions DEF Reload, LoadTable, Registers, Forgotten, TypeOK, Registered, Stage,
     Replacing
<1>23. ASSUME Fail PROVE Registered'
  BY <1>23, RegistersType DEF Fail, Abandon, Registered, Stage, Replacing
<1>24. ASSUME NEW f \in File, DeletionFails(f) PROVE Registered'
  BY <1>24, RegistersType DEF DeletionFails, Abandon, Registered, Stage, Replacing
<1>25. ASSUME Die PROVE Registered'
  BY <1>25, RegistersType DEF Die, Abandon, Registered, Stage, Replacing
<1>26. CASE UNCHANGED vars
  BY <1>26 DEF TypeOK, Registered, Stage, Replacing
<1> QED BY <1>1, <1>2, <1>3, <1>4, <1>5, <1>6, <1>7, <1>8, <1>9, <1>10, <1>11, <1>12, <1>13,
    <1>14, <1>15, <1>16, <1>17, <1>18, <1>19, <1>20, <1>21, <1>22, <1>23, <1>24, <1>25,
    <1>26 DEF Next, Working

\* Every step brings the disk, the index and the history to where the next
\* stage needs them.
LEMMA ProgressStep ==
  ASSUME TypeOK, Registered, Progress, [Next]_vars
  PROVE  Progress'
<1> USE DEF vars, diskVars, tableVars, planVars, stepVars, countVars, historyVars, Me, Goto
<1>1. ASSUME NEW p \in Package, Release(p) PROVE Progress'
  BY <1>1 DEF Release, TypeOK, Registered, Stage, Replacing, Extracted, Progress, NewFiles
<1>2. ASSUME NEW x \in Process, Ask(x) PROVE Progress'
  BY <1>2 DEF Ask, LoadTable, TypeOK, Registered, Stage, Replacing, Extracted, Progress,
     NewFiles
<1>3. ASSUME NEW x \in Process, Forget(x) PROVE Progress'
  BY <1>3 DEF Forget, TypeOK, Registered, Stage, Replacing, Extracted, Progress, NewFiles
<1>4. ASSUME NEW x \in Process, UpdateDb(x) PROVE Progress'
  BY <1>4 DEF UpdateDb, Lock, NeedTable, LoadTable, TypeOK, Registered, Stage, Replacing,
     Extracted, Progress, NewFiles
<1>5. ASSUME NEW x \in Process, NEW add \in SUBSET Package, NEW remove \in SUBSET Package,
             InstallRemove(x, add, remove) PROVE Progress'
  BY <1>5 DEF InstallRemove, Lock, NeedTable, LoadTable, TypeOK, Registered, Stage,
     Replacing, Extracted, Progress, NewFiles
<1>6. ASSUME NEW p \in Package, NextPackage(p) PROVE Progress'
  BY <1>6 DEF NextPackage, TypeOK, Registered, Stage, Replacing, Extracted, Progress,
     NewFiles
<1>7. ASSUME NEW p \in Package, RemovePackage(p) PROVE Progress'
  BY <1>7 DEF RemovePackage, Save, TypeOK, Registered, Stage, Replacing, Extracted,
     Progress, NewFiles
<1>8. ASSUME NEW f \in File, DropFile(f) PROVE Progress'
  BY <1>8 DEF DropFile, Dropping, TypeOK, Registered, Stage, Replacing, Extracted, Progress,
     NewFiles
<1>9. ASSUME NEW f \in File, KeepFile(f) PROVE Progress'
  BY <1>9 DEF KeepFile, TypeOK, Registered, Stage, Replacing, Extracted, Progress, NewFiles
<1>10. ASSUME Fetch PROVE Progress'
  BY <1>10 DEF Fetch, TypeOK, Registered, Stage, Replacing, Extracted, Progress, NewFiles
<1>11. ASSUME Unmark PROVE Progress'
  BY <1>11 DEF Unmark, Save, TypeOK, Registered, Stage, Replacing, Extracted, Progress,
     NewFiles
<1>12. ASSUME WriteRecords PROVE Progress'
  BY <1>12 DEF WriteRecords, TypeOK, Registered, Stage, Replacing, Extracted, Progress,
     NewFiles
<1>13. ASSUME Extract PROVE Progress'
  BY <1>13 DEF Extract, TypeOK, Registered, Stage, Replacing, Extracted, Progress, NewFiles
<1>14. ASSUME Unindex PROVE Progress'
  BY <1>14 DEF Unindex, TypeOK, Registered, Stage, Replacing, Extracted, Progress, NewFiles
<1>15. ASSUME Index PROVE Progress'
  BY <1>15 DEF Index, TypeOK, Registered, Stage, Replacing, Extracted, Progress, NewFiles
<1>16. ASSUME Mark PROVE Progress'
  <2>1. holder \in Process /\ pkg \in Package /\ version # 0
    BY <1>16 DEF Mark, TypeOK, Registered, Stage, Replacing, Version
  <2>2. \A p \in Package : extracted[p] # 0 \/ p = pkg => extracted'[p] # 0
    BY <1>16, <2>1 DEF Mark, TypeOK
  <2>3. \A x \in Process : \A p \in installed'[x] : p \in Package /\ (p \in installed[x] \/ p = pkg)
    BY <1>16, <2>1 DEF Mark, Save, TypeOK
  <2>4. \A x \in Process : \A p \in installed'[x] : extracted'[p] # 0
    BY <2>2, <2>3 DEF Progress
  <2>5. \A p \in recorded' : extracted'[p] # 0
    BY <1>16 DEF Mark, Save
  <2>6. extracted'[pkg] = version
    BY <1>16, <2>1 DEF Mark, TypeOK
  <2> QED
    BY <1>16, <2>4, <2>5, <2>6 DEF Mark, Save, Registered, Stage, Replacing, Extracted,
       Progress, NewFiles
<1>17. ASSUME Settle PROVE Progress'
  BY <1>17 DEF Settle, Forgotten, TypeOK, Registered, Stage, Replacing, Extracted, Progress,
     NewFiles
<1>18. ASSUME PackageRemoved PROVE Progress'
  BY <1>18 DEF PackageRemoved, Forgotten, TypeOK, Registered, Stage, Replacing, Extracted,
     Progress, NewFiles
<1>19. ASSUME Follow PROVE Progress'
  BY <1>19 DEF Follow, TypeOK, Registered, Stage, Replacing, Extracted, Progress, NewFiles
<1>20. ASSUME EmptyManifests PROVE Progress'
  BY <1>20 DEF EmptyManifests, Done, TypeOK, Registered, Stage, Replacing, Extracted,
     Progress, NewFiles
<1>21. ASSUME WriteManifests PROVE Progress'
  BY <1>21 DEF WriteManifests, Registers, Forgotten, TypeOK, Registered, Stage, Replacing,
     Extracted, Progress, NewFiles
<1>22. ASSUME Reload PROVE Progress'
  BY <1>22 DEF Reload, LoadTable, Registers, Forgotten, TypeOK, Registered, Stage,
     Replacing, Extracted, Progress, NewFiles
<1>23. ASSUME Fail PROVE Progress'
  BY <1>23 DEF Fail, Abandon, Registers, Forgotten, TypeOK, Registered, Stage, Replacing,
     Extracted, Progress, NewFiles
<1>24. ASSUME NEW f \in File, DeletionFails(f) PROVE Progress'
  BY <1>24 DEF DeletionFails, Abandon, Registers, Forgotten, TypeOK, Registered, Stage,
     Replacing, Extracted, Progress, NewFiles
<1>25. ASSUME Die PROVE Progress'
  BY <1>25 DEF Die, Abandon, Registers, Forgotten, TypeOK, Registered, Stage, Replacing,
     Extracted, Progress, NewFiles
<1>26. CASE UNCHANGED vars
  BY <1>26 DEF TypeOK, Registered, Stage, Replacing, Extracted, Progress, NewFiles
<1> QED BY <1>1, <1>2, <1>3, <1>4, <1>5, <1>6, <1>7, <1>8, <1>9, <1>10, <1>11, <1>12, <1>13,
    <1>14, <1>15, <1>16, <1>17, <1>18, <1>19, <1>20, <1>21, <1>22, <1>23, <1>24, <1>25,
    <1>26 DEF Next, Working

\* The holder of the lock knows what packages.ini says, unless it has started
\* with an outdated table.
LEMMA SynchronisedStep ==
  ASSUME TypeOK, Registered, Synchronised, [Next]_vars
  PROVE  Synchronised'
<1> USE DEF vars, diskVars, tableVars, planVars, stepVars, countVars, historyVars, Me, Goto
<1>1. ASSUME NEW p \in Package, Release(p) PROVE Synchronised'
  BY <1>1 DEF Release, TypeOK, Registered, Stage, Replacing, Synchronised, Believed
<1>2. ASSUME NEW x \in Process, Ask(x) PROVE Synchronised'
  BY <1>2 DEF Ask, LoadTable, TypeOK, Registered, Stage, Replacing, Synchronised, Believed
<1>3. ASSUME NEW x \in Process, Forget(x) PROVE Synchronised'
  BY <1>3 DEF Forget, TypeOK, Registered, Stage, Replacing, Synchronised, Believed
<1>4. ASSUME NEW x \in Process, UpdateDb(x) PROVE Synchronised'
  BY <1>4 DEF UpdateDb, Lock, NeedTable, LoadTable, TypeOK, Registered, Stage, Replacing,
     Synchronised, Believed, Outdated
<1>5. ASSUME NEW x \in Process, NEW add \in SUBSET Package, NEW remove \in SUBSET Package,
             InstallRemove(x, add, remove) PROVE Synchronised'
  BY <1>5 DEF InstallRemove, Lock, NeedTable, LoadTable, TypeOK, Registered, Stage,
     Replacing, Synchronised, Believed, Outdated
<1>6. ASSUME NEW p \in Package, NextPackage(p) PROVE Synchronised'
  BY <1>6 DEF NextPackage, TypeOK, Registered, Stage, Replacing, Synchronised, Believed
<1>7. ASSUME NEW p \in Package, RemovePackage(p) PROVE Synchronised'
  BY <1>7 DEF RemovePackage, Save, TypeOK, Registered, Stage, Replacing, Synchronised,
     Believed
<1>8. ASSUME NEW f \in File, DropFile(f) PROVE Synchronised'
  BY <1>8 DEF DropFile, Dropping, TypeOK, Registered, Stage, Replacing, Synchronised,
     Believed
<1>9. ASSUME NEW f \in File, KeepFile(f) PROVE Synchronised'
  BY <1>9 DEF KeepFile, TypeOK, Registered, Stage, Replacing, Synchronised, Believed
<1>10. ASSUME Fetch PROVE Synchronised'
  BY <1>10 DEF Fetch, TypeOK, Registered, Stage, Replacing, Synchronised, Believed
<1>11. ASSUME Unmark PROVE Synchronised'
  BY <1>11 DEF Unmark, Save, TypeOK, Registered, Stage, Replacing, Synchronised, Believed
<1>12. ASSUME WriteRecords PROVE Synchronised'
  BY <1>12 DEF WriteRecords, TypeOK, Registered, Stage, Replacing, Synchronised, Believed
<1>13. ASSUME Extract PROVE Synchronised'
  BY <1>13 DEF Extract, TypeOK, Registered, Stage, Replacing, Synchronised, Believed
<1>14. ASSUME Unindex PROVE Synchronised'
  BY <1>14 DEF Unindex, TypeOK, Registered, Stage, Replacing, Synchronised, Believed
<1>15. ASSUME Index PROVE Synchronised'
  BY <1>15 DEF Index, TypeOK, Registered, Stage, Replacing, Synchronised, Believed
<1>16. ASSUME Mark PROVE Synchronised'
  BY <1>16 DEF Mark, Save, TypeOK, Registered, Stage, Replacing, Synchronised, Believed
<1>17. ASSUME Settle PROVE Synchronised'
  BY <1>17 DEF Settle, Forgotten, TypeOK, Registered, Stage, Replacing, Synchronised,
     Believed
<1>18. ASSUME PackageRemoved PROVE Synchronised'
  BY <1>18 DEF PackageRemoved, Forgotten, TypeOK, Registered, Stage, Replacing,
     Synchronised, Believed
<1>19. ASSUME Follow PROVE Synchronised'
  BY <1>19 DEF Follow, TypeOK, Registered, Stage, Replacing, Synchronised, Believed
<1>20. ASSUME EmptyManifests PROVE Synchronised'
  BY <1>20 DEF EmptyManifests, Done, TypeOK, Registered, Stage, Replacing, Synchronised,
     Believed
<1>21. ASSUME WriteManifests PROVE Synchronised'
  BY <1>21 DEF WriteManifests, Registers, Forgotten, TypeOK, Registered, Stage, Replacing,
     Synchronised, Believed
<1>22. ASSUME Reload PROVE Synchronised'
  BY <1>22 DEF Reload, LoadTable, Registers, Forgotten, TypeOK, Registered, Stage,
     Replacing, Synchronised, Believed
<1>23. ASSUME Fail PROVE Synchronised'
  BY <1>23 DEF Fail, Abandon, Registers, Forgotten, TypeOK, Registered, Stage, Replacing,
     Synchronised, Believed
<1>24. ASSUME NEW f \in File, DeletionFails(f) PROVE Synchronised'
  BY <1>24 DEF DeletionFails, Abandon, Registers, Forgotten, TypeOK, Registered, Stage,
     Replacing, Synchronised, Believed
<1>25. ASSUME Die PROVE Synchronised'
  BY <1>25 DEF Die, Abandon, Registers, Forgotten, TypeOK, Registered, Stage, Replacing,
     Synchronised, Believed
<1>26. CASE UNCHANGED vars
  BY <1>26 DEF TypeOK, Registered, Stage, Replacing, Synchronised, Believed
<1> QED BY <1>1, <1>2, <1>3, <1>4, <1>5, <1>6, <1>7, <1>8, <1>9, <1>10, <1>11, <1>12, <1>13,
    <1>14, <1>15, <1>16, <1>17, <1>18, <1>19, <1>20, <1>21, <1>22, <1>23, <1>24, <1>25,
    <1>26 DEF Next, Working

\* The manifests stay those of the installed versions.
LEMMA ManifestsStep ==
  ASSUME TypeOK, Registered, Progress, Synchronised, Manifests, [Next]_vars
  PROVE  Manifests'
<1> USE DEF vars, diskVars, tableVars, planVars, stepVars, countVars, historyVars, Me, Goto
<1>1. ASSUME NEW p \in Package, Release(p) PROVE Manifests'
  BY <1>1 DEF Release, TypeOK, Registered, Stage, Replacing, Synchronised, Believed,
     Progress, Manifests, Drafted
<1>2. ASSUME NEW x \in Process, Ask(x) PROVE Manifests'
  BY <1>2 DEF Ask, LoadTable, TypeOK, Registered, Stage, Replacing, Synchronised, Believed,
     Progress, Manifests, Drafted
<1>3. ASSUME NEW x \in Process, Forget(x) PROVE Manifests'
  BY <1>3 DEF Forget, TypeOK, Registered, Stage, Replacing, Synchronised, Believed,
     Progress, Manifests, Drafted
<1>4. ASSUME NEW x \in Process, UpdateDb(x) PROVE Manifests'
  <2> SUFFICES ASSUME ~ stale' PROVE Manifests'
    BY DEF Manifests
  <2>1. holder' = x /\ phase' = "next" /\ phase = "idle" /\ ~ stale
    BY <1>4 DEF UpdateDb, Lock, TypeOK
  <2>2. known'[x] = manifest /\ installed'[x] = recorded
    BY <1>4 DEF UpdateDb, Lock, NeedTable, LoadTable, Outdated, TypeOK
  <2>3. UNCHANGED <<recorded, manifest, extracted, unwritten>>
    BY <1>4 DEF UpdateDb, Lock
  <2>4. ASSUME NEW p \in recorded \ unwritten
        PROVE  drafts'[p] = extracted[p] /\ known'[x][p] = extracted[p]
    <3>1. p \in Package /\ manifest[p] = extracted[p] /\ extracted[p] # 0
      BY <2>1, <2>4 DEF Manifests, Believed, Drafted, TypeOK, Progress
    <3> QED BY <1>4, <2>2, <3>1 DEF UpdateDb
  <2> QED BY <2>1, <2>2, <2>3, <2>4 DEF Manifests, Believed, Drafted
<1>5. ASSUME NEW x \in Process, NEW add \in SUBSET Package, NEW remove \in SUBSET Package,
             InstallRemove(x, add, remove) PROVE Manifests'
  BY <1>5 DEF InstallRemove, Lock, NeedTable, LoadTable, TypeOK, Registered, Stage,
     Replacing, Synchronised, Believed, Progress, Manifests, Drafted, Outdated
<1>6. ASSUME NEW p \in Package, NextPackage(p) PROVE Manifests'
  BY <1>6 DEF NextPackage, TypeOK, Registered, Stage, Replacing, Synchronised, Believed,
     Progress, Manifests, Drafted
<1>7. ASSUME NEW p \in Package, RemovePackage(p) PROVE Manifests'
  BY <1>7 DEF RemovePackage, Save, TypeOK, Registered, Stage, Replacing, Synchronised,
     Believed, Progress, Manifests, Drafted
<1>8. ASSUME NEW f \in File, DropFile(f) PROVE Manifests'
  BY <1>8 DEF DropFile, Dropping, TypeOK, Registered, Stage, Replacing, Synchronised,
     Believed, Progress, Manifests, Drafted
<1>9. ASSUME NEW f \in File, KeepFile(f) PROVE Manifests'
  BY <1>9 DEF KeepFile, TypeOK, Registered, Stage, Replacing, Synchronised, Believed,
     Progress, Manifests, Drafted
<1>10. ASSUME Fetch PROVE Manifests'
  BY <1>10 DEF Fetch, TypeOK, Registered, Stage, Replacing, Synchronised, Believed,
     Progress, Manifests, Drafted
<1>11. ASSUME Unmark PROVE Manifests'
  BY <1>11 DEF Unmark, Save, TypeOK, Registered, Stage, Replacing, Synchronised, Believed,
     Progress, Manifests, Drafted
<1>12. ASSUME WriteRecords PROVE Manifests'
  BY <1>12 DEF WriteRecords, TypeOK, Registered, Stage, Replacing, Synchronised, Believed,
     Progress, Manifests, Drafted
<1>13. ASSUME Extract PROVE Manifests'
  BY <1>13 DEF Extract, TypeOK, Registered, Stage, Replacing, Synchronised, Believed,
     Progress, Manifests, Drafted
<1>14. ASSUME Unindex PROVE Manifests'
  BY <1>14 DEF Unindex, TypeOK, Registered, Stage, Replacing, Synchronised, Believed,
     Progress, Manifests, Drafted
<1>15. ASSUME Index PROVE Manifests'
  BY <1>15 DEF Index, TypeOK, Registered, Stage, Replacing, Synchronised, Believed,
     Progress, Manifests, Drafted
<1>16. ASSUME Mark PROVE Manifests'
  BY <1>16 DEF Mark, Save, TypeOK, Registered, Stage, Replacing, Synchronised, Believed,
     Progress, Manifests, Drafted
<1>17. ASSUME Settle PROVE Manifests'
  BY <1>17 DEF Settle, Forgotten, TypeOK, Registered, Stage, Replacing, Synchronised,
     Believed, Progress, Manifests, Drafted
<1>18. ASSUME PackageRemoved PROVE Manifests'
  BY <1>18 DEF PackageRemoved, Forgotten, TypeOK, Registered, Stage, Replacing,
     Synchronised, Believed, Progress, Manifests, Drafted
<1>19. ASSUME Follow PROVE Manifests'
  BY <1>19 DEF Follow, TypeOK, Registered, Stage, Replacing, Synchronised, Believed,
     Progress, Manifests, Drafted
<1>20. ASSUME EmptyManifests PROVE Manifests'
  BY <1>20 DEF EmptyManifests, Done, TypeOK, Registered, Stage, Replacing, Synchronised,
     Believed, Progress, Manifests, Drafted
<1>21. ASSUME WriteManifests PROVE Manifests'
  BY <1>21 DEF WriteManifests, Registers, Forgotten, TypeOK, Registered, Stage, Replacing,
     Synchronised, Believed, Progress, Manifests, Drafted
<1>22. ASSUME Reload PROVE Manifests'
  BY <1>22 DEF Reload, LoadTable, Registers, Forgotten, TypeOK, Registered, Stage,
     Replacing, Synchronised, Believed, Progress, Manifests, Drafted
<1>23. ASSUME Fail PROVE Manifests'
  BY <1>23 DEF Fail, Abandon, Registers, Forgotten, TypeOK, Registered, Stage, Replacing,
     Synchronised, Believed, Progress, Manifests, Drafted
<1>24. ASSUME NEW f \in File, DeletionFails(f) PROVE Manifests'
  BY <1>24 DEF DeletionFails, Abandon, Registers, Forgotten, TypeOK, Registered, Stage,
     Replacing, Synchronised, Believed, Progress, Manifests, Drafted
<1>25. ASSUME Die PROVE Manifests'
  BY <1>25 DEF Die, Abandon, Registers, Forgotten, TypeOK, Registered, Stage, Replacing,
     Synchronised, Believed, Progress, Manifests, Drafted
<1>26. CASE UNCHANGED vars
  BY <1>26 DEF TypeOK, Registered, Stage, Replacing, Synchronised, Believed, Progress,
     Manifests, Drafted
<1> QED BY <1>1, <1>2, <1>3, <1>4, <1>5, <1>6, <1>7, <1>8, <1>9, <1>10, <1>11, <1>12, <1>13,
    <1>14, <1>15, <1>16, <1>17, <1>18, <1>19, <1>20, <1>21, <1>22, <1>23, <1>24, <1>25,
    <1>26 DEF Next, Working
\* What a package owns it has ever owned.
LEMMA EverOwnedFacts ==
  ASSUME TypeOK, NEW p \in Package
  PROVE  /\ Owned(p) \subseteq EverOwned(p)
         /\ pkg = p => NewFiles \subseteq EverOwned(p)
         /\ \A v \in 0..MaxVersion : v # 0 => Contents[p][v] \subseteq EverOwned(p)
<1>1. \A v \in 0..MaxVersion : v # 0 => Contents[p][v] \subseteq EverOwned(p)
  BY Versions DEF EverOwned
<1>2. version \in 0..MaxVersion /\ version # 0
  BY Versions DEF TypeOK, Version
<1> QED BY <1>1, <1>2 DEF TypeOK, Owned, NewFiles

\* A job starts with what packages.ini says, unless the table is outdated.
LEMMA LockFacts ==
  ASSUME TypeOK, Synchronised, NEW x \in Process, Lock(x), phase' = "next", ~ stale'
  PROVE  /\ phase = "idle" /\ holder' = x /\ ~ stale
         /\ installed'[x] = recorded /\ known'[x] = manifest
         /\ Believed' = Believed /\ recorded' = recorded
<1>1. phase = "idle" /\ ~ stale /\ holder' = x /\ recorded' = recorded
  BY DEF Lock, TypeOK, diskVars
<1>2. installed'[x] = recorded /\ known'[x] = manifest
  BY DEF Lock, NeedTable, LoadTable, Outdated, TypeOK, tableVars
<1> QED BY <1>1, <1>2 DEF Believed, Me


\* The files of the installed packages stay in the index.
LEMMA IndexedStep ==
  ASSUME TypeOK, Registered, Progress, Synchronised, AllIndexed, [Next]_vars
  PROVE  AllIndexed'
<1> USE DEF vars, diskVars, tableVars, planVars, stepVars, countVars, historyVars, Me, Goto
<1>1. ASSUME NEW p \in Package, Release(p) PROVE AllIndexed'
  BY <1>1 DEF Release, TypeOK, Registered, Stage, Replacing, Synchronised, Believed,
     AllIndexed, Indexed, Owned, NewFiles
<1>2. ASSUME NEW x \in Process, Ask(x) PROVE AllIndexed'
  BY <1>2 DEF Ask, LoadTable, TypeOK, Registered, Stage, Replacing, Synchronised, Believed,
     AllIndexed, Indexed, Owned, NewFiles
<1>3. ASSUME NEW x \in Process, Forget(x) PROVE AllIndexed'
  BY <1>3 DEF Forget, TypeOK, Registered, Stage, Replacing, Synchronised, Believed,
     AllIndexed, Indexed, Owned, NewFiles
<1>4. ASSUME NEW x \in Process, UpdateDb(x) PROVE AllIndexed'
  <2> SUFFICES ASSUME ~ stale' PROVE AllIndexed'
    BY DEF AllIndexed
  <2>1. Lock(x) /\ phase' = "next"
    BY <1>4 DEF UpdateDb
  <2>2. UNCHANGED <<disk, index, extracted, broken, leftover, unwritten, torn, pkg, version, files>>
    BY <2>1 DEF Lock
  <2> QED BY <2>1, <2>2, LockFacts DEF AllIndexed, Indexed, Owned, NewFiles, EverOwned
<1>5. ASSUME NEW x \in Process, NEW add \in SUBSET Package, NEW remove \in SUBSET Package,
             InstallRemove(x, add, remove) PROVE AllIndexed'
  <2> SUFFICES ASSUME ~ stale' PROVE AllIndexed'
    BY DEF AllIndexed
  <2>1. Lock(x) /\ phase' = "next"
    BY <1>5 DEF InstallRemove
  <2>2. UNCHANGED <<disk, index, extracted, broken, leftover, unwritten, torn, pkg, version, files>>
    BY <2>1 DEF Lock
  <2> QED BY <2>1, <2>2, LockFacts DEF AllIndexed, Indexed, Owned, NewFiles, EverOwned
<1>6. ASSUME NEW p \in Package, NextPackage(p) PROVE AllIndexed'
  BY <1>6 DEF NextPackage, TypeOK, Registered, Stage, Replacing, Synchronised, Believed,
     AllIndexed, Indexed, Owned, NewFiles
<1>7. ASSUME NEW p \in Package, RemovePackage(p) PROVE AllIndexed'
  BY <1>7 DEF RemovePackage, Save, TypeOK, Registered, Stage, Replacing, Synchronised,
     Believed, AllIndexed, Indexed, Owned, NewFiles
<1>8. ASSUME NEW f \in File, DropFile(f) PROVE AllIndexed'
  BY <1>8 DEF DropFile, Dropping, TypeOK, Registered, Stage, Replacing, Synchronised,
     Believed, AllIndexed, Indexed, Owned, NewFiles
<1>9. ASSUME NEW f \in File, KeepFile(f) PROVE AllIndexed'
  BY <1>9 DEF KeepFile, TypeOK, Registered, Stage, Replacing, Synchronised, Believed,
     AllIndexed, Indexed, Owned, NewFiles
<1>10. ASSUME Fetch PROVE AllIndexed'
  BY <1>10 DEF Fetch, TypeOK, Registered, Stage, Replacing, Synchronised, Believed,
     AllIndexed, Indexed, Owned, NewFiles
<1>11. ASSUME Unmark PROVE AllIndexed'
  BY <1>11 DEF Unmark, Save, TypeOK, Registered, Stage, Replacing, Synchronised, Believed,
     AllIndexed, Indexed, Owned, NewFiles
<1>12. ASSUME WriteRecords PROVE AllIndexed'
  BY <1>12 DEF WriteRecords, TypeOK, Registered, Stage, Replacing, Synchronised, Believed,
     AllIndexed, Indexed, Owned, NewFiles
<1>13. ASSUME Extract PROVE AllIndexed'
  <2> SUFFICES ASSUME ~ stale', NEW p \in Believed', NEW f \in Owned(p)' \cap disk'
               PROVE  \/ f \in index'
                      \/ phase' \in {"unindex", "index"} /\ f \in NewFiles'
                      \/ \E q \in leftover' \ {p} : f \in EverOwned(q)
    BY DEF AllIndexed, Indexed, EverOwned
  <2>1. /\ ~ stale /\ p \in Believed /\ f \in Owned(p)
        /\ UNCHANGED <<index, leftover, NewFiles>> /\ phase = "extract" /\ phase' = "unindex"
    BY <1>13 DEF Extract, Believed, Owned, NewFiles
  <2> QED BY <1>13, <2>1 DEF Extract, AllIndexed, Indexed
<1>14. ASSUME Unindex PROVE AllIndexed'
  BY <1>14 DEF Unindex, TypeOK, Registered, Stage, Replacing, Synchronised, Believed,
     AllIndexed, Indexed, Owned, NewFiles, Progress
<1>15. ASSUME Index PROVE AllIndexed'
  BY <1>15 DEF Index, TypeOK, Registered, Stage, Replacing, Synchronised, Believed,
     AllIndexed, Indexed, Owned, NewFiles
<1>16. ASSUME Mark PROVE AllIndexed'
  <2> SUFFICES ASSUME ~ stale', NEW p \in Believed' PROVE Indexed(p)'
    BY DEF AllIndexed
  <2>1. /\ phase = "mark" /\ ~ stale /\ p \in Believed \cup {pkg} /\ p \in Package
        /\ pkg \in Package /\ version # 0 /\ pkg \notin Believed
        /\ UNCHANGED <<disk, index, leftover>>
    BY <1>16 DEF Mark, Save, Believed, TypeOK, Registered, Stage, Replacing, Version
  <2>2. CASE p # pkg
    <3>1. Owned(p)' = Owned(p) /\ p \in Believed
      BY <1>16, <2>1, <2>2 DEF Mark, TypeOK, Owned
    <3> QED BY <2>1, <3>1 DEF AllIndexed, Indexed, EverOwned
  <2>3. CASE p = pkg
    <3>1. Owned(p)' = NewFiles
      BY <1>16, <2>1, <2>3 DEF Mark, TypeOK, Owned, NewFiles
    <3>2. NewFiles \subseteq index
      BY <2>1 DEF Progress, Stage
    <3> QED BY <2>1, <3>1, <3>2 DEF Indexed
  <2> QED BY <2>2, <2>3
<1>17. ASSUME Settle PROVE AllIndexed'
  BY <1>17 DEF Settle, Forgotten, TypeOK, Registered, Stage, Replacing, Synchronised,
     Believed, AllIndexed, Indexed, Owned, NewFiles
<1>18. ASSUME PackageRemoved PROVE AllIndexed'
  BY <1>18 DEF PackageRemoved, Forgotten, TypeOK, Registered, Stage, Replacing,
     Synchronised, Believed, AllIndexed, Indexed, Owned, NewFiles
<1>19. ASSUME Follow PROVE AllIndexed'
  BY <1>19 DEF Follow, TypeOK, Registered, Stage, Replacing, Synchronised, Believed,
     AllIndexed, Indexed, Owned, NewFiles
<1>20. ASSUME EmptyManifests PROVE AllIndexed'
  BY <1>20 DEF EmptyManifests, Done, TypeOK, Registered, Stage, Replacing, Synchronised,
     Believed, AllIndexed, Indexed, Owned, NewFiles
<1>21. ASSUME WriteManifests PROVE AllIndexed'
  BY <1>21 DEF WriteManifests, Registers, Forgotten, TypeOK, Registered, Stage, Replacing,
     Synchronised, Believed, AllIndexed, Indexed, Owned, NewFiles
<1>22. ASSUME Reload PROVE AllIndexed'
  BY <1>22 DEF Reload, LoadTable, Registers, Forgotten, TypeOK, Registered, Stage,
     Replacing, Synchronised, Believed, AllIndexed, Indexed, Owned, NewFiles
<1>23. ASSUME Fail PROVE AllIndexed'
  <2> SUFFICES ASSUME ~ stale', NEW p \in Believed', NEW f \in Owned(p)' \cap disk'
               PROVE  f \in index' \/ \E q \in leftover' \ {p} : f \in EverOwned(q)
    BY DEF AllIndexed, Indexed, EverOwned
  <2>1. /\ ~ stale /\ p \in recorded /\ f \in Owned(p) /\ leftover \subseteq leftover'
        /\ index' = index /\ Abandon
    BY <1>23 DEF Fail, Abandon, Registers, Believed, Owned
  <2>2. CASE phase = "save"
    BY <2>1, <2>2 DEF Synchronised
  <2>3. CASE phase # "save"
    <3>1. p \in Believed
      BY <2>1, <2>3 DEF Synchronised
    <3>2. CASE f \in disk /\ ~ (phase \in {"unindex", "index"} /\ f \in NewFiles)
      BY <2>1, <3>1, <3>2 DEF AllIndexed, Indexed
    <3>3. CASE phase \in {"extract", "unindex", "index"} /\ f \in NewFiles
      <4>1. pkg \in Package /\ p # pkg /\ pkg \in leftover'
        BY <2>1, <3>1, <3>3 DEF Abandon, Believed, Registered, Stage, Replacing, Untouched
      <4> QED BY <3>3, <4>1, EverOwnedFacts
    <3> QED BY <2>1, <3>2, <3>3 DEF Abandon
  <2> QED BY <2>2, <2>3
<1>24. ASSUME NEW f \in File, DeletionFails(f) PROVE AllIndexed'
  BY <1>24 DEF DeletionFails, Abandon, Registers, Forgotten, TypeOK, Registered, Stage,
     Replacing, Synchronised, Believed, AllIndexed, Indexed, Owned, NewFiles
<1>25. ASSUME Die PROVE AllIndexed'
  <2> SUFFICES ASSUME ~ stale', NEW p \in Believed', NEW f \in Owned(p)' \cap disk'
               PROVE  f \in index' \/ \E q \in leftover' \ {p} : f \in EverOwned(q)
    BY DEF AllIndexed, Indexed, EverOwned
  <2>1. /\ ~ stale /\ p \in recorded /\ f \in Owned(p) /\ leftover \subseteq leftover'
        /\ index' = index /\ Abandon
    BY <1>25 DEF Die, Abandon, Registers, Believed, Owned
  <2>2. CASE phase = "save"
    BY <2>1, <2>2 DEF Synchronised
  <2>3. CASE phase # "save"
    <3>1. p \in Believed
      BY <2>1, <2>3 DEF Synchronised
    <3>2. CASE f \in disk /\ ~ (phase \in {"unindex", "index"} /\ f \in NewFiles)
      BY <2>1, <3>1, <3>2 DEF AllIndexed, Indexed
    <3>3. CASE phase \in {"extract", "unindex", "index"} /\ f \in NewFiles
      <4>1. pkg \in Package /\ p # pkg /\ pkg \in leftover'
        BY <2>1, <3>1, <3>3 DEF Abandon, Believed, Registered, Stage, Replacing, Untouched
      <4> QED BY <3>3, <4>1, EverOwnedFacts
    <3> QED BY <2>1, <3>2, <3>3 DEF Abandon
  <2> QED BY <2>2, <2>3
<1>26. CASE UNCHANGED vars
  BY <1>26 DEF TypeOK, Registered, Stage, Replacing, Synchronised, Believed, AllIndexed,
     Indexed, Owned, NewFiles
<1> QED BY <1>1, <1>2, <1>3, <1>4, <1>5, <1>6, <1>7, <1>8, <1>9, <1>10, <1>11, <1>12, <1>13,
    <1>14, <1>15, <1>16, <1>17, <1>18, <1>19, <1>20, <1>21, <1>22, <1>23, <1>24, <1>25,
    <1>26 DEF Next, Working

\* The files that an installed package has for itself stay on the disk.
LEMMA ExistStep ==
  ASSUME TypeOK, Registered, Progress, Synchronised, AllExist, [Next]_vars
  PROVE  AllExist'
<1> USE DEF vars, diskVars, tableVars, planVars, stepVars, countVars, historyVars, Me, Goto
<1>1. ASSUME NEW p \in Package, Release(p) PROVE AllExist'
  BY <1>1 DEF Release, TypeOK, Registered, Stage, Replacing, Synchronised, Believed,
     AllExist, Owned, NewFiles
<1>2. ASSUME NEW x \in Process, Ask(x) PROVE AllExist'
  BY <1>2 DEF Ask, LoadTable, TypeOK, Registered, Stage, Replacing, Synchronised, Believed,
     AllExist, Owned, NewFiles
<1>3. ASSUME NEW x \in Process, Forget(x) PROVE AllExist'
  BY <1>3 DEF Forget, TypeOK, Registered, Stage, Replacing, Synchronised, Believed,
     AllExist, Owned, NewFiles
<1>4. ASSUME NEW x \in Process, UpdateDb(x) PROVE AllExist'
  <2> SUFFICES ASSUME ~ stale' PROVE AllExist'
    BY DEF AllExist
  <2>1. Lock(x) /\ phase' = "next"
    BY <1>4 DEF UpdateDb
  <2>2. UNCHANGED <<disk, index, extracted, broken, leftover, unwritten, torn, pkg, version, files>>
    BY <2>1 DEF Lock
  <2> QED BY <2>1, <2>2, LockFacts DEF AllExist, Owned, Private, EverOwned
<1>5. ASSUME NEW x \in Process, NEW add \in SUBSET Package, NEW remove \in SUBSET Package,
             InstallRemove(x, add, remove) PROVE AllExist'
  <2> SUFFICES ASSUME ~ stale' PROVE AllExist'
    BY DEF AllExist
  <2>1. Lock(x) /\ phase' = "next"
    BY <1>5 DEF InstallRemove
  <2>2. UNCHANGED <<disk, index, extracted, broken, leftover, unwritten, torn, pkg, version, files>>
    BY <2>1 DEF Lock
  <2> QED BY <2>1, <2>2, LockFacts DEF AllExist, Owned, Private, EverOwned
<1>6. ASSUME NEW p \in Package, NextPackage(p) PROVE AllExist'
  BY <1>6 DEF NextPackage, TypeOK, Registered, Stage, Replacing, Synchronised, Believed,
     AllExist, Owned, NewFiles
<1>7. ASSUME NEW p \in Package, RemovePackage(p) PROVE AllExist'
  BY <1>7 DEF RemovePackage, Save, TypeOK, Registered, Stage, Replacing, Synchronised,
     Believed, AllExist, Owned, NewFiles
<1>8. ASSUME NEW f \in File, DropFile(f) PROVE AllExist'
  <2> SUFFICES ASSUME ~ stale', NEW p \in Believed' \ broken', phase # "drop" \/ pkg # p
               PROVE  Owned(p)' \cap Private(p) \subseteq disk'
    BY <1>8 DEF DropFile, AllExist, Private, EverOwned
  <2>1. /\ ~ stale /\ p \in Believed \ broken /\ p \in Package /\ phase \in {"drop", "delete"}
        /\ Owned(p)' = Owned(p) /\ Owned(p) \cap Private(p) \subseteq disk
        /\ disk \ {f} \subseteq disk'
    BY <1>8 DEF DropFile, Dropping, Believed, AllExist, Owned, TypeOK
  <2>2. p # pkg /\ pkg \in Package /\ f \in EverOwned(pkg)
    <3>1. p # pkg /\ pkg \in Package
      BY <2>1 DEF Believed, Registered, Stage, Replacing
    <3>2. f \in Contents[pkg][known[Me][pkg]] /\ known[Me][pkg] # 0
      BY <1>8, <2>1 DEF DropFile, Registered, Stage, Replacing
    <3>3. known[Me][pkg] \in 0..MaxVersion
      BY <2>1, <3>1 DEF TypeOK
    <3> QED BY <3>1, <3>2, <3>3, EverOwnedFacts
  <2>3. f \notin Private(p)
    BY <2>2 DEF Private
  <2> QED BY <2>1, <2>3
<1>9. ASSUME NEW f \in File, KeepFile(f) PROVE AllExist'
  BY <1>9 DEF KeepFile, TypeOK, Registered, Stage, Replacing, Synchronised, Believed,
     AllExist, Owned, NewFiles
<1>10. ASSUME Fetch PROVE AllExist'
  BY <1>10 DEF Fetch, TypeOK, Registered, Stage, Replacing, Synchronised, Believed,
     AllExist, Owned, NewFiles
<1>11. ASSUME Unmark PROVE AllExist'
  BY <1>11 DEF Unmark, Save, TypeOK, Registered, Stage, Replacing, Synchronised, Believed,
     AllExist, Owned, NewFiles
<1>12. ASSUME WriteRecords PROVE AllExist'
  BY <1>12 DEF WriteRecords, TypeOK, Registered, Stage, Replacing, Synchronised, Believed,
     AllExist, Owned, NewFiles
<1>13. ASSUME Extract PROVE AllExist'
  BY <1>13 DEF Extract, TypeOK, Registered, Stage, Replacing, Synchronised, Believed,
     AllExist, Owned, NewFiles
<1>14. ASSUME Unindex PROVE AllExist'
  BY <1>14 DEF Unindex, TypeOK, Registered, Stage, Replacing, Synchronised, Believed,
     AllExist, Owned, NewFiles
<1>15. ASSUME Index PROVE AllExist'
  BY <1>15 DEF Index, TypeOK, Registered, Stage, Replacing, Synchronised, Believed,
     AllExist, Owned, NewFiles
<1>16. ASSUME Mark PROVE AllExist'
  BY <1>16 DEF Mark, Save, TypeOK, Registered, Stage, Replacing, Synchronised, Believed,
     AllExist, Owned, NewFiles, Progress, Extracted
<1>17. ASSUME Settle PROVE AllExist'
  BY <1>17 DEF Settle, Forgotten, TypeOK, Registered, Stage, Replacing, Synchronised,
     Believed, AllExist, Owned, NewFiles, Progress, Extracted
<1>18. ASSUME PackageRemoved PROVE AllExist'
  BY <1>18 DEF PackageRemoved, Forgotten, TypeOK, Registered, Stage, Replacing,
     Synchronised, Believed, AllExist, Owned, NewFiles
<1>19. ASSUME Follow PROVE AllExist'
  BY <1>19 DEF Follow, TypeOK, Registered, Stage, Replacing, Synchronised, Believed,
     AllExist, Owned, NewFiles
<1>20. ASSUME EmptyManifests PROVE AllExist'
  BY <1>20 DEF EmptyManifests, Done, TypeOK, Registered, Stage, Replacing, Synchronised,
     Believed, AllExist, Owned, NewFiles
<1>21. ASSUME WriteManifests PROVE AllExist'
  BY <1>21 DEF WriteManifests, Registers, Forgotten, TypeOK, Registered, Stage, Replacing,
     Synchronised, Believed, AllExist, Owned, NewFiles
<1>22. ASSUME Reload PROVE AllExist'
  BY <1>22 DEF Reload, LoadTable, Registers, Forgotten, TypeOK, Registered, Stage,
     Replacing, Synchronised, Believed, AllExist, Owned, NewFiles
<1>23. ASSUME Fail PROVE AllExist'
  BY <1>23 DEF Fail, Abandon, Registers, Forgotten, TypeOK, Registered, Stage, Replacing,
     Synchronised, Believed, AllExist, Owned, NewFiles
<1>24. ASSUME NEW f \in File, DeletionFails(f) PROVE AllExist'
  BY <1>24 DEF DeletionFails, Abandon, Registers, Forgotten, TypeOK, Registered, Stage,
     Replacing, Synchronised, Believed, AllExist, Owned, NewFiles
<1>25. ASSUME Die PROVE AllExist'
  BY <1>25 DEF Die, Abandon, Registers, Forgotten, TypeOK, Registered, Stage, Replacing,
     Synchronised, Believed, AllExist, Owned, NewFiles
<1>26. CASE UNCHANGED vars
  BY <1>26 DEF TypeOK, Registered, Stage, Replacing, Synchronised, Believed, AllExist,
     Owned, NewFiles
<1> QED BY <1>1, <1>2, <1>3, <1>4, <1>5, <1>6, <1>7, <1>8, <1>9, <1>10, <1>11, <1>12, <1>13,
    <1>14, <1>15, <1>16, <1>17, <1>18, <1>19, <1>20, <1>21, <1>22, <1>23, <1>24, <1>25,
    <1>26 DEF Next, Working
\* The job leaves everything excused that was excused.
LEMMA ExcusedStep ==
  ASSUME TypeOK, Registered, [Next]_vars, NEW e, Excused(e)
  PROVE  Excused(e)'
<1>1. leftover \cup unwritten \subseteq leftover' \cup unwritten'
  <2> USE DEF vars, historyVars
  <2>1. ASSUME NEW p \in Package, Release(p)
        PROVE  leftover \cup unwritten \subseteq leftover' \cup unwritten'
    BY <2>1 DEF Release
  <2>2. ASSUME NEW x \in Process, Ask(x)
        PROVE  leftover \cup unwritten \subseteq leftover' \cup unwritten'
    BY <2>2 DEF Ask, LoadTable
  <2>3. ASSUME NEW x \in Process, Forget(x)
        PROVE  leftover \cup unwritten \subseteq leftover' \cup unwritten'
    BY <2>3 DEF Forget
  <2>4. ASSUME NEW x \in Process, UpdateDb(x)
        PROVE  leftover \cup unwritten \subseteq leftover' \cup unwritten'
    BY <2>4 DEF UpdateDb, Lock, NeedTable, LoadTable
  <2>5. ASSUME NEW x \in Process, NEW add \in SUBSET Package,
               NEW remove \in SUBSET Package, InstallRemove(x, add, remove)
        PROVE  leftover \cup unwritten \subseteq leftover' \cup unwritten'
    BY <2>5 DEF InstallRemove, Lock, NeedTable, LoadTable
  <2>6. ASSUME NEW p \in Package, NextPackage(p)
        PROVE  leftover \cup unwritten \subseteq leftover' \cup unwritten'
    BY <2>6 DEF NextPackage
  <2>7. ASSUME NEW p \in Package, RemovePackage(p)
        PROVE  leftover \cup unwritten \subseteq leftover' \cup unwritten'
    BY <2>7 DEF RemovePackage, Save
  <2>8. ASSUME NEW f \in File, DropFile(f)
        PROVE  leftover \cup unwritten \subseteq leftover' \cup unwritten'
    BY <2>8 DEF DropFile, Dropping
  <2>9. ASSUME NEW f \in File, KeepFile(f)
        PROVE  leftover \cup unwritten \subseteq leftover' \cup unwritten'
    BY <2>9 DEF KeepFile
  <2>10. ASSUME Fetch
        PROVE  leftover \cup unwritten \subseteq leftover' \cup unwritten'
    BY <2>10 DEF Fetch
  <2>11. ASSUME Unmark
        PROVE  leftover \cup unwritten \subseteq leftover' \cup unwritten'
    BY <2>11 DEF Unmark, Save
  <2>12. ASSUME WriteRecords
        PROVE  leftover \cup unwritten \subseteq leftover' \cup unwritten'
    BY <2>12 DEF WriteRecords
  <2>13. ASSUME Extract
        PROVE  leftover \cup unwritten \subseteq leftover' \cup unwritten'
    BY <2>13 DEF Extract
  <2>14. ASSUME Unindex
        PROVE  leftover \cup unwritten \subseteq leftover' \cup unwritten'
    BY <2>14 DEF Unindex
  <2>15. ASSUME Index
        PROVE  leftover \cup unwritten \subseteq leftover' \cup unwritten'
    BY <2>15 DEF Index
  <2>16. ASSUME Mark
        PROVE  leftover \cup unwritten \subseteq leftover' \cup unwritten'
    BY <2>16 DEF Mark, Save
  <2>17. ASSUME Settle
        PROVE  leftover \cup unwritten \subseteq leftover' \cup unwritten'
    BY <2>17 DEF Settle, Forgotten
  <2>18. ASSUME PackageRemoved
        PROVE  leftover \cup unwritten \subseteq leftover' \cup unwritten'
    BY <2>18 DEF PackageRemoved, Forgotten
  <2>19. ASSUME Follow
        PROVE  leftover \cup unwritten \subseteq leftover' \cup unwritten'
    BY <2>19 DEF Follow
  <2>20. ASSUME EmptyManifests
        PROVE  leftover \cup unwritten \subseteq leftover' \cup unwritten'
    BY <2>20 DEF EmptyManifests, Done
  <2>21. ASSUME WriteManifests
        PROVE  leftover \cup unwritten \subseteq leftover' \cup unwritten'
    BY <2>21 DEF WriteManifests, Registers, Forgotten
  <2>22. ASSUME Reload
        PROVE  leftover \cup unwritten \subseteq leftover' \cup unwritten'
    BY <2>22 DEF Reload, LoadTable, Registers, Forgotten
  <2>23. ASSUME Fail
        PROVE  leftover \cup unwritten \subseteq leftover' \cup unwritten'
    BY <2>23 DEF Fail, Abandon, Registers, Forgotten
  <2>24. ASSUME NEW f \in File, DeletionFails(f)
        PROVE  leftover \cup unwritten \subseteq leftover' \cup unwritten'
    BY <2>24 DEF DeletionFails, Abandon, Registers, Forgotten
  <2>25. ASSUME Die
        PROVE  leftover \cup unwritten \subseteq leftover' \cup unwritten'
    BY <2>25 DEF Die, Abandon, Registers, Forgotten
  <2>26. CASE UNCHANGED vars
    BY <2>26
  <2> QED BY <2>1, <2>2, <2>3, <2>4, <2>5, <2>6, <2>7, <2>8, <2>9, <2>10, <2>11, <2>12,
      <2>13, <2>14, <2>15, <2>16, <2>17, <2>18, <2>19, <2>20, <2>21, <2>22, <2>23, <2>24,
      <2>25, <2>26 DEF Next, Working
<1> QED BY <1>1 DEF Excused, EverOwned

\* Counting the packages that claim a file.
LEMMA Counting ==
  ASSUME NEW S \in SUBSET Package, NEW T \in SUBSET Package, NEW p
  PROVE  /\ Cardinality(S) \in Nat /\ Cardinality(S \ {p}) \in Nat
         /\ p \notin S => Cardinality(S \ {p}) = Cardinality(S)
         /\ Cardinality(S \ {p}) <= Cardinality(S)
         /\ p \in S => Cardinality(S) = Cardinality(S \ {p}) + 1
         /\ S \subseteq T => Cardinality(S) <= Cardinality(T)
<1>1. IsFiniteSet(S) /\ IsFiniteSet(T)
  BY PackagesAssumption, FS_Subset
<1>2. Cardinality(S) \in Nat /\ Cardinality(T) \in Nat
  BY <1>1, FS_CardinalityType
<1>3. p \in S => Cardinality(S \ {p}) = Cardinality(S) - 1
  BY <1>1, FS_RemoveElement
<1>4. IsFiniteSet(S \ {p}) /\ Cardinality(S \ {p}) \in Nat
  BY <1>1, FS_Subset, FS_CardinalityType
<1>5. p \notin S => Cardinality(S \ {p}) = Cardinality(S)
  <2>1. p \notin S => S \ {p} = S
    OBVIOUS
  <2> QED BY <2>1
<1>6. S \subseteq T => Cardinality(S) <= Cardinality(T)
  BY <1>1, FS_Subset
<1>7. Cardinality(S \ {p}) <= Cardinality(S)
  <2> DEFINE c == Cardinality(S)  d == Cardinality(S \ {p})
  <2>1. c \in Nat /\ d \in Nat /\ (d = c - 1 \/ d = c)
    BY <1>2, <1>3, <1>4, <1>5
  <2> HIDE DEF c, d
  <2>2. d <= c
    BY <2>1
  <2> QED BY <2>2 DEF c, d
<1>8. p \in S => Cardinality(S) = Cardinality(S \ {p}) + 1
  <2> DEFINE c == Cardinality(S)  d == Cardinality(S \ {p})
  <2>1. c \in Nat /\ d \in Nat /\ (p \in S => d = c - 1)
    BY <1>2, <1>3, <1>4
  <2> HIDE DEF c, d
  <2>2. p \in S => c = d + 1
    BY <2>1
  <2> QED BY <2>2 DEF c, d
<1> QED BY <1>2, <1>4, <1>5, <1>6, <1>7, <1>8

\* What a process claims are packages.
LEMMA ClaimsType ==
  ASSUME TypeOK, NEW x \in Process, NEW e \in File
  PROVE  Claims(x, e) \subseteq Package /\ ref[x][e] \in Nat
BY DEF TypeOK, Claims


\* What the others do not do to the table of y: it stays, or holds nothing.
TableStays(y) ==
  \/ ref'[y] = ref[y] /\ installed'[y] = installed[y] /\ known'[y] = known[y]
  \/ ref'[y] = NoRefs

\* The table of a process that does not work stays, or is loaded or unloaded.
LEMMA OtherTables ==
  ASSUME TypeOK, NEW y \in Process, y # holder, [Next]_vars
  PROVE  TableStays(y)
<1> USE DEF TableStays, vars, diskVars, tableVars, planVars, stepVars,
       countVars, historyVars, Me, Goto
<1>1. ASSUME NEW p \in Package, Release(p) PROVE TableStays(y)
  BY <1>1 DEF Release, TypeOK
<1>2. ASSUME NEW x \in Process, Ask(x) PROVE TableStays(y)
  BY <1>2 DEF Ask, LoadTable, TypeOK
<1>3. ASSUME NEW x \in Process, Forget(x) PROVE TableStays(y)
  BY <1>3 DEF Forget, TypeOK
<1>4. ASSUME NEW x \in Process, UpdateDb(x) PROVE TableStays(y)
  BY <1>4 DEF UpdateDb, Lock, NeedTable, LoadTable, TypeOK
<1>5. ASSUME NEW x \in Process, NEW add \in SUBSET Package, NEW remove \in SUBSET Package,
             InstallRemove(x, add, remove)
      PROVE  TableStays(y)
  BY <1>5 DEF InstallRemove, Lock, NeedTable, LoadTable, TypeOK
<1>6. ASSUME NEW p \in Package, NextPackage(p) PROVE TableStays(y)
  BY <1>6 DEF NextPackage, TypeOK
<1>7. ASSUME NEW p \in Package, RemovePackage(p) PROVE TableStays(y)
  BY <1>7 DEF RemovePackage, Save, TypeOK
<1>8. ASSUME NEW f \in File, DropFile(f) PROVE TableStays(y)
  BY <1>8 DEF DropFile, Dropping, TypeOK
<1>9. ASSUME NEW f \in File, KeepFile(f) PROVE TableStays(y)
  BY <1>9 DEF KeepFile, TypeOK
<1>10. ASSUME Fetch PROVE TableStays(y)
  BY <1>10 DEF Fetch, TypeOK
<1>11. ASSUME Unmark PROVE TableStays(y)
  BY <1>11 DEF Unmark, Save, TypeOK
<1>12. ASSUME WriteRecords PROVE TableStays(y)
  BY <1>12 DEF WriteRecords, TypeOK
<1>13. ASSUME Extract PROVE TableStays(y)
  BY <1>13 DEF Extract, TypeOK
<1>14. ASSUME Unindex PROVE TableStays(y)
  BY <1>14 DEF Unindex, TypeOK
<1>15. ASSUME Index PROVE TableStays(y)
  BY <1>15 DEF Index, TypeOK
<1>16. ASSUME Mark PROVE TableStays(y)
  BY <1>16 DEF Mark, Save, TypeOK
<1>17. ASSUME Settle PROVE TableStays(y)
  BY <1>17 DEF Settle, Forgotten, TypeOK
<1>18. ASSUME PackageRemoved PROVE TableStays(y)
  BY <1>18 DEF PackageRemoved, Forgotten, TypeOK
<1>19. ASSUME Follow PROVE TableStays(y)
  BY <1>19 DEF Follow, TypeOK
<1>20. ASSUME EmptyManifests PROVE TableStays(y)
  BY <1>20 DEF EmptyManifests, Done, TypeOK
<1>21. ASSUME WriteManifests PROVE TableStays(y)
  BY <1>21 DEF WriteManifests, Registers, Forgotten, TypeOK
<1>22. ASSUME Reload PROVE TableStays(y)
  BY <1>22 DEF Reload, LoadTable, Registers, Forgotten, TypeOK
<1>23. ASSUME Fail PROVE TableStays(y)
  BY <1>23 DEF Fail, Abandon, Registers, Forgotten, TypeOK
<1>24. ASSUME NEW f \in File, DeletionFails(f) PROVE TableStays(y)
  BY <1>24 DEF DeletionFails, Abandon, Registers, Forgotten, TypeOK
<1>25. ASSUME Die PROVE TableStays(y)
  BY <1>25 DEF Die, Abandon, Registers, Forgotten, TypeOK
<1>26. CASE UNCHANGED vars
  BY <1>26
<1> QED BY <1>1, <1>2, <1>3, <1>4, <1>5, <1>6, <1>7, <1>8, <1>9, <1>10, <1>11, <1>12, <1>13,
    <1>14, <1>15, <1>16, <1>17, <1>18, <1>19, <1>20, <1>21, <1>22, <1>23, <1>24, <1>25,
    <1>26 DEF Next, Working

\* ... and it does not begin to replace a package at once.
LEMMA OthersRest ==
  ASSUME TypeOK, TypeOK', [Next]_vars, NEW y \in Process, y # holder
  PROVE  holder' = y => phase' = "next"
<1> USE DEF vars, diskVars, tableVars, planVars, stepVars, countVars, historyVars, Me, Goto
<1>1. ASSUME NEW p \in Package, Release(p)
      PROVE  holder' = y => phase' = "next"
  BY <1>1 DEF Release, TypeOK
<1>2. ASSUME NEW x \in Process, Ask(x)
      PROVE  holder' = y => phase' = "next"
  BY <1>2 DEF Ask, LoadTable, TypeOK
<1>3. ASSUME NEW x \in Process, Forget(x)
      PROVE  holder' = y => phase' = "next"
  BY <1>3 DEF Forget, TypeOK
<1>4. ASSUME NEW x \in Process, UpdateDb(x)
      PROVE  holder' = y => phase' = "next"
  BY <1>4 DEF UpdateDb, Lock, NeedTable, LoadTable, TypeOK
<1>5. ASSUME NEW x \in Process, NEW add \in SUBSET Package, NEW remove \in SUBSET Package,
             InstallRemove(x, add, remove)
      PROVE  holder' = y => phase' = "next"
  BY <1>5 DEF InstallRemove, Lock, NeedTable, LoadTable, TypeOK
<1>6. ASSUME NEW p \in Package, NextPackage(p)
      PROVE  holder' = y => phase' = "next"
  BY <1>6 DEF NextPackage, TypeOK
<1>7. ASSUME NEW p \in Package, RemovePackage(p)
      PROVE  holder' = y => phase' = "next"
  BY <1>7 DEF RemovePackage, Save, TypeOK
<1>8. ASSUME NEW f \in File, DropFile(f)
      PROVE  holder' = y => phase' = "next"
  BY <1>8 DEF DropFile, Dropping, TypeOK
<1>9. ASSUME NEW f \in File, KeepFile(f)
      PROVE  holder' = y => phase' = "next"
  BY <1>9 DEF KeepFile, TypeOK
<1>10. ASSUME Fetch
      PROVE  holder' = y => phase' = "next"
  BY <1>10 DEF Fetch, TypeOK
<1>11. ASSUME Unmark
      PROVE  holder' = y => phase' = "next"
  BY <1>11 DEF Unmark, Save, TypeOK
<1>12. ASSUME WriteRecords
      PROVE  holder' = y => phase' = "next"
  BY <1>12 DEF WriteRecords, TypeOK
<1>13. ASSUME Extract
      PROVE  holder' = y => phase' = "next"
  BY <1>13 DEF Extract, TypeOK
<1>14. ASSUME Unindex
      PROVE  holder' = y => phase' = "next"
  BY <1>14 DEF Unindex, TypeOK
<1>15. ASSUME Index
      PROVE  holder' = y => phase' = "next"
  BY <1>15 DEF Index, TypeOK
<1>16. ASSUME Mark
      PROVE  holder' = y => phase' = "next"
  BY <1>16 DEF Mark, Save, TypeOK
<1>17. ASSUME Settle
      PROVE  holder' = y => phase' = "next"
  BY <1>17 DEF Settle, Forgotten, TypeOK
<1>18. ASSUME PackageRemoved
      PROVE  holder' = y => phase' = "next"
  BY <1>18 DEF PackageRemoved, Forgotten, TypeOK
<1>19. ASSUME Follow
      PROVE  holder' = y => phase' = "next"
  BY <1>19 DEF Follow, TypeOK
<1>20. ASSUME EmptyManifests
      PROVE  holder' = y => phase' = "next"
  BY <1>20 DEF EmptyManifests, Done, TypeOK
<1>21. ASSUME WriteManifests
      PROVE  holder' = y => phase' = "next"
  BY <1>21, RegistersType, PackagesAssumption DEF WriteManifests, TypeOK
<1>22. ASSUME Reload
      PROVE  holder' = y => phase' = "next"
  BY <1>22, RegistersType, PackagesAssumption DEF Reload, TypeOK
<1>23. ASSUME Fail
      PROVE  holder' = y => phase' = "next"
  BY <1>23, RegistersType, PackagesAssumption DEF Fail, Abandon, TypeOK
<1>24. ASSUME NEW f \in File, DeletionFails(f)
      PROVE  holder' = y => phase' = "next"
  BY <1>24, RegistersType, PackagesAssumption DEF DeletionFails, Abandon, TypeOK
<1>25. ASSUME Die
      PROVE  holder' = y => phase' = "next"
  BY <1>25, RegistersType, PackagesAssumption DEF Die, Abandon, TypeOK
<1>26. CASE UNCHANGED vars
  BY <1>26
<1> QED BY <1>1, <1>2, <1>3, <1>4, <1>5, <1>6, <1>7, <1>8, <1>9, <1>10, <1>11, <1>12, <1>13,
    <1>14, <1>15, <1>16, <1>17, <1>18, <1>19, <1>20, <1>21, <1>22, <1>23, <1>24, <1>25,
    <1>26 DEF Next, Working

\* The reference counts of the process that works.
LEMMA HolderCounts ==
  ASSUME TypeOK, TypeOK', Registered, Counted, [Next]_vars, phase # "idle",
         NEW x \in Process, x = holder, NEW e \in File, ~ Excused(e)'
  PROVE  ref'[x][e] <= Bound(x, e)'
<1> USE DEF vars, diskVars, tableVars, planVars, stepVars, countVars, historyVars, Me, Goto
<1> DEFINE C == Claims(x, e)
           c == Cardinality(C)
           d == Cardinality(C \ {pkg})
           r == ref[x][e]
<1>a. r <= Bound(x, e) /\ r \in Nat /\ r >= 0
  BY ExcusedStep, ClaimsType DEF Counted
<1>b. /\ C \subseteq Package /\ c \in Nat /\ d \in Nat /\ d <= c
      /\ (pkg \in C => c = d + 1) /\ (pkg \notin C => d = c)
  BY Counting, ClaimsType
<1>c. /\ C' \subseteq Package /\ c' \in Nat /\ d' \in Nat /\ d' <= c'
      /\ (pkg' \in C' => c' = d' + 1) /\ (pkg' \notin C' => d' = c')
  <2>1. C' \subseteq Package
    BY DEF TypeOK, Claims
  <2> QED BY <2>1, Counting
<1>d. /\ Stage \in Replacing \cup {"delete"} => r <= d + (IF e \in files THEN 1 ELSE 0)
      /\ Stage \notin Replacing \cup {"delete"} => r <= c
  BY <1>a DEF Bound
<1>e. Bound(x, e)' = IF holder' = x /\ Stage' \in Replacing \cup {"delete"}
                    THEN d' + (IF e \in files' THEN 1 ELSE 0) ELSE c'
  BY DEF Bound, Replacing
<1>f. ref'[x][e] = 0 => ref'[x][e] <= Bound(x, e)'
  BY <1>c, <1>e
<1>h. installed'[x] = installed[x] /\ known'[x] = known[x] => C' = C /\ c' = c
  <2>1. installed'[x] = installed[x] /\ known'[x] = known[x] => C' = C
    BY DEF Claims
  <2> QED BY <2>1
<1>i. installed'[x] = installed[x] /\ known'[x] = known[x] /\ pkg' = pkg => d' = d
  BY <1>h
<1> HIDE DEF C, c, d, r
<1>1. ASSUME NEW p \in Package, Release(p)
      PROVE  ref'[x][e] <= Bound(x, e)'
  <2>1. /\ holder' = x /\ pkg' = pkg /\ files' = files /\ ref'[x][e] = r /\ d' = d /\ c' = c
        /\ Stage' = Stage
    BY <1>1, <1>i, <1>h DEF Release, Stage, Replacing, TypeOK, r
  <2> QED BY <2>1, <1>d, <1>e
<1>2. ASSUME NEW y \in Process, Ask(y)
      PROVE  ref'[x][e] <= Bound(x, e)'
  BY <1>2 DEF Ask, Lock, TypeOK
<1>3. ASSUME NEW y \in Process, Forget(y)
      PROVE  ref'[x][e] <= Bound(x, e)'
  <2>1. /\ holder' = x /\ pkg' = pkg /\ files' = files /\ ref'[x][e] = r /\ d' = d /\ c' = c
        /\ Stage' = Stage
    BY <1>3, <1>i, <1>h DEF Forget, Stage, Replacing, TypeOK, r
  <2> QED BY <2>1, <1>d, <1>e
<1>4. ASSUME NEW y \in Process, UpdateDb(y)
      PROVE  ref'[x][e] <= Bound(x, e)'
  BY <1>4 DEF UpdateDb, Lock, TypeOK
<1>5. ASSUME NEW y \in Process, NEW add \in SUBSET Package, NEW remove \in SUBSET Package,
             InstallRemove(y, add, remove)
      PROVE  ref'[x][e] <= Bound(x, e)'
  BY <1>5 DEF InstallRemove, Lock, TypeOK
<1>6. ASSUME NEW p \in Package, NextPackage(p)
      PROVE  ref'[x][e] <= Bound(x, e)'
  <2>1. /\ holder' = x /\ ref'[x][e] = r /\ c' = c
        /\ Stage \notin Replacing \cup {"delete"} /\ Stage' \notin Replacing \cup {"delete"}
    BY <1>6, <1>h DEF NextPackage, Stage, Replacing, r
  <2> QED BY <2>1, <1>d, <1>e
<1>7. ASSUME NEW p \in Package, RemovePackage(p)
      PROVE  ref'[x][e] <= Bound(x, e)'
  <2>1. /\ holder' = x /\ ref'[x][e] = r /\ pkg' = p /\ Stage \notin Replacing \cup {"delete"}
        /\ Stage' \in Replacing \cup {"delete"} /\ files' = Contents[p][known[x][p]]
        /\ p \in installed[x] /\ known' = known /\ installed'[x] = installed[x] \ {p}
    BY <1>7 DEF RemovePackage, Save, Stage, Replacing, TypeOK, r
  <2>2. known[x][p] # 0
    BY <1>7 DEF RemovePackage, Registered
  <2>3. C' \ {p} = C \ {p} /\ (e \in files' <=> p \in C)
    BY <2>1, <2>2 DEF C, Claims
  <2>4. d' = Cardinality(C \ {p})
    BY <2>1, <2>3 DEF d
  <2>5. c \in Nat /\ d' \in Nat /\ (p \in C => c = d' + 1) /\ (p \notin C => d' = c)
    BY <1>b, <2>4, Counting DEF c
  <2>6. ref'[x][e] <= c /\ ref'[x][e] = r /\ Bound(x, e)' = d' + (IF e \in files' THEN 1 ELSE 0)
    BY <2>1, <1>d, <1>e
  <2>7. CASE p \in C
    BY <2>3, <2>5, <2>6, <2>7
  <2>8. CASE p \notin C
    BY <2>3, <2>5, <2>6, <2>8
  <2> QED BY <2>1, <2>7, <2>8
<1>8. ASSUME NEW f \in File, DropFile(f)
      PROVE  ref'[x][e] <= Bound(x, e)'
  <2>1. /\ holder' = x /\ pkg' = pkg /\ d' = d
        /\ Stage \in Replacing \cup {"delete"} /\ Stage' \in Replacing \cup {"delete"}
        /\ f \in files /\ files' = files \ {f}
    BY <1>8, <1>i DEF DropFile, Dropping, Stage, Replacing
  <2>2. CASE e = f
    <3>1. ref'[x][e] = IF r > 0 THEN r - 1 ELSE 0
      BY <1>8, <2>2 DEF DropFile, Released, TypeOK, r
    <3>2. r <= d + 1
      BY <1>d, <2>1, <2>2
    <3> QED BY <2>1, <2>2, <3>1, <3>2, <1>a, <1>b, <1>e
  <2>3. CASE e # f
    <3>1. ref'[x][e] = r /\ (e \in files' <=> e \in files)
      BY <1>8, <2>3 DEF DropFile, TypeOK, r
    <3> QED BY <2>1, <3>1, <1>d, <1>e
  <2> QED BY <2>2, <2>3
<1>9. ASSUME NEW f \in File, KeepFile(f)
      PROVE  ref'[x][e] <= Bound(x, e)'
  <2>1. /\ holder' = x /\ pkg' = pkg /\ d' = d
        /\ Stage \in Replacing \cup {"delete"} /\ Stage' \in Replacing \cup {"delete"}
        /\ f \in files /\ files' = files \ {f}
    BY <1>9, <1>i DEF KeepFile, Stage, Replacing
  <2>2. CASE e = f
    BY <1>9, <2>2, <1>f DEF KeepFile, TypeOK
  <2>3. CASE e # f
    <3>1. ref'[x][e] = r /\ (e \in files' <=> e \in files)
      BY <1>9, <2>3 DEF KeepFile, TypeOK, r
    <3> QED BY <2>1, <3>1, <1>d, <1>e
  <2> QED BY <2>2, <2>3
<1>10. ASSUME Fetch
      PROVE  ref'[x][e] <= Bound(x, e)'
  <2>1. /\ holder' = x /\ pkg' = pkg /\ d' = d /\ ref'[x][e] = r /\ known[x][pkg] # 0
        /\ Stage \notin Replacing \cup {"delete"} /\ Stage' \in Replacing \cup {"delete"}
    BY <1>10, <1>i DEF Fetch, Stage, Replacing, Registered, r
  <2>2. pkg \in C => e \in files'
    BY <1>10, <2>1 DEF Fetch, C, Claims
  <2> QED BY <2>1, <2>2, <1>a, <1>b, <1>d, <1>e
<1>11. ASSUME Unmark
      PROVE  ref'[x][e] <= Bound(x, e)'
  <2>1. /\ holder' = x /\ pkg' = pkg /\ ref'[x][e] = r /\ files' = {} /\ files = {}
        /\ Stage \in Replacing \cup {"delete"} /\ Stage' \in Replacing \cup {"delete"}
        /\ known' = known /\ installed'[x] = installed[x] \ {pkg}
    BY <1>11 DEF Unmark, Save, Stage, Replacing, TypeOK, r
  <2>2. C' \ {pkg'} = C \ {pkg}
    BY <2>1 DEF C, Claims
  <2>3. d' = d
    BY <2>2 DEF d
  <2> QED BY <2>1, <2>3, <1>d, <1>e
<1>12. ASSUME WriteRecords
      PROVE  ref'[x][e] <= Bound(x, e)'
  <2>1. /\ holder' = x /\ pkg' = pkg /\ files' = files /\ ref'[x][e] = r /\ d' = d
        /\ Stage \in Replacing \cup {"delete"} /\ Stage' \in Replacing \cup {"delete"}
    BY <1>12, <1>i DEF WriteRecords, Stage, Replacing, Registered, TypeOK, r
  <2> QED BY <2>1, <1>d, <1>e
<1>13. ASSUME Extract
      PROVE  ref'[x][e] <= Bound(x, e)'
  <2>1. /\ holder' = x /\ pkg' = pkg /\ files' = files /\ ref'[x][e] = r /\ d' = d
        /\ Stage \in Replacing \cup {"delete"} /\ Stage' \in Replacing \cup {"delete"}
    BY <1>13, <1>i DEF Extract, Stage, Replacing, Registered, TypeOK, r
  <2> QED BY <2>1, <1>d, <1>e
<1>14. ASSUME Unindex
      PROVE  ref'[x][e] <= Bound(x, e)'
  <2>1. /\ holder' = x /\ pkg' = pkg /\ files' = files /\ ref'[x][e] = r /\ d' = d
        /\ Stage \in Replacing \cup {"delete"} /\ Stage' \in Replacing \cup {"delete"}
    BY <1>14, <1>i DEF Unindex, Stage, Replacing, Registered, TypeOK, r
  <2> QED BY <2>1, <1>d, <1>e
<1>15. ASSUME Index
      PROVE  ref'[x][e] <= Bound(x, e)'
  <2>1. /\ holder' = x /\ pkg' = pkg /\ files' = files /\ ref'[x][e] = r /\ d' = d
        /\ Stage \in Replacing \cup {"delete"} /\ Stage' \in Replacing \cup {"delete"}
    BY <1>15, <1>i DEF Index, Stage, Replacing, Registered, TypeOK, r
  <2> QED BY <2>1, <1>d, <1>e
<1>16. ASSUME Mark
      PROVE  ref'[x][e] <= Bound(x, e)'
  <2>1. /\ holder' = x /\ pkg' = pkg /\ ref'[x][e] = r /\ files' = files
        /\ Stage \in Replacing \cup {"delete"} /\ Stage' \in Replacing \cup {"delete"}
        /\ known' = known /\ installed'[x] = installed[x] \cup {pkg}
    BY <1>16 DEF Mark, Save, Stage, Replacing, TypeOK, r
  <2>2. C' \ {pkg'} = C \ {pkg}
    BY <2>1 DEF C, Claims
  <2>3. d' = d
    BY <2>2 DEF d
  <2> QED BY <2>1, <2>3, <1>d, <1>e
<1>17. ASSUME Settle
      PROVE  ref'[x][e] <= Bound(x, e)'
  <2>1. /\ Stage = "settle" /\ Stage' = "next" /\ files = {} /\ pkg \in installed[x]
        /\ pkg \in Package /\ version # 0 /\ known'[x] = [known[x] EXCEPT ![pkg] = version]
        /\ installed'[x] = installed[x] /\ installed[x] \subseteq Package
        /\ known[x] \in [Package -> 0..MaxVersion]
    BY <1>17 DEF Settle, Stage, Replacing, Registered, TypeOK, Version
  <2>5. r <= d
    BY <2>1, <1>b, <1>d DEF Replacing
  <2>2. /\ C' \ {pkg} = C \ {pkg}
        /\ e \in NewFiles <=> pkg \in C'
    BY <2>1 DEF C, Claims, NewFiles
  <2>3. c' \in Nat /\ (pkg \in C' => c' = d + 1) /\ (pkg \notin C' => c' = d)
    BY <2>2, <1>c, Counting DEF c, d
  <2>4. ref'[x][e] = IF e \in NewFiles THEN r + 1 ELSE r
    BY <1>17 DEF Settle, TypeOK, r
  <2> QED BY <2>1, <2>2, <2>3, <2>4, <2>5, <1>a, <1>b, <1>e DEF Replacing
<1>18. ASSUME PackageRemoved
      PROVE  ref'[x][e] <= Bound(x, e)'
  <2>1. /\ Stage = "delete" /\ Stage' = "next" /\ files = {} /\ pkg \notin installed[x]
        /\ ref'[x][e] = r /\ c' = c
    BY <1>18, <1>h DEF PackageRemoved, Stage, Replacing, Registered, r
  <2>2. pkg \notin C
    BY <2>1 DEF C, Claims
  <2> QED BY <2>1, <2>2, <1>b, <1>d, <1>e DEF Replacing
<1>19. ASSUME Follow
      PROVE  ref'[x][e] <= Bound(x, e)'
  <2>1. /\ holder' = x /\ ref'[x][e] = r /\ c' = c
        /\ Stage \notin Replacing \cup {"delete"} /\ Stage' \notin Replacing \cup {"delete"}
    BY <1>19, <1>h DEF Follow, Stage, Replacing, r
  <2> QED BY <2>1, <1>d, <1>e
<1>20. ASSUME EmptyManifests
      PROVE  ref'[x][e] <= Bound(x, e)'
  <2>1. /\ holder' = x /\ ref'[x][e] = r /\ installed' = installed
        /\ Stage \notin Replacing \cup {"delete"} /\ Stage' \notin Replacing \cup {"delete"}
    BY <1>20 DEF EmptyManifests, Done, Stage, Replacing, r
  <2>2. \A p \in Package : known[x][p] # 0 => known'[x][p] = known[x][p]
    BY <1>20 DEF EmptyManifests, TypeOK
  <2>3. C \subseteq C'
    BY <2>1, <2>2, <1>b DEF C, Claims
  <2>4. c <= c'
    BY <2>3, <1>b, <1>c, Counting DEF c
  <2> QED BY <2>1, <2>4, <1>a, <1>b, <1>c, <1>d, <1>e
<1>21. ASSUME WriteManifests
      PROVE  ref'[x][e] <= Bound(x, e)'
  <2>1. /\ ref'[x][e] = r /\ c' = c
        /\ Stage \notin Replacing \cup {"delete"} /\ Stage' \notin Replacing \cup {"delete"}
    BY <1>21, <1>h DEF WriteManifests, Registers, Stage, Replacing, r
  <2> QED BY <2>1, <1>d, <1>e
<1>22. ASSUME Reload
      PROVE  ref'[x][e] <= Bound(x, e)'
  BY <1>22, <1>f DEF Reload, LoadTable, NoRefs, TypeOK
<1>23. ASSUME Fail
      PROVE  ref'[x][e] <= Bound(x, e)'
  <2>1. /\ ref'[x][e] = r /\ c' = c /\ holder' # x
    BY <1>23, <1>h, RegistersType, PackagesAssumption DEF Fail, Abandon, r
  <2>2. e \notin files
    <3>1. CASE phase \in {"drop", "delete"}
      <4>1. /\ pkg \in leftover'
            /\ pkg \in Package /\ known[Me][pkg] \in 0..MaxVersion /\ known[Me][pkg] # 0
            /\ files \subseteq Contents[pkg][known[Me][pkg]]
        BY <1>23, <3>1 DEF Fail, Abandon, Untouched, Registered, Stage, Replacing, TypeOK
      <4>2. files \subseteq EverOwned(pkg)
        BY <4>1, EverOwnedFacts
      <4> QED BY <4>1, <4>2 DEF Excused, EverOwned
    <3>2. CASE phase \notin {"drop", "delete", "save"}
      BY <3>2 DEF Registered, Stage
    <3> QED BY <1>23, <3>1, <3>2 DEF Fail
  <2>3. r <= c
    BY <2>2, <1>a, <1>b, <1>d
  <2> QED BY <2>1, <2>3, <1>e
<1>24. ASSUME NEW f \in File, DeletionFails(f)
      PROVE  ref'[x][e] <= Bound(x, e)'
  <2>1. /\ ref'[x][e] = r \/ ref'[x][e] = 0
        /\ c' = c /\ holder' # x /\ pkg \in leftover' /\ phase = "delete"
    BY <1>24, <1>h, RegistersType, PackagesAssumption DEF DeletionFails, Abandon, Untouched,
       TypeOK, r
  <2>2. e \notin files
    <3>1. pkg \in Package /\ known[Me][pkg] \in 0..MaxVersion /\ known[Me][pkg] # 0
          /\ files \subseteq Contents[pkg][known[Me][pkg]]
      BY <2>1 DEF Registered, Stage, Replacing, TypeOK
    <3>2. files \subseteq EverOwned(pkg)
      BY <3>1, EverOwnedFacts
    <3> QED BY <2>1, <3>2 DEF Excused, EverOwned
  <2>3. r <= c
    BY <2>1, <2>2, <1>a, <1>b, <1>d DEF Stage
  <2> QED BY <2>1, <2>3, <1>e, <1>f
<1>25. ASSUME Die
      PROVE  ref'[x][e] <= Bound(x, e)'
  BY <1>25, <1>f DEF Die, NoRefs, TypeOK
<1>26. CASE UNCHANGED vars
  <2>1. ref'[x][e] = r /\ c' = c /\ d' = d /\ files' = files /\ Stage' = Stage /\ holder' = x
    BY <1>26, <1>h, <1>i DEF Stage, r
  <2> QED BY <2>1, <1>d, <1>e
<1> QED BY <1>1, <1>2, <1>3, <1>4, <1>5, <1>6, <1>7, <1>8, <1>9, <1>10, <1>11, <1>12, <1>13,
    <1>14, <1>15, <1>16, <1>17, <1>18, <1>19, <1>20, <1>21, <1>22, <1>23, <1>24, <1>25,
    <1>26 DEF Next, Working

\* The reference count of a file is at most the number of installed packages
\* that have it, but for files of packages that something went wrong with.
LEMMA CountedStep ==
  ASSUME TypeOK, TypeOK', Registered, Counted, [Next]_vars
  PROVE  Counted'
<1> SUFFICES ASSUME NEW x \in Process, NEW e \in File, ~ Excused(e)'
             PROVE  ref'[x][e] <= Bound(x, e)'
  BY DEF Counted
<1>1. CASE x = holder /\ phase # "idle"
  BY <1>1, HolderCounts
<1>2. CASE x # holder
  <2>1. ref[x][e] <= Cardinality(Claims(x, e))
    BY <1>2, ExcusedStep DEF Counted, Bound
  <2>2. Bound(x, e)' = Cardinality(Claims(x, e))'
    <3>1. holder' = x => Stage' = "next"
      BY <1>2, OthersRest DEF Stage
    <3> QED BY <3>1 DEF Bound, Replacing
  <2>3. CASE ref'[x] = ref[x] /\ installed'[x] = installed[x] /\ known'[x] = known[x]
    <3>1. Claims(x, e)' = Claims(x, e)
      BY <2>3 DEF Claims
    <3> QED BY <2>1, <2>2, <2>3, <3>1
  <2>4. CASE ref'[x] = NoRefs
    <3>1. Claims(x, e)' \in SUBSET Package
      BY DEF TypeOK, Claims
    <3>2. Cardinality(Claims(x, e)') \in Nat
      BY <3>1, Counting
    <3> QED BY <2>2, <2>4, <3>2 DEF NoRefs
  <2> QED BY <1>2, <2>3, <2>4, OtherTables DEF TableStays
<1>3. CASE x = holder /\ phase = "idle"
  BY <1>3, PackagesAssumption DEF TypeOK
<1> QED BY <1>1, <1>2, <1>3


\* What has gone wrong is not forgotten.
LEMMA HistoryStep ==
  ASSUME TypeOK, [Next]_vars
  PROVE  (stale => stale') /\ (torn => torn')
<1> USE DEF vars, diskVars, tableVars, planVars, stepVars, countVars, historyVars, Me, Goto
<1>1. ASSUME NEW p \in Package, Release(p) PROVE (stale => stale') /\ (torn => torn')
  BY <1>1 DEF Release, TypeOK
<1>2. ASSUME NEW x \in Process, Ask(x) PROVE (stale => stale') /\ (torn => torn')
  BY <1>2 DEF Ask, LoadTable, TypeOK
<1>3. ASSUME NEW x \in Process, Forget(x) PROVE (stale => stale') /\ (torn => torn')
  BY <1>3 DEF Forget, TypeOK
<1>4. ASSUME NEW x \in Process, UpdateDb(x) PROVE (stale => stale') /\ (torn => torn')
  BY <1>4 DEF UpdateDb, Lock, NeedTable, LoadTable, TypeOK
<1>5. ASSUME NEW x \in Process, NEW add \in SUBSET Package, NEW remove \in SUBSET Package,
             InstallRemove(x, add, remove) PROVE (stale => stale') /\ (torn => torn')
  BY <1>5 DEF InstallRemove, Lock, NeedTable, LoadTable, TypeOK
<1>6. ASSUME NEW p \in Package, NextPackage(p) PROVE (stale => stale') /\ (torn => torn')
  BY <1>6 DEF NextPackage, TypeOK
<1>7. ASSUME NEW p \in Package, RemovePackage(p) PROVE (stale => stale') /\ (torn => torn')
  BY <1>7 DEF RemovePackage, Save, TypeOK
<1>8. ASSUME NEW f \in File, DropFile(f) PROVE (stale => stale') /\ (torn => torn')
  BY <1>8 DEF DropFile, Dropping, TypeOK
<1>9. ASSUME NEW f \in File, KeepFile(f) PROVE (stale => stale') /\ (torn => torn')
  BY <1>9 DEF KeepFile, TypeOK
<1>10. ASSUME Fetch PROVE (stale => stale') /\ (torn => torn')
  BY <1>10 DEF Fetch, TypeOK
<1>11. ASSUME Unmark PROVE (stale => stale') /\ (torn => torn')
  BY <1>11 DEF Unmark, Save, TypeOK
<1>12. ASSUME WriteRecords PROVE (stale => stale') /\ (torn => torn')
  BY <1>12 DEF WriteRecords, TypeOK
<1>13. ASSUME Extract PROVE (stale => stale') /\ (torn => torn')
  BY <1>13 DEF Extract, TypeOK
<1>14. ASSUME Unindex PROVE (stale => stale') /\ (torn => torn')
  BY <1>14 DEF Unindex, TypeOK
<1>15. ASSUME Index PROVE (stale => stale') /\ (torn => torn')
  BY <1>15 DEF Index, TypeOK
<1>16. ASSUME Mark PROVE (stale => stale') /\ (torn => torn')
  BY <1>16 DEF Mark, Save, TypeOK
<1>17. ASSUME Settle PROVE (stale => stale') /\ (torn => torn')
  BY <1>17 DEF Settle, Forgotten, TypeOK
<1>18. ASSUME PackageRemoved PROVE (stale => stale') /\ (torn => torn')
  BY <1>18 DEF PackageRemoved, Forgotten, TypeOK
<1>19. ASSUME Follow PROVE (stale => stale') /\ (torn => torn')
  BY <1>19 DEF Follow, TypeOK
<1>20. ASSUME EmptyManifests PROVE (stale => stale') /\ (torn => torn')
  BY <1>20 DEF EmptyManifests, Done, TypeOK
<1>21. ASSUME WriteManifests PROVE (stale => stale') /\ (torn => torn')
  BY <1>21 DEF WriteManifests, Registers, Forgotten, TypeOK
<1>22. ASSUME Reload PROVE (stale => stale') /\ (torn => torn')
  BY <1>22 DEF Reload, LoadTable, Registers, Forgotten, TypeOK
<1>23. ASSUME Fail PROVE (stale => stale') /\ (torn => torn')
  BY <1>23 DEF Fail, Abandon, Registers, Forgotten, TypeOK
<1>24. ASSUME NEW f \in File, DeletionFails(f) PROVE (stale => stale') /\ (torn => torn')
  BY <1>24 DEF DeletionFails, Abandon, Registers, Forgotten, TypeOK
<1>25. ASSUME Die PROVE (stale => stale') /\ (torn => torn')
  BY <1>25 DEF Die, Abandon, Registers, Forgotten, TypeOK
<1>26. CASE UNCHANGED vars
  BY <1>26 DEF TypeOK
<1> QED BY <1>1, <1>2, <1>3, <1>4, <1>5, <1>6, <1>7, <1>8, <1>9, <1>10, <1>11, <1>12, <1>13,
    <1>14, <1>15, <1>16, <1>17, <1>18, <1>19, <1>20, <1>21, <1>22, <1>23, <1>24, <1>25,
    <1>26 DEF Next, Working

\* A file on the disk stays accounted for, or comes to be.
LEMMA FileAccounted ==
  ASSUME TypeOK, TypeOK', Registered, Progress, Synchronised, Manifests, Counted, AllAccounted,
         ~ stale', ~ torn', NEW e \in disk', ~ Excused(e)', [Next]_vars
  PROVE  Accounted(e)'
<1> USE DEF vars, diskVars, tableVars, planVars, stepVars, countVars, historyVars, Me, Goto
<1>z. ~ Excused(e)
  BY ExcusedStep
<1>e. e \in File
  BY DEF TypeOK
<1>m. ~ stale /\ ~ torn
  BY HistoryStep
<1>o. e \in disk =>
        \/ \E p \in Holding : e \in Owned(p)
        \/ e \in files
        \/ phase \in {"unindex", "index", "mark"} /\ e \in NewFiles
  <2>1. e \in disk => Accounted(e)
    BY <1>m DEF AllAccounted
  <2> QED BY <2>1, <1>z DEF Accounted
<1>w. Stage \in {"drop", "delete"} /\ pkg \in leftover' => e \notin files
  <2>1. SUFFICES ASSUME Stage \in {"drop", "delete"}, pkg \in leftover', e \in files
                 PROVE  FALSE
    OBVIOUS
  <2>2. /\ pkg \in Package /\ known[Me][pkg] # 0 /\ known[Me][pkg] \in 0..MaxVersion
        /\ files \subseteq Contents[pkg][known[Me][pkg]]
    BY <2>1, PackagesAssumption DEF Registered, Replacing, TypeOK, Stage
  <2> QED BY <2>1, <2>2, EverOwnedFacts DEF Excused, EverOwned
<1>v. Stage \in Replacing /\ pkg \in leftover' => e \notin NewFiles
  <2>1. SUFFICES ASSUME Stage \in Replacing, pkg \in leftover', e \in NewFiles PROVE FALSE
    OBVIOUS
  <2>2. pkg \in Package
    BY <2>1 DEF Registered
  <2> QED BY <2>1, <2>2, EverOwnedFacts DEF Excused, EverOwned
<1>1. ASSUME NEW p \in Package, Release(p) PROVE Accounted(e)'
  BY <1>1, <1>o DEF Release, TypeOK, Registered, Stage, Replacing, Believed, Accounted,
     Holding, Owned, NewFiles
<1>2. ASSUME NEW x \in Process, Ask(x) PROVE Accounted(e)'
  BY <1>2, <1>o DEF Ask, LoadTable, TypeOK, Registered, Stage, Replacing, Believed,
     Accounted, Holding, Owned, NewFiles
<1>3. ASSUME NEW x \in Process, Forget(x) PROVE Accounted(e)'
  BY <1>3, <1>o DEF Forget, TypeOK, Registered, Stage, Replacing, Believed, Accounted,
     Holding, Owned, NewFiles
<1>4. ASSUME NEW x \in Process, UpdateDb(x) PROVE Accounted(e)'
  <2>1. Lock(x) /\ phase' = "next"
    BY <1>4 DEF UpdateDb
  <2>2. UNCHANGED <<disk, extracted, leftover, unwritten, pkg, version, files>>
    BY <2>1 DEF Lock
  <2>3. phase = "idle" /\ Believed' = Believed
    BY <2>1, LockFacts
  <2> QED BY <2>1, <2>2, <2>3, <1>o DEF Accounted, Holding, Owned
<1>5. ASSUME NEW x \in Process, NEW add \in SUBSET Package, NEW remove \in SUBSET Package,
             InstallRemove(x, add, remove) PROVE Accounted(e)'
  <2>1. Lock(x) /\ phase' = "next"
    BY <1>5 DEF InstallRemove
  <2>2. UNCHANGED <<disk, extracted, leftover, unwritten, pkg, version, files>>
    BY <2>1 DEF Lock
  <2>3. phase = "idle" /\ Believed' = Believed
    BY <2>1, LockFacts
  <2> QED BY <2>1, <2>2, <2>3, <1>o DEF Accounted, Holding, Owned
<1>6. ASSUME NEW p \in Package, NextPackage(p) PROVE Accounted(e)'
  BY <1>6, <1>o DEF NextPackage, TypeOK, Registered, Stage, Replacing, Believed, Accounted,
     Holding, Owned, NewFiles
<1>7. ASSUME NEW p \in Package, RemovePackage(p) PROVE Accounted(e)'
  <2>1. /\ phase = "next" /\ phase' = "save" /\ holder' = holder
        /\ UNCHANGED <<disk, extracted, leftover, unwritten>>
        /\ installed'[holder] = installed[holder] \ {p} /\ files' = Contents[p][known[holder][p]]
    BY <1>7 DEF RemovePackage, Save, TypeOK
  <2>2. files = {}
    BY <2>1 DEF Registered, Stage
  <2>3. PICK q \in Believed : e \in Owned(q)
    BY <2>1, <2>2, <1>o DEF Holding
  <2>4. CASE q = p
    <3>1. p \notin unwritten
      BY <2>3, <2>4, <1>z, EverOwnedFacts DEF Excused
    <3>2. known[holder][p] = extracted[p]
      BY <2>1, <2>3, <2>4, <3>1, <1>m DEF Manifests, Stage
    <3>3. e \in files'
      BY <2>1, <2>3, <2>4, <3>2 DEF Owned
    <3> QED BY <3>3 DEF Accounted
  <2>5. CASE q # p
    BY <2>1, <2>3, <2>5 DEF Accounted, Holding, Believed, Owned
  <2> QED BY <2>4, <2>5
<1>8. ASSUME NEW f \in File, DropFile(f) PROVE Accounted(e)'
  <2>1. /\ phase \in {"drop", "delete"} /\ phase' = phase /\ holder' = holder /\ Holding' = Holding
        /\ UNCHANGED <<extracted, leftover, unwritten, pkg, version>> /\ files' = files \ {f}
        /\ e \in disk /\ holder \in Process /\ f \in files
        /\ Holding = installed[holder] \ {pkg}
    BY <1>8 DEF DropFile, Dropping, Holding, Believed, TypeOK, Registered, Stage
  <2>2. CASE e # f \/ \E p \in Holding : e \in Owned(p)
    BY <2>1, <2>2, <1>o DEF Accounted, Owned
  <2>3. CASE e = f
    <3>1. ref[holder][e] > 1 /\ ref[holder][e] \in Nat
      BY <1>8, <2>1, <2>3, <1>e DEF DropFile, Released, TypeOK
    <3>2. ref[holder][e] <= Cardinality(Claims(holder, e) \ {pkg}) + 1
      BY <2>1, <2>3, <1>e, <1>z DEF Counted, Bound, Stage, Replacing
    <3>3. Claims(holder, e) \subseteq Package
      BY <2>1, <1>e, ClaimsType
    <3>4. Cardinality(Claims(holder, e) \ {pkg}) \in Nat
      BY <3>3, Counting
    <3>5. Cardinality(Claims(holder, e) \ {pkg}) # 0
      BY <3>1, <3>2, <3>4
    <3>6. Claims(holder, e) \ {pkg} # {}
      BY <3>5, FS_EmptySet
    <3>7. PICK q \in Claims(holder, e) \ {pkg} : TRUE
      BY <3>6
    <3>8. /\ q \in Package /\ q \in installed[holder] /\ q # pkg
          /\ known[holder][q] \in 0..MaxVersion /\ known[holder][q] # 0
          /\ e \in Contents[q][known[holder][q]]
      BY <2>1, <3>3, <3>7 DEF Claims, TypeOK
    <3>9. q \notin unwritten
      BY <3>8, <1>z, EverOwnedFacts DEF Excused
    <3>10. known[holder][q] = extracted[q]
      BY <2>1, <3>8, <3>9, <1>m DEF Manifests, Believed, Stage
    <3>11. e \in Owned(q) /\ q \in Holding
      BY <2>1, <3>8, <3>10 DEF Owned
    <3> QED BY <2>1, <3>11 DEF Accounted, Owned
  <2> QED BY <2>2, <2>3
<1>9. ASSUME NEW f \in File, KeepFile(f) PROVE Accounted(e)'
  <2>1. /\ phase = "drop" /\ phase' = phase /\ holder' = holder /\ Holding' = Holding
        /\ UNCHANGED <<extracted, unwritten, pkg, version>> /\ files' = files \ {f}
        /\ e \in disk /\ pkg \in leftover' /\ f \in files
    BY <1>9 DEF KeepFile, Holding, Believed
  <2>2. e # f
    BY <2>1, <1>w DEF Stage
  <2> QED BY <2>1, <2>2, <1>o DEF Accounted, Owned
<1>10. ASSUME Fetch PROVE Accounted(e)'
  <2>1. /\ phase = "fetch" /\ holder' = holder /\ pkg \in Package
        /\ UNCHANGED <<disk, extracted, leftover, unwritten, installed, pkg>>
    BY <1>10 DEF Fetch, Registered, Stage, Replacing
  <2>2. files = {}
    BY <2>1 DEF Registered, Stage
  <2>3. PICK q \in Believed : e \in Owned(q)
    BY <2>1, <2>2, <1>o DEF Holding
  <2>4. CASE q = pkg
    <3>1. pkg \notin unwritten
      BY <2>1, <2>3, <2>4, <1>z, EverOwnedFacts DEF Excused
    <3>2. known[holder][pkg] = extracted[pkg]
      BY <2>1, <2>3, <2>4, <3>1, <1>m DEF Manifests, Stage
    <3>3. e \in files'
      BY <1>10, <2>1, <2>3, <2>4, <3>2 DEF Owned, Fetch, Believed
    <3> QED BY <3>3 DEF Accounted
  <2>5. CASE q # pkg
    BY <1>10, <2>1, <2>3, <2>5 DEF Fetch, Accounted, Holding, Believed, Owned
  <2> QED BY <2>4, <2>5
<1>11. ASSUME Unmark PROVE Accounted(e)'
  BY <1>11, <1>o DEF Unmark, Save, TypeOK, Registered, Stage, Replacing, Believed,
     Accounted, Holding, Owned, NewFiles
<1>12. ASSUME WriteRecords PROVE Accounted(e)'
  BY <1>12, <1>o DEF WriteRecords, TypeOK, Registered, Stage, Replacing, Believed,
     Accounted, Holding, Owned, NewFiles
<1>13. ASSUME Extract PROVE Accounted(e)'
  BY <1>13, <1>o DEF Extract, TypeOK, Registered, Stage, Replacing, Believed, Accounted,
     Holding, Owned, NewFiles
<1>14. ASSUME Unindex PROVE Accounted(e)'
  BY <1>14, <1>o DEF Unindex, TypeOK, Registered, Stage, Replacing, Believed, Accounted,
     Holding, Owned, NewFiles
<1>15. ASSUME Index PROVE Accounted(e)'
  BY <1>15, <1>o DEF Index, TypeOK, Registered, Stage, Replacing, Believed, Accounted,
     Holding, Owned, NewFiles
<1>16. ASSUME Mark PROVE Accounted(e)'
  <2>1. /\ phase = "mark" /\ phase' = "save" /\ holder' = holder /\ UNCHANGED <<disk, version, pkg>>
        /\ installed'[holder] = installed[holder] \cup {pkg} /\ pkg \notin installed[holder]
        /\ pkg \in Package /\ version # 0 /\ files = {}
        /\ extracted' = [extracted EXCEPT ![pkg] = version] /\ installed[holder] \subseteq Package
    BY <1>16 DEF Mark, Save, TypeOK, Registered, Stage, Replacing, Version
  <2>2. CASE e \in NewFiles
    <3>1. Owned(pkg)' = NewFiles
      BY <2>1 DEF TypeOK, Owned, NewFiles
    <3> QED BY <2>1, <2>2, <3>1 DEF Accounted, Holding, Believed
  <2>3. ASSUME NEW q \in Holding, e \in Owned(q)
        PROVE  Accounted(e)'
    <3>1. q \in Package /\ q # pkg /\ q \in Holding'
      BY <2>1, <2>3 DEF Holding, Believed
    <3>2. Owned(q)' = Owned(q)
      BY <2>1, <3>1 DEF TypeOK, Owned
    <3> QED BY <2>3, <3>1, <3>2 DEF Accounted
  <2> QED BY <2>1, <2>2, <2>3, <1>o
<1>17. ASSUME Settle PROVE Accounted(e)'
  BY <1>17, <1>o DEF Settle, Forgotten, TypeOK, Registered, Stage, Replacing, Believed,
     Accounted, Holding, Owned, NewFiles
<1>18. ASSUME PackageRemoved PROVE Accounted(e)'
  BY <1>18, <1>o DEF PackageRemoved, Forgotten, TypeOK, Registered, Stage, Replacing,
     Believed, Accounted, Holding, Owned, NewFiles
<1>19. ASSUME Follow PROVE Accounted(e)'
  BY <1>19, <1>o DEF Follow, TypeOK, Registered, Stage, Replacing, Believed, Accounted,
     Holding, Owned, NewFiles
<1>20. ASSUME EmptyManifests PROVE Accounted(e)'
  BY <1>20, <1>o DEF EmptyManifests, Done, TypeOK, Registered, Stage, Replacing, Believed,
     Accounted, Holding, Owned, NewFiles
<1>21. ASSUME WriteManifests PROVE Accounted(e)'
  <2>1. /\ Holding' = Holding /\ UNCHANGED <<disk, extracted>>
        /\ phase \in {"write", "reload"} /\ files = {}
    BY <1>21, <1>m, RegistersType DEF WriteManifests, LoadTable, Synchronised, Holding,
       Believed, Registered, Stage, TypeOK
  <2> QED BY <2>1, <1>o DEF Accounted, Owned
<1>22. ASSUME Reload PROVE Accounted(e)'
  <2>1. /\ Holding' = Holding /\ UNCHANGED <<disk, extracted>>
        /\ phase \in {"write", "reload"} /\ files = {}
    BY <1>22, <1>m, RegistersType DEF Reload, LoadTable, Synchronised, Holding, Believed,
       Registered, Stage, TypeOK
  <2> QED BY <2>1, <1>o DEF Accounted, Owned
<1>23. ASSUME Fail PROVE Accounted(e)'
  <2>1. /\ Abandon /\ phase # "save" /\ phase # "idle" /\ phase' = "idle" /\ recorded' = recorded
        /\ extracted' = extracted /\ (~ Untouched => pkg \in leftover')
    BY <1>23, RegistersType DEF Fail, Abandon, TypeOK
  <2>2. Holding \subseteq Holding'
    BY <2>1, <1>m DEF Synchronised, Believed, Holding
  <2>3. CASE \E p \in Holding : e \in Owned(p)
    BY <2>1, <2>2, <2>3 DEF Accounted, Owned
  <2>4. e \notin files
    BY <2>1, <1>w DEF Registered, Stage, Untouched
  <2>5. ~ (phase \in {"extract", "unindex", "index", "mark"} /\ e \in NewFiles)
    BY <2>1, <1>v DEF Untouched, Stage, Replacing
  <2>6. e \in disk
    BY <2>1, <2>5 DEF Abandon
  <2> QED BY <2>3, <2>4, <2>5, <2>6, <1>o
<1>24. ASSUME NEW f \in File, DeletionFails(f) PROVE Accounted(e)'
  <2>1. /\ Abandon /\ phase # "save" /\ phase # "idle" /\ phase' = "idle" /\ recorded' = recorded
        /\ extracted' = extracted /\ (~ Untouched => pkg \in leftover')
    BY <1>24, RegistersType DEF DeletionFails, Abandon, TypeOK
  <2>2. Holding \subseteq Holding'
    BY <2>1, <1>m DEF Synchronised, Believed, Holding
  <2>3. CASE \E p \in Holding : e \in Owned(p)
    BY <2>1, <2>2, <2>3 DEF Accounted, Owned
  <2>4. e \notin files
    BY <2>1, <1>w DEF Registered, Stage, Untouched
  <2>5. ~ (phase \in {"extract", "unindex", "index", "mark"} /\ e \in NewFiles)
    BY <2>1, <1>v DEF Untouched, Stage, Replacing
  <2>6. e \in disk
    BY <2>1, <2>5 DEF Abandon
  <2> QED BY <2>3, <2>4, <2>5, <2>6, <1>o
<1>25. ASSUME Die PROVE Accounted(e)'
  <2>1. /\ Abandon /\ phase # "save" /\ phase # "idle" /\ phase' = "idle" /\ recorded' = recorded
        /\ extracted' = extracted /\ (~ Untouched => pkg \in leftover')
    BY <1>25, RegistersType DEF Die, Abandon, TypeOK
  <2>2. Holding \subseteq Holding'
    BY <2>1, <1>m DEF Synchronised, Believed, Holding
  <2>3. CASE \E p \in Holding : e \in Owned(p)
    BY <2>1, <2>2, <2>3 DEF Accounted, Owned
  <2>4. e \notin files
    BY <2>1, <1>w DEF Registered, Stage, Untouched
  <2>5. ~ (phase \in {"extract", "unindex", "index", "mark"} /\ e \in NewFiles)
    BY <2>1, <1>v DEF Untouched, Stage, Replacing
  <2>6. e \in disk
    BY <2>1, <2>5 DEF Abandon
  <2> QED BY <2>3, <2>4, <2>5, <2>6, <1>o
<1>26. CASE UNCHANGED vars
  BY <1>26, <1>o DEF Accounted, Holding, Believed, Owned, NewFiles
<1> QED BY <1>1, <1>2, <1>3, <1>4, <1>5, <1>6, <1>7, <1>8, <1>9, <1>10, <1>11, <1>12, <1>13,
    <1>14, <1>15, <1>16, <1>17, <1>18, <1>19, <1>20, <1>21, <1>22, <1>23, <1>24, <1>25,
    <1>26 DEF Next, Working
\* Every file on the disk is accounted for.
LEMMA AccountedStep ==
  ASSUME TypeOK, TypeOK', Registered, Progress, Synchronised, Manifests, Counted, AllAccounted,
         [Next]_vars
  PROVE  AllAccounted'
BY FileAccounted DEF AllAccounted, Accounted

\* What CheckDependencies collects has got everything it requires.
LEMMA ClosureFacts ==
  ASSUME NEW ps \in SUBSET Package, NEW versions \in [Package -> 0..MaxVersion],
         NEW p \in ps, versions[p] # 0
  PROVE  {p} \cup Requires[p][versions[p]] \subseteq Closure(ps, versions)
<1>1. Requires[p][versions[p]] \subseteq Package
  BY Versions, ContentsType
<1> QED BY <1>1 DEF Closure


\* What is required stays installed, or is going to be installed.
LEMMA FollowingStep ==
  ASSUME TypeOK, TypeOK', Registered, Following, [Next]_vars
  PROVE  Following'
<1> USE DEF vars, diskVars, tableVars, planVars, stepVars, countVars, historyVars, Me, Goto
<1>1. ASSUME NEW p \in Package, Release(p) PROVE Following'
  BY <1>1 DEF Release, TypeOK, Registered, Stage, Replacing, Following, Needed
<1>2. ASSUME NEW x \in Process, Ask(x) PROVE Following'
  BY <1>2 DEF Ask, LoadTable, TypeOK, Registered, Stage, Replacing, Following, Needed
<1>3. ASSUME NEW x \in Process, Forget(x) PROVE Following'
  BY <1>3 DEF Forget, TypeOK, Registered, Stage, Replacing, Following, Needed
<1>4. ASSUME NEW x \in Process, UpdateDb(x) PROVE Following'
  BY <1>4 DEF UpdateDb, Lock, NeedTable, LoadTable, TypeOK, Registered, Stage, Replacing,
     Following, Needed
<1>5. ASSUME NEW x \in Process, NEW add \in SUBSET Package, NEW remove \in SUBSET Package,
             InstallRemove(x, add, remove) PROVE Following'
  BY <1>5 DEF InstallRemove, Lock, NeedTable, LoadTable, TypeOK, Registered, Stage,
     Replacing, Following, Needed
<1>6. ASSUME NEW p \in Package, NextPackage(p) PROVE Following'
  BY <1>6 DEF NextPackage, TypeOK, Registered, Stage, Replacing, Following, Needed
<1>7. ASSUME NEW p \in Package, RemovePackage(p) PROVE Following'
  BY <1>7 DEF RemovePackage, Save, TypeOK, Registered, Stage, Replacing, Following, Needed
<1>8. ASSUME NEW f \in File, DropFile(f) PROVE Following'
  BY <1>8 DEF DropFile, Dropping, TypeOK, Registered, Stage, Replacing, Following, Needed
<1>9. ASSUME NEW f \in File, KeepFile(f) PROVE Following'
  BY <1>9 DEF KeepFile, TypeOK, Registered, Stage, Replacing, Following, Needed
<1>10. ASSUME Fetch PROVE Following'
  BY <1>10 DEF Fetch, TypeOK, Registered, Stage, Replacing, Following, Needed
<1>11. ASSUME Unmark PROVE Following'
  BY <1>11 DEF Unmark, Save, TypeOK, Registered, Stage, Replacing, Following, Needed
<1>12. ASSUME WriteRecords PROVE Following'
  BY <1>12 DEF WriteRecords, TypeOK, Registered, Stage, Replacing, Following, Needed
<1>13. ASSUME Extract PROVE Following'
  BY <1>13 DEF Extract, TypeOK, Registered, Stage, Replacing, Following, Needed
<1>14. ASSUME Unindex PROVE Following'
  BY <1>14 DEF Unindex, TypeOK, Registered, Stage, Replacing, Following, Needed
<1>15. ASSUME Index PROVE Following'
  BY <1>15 DEF Index, TypeOK, Registered, Stage, Replacing, Following, Needed
<1>16. ASSUME Mark PROVE Following'
  BY <1>16 DEF Mark, Save, TypeOK, Registered, Stage, Replacing, Following, Needed
<1>17. ASSUME Settle PROVE Following'
  <2>1. /\ phase = "settle" /\ phase' = "next" /\ holder' = holder /\ adding' = adding \ {pkg}
        /\ known'[holder] = [known[holder] EXCEPT ![pkg] = version] /\ version # 0
        /\ known[holder] \in [Package -> 0..MaxVersion] /\ pkg \in adding
        /\ pkg \in installed[holder]
        /\ UNCHANGED <<recorded, installed, wanted, removing, followed, late, reload>>
        /\ wanted \subseteq Package /\ pkg \in Package
    BY <1>17 DEF Settle, TypeOK, Registered, Stage, Replacing, Version
  <2>2. recorded = installed[holder]
    BY <2>1 DEF Following
  <2>3. \A p \in Package : p # pkg => known'[holder][p] = known[holder][p]
    BY <2>1
  <2>4. known'[holder][pkg] # 0
    BY <2>1
  <2>5. \A p \in wanted' : known'[Me'][p] # 0 \/ (p \in adding' /\ ~ followed')
    BY <2>1, <2>3, <2>4 DEF Following
  <2>6. ASSUME followed', NEW p \in wanted', NEW q \in Needed(p)'
        PROVE  q \in installed'[holder] \/ q \in adding' \/ known'[holder][q] = 0
    <3>1. q \in Needed(p)
      <4>1. CASE p = pkg
        BY <2>1, <2>6, <4>1 DEF Following, Needed
      <4>2. CASE p # pkg
        BY <2>1, <2>3, <2>6, <4>2 DEF Needed
      <4> QED BY <4>1, <4>2
    <3>2. q \in installed[holder] \/ q \in adding \/ known[holder][q] = 0
      BY <2>1, <2>6, <3>1 DEF Following
    <3> QED BY <2>1, <3>2
  <2> QED BY <2>1, <2>2, <2>5, <2>6 DEF Following
<1>18. ASSUME PackageRemoved PROVE Following'
  BY <1>18 DEF PackageRemoved, Forgotten, TypeOK, Registered, Stage, Replacing, Following,
     Needed
<1>19. ASSUME Follow PROVE Following'
  <2>1. /\ phase = "next" /\ phase' = "next" /\ holder' = holder /\ adding = {} /\ removing = {}
        /\ ~ followed /\ followed' = TRUE /\ late' = adding'
        /\ UNCHANGED <<recorded, installed, known, wanted, removing, reload>>
        /\ wanted \subseteq Package /\ known[holder] \in [Package -> 0..MaxVersion]
    BY <1>19 DEF Follow, TypeOK
  <2>2. \A p \in wanted : known[holder][p] # 0
    BY <2>1 DEF Following
  <2>3. ASSUME NEW p \in wanted', NEW q \in Needed(p)'
        PROVE  q \in installed'[holder] \/ q \in adding' \/ known'[holder][q] = 0
    <3>1. q \in {p} \cup Requires[p][known[holder][p]]
      BY <2>1, <2>3 DEF Needed
    <3>2. q \in Closure(wanted, known[holder])
      BY <2>1, <2>2, <2>3, <3>1, ClosureFacts
    <3> QED BY <1>19, <2>1, <3>2 DEF Follow
  <2>4. wanted' \ adding' # {} => recorded' = installed'[holder]
    BY <2>1 DEF Following
  <2> QED BY <2>1, <2>2, <2>3, <2>4 DEF Following
<1>20. ASSUME EmptyManifests PROVE Following'
  BY <1>20 DEF EmptyManifests, Done, TypeOK, Registered, Stage, Replacing, Following, Needed
<1>21. ASSUME WriteManifests PROVE Following'
  BY <1>21 DEF WriteManifests, Registers, Forgotten, TypeOK, Registered, Stage, Replacing,
     Following, Needed
<1>22. ASSUME Reload PROVE Following'
  BY <1>22 DEF Reload, LoadTable, Registers, Forgotten, TypeOK, Registered, Stage,
     Replacing, Following, Needed
<1>23. ASSUME Fail PROVE Following'
  BY <1>23 DEF Fail, Abandon, Registers, Forgotten, TypeOK, Registered, Stage, Replacing,
     Following, Needed
<1>24. ASSUME NEW f \in File, DeletionFails(f) PROVE Following'
  BY <1>24 DEF DeletionFails, Abandon, Registers, Forgotten, TypeOK, Registered, Stage,
     Replacing, Following, Needed
<1>25. ASSUME Die PROVE Following'
  BY <1>25 DEF Die, Abandon, Registers, Forgotten, TypeOK, Registered, Stage, Replacing,
     Following, Needed
<1>26. CASE UNCHANGED vars
  BY <1>26 DEF TypeOK, Registered, Stage, Replacing, Following, Needed
<1> QED BY <1>1, <1>2, <1>3, <1>4, <1>5, <1>6, <1>7, <1>8, <1>9, <1>10, <1>11, <1>12, <1>13,
    <1>14, <1>15, <1>16, <1>17, <1>18, <1>19, <1>20, <1>21, <1>22, <1>23, <1>24, <1>25,
    <1>26 DEF Next, Working
-----------------------------------------------------------------------------
(* The theorems.                                                           *)

\* The inductive invariant holds in the beginning ...
LEMMA InvariantInit == Init => IInv
<1> SUFFICES ASSUME Init PROVE IInv
  OBVIOUS
<1>1. TypeOK
  <2>1. Unknown \in [Package -> 0..MaxVersion] /\ NoRefs \in [File -> Nat]
    BY Versions DEF Unknown, NoRefs
  <2>2. manifest \in [Package -> 0..MaxVersion] /\ newest \in [Package -> Version]
    BY Versions DEF Init
  <2>3. jobs \in 0..MaxJobs /\ troubles \in 0..MaxTroubles
    BY PackagesAssumption DEF Init
  <2> QED BY <2>1, <2>2, <2>3, Versions DEF Init, TypeOK, Phases
<1>2. Registered /\ Progress /\ Synchronised /\ Manifests /\ AllIndexed /\ AllExist
  BY DEF Init, Registered, Progress, Synchronised, Manifests, AllIndexed, AllExist, Stage,
         Replacing, Extracted, Believed, Drafted
<1>3. Counted
  <2> SUFFICES ASSUME NEW x \in Process, NEW e \in File PROVE ref[x][e] <= Bound(x, e)
    BY DEF Counted
  <2>1. ref[x][e] = 0 /\ Bound(x, e) = Cardinality(Claims(x, e))
    BY DEF Init, NoRefs, Bound, Stage, Replacing
  <2>2. Cardinality(Claims(x, e)) \in Nat
    BY <1>1, ClaimsType, Counting
  <2> QED BY <2>1, <2>2
<1>4. AllAccounted /\ Following
  BY DEF Init, AllAccounted, Following
<1> QED BY <1>1, <1>2, <1>3, <1>4 DEF IInv

\* ... and after every step.
LEMMA InvariantStep == IInv /\ [Next]_vars => IInv'
<1> SUFFICES ASSUME IInv, [Next]_vars PROVE IInv'
  OBVIOUS
<1> USE DEF IInv
<1>1. TypeOK'
  BY TypeStep
<1> QED
  BY <1>1, RegisteredStep, ProgressStep, SynchronisedStep, ManifestsStep, IndexedStep,
     ExistStep,
     CountedStep, AccountedStep, FollowingStep

\* The inductive invariant is an invariant.
THEOREM Invariant == Spec => []IInv
BY InvariantInit, InvariantStep, PTL DEF Spec

\* Every variable of the package manager stays in its range, and exactly the
\* holder of the lock works.
THEOREM TypeCorrect == Spec => []TypeOK
<1>1. IInv => TypeOK
  BY DEF IInv
<1> QED BY Invariant, <1>1, PTL

\* What packages.ini records, the holder of the lock believes.
LEMMA RecordsBelieved ==
  ASSUME Synchronised, ~ stale
  PROVE  recorded \subseteq Believed /\ (holder = "free" /\ TypeOK => recorded = Believed)
BY DEF Synchronised, TypeOK

\* A package that packages.ini lists has all the files that are its alone,
\* whatever is interrupted, but for an update that was cut short.
THEOREM RecordedFilesExistTheorem == Spec => []RecordedFilesExist
<1>1. IInv => RecordedFilesExist
  BY RecordsBelieved DEF IInv, AllExist, RecordedFilesExist
<1> QED BY Invariant, <1>1, PTL

\* The files of a package that packages.ini lists are in the file name database.
THEOREM RecordedFilesAreIndexedTheorem == Spec => []RecordedFilesAreIndexed
<1>1. IInv => RecordedFilesAreIndexed
  BY RecordsBelieved DEF IInv, AllIndexed, Indexed, RecordedFilesAreIndexed
<1> QED BY Invariant, <1>1, PTL

\* Between two jobs the manifests are those of the installed versions.
THEOREM ManifestTheorem == Spec => []ManifestIsOfInstalledVersion
<1>1. IInv => ManifestIsOfInstalledVersion
  BY RecordsBelieved DEF IInv, Manifests, Drafted, Believed, TypeOK,
     ManifestIsOfInstalledVersion
<1> QED BY Invariant, <1>1, PTL

\* Between two jobs no file is on the disk that no package accounts for.
THEOREM NoOrphansTheorem == Spec => []NoOrphans
<1>1. ASSUME IInv, holder = "free", ~ stale, ~ torn, NEW e \in disk
      PROVE  \/ \E p \in recorded : e \in Owned(p)
             \/ \E p \in leftover \cup unwritten : e \in EverOwned(p)
  <2>1. phase = "idle" /\ files = {}
    BY <1>1 DEF IInv, TypeOK, Registered, Stage
  <2>2. Holding = recorded
    BY <2>1 DEF Holding, Believed
  <2>3. Accounted(e)
    BY <1>1 DEF IInv, AllAccounted
  <2> QED BY <2>1, <2>2, <2>3 DEF Accounted, Excused
<1>2. IInv => NoOrphans
  BY <1>1 DEF NoOrphans
<1> QED BY Invariant, <1>2, PTL

\* When a job is done, what it was to install is installed, with what that
\* requires.
THEOREM DependenciesTheorem == Spec => []DependenciesInstalled
<1>1. ASSUME IInv, Done, holder # "free", NEW p \in wanted, NEW q \in Needed(p)
      PROVE  q \in recorded \/ known[holder][q] = 0
  <2>1. q \in installed[holder] \/ known[holder][q] = 0
    BY <1>1 DEF IInv, Following, Done, Me
  <2>2. recorded = installed[holder]
    BY <1>1 DEF IInv, Following, Done, Me
  <2> QED BY <2>1, <2>2
<1>2. IInv => DependenciesInstalled
  BY <1>1 DEF DependenciesInstalled, Needed, Me
<1> QED BY Invariant, <1>2, PTL
====
