-------------------------- MODULE PackageInstaller --------------------------
(***************************************************************************)
(* Installation, update and removal of packages (PackageManager:           *)
(* PackageInstallerImpl, PackageDataStore, ComboCfg).                      *)
(*                                                                         *)
(* On disk there are packages.ini (which packages are installed),          *)
(* package-manifests.ini (which files belong to a package), the files and  *)
(* the file name database.  A process keeps a table of its own of all      *)
(* packages, loaded once, and reference counts of the files it knows to be *)
(* installed.  It changes the disk only with the lock of the package       *)
(* manager (module LockFile; taken here as the exclusive lock it           *)
(* promises), so the registers of the one running InstallRemove or         *)
(* UpdateDb are global variables.                                          *)
(*                                                                         *)
(* Both .ini files are written in place: truncated, then written.  A       *)
(* process can die between any two steps, and a step can throw.            *)
(***************************************************************************)
EXTENDS Integers, FiniteSets

CONSTANTS
  Process, Package, File,
  None,        \* no package
  MaxVersion,  \* bound: versions of a package are 1 .. MaxVersion
  Contents,    \* Contents[p][v]: the files of version v of package p
  Requires,    \* Requires[p][v]: the packages it requires
  MaxJobs,     \* bound: calls of InstallRemove and UpdateDb
  MaxTroubles  \* bound: deaths and exceptions

Version == 1..MaxVersion

ASSUME PackagesAssumption ==
  /\ None \notin Package /\ "free" \notin Process /\ IsFiniteSet(Package)
  /\ MaxVersion \in Nat \ {0} /\ MaxJobs \in Nat /\ MaxTroubles \in Nat
  /\ Contents \in [Package -> [Version -> SUBSET File]]
  /\ Requires \in [Package -> [Version -> SUBSET Package]]

VARIABLES
  recorded,   \* packages.ini
  manifest,   \* package-manifests.ini: version of each package, 0 = unknown
  disk,       \* the files that exist
  index,      \* the files in the file name database
  newest,     \* the versions in the package repository
  loaded,     \* the processes that have loaded their table
  installed,  \* per process: its idea of packages.ini (table and comboCfg)
  known,      \* per process: versions in its table
  ref,        \* per process: reference counts of files
  holder,     \* who has the lock, or "free"
  phase,      \* what the holder is about to do
  after,      \* ... once packages.ini is written
  wanted,     \* packages it was told to install, with what they require
  adding,     \* packages it still has to install
  removing,   \* packages it still has to remove
  followed,   \* it has looked for missing dependencies once more
  late,       \* history: ... and found these missing
  reload,     \* it is in UpdateDb
  drafts,     \* the manifests it is going to write
  pkg,        \* the package it is working on
  version,    \* the version in the archive it has got
  files,      \* old files still to be removed
  deleted,    \* removedFiles
  jobs, troubles,  \* counters
  extracted,  \* history: per package the version that was installed last
  broken,     \* history: a removal of old files was cut short
  leftover,   \* history: some installation or removal was cut short
  unwritten,  \* history: installed, but the manifest was not written
  stale,      \* history: somebody has worked with an outdated table
  torn        \* history: somebody died while writing an .ini file

diskVars == <<recorded, manifest, disk, index>>
tableVars == <<loaded, installed, known, ref>>
planVars == <<wanted, adding, removing, followed, late, reload, drafts>>
stepVars == <<pkg, version, files, deleted, after>>
countVars == <<jobs, troubles>>
historyVars == <<extracted, broken, leftover, unwritten, stale, torn>>
vars == <<diskVars, newest, tableVars, holder, phase, planVars, stepVars, countVars,
          historyVars>>

NoRefs == [f \in File |-> 0]
Unknown == [p \in Package |-> 0]

\* A fresh installation: the manifests have come with the setup, no package
\* has been installed yet.
Init ==
  /\ recorded = {} /\ manifest = [p \in Package |-> 1] /\ disk = {} /\ index = {}
  /\ newest = [p \in Package |-> 1]
  /\ loaded = {} /\ installed = [x \in Process |-> {}]
  /\ known = [x \in Process |-> Unknown] /\ ref = [x \in Process |-> NoRefs]
  /\ holder = "free" /\ phase = "idle" /\ after = "next"
  /\ wanted = {} /\ adding = {} /\ removing = {} /\ followed = FALSE /\ late = {}
  /\ reload = FALSE /\ drafts = Unknown /\ pkg = None /\ version = 1 /\ files = {} /\ deleted = {}
  /\ jobs = 0 /\ troubles = 0
  /\ extracted = Unknown /\ broken = {} /\ leftover = {} /\ unwritten = {}
  /\ stale = FALSE /\ torn = FALSE
-----------------------------------------------------------------------------
(* The repository and the tables of the processes.                         *)

\* Somebody uploads a new version.
Release(p) ==
  /\ newest[p] < MaxVersion
  /\ newest' = [newest EXCEPT ![p] = @ + 1]
  /\ UNCHANGED <<diskVars, tableVars, holder, phase, planVars, stepVars, countVars,
                 historyVars>>

\* Load.  The reference counts stay zero: Load asks the manifest, which does
\* not say whether the package is installed, and not the table.
LoadTable(x) ==
  /\ loaded' = loaded \cup {x}
  /\ installed' = [installed EXCEPT ![x] = recorded]
  /\ known' = [known EXCEPT ![x] = manifest]
  /\ ref' = [ref EXCEPT ![x] = NoRefs]

\* "We do this once."
NeedTable(x) == IF x \in loaded THEN UNCHANGED tableVars ELSE LoadTable(x)

\* GetPackageInfo and the iterators: lock, load, unlock.
Ask(x) ==
  /\ holder = "free" /\ x \notin loaded
  /\ LoadTable(x)
  /\ UNCHANGED <<diskVars, newest, holder, phase, planVars, stepVars, countVars,
                 historyVars>>

\* UnloadDatabase; or the process ends between two calls and another starts.
Forget(x) ==
  /\ holder # x /\ x \in loaded
  /\ loaded' = loaded \ {x}
  /\ installed' = [installed EXCEPT ![x] = {}]
  /\ known' = [known EXCEPT ![x] = Unknown]
  /\ ref' = [ref EXCEPT ![x] = NoRefs]
  /\ UNCHANGED <<diskVars, newest, holder, phase, planVars, stepVars, countVars,
                 historyVars>>

Outdated(x) == x \in loaded /\ (installed[x] # recorded \/ known[x] # manifest)

\* CheckDependencies: packages with everything they require, directly or not.
Closure(ps, versions) ==
  LET Closed(S) == ps \subseteq S /\ \A p \in S :
        versions[p] # 0 => Requires[p][versions[p]] \subseteq S
  IN {p \in Package : \A S \in SUBSET Package : Closed(S) => p \in S}

Lock(x) ==
  /\ holder = "free" /\ jobs < MaxJobs
  /\ holder' = x /\ jobs' = jobs + 1
  /\ stale' = (stale \/ Outdated(x))
  /\ NeedTable(x)
  /\ UNCHANGED <<diskVars, newest, stepVars, troubles, extracted, broken, leftover,
                 unwritten, torn>>

\* InstallRemove.  The callers have looked at the table: what they ask for is
\* known, and what they want removed is installed.
InstallRemove(x, add, remove) ==
  /\ Lock(x)
  /\ add \cup remove # {} /\ add \cap remove = {}
  /\ \A p \in add \cup remove : known'[x][p] # 0
  /\ remove \subseteq installed'[x]
  /\ wanted' = Closure(add, known'[x]) /\ adding' = wanted'
  /\ removing' = remove /\ followed' = FALSE /\ late' = {} /\ reload' = FALSE
  /\ drafts' = manifest
  /\ phase' = "next"

\* UpdateDb: the new manifests of all packages that are not installed.
UpdateDb(x) ==
  /\ Lock(x)
  /\ wanted' = {} /\ adding' = {} /\ removing' = {}
  /\ followed' = TRUE /\ late' = {} /\ reload' = TRUE
  /\ drafts' = [p \in Package |->
       IF p \in installed'[x] /\ known'[x][p] # 0 THEN manifest[p] ELSE newest[p]]
  /\ phase' = "next"
-----------------------------------------------------------------------------
(* InstallPackage.                                                         *)

Me == holder

Goto(next) == phase' = next /\ UNCHANGED <<holder, after, countVars, newest>>

NextPackage(p) ==
  /\ phase = "next" /\ p \in adding /\ known[Me][p] # 0
  /\ Goto("fetch") /\ pkg' = p
  /\ UNCHANGED <<diskVars, tableVars, planVars, version, files, deleted, historyVars>>

\* The archive is downloaded and its digest is right, at the latest according
\* to the repository manifest of today.
Fetch ==
  /\ phase = "fetch"
  /\ version' = newest[pkg] /\ deleted' = {}
  /\ IF pkg \in installed[Me]
     THEN Goto("drop") /\ files' = Contents[pkg][known[Me][pkg]]
     ELSE Goto("extract") /\ files' = {}
  /\ UNCHANGED <<diskVars, tableVars, planVars, pkg, historyVars>>

Dropping == phase \in {"drop", "delete"}

\* Mutant: the count is not decremented.
StillReferenced(f) == ref[Me][f]

\* Mutant: the count is decremented without a look at it.
ReleasedBlindly(f) == ref[Me][f] - 1

\* "if (refCount > 0)": DecrementFileRefCount does not expect a zero.
Released(f) == IF ref[Me][f] > 0 THEN ref[Me][f] - 1 ELSE 0

\* RemoveFiles, one file: deleted unless the count says somebody needs it.
DropFile(f) ==
  /\ Dropping /\ f \in files
  /\ files' = files \ {f}
  /\ ref' = [ref EXCEPT ![Me][f] = Released(f)]
  /\ IF Released(f) > 0 THEN UNCHANGED <<disk, deleted>>
     ELSE disk' = disk \ {f} /\ deleted' = deleted \cup ({f} \cap disk)
  /\ Goto(phase)
  /\ UNCHANGED <<recorded, manifest, index, loaded, installed, known, planVars, pkg,
                 version, historyVars>>

\* An update does not care when an old file cannot be deleted.
KeepFile(f) ==
  /\ phase = "drop" /\ f \in files /\ f \in disk /\ Released(f) = 0
  /\ troubles < MaxTroubles /\ troubles' = troubles + 1
  /\ files' = files \ {f}
  /\ ref' = [ref EXCEPT ![Me][f] = 0]
  /\ leftover' = leftover \cup {pkg}
  /\ UNCHANGED <<diskVars, newest, loaded, installed, known, holder, phase, after,
                 planVars, pkg, version, deleted, jobs, extracted, broken, unwritten,
                 stale, torn>>

\* SetTimeInstalled and the first half of SaveVarData: packages.ini is emptied.
Save(nowInstalled, next) ==
  /\ installed' = [installed EXCEPT ![Me] = nowInstalled]
  /\ recorded' = {}
  /\ phase' = "save" /\ after' = next
  /\ UNCHANGED <<holder, countVars, newest, manifest, disk, index, loaded, known, ref>>

\* Mutant: the package is not marked while its files are being replaced.
LeaveMarked ==
  /\ phase = "drop" /\ files = {}
  /\ Goto("extract")
  /\ UNCHANGED <<diskVars, tableVars, planVars, pkg, version, files, deleted, historyVars>>

\* "temporarily set the status to not installed"
Unmark ==
  /\ phase = "drop" /\ files = {}
  /\ Save(installed[Me] \ {pkg}, "extract")
  /\ UNCHANGED <<planVars, pkg, version, files, deleted, historyVars>>

\* The second half: packages.ini is what this process believes it to be.
WriteRecords ==
  /\ phase = "save"
  /\ recorded' = installed[Me]
  /\ Goto(after)
  /\ UNCHANGED <<manifest, disk, index, tableVars, planVars, pkg, version, files,
                 deleted, historyVars>>

NewFiles == Contents[pkg][version]

Extract ==
  /\ phase = "extract"
  /\ disk' = disk \cup NewFiles
  /\ Goto("unindex")
  /\ UNCHANGED <<recorded, manifest, index, tableVars, planVars, pkg, version, files,
                 deleted, historyVars>>

\* Mutant: the manifest of the new version is forgotten.
UnindexOnly ==
  /\ phase = "unindex"
  /\ index' = index \ (deleted \ NewFiles)
  /\ Goto("index")
  /\ UNCHANGED <<recorded, manifest, disk, tableVars, planVars, pkg, version, files,
                 deleted, historyVars>>

\* PutPackageManifest, into memory, and the first half of UpdateFndb.
Unindex ==
  /\ phase = "unindex"
  /\ drafts' = [drafts EXCEPT ![pkg] = version]
  /\ index' = index \ (deleted \ NewFiles)
  /\ Goto("index")
  /\ UNCHANGED <<recorded, manifest, disk, tableVars, wanted, adding, removing, followed,
                 late, reload, pkg, version, files, deleted, historyVars>>

\* Mutant: only packages that were not installed before are indexed.
IndexIfNew ==
  /\ phase = "index"
  /\ index' = IF deleted = {} THEN index \cup NewFiles ELSE index
  /\ Goto("mark")
  /\ UNCHANGED <<recorded, manifest, disk, tableVars, planVars, pkg, version, files,
                 deleted, historyVars>>

\* The second half of UpdateFndb.
Index ==
  /\ phase = "index"
  /\ index' = index \cup NewFiles
  /\ Goto("mark")
  /\ UNCHANGED <<recorded, manifest, disk, tableVars, planVars, pkg, version, files,
                 deleted, historyVars>>

\* The package is marked as installed ...
Mark ==
  /\ phase = "mark"
  /\ Save(installed[Me] \cup {pkg}, "settle")
  /\ extracted' = [extracted EXCEPT ![pkg] = version]
  /\ UNCHANGED <<planVars, pkg, version, files, deleted, broken, leftover, unwritten,
                 stale, torn>>

\* The local variables of InstallPackage and RemovePackage.
Forgotten == pkg' = None /\ version' = 1 /\ files' = {} /\ deleted' = {}

\* ... and gets its new place in the table, SetPackage and
\* IncrementFileRefCounts.  From here on its manifest is not forgotten any more,
\* but an old one may have told to remove too little.
Settle ==
  /\ phase = "settle"
  /\ known' = [known EXCEPT ![Me][pkg] = version]
  /\ ref' = [ref EXCEPT ![Me] =
       [f \in File |-> IF f \in NewFiles THEN @[f] + 1 ELSE @[f]]]
  /\ adding' = adding \ {pkg}
  /\ broken' = broken \ {pkg} /\ unwritten' = unwritten \ {pkg}
  /\ leftover' = leftover \cup ({pkg} \cap unwritten)
  /\ Goto("next") /\ Forgotten
  /\ UNCHANGED <<diskVars, loaded, installed, wanted, removing, followed, late, reload,
                 drafts, extracted, stale, torn>>
-----------------------------------------------------------------------------
(* RemovePackage and the rest of InstallRemove and UpdateDb.               *)

\* Marked as not installed first; then DropFile deletes the files.
RemovePackage(p) ==
  /\ phase = "next" /\ adding = {} /\ ~ followed /\ p \in removing
  /\ p \in installed[Me]
  /\ pkg' = p /\ files' = Contents[p][known[Me][p]] /\ deleted' = {}
  /\ Save(installed[Me] \ {p}, "delete")
  /\ UNCHANGED <<planVars, version, historyVars>>

PackageRemoved ==
  /\ phase = "delete" /\ files = {}
  /\ removing' = removing \ {pkg}
  /\ Goto("next") /\ Forgotten
  /\ UNCHANGED <<diskVars, tableVars, wanted, adding, followed, late, reload, drafts,
                 historyVars>>

\* Mutant: dependencies are looked for only once.
FollowNothing ==
  /\ phase = "next" /\ adding = {} /\ removing = {} /\ ~ followed
  /\ followed' = TRUE
  /\ Goto("next")
  /\ UNCHANGED <<diskVars, tableVars, wanted, adding, removing, late, reload, drafts, pkg,
                 version, files, deleted, historyVars>>

\* "check dependencies (install missing required packages)"
Follow ==
  /\ phase = "next" /\ adding = {} /\ removing = {} /\ ~ followed
  /\ followed' = TRUE
  /\ adding' = {p \in Closure(wanted, known[Me]) \ installed[Me] : known[Me][p] # 0}
  /\ late' = adding'
  /\ Goto("next")
  /\ UNCHANGED <<diskVars, tableVars, wanted, removing, reload, drafts, pkg,
                 version, files, deleted, historyVars>>

Done == phase = "next" /\ adding = {} /\ removing = {} /\ followed

\* package-manifests.ini is emptied ...  UpdateDb has told the table of packages
\* that it did not know.
EmptyManifests ==
  /\ Done
  /\ manifest' = Unknown
  /\ known' = IF reload
       THEN [known EXCEPT ![Me] = [p \in Package |-> IF @[p] = 0 THEN drafts[p] ELSE @[p]]]
       ELSE known
  /\ Goto("write")
  /\ UNCHANGED <<recorded, disk, index, loaded, installed, ref, planVars, pkg, version,
                 files, deleted, historyVars>>

Registers ==
  /\ holder' = "free" /\ phase' = "idle" /\ after' = "next"
  /\ wanted' = {} /\ adding' = {} /\ removing' = {} /\ followed' = FALSE
  /\ late' = {} /\ reload' = FALSE /\ drafts' = Unknown /\ Forgotten

\* ... and written.  InstallRemove releases the lock.
WriteManifests ==
  /\ phase = "write"
  /\ manifest' = drafts
  /\ IF reload THEN Goto("reload") /\ UNCHANGED <<planVars, pkg, version, files, deleted>>
               ELSE Registers /\ UNCHANGED <<newest, countVars>>
  /\ UNCHANGED <<recorded, disk, index, tableVars, historyVars>>

\* UpdateDb gets the repository manifest too, loads the table once more and
\* releases the lock.
Reload ==
  /\ phase = "reload"
  /\ LoadTable(Me)
  /\ Registers
  /\ UNCHANGED <<diskVars, newest, countVars, historyVars>>
-----------------------------------------------------------------------------
(* What can go wrong.                                                      *)

Untouched == phase \in {"idle", "next", "fetch", "write", "reload"}

\* What an abandoned job leaves behind.
Abandon ==
  /\ troubles < MaxTroubles /\ troubles' = troubles + 1
  /\ IF phase = "extract"
     THEN \E some \in SUBSET NewFiles : disk' = disk \cup some
     ELSE UNCHANGED disk
  /\ broken' = IF phase = "drop" THEN broken \cup {pkg} ELSE broken
  /\ leftover' = IF Untouched THEN leftover ELSE leftover \cup {pkg}
  /\ unwritten' = unwritten \cup {p \in Package : drafts[p] # manifest[p]}
  /\ Registers
  /\ UNCHANGED <<recorded, manifest, index, newest, jobs, extracted, stale>>

\* An exception: the client cancels the job at the next Notify, before or
\* after a package or a file; a download, the extraction or the file name
\* database fails; a required package is unknown or required more than ten
\* levels deep, or a package to be removed is not installed.  The table is kept.
Fail ==
  /\ phase \in {"next", "fetch", "drop", "delete", "extract", "unindex", "index", "reload"}
  /\ Abandon
  /\ UNCHANGED <<tableVars, torn>>

\* "cannot delete": the file has been given up in the table, but the files that
\* come after it have not.
DeletionFails(f) ==
  /\ phase = "delete" /\ f \in files /\ f \in disk /\ Released(f) = 0
  /\ ref' = [ref EXCEPT ![Me][f] = 0]
  /\ Abandon
  /\ UNCHANGED <<loaded, installed, known, torn>>

\* The holder dies; the lock file is found to be stale.
Die ==
  /\ phase # "idle"
  /\ Abandon
  /\ torn' = (torn \/ phase \in {"save", "write"})
  /\ loaded' = loaded \ {Me}
  /\ installed' = [installed EXCEPT ![Me] = {}]
  /\ known' = [known EXCEPT ![Me] = Unknown]
  /\ ref' = [ref EXCEPT ![Me] = NoRefs]
-----------------------------------------------------------------------------
Working ==
  \/ \E p \in Package : NextPackage(p) \/ RemovePackage(p)
  \/ \E f \in File : DropFile(f) \/ KeepFile(f)
  \/ Fetch \/ Unmark \/ WriteRecords \/ Extract \/ Unindex \/ Index \/ Mark \/ Settle
  \/ PackageRemoved \/ Follow \/ EmptyManifests \/ WriteManifests \/ Reload

Next ==
  \/ \E p \in Package : Release(p)
  \/ \E x \in Process : Ask(x) \/ Forget(x) \/ UpdateDb(x)
  \/ \E x \in Process, add, remove \in SUBSET Package : InstallRemove(x, add, remove)
  \/ \E f \in File : DeletionFails(f)
  \/ Working \/ Fail \/ Die

Spec == Init /\ [][Next]_vars
-----------------------------------------------------------------------------
Phases == {"idle", "next", "fetch", "drop", "delete", "save", "extract", "unindex",
           "index", "mark", "settle", "write", "reload"}

\* Every variable stays in its range; exactly the holder of the lock works.
TypeOK ==
  /\ recorded \subseteq Package /\ manifest \in [Package -> 0..MaxVersion]
  /\ disk \subseteq File /\ index \subseteq File /\ newest \in [Package -> Version]
  /\ loaded \subseteq Process /\ installed \in [Process -> SUBSET Package]
  /\ known \in [Process -> [Package -> 0..MaxVersion]]
  /\ ref \in [Process -> [File -> Nat]]
  /\ holder \in Process \cup {"free"} /\ phase \in Phases
  /\ after \in {"next", "extract", "delete", "settle"}
  /\ holder = "free" <=> phase = "idle"
  /\ wanted \subseteq Package /\ adding \subseteq Package /\ removing \subseteq Package
  /\ late \subseteq Package
  /\ {followed, reload, stale, torn} \subseteq BOOLEAN
  /\ drafts \in [Package -> 0..MaxVersion] /\ pkg \in Package \cup {None}
  /\ version \in Version /\ files \subseteq File /\ deleted \subseteq File
  /\ jobs \in 0..MaxJobs /\ troubles \in 0..MaxTroubles
  /\ extracted \in [Package -> 0..MaxVersion]
  /\ broken \subseteq Package /\ leftover \subseteq Package /\ unwritten \subseteq Package

Owned(p) == IF extracted[p] = 0 THEN {} ELSE Contents[p][extracted[p]]

EverOwned(p) == UNION {Contents[p][v] : v \in Version}

Private(p) == {f \in File : \A q \in Package \ {p} : f \notin EverOwned(q)}

\* A package that packages.ini lists has all the files that are its alone,
\* except while an update removes the old ones and when the update was cut short there.
\* A table that is out of date voids this.
RecordedFilesExist ==
  ~ stale => \A p \in recorded \ broken :
    (phase = "drop" /\ pkg = p) \/ Owned(p) \cap Private(p) \subseteq disk

\* "only delete if the reference count reached zero": a file that an installed
\* package shares with another is there as long as the package is installed.
SharedFilesKept ==
  holder = "free" /\ ~ stale => \A p \in recorded \ broken : Owned(p) \subseteq disk

\* Between two jobs every file on the disk belongs to an installed package,
\* unless an installation or removal of its package was cut short or done
\* according to a manifest of another version.
NoOrphans ==
  holder = "free" /\ ~ stale /\ ~ torn =>
    disk \subseteq UNION ({Owned(p) : p \in recorded}
                            \cup {EverOwned(p) : p \in leftover \cup unwritten})

\* The manifest of an installed package is the one of the version that was
\* installed, unless the job that did it did not come to its end.
ManifestIsOfInstalledVersion ==
  holder = "free" /\ ~ stale =>
    \A p \in recorded \ unwritten : manifest[p] = extracted[p]

\* The files of an installed package are found, once the job has indexed what it
\* has extracted.  This does not hold of a file that two packages share: the
\* update of one may take it away, together with its entry, and an installation
\* that is cut short may bring it back.
RecordedFilesAreIndexed ==
  ~ stale => \A p \in recorded : \A f \in Owned(p) \cap disk :
    \/ f \in index
    \/ phase \in {"unindex", "index"} /\ f \in NewFiles
    \/ \E q \in leftover \ {p} : f \in EverOwned(q)

\* When a job is done, the packages it was to install are installed, and so
\* are those they require in the version that was installed, as far as they are
\* known.  "We do this once": when a package that was to be removed is found to
\* be required and installed once more, nobody asks what it requires now.
DependenciesInstalled ==
  Done /\ holder # "free" => \A p \in wanted :
    \A q \in {p} \cup (IF p \in late THEN {} ELSE Requires[p][known[holder][p]]) :
      q \in recorded \/ known[holder][q] = 0
=============================================================================
