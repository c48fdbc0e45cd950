# MiKTeX: models, checks and proofs

TLA+ specifications of the parts of MiKTeX (the C++ TeX distribution) that are
concurrent, shared between processes or exposed to crashes. All are checked with TLC, and
every safety property that a passing run checks is also proved with TLAPS for all values of
the constants; liveness is model-checked only. Paths are relative to the
repository; `Core/` stands for `src/Libraries/MiKTeX/Core/`, `PackageManager/` for
`src/Libraries/MiKTeX/PackageManager/`. The file and the lines that each definition
stands for are in `PROJECT.json` ("map").

## 1. The system

A MiKTeX installation is a set of short-lived programs (TeX engines, drivers, the
package manager `mpm`/`miktex packages`, the console, setup) that link the same
libraries. They do not talk to each other: they share **files** in the TEXMF root
directories. Inside one program most code is sequential; threads are used for
decompression, for watching the file system, for the package installer and for the pages
that the previewer shows.

| Component | State | Operations | Works with | Hard to get right | What makes it correct |
|---|---|---|---|---|---|
| Lock file (`Core/LockFile`) | a file with pid and program name; `locked` per object | `TryLock(timeout)`, `Unlock`, garbage check | process table, package data store, maintenance | check-then-act on a file, dead owners, pid reuse | at most one holder; stale locks are reclaimed; `TryLock` returns |
| File name database (`Core/Fndb`) | base file, change file, tmp file on disk; per session a memory image, the offset applied, a "modified" flag | `Add`, `Remove`, `FileExists`/`Search`, `Create` (rebuild) | `File::Copy/Move/Delete`, file system watcher, package installer | several sessions append and replay one log, rebuild beside them, crashes | memory image = replay of base and log; index agrees with the disk; a rebuild repairs |
| Compressed streams (`Core/Stream`, `Core/Utils/Pipe.h`) | ring buffer, `done`, worker state | `Read`, `Write`, destructor; worker loop | archive extraction, downloads | two threads, condition variables, end of data, failures | all bytes, in order; a clean end is the whole file; calls return |
| File system watcher (`Core/FileSystemWatcher`) | pending notifications, subscribers, two threads | `Start`, `Stop`, `Subscribe`, `AddDirectories`, delivery | kernel (inotify), FNDB's `OnChange` | lost wakeups, shutdown, overflow | each subscriber gets every event once and in order; `Stop` returns |
| Package installer and data store (`PackageManager/`) | `packages.ini`, `package-manifests.ini`, files, FNDB; per process a table with reference counts | `InstallRemove`, `UpdateDb`, `Load`, iterators | lock file, FNDB, repositories, archives | many steps on four stores, exceptions and crashes, shared files, outdated tables | what is recorded is on disk and indexed; no orphans; dependencies are there |
| DVI page cache (`src/Libraries/MiKTeX/Dvi`) | page table with a lock per page, current page and direction, events, a kept exception | `GetLoadedPage`, `GetPageStatus`, `GetPageName`, `Dispose`; page loader, garbage collector | previewer Yap, the DVI file that TeX writes anew | recursive table lock and page locks taken in one order and given back in another, three threads, reloading | pages in use stay; a change of the file and an exception are noticed; calls return; the loader comes round |
| texify (`src/Programs/MiKTeX/texify/mcd.cpp`) | auxiliary files in the user's and the scratch directory, backups, iteration count | `Run`: `GetAuxFiles`, `RunBibTeX`, `RunIndexGenerator`, `RunTeX`, `Ready` | LaTeX, BibTeX, MakeIndex as child processes | a fixed point over files that several programs write, starting from any leftovers; a bound on rounds | when it stops, the output is final: references, citations, index |
| Package manager facade, iterators | references to the above | entry points | installer, lock file | - | - |
| Repositories and downloads | list of repositories, curl handles | pick, download, time out | installer | timeouts | - |
| Archive extraction (`Archive/`) | tar parser | `Extract` | compressed streams | truncated input | - |
| Session (`Core/Session`), configuration (`Core/Cfg`) | roots, search paths, config values | initialise, find a file, read and write `.ini` | everything | files written in place | - |
| Platform layer (`Core/Process`, `Core/File`, `unx`/`win`) | - | system calls | everything | error paths | - |
| Automatic maintenance (`App/app.cpp`), setup service (`Setup/`) | time stamps; a worker thread | refresh FNDB, install packages | lock file, installer | skipped maintenance; worker protocol | - |
| Tracing, TeX application layer, utilities, programs, third-party code | - | - | - | - | - |

The first seven are modelled; `PROJECT.json` says per component what is and what is not,
and why. The others are pure I/O or sequential glue (section 6).
`PROJECT.json` also lists the hazards of the code, each at its line, with the properties
that would notice it going wrong.

How they meet: `PackageInstaller` takes the package manager's **lock file**, downloads
and **extracts** an archive through a **compressed stream**, records the new files in
the **FNDB**; other programs' **watchers** see the FNDB's change file grow and tell
their own FNDB, which replays it at the next lookup.

## 2. The modules

    ExclusiveLock  <--implements--  LockFile  <--EXTENDS--  LockFileProofs
    ByteChannel    <--implements--  Pipe  <--EXTENDS--  CompressedStream  <--EXTENDS--  StreamProofs
    FileSystemWatcher          <--EXTENDS--  FileSystemWatcherProofs
    DviPages                   <--EXTENDS--  DviPagesProofs
    Texify                     <--EXTENDS--  TexifyProofs
    FndbChangeFile             <--EXTENDS--  FndbChangeFileProofs  --EXTENDS-->  Induction
    PackageInstaller           <--EXTENDS--  PackageInstallerProofs

`MC*.tla` and `*.cfg` give the constants values for TLC. Definitions whose comment
begins with "Mutant:" are variants of the definition that follows them, with a plausible
bug; no specification uses them. They serve to show that a property notices the bug
(`PROJECT.json`, "mutants").

### LockFile, ExclusiveLock, LockFileProofs

`LockFile` models `Core/LockFile/LockFile.cpp` together with the Unix process table.
`pc[o]` is the place of lock object `o` in `TryLock` or `Unlock`; every file system
or process table call is one action (`CheckExists`, `CreateFile`, `WriteSignature`, `ReadLockFile`,
`GetProcess`, `GetProcessName`, `GetProcessInfo`, `DeleteGarbage`, `Sleep`, `Unlink`), and its
failures are actions of their own (`CreateDenied`, `WriteFails`, `DeleteDenied`) or outcomes of it.
The owner is looked at three times, and may be gone or collected in between. `kill(pid, 0)` on a
process of another user fails with `EPERM`, and that exception leaves `TryLock` (`MaySignal` says who
may signal whom); a process whose `/proc` files may not be read (`MayRead`) is not garbage. `file` is
the lock file's content;
`attached` are the objects whose open stream still refers to the file on disk, so that
a write to an unlinked file does not appear in a new one. `Start`, `Die` and `Reap`
make pids come, become zombies and get used again, any number of times. `Expire` is the deadline.

`raced` is a history variable: one of the two check-then-act windows was hit, that is, a
file was truncated that had appeared between `File::Exists` and the open, or a file was
deleted that is no longer the garbage that the probe saw. `ExclusiveLock` is the promise
to the callers: `holders` has at most one member until `broken`; `LockFile` implements it
with `broken <- raced`.

### FndbChangeFile

`Core/Fndb/FileNameDatabase.cpp` (`Load`, `ApplyChangeFile`, `OpenChangeFileExclusively`,
`Add`, `Remove`, `FileExists`, `OnChange`, `Finalize`), `makefndb.cpp` (`Create`) and the
callers in `Core/File` that create, delete and rename files. `base`, `changes`, `tmp` and
`disk` are the files; `view`, `offset` (`changeFileSize`), `modified` and `loaded` are a
session's memory. An operation runs through the steps `load`, `stat`, `read`, `clear`
(scope guard of `ApplyChangeFile`), `open`, `lock`, `append`, and a rebuild through `scan`,
`writeTmp`, `deleteBase`, `move`, `deleteChanges`. `event` is a notification that is on its
way to the session. A session whose change file has been deleted under it writes to an
orphan.

The read loop is two recursive functions over the lines: `Starts[k]` is the offset at which
line `k + 1` starts, `Views[j]` the view after line `j`. `ReadOn` is what a session makes of
its offset: it begins at the line that starts there, or hits a malformed one in the middle of a
line. An operation (`Op`) is a record with the file, the one it is moved to, whether
`FileExists` has been answered (`phase`) and whether `Initialize` has just loaded (`fresh`).

History variables: `damaged` (the error "FNDB change file has been tampered with" or
"not found" was raised), `collided` (an update was decided on or appended with a stale
view, or a rebuild ran beside other sessions or was killed), `lost` (a notification was
cleared unread), `dirty` (files whose update was abandoned), `moved` (renamed files).
`IndexAgreesWithDisk` says what they are for: apart from files that an operation is just
working on or has given up, records and files are the same. `RefreshRepairs` needs none of
them but `collided`: an undisturbed rebuild repairs whatever was wrong.

Abstractions: a line is its kind and path; lines have length 2 (add) and 1 (remove), so
that an offset can fall into the middle of a line, where the code finds a malformed
line. One record is written per call. `RecordMaintenance`, string pooling, wildcards and
the search order are left out. Two callers do not create, rename or delete the same file
at the same time. The threads inside one session are one.

### Pipe, ByteChannel, CompressedStream

`Pipe` is `Core/Utils/Pipe.h`, statement by statement where threads can interleave:
`Lock`, `MustWait`, `FallAsleep` (between evaluating the predicate and being on the
wait list a thread is "drowsy"; for a condition variable whose waiter holds the mutex that
window is closed to notifiers that hold it too, and `Close` does not), `CopyIn`,
`CopyOut`, `ReadMore`, `SetDone`, `NotifyClosed`. The ring buffer is there with `head`,
`tail` and `size`; bytes are numbered in the order written. `ByteChannel` is the promise:
what the reader has got is a prefix of what the writer has put in, at most `Capacity`
behind.

`CompressedStream` puts the main thread (`Read`/`Write` calls, the destructor) and the
worker (`BZip2Stream`, `GzipStream`, `LzmaStream`) on the two sides. The codec is external:
good input yields all bytes, corrupt input an error, and truncated bzip2 input a decoder
that goes on reporting `BZ_OK`. Only bzip2 compresses (the others are `UNIMPLEMENTED`).

### FileSystemWatcher

`FileSystemWatcherBase.cpp` and `unxFileSystemWatcher.cpp`: `watcher` is the thread in
`select`/`read` (`ReadEvents`, `Push`, `NotifyPushed`), `notifier` the one that waits on
the condition variable and calls the subscribers (`TestDone` ... `NextEvent`), `owner` the
session that starts and stops both. The kernel queue is bounded and drops events when it
is full. `AddDirectories` is taken together with `Subscribe` (`FileNameDatabase::Initialize`
calls one after the other). Traversing the set of callbacks without its mutex while it
is changed is undefined behaviour: `torn` records it, nothing is claimed afterwards, and
the TLC constraint `MCDefined` stops there. Left out: failures of `pipe` and `write` in `Start` and
`Stop`, and the handler around the notify thread, whose only kind of subscriber (`FileNameDatabase`)
compares names and sets a flag.

### PackageInstaller

`PackageInstallerImpl.cpp`, `PackageDataStore.cpp` and `ComboCfg.cpp`. `recorded`,
`manifest`, `disk` and `index` are what lies on disk (`packages.ini`,
`package-manifests.ini`, files, FNDB); `installed`, `known` and `ref` are each process's
table, loaded once. The running job is a sequence of phases: for an installation `fetch`,
`drop` (the old files, one at a time), `save` (two steps: the file is truncated, then
written), `extract`, `unindex`, `index`, `mark`, `save`, `settle`; for a removal `save`,
`delete`; at the end the dependencies once more (`Follow`) and the manifests
(`EmptyManifests`, `WriteManifests`). `Fail` is an exception: the client cancels at a `Notify`
(before or after each package and each file), or a step fails; `Die` is the end of the process.

Abstractions: the lock is the exclusive lock that `ExclusiveLock` promises; not getting it
within ten seconds is no step. There is one scope (no user and administrator side by side),
no obsolete and no container packages, no directories, and one FNDB, a set. The archive that
is fetched is the newest one (on a digest mismatch the code reloads the repository
manifest). An abandoned extraction leaves some of the files. History variables:
`extracted` (the version installed last), `broken`, `leftover`, `unwritten` (what an
interrupted job left apart), `late` (the packages that `Follow` found missing), `stale` (a job
began with an outdated table), `torn` (a process died between truncating and writing an
`.ini` file). A package whose manifest was never written and that is updated again stays
`leftover`: the second update goes by an old manifest and may remove too little.

### DviPages

`Dvi/Dvi.cpp` (`DviImpl`) and `Dvi/DviPage.cpp` (`DviPageImpl`). Three threads run the same
actions, indexed by thread: `Status` (`GetPageStatus`), `ScanOpen`, `ScanFree`, `ScanRead`
(the three parts of `Scan`), `Load` (`DoPage`), `Get` (`GetPage`); the client also `Calls`,
`Unlock`, `SearchNext` (the searches that keep `dviMutex` from page to page), `Dispose` and
`Join`; the loader `LoaderTick` and `Render`; the collector `GcVisit`, `GcCheck`, `GcCollect`.
`owner` is the holder of the recursive `dviMutex`, `table[p].holder` that of a page's mutex,
`frozen` whether the page is loaded. `error` is the exception that a background thread
leaves for `CheckCondition`. The file has versions, of which two can bear the same time stamp,
and can be busy or gone at any step.

Abstractions: whether a second has passed since the last look, how big a page is and when it
was visited are left open. Fonts, specials, bitmaps, PostScript and the sequential mode of
access are left out. A scan reads the table in one step. Nobody sees the difference while
`dviMutex` is held; the first scan does not hold it, and the collector, which has been running since
the constructor, may look at a table that is still growing (it finds no page to free). A table that has become shorter than the page that is being loaded is
the step `Crash` (`DoPage` indexes the vector without a check).

### Texify

`mcd.cpp`, class `Driver`, for LaTeX. `files` has what of the auxiliary files the driver and
the next run depend on, in the user's directory ("start") and the scratch directory of
`--clean` ("work"); the actions `Collect`, `RunBibTeX`, `RunIndexGenerator`, `RunTeX`,
`Decide`, `Finish` are one round of the loop and its end, `TeXFails` and `GiveUp` the ways a
call fails. Between calls the user edits, runs LaTeX by hand (it may be stopped by an
error) or deletes files, so that a call starts from any leftovers. The programs are external:
`Typeset` says what a run of LaTeX prints and writes given what it reads, with page numbers
that depend on what is printed. `fits` and `misled` record that the log file is not that of the
run which wrote the `.aux` file. A BibTeX or MakeIndex run that fails leaves the old file or a part of the
new one (`Unfinished`). Of the files that are collected and compared there are `.aux` and `.idx`;
`.toc`, `.lof` and the like, which LaTeX writes and reads in the same way as `.aux`, are not told apart from
it. Texinfo and chapterbib are left out.

## 3. What is checked

| Run | Instance and bounds | Shows | Distinct states |
|---|---|---|---|
| `lockfile` | 3 processes (two of the same name; the third of another name and another user, without write permission), one object each, 2 pids | `MutualExclusionUnlessRaced`, `HolderOwnsFile`, `PermanentLockKept`, refinement `ExclusiveSpec`, `StaleLockReclaimed`, `TryLockReturns` | 40 800 |
| `lockfile_mutex` | as above, all may write | *violation* of `MutualExclusion` | - |
| `fndb_sessions` | 2 sessions, 2 files, 2 lines in the change file, 1 rebuild | `ViewIsReplay`, `DamageHasCause`, `NothingMissed`, `IndexAgreesWithDisk` | 1 340 000 |
| `fndb_repair` | 2 sessions, 1 file, 2 rebuilds | `RefreshRepairs` | 1 263 000 |
| `fndb_tampered` | as `fndb_sessions` | *violation* of `NotTampered` | - |
| `stream` | buffer of 3 bytes, calls of up to 4, 8 bytes, chunks of 2 | `ChannelSpec`, `NothingTruncated`, `CallReturns`, `DestructorReturnsUnlessLost` | 11 000 |
| `stream_hang` | the same, good files only | *violation* of `DestructorReturns` | - |
| `fs_watcher` | 2 subscribers, 3 events, kernel queue of 2, one start | `NoEventSkipped`, `NotifierDoesNotOversleep`, `ChangeIsNoticed`, `StopReturns` | 202 000 |
| `packages` | 2 processes, 2 packages (one with 3 versions, one with 1), 4 files, 3 jobs, 1 death or exception | `RecordedFilesExist`, `NoOrphans`, `ManifestIsOfInstalledVersion`, `RecordedFilesAreIndexed`, `DependenciesInstalled` | 2 162 000 |
| `packages_shared` | the same without trouble | *violation* of `SharedFilesKept` | - |
| `dvi_pages` | 2 pages, the file written once again with 1 page, window of 2, all operations | `PageInUseStays`, `NoChangeMissed`, `NoErrorLost`, `CallsReturn`, `PrefetchComesRound` | 465 000 |
| `texify` | 1 key, 1 index entry, 5 iterations | `OutputIsFixpoint`, `CitationsResolved`, `IndexIsCurrent`, `SettlesInTime` | 2 156 000 |

Each module's own comment states each property in words. `TypeOK` is checked in every
component.

**Bounds.** They are chosen so that the interesting case occurs and can occur again.
Two pids for three processes force reuse; two processes of one name and a third of another
separate "same pid, same program" from "same pid, other program", and from "same pid, other
user". How often processes start and die is not bounded: the lock file's state space is finite as
it is. A buffer of 3 under 8 bytes
wraps around more than once, and calls of 4 are longer than the buffer. Two lines of
lengths 2 and 1 are enough for an offset in the middle of a line, and the bound
on records limits the change file between two rebuilds, not the run. A kernel queue of 2
under 3 events overflows. Package `a` gives up a file that `b` shares, gains one, and
comes to require `b` in its second version, and has the shared file again in its third;
three versions are needed for an update of what an interrupted update has left, and
the state constraint `FewReleases` keeps `b` at one. 3 jobs let a job run, be interrupted and be
done again. Two pages and one new version of the file
are enough for a page that is gone, a window that is left and two threads in one page. In
`texify` five iterations are the default of `--max-iterations`, and edits, runs by hand and calls
are not bounded at all; with a limit of four `SettlesInTime` fails. `MCCanRecover` stops TLC where a
collision has happened and no further rebuild is within the bound: after a collision
nothing is claimed before the next rebuild.

**Deadlock** is checked in the lock file, FNDB, DVI and texify runs. Elsewhere `CHECK_DEADLOCK FALSE` because the
system may really stop: the watcher has been started as often as the bound allows, the jobs have
run out, a stream is gone, or threads hang in the way the violations show.

**Exceptions inside properties.** A property that names a history variable (`raced`,
`collided`, `lost`, `torn`, `stale`, `unwritten`, ...) claims nothing once the window was hit that the
variable records. Each of these exceptions is needed: without it TLC finds an execution in
which the code breaks the property. `CallReturns` excepts a worker that has failed (the
code hangs there, since a failing worker does not close the pipe). The stale lock file of
`StaleLockReclaimed` is one with a pid in it: an empty one is never reclaimed, because
`std::stoi` throws. The property excepts a `TryLock` that ends with an exception (the dead owner's
pid is one's own, or that of another user's process, or the process goes away while its `/proc`
file is opened), one that may not see whose pid it is, and one whose zombie is collected between
the second and the third look. `TryLockReturns` has the hypothesis that only finitely many
processes die: nothing in the garbage branch limits how often a `TryLock` deletes the file of
another dead process, and without the hypothesis TLC shows one that goes on for ever. `CallsReturn` counts `Crash` as an end of the call. `CitationsResolved`
excepts a log of another run and documents whose pages never move, `IndexIsCurrent` documents
without index entries, `SettlesInTime` documents whose pages move in every run.

**Fairness.** *Lock file*: weak fairness of each object's next step and of the clock;
nobody need call, die or start. *Streams*: weak fairness of each thread's step, strong
fairness of getting the mutex (it is free again and again, and the other thread cannot keep it) and
of the codec's progress. *Watcher*: weak fairness of the three threads, strong fairness of
getting `notifyMutex`. Wakeups without a reason may happen and are never relied on.
*DVI pages*: weak fairness of the client's calls and of both background threads, strong fairness of entering `dviMutex`: the loader and
the collector give it back and wait on `hByeByeEvent` before they take it again, so the
client meets it free again and again. FNDB, the installer and texify make no liveness
claims; `SettlesInTime` is a bound, hence safety.

## 4. Where the code and its own claims disagree

* `lockfile_mutex`: two lock objects hold the lock, through either of the races above
  (`LockFile.cpp:118`, `:148`); the callers tell the user that another program has locked
  "exclusevily".
* `fndb_tampered`: the change file is applied before the exclusive lock is taken; what another
  session appends in between is counted by nobody, and "FNDB change file has been
  tampered with" is raised though only MiKTeX has written to it.
* `stream_hang`: `Close` (`Pipe.h:45`) sets the flag and notifies without the mutex; a
  worker that has just found the buffer full sleeps on, and the destructor waits for it for ever.
* `packages_shared`: `Load` (`PackageDataStore.cpp:292`) asks the parsed manifest, which has
  no install time, whether the package is installed, so it counts no references to
  shared files; removing one package deletes files that another one needs.

Behaviour that the models have as well, without a run of its own, because nothing in the
repository states the opposite in so many words, or because a property already has the exception:

* a rebuild deletes the change file while other sessions have it open or have applied part of it;
  what they append to the deleted file is counted, so that their offset lies behind the end of
  the next change file and the assertion `newChangeFileSize > changeFileSize`
  (`FileNameDatabase.cpp:471`) fails (`ChangeFileGrows`; `DamageHasCause` says that it takes such a
  collision). A release build finds nothing to read there and goes on (`ReadOn`);
* a stale lock file whose pid another user's process has inherited makes every `TryLock` throw
  (`unxProcess.cpp:606`; `StaleLockReclaimed` excepts it);
* after a rescan the DVI page table can be shorter than the page that is about to be loaded;
  `DoPage` (`Dvi.cpp:651`) indexes it all the same (`Crash`);
* when the last `\index` is removed from a document, the empty `.idx` file is skipped and the
  old index is printed again (`IndexIsCurrent` excepts it);
* texify decides by the log file whether BibTeX is needed, and the log can be that of another
  run; in a document whose pages never move it also stops one round short when a run
  resolves citations and loses them again (`CitationsResolved` excepts both);
* a failing worker of a stream does not close the pipe, and main waits for ever
  (`CallReturns` excepts it).

## 5. What is proved

All theorems hold for every value of the constants that satisfies the `ASSUME`s of the
module (positive sizes, functions of the right type; TLC evaluates them in every run) and
every number of steps. The bounds `Max...` are constants too, so "every bound" includes every
one that TLC cannot reach.

| Module | Theorem | Statement |
|---|---|---|
| `LockFileProofs` | `TypeCorrect` | `Spec => []TypeOK` |
| | `MutualExclusionTheorem` | `Spec => []MutualExclusionUnlessRaced` |
| | `HolderOwnsFileTheorem` | `Spec => []HolderOwnsFile` |
| | `PermanentLockTheorem` | `Spec => PermanentLockKept` |
| | `Refinement` | `Spec => ExclusiveSpec` |
| `StreamProofs` | `TypeCorrect` | `Spec => []TypeOK` |
| | `NothingTruncatedTheorem` | `Spec => []NothingTruncated` |
| | `ChannelTheorem` | `Spec => ChannelSpec` |
| `FileSystemWatcherProofs` | `TypeCorrect` | `Spec => []TypeOK` |
| | `NoOversleepTheorem` | `Spec => []NotifierDoesNotOversleep` |
| | `NoEventSkippedTheorem` | `Spec => []NoEventSkipped` |
| `DviPagesProofs` | `TypeCorrect` | `Spec => []TypeOK` |
| | `PageInUseTheorem` | `Spec => []PageInUseStays` |
| | `NoChangeMissedTheorem` | `Spec => []NoChangeMissed` |
| | `NoErrorLostTheorem` | `Spec => []NoErrorLost` |
| `TexifyProofs` | `TypeCorrect` | `Spec => []TypeOK` |
| | `FixpointTheorem` | `Spec => []OutputIsFixpoint` |
| | `IndexTheorem` | `Spec => []IndexIsCurrent` |
| | `CitationsTheorem` | `Spec => []CitationsResolved` |
| | `SettlesTheorem` | `MaxIterations >= 5` implies `Spec => []SettlesInTime` |
| `FndbChangeFileProofs` | `TypeCorrect` | `Spec => []TypeOK` |
| | `ViewTheorem` | `Spec => []ViewIsReplay` |
| | `DamageTheorem` | `Spec => []DamageHasCause` |
| | `NothingMissedTheorem` | `Spec => []NothingMissed` |
| | `IndexTheorem` | `Spec => []IndexAgreesWithDisk` |
| | `RefreshTheorem` | `Spec => RefreshRepairs` |
| `PackageInstallerProofs` | `TypeCorrect` | `Spec => []TypeOK` |
| | `RecordedFilesExistTheorem` | `Spec => []RecordedFilesExist` |
| | `RecordedFilesAreIndexedTheorem` | `Spec => []RecordedFilesAreIndexed` |
| | `ManifestTheorem` | `Spec => []ManifestIsOfInstalledVersion` |
| | `NoOrphansTheorem` | `Spec => []NoOrphans` |
| | `DependenciesTheorem` | `Spec => []DependenciesInstalled` |
| `Induction` | `SetInduction`, `LeastNumber` | induction over the natural numbers |

Each inductive invariant was checked with TLC as an invariant before it was proved.

**Lock file.** `TypeOK` is inductive, and its last conjunct (only a running process has an
object in the middle of something) is what ties objects to live processes. Mutual exclusion
is not inductive: that two objects are not both "held" says nothing of an object that has
created the file and not yet written it. The invariant is `ClaimInv`: unless raced, an object
in "write" is attached to an empty file, the file of an object in "held" or "unlink" is the
signature of its process, and at most one object is in any of these steps (a *claim*). It
is preserved because a claim is entered only by `CreateFile` on an absent file (otherwise it
is a race), and because neither an empty file nor the signature of a running process is
garbage (`NotGarbage`), so that a deletion of either is a race. `PermanentLockTheorem` and
`Refinement` follow from the same invariant, step by step.

**Streams.** That the pipe is a channel rests on `RingInv`: the byte in slot
`(head + k) % Capacity` is number `Len(received) + 1 + k` for `k < size`, the slot after the
last is `tail`, and `sent = Len(received) + size`. A copy that is split at the end of the buffer
is two runs of the same numbering (`TakenInOrder` and its counterpart for `CopyIn`); every step of the
pipe is then a step of `ByteChannel` or a stutter. `NothingTruncated` needs to know who may
close the pipe: while main reads, only a worker that has handed over a whole good file
(`ReadingInv`); while main writes, only main, and the worker asks until the pipe is closed and
empty (`WritingInv`). `EmptiedInv` connects the two: a read that comes back short has
emptied the buffer.

**Watcher.** `PlaceInv` and `WakeInv` say where the threads can be with respect to each other: a
sleeping notify thread and a filled pending list mean that the watch thread is still handling a
batch and will notify. For the order of events, `OrderInv` says that the kernel's queue, the
batch, the pending list and the notifications under delivery are consecutive runs of event
numbers that join up, and `LogInv` that each subscriber's log is a run that joins up with
them, one further for those that the running delivery has visited. No run alone is
inductive: each step moves a piece from one end of one to the other end of the next.

**DVI pages.** The invariant says who holds what: whoever is inside `GetLoadedPage` holds
`dviMutex` (`OwnerInv`; the first scan does not, but then the loader still waits for
`hScannedEvent`, and the collector finds no loaded page, `CreateInv`), and what a thread has seen there stays true until it returns the page, and
from then on as long as it uses the page (`SeenInv`). It is kept because all other threads spare locked
pages (`SparesPages`), and spare the whole table while somebody is inside (`SparesTable`); the
collector and a scan lock a page, or find it free, before they take it away. `NoChangeMissed`
needs only that the time stamp that is remembered never runs ahead of the file's (`TimeInv`) and
that `Scan` reads an emptied table; `NoErrorLost` is kept by `GcCheck`, which moves the exception
from the flag to the dying collector, and `GcDies`, which moves it back.

**texify.** That `Ready` finds nothing changed says something about names and contents of
files at two moments; the theorems need what happened in between. The invariant says it
place by place in the loop: until LaTeX is run the backup is up to date (`BackedUp`), an
`.idx` file was found exactly when the one that was backed up is not empty (`IndexWanted`)
and the `.ind` file is made from it (`IndexMade`), what LaTeX has written and printed is what
it makes of what it has read (`MadeFromRead`), and at the end files and backup are the same
(`Unchanged`): so what it has read is what is there now, and another run changes nothing.
For citations, a log that is of the run which wrote the `.aux` file says if some were
missed (`LogFits`), and `RunBibTeX` has then made the bibliography of this `.aux` file
(`CitationsSeen`).

`SettlesInTime` counts the rounds. `Found(n)` says what a round finds after `n` others, and
`Prepared(n)` what there is when it has run BibTeX: after one, `.aux` and `.idx` are of this
document and list the bibliography that there is (`Written`, `Listed`); after two, the index
has its entries, and BibTeX has made the bibliography, is going to, or need not; after three
it has, or nothing moves; after four nothing moves (`Settled`: LaTeX would put the label on the
page on which it is), so that the fifth changes nothing and `Ready` says so. The longest way
is that of leftovers whose `.aux` file satisfies all citations while the `.bbl` file does not:
the log of the first round misses nothing, and BibTeX is run as late as in the third. The
hypothesis is met by the default limit, which is five; with four TLC finds those leftovers.

**File name database.** The inductive invariant `IInv` has nine parts, proved one after
the other. `Operating` says what each step knows of its operation (who appends has its
database in memory, who rebuilds has not), `FilesInUse` that the files of an operation are its
own and whether they exist. The others are about the time in which nobody is in the way:
`Free`, that is not `collided` and no rebuild past its scan. `Readable` is
`ViewIsReplay` together with the reason why it stays true, that no line of the change
file removes what is not there; `Appending`, that whoever holds the exclusive lock is up to
date and alone; `Recorded`, that the record of a file which an operation is about to remove is
in the index, and that index and disk agree on all others. These three need each other: a line
can be read because the one who wrote it was up to date and found the record in its view; its
view was the index because all lines could be read. `Rebuilt` carries the
argument through a rebuild, in which none of the three holds: nobody else has anything in
memory, and the file that is being written lists the disk. `AfterRebuild` makes `Free` and
all the rest of it out of that, whatever was wrong before, and `RefreshTheorem` is its
last step. `Undamaged` and `Notified` follow from `Readable`.

Two lemmas bear most of the weight. `ReadToEnd`: a session that has applied `k` lines, and reads
on in a file without bad lines, has applied all of them. `AppendLine`: a line more leaves all
offsets and views before it as they were. Both are about recursive functions over lines of any
number. The theorem on induction in the library takes an operator as a parameter, which the
installed provers cannot instantiate; `Induction` has one that takes a set, derived
from the theorem that a well-founded relation has minimal elements (`WFMin`).
`StartsDef` and `ViewsDef` use it to show that the recursive definitions mean what they
say. The proof also showed that `ViewIsReplay`
and `RefreshRepairs` need no exception but `collided`: lost notifications, abandoned updates and
deaths in the middle of one do not matter to them.

**Package installer.** What is between the stores is different at each stage of a job. `IInv`
says, stage by stage, what is left to be done. `Stage` is where the job is or
will be when `packages.ini` has been written, `Believed` what is installed according to whoever has
the say (the holder's table, or `packages.ini` when the lock is free), `Drafted` likewise for the
manifests. `Registered` and `Progress` are about the registers of the job and how far the disk,
the index and the draft have come; `Synchronised`, `Manifests`, `AllIndexed`
and `AllExist` are the properties, in terms of these. `NoOrphans` rests on the reference counts:
`Counted` bounds each from above by the number of installed packages that claim the file,
less those of the job that are already released, unless the file is of a package that
something went wrong with (`Excused`). Only an upper bound holds, since `Load` counts no
references at all; so no file stays that should go, while one that should stay can go
(`packages_shared`). Hence what is on the disk is `Accounted` for. `Following` says of the
dependencies that what is missing is going to be added. The assumptions are the types of the
constants and that there are finitely many packages.

The attempt to prove two of the invariants failed for a reason: with two versions of every package TLC
had not seen that they are false. A third version that brings a shared file back breaks
the index (`RecordedFilesAreIndexed` now excepts files of another package whose installation or
removal was cut short), and an update of a package that an interrupted update has left goes by an
old manifest and leaves a file behind (`NoOrphans` now excepts such packages, `leftover`).
The same for `DependenciesInstalled`: a package that was to be removed and is
required after all is installed anew, perhaps in a version that requires more, and
`PackageInstallerImpl.cpp` does this "once" (`late` records it; it takes a third package, which
the instance of the run does not have, for TLC to need the exception). The instance now has three
versions. In the other direction, the proof of `ManifestIsOfInstalledVersion` showed that the
property holds even when a process dies in the middle of writing an `.ini` file, which it used to
except.

**Only model-checked**: liveness (`StaleLockReclaimed`, `TryLockReturns`, `CallReturns`,
`DestructorReturnsUnlessLost`, `ChangeIsNoticed`, `StopReturns`, `CallsReturn`,
`PrefetchComesRound`), since fairness and `ENABLED` are out of the prover's reach. The
violations are TLC's by nature.

## 6. Plan, and what is not modelled

Done, in this order: lock file with its abstract specification and proofs; FNDB; pipe, channel
and streams; watcher; package installer; DVI page cache; texify; proofs about streams,
watcher, page cache, texify, package installer and FNDB.

Next proofs: the safety half of the liveness properties, that is, that whoever waits is
owed a wakeup by somebody who can take a step (`CallReturns`, `StopReturns`, `CallsReturn`), and that
each turn of the garbage branch takes a file that a dead process has left
(`TryLockReturns`).

Not modelled, and why:

* *Automatic maintenance* (`App/app.cpp`): whether it runs is decided by time stamps with a
  resolution of one second, and the code promises nothing about it; the lock it takes with
  timeout 0 is `LockFile`'s.
* *Worker threads of installer and setup service*: a flag, a callback and a join around the
  sequential installer. No program in the repository calls the asynchronous functions
  (`InstallRemoveAsync` and the like), and `GetProgressInfo` is called from the callbacks, which
  run on the worker.
* *Two threads of one session in the FNDB*, and the watcher composed with it: `OnChange`
  works on the session without a lock, which is undefined behaviour at the level of the
  hash table, so that a model could only say "anything can happen" (listed under
  hazards). The delivery of events to the session is in `FndbChangeFile` (`event`).
* *User and administrator scopes* side by side in the installer: two sets of tables that are
  merged by rules of precedence; sequential, and a state space beyond TLC's reach together
  with what is modelled.
* *Downloads*: the choice of a repository and the reading from libcurl; the installer's
  `Fail` stands for all their failures.
* Parsers, writers, path names, version numbers, user interfaces: pure functions and I/O.
* Third-party code, TeX engines, drivers and converters (most of the repository's lines) are
  maintained elsewhere or generated.

## 7. Running

    tlc -config MCLockFile.cfg MCLockFile      # and likewise for the other .cfg files
    tlapm LockFileProofs.tla                   # and likewise StreamProofs, FileSystemWatcherProofs,
                                               # DviPagesProofs, TexifyProofs,
                                               # FndbChangeFileProofs (three minutes),
                                               # PackageInstallerProofs, Induction
