# A TLA+ model of pr-downloader

pr-downloader fetches games, maps and engines for the spring engine. This
directory holds TLA+ modules of its core, configurations that check them with
TLC, and proofs that TLAPS checks. Line numbers refer to `src/src/`.

## 1. The system

### Components, their state and operations

| component | state it keeps | operations |
|---|---|---|
| `CSdp` (Downloader/Rapid/Sdp.cpp), one rapid package | on disk `packages/<md5>.sdp`, its `.tmp`, the shared `pool/`; in memory `files` with their `download` flags, the parser (`list_it`, `file_handle`, `file_pos`, `skipped`, `cursize_buf`), `downloaded` | `download`, `downloadSelf`, `downloadStream` and the curl callback `write_streamed_data` |
| `CFileSystem` (FileSystem/FileSystem.cpp) | the disk | `parseSdp`, `fileIsValid`, `validateSDP`, `validatePool`, `removeFile`, `Rename`, `extractEngine` |
| `CFile` (FileSystem/File.cpp) | handle, new or in place, size, time, position | `Open`, `Write`, `Hash`, `Close`, `SetTimestamp` |
| `CHttpDownloader` (Downloader/Http) | nothing between calls but the `IDownload`s of the caller; in a call one `DownloadData` per transfer | `download`, `search`, catalogues of maps and engines |
| `IDownload`, `Mirror` (Downloader/Download.cpp) | state, digest, size, mirrors with status and speed, its `CFile` | `getFastestMirror`, `addMirror` |
| `CRapidDownloader`, `CRepo` (Downloader/Rapid) | `repos`, `sdps`, tags resolved through git; on disk repos.gz, versions.gz | `search`, `download`, `updateRepos`, `download_name`, `setOption` |
| `GitRapidResolver`, `GitRapidBuilder` | cached manifest; writes pool files and an .sdp | `Resolve`, `Build` |
| pr-downloader.cpp, the library | `searchres`, `downloads` | `DownloadSearch`, `DownloadAdd`, `DownloadStart`, `DownloadRapidValidate`, `SetAbortDownloads` |
| `CurlWrapper` | process-wide CA file | options of a transfer, among them the timeouts |
| rapid server tools (rapid/, BuildGit, AddZip, MakeZip, Streamer) | pool, packages, versions.gz, last commit, builds | make a package of a git commit or a zip file; answer a client's POST |
| lsl: `WorkerThread`, `WorkItemQueue` (lsl/lslutils/thread.cpp) | heap of items, `m_dying`; an item's `m_queue` | `DoWork`, `Wait`, `Push`, `Pop`, `Remove`, `Cancel`, `Process` |
| lsl: unitsync wrapper, caches, battle, ... | caches, players and bots | lobby code, not used by a download except for names and paths |

### How they interact

`DownloadSearch` asks the rapid and then the http downloader and keeps the
resulting `IDownload`s. `DownloadStart` hands the chosen ones to both, and
engines a second time to the http downloader. The rapid downloader fetches
repos.gz and every versions.gz with the http downloader, makes a `CSdp` of each
line and calls `CSdp::download` for those that match, then for what they depend
on. A `CSdp` uses the http downloader for its .sdp and a curl transfer of its
own for the pool files. curl calls back with pieces of data; another thread may
set the abort flag. All packages, all runs of the program and the validator
share one pool directory, and files found on disk decide what is downloaded.

lsl is the lobby's library in the same tree. Its `Unitsync` gives slow calls of
the unitsync library to a `WorkerThread` as jobs with priorities; a job posts an
event when it is done, and the handlers of events run on the worker.

### What is hard

* The answer of `streamer.cgi` arrives in pieces cut anywhere, also inside a
  length field.
* Objects outlive calls: a `CSdp` and an `IDownload` are used again after a
  call failed half-way, with what the failure left in them.
* A transfer that was cut is renamed into place like a complete one; the next
  run decides by existence, time or digest what it can keep.
* The curl_multi loop sees only the *number* of running transfers.
* The process may die anywhere; only the disk is left.
* Jobs are cancelled, and the worker is shut down, while it takes, runs and
  deletes them; the queue is a heap that a removal destroys.
* A tag has two sources, git and repos.gz, with three caches between them: on
  disk, in the list of packages, in the set of resolved tags. Dependencies are
  followed by name, and several packages may share one.
* Pool files come from rapid servers and from git, and may be left in part by
  either; git's are written in place.
* The server's programs run at once, without locks, on the same store that the
  streamer reads; a package is made from the difference to the one before.

`PROJECT.json` lists these hazards with their lines and the properties that
cover them.

### What makes each component correct

* `CSdp`: the parser never loses step with the server; a package reported
  finished is on disk and valid; valid pool files are never damaged; a call
  returns.
* `CHttpDownloader`: every transfer is accounted for; what it reports agrees
  with the disk; failed mirrors are passed over; a call returns and can be made
  again.
* `CRapidDownloader` and the library: git's package of a tag is found though
  repos.gz lists another; true and 0 mean that no package was left out; what was
  found stays known; every call returns.
* git resolver and builder: a resolved tag has its package, whole, and a wrong
  answer spoils no other tag's; a damaged manifest does not stay.
* server tools: whatever versions.gz lists can be streamed, at any time and after
  any failure; a package is the commit; no tag is lost.
* `WorkItemQueue`: every item runs, is cancelled or is dropped at the end, and is
  not touched after it was deleted; the most urgent one is next; `Wait` returns.

## 2. The modules

| module | what it is |
|---|---|
| `PoolStore` | abstract: what the shared pool promises |
| `SdpDownload` | `CSdp::download` with the parts of `CFileSystem` and `CFile` it uses, the streaming server, crashes |
| `SdpDownloadProofs` | its inductive invariant and theorems |
| `MCSdpDownload` | values for TLC |
| `HttpDownload` | `CHttpDownloader::download` of a batch, `getFastestMirror`, `CFile`, the web server, crashes |
| `HttpDownloadProofs` | its inductive invariant and theorems |
| `MCHttpDownload` | values for TLC |
| `JobPool` | abstract: what a thread that works off prioritised jobs promises |
| `AsyncJobs` | `WorkerThread` and `WorkItemQueue` with the jobs of `Unitsync` |
| `AsyncJobsProofs` | its inductive invariant and theorems |
| `MCAsyncJobs` | values for TLC |
| `RapidDownloader` | `CRapidDownloader` and `CRepo`: one call of search or download at a time |
| `RapidDownloaderProofs` | what its steps preserve |
| `DownloadApi` | pr-downloader.cpp over it and over the outcomes of `CHttpDownloader`; the specification that is checked |
| `DownloadApiProofs` | the inductive invariant of both and the theorems |
| `MCDownloadApi` | values for TLC |
| `GitRapid` | `GitRapidResolver` and `GitRapidBuilder` on a disk shared with rapid downloads |
| `GitRapidProofs` | its inductive invariant and theorems |
| `MCGitRapid` | values for TLC |
| `Catalog` | abstract: what a rapid repository promises its clients |
| `RapidStore` | BuildGit, AddZip and the streamer on one store |
| `RapidStoreProofs` | that `RapidStore` implements `Catalog`; the tags; the types |
| `RapidPackageProofs` | that the package under a tag is the tag's commit |
| `MCRapidStore` | values for TLC |

### SdpDownload

The variables are the members of `CSdp` under their names, the disk (`pool`,
`sdp`, `sdptmp`), the answer of the server (`srv`, `off`: how far it was
consumed) and a program counter. A pool file is `absent`, `valid` (hashes to its
name) or `broken`. Ghosts: `clean` says that all bytes written to the open file
were the right ones at their place, `stale` how many bytes of an older answer
are left in `skipped`.

| action | code |
|---|---|
| `Call` | Sdp.cpp:78-88, `downloaded`, the first `parseSdp` |
| `DownloadSelf`, `RenameSdp`, `ParseDownloaded` | 59-76, 84-86 |
| `CheckPool` | 89-120 |
| `Request` | 325-364, the POST |
| `GetLength`, `OpenNextFile`, `WriteData`, `CloseFile`, `VerifyFile` | the loop of 245-289 with 138-231 |
| `EndStream` | 366-378, `curl_easy_perform` returns |
| `RemoveSdp`, `ValidateNoSdp`, `ValidateEntry`, `ValidateDone` | 121-136, FileSystem.cpp:444-481 |
| `ValidatePool`, `NewSearch`, `Crash` | what happens between calls |

Every byte count of `GetLength` and `WriteData` is possible and `EndStream` may
follow any step that ends a callback, so all chunk boundaries and all places to
abort are covered. A file that exists is opened in place and cut to the
announced length; any other is a `.tmp` that `Close` renames.

What the server may do: its copies of some files may be damaged and of any
length; undamaged ones are sent as they are, in list order, and it sends exactly
what was asked for. An .sdp that arrives may be cut. Not in the model: an .sdp
whose gzip data is corrupt in the middle, a disk that is full (`CFile::Write`
ends the process then, which `Crash` covers).

`PoolSpec` states that all this implements `PoolStore`: a pool file shows up
under its name in one step, valid files never change, only broken ones are
removed.

### HttpDownload

The content of a file is a sequence of cells, each carrying the version of the
server's file it was copied from, so that a mixture of versions, a part and a
stale tail can be told apart, and a digest is the content itself. A modification
time is the version the server had when the file was written.

| action | code |
|---|---|
| `Call`, `SetupSkip`, `SetupFails`, `OpenFile`, `SetupFinds`, `SetupDownload`, `SetupDone` | HttpDownloader.cpp:1439-1494 with `setupDownload`, `verifyAndGetNextPieces`, `CFile::Open` |
| `Answer`, `Write`, `Finish` | what happens inside `curl_multi_perform`, 1044-1067 |
| `Perform`, `PerformFails` | the loop 1495-1525 with `processMessages` |
| `VerifySkip`, `Verify`, `VerifyDone`, `CleanupDownloads` | 1527-1538, 1400-1437 |
| `GetFastestMirror` | Download.cpp:51-87 |
| `Search`, `Publish`, `SetAbortDownloads`, `Crash` | surroundings |
| `Die` | a null `FILE*` is used (File.cpp:220) |

The program is modelled as it is built for release, without assertions. Nothing
in the repository puts pieces into an `IDownload`, so only the path for a single
piece is there.

### AsyncJobs

`m_queue` is the vector, `linked` the items whose `m_queue` pointer is set.
`worker` and `app` say where `Process` and the application's thread are, `item`
and `target` are their local variables. What happened so far (`submitted`,
`started`, `posted`, `answer`) is kept to state properties. A critical section of
`m_lock` is one step; what is outside of it is a step of its own.

| action | code (lsl/lslutils/thread.cpp) |
|---|---|
| `DoWork`, `HandlerSubmits` with `Push` | 30-39, 86-92, from the application or from an event handler |
| `CancelItem`, `RemoveItem` | 22-28 reads `m_queue` without the lock, 53-69 removes |
| `SetDying`, `NotifyAll`, `Join` | `Wait`, 71-78 and 94-102: notified after the unlock |
| `Sleep`, `WakeSpuriously`, `Take`, `SeeDying` | 123-137 |
| `StartRun` | 139-145: after the unlock, when the end may have been asked for |
| `RunReturns`, `RunThrows`, `HandlersReturn` | 145-152 with unitsync.cpp:893-970, 1103-1106 |
| `Cleanup` | 153, 162-173 |
| `Pop`, `Discard`, `PopNothing` | 156-159, the queue is emptied |

The heap functions of `<algorithm>` are external: they leave any heap of the
elements, and if the vector they are given is no heap, any order. The application
keeps the rules of the interface: it submits a job once, cancels only jobs it
kept (`toBeDeleted` is false), and submits nothing after `Wait`. A job that the
worker deletes cannot be cancelled safely by anybody, since it may be gone.

`PoolImplemented` states that this implements `JobPool`; a job's state there is
computed from where it is (`Pool == INSTANCE JobPool WITH ...`).

### RapidDownloader and DownloadApi

`RapidDownloader` has the state of `CRapidDownloader` and one action per step of
`search` and `download`; `stack` are the frames of `download_name`. Two things
are abstracted: `CSdp::download` returns true or false, and `GitRapidBuilder`
gives a package or fails. `passed` are the packages for which `CSdp::download`
returned true. That is less than "complete on disk": it returns true when the pool
files exist, broken ones too (Sdp.cpp:97, 115-119), and when the list it has just
downloaded is cut (86), as the run `SdpFinishedFilesVerified` shows. So the
properties here say which packages a result stands for, and those of
`SdpDownload` what a success stands for on the disk. `DownloadApi` makes all the calls. It has the positions
in the growing list of `DownloadStart`, `addDepends` with a search for every
dependency, and of the http downloader what a caller meets: a download that
finishes, one that ends with a closed `CFile`, or none.

| action | code |
|---|---|
| `Begin`, `End`, `Proceed` | RapidDownloader.cpp:215-228, 239-258 |
| `ResolvedBefore`, `Resolve`, `ResolveFails` | 145-189 |
| `UseCachedRepos`, `DownloadRepos`, `DownloadReposFails` | 326-407 |
| `ParseVersions`, `Updated` | 380-428, Repo.cpp:23-94 |
| `Collect` | 191-240, with `list_compare` (78-89) |
| `WalkSdp`, `WalkSdpFails`, `WalkEnds` | 91-127, 253-263 |
| `DownloadSearch`, `RapidFound`, `HttpFound` | pr-downloader.cpp:98-146 |
| `DownloadAdd`, `DownloadStart`, `StartReturns` | 224-306 |
| `AskDepend`, `NextDepends` | 245-260 |
| `RapidNext`, `RapidDone`, `RapidAll` | IDownloader.cpp:58-73 |
| `HttpDownload`, `DownloadEngine`, `HttpDies` | pr-downloader.cpp:46-69, 296 |

`list::sort` needs a strict weak ordering. Where `list_compare` is none on the
names in the list, any order may come out. `scrambled` are the tags that had
several packages in the list at such a sort: for these `GitAnswers` promises a
package of the tag, for all others git's. git's build of a tag erases its other
packages (175), so the tag is not scrambled from then on until the next such sort.

### GitRapid

`cache` is the manifest's file with its age, `text` the manifest that a call
looks its tag up in. A pool file is absent, valid, or a part, an .sdp whole or
cut, either inside an entry or after one: `parseSdp` tells these apart. Unlike
`CSdp`, the builder does not implement `PoolStore`: it writes files under their
final names. That is why the rapid downloads beside it (`RapidDownload`) and the
builder itself may find parts of each other's files.

| action | code |
|---|---|
| `TryResolveViaGit` | RapidDownloader.cpp:145-189 |
| `UseCache`, `DownloadManifest`, `OpenCache`, `WriteCache`, `UseStaleCache` | GitRapidResolver.cpp:63-78, 186-240 |
| `ParseTag`, `ParseTagFails` | 242-407 |
| `DownloadBlob` | GitRapidBuilder.cpp:145-204 |
| `SkipFile`, `KeepFile`, `OpenPoolFile`, `ClosePoolFile`, `BlobFails` | 88-122, 229-284 |
| `WriteSdp`, `RenameSdp`, `SdpFails`, `ParseSdp` | 286-385 |

The formats are tables of the instance: which nodes of a tree are below the
prefix and have a URL (those without are left out in silence,
GitRapidResolver.cpp:386), what name a path becomes. What a request for a file
brings (`data`) may be the content of any file: nothing compares it with the sha
or the size of the node, the URL is made of the path without its prefix, and an
answer that is not the expected JSON, or a file that is, is kept as it is or as
what it seems to wrap. `misled`, a history variable, has the tags for which an
answer was not the file; the properties use it, no step depends on it.

### RapidStore

`pc[r]` is where the program `r` is, `work[r]` the calls of `processRepo` it has
still to make, `archive[r]` the package it is making; `stream` is what the
streamer has announced and not yet sent. A package is a map from paths to
contents, and stands for its digest. `deviates` and `deviant` follow which
packages were made of differences that cannot be followed, `published` and
`disturbed` which tags must be there.

A difference cannot be followed (`Deviates`) when `processDiff` removes another
key than the one that is gone (a file in a submodule is added under its full path
and removed under its own, BuildGit.cpp:207; a submodule takes with it every key
that begins like it, PoolArchive.cpp:138-157), when that key was added a moment
before by the same difference, or when two paths differ in case only. What the
code does then is in the model; `PackageIsTree` speaks of the other packages, and
the run `RapidStoreIncremental` shows one of these. The calls for submodules are
made in the order of their paths: `Submodules` is the set of the sequences that
list them so, which has one element. Which of the changed submodules are entered is
open: `git_submodule_foreach` yields those of the checkout, by name, and neither
its result nor that of `git_submodule_open` is looked at (BuildGit.cpp:252-268).
`ProcessRepo` therefore enters any subset. A package that lacks one is listed like
any other and counts in `deviant`, with those built on it.

| action | code |
|---|---|
| `BuildGit`, `ProcessRepo` | BuildGit.cpp:132-269, 323-351 |
| `ReplaceVersion` | 54-74 |
| `AddZip` | AddZip.cpp:18-39 |
| `SaveArchive` | rapid/PoolArchive.cpp:59-113 |
| `LoadVersions`, `OpenVersions`, `CloseVersions` | rapid/Versions.cpp:58-126 |
| `SaveLast`, `MakeZip` | rapid/LastGit.cpp:13-45, PoolArchive.cpp:270-303 |
| `Throw`, `Fail` | an exception, a kill, at any step |
| `Announce`, `Send`, `HangUp` | Streamer.cpp:30-98 |

`CatalogSpec` states the refinement: to its clients the store is a `Catalog`,
which only ever lists packages that are there with all of their files.

## 3. What is checked

Passing runs:

| run | instance | shows |
|---|---|---|
| `SdpDownload` | files of 1 and 2 bytes, the package lists `<<a, b, a>>`, announced lengths 1 and 2 (490 thousand states) | `InStep`, `OnlyDamagedRejected`, `PassedFilesValid`, `ListNotOverrun`, `FinishedByStreamComplete`, refinement of `PoolStore`; under fairness every call returns |
| `HttpBatch` | two downloads of one cell, one with a digest (365 thousand states) | `AllProcessed`, `TrueMeansAttempted`, `NoTmpBesideFile`; under fairness every call returns |
| `HttpDigest` | one download with a digest and three mirrors, versions of 1, 2 and 1 cells (49 thousand states) | `DigestDescribesFile`, `MirrorsTakeTurns`, `FinishedStays` |
| `AsyncJobs` | one job of each of unitsync's kinds, the most urgent job and one of middling priority that can be cancelled (47 thousand states) | `Ownership`, `CancelIsHonest`, `NoneLeftBehind`, `HighestFirst`, refinement of `JobPool`; under fairness `WaitReturns` and `JobsLeaveQueue` |
| `DownloadApi` | two repositories, a game that git also has, a library in two editions of which one depends on the game again, a map that depends on the game, an engine (1.39 million states) | `TrueMeansPassed`, `GitAnswers`, `ZeroMeansPassed`, `ResultsStayKnown`; under fairness every call returns |
| `GitRapid` | two tags, three commits, two editions of the manifest, two packages of a rapid server (545 thousand states) | `ResolvedIsCommit`; under fairness `DamageHeals` |
| `RapidStore` | two programs and three starts of BuildGit, for three commits of which one brings a submodule and one cannot be built, and AddZip (208 thousand states) | `PackageIsTree`, `TagsKept`, refinement of `Catalog`; under fairness `StreamReturns` and `BuildReturns` |

Why these bounds are enough to meet the hard cases. A list of three with a
repetition has a file before and after another and a second copy written over
the first; an entry can be wanted or not in every combination. Lengths are four
bytes long in every instance, so a length field is cut at each of its places.
With two lengths a wrong one is met in both directions. Two parallel transfers
suffice for "some finish, some fail, one is left"; three mirrors for an order
among those that failed. Growing and shrinking versions give padded files,
mixtures and stale tails. Five jobs of different priority make heaps of three
levels, from which the root, a leaf or an inner element is removed.

`DownloadApi` follows dependencies to a depth of 2 instead of 10 (`RecLimit`):
the circle of game and library exceeds any depth. `MaxList` keeps the list of
packages at two that come from repositories, which is where a search already
meets the old and git's package of one tag; when more would come versions.gz is
taken as not there. One download is added at a time (`MaxAdds`), and its
dependencies make the list longer. The instance has two tags that `list_compare`
puts before each other. In `RapidStore` three starts (`MaxRuns`) give a
chain of two differences after the first build, or a build after two that
overlapped or failed; `Cuts` says that a reader sees one line of a
versions.gz that is being written, and `Wanted` that clients ask for one file,
which is in all packages. `RapidStoreIncremental` has two commits without
submodules, so that its counterexample is the renamed file and not a submodule
that was left out. `GitRapid` bounds the manifest's editions only.
Nothing else bounds the number of calls, crashes or retries: all counters in the
models are finite by themselves, `turn` because only differences are kept.

Runs that end with a counterexample. Each checks one statement of the source's
own comments, messages or assertions that the code does not keep:

| run | the shortest story |
|---|---|
| `SdpFinishedFilesVerified` | a transfer is cut, the part is renamed into the pool, the next call finds the file and reports the package as finished |
| `HttpFinishedIsComplete` | a transfer fails, its part gets the name and a fresh time, the next request is answered "not modified" |
| `AsyncEventPerJob` | a job for a map that is not in the list throws; its event is never posted |
| `ApiZeroMeansComplete` | the game arrives and is set to finished, its library does not; nobody looks at the return value, and the program says that the download is complete |
| `RapidStoreIncremental` | a file is renamed from `a` to `A`: `a` is added and then removed, and the package has neither |

### Fairness

`SdpDownload!FairSpec` says that a call, once made, goes on: the thread runs,
and curl returns from a connection that delivers nothing, because
`CurlWrapper` sets `LOW_SPEED_LIMIT`, `LOW_SPEED_TIME` and `CONNECTTIMEOUT`
(CurlWrapper.cpp:147-152). `HttpDownload!FairSpec` says the same of the calling
thread and of each transfer, `DownloadApi!FairSpec` and `GitRapid!FairSpec` of
the steps of a call (git sets `CURLOPT_TIMEOUT` as well). `GitRapid` adds that
time passes (`Age`). `AsyncJobs!FairSpec`: the worker's thread runs, jobs
and handlers end, and a `Cancel` or `Wait` that was begun goes on; nobody has to
submit or to wait, and a sleeping worker does not wake up by itself.
`RapidStore!FairSpec`: each program and the streamer, as separate processes, go
on while they can. There is no fairness on the server doing what it
should, on calls being made, or on the absence of crashes and aborts;
`DamageHeals` names what it needs of these as its own premise.

## 4. What is proved

Everything here holds for all values of the constants that satisfy the named
assumptions of the module (`SdpAssumption`, `JobsAssumption`, `HttpAssumption` and so
on: shapes and ranges of the tables, nothing about behaviour; for `RapidStore` also
`Acyclic`: no commit contains itself). Each of these
properties is also checked by TLC on the instances of section 3.

### SdpDownload

`SdpDownloadProofs` proves, for every list of pool files, every size up to
2^31-1 and every set of lengths a server may announce:

| theorem | of |
|---|---|
| `TypeCorrect` | `TypeOK` |
| `StaysInStep` | `InStep` |
| `RejectsOnlyDamaged` | `OnlyDamagedRejected` |
| `PassedAreValid` | `PassedFilesValid` |
| `ListHasNext` | `ListNotOverrun` |
| `FinishedIsComplete` | `FinishedByStreamComplete` |
| `ImplementsPool` | `PoolSpec`, refinement of `PoolStore` |

The only assumption is `SdpAssumption` on the constants: the list is not empty,
lengths fit the signed 32 bit integers the code computes with and are positive.

The argument. None of the invariants is inductive: that the parser is in step
says nothing about whether the bytes in `cursize_buf` are those the server sent.
`Inv` adds what the code relies on silently.

* `SentInv`: undamaged files are sent with their true length.
* `ShapeInv`: which handles are open at which `pc`, that an open file's position
  is within its length, where `list_it` and `srv` may point.
* `WantedInv`: a wanted file that the parser has not reached is not open, and
  only one that is listed twice can be there already.
* `InStepInv`: while no byte is stale, the parser's state is a function of the
  server's: `cursize_buf` holds the first `skipped` bytes of the length being
  sent, and so on. With the round trip of the length field (lemma
  `ParseLengthField`) this carries `InStep` through every step.
* `StaleInv`: with stale bytes, the length read first is wrong or the data is
  shifted, so the first file it closes cannot be valid: it is rejected before
  anything that was valid is touched. This is what keeps the pool safe although
  `skipped` is not reset, and what a reader of the code would doubt most.
* `ValidateInv`: `vvalid` means that all entries passed so far are valid.

There is one lemma per action and the theorems follow from `Invariance`.
`FinishedIsComplete` and `ImplementsPool` are box properties: one step lemma each
under the invariant.

### AsyncJobs

`AsyncJobsProofs` proves, for every finite set of jobs, all priorities and every
choice of jobs the application keeps (`JobsAssumption`):

| theorem | of |
|---|---|
| `TypeCorrect` | `TypeOK` |
| `JobsAreOwned` | `Ownership` |
| `CancelTellsTheTruth` | `CancelIsHonest` |
| `NothingIsLeaked` | `NoneLeftBehind` |
| `MostUrgentFirst` | `HighestFirst` |
| `ImplementsJobPool` | `PoolImplemented`, refinement of `JobPool` |

The inductive invariant `Inv` adds three things. `HeapInv`: the vector is a heap,
which the next pop relies on and which `Remove` has to restore. `ControlInv`:
which control states of the two threads go together. `PlaceInv`: a submitted
job is queued, in `Process`'s hand, deleted or kept, and before the end one that
is not queued was started or cancelled. The last is why `Cancel` may answer
"false" from an unlocked read of `m_queue`: as long as the application has not
called `Wait`, a job that is not linked can only have been started. The step
lemmas go by the three ways the vector changes (`PushFacts`, `PopFacts`,
`RemoveFacts`), the refinement by the one job each step moves (`OneMoves`).

`IsHeap` says only how a parent stands to its children. That the first element
is then the largest is the lemma `HeapTop`: of the elements larger than the first
take the one with the least index (`Least`); its parent is not larger than the
first, and not smaller than it.

### HttpDownload

`HttpDownloadProofs` proves, for any number of downloads, mirrors and versions of
any lengths (`HttpAssumption`, which also says that the mark for "no digest" is
neither a content nor the mark of an empty hash):

| theorem | of |
|---|---|
| `TypeCorrect` | `TypeOK` |
| `AllAreProcessed` | `AllProcessed` |
| `TrueWasAttempted` | `TrueMeansAttempted` |
| `TmpStandsAlone` | `NoTmpBesideFile` |
| `TurnsAreKept` | `MirrorsTakeTurns` |
| `DigestIsOfFile` | `DigestDescribesFile` |
| `FinishedIsKept` | `FinishedStays` |

The invariant `IInv` has a part for each.

* `FilesInv`: under an open `CFile` there is a `.tmp` or a file, never both.
* `SlotsInv`: the phases of a batch; a transfer that runs is of a download which is
  not finished. That is why nothing writes to a finished file.
* `CountInv`: `last` is -1 or the number of transfers whose end was not yet
  seen. curl's count only falls while the loop runs, so if it is the same as
  last time nothing has ended since, and if it is 0 everything was seen. This
  is what makes it safe to look at messages only when the count changed.
* `TriedInv`: how far the batch is.
* `TurnsInv`: until the last mirror has had its turn those that were asked are
  one ahead; a mirror with a speed belongs to a finished download, so the
  branch for the fastest one is not taken for a download that is retried.
* `DigestInv`: the digest of a finished download is of its file, or the batch
  has still to verify it. It relies on `SlotsInv` and on `Close` keeping the
  content.

That a set of mirrors has a first element, which `CHOOSE` in `GetFastestMirror`
needs, comes from the well-founded order of the naturals (lemma `Least`).

### RapidDownloader and DownloadApi

`DownloadApiProofs` proves, for every catalogue and edition, every dependency,
also circular ones, and every value of the bounds:

| theorem | of |
|---|---|
| `TypeCorrect` | `TypeOK` |
| `DownloadPassesAll` | `TrueMeansPassed` |
| `GitAnswersSearch` | `GitAnswers` |
| `ZeroIsPassed` | `ZeroMeansPassed` |
| `ResultsKept` | `ResultsStayKnown` |

`RapidDownloaderProofs` has the lemmas about the steps of a rapid call. Two parts
of the invariant carry the weight. `FrameInv` says what is known of a frame of
`download_name` half way: `CSdp::download` returned true for the packages it has
seen, and what each depends on was dealt with or is the subject of the next frame;
with the outermost frame gone, this is `TrueMeansPassed`. `FirstInv` says that of
each tag git has resolved a package comes first in the list, whatever `list::sort`
and later `updateRepos` did, and that it is git's unless the tag is in `scrambled`.
`DownloadApi` adds where a call of the application can be (`PlaceInv`) and that for
a finished download `CSdp::download` has returned true (`IdlInv`).

### GitRapid

`GitRapidProofs` proves `TypeOK` (`TypeCorrect`) and `ResolvedIsCommit`
(`ResolvesToCommit`) for all manifests, trees, paths, contents and answers. An .sdp
is parsed before it counts, its files are not looked at again: `EntriesInv` says that
the pool files of the entries made so far are whole while `Build` goes on,
`PackageInv` that the .sdp lists exactly these, `ResolvedInv` that what was
resolved before stays complete, because downloads leave valid files alone. Nothing
is assumed of what a request for a file brings: the entries have the names of the
wanted files in any case (`NamesOf`), and their contents as long as the tag is not
in `misled`, which an answer can only put the tag into that is being resolved
(`TextInv`: it does not count as resolved then).

### RapidStore

`RapidStoreProofs` and `RapidPackageProofs` prove for any number of programs and
starts, any history of commits and any contents:

| theorem | of |
|---|---|
| `ImplementsCatalog` | `CatalogSpec`, refinement of `Catalog` |
| `KeepsTags` | `TagsKept` |
| `TypeCorrect` | `TypeOK` |
| `MakesTrees` | `PackageIsTree` |
| `PlainIsFull` | `IncrementalIsFull`, for `Plain` repositories |

`WholeInv` says that all files of the package a program is making are in the pool
already, `ListingInv` that every list that may be written names packages that
are there; so a line of versions.gz is complete when it appears. For the tags
`TagInv` says who holds the list between reading and writing it, and that only
one program does as long as no two overlap. Types need `WorkInv`: there are
calls to come as long as a program compares, and only a build of a commit gets to
`SaveLast` and `MakeZip`.

`MakesTrees` has the longest argument. It assumes of commits what a hash brings
with it, that none contains itself at any depth (`Acyclic`), of a diff that it lists
a path once, of letters that a name begins with itself, and that zip files are not
tagged like commits. It says nothing of packages in `deviant`: those made from
differences that cannot be followed, or without a submodule that was left out.

1. The tree of a commit is `Flat`, a recursive function over the depth.
   `FlatFacts` shows that it is defined (`Iteration`), `FlatIsDeep` that the
   depth `PackageOf` takes, the number of commits, is enough: one level more
   changes nothing. Both are inductions on numbers (`NumberInduction`, from the
   well-foundedness of `<`, with a set in place of a predicate).
2. `KeyedFiles` is then the set of a commit's files by key: its blobs, and each
   submodule's files inside its directory (`KeyedBlob`, `KeyedSubmodule`,
   `KeyedIs`). Directories of different names have no key in common (`DirKeys`).
3. One call of `processRepo`, where the difference can be followed, puts the new
   blobs (`DiffBlob`), keeps the files of submodules that are there before and
   after (`DiffSubmodule`), leaves nothing else in its directory (`DiffRest`) and
   touches nothing outside (`DiffOutside`).
4. `Pending` is the invariant of the stack of calls: their directories are apart;
   in each the files are those of the old commit; everywhere else they are those
   of the new one. `PendingCall` shows that a call replaces itself by the calls
   for its submodules and keeps this, `FirstCall` that a build begins so, and with
   an empty stack the files are the tree (`PendingNone`).
5. `TreeInv` says for every program what it is making, at each place of the
   program, and that the listed packages and the last one are trees of their
   commits or were made of differences that cannot be followed: a later build
   starts from these, also after a program that failed or overlapped with it.

The attempt at step 3 first failed for a reason: a
commit that removes a submodule `s` and adds a file whose name begins with `s`
lost the file, because keys are compared by their letters and paths are dealt
with in order; the property had not counted that among the differences that
cannot be followed. `Deviates` does so now.

`PlainIsFull` says where the comment at BuildGit.cpp:227 holds, which the run
`RapidStoreIncremental` refutes in general: in a repository that never has a
submodule, and of whose paths, over all commits, no two differ in case only
(`Plain`). There each path has one key, so every difference can be followed
(`PlainFollowed`), no program is ever marked (`PlainInv`), and `MakesTrees` says the rest.

### Only model-checked

Liveness: `CallReturns` of three modules, `WaitReturns`, `JobsLeaveQueue`,
`DamageHeals`, `StreamReturns`, `BuildReturns`. It needs `ENABLED` under fairness,
which is out of the prover's reach. Every invariant, action property and
refinement that a passing run checks is a theorem. The theorems of the library on
induction and on functions defined by it take operators as parameters and cannot
be used either; where induction is needed (`HeapTop`, `FlatIsDeep`) it goes over a
set of numbers.

## 5. What is not modelled, and the plan

Not modelled and not planned:

* vendored libraries (7z, minizip, jsoncpp, CImg, digests): nine tenths of the
  lines of the repository, and none of them its own logic. The lines that the
  modules stand for can therefore only be a small part of all.
* archives and extraction: wrappers of those libraries.
* logging and display, the command line: no state that outlives a line.
* the path with pieces of the http downloader: nothing fills `pieces`.
* the formats of versions.gz, manifest and git trees, beyond which parts of them
  a reader tells apart.
* damage inside a gzip stream of an .sdp, at which `parseSdp` does not end
  (FileSystem.cpp:113): files are cut in the models, not flipped.
* most of lsl: lobby code that the downloader does not link.

What would come next:

1. `MruCache` (lsl/lslunitsync/mru_cache.h) with the two levels of unitsync's cache
   under the jobs of `AsyncJobs`: an image that was prefetched is found though the
   other thread evicts it, clears the cache or writes the same file.
2. `HttpDownload`'s other half: map and engine catalogues, their fallbacks and
   caches; the choice of the CA file.
3. Damaged gzip streams in `SdpDownload`.
