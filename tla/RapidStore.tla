------------------------------- MODULE RapidStore ------------------------------
(***************************************************************************)
(* The rapid server's store and the programs on it: BuildGit makes a       *)
(* package of a git commit, from the difference to the commit it made one  *)
(* of last; AddZip makes one of a zip file; the streamer sends files of a  *)
(* package (src/src/BuildGit.cpp, AddZip.cpp, Streamer.cpp, rapid/).       *)
(*                                                                         *)
(* Several programs run at once, and each may end at any point, killed or  *)
(* by an exception.  Pool files, packages and the last commit are written  *)
(* to a temporary file that is renamed, versions.gz is written in place.   *)
(* A package is the map from paths to contents it lists, which stands for  *)
(* its digest.                                                             *)
(***************************************************************************)
EXTENDS Integers, Sequences, FiniteSets

CONSTANTS
  Programs,     \* programs that may run at once
  Names,        \* paths inside a git repository
  DiffOrder,    \* the Names as a diff has them, sorted by path
  Lower,        \* Lower[n]: n in lower case
  Begins,       \* pairs <<n, m>>: the letters of n begin with those of m
  Blobs,
  Commits,      \* of the repository and of its submodules
  Tree,         \* Tree[c][n]: the blob, or the submodule's commit, at n
  Main,         \* the commits packages are made of
  Modinfo,      \* modinfo.lua
  Stuck,        \* blobs with $VERSION at the beginning or twice in a row
  Branch,       \* Branch[c]: Stable or Test, said by the commit message
  Version,      \* Version[c]: what replaces $VERSION
  Stable, Test,
  Zip,          \* a zip file's content: paths in lower case to blobs
  ZipTags,
  TagOrder,     \* all tags, in the order of std::map
  None,
  Wanted,       \* bound: the files clients ask for
  Cuts,         \* bound: how many tags versions.gz is cut to
  MaxRuns       \* bound on the programs that are started

Tags == Main \cup {Stable, Test} \cup ZipTags

ASSUME StoreAssumption ==
  /\ Blobs \cap Commits = {} /\ Main \subseteq Commits
  /\ DiffOrder \in Seq(Names) /\ \A n \in Names : \E i \in DOMAIN DiffOrder : DiffOrder[i] = n
  /\ \A i, j \in DOMAIN DiffOrder : DiffOrder[i] = DiffOrder[j] => i = j
  /\ Lower \in [Names -> Names] /\ Modinfo \in Names /\ \A n \in Names : <<n, n>> \in Begins
  /\ \A c \in Commits :
       DOMAIN Tree[c] \subseteq Names /\ \A n \in DOMAIN Tree[c] : Tree[c][n] \in Blobs \cup Commits
  /\ Branch \in [Main -> {Stable, Test}]
  /\ DOMAIN Zip \subseteq Seq(Names) /\ \A p \in DOMAIN Zip : Zip[p] \in Blobs
  /\ \A t \in Tags : \E i \in DOMAIN TagOrder : TagOrder[i] = t
  /\ Stable \notin Main \cup ZipTags /\ Test \notin Main \cup ZipTags \cup {Stable}
  /\ None \notin Commits /\ ZipTags \cap Main = {} /\ MaxRuns \in Nat

\* A hash is made of what it stands for: no commit contains itself, at any depth.
ASSUME Acyclic ==
  /\ IsFiniteSet(Commits)
  /\ \E rank \in [Commits -> 1..Cardinality(Commits)] :
       \A c \in Commits : \A n \in DOMAIN Tree[c] :
         Tree[c][n] \in Commits => rank[Tree[c][n]] < rank[c]

\* What a pool file holds; its name is the md5 of that.
Raw(b) == [blob |-> b, version |-> None]
Contents == [blob : Blobs, version : {Version[c] : c \in Main} \cup {None}]

\* Lists of files.  Paths are sequences: a submodule's path, then the path in it.
Paths == Seq(Names)
IsPackage(p) == DOMAIN p \subseteq Paths /\ \A q \in DOMAIN p : p[q] \in Contents
FilesOf(p) == {p[q] : q \in DOMAIN p}
Empty == << >>

VARIABLES
  (* the store *)
  pool,         \* pool[f]: the file of that content
  packages,     \* what packages/ holds
  versionsgz,   \* what can be read of versions.gz, and who has written it
  last,         \* last-git: the commit, and the package made of it
  builds,       \* the zip files in builds/
  (* the programs *)
  pc,
  job,          \* the commit, or None for the zip file
  archive,      \* PoolArchiveT: the package being made
  work,         \* the calls of processRepo to come
  versions,     \* VersionsT
  deviates,     \* whether the differences so far could not be followed (history)
  stream,       \* the streamer: what it has announced and not sent
  (* history *)
  deviant,      \* the packages made of differences that could not be followed
  disturbed,    \* whether programs overlapped or one ended while saving
  published,    \* the tags that were saved, as long as nothing was disturbed
  runs          \* how many programs were started

storeVars == <<pool, packages, versionsgz, last, builds>>
programVars == <<pc, job, archive, work, versions, deviates>>
historyVars == <<deviant, published, disturbed, runs>>
vars == <<stream, programVars, storeVars, historyVars>>

\* Calls of processRepo; without an old commit they start from the empty tree.
Calls == [old : Commits \cup {None}, new : Commits, at : Paths]

TypeOK ==
  /\ pool \in [Contents -> {"absent", "part", "whole"}]
  /\ \A p \in packages : IsPackage(p)
  /\ DOMAIN versionsgz.entries \subseteq Tags /\ versionsgz.bad \in BOOLEAN
  /\ versionsgz.mixed \in BOOLEAN
  /\ last # None => last.commit \in Main /\ IsPackage(last.package)
  /\ \A z \in builds : z.version \in {Version[c] : c \in Main} /\ IsPackage(z.package)
  /\ pc \in [Programs -> {"off", "diff", "replace", "save", "load", "list", "saving",
                          "last", "zip"}]
  /\ job \in [Programs -> Main \cup {None}]
  /\ \A r \in Programs : IsPackage(archive[r]) /\ work[r] \in Seq(Calls)
  /\ \A r \in Programs : DOMAIN versions[r] \subseteq Tags
  /\ stream \subseteq [file : Contents, size : {"part", "whole"}]
  /\ deviates \in [Programs -> BOOLEAN] /\ deviant \subseteq packages
  /\ published \subseteq Tags /\ disturbed \in BOOLEAN /\ runs \in 0..MaxRuns

----------------------------------------------------------------------------
(* processRepo *)

LowerPath(q) == [i \in DOMAIN q |-> Lower[q[i]]]

\* removePrefix looks at letters, not at directories.
HasPrefix(q, prefix) ==
  LET n == Len(prefix) IN
  /\ Len(q) >= n
  /\ \A i \in 1..(n - 1) : q[i] = prefix[i]
  /\ <<q[n], prefix[n]>> \in Begins
Inside(q, dir) == Len(q) > Len(dir) /\ SubSeq(q, 1, Len(dir)) = dir

TreeOf(c) == IF c = None THEN Empty ELSE Tree[c]

BlobAt(c, n) == n \in DOMAIN TreeOf(c) /\ TreeOf(c)[n] \in Blobs
SubmoduleAt(c, n) == n \in DOMAIN TreeOf(c) /\ TreeOf(c)[n] \in Commits

\* The paths whose entries differ.
Diff ==
  [old \in Commits \cup {None} |-> [new \in Commits |->
     {n \in DOMAIN TreeOf(old) \cup DOMAIN Tree[new] :
        ~(n \in DOMAIN TreeOf(old) /\ n \in DOMAIN Tree[new] /\ TreeOf(old)[n] = Tree[new][n])}]]
Deltas(call) == Diff[call.old][call.new]

FullPath(call, n) == LowerPath(Append(call.at, n))

\* Mutant of Adds: a submodule is added like a file.
AddsCommits(call, n, q) == n \in DOMAIN Tree[call.new] /\ q = FullPath(call, n)

\* The key under which a delta adds a file, and whether it removes the key q
\* before: a file by its path inside the submodule, a submodule with all that
\* begins like it.
Adds(call, n, q) == BlobAt(call.new, n) /\ q = FullPath(call, n)
Removes(call, n, q) ==
  \/ BlobAt(call.old, n) /\ ~BlobAt(call.new, n) /\ q = LowerPath(<<n>>)
  \/ SubmoduleAt(call.old, n) /\ ~SubmoduleAt(call.new, n) /\ HasPrefix(q, FullPath(call, n))

\* The deltas of a call are dealt with in the order of their paths: the last one
\* that says something about a key decides.
Touching(call, q) ==
  {i \in DOMAIN DiffOrder : DiffOrder[i] \in Deltas(call) /\
                            (Adds(call, DiffOrder[i], q) \/ Removes(call, DiffOrder[i], q))}
Decides(call, q) ==
  LET T == Touching(call, q) IN DiffOrder[CHOOSE i \in T : \A j \in T : j <= i]
Comes(call, q) ==
  LET T == Touching(call, q) IN
  \E i \in T : (\A j \in T : j <= i) /\ Adds(call, DiffOrder[i], q)

Keys(call, files) == DOMAIN files \cup {FullPath(call, n) : n \in Deltas(call)}
AddedFile(call, q) == Raw(Tree[call.new][Decides(call, q)])

\* Mutant of ProcessDiff: what is there is not overwritten.
ProcessDiffKeeping(call, files) ==
  LET Stays(q) == q \in DOMAIN files /\ \A i \in Touching(call, q) : ~Removes(call, DiffOrder[i], q)
  IN [q \in {k \in Keys(call, files) : Stays(k) \/ Comes(call, k)} |->
        IF Stays(q) THEN files[q] ELSE AddedFile(call, q)]

ProcessDiff(call, files) ==
  LET Stays(q) == q \in DOMAIN files /\ Touching(call, q) = {}
  IN [q \in {k \in Keys(call, files) : Stays(k) \/ Comes(call, k)} |->
        IF Stays(q) THEN files[q] ELSE AddedFile(call, q)]

NewFiles(call) == {Raw(Tree[call.new][n]) : n \in {m \in Deltas(call) : BlobAt(call.new, m)}}

\* The difference cannot be followed: another key is removed than the one that
\* is gone, even one that was just added, or paths differ in case only.
Deviates(call, files) ==
  \/ \E n \in Deltas(call) : \E q \in DOMAIN files : Removes(call, n, q) /\
       (IF BlobAt(call.old, n) THEN q # FullPath(call, n) ELSE ~Inside(q, FullPath(call, n)))
  \/ \E n \in Deltas(call) : BlobAt(call.new, n) /\ ~Comes(call, FullPath(call, n))
  \/ \E n \in Deltas(call) :
       BlobAt(call.old, n) /\ ~BlobAt(call.new, n) /\ FullPath(call, n) # LowerPath(<<n>>)
  \/ \E n \in DOMAIN TreeOf(call.old) \cup DOMAIN Tree[call.new] :
       \E m \in DOMAIN TreeOf(call.old) \cup DOMAIN Tree[call.new] : m # n /\ Lower[m] = Lower[n]

\* The ways to go through the positions K in order (there is one).
InOrder(K) ==
  {f \in [1..Cardinality(K) -> K] :
     /\ \A i, j \in DOMAIN f : i < j => f[i] < f[j]
     /\ \A k \in K : \E i \in DOMAIN f : f[i] = k}

\* The submodules that changed, and the calls for those that are entered, S.
Enters(call, n) == n \in Deltas(call) /\ SubmoduleAt(call.new, n)
Changed(call) == {n \in Deltas(call) : Enters(call, n)}
Enter(call, n) ==
  [old |-> IF SubmoduleAt(call.old, n) THEN TreeOf(call.old)[n] ELSE None,
   new |-> Tree[call.new][n], at |-> Append(call.at, n)]
Submodules(call, S) ==
  {[i \in DOMAIN f |-> Enter(call, DiffOrder[f[i]])] :
     f \in InOrder({i \in DOMAIN DiffOrder : DiffOrder[i] \in S})}

----------------------------------------------------------------------------
(* Files and maps *)

\* Mutant of CommitFiles: pool files are written in place.
CommitInPlace(F) ==
  \E s \in {"part", "whole"} : pool' = [f \in Contents |-> IF f \in F THEN s ELSE pool[f]]

\* PoolFileT::close of each: a temporary file is renamed.
CommitFiles(F) == pool' = [f \in Contents |-> IF f \in F THEN "whole" ELSE pool[f]]

\* insert, then overwrite
Put(f, key, value) == [k \in DOMAIN f \cup {key} |-> IF k = key THEN value ELSE f[k]]

----------------------------------------------------------------------------
(* The programs *)

End(r) ==
  /\ pc' = [pc EXCEPT ![r] = "off"] /\ job' = [job EXCEPT ![r] = None]
  /\ archive' = [archive EXCEPT ![r] = Empty] /\ work' = [work EXCEPT ![r] = <<>>]
  /\ versions' = [versions EXCEPT ![r] = Empty] /\ deviates' = [deviates EXCEPT ![r] = FALSE]

Disturbed(now) ==
  /\ disturbed' = (disturbed \/ now)
  /\ published' = IF disturbed' THEN {} ELSE published

Start(r) ==
  /\ pc[r] = "off" /\ runs < MaxRuns
  /\ runs' = runs + 1
  /\ Disturbed(\E s \in Programs : pc[s] # "off")

\* The last commit and its package are loaded, or there are none.
BuildGit(r, c) ==
  /\ Start(r)
  /\ pc' = [pc EXCEPT ![r] = "diff"] /\ job' = [job EXCEPT ![r] = c]
  /\ archive' = [archive EXCEPT ![r] = IF last = None THEN Empty ELSE last.package]
  /\ work' = [work EXCEPT ![r] =
       <<[old |-> IF last = None THEN None ELSE last.commit, new |-> c, at |-> <<>>]>>]
  /\ deviates' = [deviates EXCEPT ![r] = last # None /\ last.package \in deviant]
  /\ UNCHANGED <<storeVars, versions, stream, deviant>>

\* The next call: its diff, then its submodules that changed.  One that
\* git_submodule_foreach does not yield by its path in the checkout is left out,
\* and what foreach and git_submodule_open return is not looked at.
ProcessRepo(r) ==
  /\ pc[r] = "diff"
  /\ \E call \in {Head(work[r])} : \E S \in SUBSET Changed(call) :
     /\ \E calls \in Submodules(call, S) : work' = [work EXCEPT ![r] = calls \o Tail(work[r])]
     /\ CommitFiles(NewFiles(call))
     /\ archive' = [archive EXCEPT ![r] = ProcessDiff(call, archive[r])]
     /\ deviates' = [deviates EXCEPT ![r] = @ \/ Deviates(call, archive[r]) \/ S # Changed(call)]
  /\ pc' = [pc EXCEPT ![r] = IF work'[r] = <<>> THEN "replace" ELSE "diff"]
  /\ UNCHANGED <<packages, versionsgz, last, builds, job, versions, stream, historyVars>>

\* Mutant of ReplaceVersion: the file with the version is not closed.
ReplaceUnstored(r) ==
  /\ pc[r] = "replace"
  /\ Modinfo \in DOMAIN Tree[job[r]] /\ Tree[job[r]][Modinfo] \in Blobs \ Stuck
  /\ LET f == [blob |-> Tree[job[r]][Modinfo], version |-> Version[job[r]]] IN
     archive' = [archive EXCEPT ![r] = Put(archive[r], LowerPath(<<Modinfo>>), f)]
  /\ pc' = [pc EXCEPT ![r] = "save"]
  /\ UNCHANGED <<pool, packages, versionsgz, last, builds, job, work, versions, deviates, stream,
                 historyVars>>

\* With a modinfo that is stuck it goes on for ever.
ReplaceVersion(r) ==
  /\ pc[r] = "replace"
  /\ Modinfo \in DOMAIN Tree[job[r]] /\ Tree[job[r]][Modinfo] \in Blobs \ Stuck
  /\ LET f == [blob |-> Tree[job[r]][Modinfo], version |-> Version[job[r]]] IN
     /\ CommitFiles({f})
     /\ archive' = [archive EXCEPT ![r] = Put(archive[r], LowerPath(<<Modinfo>>), f)]
  /\ pc' = [pc EXCEPT ![r] = "save"]
  /\ UNCHANGED <<packages, versionsgz, last, builds, job, work, versions, deviates, stream, historyVars>>

\* All files of the zip go to the pool; AddZip reads versions.gz before it saves.
AddZip(r) ==
  /\ Start(r)
  /\ CommitFiles({Raw(Zip[q]) : q \in DOMAIN Zip})
  /\ archive' = [archive EXCEPT ![r] = [q \in DOMAIN Zip |-> Raw(Zip[q])]]
  /\ pc' = [pc EXCEPT ![r] = "load"]
  /\ deviates' = [deviates EXCEPT ![r] = FALSE]
  /\ UNCHANGED <<packages, versionsgz, last, builds, job, work, versions, stream,
                 deviant>>

IsGit(r) == job[r] # None

\* PoolArchiveT::save
SaveArchive(r) ==
  /\ pc[r] = "save"
  /\ LowerPath(<<Modinfo>>) \in DOMAIN archive[r]
  /\ packages' = packages \cup {archive[r]}
  /\ deviant' = IF deviates[r] THEN deviant \cup {archive[r]} ELSE deviant
  /\ pc' = [pc EXCEPT ![r] = IF IsGit(r) THEN "load" ELSE "list"]
  /\ UNCHANGED <<pool, versionsgz, last, builds, job, archive, work, versions, stream,
                 deviates, published, disturbed, runs>>

\* Mutant of LoadVersions: one starts with an empty list.
LoadNothing(r) ==
  /\ pc[r] = "load" /\ ~versionsgz.bad
  /\ pc' = [pc EXCEPT ![r] = IF IsGit(r) THEN "list" ELSE "save"]
  /\ UNCHANGED <<storeVars, job, archive, work, versions, deviates, stream, historyVars>>

\* VersionsT::load, which throws when the end of a line is missing
LoadVersions(r) ==
  /\ pc[r] = "load" /\ ~versionsgz.bad
  /\ versions' = [versions EXCEPT ![r] = versionsgz.entries]
  /\ pc' = [pc EXCEPT ![r] = IF IsGit(r) THEN "list" ELSE "save"]
  /\ UNCHANGED <<storeVars, job, archive, work, deviates, stream, historyVars>>

NewTags(r) == IF IsGit(r) THEN {job[r], Branch[job[r]]} ELSE ZipTags
Listed(r) ==
  [t \in DOMAIN versions[r] \cup NewTags(r) |->
     IF t \in NewTags(r) THEN archive[r] ELSE versions[r][t]]

\* versions.gz is opened, which empties it; some of it is written now, the rest
\* at the end.
OpenVersions(r) ==
  /\ pc[r] = "list"
  /\ LET all == Listed(r)
         First(k) == {t \in DOMAIN all : \E i \in 1..k : TagOrder[i] = t}
     IN \E k \in Cuts, bad \in BOOLEAN :
          versionsgz' = [entries |-> [t \in First(k) |-> all[t]], bad |-> bad,
                         mixed |-> \E s \in Programs \ {r} : pc[s] = "saving"]
  /\ versions' = [versions EXCEPT ![r] = Listed(r)]
  /\ pc' = [pc EXCEPT ![r] = "saving"]
  /\ UNCHANGED <<pool, packages, last, builds, job, archive, work, deviates, stream, historyVars>>

\* When two programs had it open at once, it may be the one's list or damaged.
CloseVersions(r) ==
  /\ pc[r] = "saving"
  /\ \E bad \in IF versionsgz.mixed THEN BOOLEAN ELSE {FALSE} :
       versionsgz' = [entries |-> versions[r], bad |-> bad,
                      mixed |-> versionsgz.mixed /\ \E s \in Programs \ {r} : pc[s] = "saving"]
  /\ published' = IF disturbed THEN {} ELSE published \cup NewTags(r)
  /\ IF IsGit(r) THEN pc' = [pc EXCEPT ![r] = "last"] /\ UNCHANGED <<job, archive, work, versions, deviates>>
     ELSE End(r)
  /\ UNCHANGED <<pool, packages, last, builds, stream, deviant, disturbed, runs>>

SaveLast(r) ==
  /\ pc[r] = "last"
  /\ last' = [commit |-> job[r], package |-> archive[r]]
  /\ IF Branch[job[r]] = Stable
     THEN pc' = [pc EXCEPT ![r] = "zip"] /\ UNCHANGED <<job, archive, work, versions, deviates>>
     ELSE End(r)
  /\ UNCHANGED <<pool, packages, versionsgz, builds, stream, historyVars>>

\* A zip that exists is left alone.
MakeZip(r) ==
  /\ pc[r] = "zip"
  /\ builds' = IF \E z \in builds : z.version = Version[job[r]] THEN builds
               ELSE builds \cup {[version |-> Version[job[r]], package |-> archive[r]]}
  /\ End(r)
  /\ UNCHANGED <<pool, packages, versionsgz, last, stream, historyVars>>

\* Mutant of Throw: it waits for the end of versions.gz.
ThrowWaiting(r) ==
  /\ \/ /\ pc[r] = "replace"
        /\ ~(Modinfo \in DOMAIN Tree[job[r]] /\ Tree[job[r]][Modinfo] \in Blobs)
     \/ pc[r] = "save" /\ LowerPath(<<Modinfo>>) \notin DOMAIN archive[r]
  /\ End(r)
  /\ UNCHANGED <<storeVars, stream, historyVars>>

\* There is no modinfo.lua, or the end of versions.gz is missing.
Throw(r) ==
  /\ \/ /\ pc[r] = "replace"
        /\ ~(Modinfo \in DOMAIN Tree[job[r]] /\ Tree[job[r]][Modinfo] \in Blobs)
     \/ pc[r] = "save" /\ LowerPath(<<Modinfo>>) \notin DOMAIN archive[r]
     \/ pc[r] = "load" /\ versionsgz.bad
  /\ End(r)
  /\ UNCHANGED <<storeVars, stream, historyVars>>

\* Something else throws, or the program is killed.
Fail(r) ==
  /\ pc[r] # "off"
  /\ Disturbed(pc[r] = "saving")
  /\ End(r)
  /\ UNCHANGED <<storeVars, stream, deviant, runs>>

----------------------------------------------------------------------------
(* The streamer *)

\* A client asks for some files of a package; their sizes are announced.  With
\* one missing it throws.
Announce(p, F) ==
  /\ stream = {} /\ F \subseteq FilesOf(p)
  /\ \A f \in F : pool[f] # "absent"
  /\ stream' = {[file |-> f, size |-> pool[f]] : f \in F}
  /\ UNCHANGED <<storeVars, programVars, historyVars>>

\* sendfile sends nothing, over and over, when the file is shorter than announced.
Send ==
  /\ \E x \in stream :
       /\ ~(x.size = "whole" /\ pool[x.file] = "part")
       /\ stream' = IF pool[x.file] = "absent" THEN {} ELSE stream \ {x}
  /\ UNCHANGED <<storeVars, programVars, historyVars>>

HangUp ==
  /\ stream # {} /\ stream' = {}
  /\ UNCHANGED <<storeVars, programVars, historyVars>>

----------------------------------------------------------------------------
Init ==
  /\ pool = [f \in Contents |-> "absent"] /\ packages = {}
  /\ versionsgz = [entries |-> Empty, bad |-> FALSE, mixed |-> FALSE]
  /\ last = None /\ builds = {}
  /\ pc = [r \in Programs |-> "off"] /\ job = [r \in Programs |-> None]
  /\ archive = [r \in Programs |-> Empty] /\ work = [r \in Programs |-> <<>>]
  /\ versions = [r \in Programs |-> Empty] /\ stream = {}
  /\ deviates = [r \in Programs |-> FALSE] /\ deviant = {}
  /\ published = {} /\ disturbed = FALSE /\ runs = 0

Run(r) ==
  \/ ProcessRepo(r) \/ ReplaceVersion(r)
  \/ SaveArchive(r) \/ LoadVersions(r) \/ OpenVersions(r) \/ CloseVersions(r)
  \/ SaveLast(r) \/ MakeZip(r) \/ Throw(r)

Next ==
  \/ \E r \in Programs : (\E c \in Main : BuildGit(r, c)) \/ AddZip(r) \/ Run(r) \/ Fail(r)
  \/ \E p \in packages : \E F \in SUBSET (FilesOf(p) \cap Wanted) : Announce(p, F)
  \/ Send \/ HangUp

Spec == Init /\ [][Next]_vars

\* A program that can go on does; so does the streamer.
FairSpec == Spec /\ WF_vars(Send) /\ \A r \in Programs : WF_vars(Run(r))

----------------------------------------------------------------------------
(* Properties *)

\* The files of a commit, those of its submodules at their paths: with inner[d] for
\* a submodule's commit d, and to a depth of k.
Layer(inner, c) ==
  LET blobs == {n \in DOMAIN Tree[c] : Tree[c][n] \in Blobs}
      dirs == DOMAIN Tree[c] \ blobs
  IN [q \in {<<n>> : n \in blobs} \cup
            UNION {{<<n>> \o s : s \in DOMAIN inner[Tree[c][n]]} : n \in dirs} |->
        IF Len(q) = 1 THEN Tree[c][q[1]] ELSE inner[Tree[c][q[1]]][Tail(q)]]
Flat[k \in Nat] == [c \in Commits |-> IF k = 0 THEN Empty ELSE Layer(Flat[k - 1], c)]

\* The package a commit stands for.
PackageOf(c) ==
  LET flat == Flat[Cardinality(Commits)][c] IN
  [q \in {LowerPath(s) : s \in DOMAIN flat} |->
     IF q = LowerPath(<<Modinfo>>)
     THEN [blob |-> Tree[c][Modinfo], version |-> Version[c]]
     ELSE Raw(flat[CHOOSE s \in DOMAIN flat : LowerPath(s) = q])]

\* The package under a commit's tag is that commit, through whatever chain of
\* differences, programs that failed on the way and commits in any order it was
\* made (BuildGit.cpp:225-395), unless on the way a difference could not be followed:
\* a key was removed that is not the one that is gone, paths differed in case only,
\* or a submodule that changed was left out.
PackageIsTree ==
  \A c \in Main \cap DOMAIN versionsgz.entries :
    versionsgz.entries[c] \notin deviant => versionsgz.entries[c] = PackageOf(c)

\* "Diff against the last processed commit tree, or the empty tree if there is
\* none" (BuildGit.cpp:227): what is made incrementally is the commit, too.
IncrementalIsFull ==
  \A c \in Main \cap DOMAIN versionsgz.entries : versionsgz.entries[c] = PackageOf(c)

\* A tag that was listed once stays listed, unless programs ran at the same time
\* or one died while it wrote versions.gz (Versions.cpp:95).
TagsKept ==
  ~disturbed /\ (\A r \in Programs : pc[r] # "saving") =>
    published \subseteq DOMAIN versionsgz.entries /\ ~versionsgz.bad

\* What the streamer has announced it can send, though pool files are written
\* meanwhile (Streamer.cpp:62-98).
StreamReturns == stream # {} ~> stream = {}

\* A program comes to its end unless the modinfo is one it never gets through.
Spins(r) == pc[r] = "replace" /\ Tree[job[r]][Modinfo] \in Stuck
BuildReturns == \A r \in Programs : pc[r] # "off" ~> pc[r] = "off" \/ Spins(r)

\* To clients the store is a Catalog: what versions.gz lists, complete or cut, has
\* its package and all of its files, though programs fail at any step.
Published == INSTANCE Catalog WITH
  store <- {f \in Contents : pool[f] = "whole"},
  listing <- versionsgz.entries
CatalogSpec == Published!Spec
================================================================================
