-------------------------------- MODULE GitRapid -------------------------------
(***************************************************************************)
(* GitRapidResolver and GitRapidBuilder (src/src/Downloader/Rapid/), which *)
(* CRapidDownloader::TryResolveViaGit calls: a manifest names a commit for *)
(* each tag, the commit's tree names files, and from what the host answers *)
(* for them a package is made in the same pool and packages/ as those of   *)
(* the rapid servers.                                                      *)
(*                                                                         *)
(* The manifest is cached for a while; the cache is written in place, and  *)
(* whatever the server sends is kept.  Pool files are written in place     *)
(* too, the .sdp to a temporary file, which is removed before it is        *)
(* written and read by nobody.  What is downloaded for a file is not       *)
(* compared with the hash or size that the tree gives of it, so it may be  *)
(* any content.  The process may die at any step.  A                       *)
(* package is the sequence of its entries, which stands for its md5; a     *)
(* pool file is named after its content.                                   *)
(***************************************************************************)
EXTENDS Integers, Sequences, FiniteSets

CONSTANTS
  Tags,
  Commits,
  Editions,     \* Editions[k][t]: the commit that the k-th manifest names for t
  Paths,        \* paths in a repository
  Files,        \* contents of files
  Tree,         \* Tree[c]: the nodes of the commit, in the order of the answer
  Under,        \* the paths below path_prefix
  Names, NoName,
  ArchivePath,  \* a path in lower case without leading dots; NoName if nothing is left
  Rank,         \* the order of names
  TooLong,      \* names of more than 255 letters
  RapidPackages,\* packages of the rapid servers
  Damaged, NoText, NoTag

\* url: whether the node or a template gives one for it
Node == [path : Paths, blob : BOOLEAN, url : BOOLEAN, file : Files]
Entry == [name : Names, file : Files]
IsPackage(p) == p \in Seq(Entry) /\ p # <<>>
FilesOf(p) == {p[i].file : i \in DOMAIN p}
Texts == DOMAIN Editions \cup {Damaged}

ASSUME GitAssumption ==
  /\ Editions \in Seq(UNION {[T -> Commits] : T \in SUBSET Tags}) /\ Editions # <<>>
  /\ \A c \in Commits : Tree[c] \in Seq(Node)
  /\ Under \subseteq Paths /\ TooLong \subseteq Names
  /\ ArchivePath \in [Paths -> Names \cup {NoName}] /\ NoName \notin Names
  /\ Rank \in [Names -> Nat]
  /\ \A p \in RapidPackages : IsPackage(p)
  /\ Damaged \notin DOMAIN Editions /\ NoText \notin Texts /\ NoTag \notin Tags

VARIABLES
  (* the disk *)
  cache,        \* the manifest's: its text, NoText if none or empty, and its age
  pool,         \* pool[f]: the pool file of that content
  sdp,          \* what packages/ holds, whole or cut in ("mid") or after an entry
  (* the process *)
  pc,
  tag, text,    \* what is being resolved, the manifest it is looked up in
  commit, at,   \* GitRapidVersionInfo: its commit, and how far Build is in its files
  data,         \* blobData
  entries,
  package,      \* the package made of them
  resolved,     \* rapidGitResolvedTags, and the package of each
  misled,       \* the tags last resolved with an answer that is not the file (history)
  (* the server *)
  served        \* the current edition of the manifest

diskVars == <<cache, pool, sdp>>
versionVars == <<commit, at, data, entries, package>>
vars == <<pc, tag, text, versionVars, diskVars, resolved, misled, served>>

Nothing == <<>>

TypeOK ==
  /\ cache \in [text : Texts \cup {NoText}, old : BOOLEAN]
  /\ pool \in [Files -> {"absent", "part", "valid"}]
  /\ \A p \in DOMAIN sdp : IsPackage(p) /\ sdp[p] \in {"whole", "mid", "after"}
  /\ pc \in {"off", "manifest", "stale", "open", "cache", "tree", "blob", "verify", "write",
             "rename", "parse"}
  /\ tag \in Tags \cup {NoTag} /\ text \in Texts \cup {NoText}
  /\ commit \in Commits \cup {Nothing}
  /\ at \in Nat /\ data \in Files \cup {Nothing} /\ entries \in Seq(Entry)
  /\ (package = Nothing \/ IsPackage(package))
  /\ DOMAIN resolved = Tags
  /\ \A t \in Tags : resolved[t] = Nothing \/ IsPackage(resolved[t])
  /\ misled \subseteq Tags /\ served \in DOMAIN Editions

----------------------------------------------------------------------------
\* TryResolveViaGit returned.
Return ==
  /\ pc' = "off" /\ tag' = NoTag /\ text' = NoText
  /\ commit' = Nothing /\ at' = 0 /\ data' = Nothing /\ entries' = <<>> /\ package' = Nothing

TryResolveViaGit(t) ==
  /\ pc = "off" /\ resolved[t] = Nothing
  /\ pc' = "manifest" /\ tag' = t /\ misled' = misled \ {t}
  /\ UNCHANGED <<text, versionVars, diskVars, resolved, served>>

(* LoadManifest *)

\* Mutant of UseCache: its age does not matter.
UseAnyCache ==
  /\ pc = "manifest" /\ cache.text # NoText
  /\ text' = cache.text /\ pc' = "tree"
  /\ UNCHANGED <<tag, versionVars, diskVars, resolved, misled, served>>

UseCache ==
  /\ pc = "manifest" /\ cache.text # NoText /\ ~cache.old
  /\ text' = cache.text /\ pc' = "tree"
  /\ UNCHANGED <<tag, versionVars, diskVars, resolved, misled, served>>

\* Anything that arrives counts, an empty or damaged text too.
DownloadManifest(answer) ==
  /\ pc = "manifest" /\ (cache.old \/ cache.text = NoText)
  /\ answer \in {served, Damaged, NoText} /\ text' = answer
  /\ pc' = "open"
  /\ UNCHANGED <<tag, versionVars, diskVars, resolved, misled, served>>

\* WriteFile opens the cache, which empties it.
OpenCache ==
  /\ pc = "open" /\ pc' = "cache"
  /\ cache' = [text |-> NoText, old |-> FALSE]
  /\ UNCHANGED <<tag, text, versionVars, pool, sdp, resolved, misled, served>>

OpenCacheFails ==
  /\ pc = "open" /\ pc' = "tree"
  /\ UNCHANGED <<tag, text, versionVars, diskVars, resolved, misled, served>>

\* The write, which may fail; a part of a text is damaged.
WriteCache(written) ==
  /\ pc = "cache"
  /\ written \in {text, Damaged, NoText} /\ cache' = [text |-> written, old |-> FALSE]
  /\ pc' = "tree"
  /\ UNCHANGED <<tag, text, versionVars, pool, sdp, resolved, misled, served>>

DownloadManifestFails ==
  /\ pc = "manifest" /\ (cache.old \/ cache.text = NoText)
  /\ pc' = "stale"
  /\ UNCHANGED <<tag, text, versionVars, diskVars, resolved, misled, served>>

\* An old cache is better than none.
UseStaleCache ==
  /\ pc = "stale"
  /\ IF cache.text # NoText
     THEN text' = cache.text /\ pc' = "tree" /\ UNCHANGED <<tag, versionVars>>
     ELSE Return
  /\ UNCHANGED <<diskVars, resolved, misled, served>>

(* ParseTag, with the download of the tree *)

Has(t) == text \in DOMAIN Editions /\ t \in DOMAIN Editions[text]
IsWanted(node) == node.blob /\ node.path \in Under /\ node.url

ParseTag ==
  /\ pc = "tree" /\ Has(tag)
  /\ commit' = Editions[text][tag]
  /\ \E i \in DOMAIN Tree[commit'] : IsWanted(Tree[commit'][i])
  /\ at' = 1 /\ pc' = "blob"
  /\ UNCHANGED <<tag, text, data, entries, package, diskVars, resolved, misled, served>>

\* The manifest cannot be parsed or does not have the tag, or the tree does not
\* arrive, is truncated or has no file.
ParseTagFails ==
  /\ pc = "tree" /\ Return
  /\ UNCHANGED <<diskVars, resolved, misled, served>>

(* Build *)

MoreToBuild == at \in DOMAIN Tree[commit]
Current == Tree[commit][at]

Name == ArchivePath[Current.path]
InArchive == MoreToBuild /\ IsWanted(Current) /\ Name # NoName

NextFile(name, f) ==
  /\ entries' = Append(entries, [name |-> name, file |-> f]) /\ data' = Nothing
  /\ at' = at + 1 /\ pc' = "blob"

\* Mutant of SkipFile: a path of which nothing is left is an entry.
SkipNothing ==
  /\ pc = "blob" /\ MoreToBuild /\ IsWanted(Current) /\ Name = NoName
  /\ NextFile(NoName, Current.file)
  /\ UNCHANGED <<tag, text, commit, package, diskVars, resolved, misled, served>>

\* ParseTag has left out what is not wanted.
SkipFile ==
  /\ pc = "blob" /\ MoreToBuild /\ ~InArchive
  /\ at' = at + 1
  /\ UNCHANGED <<pc, tag, text, commit, data, entries, package, diskVars, resolved, misled, served>>

\* Whatever a request that succeeds brings is the file: another one, since the
\* URL is made of the path without its prefix and leading dots, a part of the JSON
\* that should wrap it, or what a file that is JSON itself says is its content.
DownloadBlob(f) ==
  /\ pc = "blob" /\ InArchive
  /\ data' = f /\ pc' = "verify"
  /\ misled' = IF f = Current.file THEN misled ELSE misled \cup {tag}
  /\ UNCHANGED <<tag, text, commit, at, entries, package, diskVars, resolved, served>>

\* Mutant of KeepFile: a pool file that exists is not verified.
KeepPresent ==
  /\ pc = "verify" /\ pool[data] # "absent"
  /\ NextFile(Name, data)
  /\ UNCHANGED <<tag, text, commit, package, diskVars, resolved, misled, served>>

\* VerifyPoolFile: the file is there and whole.
KeepFile ==
  /\ pc = "verify" /\ pool[data] = "valid"
  /\ NextFile(Name, data)
  /\ UNCHANGED <<tag, text, commit, package, diskVars, resolved, misled, served>>

\* What is there is removed; WriteGzipFile opens the file under its name.
OpenPoolFile ==
  /\ pc = "verify" /\ pool[data] # "valid"
  /\ pool' = [pool EXCEPT ![data] = "part"]
  /\ pc' = "write"
  /\ UNCHANGED <<tag, text, versionVars, cache, sdp, resolved, misled, served>>

ClosePoolFile ==
  /\ pc = "write"
  /\ pool' = [pool EXCEPT ![data] = "valid"]
  /\ NextFile(Name, data)
  /\ UNCHANGED <<tag, text, commit, package, cache, sdp, resolved, misled, served>>

\* The blob does not arrive or is refused, the pool file cannot be opened (the
\* old one is removed by then) or not be written.
BlobFails ==
  /\ \/ pc = "blob" /\ MoreToBuild /\ UNCHANGED pool
     \/ pc = "verify" /\ pool[data] # "valid" /\ pool' = [pool EXCEPT ![data] = "absent"]
     \/ pc = "write" /\ UNCHANGED pool
  /\ Return
  /\ UNCHANGED <<cache, sdp, resolved, misled, served>>

\* std::sort: names that are equal come in any order.
Sorted(q) ==
  {[i \in DOMAIN q |-> q[f[i]]] :
     f \in {g \in [DOMAIN q -> DOMAIN q] :
              /\ \A j \in DOMAIN q : \E i \in DOMAIN q : g[i] = j
              /\ \A i, j \in DOMAIN q : i < j => Rank[q[g[i]].name] <= Rank[q[g[j]].name]}}

WriteSdp ==
  /\ pc = "blob" /\ ~MoreToBuild /\ entries # <<>>
  /\ \A i \in DOMAIN entries : entries[i].name \notin TooLong
  /\ package' \in Sorted(entries)
  /\ pc' = "rename"
  /\ UNCHANGED <<tag, text, commit, at, data, entries, diskVars, resolved, misled, served>>

\* An .sdp of that md5 is left as it is.
RenameSdp ==
  /\ pc = "rename"
  /\ sdp' = [p \in DOMAIN sdp \cup {package} |-> IF p \in DOMAIN sdp THEN sdp[p] ELSE "whole"]
  /\ pc' = "parse"
  /\ UNCHANGED <<tag, text, versionVars, cache, pool, resolved, misled, served>>

SdpFails ==
  /\ pc \in {"blob", "rename"} /\ ~MoreToBuild /\ Return
  /\ UNCHANGED <<diskVars, resolved, misled, served>>

Without(p) == [q \in DOMAIN sdp \ {p} |-> sdp[q]]

\* parseSdp, and what TryResolveViaGit makes of its result.  An .sdp whose md5 is
\* wrong is removed, one that ends in an entry is not.
ParseSdp ==
  /\ pc = "parse"
  /\ resolved' = IF sdp[package] = "whole" THEN [resolved EXCEPT ![tag] = package] ELSE resolved
  /\ sdp' = IF sdp[package] = "after" THEN Without(package) ELSE sdp
  /\ Return
  /\ UNCHANGED <<cache, pool, misled, served>>

----------------------------------------------------------------------------
(* What else happens on the disk and to the process *)

\* A CSdp downloads p, or dies while it does.  As SdpDownload shows it leaves
\* alone what is complete, never touches valid files, and may leave parts.
RapidDownload(p) ==
  /\ pc = "off"
  /\ ~(p \in DOMAIN sdp /\ sdp[p] = "whole" /\ \A f \in FilesOf(p) : pool[f] # "absent")
  /\ \/ sdp' = Without(p)
     \/ \E s \in {"whole", "mid", "after"} :
          /\ p \in DOMAIN sdp /\ sdp[p] = "whole" => s = "whole"
          /\ sdp' = [q \in DOMAIN sdp \cup {p} |-> IF q = p THEN s ELSE sdp[q]]
  /\ \E F \in SUBSET {f \in FilesOf(p) : pool[f] # "valid"}, s \in {"absent", "part", "valid"} :
       pool' = [f \in Files |-> IF f \in F /\ (pool[f] = "part" => s = "absent")
                                THEN s ELSE pool[f]]
  /\ UNCHANGED <<pc, tag, text, versionVars, cache, resolved, misled, served>>

ValidatePool ==
  /\ pc = "off"
  /\ pool' = [f \in Files |-> IF pool[f] = "part" THEN "absent" ELSE pool[f]]
  /\ UNCHANGED <<pc, tag, text, versionVars, cache, sdp, resolved, misled, served>>

\* setOption: an option of git is set, or an update is forced.
SetOption ==
  /\ pc = "off" /\ resolved' = [t \in Tags |-> Nothing]
  /\ UNCHANGED <<pc, tag, text, versionVars, diskVars, misled, served>>

Crash ==
  /\ pc # "off"
  /\ Return /\ resolved' = [t \in Tags |-> Nothing]
  /\ UNCHANGED <<diskVars, misled, served>>

\* manifestTtlSeconds pass.
Age ==
  /\ ~cache.old /\ cache' = [cache EXCEPT !.old = TRUE]
  /\ UNCHANGED <<pc, tag, text, versionVars, pool, sdp, resolved, misled, served>>

Publish ==
  /\ served < Len(Editions) /\ served' = served + 1
  /\ UNCHANGED <<pc, tag, text, versionVars, diskVars, resolved, misled>>

----------------------------------------------------------------------------
Init ==
  /\ cache = [text |-> NoText, old |-> FALSE]
  /\ pool = [f \in Files |-> "absent"] /\ sdp = << >>
  /\ pc = "off" /\ tag = NoTag /\ text = NoText
  /\ commit = Nothing /\ at = 0 /\ data = Nothing /\ entries = <<>> /\ package = Nothing
  /\ resolved = [t \in Tags |-> Nothing] /\ misled = {} /\ served = 1

Step ==
  \/ UseCache \/ (\E answer \in {served, Damaged, NoText} : DownloadManifest(answer))
  \/ OpenCache \/ OpenCacheFails \/ (\E written \in {text, Damaged, NoText} : WriteCache(written))
  \/ DownloadManifestFails \/ UseStaleCache
  \/ ParseTag \/ ParseTagFails
  \/ SkipFile \/ (\E f \in Files : DownloadBlob(f))
  \/ KeepFile \/ OpenPoolFile \/ ClosePoolFile
  \/ BlobFails \/ WriteSdp \/ RenameSdp \/ SdpFails \/ ParseSdp

Ask == \E t \in Tags : TryResolveViaGit(t)

Next ==
  \/ Ask \/ Step
  \/ \E p \in RapidPackages : RapidDownload(p)
  \/ ValidatePool \/ SetOption \/ Crash \/ Age \/ Publish

Spec == Init /\ [][Next]_vars

\* A call goes on, since every transfer has a timeout; time passes.
FairSpec == Spec /\ WF_vars(Step) /\ WF_vars(Age)

----------------------------------------------------------------------------
(* Properties *)

\* The entries of a commit's package: its files below the prefix that have a URL
\* and of whose path something is left.
EntriesOf(c) ==
  {[name |-> ArchivePath[Tree[c][i].path], file |-> Tree[c][i].file] :
     i \in {j \in DOMAIN Tree[c] : IsWanted(Tree[c][j]) /\ ArchivePath[Tree[c][j].path] # NoName}}

\* A tag that counts as resolved has its package, listed whole and with all the
\* files it lists, for a commit that a manifest named for the tag: one entry for each
\* wanted file of it that has a URL, and those files' contents, unless a request for
\* one of them brought something else, which nothing compares.  It stays so whatever
\* else is downloaded, validated or interrupted (GitRapidBuilder.cpp:229-383: parts of
\* pool files from anywhere are found and written again, and an .sdp that is there
\* already is checked).
ResolvedIsCommit ==
  \A t \in Tags : resolved[t] # Nothing =>
    LET p == resolved[t] IN
    /\ p \in DOMAIN sdp /\ sdp[p] = "whole"
    /\ \A f \in FilesOf(p) : pool[f] = "valid"
    /\ \E k \in 1..served :
         /\ t \in DOMAIN Editions[k]
         /\ {p[i].name : i \in DOMAIN p} = {e.name : e \in EntriesOf(Editions[k][t])}
         /\ t \notin misled => {p[i] : i \in DOMAIN p} = EntriesOf(Editions[k][t])

Trouble ==
  \/ DownloadManifestFails
  \/ DownloadManifest(Damaged) \/ DownloadManifest(NoText)
  \/ OpenCacheFails
  \/ pc = "cache" /\ (WriteCache(Damaged) \/ WriteCache(NoText))
  \/ Crash

\* A cache that is damaged does not keep git from working for ever: once the
\* server answers, the cache can be written and somebody asks, it is replaced (GitRapidResolver.cpp:
\* 215-238: what was stored unseen is trusted until it is too old).
DamageHeals ==
  (<>[][~Trouble]_vars /\ []<><<Ask>>_vars) => []<>(cache.text \in DOMAIN Editions)
================================================================================
