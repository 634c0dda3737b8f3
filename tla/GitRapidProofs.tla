----------------------------- MODULE GitRapidProofs ----------------------------
(***************************************************************************)
(* Theorems about GitRapid, for any manifests, trees and pool contents:    *)
(* TypeOK and ResolvedIsCommit.                                            *)
(*                                                                         *)
(* A package is checked when it is parsed, its files are not: they are     *)
(* whole because those of the entries made so far are whole, and stay so   *)
(* while Build goes on (EntriesInv), since nobody else writes to the pool  *)
(* then; and what counts as resolved is complete, so that a later download *)
(* leaves it alone (ResolvedInv).  An answer that is not the file spoils   *)
(* the contents of the entries made from then on, never their names, and   *)
(* only of the tag that is being resolved, which does not count as         *)
(* resolved yet (TextInv).                                                 *)
(***************************************************************************)
EXTENDS GitRapid, TLAPS

InFlight == pc \in {"blob", "verify", "write", "rename", "parse"}

\* A manifest that the server has had by now names the commit c for t.
Named(t, c) == \E k \in 1..served : t \in DOMAIN Editions[k] /\ Editions[k][t] = c

EntriesBefore(c, n) ==
  {[name |-> ArchivePath[Tree[c][i].path], file |-> Tree[c][i].file] :
     i \in {j \in DOMAIN Tree[c] :
              j < n /\ IsWanted(Tree[c][j]) /\ ArchivePath[Tree[c][j].path] # NoName}}
Elements(q) == {q[i] : i \in DOMAIN q}
NamesOf(E) == {e.name : e \in E}

\* No text is newer than what the server has.
TextInv ==
  /\ pc # "off" => tag \in Tags /\ resolved[tag] = Nothing
  /\ text \in DOMAIN Editions => text <= served
  /\ cache.text \in DOMAIN Editions => cache.text <= served

CommitInv ==
  IF InFlight THEN commit \in Commits /\ Named(tag, commit) ELSE entries = <<>>

EntriesInv ==
  InFlight =>
    /\ at \in 1..(Len(Tree[commit]) + 1)
    /\ NamesOf(Elements(entries)) = NamesOf(EntriesBefore(commit, at))
    /\ tag \notin misled => Elements(entries) = EntriesBefore(commit, at)
    /\ \A i \in DOMAIN entries : pool[entries[i].file] = "valid"

\* The answer that is being stored.
DataInv ==
  pc \in {"verify", "write"} =>
    data \in Files /\ InArchive /\ (tag \notin misled => data = Current.file)

PackageInv ==
  /\ pc \in {"rename", "parse"} => IsPackage(package) /\ ~MoreToBuild /\ Elements(package) = Elements(entries)
  /\ pc = "parse" => package \in DOMAIN sdp

Complete(p) ==
  /\ p \in DOMAIN sdp /\ sdp[p] = "whole"
  /\ \A f \in FilesOf(p) : pool[f] = "valid"

IsCommit(p, t) ==
  \E k \in 1..served :
    /\ t \in DOMAIN Editions[k]
    /\ NamesOf(Elements(p)) = NamesOf(EntriesOf(Editions[k][t]))
    /\ t \notin misled => Elements(p) = EntriesOf(Editions[k][t])

ResolvedInv ==
  \A t \in Tags : resolved[t] # Nothing => Complete(resolved[t]) /\ IsCommit(resolved[t], t)

Inv == TypeOK /\ TextInv /\ CommitInv /\ EntriesInv /\ DataInv /\ PackageInv /\ ResolvedInv

----------------------------------------------------------------------------
LEMMA InitInv ==
  ASSUME Init
  PROVE  Inv
<1>1. Len(Editions) \in Nat /\ 1 \in DOMAIN Editions
  BY GitAssumption
<1>2. TypeOK
  BY <1>1 DEF Init, TypeOK, Texts, Nothing
<1>3. ~InFlight /\ pc = "off" /\ resolved = [t \in Tags |-> Nothing]
  BY DEF Init, InFlight
<1>4. TextInv
  BY <1>3, GitAssumption DEF Init, TextInv, Texts
<1> QED BY <1>2, <1>3, <1>4 DEF Inv, Init, CommitInv, EntriesInv, DataInv, PackageInv, ResolvedInv

\* The end of a call: what is resolved is not disturbed by it.
LEMMA ReturnStep ==
  ASSUME Inv, Return, UNCHANGED <<cache, served>>, ResolvedInv', TypeOK'
  PROVE  Inv'
<1>1. pc' = "off" /\ text' = NoText
  BY DEF Return
<1>2. TextInv'
  BY <1>1, GitAssumption DEF Inv, TextInv, Texts
<1> QED BY <1>1, <1>2 DEF Inv, Return, CommitInv, EntriesInv, DataInv, PackageInv, InFlight

\* Steps before the commit is known, which change the manifest only.
LEMMA ManifestStep ==
  ASSUME Inv, UNCHANGED <<pool, sdp, resolved, misled, served, tag, versionVars>>, ~InFlight,
         TypeOK', TextInv', pc' \in {"manifest", "stale", "open", "cache", "tree"}
  PROVE  Inv'
<1>1. ~InFlight' /\ pc' \notin {"verify", "write", "rename", "parse"}
  BY DEF InFlight
<1>2. ResolvedInv'
  BY DEF Inv, ResolvedInv, Complete, IsCommit
<1> QED BY <1>1, <1>2 DEF Inv, CommitInv, EntriesInv, DataInv, PackageInv, versionVars

ManifestSteps ==
  \/ Ask \/ UseCache \/ (\E answer \in {served, Damaged, NoText} : DownloadManifest(answer))
  \/ OpenCache \/ OpenCacheFails \/ (\E written \in {text, Damaged, NoText} : WriteCache(written))
  \/ DownloadManifestFails \/ (cache.text # NoText /\ UseStaleCache)

LEMMA ManifestKeeps ==
  ASSUME Inv, ManifestSteps
  PROVE  Inv'
<1>1. UNCHANGED <<pool, sdp, resolved, misled, served, tag, versionVars>> \/ Ask
  BY DEF ManifestSteps, UseCache, DownloadManifest, OpenCache, OpenCacheFails, WriteCache,
     DownloadManifestFails, UseStaleCache, diskVars
<1>2. pc' \in {"manifest", "stale", "open", "cache", "tree"}
  BY DEF ManifestSteps, Ask, TryResolveViaGit, UseCache, DownloadManifest, OpenCache,
     OpenCacheFails, WriteCache, DownloadManifestFails, UseStaleCache
<1>3. pc \in {"manifest", "open", "cache", "stale"} \/ Ask
  BY DEF ManifestSteps, UseCache, DownloadManifest, OpenCache, OpenCacheFails, WriteCache,
     DownloadManifestFails, UseStaleCache
<1>4. text' \in {text, cache.text, served, Damaged, NoText}
  BY DEF ManifestSteps, Ask, TryResolveViaGit, UseCache, DownloadManifest, OpenCache,
     OpenCacheFails, WriteCache, DownloadManifestFails, UseStaleCache
<1>5. /\ cache' \in [text : Texts \cup {NoText}, old : BOOLEAN]
      /\ cache'.text \in {cache.text, text, Damaged, NoText}
  <2>1. cache' = cache \/ \E w \in {text, Damaged, NoText} : cache' = [text |-> w, old |-> FALSE]
    BY DEF ManifestSteps, Ask, TryResolveViaGit, UseCache, DownloadManifest, OpenCache,
       OpenCacheFails, WriteCache, DownloadManifestFails, UseStaleCache, diskVars
  <2>2. CASE cache' = cache
    BY <2>2 DEF Inv, TypeOK
  <2>3. ASSUME NEW w \in {text, Damaged, NoText}, cache' = [text |-> w, old |-> FALSE]
        PROVE  /\ cache' \in [text : Texts \cup {NoText}, old : BOOLEAN]
               /\ cache'.text = w
    <3>1. w \in Texts \cup {NoText}
      BY <2>3 DEF Inv, TypeOK, Texts
    <3> QED BY <2>3, <3>1
  <2> QED BY <2>1, <2>2, <2>3
<1>6. served \in Texts /\ served \in Nat /\ Damaged \in Texts
  BY GitAssumption DEF Inv, TypeOK, Texts
<1>7. CASE ~Ask
  <2>1. TypeOK'
    <3>1. text' \in Texts \cup {NoText}
      BY <1>4, <1>5, <1>6 DEF Inv, TypeOK
    <3>2. UNCHANGED <<pool, sdp, resolved, misled, served, tag, commit, at, data, entries, package>>
      BY <1>1, <1>7 DEF versionVars
    <3> QED BY <1>2, <1>5, <3>1, <3>2 DEF Inv, TypeOK
  <2>2. TextInv'
    BY <1>1, <1>3, <1>4, <1>5, <1>6, <1>7, GitAssumption DEF Inv, TextInv, Texts
  <2> QED BY <1>1, <1>2, <1>3, <1>7, <2>1, <2>2, ManifestStep DEF InFlight
<1>8. CASE Ask
  <2>1. PICK t \in Tags : TryResolveViaGit(t)
    BY <1>8 DEF Ask
  <2>2. /\ UNCHANGED <<text, cache, pool, sdp, resolved, served, commit, at, data, entries, package>>
        /\ tag' = t /\ misled' = misled \ {t} /\ resolved[t] = Nothing
    BY <2>1 DEF TryResolveViaGit, diskVars, versionVars
  <2>3. TypeOK'
    BY <1>2, <2>2 DEF Inv, TypeOK
  <2>4. TextInv' /\ ResolvedInv'
    BY <2>2 DEF Inv, TextInv, ResolvedInv, Complete, IsCommit
  <2>5. ~InFlight /\ ~InFlight' /\ pc' \notin {"verify", "write", "rename", "parse"}
    BY <1>2, <2>1 DEF InFlight, TryResolveViaGit
  <2> QED BY <2>2, <2>3, <2>4, <2>5 DEF Inv, CommitInv, EntriesInv, DataInv, PackageInv
<1> QED BY <1>7, <1>8

LEMMA EntryFiles ==
  ASSUME NEW q \in Seq(Entry)
  PROVE  \A i \in DOMAIN q : q[i].file \in Files
<1>1. \A i \in DOMAIN q : q[i] \in Entry
  OBVIOUS
<1> QED BY <1>1 DEF Entry

LEMMA PackageFiles ==
  ASSUME NEW p, IsPackage(p)
  PROVE  FilesOf(p) \subseteq Files
BY EntryFiles DEF IsPackage, FilesOf

\* A call that fails.
LEMMA FailKeeps ==
  ASSUME Inv, ParseTagFails \/ SdpFails \/ BlobFails \/ (cache.text = NoText /\ UseStaleCache)
  PROVE  Inv'
<1>1. Return /\ UNCHANGED <<cache, sdp, resolved, misled, served>>
  BY DEF ParseTagFails, SdpFails, BlobFails, UseStaleCache, diskVars
<1>2. \/ pool' = pool
      \/ \E f \in Files : pool[f] # "valid" /\ pool' = [pool EXCEPT ![f] = "absent"]
  BY DEF ParseTagFails, SdpFails, BlobFails, UseStaleCache, diskVars, Inv, DataInv
<1>3. /\ pool' \in [Files -> {"absent", "part", "valid"}]
      /\ \A f \in Files : pool[f] = "valid" => pool'[f] = "valid"
  BY <1>2 DEF Inv, TypeOK
<1>4. TypeOK'
  BY <1>1, <1>3 DEF Inv, TypeOK, Return
<1>5. \A t \in Tags : resolved[t] # Nothing => FilesOf(resolved[t]) \subseteq Files
  BY PackageFiles DEF Inv, TypeOK
<1>6. ResolvedInv'
  BY <1>1, <1>3, <1>5 DEF Inv, ResolvedInv, Complete, IsCommit
<1> QED BY <1>1, <1>4, <1>6, ReturnStep

LEMMA CrashKeeps ==
  ASSUME Inv, Crash
  PROVE  Inv'
<1>1. Return /\ UNCHANGED <<cache, pool, sdp, misled, served>> /\ resolved' = [t \in Tags |-> Nothing]
  BY DEF Crash, diskVars
<1>2. TypeOK'
  BY <1>1 DEF Inv, TypeOK, Return
<1>3. ResolvedInv'
  BY <1>1 DEF ResolvedInv
<1> QED BY <1>1, <1>2, <1>3, ReturnStep

LEMMA ParseTagKeeps ==
  ASSUME Inv, ParseTag
  PROVE  Inv'
<1>1. /\ UNCHANGED <<tag, text, data, entries, package, cache, pool, sdp, resolved, misled, served>>
      /\ commit' = Editions[text][tag] /\ at' = 1 /\ pc = "tree" /\ pc' = "blob"
      /\ text \in DOMAIN Editions /\ tag \in DOMAIN Editions[text]
  BY DEF ParseTag, Has, diskVars
<1>2. commit' \in Commits
  BY <1>1, GitAssumption
<1>3. text \in 1..served
  BY <1>1, GitAssumption DEF Inv, TextInv, TypeOK
<1>4. TypeOK'
  BY <1>1, <1>2 DEF Inv, TypeOK
<1>5. TextInv' /\ ResolvedInv'
  BY <1>1 DEF Inv, TextInv, ResolvedInv, Complete, IsCommit
<1>6. CommitInv'
  BY <1>1, <1>2, <1>3 DEF CommitInv, Named, InFlight
<1>7. PackageInv' /\ DataInv'
  BY <1>1 DEF PackageInv, DataInv
<1>8. EntriesInv'
  <2>1. at' \in 1..(Len(Tree[commit']) + 1) /\ EntriesBefore(commit', 1) = {}
    BY <1>1, <1>2, GitAssumption DEF EntriesBefore
  <2>2. entries = <<>> /\ UNCHANGED entries
    BY <1>1 DEF Inv, CommitInv, InFlight
  <2>3. Elements(entries') = {} /\ DOMAIN entries' = {}
    BY <2>2 DEF Elements
  <2>4. EntriesBefore(commit', at') = {}
    BY <1>1, <2>1
  <2> HIDE DEF EntriesBefore
  <2> QED BY <2>1, <2>3, <2>4 DEF EntriesInv
<1> QED BY <1>4, <1>5, <1>6, <1>7, <1>8 DEF Inv

(* Build: one more file *)

\* The entries before the next node, if it is kept and if it is not.
LEMMA EntriesBeforeNext ==
  ASSUME Inv, InFlight, MoreToBuild
  PROVE  /\ at \in 1..Len(Tree[commit]) /\ Len(Tree[commit]) \in Nat
         /\ InArchive => EntriesBefore(commit, at + 1) = EntriesBefore(commit, at) \cup
                           {[name |-> Name, file |-> Current.file]}
         /\ ~InArchive => EntriesBefore(commit, at + 1) = EntriesBefore(commit, at)
<1>1. commit \in Commits /\ Tree[commit] \in Seq(Node)
  BY GitAssumption DEF Inv, CommitInv
<1>2. at \in 1..Len(Tree[commit]) /\ Len(Tree[commit]) \in Nat
  BY <1>1 DEF MoreToBuild
<1>3. \A j \in DOMAIN Tree[commit] : j < at + 1 <=> j < at \/ j = at
  BY <1>1, <1>2
<1> HIDE DEF IsWanted
<1>4. IsWanted(Current) /\ ArchivePath[Current.path] # NoName =>
        EntriesBefore(commit, at + 1) = EntriesBefore(commit, at) \cup
          {[name |-> ArchivePath[Current.path], file |-> Current.file]}
  BY <1>2, <1>3 DEF EntriesBefore, Current, MoreToBuild
<1>5. ~(IsWanted(Current) /\ ArchivePath[Current.path] # NoName) =>
        EntriesBefore(commit, at + 1) = EntriesBefore(commit, at)
  BY <1>2, <1>3 DEF EntriesBefore, Current, MoreToBuild
<1> QED BY <1>2, <1>4, <1>5 DEF InArchive, Name

\* A file whose pool file is whole, as it was or by this step, becomes an entry.
LEMMA FileKeeps ==
  ASSUME Inv, KeepFile \/ ClosePoolFile
  PROVE  Inv'
<1>1. /\ InFlight /\ data \in Files /\ InArchive /\ (tag \notin misled => data = Current.file)
      /\ Name \in Names
  <2>1. pc \in {"verify", "write"} /\ InFlight
    BY DEF KeepFile, ClosePoolFile, InFlight
  <2>2. data \in Files /\ InArchive /\ (tag \notin misled => data = Current.file)
    BY <2>1 DEF Inv, DataInv
  <2>3. commit \in Commits
    BY <2>1 DEF Inv, CommitInv
  <2>4. Current \in Node
    BY <2>2, <2>3, GitAssumption DEF InArchive, MoreToBuild, Current
  <2>5. Name \in Names
    BY <2>2, <2>4, GitAssumption DEF InArchive, Name, Node
  <2> QED BY <2>1, <2>2, <2>5
<1>2. /\ at' = at + 1 /\ pc' = "blob" /\ data' = Nothing
      /\ entries' = Append(entries, [name |-> Name, file |-> data])
      /\ UNCHANGED <<tag, text, commit, package, cache, sdp, resolved, misled, served>>
  BY DEF KeepFile, ClosePoolFile, NextFile, diskVars
<1>3. /\ pool' \in [Files -> {"absent", "part", "valid"}] /\ pool'[data] = "valid"
      /\ \A g \in Files : pool[g] = "valid" => pool'[g] = "valid"
  BY <1>1 DEF KeepFile, ClosePoolFile, diskVars, Inv, TypeOK
<1> DEFINE e == [name |-> Name, file |-> data]
<1>4. entries \in Seq(Entry) /\ e \in Entry
  BY <1>1 DEF Inv, TypeOK, Entry
<1>5. /\ entries' \in Seq(Entry) /\ DOMAIN entries' = DOMAIN entries \cup {Len(entries) + 1}
      /\ \A i \in DOMAIN entries : entries'[i] = entries[i]
      /\ entries'[Len(entries) + 1] = e
  <2> HIDE DEF e, Entry
  <2> QED BY <1>2, <1>4 DEF e
<1>6. TypeOK'
  BY <1>2, <1>3, <1>5 DEF Inv, TypeOK
<1>7. TextInv' /\ CommitInv' /\ DataInv' /\ PackageInv'
  BY <1>1, <1>2 DEF Inv, TextInv, CommitInv, InFlight, Named, DataInv, PackageInv
<1>8. ResolvedInv'
  BY <1>2, <1>3, PackageFiles DEF Inv, TypeOK, ResolvedInv, Complete, IsCommit
<1>9. EntriesInv'
  <2> DEFINE new == [name |-> Name, file |-> Current.file]
  <2>1. /\ at' \in 1..(Len(Tree[commit']) + 1)
        /\ EntriesBefore(commit, at + 1) = EntriesBefore(commit, at) \cup {new}
    BY <1>1, <1>2, EntriesBeforeNext DEF InArchive
  <2>2. \A i \in DOMAIN entries' : pool'[entries'[i].file] = "valid"
    <3>1. \A i \in DOMAIN entries : entries[i].file \in Files
      BY <1>4, EntryFiles
    <3> QED BY <1>1, <1>3, <1>5, <3>1 DEF Inv, EntriesInv
  <2>3. Elements(entries') = Elements(entries) \cup {e}
    <3> HIDE DEF e
    <3> QED BY <1>5 DEF Elements
  <2>4. NamesOf(Elements(entries)) = NamesOf(EntriesBefore(commit, at))
        /\ (tag \notin misled => Elements(entries) = EntriesBefore(commit, at) /\ e = new)
    BY <1>1 DEF Inv, EntriesInv
  <2>5. e.name = new.name
    OBVIOUS
  <2>6. NamesOf(Elements(entries')) = NamesOf(EntriesBefore(commit, at + 1))
    <3> HIDE DEF e, new
    <3> QED BY <2>1, <2>3, <2>4, <2>5 DEF NamesOf
  <2>7. tag \notin misled => Elements(entries') = EntriesBefore(commit, at + 1)
    <3> HIDE DEF e, new
    <3> QED BY <2>1, <2>3, <2>4
  <2> QED BY <1>2, <2>1, <2>2, <2>6, <2>7 DEF EntriesInv
<1> QED BY <1>6, <1>7, <1>8, <1>9 DEF Inv

\* Whatever the answer is: it spoils one tag, which does not count as resolved.
LEMMA DownloadKeeps ==
  ASSUME Inv, NEW f \in Files, DownloadBlob(f)
  PROVE  Inv'
<1>1. /\ UNCHANGED <<tag, text, commit, at, entries, package, cache, pool, sdp, resolved, served>>
      /\ pc = "blob" /\ pc' = "verify" /\ data' = f /\ InFlight /\ InArchive
      /\ misled' = IF f = Current.file THEN misled ELSE misled \cup {tag}
  BY DEF DownloadBlob, InFlight, diskVars
<1>2. tag \in Tags /\ resolved[tag] = Nothing /\ misled \subseteq misled'
  BY <1>1 DEF Inv, TextInv
<1>3. TypeOK'
  BY <1>1, <1>2 DEF Inv, TypeOK
<1>4. TextInv' /\ CommitInv' /\ PackageInv'
  BY <1>1 DEF Inv, TextInv, CommitInv, InFlight, Named, PackageInv
<1>5. EntriesInv'
  BY <1>1, <1>2 DEF Inv, EntriesInv, InFlight
<1>6. DataInv'
  BY <1>1, <1>2 DEF DataInv, InArchive, MoreToBuild, Current, Name
<1>7. ResolvedInv'
  BY <1>1, <1>2 DEF Inv, ResolvedInv, Complete, IsCommit
<1> QED BY <1>3, <1>4, <1>5, <1>6, <1>7 DEF Inv

LEMMA SkipKeeps ==
  ASSUME Inv, SkipFile
  PROVE  Inv'
<1>1. /\ UNCHANGED <<pc, tag, text, commit, data, entries, package, cache, pool, sdp, resolved, misled,
                     served>>
      /\ at' = at + 1 /\ pc = "blob" /\ MoreToBuild /\ InFlight /\ ~InArchive
  BY DEF SkipFile, InFlight, diskVars
<1>2. TypeOK'
  BY <1>1 DEF Inv, TypeOK
<1>3. TextInv' /\ CommitInv' /\ ResolvedInv'
  BY <1>1 DEF Inv, TextInv, CommitInv, InFlight, Named, ResolvedInv, Complete, IsCommit
<1>4. PackageInv' /\ DataInv'
  BY <1>1 DEF PackageInv, DataInv
<1>5. EntriesInv'
  <2>1. EntriesBefore(commit, at + 1) = EntriesBefore(commit, at) /\ at + 1 \in 1..(Len(Tree[commit]) + 1)
    BY <1>1, EntriesBeforeNext
  <2> QED BY <1>1, <2>1 DEF Inv, EntriesInv
<1> QED BY <1>2, <1>3, <1>4, <1>5 DEF Inv

LEMMA OpenKeeps ==
  ASSUME Inv, OpenPoolFile
  PROVE  Inv'
<1>1. /\ UNCHANGED <<tag, text, commit, at, data, entries, package, cache, sdp, resolved, misled, served>>
      /\ pc = "verify" /\ pc' = "write" /\ InFlight /\ pool[data] # "valid"
      /\ pool' = [pool EXCEPT ![data] = "part"]
  BY DEF OpenPoolFile, InFlight, versionVars
<1>2. /\ pool' \in [Files -> {"absent", "part", "valid"}]
      /\ \A g \in Files : pool[g] = "valid" => pool'[g] = "valid"
  BY <1>1 DEF Inv, TypeOK
<1>3. TypeOK'
  BY <1>1, <1>2 DEF Inv, TypeOK
<1>4. TextInv' /\ CommitInv' /\ PackageInv'
  BY <1>1 DEF Inv, TextInv, CommitInv, InFlight, Named, PackageInv
<1>5. ResolvedInv'
  BY <1>1, <1>2, PackageFiles DEF Inv, TypeOK, ResolvedInv, Complete, IsCommit
<1>6. EntriesInv'
  <2>1. \A i \in DOMAIN entries : entries[i].file \in Files
    BY EntryFiles DEF Inv, TypeOK
  <2> QED BY <1>1, <1>2, <2>1 DEF Inv, EntriesInv
<1>7. DataInv'
  BY <1>1 DEF Inv, DataInv, InArchive, MoreToBuild, Current, Name
<1> QED BY <1>3, <1>4, <1>5, <1>6, <1>7 DEF Inv

(* Build: the .sdp *)

\* Sorting keeps the entries, and how many there are.
LEMMA SortedElements ==
  ASSUME NEW q \in Seq(Entry), NEW p \in Sorted(q)
  PROVE  p \in Seq(Entry) /\ Len(p) = Len(q) /\ Elements(p) = Elements(q)
<1>1. PICK g \in [DOMAIN q -> DOMAIN q] :
        p = [i \in DOMAIN q |-> q[g[i]]] /\ \A j \in DOMAIN q : \E i \in DOMAIN q : g[i] = j
  BY DEF Sorted
<1>2. DOMAIN q = 1..Len(q) /\ Len(q) \in Nat /\ \A i \in DOMAIN q : q[i] \in Entry
  OBVIOUS
<1>3. p \in [1..Len(q) -> Entry]
  BY <1>1, <1>2
<1>4. p \in Seq(Entry) /\ Len(p) = Len(q)
  BY <1>2, <1>3
<1>5. Elements(p) = Elements(q)
  BY <1>1 DEF Elements
<1> QED BY <1>4, <1>5

LEMMA WriteKeeps ==
  ASSUME Inv, WriteSdp
  PROVE  Inv'
<1>1. /\ UNCHANGED <<tag, text, commit, at, data, entries, cache, pool, sdp, resolved, misled, served>>
      /\ pc = "blob" /\ pc' = "rename" /\ ~MoreToBuild /\ InFlight
      /\ entries # <<>> /\ package' \in Sorted(entries)
  BY DEF WriteSdp, diskVars, InFlight
<1>2. entries \in Seq(Entry)
  BY DEF Inv, TypeOK
<1>3. package' \in Seq(Entry) /\ Len(package') = Len(entries) /\ Elements(package') = Elements(entries)
  BY <1>1, <1>2, SortedElements
<1>4. IsPackage(package')
  <2> HIDE DEF Entry
  <2> QED BY <1>1, <1>2, <1>3 DEF IsPackage
<1>5. TypeOK'
  BY <1>1, <1>4 DEF Inv, TypeOK, IsPackage
<1>6. TextInv' /\ CommitInv' /\ ResolvedInv'
  BY <1>1 DEF Inv, TextInv, CommitInv, InFlight, Named, ResolvedInv, Complete, IsCommit
<1>7. EntriesInv' /\ DataInv'
  BY <1>1 DEF Inv, EntriesInv, InFlight, DataInv
<1>8. PackageInv'
  BY <1>1, <1>3, <1>4 DEF PackageInv, MoreToBuild, IsPackage, Elements
<1> QED BY <1>5, <1>6, <1>7, <1>8 DEF Inv

LEMMA RenameKeeps ==
  ASSUME Inv, RenameSdp
  PROVE  Inv'
<1>1. /\ UNCHANGED <<tag, text, commit, at, data, entries, package, cache, pool, resolved, misled, served>>
      /\ pc = "rename" /\ pc' = "parse" /\ InFlight
      /\ sdp' = [p \in DOMAIN sdp \cup {package} |-> IF p \in DOMAIN sdp THEN sdp[p] ELSE "whole"]
  BY DEF RenameSdp, versionVars, InFlight
<1>2. IsPackage(package) /\ package \in DOMAIN sdp'
  BY <1>1 DEF Inv, PackageInv
<1>3. TypeOK'
  BY <1>1, <1>2 DEF Inv, TypeOK
<1>4. TextInv' /\ CommitInv' /\ EntriesInv' /\ DataInv'
  BY <1>1 DEF Inv, TextInv, CommitInv, EntriesInv, InFlight, Named, DataInv
<1>5. ResolvedInv'
  BY <1>1 DEF Inv, ResolvedInv, Complete, IsCommit
<1>6. PackageInv'
  BY <1>1, <1>2 DEF Inv, PackageInv, MoreToBuild, IsPackage, Elements
<1> QED BY <1>3, <1>4, <1>5, <1>6 DEF Inv

\* At the end of the tree the entries are those of the commit.
LEMMA BuiltIsCommit ==
  ASSUME Inv, pc = "parse"
  PROVE  IsCommit(package, tag) /\ \A f \in FilesOf(package) : pool[f] = "valid"
<1>1. InFlight /\ Elements(package) = Elements(entries) /\ ~MoreToBuild
  BY DEF InFlight, Inv, PackageInv
<1>2. commit \in Commits /\ Tree[commit] \in Seq(Node)
  BY <1>1, GitAssumption DEF Inv, CommitInv
<1>3. at = Len(Tree[commit]) + 1 /\ DOMAIN Tree[commit] = 1..Len(Tree[commit])
  BY <1>1, <1>2 DEF Inv, EntriesInv, MoreToBuild
<1>4. EntriesBefore(commit, at) = EntriesOf(commit)
  <2>1. \A j \in DOMAIN Tree[commit] : j < at
    BY <1>2, <1>3
  <2> QED BY <2>1 DEF EntriesBefore, EntriesOf
<1>5. PICK k \in 1..served : tag \in DOMAIN Editions[k] /\ Editions[k][tag] = commit
  BY <1>1 DEF Inv, CommitInv, Named
<1>6. IsCommit(package, tag)
  BY <1>1, <1>4, <1>5 DEF Inv, EntriesInv, IsCommit
<1>7. \A f \in FilesOf(package) : \E i \in DOMAIN entries : f = entries[i].file
  BY <1>1 DEF FilesOf, Elements
<1> QED BY <1>1, <1>6, <1>7 DEF Inv, EntriesInv

LEMMA ParseKeeps ==
  ASSUME Inv, ParseSdp
  PROVE  Inv'
<1>1. /\ pc = "parse" /\ Return /\ UNCHANGED <<cache, pool, misled, served>>
      /\ resolved' = IF sdp[package] = "whole" THEN [resolved EXCEPT ![tag] = package] ELSE resolved
      /\ sdp' = IF sdp[package] = "after" THEN Without(package) ELSE sdp
  BY DEF ParseSdp
<1>2. package \in DOMAIN sdp /\ IsPackage(package) /\ tag \in Tags
  BY <1>1 DEF Inv, PackageInv, TextInv
<1>3. IsCommit(package, tag) /\ \A f \in FilesOf(package) : pool[f] = "valid"
  BY <1>1, BuiltIsCommit
<1>4. TypeOK'
  <2>1. DOMAIN resolved' = Tags /\ \A t \in Tags : resolved'[t] = Nothing \/ IsPackage(resolved'[t])
    BY <1>1, <1>2 DEF Inv, TypeOK
  <2>2. \A p \in DOMAIN sdp' : IsPackage(p) /\ sdp'[p] \in {"whole", "mid", "after"}
    BY <1>1 DEF Inv, TypeOK, Without
  <2> QED BY <1>1, <2>1, <2>2 DEF Inv, TypeOK, Return
<1>5. ResolvedInv'
  <2> SUFFICES ASSUME NEW t \in Tags, resolved'[t] # Nothing
               PROVE  Complete(resolved[t])' /\ IsCommit(resolved[t], t)'
    BY DEF ResolvedInv
  <2>1. CASE sdp[package] = "whole"
    <3>1. sdp' = sdp /\ resolved'[t] \in {resolved[t], package} /\ (t # tag => resolved'[t] = resolved[t])
      BY <1>1, <2>1 DEF Inv, TypeOK
    <3>2. CASE resolved'[t] = package /\ t = tag
      BY <1>1, <1>2, <1>3, <2>1, <3>1, <3>2 DEF Complete, IsCommit
    <3>3. CASE resolved'[t] = resolved[t]
      BY <1>1, <3>1, <3>3 DEF Inv, ResolvedInv, Complete, IsCommit
    <3> QED BY <1>1, <2>1, <3>1, <3>2, <3>3 DEF Inv, TypeOK
  <2>2. CASE sdp[package] # "whole"
    <3>1. resolved' = resolved /\ Complete(resolved[t]) /\ IsCommit(resolved[t], t)
      BY <1>1, <2>2 DEF Inv, ResolvedInv
    <3>2. resolved[t] # package
      BY <2>2, <3>1 DEF Complete
    <3> QED BY <1>1, <3>1, <3>2 DEF Complete, IsCommit, Without
  <2> QED BY <2>1, <2>2
<1> QED BY <1>1, <1>4, <1>5, ReturnStep

----------------------------------------------------------------------------
(* What else happens *)

\* While no call is under way only what is resolved matters.
LEMMA IdleStep ==
  ASSUME Inv, pc = "off", UNCHANGED <<pc, tag, text, versionVars, cache, served>>, TypeOK', ResolvedInv'
  PROVE  Inv'
<1>1. ~InFlight /\ ~InFlight' /\ entries' = entries /\ pc' = "off"
  BY DEF InFlight, versionVars
<1> QED BY <1>1 DEF Inv, TextInv, CommitInv, EntriesInv, DataInv, PackageInv

LEMMA RapidDownloadKeeps ==
  ASSUME Inv, NEW p \in RapidPackages, RapidDownload(p)
  PROVE  Inv'
<1>1. /\ pc = "off" /\ UNCHANGED <<pc, tag, text, versionVars, cache, resolved, misled, served>>
      /\ ~(p \in DOMAIN sdp /\ sdp[p] = "whole" /\ \A f \in FilesOf(p) : pool[f] # "absent")
  BY DEF RapidDownload
<1>2. /\ pool' \in [Files -> {"absent", "part", "valid"}]
      /\ \A f \in Files : pool[f] = "valid" => pool'[f] = "valid"
  <2>1. PICK F \in SUBSET {f \in FilesOf(p) : pool[f] # "valid"}, s \in {"absent", "part", "valid"} :
          pool' = [f \in Files |-> IF f \in F /\ (pool[f] = "part" => s = "absent") THEN s ELSE pool[f]]
    BY DEF RapidDownload
  <2> QED BY <2>1 DEF Inv, TypeOK
<1>3. /\ \A q \in DOMAIN sdp' : IsPackage(q) /\ sdp'[q] \in {"whole", "mid", "after"}
      /\ \A q \in DOMAIN sdp \ {p} : q \in DOMAIN sdp' /\ sdp'[q] = sdp[q]
  <2>1. CASE sdp' = Without(p)
    BY <2>1 DEF Inv, TypeOK, Without
  <2>2. ASSUME NEW s \in {"whole", "mid", "after"},
               sdp' = [q \in DOMAIN sdp \cup {p} |-> IF q = p THEN s ELSE sdp[q]]
        PROVE  /\ \A q \in DOMAIN sdp' : IsPackage(q) /\ sdp'[q] \in {"whole", "mid", "after"}
               /\ \A q \in DOMAIN sdp \ {p} : q \in DOMAIN sdp' /\ sdp'[q] = sdp[q]
    BY <2>2, GitAssumption DEF Inv, TypeOK
  <2> QED BY <2>1, <2>2 DEF RapidDownload
<1>4. TypeOK'
  BY <1>1, <1>2, <1>3 DEF Inv, TypeOK, versionVars
<1>5. ResolvedInv'
  <2> SUFFICES ASSUME NEW t \in Tags, resolved[t] # Nothing
               PROVE  Complete(resolved[t])' /\ IsCommit(resolved[t], t)'
    BY <1>1 DEF ResolvedInv
  <2>1. Complete(resolved[t]) /\ IsCommit(resolved[t], t) /\ FilesOf(resolved[t]) \subseteq Files
    BY PackageFiles DEF Inv, TypeOK, ResolvedInv
  <2>2. resolved[t] # p
    BY <1>1, <2>1 DEF Complete
  <2> QED BY <1>1, <1>2, <1>3, <2>1, <2>2 DEF Complete, IsCommit
<1> QED BY <1>1, <1>4, <1>5, IdleStep

LEMMA ValidateKeeps ==
  ASSUME Inv, ValidatePool
  PROVE  Inv'
<1>1. /\ pc = "off" /\ UNCHANGED <<pc, tag, text, versionVars, cache, sdp, resolved, misled, served>>
      /\ pool' = [f \in Files |-> IF pool[f] = "part" THEN "absent" ELSE pool[f]]
  BY DEF ValidatePool
<1>2. /\ pool' \in [Files -> {"absent", "part", "valid"}]
      /\ \A f \in Files : pool[f] = "valid" => pool'[f] = "valid"
  BY <1>1 DEF Inv, TypeOK
<1>3. TypeOK'
  BY <1>1, <1>2 DEF Inv, TypeOK, versionVars
<1>4. ResolvedInv'
  BY <1>1, <1>2, PackageFiles DEF Inv, TypeOK, ResolvedInv, Complete, IsCommit
<1> QED BY <1>1, <1>3, <1>4, IdleStep

LEMMA SetOptionKeeps ==
  ASSUME Inv, SetOption
  PROVE  Inv'
<1>1. /\ pc = "off" /\ UNCHANGED <<pc, tag, text, versionVars, cache, pool, sdp, misled, served>>
      /\ resolved' = [t \in Tags |-> Nothing]
  BY DEF SetOption, diskVars
<1>2. TypeOK' /\ ResolvedInv'
  BY <1>1 DEF Inv, TypeOK, versionVars, ResolvedInv
<1> QED BY <1>1, <1>2, IdleStep

\* Time and the server.
LEMMA OutsideKeeps ==
  ASSUME Inv, Age \/ Publish \/ UNCHANGED vars
  PROVE  Inv'
<1>1. UNCHANGED <<pc, tag, text, commit, at, data, entries, package, pool, sdp, resolved, misled>>
  BY DEF Age, Publish, vars, versionVars, diskVars
<1>2. /\ served \in Nat /\ served' \in DOMAIN Editions /\ 1..served \subseteq 1..served'
      /\ served <= served'
  BY GitAssumption DEF Inv, TypeOK, Age, Publish, vars
<1>3. cache'.text = cache.text /\ cache' \in [text : Texts \cup {NoText}, old : BOOLEAN]
  BY DEF Inv, TypeOK, Age, Publish, vars, diskVars
<1>4. TypeOK'
  BY <1>1, <1>2, <1>3 DEF Inv, TypeOK
<1>5. TextInv'
  BY <1>1, <1>2, <1>3, GitAssumption DEF Inv, TextInv
<1>6. CommitInv'
  BY <1>1, <1>2 DEF Inv, CommitInv, InFlight, Named
<1>7. EntriesInv' /\ DataInv' /\ PackageInv'
  BY <1>1 DEF Inv, EntriesInv, DataInv, PackageInv, InFlight, InArchive, MoreToBuild, Current, Name
<1>8. ResolvedInv'
  BY <1>1, <1>2 DEF Inv, ResolvedInv, Complete, IsCommit
<1> QED BY <1>4, <1>5, <1>6, <1>7, <1>8 DEF Inv

----------------------------------------------------------------------------
LEMMA StepInv ==
  ASSUME Inv, [Next]_vars
  PROVE  Inv'
<1>1. CASE Ask \/ Step
  <2>1. Ask \/ Step =>
          \/ ManifestSteps \/ (cache.text = NoText /\ UseStaleCache)
          \/ ParseTag \/ ParseTagFails \/ SkipFile \/ BlobFails
          \/ WriteSdp \/ RenameSdp \/ SdpFails \/ ParseSdp
          \/ (\E f \in Files : DownloadBlob(f)) \/ KeepFile \/ OpenPoolFile \/ ClosePoolFile
    BY DEF Step, ManifestSteps
  <2> QED BY <1>1, <2>1, ManifestKeeps, FailKeeps, ParseTagKeeps, SkipKeeps, DownloadKeeps, FileKeeps, OpenKeeps,
          WriteKeeps, RenameKeeps, ParseKeeps
<1>2. ASSUME NEW p \in RapidPackages, RapidDownload(p)
      PROVE  Inv'
  BY <1>2, RapidDownloadKeeps
<1>3. CASE ValidatePool \/ SetOption \/ Crash \/ Age \/ Publish \/ UNCHANGED vars
  BY <1>3, ValidateKeeps, SetOptionKeeps, CrashKeeps, OutsideKeeps
<1> QED BY <1>1, <1>2, <1>3 DEF Next

LEMMA Invariant == Spec => []Inv
BY InitInv, StepInv, PTL DEF Spec

\* The cache, the pool, packages/ and the state of a call are what they should be.
THEOREM TypeCorrect == Spec => []TypeOK
BY Invariant, PTL DEF Inv

\* What counts as resolved through git is a package that is listed and stored whole,
\* with the names of the wanted files of a commit that a manifest named for the tag and,
\* where no request for one brought something else, their contents
\* (GitRapidBuilder.cpp:229-385).
THEOREM ResolvesToCommit == Spec => []ResolvedIsCommit
<1>1. Inv => ResolvedIsCommit
  <2> SUFFICES ASSUME Inv, NEW t \in Tags, resolved[t] # Nothing
               PROVE  LET p == resolved[t] IN
                      /\ p \in DOMAIN sdp /\ sdp[p] = "whole"
                      /\ \A f \in FilesOf(p) : pool[f] = "valid"
                      /\ \E k \in 1..served :
                           /\ t \in DOMAIN Editions[k]
                           /\ {p[i].name : i \in DOMAIN p} = {e.name : e \in EntriesOf(Editions[k][t])}
                           /\ t \notin misled => {p[i] : i \in DOMAIN p} = EntriesOf(Editions[k][t])
    BY DEF ResolvedIsCommit
  <2> DEFINE p == resolved[t]
  <2>1. Complete(p) /\ IsCommit(p, t)
    BY DEF Inv, ResolvedInv
  <2>2. PICK k \in 1..served :
          /\ t \in DOMAIN Editions[k]
          /\ NamesOf(Elements(p)) = NamesOf(EntriesOf(Editions[k][t]))
          /\ t \notin misled => Elements(p) = EntriesOf(Editions[k][t])
    BY <2>1 DEF IsCommit
  <2> HIDE DEF p
  <2>3. Elements(p) = {p[i] : i \in DOMAIN p} /\ NamesOf(Elements(p)) = {p[i].name : i \in DOMAIN p}
    BY DEF NamesOf, Elements
  <2>4. NamesOf(EntriesOf(Editions[k][t])) = {e.name : e \in EntriesOf(Editions[k][t])}
    BY DEF NamesOf
  <2>5. /\ p \in DOMAIN sdp /\ sdp[p] = "whole"
        /\ \A f \in FilesOf(p) : pool[f] = "valid"
    BY <2>1 DEF Complete
  <2> QED BY <2>2, <2>3, <2>4, <2>5 DEF p
<1> QED BY <1>1, Invariant, PTL
================================================================================
