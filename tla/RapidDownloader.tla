---------------------------- MODULE RapidDownloader ----------------------------
(***************************************************************************)
(* CRapidDownloader and CRepo (src/src/Downloader/Rapid/): repos.gz lists  *)
(* repositories, each repository's versions.gz lists packages under tags,  *)
(* and a tag may also be resolved through a git manifest, with repos.gz to *)
(* fall back to.  All three are caches: repos.gz on disk for a day, the    *)
(* list of packages and the resolved tags in memory.  Packages name what   *)
(* they depend on.                                                         *)
(*                                                                         *)
(* One call, search or download, at a time: `call` is the one that runs,   *)
(* `pc` where it is.  Of CSdp::download only what it returns is left: true *)
(* is no promise that the files of the package are whole on the disk       *)
(* (Sdp.cpp:86 and :97, which SdpDownload models), so nothing is said of   *)
(* the disk here, only for which packages it was asked and returned true.  *)
(***************************************************************************)
EXTENDS Integers, Sequences, FiniteSets

CONSTANTS
  Packages,     \* an .sdp: its md5 determines name and content
  Name,         \* Name[p], the long name; several packages may share one
  Depends,      \* Depends[p]: the name p depends on, or NoText
  Tags,         \* short names, those with a ':'
  Spelling,     \* Spelling[t]: the letters of t, as numbers
  Releases,     \* Releases[r][k]: the lines of r's versions.gz, k-th edition
  GitBuild,     \* GitBuild[t]: the packages the git manifest may give for t
  Star, NoText,
  RecLimit,     \* how deep dependencies are followed (10 in the code)
  MaxList       \* bound: versions.gz arrives empty when more of its lines would be known

Repos == DOMAIN Releases                \* in the order repos.gz lists them
Names == {Name[p] : p \in Packages}
Texts == Tags \cup Names \cup {Star, NoText}
Line == [tag : Tags, pkg : Packages]

ASSUME RapidAssumption ==
  /\ IsFiniteSet(Packages)
  /\ Tags \cap Names = {} /\ {Star, NoText} \cap (Tags \cup Names) = {} /\ Star # NoText
  /\ Depends \in [Packages -> Names \cup {NoText}]
  /\ Spelling \in [Tags -> Seq(Nat)]
  /\ Releases \in Seq(Seq(Seq(Line)))
  /\ \A r \in Repos : Releases[r] # <<>>
  /\ GitBuild \in [Tags -> SUBSET Packages]
  /\ RecLimit \in Nat /\ MaxList \in Nat

VARIABLES
  (* the disk *)
  reposgz,      \* how many lines of repos.gz can be read, and whether it is old
  (* CRapidDownloader *)
  repos,        \* how many of Repos are known
  sdps,         \* the packages known: CSdps
  passed,       \* the packages for which CSdp::download has returned true
  scrambled,    \* tags with several packages that a sort without an order has moved
  forceUpdate,
  gitEnabled,   \* rapidGitEnabled, and there is a rapidGitManifestUrl
  rapidGitResolvedTags,
  built,        \* built[t]: what git gave for t last
  (* the call *)
  pc, call,
  next,         \* of updateRepos: the repository to parse next
  stack,        \* the frames of download_name
  found,        \* of search: the packages found, with their tags
  finished,     \* of download: the state it left the IDownload in
  ret

diskVars == <<reposgz>>
memVars == <<repos, sdps, passed, scrambled, forceUpdate, gitEnabled, rapidGitResolvedTags, built>>
callVars == <<pc, call, next, stack, found, finished, ret>>
rapidVars == <<diskVars, memVars, callVars>>

GitStates == {"not", "trying", "used", "failed"}
CSdp == [tag : Tags, pkg : Packages, downloaded : BOOLEAN]
Frame == [name : Texts, at : Nat \ {0}, seen : SUBSET Packages]

RapidTypeOK ==
  /\ reposgz \in [lines : 0..Len(Releases), old : BOOLEAN]
  /\ repos \in 0..Len(Releases) /\ sdps \in Seq(CSdp)
  /\ passed \subseteq Packages /\ scrambled \subseteq Tags
  /\ forceUpdate \in BOOLEAN /\ gitEnabled \in BOOLEAN
  /\ rapidGitResolvedTags \subseteq Tags /\ built \in [Tags -> SUBSET Packages]
  /\ pc \in {"off", "resolve", "repos", "parse", "collect", "walk"}
  /\ call \in [op : {"search", "download"}, text : Texts, name : Texts, git : GitStates]
  /\ next \in 1..(Len(Releases) + 1)
  /\ stack \in Seq(Frame) /\ Len(stack) <= RecLimit + 1
  /\ found \in Seq(Line) /\ finished \in BOOLEAN /\ ret \in BOOLEAN

----------------------------------------------------------------------------
(* Matching and sorting *)

Matches(str, text) == text = Star \/ str = text

\* list_compare
Less(s, t) ==
  \E i \in 1..Len(Spelling[s]) : i <= Len(Spelling[t]) /\ Spelling[s][i] < Spelling[t][i]

\* What list::sort needs of list_compare; it then keeps equal elements in order.
Ordered(q) ==
  \A s, t, u \in {q[k].tag : k \in DOMAIN q} :
    /\ ~(Less(s, t) /\ Less(t, s))
    /\ Less(s, u) => Less(s, t) \/ Less(t, u)

InPlace(q, f) ==
  \A j, k \in DOMAIN q : j < k =>
    /\ ~Less(q[f[k]].tag, q[f[j]].tag)
    /\ ~Less(q[f[j]].tag, q[f[k]].tag) => f[j] < f[k]

Sorted(q) ==
  {[k \in DOMAIN q |-> q[f[k]]] :
     f \in {g \in [DOMAIN q -> DOMAIN q] :
              /\ \A j \in DOMAIN q : \E k \in DOMAIN q : g[k] = j
              /\ Ordered(q) => InPlace(q, g)}}

NewSdp(line) == [tag |-> line.tag, pkg |-> line.pkg, downloaded |-> FALSE]

\* The ways to go through all positions K of a sequence in order (there is one).
InOrder(K) ==
  {f \in [1..Cardinality(K) -> K] :
     /\ \A i, j \in DOMAIN f : i < j => f[i] < f[j]
     /\ \A k \in K : \E i \in DOMAIN f : f[i] = k}

\* CollectSearchResults: of every short name the first that matches.
Hits(q, text) ==
  LET Match(k) == Matches(q[k].tag, text) \/ Matches(Name[q[k].pkg], text)
      First(k) == Match(k) /\ \A j \in 1..(k - 1) : Match(j) => q[j].tag # q[k].tag
  IN {[i \in DOMAIN f |-> [tag |-> q[f[i]].tag, pkg |-> q[f[i]].pkg]] :
        f \in InOrder({k \in DOMAIN q : First(k)})}

----------------------------------------------------------------------------
(* The beginning and the end of a call *)

\* A tag is the only text with a ':'.  The category is one of a game's.
IsGitCandidate(text) == gitEnabled /\ text \in Tags

NoCall == [op |-> "search", text |-> NoText, name |-> NoText, git |-> "not"]

Begin(op, text, name) ==
  /\ pc = "off"
  /\ LET git == IsGitCandidate(text) IN
     /\ call' = [op |-> op, text |-> text, name |-> name,
                 git |-> IF git THEN "trying" ELSE "not"]
     /\ pc' = IF git THEN "resolve" ELSE "repos"
  /\ stack' = <<>> /\ found' = <<>> /\ finished' = FALSE
  /\ UNCHANGED <<diskVars, memVars, next, ret>>

\* What is local to a call goes with it; `repos` is filled again before it is used.
End ==
  /\ call' = NoCall /\ next' = 1 /\ found' = <<>> /\ finished' = FALSE /\ ret' = FALSE
  /\ repos' = 0
  /\ UNCHANGED <<diskVars, sdps, passed, scrambled, forceUpdate, gitEnabled,
                 rapidGitResolvedTags, built, pc, stack>>

BeginSearch(text) == Begin("search", text, text)
BeginDownload(origin, name) == Begin("download", origin, name)

Return(ok) == pc' = "off" /\ ret' = ok

NewFrame(name) == [name |-> name, at |-> 1, seen |-> {}]
StartWalk == pc' = "walk" /\ stack' = <<NewFrame(call.name)>>
Proceed == IF call.op = "search" THEN pc' = "collect" /\ UNCHANGED stack ELSE StartWalk

----------------------------------------------------------------------------
(* TryResolveViaGit *)

\* Mutant of Others: the packages of the tag that are known stay.
OthersAndOld(tag) == DOMAIN sdps

Others(tag) == {k \in DOMAIN sdps : sdps[k].tag # tag}

ResolvedBefore ==
  /\ pc = "resolve" /\ call.text \in rapidGitResolvedTags
  /\ call' = [call EXCEPT !.git = "used"]
  /\ Proceed
  /\ UNCHANGED <<diskVars, memVars, next, found, finished, ret>>

\* The builder writes the package's files and its .sdp (GitRapid).  The CSdp is a new
\* one: CSdp::download is called for this package, too.
Resolve ==
  /\ pc = "resolve" /\ call.text \notin rapidGitResolvedTags
  /\ \E p \in GitBuild[call.text] :
       /\ \E f \in InOrder(Others(call.text)) :
            sdps' = Append([i \in DOMAIN f |-> sdps[f[i]]],
                           NewSdp([tag |-> call.text, pkg |-> p]))
       /\ built' = [built EXCEPT ![call.text] = {p}]
  /\ rapidGitResolvedTags' = rapidGitResolvedTags \cup {call.text}
  /\ scrambled' = scrambled \ {call.text}
  /\ call' = [call EXCEPT !.git = "used"]
  /\ Proceed
  /\ UNCHANGED <<diskVars, repos, passed, forceUpdate, gitEnabled,
                 next, found, finished, ret>>

ResolveFails ==
  /\ pc = "resolve" /\ call.text \notin rapidGitResolvedTags
  /\ call' = [call EXCEPT !.git = "failed"]
  /\ pc' = "repos"
  /\ UNCHANGED <<diskVars, memVars, stack, next, found, finished, ret>>

----------------------------------------------------------------------------
(* updateRepos *)

Cached == ~forceUpdate /\ ~reposgz.old /\ reposgz.lines > 0

UseCachedRepos ==
  /\ pc = "repos" /\ Cached
  /\ repos' = reposgz.lines
  /\ pc' = "parse"
  /\ UNCHANGED <<diskVars, sdps, passed, scrambled, forceUpdate, gitEnabled,
                 rapidGitResolvedTags, built, call, stack, next, found, finished, ret>>

\* A transfer that was cut gives fewer lines; a file that was not modified keeps
\* its age.
DownloadRepos ==
  /\ pc = "repos" /\ ~Cached
  /\ \/ \E n \in 1..Len(Releases) : reposgz' = [lines |-> n, old |-> FALSE]
     \/ reposgz.lines > 0 /\ UNCHANGED reposgz
  /\ repos' = reposgz'.lines
  /\ forceUpdate' = FALSE
  /\ pc' = "parse"
  /\ UNCHANGED <<sdps, passed, scrambled, gitEnabled,
                 rapidGitResolvedTags, built, call, stack, next, found, finished, ret>>

\* updateRepos returned false.  Only download() without git takes notice.
WithoutRepos ==
  IF call.op = "download" /\ call.git = "not"
  THEN Return(FALSE) /\ UNCHANGED stack
  ELSE Proceed /\ UNCHANGED ret

\* Nothing arrives, a part arrives and the transfer fails, or no line of what
\* arrived can be read.  `repos` is not used before it is filled again.
DownloadReposFails ==
  /\ pc = "repos" /\ ~Cached
  /\ \/ \E n \in 0..Len(Releases) : reposgz' = [lines |-> n, old |-> FALSE]
     \/ UNCHANGED reposgz
  /\ repos' \in {repos, 0}
  /\ forceUpdate' = FALSE
  /\ WithoutRepos
  /\ UNCHANGED <<sdps, passed, scrambled, gitEnabled,
                 rapidGitResolvedTags, built, call, next, found, finished>>

\* How many packages of the list came from a versions.gz, for the bound
Listed(q) == Cardinality({k \in DOMAIN q : q[k].pkg \notin built[q[k].tag]})

\* Mutant of ParseVersions: an update begins with an empty list.
ParseAnew ==
  /\ pc = "parse" /\ next <= repos
  /\ \E edition \in DOMAIN Releases[next] :
       LET lines == Releases[next][edition]
           kept == IF next = 1 THEN <<>> ELSE sdps
       IN \E n \in 0..Len(lines) :
            /\ n > 0 => Listed(kept) + n <= MaxList
            /\ sdps' = kept \o [k \in 1..n |-> NewSdp(lines[k])]
  /\ next' = next + 1
  /\ UNCHANGED <<diskVars, repos, passed, scrambled, forceUpdate, gitEnabled,
                 rapidGitResolvedTags, built, pc, call, stack, found, finished, ret>>

\* The next repository's versions.gz.  CRepo::getDownload asks for the file
\* always (REPO_RECHECK_TIME is 0) and the result of the batch is not looked at:
\* what CRepo::parse reads is the server's file or the one an earlier transfer
\* left, of any edition, and may be cut or not there.  The packages come after
\* those known.  The bound: when there would be too many the file is not there.
ParseVersions ==
  /\ pc = "parse" /\ next <= repos
  /\ \E edition \in DOMAIN Releases[next] :
       LET lines == Releases[next][edition] IN
       \E n \in 0..Len(lines) :
         /\ n > 0 => Listed(sdps) + n <= MaxList
         /\ sdps' = sdps \o [k \in 1..n |-> NewSdp(lines[k])]
  /\ next' = next + 1
  /\ UNCHANGED <<diskVars, repos, passed, scrambled, forceUpdate, gitEnabled,
                 rapidGitResolvedTags, built, pc, call, stack, found, finished, ret>>

\* updateRepos returned true.
Updated ==
  /\ pc = "parse" /\ next > repos
  /\ Proceed
  /\ UNCHANGED <<diskVars, memVars, call, next, found, finished, ret>>

----------------------------------------------------------------------------
(* search *)

\* The tags under which the list has more than one package.
Shared(q) ==
  {q[k].tag : k \in {i \in DOMAIN q : \E j \in DOMAIN q : q[j].tag = q[i].tag /\ q[j].pkg # q[i].pkg}}

\* After git answered something is always found (GitAnswers), so that the last
\* fallback of search (RapidDownloader.cpp:228) is never taken.  When list_compare is
\* no order of what is known, the sort may leave the list in any order.
Collect ==
  /\ pc = "collect"
  /\ sdps' \in Sorted(sdps)
  /\ scrambled' = IF Ordered(sdps) THEN scrambled ELSE scrambled \cup Shared(sdps)
  /\ found' \in Hits(sdps', call.text)
  /\ Return(TRUE)
  /\ UNCHANGED <<diskVars, repos, passed, forceUpdate, gitEnabled, rapidGitResolvedTags,
                 built, call, next, stack, finished>>

----------------------------------------------------------------------------
(* download_name *)

Top == stack[Len(stack)]
Below == SubSeq(stack, 1, Len(stack) - 1)

\* The packages the topmost frame has still to look at.
Left == {k \in Top.at..Len(sdps) :
           Matches(Name[sdps[k].pkg], Top.name) /\ sdps[k].pkg \notin Top.seen}
IsNext(k) == k \in Left /\ \A j \in Left : k <= j

\* Mutant of WalkFails: it is not kept that git was tried.
WalkFailsOver ==
  /\ stack' = <<>>
  /\ IF call.git = "used"
     THEN pc' = "repos" /\ UNCHANGED <<call, ret>>
     ELSE Return(FALSE) /\ UNCHANGED call

\* download_name returned false.  After git the repositories are asked.
WalkFails ==
  /\ stack' = <<>>
  /\ IF call.git = "used"
     THEN pc' = "repos" /\ call' = [call EXCEPT !.git = "failed"] /\ UNCHANGED ret
     ELSE Return(FALSE) /\ UNCHANGED call

\* Mutant of Matched: a name that nothing matches is no failure.
MatchedOrNot == TRUE

Matched == Top.seen # {}

\* No package is left.
WalkEnds ==
  /\ pc = "walk" /\ Left = {}
  /\ IF ~Matched THEN WalkFails
     ELSE /\ stack' = Below
          /\ IF Below = <<>> THEN Return(TRUE) ELSE UNCHANGED <<pc, ret>>
          /\ UNCHANGED call
  /\ UNCHANGED <<diskVars, memVars, next, found, finished>>

\* Mutant of Advance: one level too deep.
AdvanceDeeper(k) ==
  LET p == sdps[k].pkg
      moved == Append(Below, [Top EXCEPT !.at = k + 1, !.seen = @ \cup {p}])
  IN IF Depends[p] = NoText THEN stack' = moved /\ UNCHANGED <<pc, call, ret>>
     ELSE IF Len(stack) > RecLimit + 1 THEN WalkFails
     ELSE stack' = Append(moved, NewFrame(Depends[p])) /\ UNCHANGED <<pc, call, ret>>

\* The package was dealt with: on to the next one, or to what it depends on.
Advance(k) ==
  LET p == sdps[k].pkg
      moved == Append(Below, [Top EXCEPT !.at = k + 1, !.seen = @ \cup {p}])
  IN IF Depends[p] = NoText THEN stack' = moved /\ UNCHANGED <<pc, call, ret>>
     ELSE IF Len(stack) > RecLimit THEN WalkFails
     ELSE stack' = Append(moved, NewFrame(Depends[p])) /\ UNCHANGED <<pc, call, ret>>

\* CSdp::download returned true, at once if this CSdp was downloaded before: then
\* the state of the IDownload is not touched.
WalkSdp ==
  /\ pc = "walk"
  /\ \E k \in Left :
     /\ IsNext(k)
     /\ sdps' = [sdps EXCEPT ![k].downloaded = TRUE]
     /\ passed' = passed \cup {sdps[k].pkg}
     /\ finished' = (finished \/ ~sdps[k].downloaded)
     /\ Advance(k)
  /\ UNCHANGED <<diskVars, repos, scrambled, forceUpdate, gitEnabled,
                 rapidGitResolvedTags, built, next, found>>

\* Mutant of WalkSdpFails: the state is set before the package is downloaded.
WalkSdpFailsFinished ==
  /\ pc = "walk"
  /\ \E k \in Left : IsNext(k) /\ ~sdps[k].downloaded
  /\ finished' = TRUE
  /\ WalkFails
  /\ UNCHANGED <<diskVars, memVars, next, found>>

\* CSdp::download returned false.
WalkSdpFails ==
  /\ pc = "walk"
  /\ \E k \in Left : IsNext(k) /\ ~sdps[k].downloaded
  /\ WalkFails
  /\ UNCHANGED <<diskVars, memVars, next, found, finished>>

----------------------------------------------------------------------------
(* Between calls *)

\* setOption
SetForceUpdate ==
  /\ pc = "off"
  /\ forceUpdate' = TRUE /\ rapidGitResolvedTags' = {}
  /\ UNCHANGED <<diskVars, repos, sdps, passed, scrambled, gitEnabled, built, callVars>>

SetGit(enabled) ==
  /\ pc = "off"
  /\ gitEnabled' = enabled /\ rapidGitResolvedTags' = {}
  /\ UNCHANGED <<diskVars, repos, sdps, passed, scrambled, forceUpdate, built, callVars>>

\* More than REPO_MASTER_RECHECK_TIME goes by.
Age ==
  /\ pc = "off" /\ reposgz.lines > 0 /\ ~reposgz.old
  /\ reposgz' = [reposgz EXCEPT !.old = TRUE]
  /\ UNCHANGED <<memVars, callVars>>

\* A new process, and the files that earlier ones may have left.
RapidInit ==
  /\ reposgz \in [lines : 0..Len(Releases), old : BOOLEAN]
  /\ repos = 0 /\ sdps = <<>> /\ passed = {} /\ scrambled = {}
  /\ forceUpdate = FALSE /\ gitEnabled = FALSE
  /\ rapidGitResolvedTags = {} /\ built = [t \in Tags |-> {}]
  /\ pc = "off" /\ call = NoCall /\ next = 1
  /\ stack = <<>> /\ found = <<>> /\ finished = FALSE /\ ret = FALSE

RapidStep ==
  \/ ResolvedBefore \/ Resolve \/ ResolveFails
  \/ UseCachedRepos \/ DownloadRepos \/ DownloadReposFails
  \/ ParseVersions \/ Updated
  \/ Collect \/ WalkEnds \/ WalkSdp \/ WalkSdpFails

----------------------------------------------------------------------------
(* Properties *)

Known == {sdps[k].pkg : k \in DOMAIN sdps}

\* Of every package of that name CSdp::download returned true, and there is one, and
\* so it is with all that these depend on, and what that depends on in turn.
AllPassed(name) ==
  \E N \in SUBSET Names :
    /\ name \in N
    /\ \A n \in N : \E p \in Known : Name[p] = n
    /\ \A p \in Known : Name[p] \in N =>
         p \in passed /\ (Depends[p] # NoText => Depends[p] \in N)

\* When download() returns true, no package was left out: CSdp::download returned
\* true for each of that name and of the names it depends on, at any depth
\* (RapidDownloader.cpp:91-127: the recursion over names that several packages may
\* share, which skips what it has met, stops at the first failure and at ten levels,
\* and begins anew after git).  That their files are whole does not follow from it.
TrueMeansPassed == pc = "off" /\ call.op = "download" /\ ret => AllPassed(call.name)

\* A search that git answered finds a package of the tag it asked for, so that the
\* fallback of RapidDownloader.cpp:228 never runs.  It is the one that git built for
\* the tag last, and none that repos.gz lists, however often updateRepos has added
\* those since, with one exception: since the tag was resolved the list was sorted
\* while list_compare (RapidDownloader.cpp:83) was no order of the tags in it and
\* packages of the repositories were among those of the tag.  Then it may be theirs.
GitAnswers ==
  pc = "off" /\ call.op = "search" /\ call.git = "used" /\ ret =>
    \E k \in DOMAIN found :
      /\ found[k].tag = call.text
      /\ call.text \notin scrambled => found[k].pkg \in built[call.text]

================================================================================
