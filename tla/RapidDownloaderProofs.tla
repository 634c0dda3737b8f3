-------------------------- MODULE RapidDownloaderProofs ------------------------
(***************************************************************************)
(* What the steps of a rapid call preserve, for any packages, repositories *)
(* and editions; DownloadApiProofs makes theorems of it.                   *)
(*                                                                         *)
(* FrameInv says what is known of a frame of download_name when it is      *)
(* half done: CSdp::download returned true for the packages it has seen,   *)
(* and for all they depend on, or that is what the next frame is about.    *)
(* FirstInv says that of each tag git has resolved a package comes first,  *)
(* and that it is git's, wherever updateRepos and a sort that is one have  *)
(* put the others.                                                         *)
(***************************************************************************)
EXTENDS RapidDownloader, TLAPS, FiniteSetTheorems, WellFoundedInduction

\* Where a call can be with what it is about.
CallInv ==
  /\ call.op = "download" => call.name \in Names
  /\ call.git # "not" => call.text \in Tags
  /\ call.git = "used" => call.text \in rapidGitResolvedTags
  /\ pc = "resolve" => call.git = "trying"
  /\ pc = "walk" => call.op = "download" /\ stack # <<>> /\ stack[1].name = call.name
  /\ pc # "walk" => stack = <<>>
  /\ pc = "collect" => call.op = "search"
  /\ pc # "off" \/ call.op = "download" => found = <<>>
  /\ pc # "off" => ret \in BOOLEAN

\* What a search found are packages known.
FoundInv ==
  \A i \in DOMAIN found : \E k \in DOMAIN sdps : sdps[k].tag = found[i].tag /\ sdps[k].pkg = found[i].pkg

SomePassed(name) == \E p \in passed : Name[p] = name

\* What counts as downloaded is there.
DownloadedInv ==
  /\ \A k \in DOMAIN sdps : sdps[k].downloaded => sdps[k].pkg \in passed
  /\ finished => call.op = "download" /\ SomePassed(call.name)

FrameInv(i) ==
  LET F == stack[i] IN
  /\ F.name \in Names
  /\ \A k \in DOMAIN sdps : k < F.at /\ Name[sdps[k].pkg] = F.name => sdps[k].pkg \in F.seen
  /\ \A p \in F.seen :
       /\ p \in Known /\ p \in passed /\ Name[p] = F.name
       /\ \/ Depends[p] = NoText \/ AllPassed(Depends[p])
          \/ i < Len(stack) /\ stack[i + 1].name = Depends[p]
  /\ i < Len(stack) => F.seen # {}

WalkInv == \A i \in DOMAIN stack : FrameInv(i)

IsFirst(q, k, t) == k \in DOMAIN q /\ q[k].tag = t /\ \A j \in DOMAIN q : j < k => q[j].tag # t

FirstInv ==
  \A t \in rapidGitResolvedTags :
    \E k \in DOMAIN sdps : IsFirst(sdps, k, t) /\ (t \notin scrambled => sdps[k].pkg \in built[t])

RapidInv ==
  /\ RapidTypeOK /\ CallInv /\ FoundInv /\ DownloadedInv /\ WalkInv /\ FirstInv
  /\ TrueMeansPassed /\ GitAnswers

CallType == [op : {"search", "download"}, text : Texts, name : Texts, git : GitStates]

----------------------------------------------------------------------------
(* The operators *)

LEMMA InOrderFacts ==
  ASSUME NEW n \in Nat, NEW K \in SUBSET (1..n), NEW f \in InOrder(K)
  PROVE  /\ Cardinality(K) \in Nat /\ f \in [1..Cardinality(K) -> K]
         /\ \A i, j \in 1..Cardinality(K) : i < j => f[i] < f[j]
         /\ \A k \in K : \E i \in 1..Cardinality(K) : f[i] = k
<1>1. Cardinality(K) \in Nat
  <2>1. IsFiniteSet(1..n)
    BY FS_Interval
  <2>2. IsFiniteSet(K)
    BY <2>1, FS_Subset
  <2> QED BY <2>2, FS_CardinalityType
<1> QED BY <1>1 DEF InOrder

\* Among natural numbers there is a smallest.
LEMMA LeastPosition ==
  ASSUME NEW S \in SUBSET Nat, S # {}
  PROVE  \E m \in S : \A k \in S : m <= k
<1> DEFINE R == {pair \in Nat \X Nat : pair[1] < pair[2]}
<1>1. IsWellFoundedOn(R, Nat)
  BY NatLessThanWellFounded DEF OpToRel
<1>2. PICK m \in S : \A k \in S : ~(<<k, m>> \in R)
  BY <1>1, WFMin
<1>3. \A k \in S : ~(k < m)
  BY <1>2
<1> QED BY <1>3

\* A tag that is in the list has a first package there.
LEMMA FirstExists ==
  ASSUME NEW q \in Seq(CSdp), NEW t, NEW k \in DOMAIN q, q[k].tag = t
  PROVE  \E i \in DOMAIN q : IsFirst(q, i, t)
<1> DEFINE S == {j \in DOMAIN q : q[j].tag = t}
<1>1. S \in SUBSET Nat /\ S # {}
  OBVIOUS
<1>2. PICK i \in S : \A j \in S : i <= j
  BY <1>1, LeastPosition
<1>3. \A j \in DOMAIN q : j < i => q[j].tag # t
  BY <1>1, <1>2
<1> QED BY <1>2, <1>3 DEF IsFirst

\* A sort keeps what is there.
LEMMA SortedFacts ==
  ASSUME NEW q \in Seq(CSdp), NEW p \in Sorted(q)
  PROVE  /\ p \in Seq(CSdp) /\ DOMAIN p = DOMAIN q
         /\ \A k \in DOMAIN q : \E j \in DOMAIN p : p[j] = q[k]
         /\ \A j \in DOMAIN p : \E k \in DOMAIN q : p[j] = q[k]
<1>1. PICK g \in [DOMAIN q -> DOMAIN q] :
        /\ p = [k \in DOMAIN q |-> q[g[k]]]
        /\ \A j \in DOMAIN q : \E k \in DOMAIN q : g[k] = j
  BY DEF Sorted
<1>2. DOMAIN q = 1..Len(q) /\ Len(q) \in Nat /\ \A k \in DOMAIN q : q[k] \in CSdp
  OBVIOUS
<1>3. p \in [1..Len(q) -> CSdp]
  BY <1>1, <1>2
<1>4. p \in Seq(CSdp) /\ DOMAIN p = DOMAIN q
  BY <1>2, <1>3
<1>5. /\ \A k \in DOMAIN q : \E j \in DOMAIN p : p[j] = q[k]
      /\ \A j \in DOMAIN p : \E k \in DOMAIN q : p[j] = q[k]
  BY <1>1
<1> QED BY <1>4, <1>5

\* Among packages of one tag a sort keeps the order, if list_compare is an order
\* on what there is.
LEMMA SortedFirst ==
  ASSUME NEW q \in Seq(CSdp), NEW p \in Sorted(q), Ordered(q), NEW t \in Tags, NEW k, IsFirst(q, k, t)
  PROVE  \E i : IsFirst(p, i, t) /\ p[i] = q[k]
<1>1. PICK g \in [DOMAIN q -> DOMAIN q] :
        /\ p = [i \in DOMAIN q |-> q[g[i]]]
        /\ \A j \in DOMAIN q : \E i \in DOMAIN q : g[i] = j
        /\ InPlace(q, g)
  BY DEF Sorted
<1>2. PICK i \in DOMAIN q : g[i] = k
  BY <1>1 DEF IsFirst
<1>3. ~Less(t, t)
  BY RapidAssumption DEF Less
<1>4. \A j \in DOMAIN q : j < i /\ q[g[j]].tag = t => g[j] < g[i]
  BY <1>2, <1>3, <1>1 DEF InPlace, IsFirst
<1>5. p[i] = q[k] /\ DOMAIN p = DOMAIN q /\ \A j \in DOMAIN p : p[j] = q[g[j]] /\ g[j] \in DOMAIN q
  BY <1>1, <1>2
<1> QED BY <1>2, <1>4, <1>5 DEF IsFirst

LEMMA HitsFacts ==
  ASSUME NEW q \in Seq(CSdp), NEW text, NEW h \in Hits(q, text)
  PROVE  /\ h \in Seq(Line)
         /\ \A i \in DOMAIN h : \E k \in DOMAIN q : h[i].tag = q[k].tag /\ h[i].pkg = q[k].pkg
         /\ \A k : IsFirst(q, k, text) =>
              \E i \in DOMAIN h : h[i].tag = text /\ h[i].pkg = q[k].pkg
<1> DEFINE Match(k) == Matches(q[k].tag, text) \/ Matches(Name[q[k].pkg], text)
           First(k) == Match(k) /\ \A j \in 1..(k - 1) : Match(j) => q[j].tag # q[k].tag
           K == {k \in DOMAIN q : First(k)}
<1>1. PICK f \in InOrder(K) : h = [i \in DOMAIN f |-> [tag |-> q[f[i]].tag, pkg |-> q[f[i]].pkg]]
  BY DEF Hits
<1>2. DOMAIN q = 1..Len(q) /\ Len(q) \in Nat /\ K \subseteq DOMAIN q
  OBVIOUS
<1>3. \A k \in DOMAIN q : q[k].tag \in Tags /\ q[k].pkg \in Packages
  <2>1. \A k \in DOMAIN q : q[k] \in CSdp
    OBVIOUS
  <2> QED BY <2>1 DEF CSdp
<1>4. /\ Cardinality(K) \in Nat /\ DOMAIN f = 1..Cardinality(K) /\ \A i \in DOMAIN f : f[i] \in K
      /\ \A k \in K : \E i \in DOMAIN f : f[i] = k
  <2> HIDE DEF K
  <2>1. K \in SUBSET (1..Len(q))
    BY <1>2
  <2>2. /\ Cardinality(K) \in Nat /\ f \in [1..Cardinality(K) -> K]
        /\ \A k \in K : \E i \in 1..Cardinality(K) : f[i] = k
    BY <1>1, <1>2, <2>1, InOrderFacts
  <2> QED BY <2>2
<1>5. ASSUME NEW k, IsFirst(q, k, text)
      PROVE  k \in K
  <2>1. Match(k) /\ k \in DOMAIN q
    BY <1>5 DEF Matches, IsFirst
  <2>2. \A j \in 1..(k - 1) : q[j].tag # q[k].tag
    BY <1>2, <1>5 DEF IsFirst
  <2> QED BY <2>1, <2>2
<1> HIDE DEF K
<1>6. h \in [1..Cardinality(K) -> Line]
  BY <1>1, <1>2, <1>3, <1>4 DEF Line
<1>7. h \in Seq(Line)
  BY <1>4, <1>6
<1>8. \A i \in DOMAIN h : \E k \in DOMAIN q : h[i].tag = q[k].tag /\ h[i].pkg = q[k].pkg
  BY <1>1, <1>2, <1>4
<1>9. \A k \in K : \E i \in DOMAIN h : h[i].tag = q[k].tag /\ h[i].pkg = q[k].pkg
  BY <1>1, <1>4
<1> QED BY <1>5, <1>7, <1>8, <1>9 DEF IsFirst

LEMMA AllPassedKept ==
  ASSUME NEW n, AllPassed(n), Known' = Known, passed \subseteq passed'
  PROVE  AllPassed(n)'
BY DEF AllPassed

\* Without a package left, and with one found, a frame's name is complete.
LEMMA FramePassed ==
  ASSUME NEW n \in Names, \E p \in Known : Name[p] = n,
         \A p \in Known : Name[p] = n =>
           p \in passed /\ (Depends[p] = NoText \/ AllPassed(Depends[p])), RapidTypeOK
  PROVE  AllPassed(n)
<1> DEFINE N == {m \in Names : AllPassed(m)} \cup {n}
<1>1. \A m \in N : \E p \in Known : Name[p] = m
  BY DEF AllPassed
<1>2. ASSUME NEW p \in Known, Name[p] \in N
      PROVE  p \in passed /\ (Depends[p] # NoText => Depends[p] \in N)
  <2>1. p \in Packages
    <3>1. \A k \in DOMAIN sdps : sdps[k] \in CSdp
      BY DEF RapidTypeOK
    <3> QED BY <3>1 DEF Known, CSdp
  <2>2. Depends[p] # NoText => Depends[p] \in Names
    BY <2>1, RapidAssumption
  <2>3. CASE Name[p] = n
    BY <2>2, <2>3
  <2>4. CASE AllPassed(Name[p])
    <3>1. PICK M \in SUBSET Names :
            /\ Name[p] \in M /\ \A m \in M : \E r \in Known : Name[r] = m
            /\ \A r \in Known : Name[r] \in M => r \in passed /\ (Depends[r] # NoText => Depends[r] \in M)
      BY <2>4 DEF AllPassed
    <3>2. Depends[p] # NoText => AllPassed(Depends[p])
      BY <3>1 DEF AllPassed
    <3> QED BY <2>2, <3>1, <3>2
  <2> QED BY <1>2, <2>3, <2>4
<1>3. N \in SUBSET Names /\ n \in N
  OBVIOUS
<1> HIDE DEF N
<1> QED BY <1>1, <1>2, <1>3 DEF AllPassed

----------------------------------------------------------------------------
(* The beginning and the end of a call *)

LEMMA EmptyTypes ==
  /\ <<>> \in Seq(Frame) /\ Len(<<>>) <= RecLimit + 1 /\ <<>> \in Seq(Line) /\ <<>> \in Seq(CSdp)
  /\ Len(Releases) \in Nat /\ 0 \in 0..Len(Releases) /\ 1 \in 1..(Len(Releases) + 1)
  /\ FALSE \in BOOLEAN
<1>1. /\ <<>> \in Seq(Frame) /\ Len(<<>>) = 0 /\ <<>> \in Seq(Line) /\ <<>> \in Seq(CSdp)
      /\ Len(Releases) \in Nat
  BY RapidAssumption
<1>2. 0 <= RecLimit + 1
  BY RapidAssumption
<1> QED BY <1>1, <1>2

LEMMA RapidInitInv ==
  ASSUME RapidInit
  PROVE  RapidInv
<1>2. NoCall \in CallType
  BY DEF NoCall, CallType, Texts, GitStates
<1>3. RapidTypeOK
  BY <1>2, EmptyTypes DEF RapidInit, RapidTypeOK, CallType
<1>4. CallInv /\ FoundInv /\ DownloadedInv /\ WalkInv /\ FirstInv
  BY DEF RapidInit, CallInv, FoundInv, DownloadedInv, WalkInv, FirstInv, NoCall
<1>5. TrueMeansPassed /\ GitAnswers
  BY DEF RapidInit, TrueMeansPassed, GitAnswers
<1> QED BY <1>3, <1>4, <1>5 DEF RapidInv

LEMMA BeginInv ==
  ASSUME RapidInv, NEW op \in {"search", "download"}, NEW text \in Texts, NEW name \in Texts,
         op = "download" => name \in Names, Begin(op, text, name)
  PROVE  RapidInv'
<1>1. /\ UNCHANGED <<reposgz, passed, repos, sdps, scrambled, forceUpdate, gitEnabled,
                     rapidGitResolvedTags, built, next, ret>>
      /\ stack' = <<>> /\ found' = <<>> /\ finished' = FALSE
      /\ pc = "off" /\ pc' \in {"resolve", "repos"}
  BY DEF Begin, diskVars, memVars
<1>2. /\ call' \in CallType /\ call'.op = op /\ call'.name = name
      /\ \/ call'.git = "not" /\ pc' = "repos"
         \/ call'.git = "trying" /\ pc' = "resolve" /\ call'.text \in Tags
  BY DEF Begin, CallType, GitStates, IsGitCandidate
<1>3. RapidTypeOK'
  BY <1>1, <1>2, EmptyTypes DEF RapidInv, RapidTypeOK, CallType
<1>4. CallInv'
  BY <1>1, <1>2 DEF CallInv, RapidInv, RapidTypeOK
<1>5. FoundInv' /\ DownloadedInv' /\ WalkInv' /\ FirstInv'
  BY <1>1 DEF RapidInv, FoundInv, DownloadedInv, WalkInv, FirstInv
<1>6. TrueMeansPassed' /\ GitAnswers'
  BY <1>1 DEF TrueMeansPassed, GitAnswers
<1> QED BY <1>3, <1>4, <1>5, <1>6 DEF RapidInv

LEMMA EndInv ==
  ASSUME RapidInv, pc = "off", End
  PROVE  RapidInv'
<1>1. /\ UNCHANGED <<reposgz, passed, sdps, scrambled, forceUpdate, gitEnabled,
                     rapidGitResolvedTags, built, pc, stack>>
      /\ call' = NoCall /\ next' = 1 /\ found' = <<>> /\ finished' = FALSE /\ ret' = FALSE
      /\ repos' = 0
  BY DEF End, diskVars
<1>2. NoCall \in CallType
  BY DEF NoCall, CallType, Texts, GitStates
<1>3. RapidTypeOK'
  BY <1>1, <1>2, EmptyTypes DEF RapidInv, RapidTypeOK, CallType
<1>4. CallInv'
  BY <1>1 DEF CallInv, RapidInv, NoCall
<1>5. FoundInv' /\ DownloadedInv' /\ FirstInv'
  BY <1>1 DEF RapidInv, FoundInv, DownloadedInv, FirstInv
<1>6. WalkInv' /\ TrueMeansPassed' /\ GitAnswers'
  BY <1>1 DEF RapidInv, CallInv, WalkInv, TrueMeansPassed, GitAnswers
<1> QED BY <1>3, <1>4, <1>5, <1>6 DEF RapidInv

\* Options and time, between two calls.
LEMMA BetweenInv ==
  ASSUME RapidInv, call = NoCall,
         SetForceUpdate \/ (\E enabled \in BOOLEAN : SetGit(enabled)) \/ Age
  PROVE  RapidInv' /\ UNCHANGED <<sdps, built, passed, pc, call>>
<1>1. /\ UNCHANGED <<passed, repos, sdps, scrambled, built, pc, call, next, stack, found, finished, ret>>
      /\ rapidGitResolvedTags' \in {rapidGitResolvedTags, {}}
      /\ pc = "off"
  BY DEF SetForceUpdate, SetGit, Age, diskVars, memVars, callVars
<1>2. /\ forceUpdate' \in BOOLEAN /\ gitEnabled' \in BOOLEAN
      /\ reposgz' \in [lines : 0..Len(Releases), old : BOOLEAN]
  BY DEF SetForceUpdate, SetGit, Age, diskVars, memVars, RapidInv, RapidTypeOK
<1>3. RapidTypeOK'
  BY <1>1, <1>2 DEF RapidInv, RapidTypeOK
<1>4. CallInv'
  BY <1>1 DEF RapidInv, CallInv, NoCall
<1>5. FoundInv' /\ DownloadedInv'
  BY <1>1 DEF RapidInv, FoundInv, DownloadedInv, SomePassed
<1>6. WalkInv'
  BY <1>1 DEF RapidInv, CallInv, WalkInv
<1>7. FirstInv'
  BY <1>1 DEF RapidInv, FirstInv
<1>8. TrueMeansPassed' /\ GitAnswers'
  BY <1>1 DEF NoCall, TrueMeansPassed, GitAnswers
<1> QED BY <1>1, <1>3, <1>4, <1>5, <1>6, <1>7, <1>8 DEF RapidInv

----------------------------------------------------------------------------
(* TryResolveViaGit and updateRepos *)

LEMMA ProceedFacts ==
  ASSUME RapidInv, stack = <<>>, Proceed, sdps' \in Seq(CSdp)
  PROVE  /\ pc' \in {"collect", "walk"} /\ stack' \in Seq(Frame) /\ Len(stack') <= RecLimit + 1
         /\ pc' = "walk" => call.op = "download" /\ stack' # <<>> /\ stack'[1].name = call.name
         /\ pc' # "walk" => stack' = <<>>
         /\ pc' = "collect" => call.op = "search"
         /\ WalkInv'
<1>1. CASE call.op = "search"
  <2>1. pc' = "collect" /\ stack' = <<>>
    BY <1>1 DEF Proceed
  <2> QED BY <1>1, <2>1, RapidAssumption DEF WalkInv
<1>2. CASE call.op # "search"
  <2>1. pc' = "walk" /\ stack' = <<NewFrame(call.name)>> /\ call.op = "download" /\ call.name \in Names
    BY <1>2 DEF Proceed, StartWalk, RapidInv, RapidTypeOK, CallInv
  <2>2. NewFrame(call.name) \in Frame
    BY <2>1 DEF NewFrame, Frame, Texts
  <2>3. stack' \in Seq(Frame) /\ Len(stack') = 1 /\ DOMAIN stack' = {1} /\ stack'[1] = NewFrame(call.name)
    <3> HIDE DEF Frame
    <3> QED BY <2>1, <2>2
  <2>4. \A k \in DOMAIN sdps' : ~(k < 1)
    OBVIOUS
  <2>5. WalkInv'
    BY <2>1, <2>3, <2>4 DEF WalkInv, FrameInv, NewFrame
  <2> QED BY <2>1, <2>3, <2>5, RapidAssumption DEF NewFrame
<1> QED BY <1>1, <1>2

\* Steps before the list is used that leave it and the packages alone.
LEMMA CalmStep ==
  ASSUME RapidInv, pc # "off",
         UNCHANGED <<passed, sdps, scrambled, rapidGitResolvedTags, built, found, finished>>,
         call'.op = call.op, call'.name = call.name,
         RapidTypeOK', CallInv', WalkInv', pc' = "off" => ret' = FALSE
  PROVE  RapidInv'
<1>1. FoundInv' /\ DownloadedInv' /\ FirstInv'
  BY DEF RapidInv, FoundInv, DownloadedInv, SomePassed, FirstInv
<1>2. TrueMeansPassed' /\ GitAnswers'
  BY DEF TrueMeansPassed, GitAnswers
<1> QED BY <1>1, <1>2 DEF RapidInv

LEMMA ResolvedBeforeInv ==
  ASSUME RapidInv, ResolvedBefore
  PROVE  RapidInv'
<1>1. /\ UNCHANGED <<reposgz, passed, repos, sdps, scrambled, forceUpdate, gitEnabled,
                     rapidGitResolvedTags, built, next, found, finished, ret>>
      /\ call' = [call EXCEPT !.git = "used"] /\ Proceed /\ pc = "resolve"
      /\ call.text \in rapidGitResolvedTags
  BY DEF ResolvedBefore, diskVars, memVars
<1>2. stack = <<>> /\ sdps' \in Seq(CSdp) /\ call \in CallType /\ call.git = "trying"
  BY <1>1 DEF RapidInv, RapidTypeOK, CallInv, CallType
<1>3. call' \in CallType /\ call'.op = call.op /\ call'.name = call.name /\ call'.text = call.text
      /\ call'.git = "used"
  BY <1>1, <1>2 DEF CallType, GitStates
<1>4. RapidTypeOK'
  BY <1>1, <1>2, <1>3, ProceedFacts DEF RapidInv, RapidTypeOK, CallType
<1>5. CallInv' /\ WalkInv'
  BY <1>1, <1>2, <1>3, ProceedFacts DEF RapidInv, CallInv
<1> QED BY <1>1, <1>3, <1>4, <1>5, CalmStep, ProceedFacts, <1>2

LEMMA ResolveFailsInv ==
  ASSUME RapidInv, ResolveFails
  PROVE  RapidInv'
<1>1. /\ UNCHANGED <<reposgz, passed, repos, sdps, scrambled, forceUpdate, gitEnabled,
                     rapidGitResolvedTags, built, stack, next, found, finished, ret>>
      /\ call' = [call EXCEPT !.git = "failed"] /\ pc = "resolve" /\ pc' = "repos"
  BY DEF ResolveFails, diskVars, memVars
<1>2. stack = <<>> /\ call \in CallType
  BY <1>1 DEF RapidInv, RapidTypeOK, CallInv, CallType
<1>3. call' \in CallType /\ call'.op = call.op /\ call'.name = call.name /\ call'.text = call.text
      /\ call'.git = "failed"
  BY <1>1, <1>2 DEF CallType, GitStates
<1>4. RapidTypeOK'
  BY <1>1, <1>3 DEF RapidInv, RapidTypeOK, CallType
<1>5. CallInv' /\ WalkInv'
  BY <1>1, <1>2, <1>3 DEF RapidInv, CallInv, WalkInv
<1> QED BY <1>1, <1>3, <1>4, <1>5, CalmStep

LEMMA ReposInv ==
  ASSUME RapidInv, UseCachedRepos \/ DownloadRepos \/ DownloadReposFails \/ Updated
  PROVE  RapidInv'
<1>1. /\ UNCHANGED <<passed, sdps, scrambled, gitEnabled, rapidGitResolvedTags, built, call, next,
                     found, finished>>
      /\ pc \in {"repos", "parse"}
  BY DEF UseCachedRepos, DownloadRepos, DownloadReposFails, Updated, diskVars, memVars
<1>2. /\ reposgz' \in [lines : 0..Len(Releases), old : BOOLEAN]
      /\ repos' \in 0..Len(Releases) /\ forceUpdate' \in BOOLEAN
  <2> DEFINE Fresh(n) == [lines |-> n, old |-> FALSE]
             Lists == [lines : 0..Len(Releases), old : BOOLEAN]
  <2>1. /\ 0 \in 0..Len(Releases) /\ \A n \in 1..Len(Releases) : n \in 0..Len(Releases)
        /\ FALSE \in BOOLEAN
    BY EmptyTypes
  <2>2. reposgz \in Lists /\ repos \in 0..Len(Releases) /\ forceUpdate \in BOOLEAN
    BY DEF RapidInv, RapidTypeOK
  <2>3. /\ \A n \in 0..Len(Releases) : Fresh(n) \in Lists
        /\ \A f \in Lists : f.lines \in 0..Len(Releases)
    BY <2>1
  <2>4. reposgz' = reposgz \/ \E n \in 0..Len(Releases) : reposgz' = Fresh(n)
    BY <2>1 DEF UseCachedRepos, DownloadRepos, DownloadReposFails, Updated, diskVars, memVars
  <2>5. repos' \in {repos, reposgz.lines, reposgz'.lines, 0} /\ forceUpdate' \in {forceUpdate, FALSE}
    BY DEF UseCachedRepos, DownloadRepos, DownloadReposFails, Updated, diskVars, memVars
  <2> HIDE DEF Fresh, Lists
  <2>6. reposgz' \in Lists
    BY <2>2, <2>3, <2>4
  <2> QED BY <2>1, <2>2, <2>3, <2>5, <2>6 DEF Lists
<1>3. \/ pc' = "parse" /\ stack' = stack /\ ret' = ret
      \/ pc' = "off" /\ stack' = stack /\ ret' = FALSE
      \/ Proceed /\ ret' = ret
  BY DEF UseCachedRepos, DownloadRepos, DownloadReposFails, Updated, WithoutRepos, Return
<1>4. stack = <<>> /\ sdps' \in Seq(CSdp)
  BY <1>1 DEF RapidInv, RapidTypeOK, CallInv
<1>5. /\ pc' \in {"parse", "off", "collect", "walk"} /\ stack' \in Seq(Frame) /\ Len(stack') <= RecLimit + 1
      /\ pc' = "walk" => call.op = "download" /\ stack' # <<>> /\ stack'[1].name = call.name
      /\ pc' # "walk" => stack' = <<>>
      /\ pc' = "collect" => call.op = "search"
      /\ WalkInv' /\ (pc' = "off" => ret' = FALSE) /\ ret' \in BOOLEAN
  <2>1. CASE Proceed /\ ret' = ret
    BY <1>4, <2>1, ProceedFacts DEF RapidInv, RapidTypeOK
  <2>2. CASE pc' \in {"parse", "off"} /\ stack' = stack /\ ret' \in {ret, FALSE} /\ (pc' = "off" => ret' = FALSE)
    <3>1. WalkInv' /\ stack' = <<>>
      BY <1>4, <2>2 DEF WalkInv
    <3>2. ret' \in BOOLEAN
      BY <2>2 DEF RapidInv, RapidTypeOK
    <3> QED BY <2>2, <3>1, <3>2, EmptyTypes
  <2> QED BY <1>3, <2>1, <2>2
<1>6. RapidTypeOK'
  BY <1>1, <1>2, <1>5 DEF RapidInv, RapidTypeOK
<1>7. CallInv'
  BY <1>1, <1>5 DEF RapidInv, CallInv
<1> QED BY <1>1, <1>5, <1>6, <1>7, CalmStep

\* A package of that name is listed under the tag, or git has been asked about it.
ListedOrBuilt(t, n) ==
  \/ \E k \in DOMAIN sdps : sdps[k].tag = t /\ Name[sdps[k].pkg] = n
  \/ built[t] # {}

LEMMA SdpTypes ==
  ASSUME RapidInv
  PROVE  /\ DOMAIN sdps = 1..Len(sdps) /\ Len(sdps) \in Nat /\ sdps \in Seq(CSdp)
         /\ \A k \in DOMAIN sdps : /\ sdps[k] \in CSdp /\ sdps[k].tag \in Tags
                                   /\ sdps[k].pkg \in Packages /\ sdps[k].downloaded \in BOOLEAN
<1>1. sdps \in Seq(CSdp)
  BY DEF RapidInv, RapidTypeOK
<1>2. \A k \in DOMAIN sdps : sdps[k] \in CSdp
  BY <1>1
<1> QED BY <1>1, <1>2 DEF CSdp

LEMMA ResolveInv ==
  ASSUME RapidInv, Resolve
  PROVE  RapidInv' /\ \A t \in Tags, n \in Names : ListedOrBuilt(t, n) => ListedOrBuilt(t, n)'
<1> DEFINE K == Others(call.text)
           n == Cardinality(K)
<1>1. /\ UNCHANGED <<reposgz, repos, passed, forceUpdate, gitEnabled, next, found, finished, ret>>
      /\ scrambled' = scrambled \ {call.text}
      /\ rapidGitResolvedTags' = rapidGitResolvedTags \cup {call.text}
      /\ call' = [call EXCEPT !.git = "used"] /\ Proceed /\ pc = "resolve"
  BY DEF Resolve, diskVars
<1>2. PICK p \in GitBuild[call.text] :
        /\ \E f \in InOrder(K) :
             sdps' = Append([i \in DOMAIN f |-> sdps[f[i]]], NewSdp([tag |-> call.text, pkg |-> p]))
        /\ built' = [built EXCEPT ![call.text] = {p}]
  BY DEF Resolve
<1>3. /\ stack = <<>> /\ found = <<>> /\ call \in CallType /\ call.text \in Tags
      /\ call.git = "trying" /\ p \in Packages
  BY <1>1, RapidAssumption DEF RapidInv, RapidTypeOK, CallInv, CallType
<1>4. PICK f \in InOrder(K) :
        sdps' = Append([i \in DOMAIN f |-> sdps[f[i]]], NewSdp([tag |-> call.text, pkg |-> p]))
  BY <1>2
<1>5. /\ n \in Nat /\ f \in [1..n -> K] /\ \A i, j \in 1..n : i < j => f[i] < f[j]
      /\ \A k \in K : \E i \in 1..n : f[i] = k
  <2>1. K \in SUBSET (1..Len(sdps)) /\ Len(sdps) \in Nat
    BY SdpTypes DEF Others
  <2> HIDE DEF K
  <2> QED BY <2>1, InOrderFacts
<1> DEFINE kept == [i \in DOMAIN f |-> sdps[f[i]]]
           new == NewSdp([tag |-> call.text, pkg |-> p])
<1>6. /\ kept \in Seq(CSdp) /\ Len(kept) = n /\ \A i \in 1..n : kept[i] = sdps[f[i]]
      /\ new \in CSdp /\ new.tag = call.text /\ new.pkg = p /\ new.downloaded = FALSE
  <2>1. \A k \in K : k \in DOMAIN sdps /\ sdps[k] \in CSdp
    BY SdpTypes DEF Others
  <2> HIDE DEF K, n
  <2>2. kept \in [1..n -> CSdp]
    BY <1>5, <2>1
  <2>3. new \in CSdp /\ new.tag = call.text /\ new.pkg = p /\ new.downloaded = FALSE
    BY <1>3 DEF NewSdp, CSdp
  <2> QED BY <1>5, <2>2, <2>3
<1>7. /\ sdps' \in Seq(CSdp) /\ DOMAIN sdps' = 1..(n + 1) /\ sdps'[n + 1] = new
      /\ \A i \in 1..n : sdps'[i] = sdps[f[i]] /\ f[i] \in DOMAIN sdps /\ sdps[f[i]].tag # call.text
  <2>1. \A k \in K : k \in DOMAIN sdps /\ sdps[k].tag # call.text
    BY DEF Others
  <2> HIDE DEF K, n, new, kept
  <2>2. sdps' = Append(kept, new)
    BY <1>4 DEF kept, new
  <2> QED BY <1>5, <1>6, <2>1, <2>2
<1>8. \A k \in DOMAIN sdps : sdps[k].tag # call.text => \E i \in 1..n : f[i] = k
  BY <1>5 DEF Others
<1> HIDE DEF K, n, new, kept
<1>9. call' \in CallType /\ call'.op = call.op /\ call'.name = call.name /\ call'.text = call.text
      /\ call'.git = "used"
  BY <1>1, <1>3 DEF CallType, GitStates
<1>10. RapidTypeOK'
  <2>1. stack' \in Seq(Frame) /\ Len(stack') <= RecLimit + 1 /\ pc' \in {"collect", "walk"}
    BY <1>1, <1>3, <1>7, ProceedFacts
  <2>2. built' \in [Tags -> SUBSET Packages] /\ rapidGitResolvedTags' \subseteq Tags /\ scrambled' \subseteq Tags
    BY <1>1, <1>2, <1>3 DEF RapidInv, RapidTypeOK
  <2> QED BY <1>1, <1>7, <1>9, <2>1, <2>2 DEF RapidInv, RapidTypeOK, CallType
<1>11. CallInv' /\ WalkInv'
  BY <1>1, <1>3, <1>7, <1>9, ProceedFacts DEF RapidInv, CallInv
<1>12. FoundInv'
  BY <1>1, <1>3 DEF FoundInv
<1>13. DownloadedInv'
  <2>1. \A i \in DOMAIN sdps' : sdps'[i].downloaded => sdps'[i].pkg \in passed'
    <3>1. \A i \in 1..n : sdps'[i].downloaded => sdps'[i].pkg \in passed'
      BY <1>1, <1>7 DEF RapidInv, DownloadedInv
    <3>2. sdps'[n + 1].downloaded => sdps'[n + 1].pkg \in passed'
      BY <1>6, <1>7
    <3> QED BY <1>5, <1>7, <3>1, <3>2
  <2> QED BY <1>1, <1>2, <1>9, <2>1 DEF RapidInv, DownloadedInv, SomePassed
<1>14. FirstInv'
  <2> SUFFICES ASSUME NEW t \in rapidGitResolvedTags'
               PROVE  \E k \in DOMAIN sdps' :
                        IsFirst(sdps', k, t) /\ (t \notin scrambled' => sdps'[k].pkg \in built'[t])
    BY DEF FirstInv
  <2>0. t \in Tags
    BY <1>1, <1>3 DEF RapidInv, RapidTypeOK
  <2>1. CASE t = call.text
    <3>1. n + 1 \in DOMAIN sdps' /\ sdps'[n + 1].tag = t /\ sdps'[n + 1].pkg \in built'[t]
      BY <1>2, <1>3, <1>5, <1>6, <1>7, <2>1 DEF RapidInv, RapidTypeOK
    <3>2. \A j \in DOMAIN sdps' : j < n + 1 => sdps'[j].tag # t
      BY <1>5, <1>7, <2>1
    <3> QED BY <3>1, <3>2 DEF IsFirst
  <2>2. CASE t # call.text
    <3>1. PICK k \in DOMAIN sdps :
            IsFirst(sdps, k, t) /\ (t \notin scrambled' => sdps[k].pkg \in built[t])
      BY <1>1, <2>2 DEF RapidInv, FirstInv
    <3>2. PICK i \in 1..n : f[i] = k
      BY <1>8, <2>2, <3>1 DEF IsFirst
    <3>3. built'[t] = built[t]
      BY <1>2, <2>0, <2>2 DEF RapidInv, RapidTypeOK
    <3>4. i \in DOMAIN sdps' /\ sdps'[i] = sdps[k]
      BY <1>5, <1>7, <3>2
    <3>5. \A j \in DOMAIN sdps' : j < i => sdps'[j].tag # t
      BY <1>5, <1>7, <3>1, <3>2 DEF IsFirst
    <3> QED BY <3>1, <3>3, <3>4, <3>5 DEF IsFirst
  <2> QED BY <2>1, <2>2
<1>15. TrueMeansPassed' /\ GitAnswers'
  BY <1>1, <1>3, <1>7, ProceedFacts DEF TrueMeansPassed, GitAnswers
<1>16. ASSUME NEW t \in Tags, NEW m \in Names, ListedOrBuilt(t, m)
       PROVE  ListedOrBuilt(t, m)'
  <2>1. CASE t = call.text \/ built[t] # {}
    BY <1>2, <1>3, <2>1 DEF ListedOrBuilt, RapidInv, RapidTypeOK
  <2>2. CASE t # call.text /\ built[t] = {}
    BY <1>5, <1>7, <1>8, <1>16, <2>2 DEF ListedOrBuilt
  <2> QED BY <2>1, <2>2
<1> QED BY <1>10, <1>11, <1>12, <1>13, <1>14, <1>15, <1>16 DEF RapidInv

LEMMA ParseVersionsInv ==
  ASSUME RapidInv, ParseVersions
  PROVE  RapidInv' /\ \A t \in Tags, n \in Names : ListedOrBuilt(t, n) => ListedOrBuilt(t, n)'
<1>1. /\ UNCHANGED <<reposgz, passed, repos, scrambled, forceUpdate, gitEnabled,
                     rapidGitResolvedTags, built, pc, call, stack, found, finished, ret>>
      /\ pc = "parse" /\ next <= repos /\ next' = next + 1
  BY DEF ParseVersions, diskVars
<1>2. Releases \in Seq(Seq(Seq(Line))) /\ next \in DOMAIN Releases /\ Len(Releases) \in Nat
  BY <1>1, RapidAssumption DEF RapidInv, RapidTypeOK
<1>0. PICK edition \in DOMAIN Releases[next] : \E n \in 0..Len(Releases[next][edition]) :
        sdps' = sdps \o [k \in 1..n |-> NewSdp(Releases[next][edition][k])]
  BY DEF ParseVersions
<1> DEFINE lines == Releases[next][edition]
<1>3. PICK n \in 0..Len(lines) : sdps' = sdps \o [k \in 1..n |-> NewSdp(lines[k])]
  BY <1>0
<1> DEFINE new == [k \in 1..n |-> NewSdp(lines[k])]
<1>4. lines \in Seq(Line)
  BY <1>2
<1>5. new \in Seq(CSdp) /\ Len(new) = n /\ n \in Nat /\ \A k \in 1..n : new[k].downloaded = FALSE
  <2>1. \A k \in 1..n : lines[k] \in Line
    BY <1>4
  <2>2. \A k \in 1..n : NewSdp(lines[k]) \in CSdp /\ NewSdp(lines[k]).downloaded = FALSE
    BY <2>1 DEF Line, NewSdp, CSdp
  <2> HIDE DEF lines
  <2>3. n \in Nat
    BY <1>4 DEF lines
  <2>4. new \in [1..n -> CSdp]
    BY <2>2
  <2> QED BY <2>2, <2>3, <2>4
<1>6. /\ sdps' \in Seq(CSdp) /\ DOMAIN sdps' = 1..(Len(sdps) + n)
      /\ \A k \in DOMAIN sdps : k \in DOMAIN sdps' /\ sdps'[k] = sdps[k]
      /\ \A k \in DOMAIN sdps' : k \in DOMAIN sdps \/ sdps'[k].downloaded = FALSE
  <2> HIDE DEF new
  <2>1. sdps' = sdps \o new
    BY <1>3 DEF new
  <2>2. \A k \in (Len(sdps) + 1)..(Len(sdps) + n) : sdps'[k] = new[k - Len(sdps)] /\ k - Len(sdps) \in 1..n
    BY <1>5, <2>1, SdpTypes
  <2> QED BY <1>5, <2>1, <2>2, SdpTypes
<1> HIDE DEF lines, new
<1>7. RapidTypeOK'
  <2>1. next' \in 1..(Len(Releases) + 1)
    BY <1>1, RapidAssumption DEF RapidInv, RapidTypeOK
  <2> QED BY <1>1, <1>6, <2>1 DEF RapidInv, RapidTypeOK
<1>8. CallInv'
  BY <1>1 DEF RapidInv, CallInv
<1>9. FoundInv' /\ WalkInv'
  <2>1. found = <<>> /\ stack = <<>>
    BY <1>1 DEF RapidInv, CallInv
  <2> QED BY <1>1, <2>1 DEF FoundInv, WalkInv
<1>10. DownloadedInv'
  BY <1>1, <1>6 DEF RapidInv, DownloadedInv, SomePassed
<1>11. FirstInv'
  <2> SUFFICES ASSUME NEW t \in rapidGitResolvedTags
               PROVE  \E k \in DOMAIN sdps' :
                        IsFirst(sdps', k, t) /\ (t \notin scrambled => sdps'[k].pkg \in built[t])
    BY <1>1 DEF FirstInv
  <2>1. PICK k \in DOMAIN sdps :
          IsFirst(sdps, k, t) /\ (t \notin scrambled => sdps[k].pkg \in built[t])
    BY DEF RapidInv, FirstInv
  <2>2. \A j \in DOMAIN sdps' : j < k => j \in DOMAIN sdps
    BY <1>5, <1>6, SdpTypes
  <2> QED BY <1>6, <2>1, <2>2 DEF IsFirst
<1>12. TrueMeansPassed' /\ GitAnswers'
  BY <1>1 DEF TrueMeansPassed, GitAnswers
<1>13. \A t \in Tags, m \in Names : ListedOrBuilt(t, m) => ListedOrBuilt(t, m)'
  BY <1>1, <1>6 DEF ListedOrBuilt
<1> QED BY <1>7, <1>8, <1>9, <1>10, <1>11, <1>12, <1>13 DEF RapidInv

LEMMA CollectInv ==
  ASSUME RapidInv, Collect
  PROVE  RapidInv' /\ \A t \in Tags, n \in Names : ListedOrBuilt(t, n) => ListedOrBuilt(t, n)'
<1>1. /\ UNCHANGED <<reposgz, passed, repos, forceUpdate, gitEnabled, rapidGitResolvedTags,
                     built, call, next, stack, finished>>
      /\ sdps' \in Sorted(sdps) /\ found' \in Hits(sdps', call.text)
      /\ pc = "collect" /\ pc' = "off" /\ ret' = TRUE
      /\ scrambled' = IF Ordered(sdps) THEN scrambled ELSE scrambled \cup Shared(sdps)
  BY DEF Collect, diskVars, Return
<1>2. /\ sdps' \in Seq(CSdp)
      /\ \A k \in DOMAIN sdps : \E j \in DOMAIN sdps' : sdps'[j] = sdps[k]
      /\ \A j \in DOMAIN sdps' : \E k \in DOMAIN sdps : sdps'[j] = sdps[k]
  <2>1. sdps \in Seq(CSdp)
    BY SdpTypes
  <2> QED BY <1>1, <2>1, SortedFacts
<1>3. /\ found' \in Seq(Line)
      /\ \A i \in DOMAIN found' :
           \E k \in DOMAIN sdps' : found'[i].tag = sdps'[k].tag /\ found'[i].pkg = sdps'[k].pkg
      /\ \A k : IsFirst(sdps', k, call.text) =>
           \E i \in DOMAIN found' : found'[i].tag = call.text /\ found'[i].pkg = sdps'[k].pkg
  <2>1. found' \in Hits(sdps', call.text) /\ sdps' \in Seq(CSdp)
    BY <1>1, <1>2
  <2> QED BY <2>1, HitsFacts
<1>4. stack = <<>> /\ call.op = "search"
  BY <1>1 DEF RapidInv, CallInv
<1>5. RapidTypeOK'
  <2>1. scrambled' \subseteq Tags
    BY <1>1, SdpTypes DEF Shared, RapidInv, RapidTypeOK
  <2> QED BY <1>1, <1>2, <1>3, <2>1 DEF RapidInv, RapidTypeOK
<1>6. CallInv' /\ WalkInv'
  BY <1>1, <1>4 DEF RapidInv, CallInv, WalkInv
<1>7. FoundInv'
  BY <1>3 DEF FoundInv
<1>8. DownloadedInv'
  BY <1>1, <1>2 DEF RapidInv, DownloadedInv, SomePassed
<1>9. FirstInv'
  <2> SUFFICES ASSUME NEW t \in rapidGitResolvedTags
               PROVE  \E k \in DOMAIN sdps' :
                        IsFirst(sdps', k, t) /\ (t \notin scrambled' => sdps'[k].pkg \in built[t])
    BY <1>1 DEF FirstInv
  <2>1. PICK k \in DOMAIN sdps :
          IsFirst(sdps, k, t) /\ (t \notin scrambled => sdps[k].pkg \in built[t])
    BY DEF RapidInv, FirstInv
  <2>2. t \in Tags /\ sdps \in Seq(CSdp) /\ sdps' \in Sorted(sdps)
    BY <1>1 DEF RapidInv, RapidTypeOK
  <2>3. CASE Ordered(sdps)
    <3>1. PICK i : IsFirst(sdps', i, t) /\ sdps'[i] = sdps[k]
      BY <2>1, <2>2, <2>3, SortedFirst
    <3>2. i \in DOMAIN sdps'
      BY <3>1 DEF IsFirst
    <3> QED BY <1>1, <2>1, <2>3, <3>1, <3>2
  <2>4. CASE ~Ordered(sdps)
    <3>1. sdps[k].tag = t
      BY <2>1 DEF IsFirst
    <3>2. PICK j \in DOMAIN sdps' : sdps'[j] = sdps[k]
      BY <1>2
    <3>3. PICK i \in DOMAIN sdps' : IsFirst(sdps', i, t)
      BY <1>2, <3>1, <3>2, FirstExists
    <3>4. PICK l \in DOMAIN sdps : sdps'[i] = sdps[l]
      BY <1>2
    <3>5. ASSUME t \notin scrambled'
          PROVE  sdps[l].pkg = sdps[k].pkg
      <4>1. t \notin Shared(sdps) /\ sdps[l].tag = t
        BY <1>1, <2>4, <3>3, <3>4, <3>5 DEF IsFirst
      <4> QED BY <3>1, <4>1 DEF Shared
    <3> QED BY <1>1, <2>1, <2>4, <3>3, <3>4, <3>5
  <2> QED BY <2>3, <2>4
<1>10. TrueMeansPassed'
  BY <1>1, <1>4 DEF TrueMeansPassed
<1>11. GitAnswers'
  <2> SUFFICES ASSUME call.git = "used"
               PROVE  \E k \in DOMAIN found' :
                        /\ found'[k].tag = call.text
                        /\ call.text \notin scrambled' => found'[k].pkg \in built[call.text]
    BY <1>1 DEF GitAnswers
  <2>1. call.text \in rapidGitResolvedTags
    BY DEF RapidInv, CallInv
  <2>2. PICK k \in DOMAIN sdps' :
          /\ IsFirst(sdps', k, call.text)
          /\ call.text \notin scrambled' => sdps'[k].pkg \in built[call.text]
    BY <1>1, <1>9, <2>1 DEF FirstInv
  <2> QED BY <1>3, <2>2
<1>12. \A t \in Tags, m \in Names : ListedOrBuilt(t, m) => ListedOrBuilt(t, m)'
  BY <1>1, <1>2 DEF ListedOrBuilt
<1> QED BY <1>5, <1>6, <1>7, <1>8, <1>9, <1>10, <1>11, <1>12 DEF RapidInv

LEMMA SameInv ==
  ASSUME RapidInv,
         UNCHANGED <<reposgz, passed, repos, sdps, scrambled, forceUpdate, gitEnabled,
                     rapidGitResolvedTags, built, pc, call, next, stack, found, finished, ret>>
  PROVE  RapidInv'
<1>1. RapidTypeOK' /\ CallInv'
  BY DEF RapidInv, RapidTypeOK, CallInv
<1>2. FoundInv' /\ DownloadedInv' /\ FirstInv'
  BY DEF RapidInv, FoundInv, DownloadedInv, SomePassed, FirstInv
<1>3. Known' = Known /\ \A n : AllPassed(n) <=> AllPassed(n)'
  BY DEF Known, AllPassed
<1>4. WalkInv'
  BY <1>3 DEF RapidInv, WalkInv, FrameInv
<1>5. TrueMeansPassed' /\ GitAnswers'
  BY <1>3 DEF RapidInv, TrueMeansPassed, GitAnswers
<1> QED BY <1>1, <1>2, <1>4, <1>5 DEF RapidInv

----------------------------------------------------------------------------
(* download_name *)

LEMMA StackTypes ==
  ASSUME RapidInv, pc = "walk"
  PROVE  /\ stack \in Seq(Frame) /\ Len(stack) \in Nat \ {0} /\ DOMAIN stack = 1..Len(stack)
         /\ Len(stack) <= RecLimit + 1 /\ Len(stack) \in DOMAIN stack
         /\ \A i \in DOMAIN stack : /\ stack[i] \in Frame /\ stack[i].at \in Nat \ {0}
                                    /\ stack[i].seen \subseteq Packages
                                    /\ stack[i].name \in Names /\ FrameInv(i)
         /\ Below \in Seq(Frame) /\ Len(Below) = Len(stack) - 1
         /\ \A i \in 1..(Len(stack) - 1) : Below[i] = stack[i]
<1>1. stack \in Seq(Frame) /\ stack # <<>> /\ Len(stack) <= RecLimit + 1
  BY DEF RapidInv, RapidTypeOK, CallInv
<1>2. Len(stack) \in Nat \ {0} /\ DOMAIN stack = 1..Len(stack)
  BY <1>1
<1>3. \A i \in DOMAIN stack : stack[i] \in Frame
  BY <1>1
<1>4. \A i \in DOMAIN stack : stack[i].at \in Nat \ {0} /\ stack[i].seen \subseteq Packages
  BY <1>3 DEF Frame
<1>5. \A i \in DOMAIN stack : FrameInv(i) /\ stack[i].name \in Names
  BY DEF RapidInv, WalkInv, FrameInv
<1>6. /\ Below \in Seq(Frame) /\ Len(Below) = Len(stack) - 1
      /\ \A i \in 1..(Len(stack) - 1) : Below[i] = stack[i]
  <2> HIDE DEF Frame
  <2> QED BY <1>1, <1>2 DEF Below
<1> QED BY <1>1, <1>2, <1>3, <1>4, <1>5, <1>6

LEMMA WalkFailsFacts ==
  ASSUME RapidInv, pc = "walk", WalkFails
  PROVE  /\ stack' = <<>> /\ WalkInv'
         /\ call' \in CallType /\ call'.op = call.op /\ call'.name = call.name
         /\ call'.text = call.text /\ call'.git # "used" /\ (call'.git # "not" => call.git # "not")
         /\ pc' \in {"repos", "off"} /\ (pc' = "off" => ret' = FALSE) /\ ret' \in BOOLEAN
<1>1. call \in CallType /\ ret \in BOOLEAN
  BY DEF RapidInv, RapidTypeOK, CallType
<1>2. stack' = <<>> /\ WalkInv'
  BY DEF WalkFails, WalkInv
<1>3. CASE call.git = "used"
  <2>1. pc' = "repos" /\ call' = [call EXCEPT !.git = "failed"] /\ ret' = ret
    BY <1>3 DEF WalkFails
  <2> QED BY <1>1, <1>2, <1>3, <2>1 DEF CallType, GitStates
<1>4. CASE call.git # "used"
  <2>1. pc' = "off" /\ ret' = FALSE /\ call' = call
    BY <1>4 DEF WalkFails, Return
  <2> QED BY <1>1, <1>2, <1>4, <2>1
<1> QED BY <1>3, <1>4

\* What a step of download_name that goes on or fails leaves alone.
LEMMA WalkStep ==
  ASSUME RapidInv, pc = "walk",
         UNCHANGED <<reposgz, repos, scrambled, forceUpdate, gitEnabled,
                     rapidGitResolvedTags, built, next, found>>,
         DOMAIN sdps' = DOMAIN sdps,
         \A k \in DOMAIN sdps : sdps'[k].tag = sdps[k].tag /\ sdps'[k].pkg = sdps[k].pkg,
         RapidTypeOK', CallInv', DownloadedInv', WalkInv', pc' = "off" => ret' = FALSE
  PROVE  RapidInv' /\ \A t \in Tags, n \in Names : ListedOrBuilt(t, n) => ListedOrBuilt(t, n)'
<1>1. FoundInv'
  BY DEF RapidInv, CallInv, FoundInv
<1>2. FirstInv'
  BY DEF RapidInv, FirstInv, IsFirst
<1>3. TrueMeansPassed' /\ GitAnswers'
  BY DEF TrueMeansPassed, GitAnswers
<1>4. \A t \in Tags, n \in Names : ListedOrBuilt(t, n) => ListedOrBuilt(t, n)'
  BY DEF ListedOrBuilt
<1> QED BY <1>1, <1>2, <1>3, <1>4 DEF RapidInv

LEMMA WalkSdpFailsInv ==
  ASSUME RapidInv, WalkSdpFails
  PROVE  RapidInv' /\ \A t \in Tags, n \in Names : ListedOrBuilt(t, n) => ListedOrBuilt(t, n)'
<1>1. /\ UNCHANGED <<reposgz, passed, repos, sdps, scrambled, forceUpdate, gitEnabled,
                     rapidGitResolvedTags, built, next, found, finished>>
      /\ pc = "walk" /\ WalkFails
  BY DEF WalkSdpFails, diskVars, memVars
<1>2. RapidTypeOK'
  BY <1>1, WalkFailsFacts, EmptyTypes DEF RapidInv, RapidTypeOK, CallType
<1>3. CallInv' /\ WalkInv'
  BY <1>1, WalkFailsFacts DEF RapidInv, CallInv
<1>4. DownloadedInv'
  BY <1>1, WalkFailsFacts DEF RapidInv, DownloadedInv, SomePassed
<1> QED BY <1>1, <1>2, <1>3, <1>4, WalkStep, WalkFailsFacts

LEMMA WalkEndsInv ==
  ASSUME RapidInv, WalkEnds
  PROVE  RapidInv' /\ \A t \in Tags, n \in Names : ListedOrBuilt(t, n) => ListedOrBuilt(t, n)'
<1>1. /\ UNCHANGED <<reposgz, passed, repos, sdps, scrambled, forceUpdate, gitEnabled,
                     rapidGitResolvedTags, built, next, found, finished>>
      /\ pc = "walk" /\ Left = {}
  BY DEF WalkEnds, diskVars, memVars
<1>2. CASE ~Matched
  <2>1. WalkFails
    BY <1>2 DEF WalkEnds
  <2>2. RapidTypeOK'
    BY <1>1, <2>1, WalkFailsFacts, EmptyTypes DEF RapidInv, RapidTypeOK, CallType
  <2>3. CallInv' /\ WalkInv'
    BY <1>1, <2>1, WalkFailsFacts DEF RapidInv, CallInv
  <2>4. DownloadedInv'
    BY <1>1, <2>1, WalkFailsFacts DEF RapidInv, DownloadedInv, SomePassed
  <2> QED BY <1>1, <2>1, <2>2, <2>3, <2>4, WalkStep, WalkFailsFacts
<1>3. CASE Matched
  <2> DEFINE n == Len(stack)
  <2>1. /\ stack' = Below /\ call' = call
        /\ \/ Below = <<>> /\ pc' = "off" /\ ret' = TRUE
           \/ Below # <<>> /\ pc' = pc /\ ret' = ret
    BY <1>3 DEF WalkEnds, Return
  <2>2. n \in DOMAIN stack /\ Top = stack[n] /\ FrameInv(n) /\ Top.name \in Names /\ Top.at \in Nat \ {0}
    BY <1>1, StackTypes DEF Top
  <2>3. \A k \in DOMAIN sdps : Name[sdps[k].pkg] = Top.name => sdps[k].pkg \in Top.seen
    <3>1. ASSUME NEW k \in DOMAIN sdps, Name[sdps[k].pkg] = Top.name, k >= Top.at
          PROVE  sdps[k].pkg \in Top.seen
      BY <1>1, <2>2, <3>1, SdpTypes DEF Left, Matches
    <3> QED BY <2>2, <3>1, SdpTypes DEF FrameInv
  <2>4. AllPassed(Top.name)
    <3>1. \E p \in Known : Name[p] = Top.name
      BY <1>3, <2>2 DEF Matched, FrameInv
    <3>2. \A p \in Known : Name[p] = Top.name =>
            p \in passed /\ (Depends[p] = NoText \/ AllPassed(Depends[p]))
      BY <2>2, <2>3 DEF FrameInv, Known
    <3> QED BY <2>2, <3>1, <3>2, FramePassed DEF RapidInv
  <2>5. \A m \in Names : AllPassed(m) => AllPassed(m)'
    BY <1>1, AllPassedKept DEF Known
  <2>6. stack' \in Seq(Frame) /\ Len(stack') = n - 1 /\ \A i \in 1..(n - 1) : stack'[i] = stack[i]
    BY <1>1, <2>1, StackTypes
  <2>7. WalkInv'
    <3> SUFFICES ASSUME NEW i \in 1..(n - 1)
                 PROVE  FrameInv(i)'
      BY <1>1, <2>6, StackTypes DEF WalkInv
    <3>1. FrameInv(i) /\ stack'[i] = stack[i] /\ n \in Nat /\ i \in DOMAIN stack /\ i + 1 \in DOMAIN stack
      BY <1>1, <2>6, StackTypes
    <3>2. \A p \in stack[i].seen :
            \/ Depends[p] = NoText \/ AllPassed(Depends[p])'
            \/ i < n - 1 /\ stack'[i + 1].name = Depends[p]
      <4> SUFFICES ASSUME NEW p \in stack[i].seen, Depends[p] # NoText
                   PROVE  \/ AllPassed(Depends[p])'
                          \/ i < n - 1 /\ stack'[i + 1].name = Depends[p]
        OBVIOUS
      <4>1. Depends[p] \in Names
        BY <1>1, <3>1, StackTypes, RapidAssumption
      <4>2. CASE AllPassed(Depends[p])
        BY <2>5, <4>1, <4>2
      <4>3. CASE stack[i + 1].name = Depends[p] /\ i + 1 = n
        BY <2>2, <2>4, <2>5, <4>1, <4>3
      <4>4. CASE stack[i + 1].name = Depends[p] /\ i + 1 # n
        BY <2>6, <3>1, <4>4
      <4> QED BY <3>1, <4>2, <4>3, <4>4 DEF FrameInv
    <3> QED BY <1>1, <2>6, <3>1, <3>2 DEF FrameInv, Known
  <2>8. RapidTypeOK'
    <3>1. stack' \in Seq(Frame) /\ Len(stack') <= RecLimit + 1
      BY <1>1, <2>6, StackTypes, RapidAssumption
    <3>2. pc' \in {"off", "walk"} /\ ret' \in BOOLEAN
      BY <1>1, <2>1 DEF RapidInv, RapidTypeOK
    <3> QED BY <1>1, <2>1, <3>1, <3>2 DEF RapidInv, RapidTypeOK
  <2>9. CallInv'
    <3>1. Below # <<>> => stack'[1] = stack[1]
      BY <1>1, <2>1, <2>6, StackTypes
    <3> QED BY <1>1, <2>1, <3>1 DEF RapidInv, CallInv
  <2>10. FoundInv' /\ DownloadedInv' /\ FirstInv' /\ GitAnswers'
    <3>1. call.op = "download"
      BY <1>1 DEF RapidInv, CallInv
    <3> QED BY <1>1, <2>1, <3>1 DEF RapidInv, FoundInv, DownloadedInv, SomePassed, FirstInv, GitAnswers
  <2>11. TrueMeansPassed'
    <3>1. CASE Below = <<>>
      <4>1. n = 1 /\ Top.name = call.name
        BY <1>1, <2>2, <3>1, StackTypes DEF RapidInv, CallInv
      <4>2. AllPassed(call.name)'
        BY <1>1, <2>1, <2>4, <4>1 DEF AllPassed, Known
      <4> QED BY <4>2 DEF TrueMeansPassed
    <3>2. CASE Below # <<>>
      BY <1>1, <2>1, <3>2 DEF TrueMeansPassed
    <3> QED BY <3>1, <3>2
  <2> QED BY <1>1, <2>7, <2>8, <2>9, <2>10, <2>11 DEF RapidInv, ListedOrBuilt
<1> QED BY <1>2, <1>3

\* The package was downloaded: what its frame has become.
LEMMA WalkSdpInv ==
  ASSUME RapidInv, WalkSdp
  PROVE  RapidInv' /\ \A t \in Tags, n \in Names : ListedOrBuilt(t, n) => ListedOrBuilt(t, n)'
<1>n. PICK n : n = Len(stack)
  OBVIOUS
<1>0. /\ n \in Nat /\ n >= 1 /\ n <= RecLimit + 1 /\ (n = 1 \/ 1 \in 1..(n - 1))
      /\ \A i \in 1..(n - 1) : i \in Nat /\ i \in 1..n /\ i < n /\ i + 1 \in 1..n /\ (i + 1 = n \/ i + 1 \in 1..(n - 1))
      /\ \A i \in 1..(n + 1) : i \in 1..(n - 1) \/ i = n \/ i = n + 1
      /\ \A i \in 1..n : i \in 1..(n - 1) \/ i = n
  <2>1. n \in Nat \ {0} /\ n <= RecLimit + 1
    BY <1>n, StackTypes DEF WalkSdp
  <2> QED BY <2>1
<1>1. PICK k \in Left :
        /\ IsNext(k)
        /\ sdps' = [sdps EXCEPT ![k].downloaded = TRUE]
        /\ passed' = passed \cup {sdps[k].pkg}
        /\ finished' = (finished \/ ~sdps[k].downloaded)
        /\ Advance(k)
  BY DEF WalkSdp
<1> DEFINE p == sdps[k].pkg
           moved == Append(Below, [Top EXCEPT !.at = k + 1, !.seen = @ \cup {p}])
<1>2. /\ UNCHANGED <<reposgz, repos, scrambled, forceUpdate, gitEnabled,
                     rapidGitResolvedTags, built, next, found>>
      /\ pc = "walk" /\ call.op = "download" /\ stack[1].name = call.name
  BY DEF WalkSdp, RapidInv, CallInv, diskVars
<1>3. /\ n \in DOMAIN stack /\ Top = stack[n] /\ FrameInv(n) /\ Top \in Frame
      /\ Top.name \in Names /\ Top.at \in Nat \ {0} /\ Top.seen \subseteq Packages
  BY <1>n, <1>2, StackTypes DEF Top
<1>s. /\ DOMAIN stack = 1..n /\ stack \in Seq(Frame)
      /\ \A i \in 1..(n - 1) : i \in DOMAIN stack /\ FrameInv(i) /\ stack[i].seen \subseteq Packages
  <2>1. DOMAIN stack = 1..n /\ stack \in Seq(Frame)
    BY <1>n, <1>2, StackTypes
  <2>2. \A i \in DOMAIN stack : FrameInv(i) /\ stack[i].seen \subseteq Packages
    BY <1>2, StackTypes
  <2> QED BY <1>0, <2>1, <2>2
<1>4. k \in DOMAIN sdps /\ k \in Nat \ {0} /\ Name[p] = Top.name /\ p \in Packages /\ Top.at <= k
  <2>1. Top.name # Star
    BY <1>3, RapidAssumption
  <2>2. k \in Top.at..Len(sdps) /\ Name[sdps[k].pkg] = Top.name
    BY <1>1, <2>1 DEF Left, Matches
  <2> QED BY <1>3, <2>2, SdpTypes
<1>5. /\ sdps' \in Seq(CSdp) /\ DOMAIN sdps' = DOMAIN sdps
      /\ \A j \in DOMAIN sdps : sdps'[j].tag = sdps[j].tag /\ sdps'[j].pkg = sdps[j].pkg
      /\ \A j \in DOMAIN sdps : sdps'[j].downloaded => j = k \/ sdps[j].downloaded
  <2>1. [sdps[k] EXCEPT !.downloaded = TRUE] \in CSdp
    BY <1>4, SdpTypes DEF CSdp
  <2>2. sdps' = [sdps EXCEPT ![k] = [sdps[k] EXCEPT !.downloaded = TRUE]]
    BY <1>1
  <2>3. sdps' \in Seq(CSdp) /\ DOMAIN sdps' = DOMAIN sdps
    <3> HIDE DEF CSdp
    <3> QED BY <1>4, <2>1, <2>2, SdpTypes
  <2> QED BY <1>4, <2>2, <2>3, SdpTypes DEF CSdp
<1>6. Known' = Known /\ \A m \in Names : AllPassed(m) => AllPassed(m)'
  <2>1. Known' = Known
    BY <1>5 DEF Known
  <2> QED BY <1>1, <2>1, AllPassedKept
<1>7. DownloadedInv'
  <2>1. call'.op = call.op /\ call'.name = call.name
    BY <1>1, <1>2, WalkFailsFacts DEF Advance
  <2>2. \A j \in DOMAIN sdps' : sdps'[j].downloaded => sdps'[j].pkg \in passed'
    BY <1>1, <1>4, <1>5 DEF RapidInv, DownloadedInv
  <2>3. SomePassed(call.name)'
    <3>1. CASE n = 1
      BY <1>1, <1>2, <1>3, <1>4, <2>1, <3>1 DEF SomePassed
    <3>2. CASE n # 1
      <4>1. 1 \in DOMAIN stack /\ 1 < n /\ FrameInv(1)
        BY <1>0, <1>s, <3>2
      <4>2. PICK q \in stack[1].seen : q \in passed /\ Name[q] = call.name
        BY <1>n, <1>2, <4>1 DEF FrameInv
      <4> QED BY <1>1, <2>1, <4>2 DEF SomePassed
    <3> QED BY <3>1, <3>2
  <2> HIDE DEF moved, p
  <2> QED BY <1>2, <2>1, <2>2, <2>3 DEF DownloadedInv
<1>8. passed' \subseteq Packages /\ finished' \in BOOLEAN
  <2>1. finished' \in BOOLEAN
    BY <1>1, <1>4 DEF RapidInv, RapidTypeOK
  <2> QED BY <1>1, <1>4, <2>1 DEF RapidInv, RapidTypeOK
<1>9. CASE WalkFails
  <2>1. RapidTypeOK'
    BY <1>2, <1>5, <1>8, <1>9, WalkFailsFacts, EmptyTypes DEF RapidInv, RapidTypeOK, CallType
  <2>2. CallInv' /\ WalkInv'
    BY <1>2, <1>9, WalkFailsFacts DEF RapidInv, CallInv
  <2> QED BY <1>2, <1>5, <1>7, <1>9, <2>1, <2>2, WalkStep, WalkFailsFacts
<1>10. /\ moved \in Seq(Frame) /\ Len(moved) = n
       /\ \A i \in 1..(n - 1) : moved[i] = stack[i]
       /\ moved[n].name = Top.name /\ moved[n].at = k + 1 /\ moved[n].seen = Top.seen \cup {p}
  <2> DEFINE F == [Top EXCEPT !.at = k + 1, !.seen = @ \cup {p}]
  <2>1. F \in Frame /\ F.name = Top.name /\ F.at = k + 1 /\ F.seen = Top.seen \cup {p}
    <3> DEFINE S == Top.seen \cup {p}
    <3>1. k + 1 \in Nat \ {0} /\ S \in SUBSET Packages /\ Top \in Frame
      BY <1>3, <1>4
    <3>2. F = [Top EXCEPT !.at = k + 1, !.seen = S]
      OBVIOUS
    <3> HIDE DEF S, F
    <3>3. F \in Frame /\ F.name = Top.name /\ F.at = k + 1 /\ F.seen = S
      <4> DEFINE a == k + 1
      <4>1. a \in Nat \ {0} /\ S \in SUBSET Packages /\ Top \in Frame
        BY <3>1
      <4>2. F = [Top EXCEPT !.at = a, !.seen = S]
        BY <3>2
      <4> HIDE DEF a
      <4>3. F \in Frame /\ F.name = Top.name /\ F.at = a /\ F.seen = S
        BY <4>1, <4>2 DEF Frame
      <4> QED BY <4>3 DEF a
    <3> QED BY <3>3 DEF S
  <2> HIDE DEF F
  <2>2. Below \in Seq(Frame) /\ Len(Below) = n - 1 /\ n \in Nat \ {0} /\ \A i \in 1..(n - 1) : Below[i] = stack[i]
    BY <1>n, <1>2, StackTypes
  <2>3. Append(Below, F) \in Seq(Frame) /\ Len(Append(Below, F)) = n /\ Append(Below, F)[n] = F
        /\ \A i \in 1..(n - 1) : Append(Below, F)[i] = stack[i]
    <3> HIDE DEF Frame
    <3> QED BY <2>1, <2>2
  <2> QED BY <2>1, <2>3 DEF F
<1> HIDE DEF moved
\* The package's frame has passed it; its dependency is said to be open.
<1>11. /\ \A j \in DOMAIN sdps : j < k + 1 /\ Name[sdps[j].pkg] = Top.name => sdps[j].pkg \in moved[n].seen
       /\ \A q \in moved[n].seen : q \in Known /\ q \in passed' /\ Name[q] = Top.name
       /\ \A q \in Top.seen : Depends[q] = NoText \/ AllPassed(Depends[q])'
  <2>1. ASSUME NEW j \in DOMAIN sdps, j < k + 1, Name[sdps[j].pkg] = Top.name
        PROVE  sdps[j].pkg \in moved[n].seen
    <3>1. CASE j < Top.at
      BY <1>3, <1>10, <2>1, <3>1 DEF FrameInv
    <3>2. CASE j >= Top.at /\ j # k
      <4>1. j \in Top.at..Len(sdps) /\ ~(k <= j)
        BY <1>3, <1>4, <2>1, <3>2, SdpTypes
      <4>2. j \notin Left
        BY <1>1, <4>1 DEF IsNext
      <4> QED BY <1>10, <2>1, <4>1, <4>2 DEF Left, Matches
    <3>3. CASE j = k
      BY <1>10, <3>3
    <3> QED BY <1>3, <3>1, <3>2, <3>3, SdpTypes
  <2>2. p \in Known
    BY <1>4 DEF Known
  <2>3. \A q \in Top.seen : Depends[q] = NoText \/ AllPassed(Depends[q])
    BY <1>n, <1>3 DEF FrameInv
  <2>4. \A q \in Top.seen : Depends[q] \in Names \cup {NoText}
    BY <1>3, RapidAssumption
  <2> QED BY <1>1, <1>3, <1>4, <1>6, <1>10, <2>1, <2>2, <2>3, <2>4 DEF FrameInv
\* The frames below are as they were.
<1>12. ASSUME NEW i \in 1..(n - 1), stack' \in Seq(Frame), Len(stack') >= n,
              \A j \in 1..n : stack'[j] = moved[j]
       PROVE  FrameInv(i)'
  <2>1. /\ i \in DOMAIN stack /\ i \in Nat /\ n \in Nat /\ i < n /\ i + 1 \in 1..n /\ FrameInv(i)
        /\ stack[i].seen \subseteq Packages
    BY <1>0, <1>s
  <2>2. stack'[i] = stack[i] /\ stack'[i + 1].name = stack[i + 1].name /\ Len(stack') \in Nat
    <3>1. i + 1 = n \/ i + 1 \in 1..(n - 1)
      BY <1>0
    <3> QED BY <1>0, <1>3, <1>10, <1>12, <2>1, <3>1
  <2>3. \A q \in stack[i].seen : Depends[q] \in Names \cup {NoText}
    BY <2>1, RapidAssumption
  <2>4. i < Len(stack')
    BY <1>12, <2>1, <2>2
  <2>5. \A q \in stack[i].seen :
          \/ Depends[q] = NoText \/ AllPassed(Depends[q])'
          \/ stack'[i + 1].name = Depends[q]
    BY <1>6, <2>1, <2>2, <2>3 DEF FrameInv
  <2>6. \A j \in DOMAIN sdps' :
          j < stack'[i].at /\ Name[sdps'[j].pkg] = stack'[i].name => sdps'[j].pkg \in stack'[i].seen
    BY <1>5, <2>1, <2>2 DEF FrameInv
  <2>7. \A q \in stack'[i].seen : q \in Known' /\ q \in passed' /\ Name[q] = stack'[i].name
    BY <1>1, <1>6, <2>1, <2>2 DEF FrameInv
  <2>8. stack'[i].name \in Names /\ stack'[i].seen # {}
    BY <1>n, <2>1, <2>2 DEF FrameInv
  <2> QED BY <2>2, <2>4, <2>5, <2>6, <2>7, <2>8 DEF FrameInv
<1>13. CASE Depends[p] = NoText /\ stack' = moved /\ UNCHANGED <<pc, call, ret>>
  <2>1. n \in Nat \ {0} /\ n <= RecLimit + 1 /\ stack \in Seq(Frame)
    BY <1>0, <1>s
  <2>2. RapidTypeOK'
    <3>1. stack' \in Seq(Frame) /\ Len(stack') <= RecLimit + 1
      BY <1>10, <1>13, <2>1
    <3> QED BY <1>2, <1>5, <1>8, <1>13, <3>1 DEF RapidInv, RapidTypeOK
  <2>3. CallInv'
    <3>1. stack' # <<>> /\ stack'[1].name = stack[1].name
      <4>1. n = 1 \/ 1 \in 1..(n - 1)
        BY <1>0
      <4> QED BY <1>0, <1>3, <1>10, <1>13, <2>1, <4>1
    <3> QED BY <1>2, <1>13, <3>1 DEF RapidInv, CallInv
  <2>4. WalkInv'
    <3>1. \A i \in 1..(n - 1) : FrameInv(i)'
      BY <1>10, <1>12, <1>13, <2>1
    <3>2. FrameInv(n)'
      BY <1>3, <1>5, <1>6, <1>10, <1>11, <1>13, <2>1 DEF FrameInv
    <3>3. DOMAIN stack' = 1..n
      BY <1>10, <1>13
    <3> QED BY <1>0, <3>1, <3>2, <3>3 DEF WalkInv
  <2> QED BY <1>2, <1>5, <1>7, <1>13, <2>2, <2>3, <2>4, WalkStep
<1>14. CASE /\ Depends[p] # NoText /\ ~(Len(stack) > RecLimit)
            /\ stack' = Append(moved, NewFrame(Depends[p])) /\ UNCHANGED <<pc, call, ret>>
  <2>1. n \in Nat \ {0} /\ n + 1 <= RecLimit + 1 /\ Depends[p] \in Names
    <3>1. Depends[p] \in Names
      BY <1>4, <1>14, RapidAssumption
    <3> QED BY <1>0, <1>n, <1>14, <3>1, RapidAssumption
  <2>2. /\ stack' \in Seq(Frame) /\ Len(stack') = n + 1 /\ \A i \in 1..n : stack'[i] = moved[i]
        /\ stack'[n + 1].name = Depends[p] /\ stack'[n + 1].at = 1 /\ stack'[n + 1].seen = {}
    <3>1. /\ NewFrame(Depends[p]) \in Frame /\ NewFrame(Depends[p]).name = Depends[p]
          /\ NewFrame(Depends[p]).at = 1 /\ NewFrame(Depends[p]).seen = {}
      BY <2>1 DEF NewFrame, Frame, Texts
    <3> HIDE DEF Frame
    <3> QED BY <1>10, <1>14, <2>1, <3>1
  <2>3. RapidTypeOK'
    BY <1>2, <1>5, <1>8, <1>14, <2>1, <2>2 DEF RapidInv, RapidTypeOK
  <2>4. CallInv'
    <3>1. stack' # <<>> /\ stack'[1].name = stack[1].name
      <4>1. n = 1 \/ 1 \in 1..(n - 1)
        BY <1>0
      <4> QED BY <1>0, <1>3, <1>10, <2>1, <2>2, <4>1
    <3> QED BY <1>2, <1>14, <3>1 DEF RapidInv, CallInv
  <2>5. WalkInv'
    <3>1. \A i \in 1..(n - 1) : FrameInv(i)'
      BY <1>12, <2>1, <2>2
    <3>2. FrameInv(n)'
      <4>1. n \in 1..n /\ stack'[n] = moved[n] /\ n < Len(stack')
        BY <1>0, <2>2
      <4>2. \A j \in DOMAIN sdps' :
              j < stack'[n].at /\ Name[sdps'[j].pkg] = stack'[n].name => sdps'[j].pkg \in stack'[n].seen
        BY <1>5, <1>10, <1>11, <4>1
      <4>3. \A q \in stack'[n].seen : q \in Known' /\ q \in passed' /\ Name[q] = stack'[n].name
        BY <1>6, <1>10, <1>11, <4>1
      <4>4. \A q \in stack'[n].seen :
              Depends[q] = NoText \/ AllPassed(Depends[q])' \/ stack'[n + 1].name = Depends[q]
        BY <1>10, <1>11, <2>2, <4>1
      <4>5. stack'[n].name \in Names /\ stack'[n].seen # {}
        BY <1>3, <1>10, <4>1
      <4> QED BY <4>1, <4>2, <4>3, <4>4, <4>5 DEF FrameInv
    <3>3. FrameInv(n + 1)'
      <4>1. \A j \in DOMAIN sdps' : ~(j < 1)
        BY <1>5, SdpTypes
      <4> QED BY <1>0, <2>1, <2>2, <4>1 DEF FrameInv
    <3>4. DOMAIN stack' = 1..(n + 1)
      BY <2>2
    <3> QED BY <1>0, <3>1, <3>2, <3>3, <3>4 DEF WalkInv
  <2> QED BY <1>2, <1>5, <1>7, <1>14, <2>3, <2>4, <2>5, WalkStep
<1> QED BY <1>1, <1>9, <1>13, <1>14 DEF Advance, moved

\* Every step of a call keeps the invariant, and what was known by its tag.
LEMMA RapidStepInv ==
  ASSUME RapidInv, RapidStep
  PROVE  RapidInv' /\ \A t \in Tags, n \in Names : ListedOrBuilt(t, n) => ListedOrBuilt(t, n)'
<1>1. CASE \/ ResolvedBefore \/ ResolveFails \/ UseCachedRepos \/ DownloadRepos
           \/ DownloadReposFails \/ Updated
  <2>1. sdps' = sdps /\ built' = built
    BY <1>1 DEF ResolvedBefore, ResolveFails, UseCachedRepos, DownloadRepos, DownloadReposFails,
       Updated, memVars
  <2>2. RapidInv'
    BY <1>1, ResolvedBeforeInv, ResolveFailsInv, ReposInv
  <2> QED BY <2>1, <2>2 DEF ListedOrBuilt
<1>2. CASE Resolve \/ ParseVersions \/ Collect
  BY <1>2, ResolveInv, ParseVersionsInv, CollectInv
<1>3. CASE WalkEnds \/ WalkSdp \/ WalkSdpFails
  BY <1>3, WalkEndsInv, WalkSdpInv, WalkSdpFailsInv
<1> QED BY <1>1, <1>2, <1>3 DEF RapidStep

\* A step is one of the call that runs, and what CSdp::download returned true for
\* stays so.
LEMMA RapidStepFacts ==
  ASSUME RapidInv, RapidStep
  PROVE  pc # "off" /\ call'.op = call.op /\ call'.name = call.name /\ passed \subseteq passed'
<1>1. call \in CallType
  BY DEF RapidInv, RapidTypeOK, CallType
<1>2. \A g : [call EXCEPT !.git = g].op = call.op /\ [call EXCEPT !.git = g].name = call.name
  BY <1>1 DEF CallType
<1>3. WalkFails => call'.op = call.op /\ call'.name = call.name
  BY <1>2 DEF WalkFails
<1>4. CASE ResolvedBefore \/ Resolve \/ ResolveFails \/ UseCachedRepos \/ Updated
  BY <1>2, <1>4 DEF ResolvedBefore, Resolve, ResolveFails, UseCachedRepos, Updated, diskVars, memVars
<1>5. CASE DownloadRepos \/ DownloadReposFails \/ ParseVersions \/ Collect
  BY <1>5 DEF DownloadRepos, DownloadReposFails, ParseVersions, Collect, diskVars
<1>6. CASE WalkEnds \/ WalkSdpFails
  BY <1>3, <1>6 DEF WalkEnds, WalkSdpFails, diskVars, memVars
<1>7. CASE WalkSdp
  BY <1>3, <1>7 DEF WalkSdp, Advance
<1> QED BY <1>4, <1>5, <1>6, <1>7 DEF RapidStep

================================================================================
