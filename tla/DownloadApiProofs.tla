--------------------------- MODULE DownloadApiProofs ---------------------------
(***************************************************************************)
(* The safety properties of the library's interface and of the rapid       *)
(* downloader under it, for any catalogues, packages, editions and bounds. *)
(*                                                                         *)
(* RapidInv is what the rapid downloader's steps keep; here it is kept by  *)
(* the interface's, which adds where the application's call is and what is *)
(* known of each IDownload.                                                *)
(***************************************************************************)
EXTENDS DownloadApi, RapidDownloaderProofs

ApiStates == {"idle", "rapidSearch", "httpSearch", "depends", "rapid", "wait", "http",
              "engines", "returned", "dead"}

ApiType ==
  /\ idl \in Seq(IDownload) /\ results \in 0..Len(idl)
  /\ downloads \in Seq(0..results) /\ dls \in Seq(DOMAIN idl)
  /\ api \in ApiStates
  /\ asked \in Texts \cup HttpNames /\ at \in Nat \ {0} /\ todo \in Seq(Texts)
  /\ result \in {NoResult, 0, 1, 2, 5}

\* Where the application's call can be with a call of the rapid downloader.
PlaceInv ==
  /\ api \notin {"rapidSearch", "wait"} => pc = "off" /\ call = NoCall
  /\ api = "rapidSearch" => call.op = "search" /\ asked \in Texts
  /\ api = "wait" => /\ at \in DOMAIN dls /\ call.op = "download"
                     /\ call.name = Dl(at).name /\ Dl(at).kind = "rapid"
  /\ api = "idle" => dls = <<>>
  /\ api = "depends" => dls # <<>>
  /\ api \in {"rapidSearch", "httpSearch"} /\ dls = <<>> => downloads = <<>>
  /\ api = "returned" /\ result = 0 => \A i \in DOMAIN dls : Dl(i).state = "finished"

\* A rapid IDownload can be asked for, and if it is finished CSdp::download has
\* returned true for a package of its name.
IdlInv(d) ==
  d.kind = "rapid" =>
    /\ d.name \in Names /\ d.origin \in Texts /\ d.tag \in Tags
    /\ ListedOrBuilt(d.tag, d.name)
    /\ d.state = "finished" => SomePassed(d.name)

IdlsInv == \A j \in DOMAIN idl : IdlInv(idl[j])

ApiInv == RapidInv /\ ApiType /\ PlaceInv /\ IdlsInv

----------------------------------------------------------------------------
(* What the lists of IDownloads keep *)

LEMMA IdlKept ==
  ASSUME NEW d, IdlInv(d), passed \subseteq passed',
         \A t \in Tags, n \in Names : ListedOrBuilt(t, n) => ListedOrBuilt(t, n)'
  PROVE  IdlInv(d)'
BY DEF IdlInv, SomePassed

LEMMA SameRapid ==
  ASSUME UNCHANGED <<sdps, built, passed>>
  PROVE  /\ \A d : IdlInv(d) => IdlInv(d)'
         /\ \A t, n : ListedOrBuilt(t, n) => ListedOrBuilt(t, n)'
BY DEF IdlInv, SomePassed, ListedOrBuilt

LEMMA IdlTypes ==
  ASSUME ApiInv
  PROVE  /\ DOMAIN idl = 1..Len(idl) /\ Len(idl) \in Nat /\ results \in Nat /\ results <= Len(idl)
         /\ \A j \in DOMAIN idl : idl[j] \in IDownload
         /\ DOMAIN dls = 1..Len(dls) /\ Len(dls) \in Nat
         /\ \A i \in DOMAIN dls : dls[i] \in DOMAIN idl /\ Dl(i) \in IDownload /\ IdlInv(Dl(i))
<1>1. idl \in Seq(IDownload) /\ dls \in Seq(DOMAIN idl) /\ results \in 0..Len(idl)
  BY DEF ApiInv, ApiType
<1>2. \A j \in DOMAIN idl : idl[j] \in IDownload /\ IdlInv(idl[j])
  BY <1>1 DEF ApiInv, IdlsInv
<1>3. \A i \in DOMAIN dls : dls[i] \in DOMAIN idl
  BY <1>1
<1> QED BY <1>1, <1>2, <1>3 DEF Dl

LEMMA InitInv ==
  ASSUME Init
  PROVE  ApiInv
<1>1. RapidInv /\ pc = "off" /\ call = NoCall
  BY RapidInitInv DEF Init, RapidInit
<1>2. ApiType
  <2>1. idl \in Seq(IDownload) /\ Len(idl) = 0 /\ downloads \in Seq(0..results) /\ dls \in Seq(DOMAIN idl)
    BY DEF Init
  <2>2. at \in Nat \ {0} /\ todo \in Seq(Texts) /\ results \in 0..0
    BY DEF Init
  <2> QED BY <2>1, <2>2 DEF Init, ApiType, ApiStates, Texts
<1>3. PlaceInv /\ IdlsInv
  BY <1>1 DEF Init, PlaceInv, IdlsInv
<1> QED BY <1>1, <1>2, <1>3 DEF ApiInv

LEMMA RapidStepKeeps ==
  ASSUME ApiInv, RapidStep, UNCHANGED apiVars
  PROVE  ApiInv'
<1>1. /\ RapidInv' /\ pc # "off" /\ call'.op = call.op /\ call'.name = call.name /\ passed \subseteq passed'
      /\ \A t \in Tags, n \in Names : ListedOrBuilt(t, n) => ListedOrBuilt(t, n)'
  BY RapidStepInv, RapidStepFacts DEF ApiInv
<1>2. UNCHANGED <<idl, results, downloads, dls, api, asked, at, todo, result>>
  BY DEF apiVars
<1>3. ApiType'
  BY <1>2 DEF ApiInv, ApiType
<1>4. PlaceInv'
  BY <1>1, <1>2 DEF ApiInv, PlaceInv, Dl
<1>5. IdlsInv'
  BY <1>1, <1>2, IdlKept DEF ApiInv, IdlsInv
<1> QED BY <1>1, <1>3, <1>4, <1>5 DEF ApiInv

----------------------------------------------------------------------------
(* search *)

LEMMA SearchInv ==
  ASSUME RapidInv, pc = "off", call = NoCall, NEW text \in Texts \cup HttpNames, NEW game \in BOOLEAN,
         game => text \in Texts, Search(text, game)
  PROVE  /\ RapidInv' /\ UNCHANGED <<sdps, built, passed>> /\ asked' = text
         /\ \/ api' = "rapidSearch" /\ call'.op = "search" /\ text \in Texts
            \/ api' = "httpSearch" /\ pc' = "off" /\ call' = NoCall
<1>1. CASE game
  <2>1. /\ asked' = text /\ api' = "rapidSearch" /\ text \in Texts /\ Begin("search", text, text)
    BY <1>1 DEF Search, BeginSearch
  <2>2. RapidInv'
    BY <2>1, BeginInv
  <2>3. UNCHANGED <<sdps, built, passed>> /\ call'.op = "search"
    BY <2>1 DEF Begin, diskVars, memVars
  <2> QED BY <2>1, <2>2, <2>3
<1>2. CASE ~game
  <2>1. asked' = text /\ api' = "httpSearch" /\ UNCHANGED rapidVars
    BY <1>2 DEF Search
  <2>2. UNCHANGED <<reposgz, passed, repos, sdps, scrambled, forceUpdate, gitEnabled,
                    rapidGitResolvedTags, built, pc, call, next, stack, found, finished, ret>>
    BY <2>1 DEF rapidVars, diskVars, memVars, callVars
  <2> QED BY <2>1, <2>2, SameInv
<1> QED BY <1>1, <1>2

LEMMA ConcatTypes ==
  ASSUME NEW S, NEW a \in Seq(S), NEW b \in Seq(S)
  PROVE  a \o b \in Seq(S) /\ Len(a \o b) = Len(a) + Len(b)
OBVIOUS

\* What was found is appended to one list or is the other.
LEMMA FoundKeeps ==
  ASSUME ApiInv, NEW new \in Seq(IDownload), \A k \in DOMAIN new : IdlInv(new[k]),
         dls = <<>> => downloads = <<>>,
         Found(new), RapidInv', pc' = "off", call' = NoCall,
         UNCHANGED <<sdps, built, passed, downloads, at, todo, result>>
  PROVE  ApiInv'
<1>0. Len(new) \in Nat /\ DOMAIN new = 1..Len(new) /\ \A k \in DOMAIN new : new[k] \in IDownload
  OBVIOUS
<1>1. CASE dls = <<>>
  <2>1. /\ idl' = new /\ results' = Len(new) /\ api' = "idle" /\ asked' = NoText
        /\ dls' = <<>> /\ downloads' = <<>>
    BY <1>1 DEF Found
  <2>2. ApiType'
    <3>1. downloads' \in Seq(0..results') /\ dls' \in Seq(DOMAIN idl') /\ results' \in 0..Len(idl')
      BY <1>0, <2>1
    <3> QED BY <2>1, <3>1 DEF ApiInv, ApiType, ApiStates, Texts
  <2>3. PlaceInv'
    BY <2>1 DEF PlaceInv
  <2>4. IdlsInv'
    BY <2>1, SameRapid DEF IdlsInv
  <2> QED BY <2>2, <2>3, <2>4 DEF ApiInv
<1>2. CASE dls # <<>>
  <2> DEFINE K == Added(new)
  <2>1. PICK f \in InOrder(K) :
          /\ idl' = idl \o [i \in DOMAIN f |-> new[f[i]]]
          /\ dls' = dls \o [i \in DOMAIN f |-> Len(idl) + i]
          /\ api' = "depends" /\ asked' = NoText /\ results' = results
    BY <1>2 DEF Found
  <2>2. PICK m \in Nat : f \in [1..m -> K]
    <3>1. K \in SUBSET (1..Len(new))
      BY <1>0 DEF Added
    <3> HIDE DEF K
    <3> QED BY <1>0, <2>1, <3>1, InOrderFacts
  <2> DEFINE more == [i \in DOMAIN f |-> new[f[i]]]
             pos == [i \in DOMAIN f |-> Len(idl) + i]
  <2>3. more \in Seq(IDownload) /\ Len(more) = m /\ \A i \in 1..m : IdlInv(more[i])
    <3>1. \A k \in K : new[k] \in IDownload /\ IdlInv(new[k])
      BY <1>0 DEF Added
    <3> HIDE DEF K
    <3>2. more \in [1..m -> IDownload] /\ \A i \in 1..m : IdlInv(more[i])
      BY <2>2, <3>1
    <3> QED BY <2>2, <3>2
  <2>4. pos \in Seq(1..(Len(idl) + m)) /\ Len(pos) = m
    <3>1. pos \in [1..m -> 1..(Len(idl) + m)]
      BY <2>2, IdlTypes
    <3> QED BY <2>2, <3>1
  <2> HIDE DEF more, pos, K
  <2>5. /\ idl' \in Seq(IDownload) /\ Len(idl') = Len(idl) + m /\ DOMAIN idl' = 1..(Len(idl) + m)
        /\ \A j \in DOMAIN idl' : (j \in DOMAIN idl /\ idl'[j] = idl[j])
                                  \/ \E i \in 1..m : idl'[j] = more[i]
    <3>1. idl' = idl \o more /\ idl \in Seq(IDownload)
      BY <2>1 DEF more, ApiInv, ApiType
    <3>2. \A j \in (Len(idl) + 1)..(Len(idl) + m) : (idl \o more)[j] = more[j - Len(idl)] /\ j - Len(idl) \in 1..m
      BY <2>3, <3>1
    <3>3. idl' \in Seq(IDownload) /\ Len(idl') = Len(idl) + m /\ DOMAIN idl' = 1..(Len(idl) + m)
      <4>1. idl' \in Seq(IDownload) /\ Len(idl') = Len(idl) + Len(more)
        BY <2>3, <3>1, ConcatTypes
      <4>2. DOMAIN idl' = 1..Len(idl')
        BY <4>1
      <4> QED BY <2>3, <4>1, <4>2
    <3>4. \A j \in 1..Len(idl) : idl'[j] = idl[j] /\ j \in DOMAIN idl
      BY <2>3, <3>1
    <3>5. \A j \in 1..(Len(idl) + m) : j \in 1..Len(idl) \/ j \in (Len(idl) + 1)..(Len(idl) + m)
      BY <2>2, IdlTypes
    <3> QED BY <3>1, <3>2, <3>3, <3>4, <3>5
  <2>6. dls' \in Seq(DOMAIN idl') /\ dls' # <<>>
    <3>1. dls \in Seq(1..(Len(idl) + m)) /\ dls' = dls \o pos
      BY <2>1, <2>2, IdlTypes DEF pos, ApiInv, ApiType
    <3> QED BY <1>2, <2>4, <2>5, <3>1
  <2>7. ApiType'
    <3>1. results' \in 0..Len(idl') /\ downloads' \in Seq(0..results')
      BY <2>1, <2>2, <2>5, IdlTypes DEF ApiInv, ApiType
    <3> QED BY <2>1, <2>5, <2>6, <3>1 DEF ApiInv, ApiType, ApiStates, Texts
  <2>8. PlaceInv'
    BY <2>1, <2>6 DEF PlaceInv
  <2>9. IdlsInv'
    BY <2>3, <2>5, SameRapid DEF ApiInv, IdlsInv
  <2> QED BY <2>7, <2>8, <2>9 DEF ApiInv
<1> QED BY <1>1, <1>2

LEMMA RapidFoundInv ==
  ASSUME ApiInv, RapidFound
  PROVE  ApiInv'
<1>1. /\ api = "rapidSearch" /\ pc = "off" /\ End /\ UNCHANGED <<downloads, at, todo, result>>
      /\ asked \in Texts /\ RapidInv
      /\ (dls = <<>> => downloads = <<>>)
  BY DEF RapidFound, ApiInv, PlaceInv
<1>2. RapidInv' /\ UNCHANGED <<sdps, built, passed>> /\ pc' = "off" /\ call' = NoCall
  BY <1>1, EndInv DEF End, diskVars
<1>3. CASE found = <<>>
  <2>1. api' = "httpSearch" /\ UNCHANGED <<idl, results, dls, asked>>
    BY <1>3 DEF RapidFound
  <2>2. ApiType'
    BY <1>1, <2>1 DEF ApiInv, ApiType, ApiStates
  <2>3. PlaceInv' /\ IdlsInv'
    BY <1>1, <1>2, <2>1, SameRapid DEF ApiInv, PlaceInv, IdlsInv
  <2> QED BY <1>2, <2>2, <2>3 DEF ApiInv
<1>4. CASE found # <<>>
  <2> DEFINE new == [k \in DOMAIN found |-> NewRapid(found[k])]
  <2>1. Found(new)
    BY <1>4 DEF RapidFound
  <2>2. found \in Seq(Line)
    BY <1>1 DEF RapidInv, RapidTypeOK
  <2>3. \A k \in DOMAIN found : NewRapid(found[k]) \in IDownload /\ IdlInv(NewRapid(found[k]))
    <3> SUFFICES ASSUME NEW k \in DOMAIN found
                 PROVE  NewRapid(found[k]) \in IDownload /\ IdlInv(NewRapid(found[k]))
      OBVIOUS
    <3>1. found[k].tag \in Tags /\ found[k].pkg \in Packages /\ Name[found[k].pkg] \in Names
      <4>1. found[k] \in Line
        BY <2>2
      <4> QED BY <4>1 DEF Line, Names
    <3>2. ListedOrBuilt(found[k].tag, Name[found[k].pkg])
      BY <1>1 DEF RapidInv, FoundInv, ListedOrBuilt
    <3>3. NewRapid(found[k]) \in IDownload
      <4>1. <<>> \in Seq(Texts)
        OBVIOUS
      <4> QED BY <1>1, <3>1, <4>1 DEF NewRapid, IDownload
    <3>4. IdlInv(NewRapid(found[k]))
      BY <1>1, <3>1, <3>2 DEF NewRapid, IdlInv
    <3> QED BY <3>3, <3>4
  <2>4. new \in Seq(IDownload) /\ DOMAIN new = DOMAIN found /\ \A k \in DOMAIN new : IdlInv(new[k])
    <3> HIDE DEF IDownload
    <3>1. DOMAIN found = 1..Len(found) /\ Len(found) \in Nat
      BY <2>2
    <3>2. new \in [1..Len(found) -> IDownload]
      BY <2>3, <3>1
    <3> QED BY <2>3, <3>1, <3>2
  <2> HIDE DEF new
  <2> QED BY <1>1, <1>2, <2>1, <2>4, FoundKeeps
<1> QED BY <1>3, <1>4

LEMMA HttpFoundInv ==
  ASSUME ApiInv, HttpFound
  PROVE  ApiInv'
<1>1. /\ api = "httpSearch" /\ UNCHANGED <<rapidVars, downloads, at, todo, result>>
      /\ pc = "off" /\ call = NoCall /\ asked \in Texts \cup HttpNames
      /\ (dls = <<>> => downloads = <<>>)
  BY DEF HttpFound, ApiInv, PlaceInv, ApiType
<1>2. PICK hits \in {<<>>, HttpHits[asked]} : Found([k \in DOMAIN hits |-> NewHttp(hits[k])])
  BY DEF HttpFound
<1>3. UNCHANGED <<reposgz, passed, repos, sdps, scrambled, forceUpdate, gitEnabled,
                  rapidGitResolvedTags, built, pc, call, next, stack, found, finished, ret>>
  BY <1>1 DEF rapidVars, diskVars, memVars, callVars
<1>4. hits \in Seq(HttpHit)
  <2>1. HttpHits[asked] \in Seq(HttpHit)
    BY <1>1, ApiAssumption
  <2>2. <<>> \in Seq(HttpHit)
    OBVIOUS
  <2> QED BY <1>2, <2>1, <2>2
<1> DEFINE new == [k \in DOMAIN hits |-> NewHttp(hits[k])]
<1>5. \A k \in DOMAIN hits : NewHttp(hits[k]) \in IDownload /\ IdlInv(NewHttp(hits[k]))
  <2>1. \A k \in DOMAIN hits : hits[k] \in HttpHit
    BY <1>4
  <2>2. \A h \in HttpHit : NewHttp(h) \in IDownload /\ IdlInv(NewHttp(h))
    BY DEF NewHttp, HttpHit, IDownload, IdlInv, Texts
  <2> QED BY <2>1, <2>2
<1>6. new \in Seq(IDownload) /\ \A k \in DOMAIN new : IdlInv(new[k])
  <2>1. DOMAIN hits = 1..Len(hits) /\ Len(hits) \in Nat
    BY <1>4
  <2>2. new \in [1..Len(hits) -> IDownload]
    BY <1>5, <2>1
  <2> QED BY <1>5, <2>1, <2>2
<1>7. RapidInv'
  BY <1>3, SameInv DEF ApiInv
<1> HIDE DEF new
<1>8. Found(new)
  BY <1>2 DEF new
<1> QED BY <1>1, <1>3, <1>6, <1>7, <1>8, FoundKeeps

LEMMA DownloadSearchInv ==
  ASSUME ApiInv, NEW q \in Queries, DownloadSearch(q)
  PROVE  ApiInv'
<1>1. /\ api = "idle" /\ idl' = <<>> /\ results' = 0 /\ downloads' = <<>> /\ dls' = <<>>
      /\ Search(q.text, q.game) /\ UNCHANGED <<at, todo, result>>
      /\ pc = "off" /\ call = NoCall /\ RapidInv
  BY DEF DownloadSearch, ApiInv, PlaceInv
<1>2. q.text \in Texts \cup HttpNames /\ q.game \in BOOLEAN /\ (q.game => q.text \in Texts)
  BY ApiAssumption
<1>3. /\ RapidInv' /\ asked' = q.text
      /\ \/ api' = "rapidSearch" /\ call'.op = "search" /\ q.text \in Texts
         \/ api' = "httpSearch" /\ pc' = "off" /\ call' = NoCall
  BY <1>1, <1>2, SearchInv
<1>4. ApiType'
  <2>1. idl' \in Seq(IDownload) /\ results' \in 0..Len(idl') /\ downloads' \in Seq(0..results') /\ dls' \in Seq(DOMAIN idl')
    BY <1>1
  <2> QED BY <1>1, <1>2, <1>3, <2>1 DEF ApiInv, ApiType, ApiStates
<1>5. PlaceInv' /\ IdlsInv'
  BY <1>1, <1>3 DEF PlaceInv, IdlsInv
<1> QED BY <1>3, <1>4, <1>5 DEF ApiInv

LEMMA AskDependInv ==
  ASSUME ApiInv, AskDepend
  PROVE  ApiInv'
<1>1. /\ api = "depends" /\ todo # <<>> /\ todo' = Tail(todo) /\ Search(Head(todo), TRUE)
      /\ UNCHANGED <<idl, results, downloads, dls, at, result>>
      /\ pc = "off" /\ call = NoCall /\ RapidInv /\ dls # <<>> /\ todo \in Seq(Texts)
  BY DEF AskDepend, ApiInv, PlaceInv, ApiType
<1>2. Head(todo) \in Texts /\ todo' \in Seq(Texts)
  BY <1>1
<1>3. /\ RapidInv' /\ UNCHANGED <<sdps, built, passed>> /\ asked' = Head(todo)
      /\ \/ api' = "rapidSearch" /\ call'.op = "search"
         \/ api' = "httpSearch" /\ pc' = "off" /\ call' = NoCall
  BY <1>1, <1>2, SearchInv
<1>4. ApiType'
  BY <1>1, <1>2, <1>3 DEF ApiInv, ApiType, ApiStates
<1>5. PlaceInv' /\ IdlsInv'
  BY <1>1, <1>2, <1>3, SameRapid DEF ApiInv, PlaceInv, IdlsInv
<1> QED BY <1>3, <1>4, <1>5 DEF ApiInv

----------------------------------------------------------------------------
(* The calls *)

\* Steps between those of the rapid downloader, that leave the lists alone.
LEMMA ApiStepInv ==
  ASSUME ApiInv, api \notin {"rapidSearch", "wait"}, UNCHANGED <<rapidVars, asked>>,
         ApiType', api' \notin {"rapidSearch", "httpSearch", "wait"},
         api' = "idle" => dls' = <<>>, api' = "depends" => dls' # <<>>,
         api' = "returned" /\ result' = 0 => \A i \in DOMAIN dls' : Dl(i)'.state = "finished",
         \A j \in DOMAIN idl' : IdlInv(idl'[j])
  PROVE  ApiInv'
<1>1. UNCHANGED <<reposgz, passed, repos, sdps, scrambled, forceUpdate, gitEnabled,
                  rapidGitResolvedTags, built, pc, call, next, stack, found, finished, ret>>
  BY DEF rapidVars, diskVars, memVars, callVars
<1>2. RapidInv'
  BY <1>1, SameInv DEF ApiInv
<1>3. PlaceInv'
  BY <1>1 DEF ApiInv, PlaceInv
<1>4. IdlsInv'
  BY <1>1, SameRapid DEF IdlsInv
<1> QED BY <1>2, <1>3, <1>4 DEF ApiInv

LEMMA DownloadAddInv ==
  ASSUME ApiInv, NEW id \in 0..results, DownloadAdd(id)
  PROVE  ApiInv'
<1>1. /\ api = "idle" /\ downloads' = Append(downloads, id) /\ UNCHANGED rapidVars
      /\ UNCHANGED <<idl, results, dls, api, asked, at, todo, result>>
  BY DEF DownloadAdd
<1>2. ApiType'
  <2>1. downloads' \in Seq(0..results)
    BY <1>1 DEF ApiInv, ApiType
  <2> QED BY <1>1, <2>1 DEF ApiInv, ApiType
<1> QED BY <1>1, <1>2, ApiStepInv DEF ApiInv, PlaceInv, IdlsInv

LEMMA DownloadStartInv ==
  ASSUME ApiInv, DownloadStart
  PROVE  ApiInv'
<1> DEFINE list == [i \in DOMAIN downloads |-> downloads[i] + 1]
<1>1. /\ api = "idle" /\ UNCHANGED <<rapidVars, results, downloads, asked>>
      /\ \/ api' = "dead" /\ UNCHANGED <<idl, dls, at, todo, result>>
         \/ /\ \A i \in DOMAIN list : ~(list[i] > results)
            /\ dls' = list /\ UNCHANGED <<idl, at>>
            /\ \/ result' = 5 /\ api' = "returned" /\ UNCHANGED todo
               \/ result' = 1 /\ api' = "returned" /\ UNCHANGED todo
               \/ list # <<>> /\ api' = "depends" /\ todo' = DependOf(list, 1) /\ UNCHANGED result
               \/ api' = "rapid" /\ UNCHANGED <<todo, result>>
  BY DEF DownloadStart
<1>2. CASE api' = "dead" /\ UNCHANGED <<idl, dls, at, todo, result>>
  <2>1. ApiType'
    BY <1>1, <1>2 DEF ApiInv, ApiType, ApiStates
  <2> QED BY <1>1, <1>2, <2>1, ApiStepInv DEF ApiInv, IdlsInv
<1>3. CASE /\ \A i \in DOMAIN list : ~(list[i] > results)
           /\ dls' = list /\ UNCHANGED <<idl, at>>
           /\ \/ result' = 5 /\ api' = "returned" /\ UNCHANGED todo
              \/ result' = 1 /\ api' = "returned" /\ UNCHANGED todo
              \/ list # <<>> /\ api' = "depends" /\ todo' = DependOf(list, 1) /\ UNCHANGED result
              \/ api' = "rapid" /\ UNCHANGED <<todo, result>>
  <2>1. list \in Seq(DOMAIN idl)
    <3>1. downloads \in Seq(0..results) /\ DOMAIN list = 1..Len(downloads) /\ Len(downloads) \in Nat
      BY DEF ApiInv, ApiType
    <3>2. \A i \in 1..Len(downloads) : list[i] \in DOMAIN idl
      BY <1>3, <3>1, IdlTypes
    <3>3. list \in [1..Len(downloads) -> DOMAIN idl]
      BY <3>1, <3>2
    <3> QED BY <3>1, <3>3
  <2> HIDE DEF list
  <2>2. todo' \in Seq(Texts)
    <3>1. list # <<>> => list[1] \in DOMAIN idl
      BY <2>1
    <3>2. list # <<>> => DependOf(list, 1) \in Seq(Texts)
      BY <3>1, IdlTypes DEF DependOf, IDownload
    <3> QED BY <1>3, <3>2 DEF ApiInv, ApiType
  <2>3. ApiType'
    BY <1>1, <1>3, <2>1, <2>2 DEF ApiInv, ApiType, ApiStates
  <2> QED BY <1>1, <1>3, <2>3, ApiStepInv DEF ApiInv, IdlsInv
<1> HIDE DEF list
<1> QED BY <1>1, <1>2, <1>3

LEMMA StartReturnsInv ==
  ASSUME ApiInv, StartReturns
  PROVE  ApiInv'
<1>1. /\ api = "returned" /\ idl' = SubSeq(idl, 1, results) /\ dls' = <<>> /\ result' = NoResult
      /\ api' = "idle" /\ at' = 1 /\ UNCHANGED <<rapidVars, results, downloads, asked, todo>>
  BY DEF StartReturns
<1>2. /\ idl' \in Seq(IDownload) /\ Len(idl') = results /\ DOMAIN idl' = 1..results
      /\ \A j \in 1..results : idl'[j] = idl[j] /\ j \in DOMAIN idl
  BY <1>1, IdlTypes DEF ApiInv, ApiType
<1>3. ApiType'
  <2>1. dls' \in Seq(DOMAIN idl') /\ results' \in 0..Len(idl')
    BY <1>1, <1>2, IdlTypes
  <2> QED BY <1>1, <1>2, <2>1 DEF ApiInv, ApiType, ApiStates
<1> QED BY <1>1, <1>2, <1>3, ApiStepInv DEF ApiInv, IdlsInv

LEMMA NextDependsInv ==
  ASSUME ApiInv, NextDepends
  PROVE  ApiInv'
<1>1. /\ api = "depends" /\ dls # <<>> /\ UNCHANGED <<rapidVars, idl, results, downloads, dls, asked, result>>
      /\ \/ at < Len(dls) /\ at' = at + 1 /\ todo' = DependOf(dls, at + 1) /\ api' = "depends"
         \/ api' = "rapid" /\ at' = 1 /\ todo' = todo
  BY DEF NextDepends, ApiInv, PlaceInv
<1>2. at' \in Nat \ {0} /\ todo' \in Seq(Texts)
  <2>1. at \in Nat \ {0} /\ todo \in Seq(Texts)
    BY DEF ApiInv, ApiType
  <2>2. at < Len(dls) => at + 1 \in DOMAIN dls
    BY <2>1, IdlTypes
  <2>3. \A i \in DOMAIN dls : DependOf(dls, i) \in Seq(Texts)
    BY IdlTypes DEF DependOf, IDownload
  <2> QED BY <1>1, <2>1, <2>2, <2>3
<1>3. ApiType'
  BY <1>1, <1>2 DEF ApiInv, ApiType, ApiStates
<1> QED BY <1>1, <1>3, ApiStepInv DEF ApiInv, IdlsInv

LEMMA RapidNextInv ==
  ASSUME ApiInv, RapidNext
  PROVE  ApiInv'
<1>1. /\ api = "rapid" /\ at' \in RapidLeft /\ BeginDownload(Dl(at').origin, Dl(at').name)
      /\ api' = "wait" /\ UNCHANGED <<idl, results, downloads, dls, asked, todo, result>>
      /\ at \in Nat \ {0}
  BY DEF RapidNext, ApiInv, ApiType
<1>2. PICK i : i = at' /\ i \in RapidLeft /\ Begin("download", Dl(i).origin, Dl(i).name)
  BY <1>1 DEF BeginDownload
<1>3. i \in DOMAIN dls /\ i \in Nat /\ Dl(i).kind = "rapid"
  BY <1>1, <1>2, IdlTypes DEF RapidLeft
<1>4. Dl(i).origin \in Texts /\ Dl(i).name \in Names /\ Dl(i).name \in Texts
  BY <1>3, IdlTypes DEF IdlInv, Texts
<1>5. RapidInv'
  BY <1>2, <1>4, BeginInv DEF ApiInv
<1>6. UNCHANGED <<sdps, built, passed>> /\ call'.op = "download" /\ call'.name = Dl(i).name
  BY <1>2 DEF Begin, diskVars, memVars
<1>7. ApiType'
  BY <1>1, <1>2, <1>3 DEF ApiInv, ApiType, ApiStates
<1>8. PlaceInv'
  BY <1>1, <1>2, <1>3, <1>6 DEF PlaceInv, Dl
<1>9. IdlsInv'
  BY <1>1, <1>6, SameRapid DEF ApiInv, IdlsInv
<1> QED BY <1>5, <1>7, <1>8, <1>9 DEF ApiInv

LEMMA RapidDoneInv ==
  ASSUME ApiInv, RapidDone
  PROVE  ApiInv'
<1>1. /\ api = "wait" /\ pc = "off" /\ End /\ at' = at + 1 /\ api' = "rapid"
      /\ UNCHANGED <<results, downloads, dls, asked, todo, result>>
      /\ at \in DOMAIN dls /\ call.op = "download" /\ call.name = Dl(at).name
      /\ Dl(at).kind = "rapid" /\ RapidInv
  BY DEF RapidDone, ApiInv, PlaceInv
<1>2. PICK j : j = dls[at]
  OBVIOUS
<1>3. j \in DOMAIN idl /\ idl[j] = Dl(at) /\ idl[j] \in IDownload /\ IdlInv(idl[j])
  BY <1>1, <1>2, IdlTypes DEF Dl
<1>4. PICK d : d = IF finished THEN [idl[j] EXCEPT !.state = "finished"] ELSE idl[j]
  OBVIOUS
<1>5. idl' = [idl EXCEPT ![j] = d]
  <2>1. idl' = [idl EXCEPT ![j].state = IF finished THEN "finished" ELSE idl[j].state]
    BY <1>2 DEF RapidDone
  <2>2. CASE finished
    BY <1>4, <2>1, <2>2
  <2>3. CASE ~finished
    <3>1. [idl[j] EXCEPT !.state = idl[j].state] = idl[j]
      BY <1>3 DEF IDownload
    <3> QED BY <1>4, <2>1, <2>3, <3>1
  <2> QED BY <2>2, <2>3
<1>6. d \in IDownload /\ IdlInv(d)
  <2>1. CASE finished
    <3>1. SomePassed(idl[j].name)
      BY <1>1, <1>3, <2>1 DEF RapidInv, DownloadedInv
    <3>2. d \in IDownload /\ d.name = idl[j].name /\ d.origin = idl[j].origin /\ d.tag = idl[j].tag
          /\ d.kind = idl[j].kind
      BY <1>3, <1>4, <2>1 DEF IDownload
    <3> QED BY <1>3, <3>1, <3>2 DEF IdlInv
  <2>2. CASE ~finished
    BY <1>3, <1>4, <2>2
  <2> QED BY <2>1, <2>2
<1>7. RapidInv' /\ UNCHANGED <<sdps, built, passed>> /\ pc' = "off" /\ call' = NoCall
  BY <1>1, EndInv DEF End, diskVars
<1>8. /\ idl' \in Seq(IDownload) /\ Len(idl') = Len(idl) /\ DOMAIN idl' = DOMAIN idl
      /\ \A i \in DOMAIN idl : IdlInv(idl'[i])
  <2>1. idl \in Seq(IDownload)
    BY DEF ApiInv, ApiType
  <2>2. \A i \in DOMAIN idl : IdlInv(idl'[i])
    BY <1>3, <1>5, <1>6 DEF ApiInv, IdlsInv
  <2> QED BY <1>3, <1>5, <1>6, <2>1, <2>2
<1>9. ApiType'
  <2>1. at' \in Nat \ {0}
    BY <1>1 DEF ApiInv, ApiType
  <2> QED BY <1>1, <1>8, <2>1 DEF ApiInv, ApiType, ApiStates
<1>10. PlaceInv'
  BY <1>1, <1>7 DEF PlaceInv
<1>11. IdlsInv'
  BY <1>7, <1>8, SameRapid DEF IdlsInv
<1> QED BY <1>7, <1>9, <1>10, <1>11 DEF ApiInv

LEMMA RapidAllInv ==
  ASSUME ApiInv, RapidAll
  PROVE  ApiInv'
<1>1. /\ api = "rapid" /\ api' = "http" /\ at' = 1
      /\ UNCHANGED <<rapidVars, idl, results, downloads, dls, asked, todo, result>>
  BY DEF RapidAll
<1>2. ApiType'
  BY <1>1 DEF ApiInv, ApiType, ApiStates
<1> QED BY <1>1, <1>2, ApiStepInv DEF ApiInv, IdlsInv

\* The http downloader leaves the rapid downloads as they are.
LEMMA HttpOutcomeFacts ==
  ASSUME ApiInv, NEW kinds \in SUBSET {"http", "engine"}, HttpOutcome(kinds)
  PROVE  /\ idl' \in Seq(IDownload) /\ Len(idl') = Len(idl) /\ DOMAIN idl' = DOMAIN idl
         /\ \A j \in DOMAIN idl' : IdlInv(idl'[j])
<1>1. PICK state \in [Unfinished(kinds) -> {"none", "opened", "finished"}] :
        idl' = [j \in DOMAIN idl |->
                  IF j \in Unfinished(kinds) THEN [idl[j] EXCEPT !.state = state[j]] ELSE idl[j]]
  BY DEF HttpOutcome
<1>2. \A j \in DOMAIN idl : idl'[j] \in IDownload /\ IdlInv(idl'[j])
  <2> SUFFICES ASSUME NEW j \in DOMAIN idl
               PROVE  idl'[j] \in IDownload /\ IdlInv(idl'[j])
    OBVIOUS
  <2>1. idl[j] \in IDownload /\ IdlInv(idl[j])
    BY IdlTypes DEF ApiInv, IdlsInv
  <2>2. CASE j \in Unfinished(kinds)
    <3>1. idl'[j] = [idl[j] EXCEPT !.state = state[j]] /\ state[j] \in {"none", "opened", "finished"}
      BY <1>1, <2>2
    <3>2. idl[j].kind # "rapid"
      BY <2>2 DEF Unfinished
    <3>3. idl'[j] \in IDownload /\ idl'[j].kind = idl[j].kind
      BY <2>1, <3>1 DEF IDownload
    <3> QED BY <3>2, <3>3 DEF IdlInv
  <2>3. CASE j \notin Unfinished(kinds)
    BY <1>1, <2>1, <2>3
  <2> QED BY <2>2, <2>3
<1>3. DOMAIN idl' = 1..Len(idl) /\ Len(idl) \in Nat
  BY <1>1, IdlTypes
<1>4. idl' \in [1..Len(idl) -> IDownload]
  BY <1>1, <1>2, <1>3
<1> QED BY <1>2, <1>3, <1>4

LEMMA HttpInv ==
  ASSUME ApiInv, HttpDownload \/ DownloadEngine \/ HttpDies
  PROVE  ApiInv'
<1>1. CASE HttpDownload
  <2>1. /\ HttpOutcome({"http", "engine"}) /\ api = "http" /\ api' = "engines"
        /\ UNCHANGED <<rapidVars, results, downloads, dls, asked, at, todo, result>>
    BY <1>1 DEF HttpDownload
  <2>2. ApiType'
    BY <2>1, HttpOutcomeFacts DEF ApiInv, ApiType, ApiStates
  <2> QED BY <2>1, <2>2, ApiStepInv, HttpOutcomeFacts
<1>2. CASE DownloadEngine
  <2>1. /\ HttpOutcome({"engine"}) /\ api = "engines" /\ api' = "returned"
        /\ result' = IF \A i \in DOMAIN dls : idl'[dls[i]].state = "finished" THEN 0 ELSE 2
        /\ UNCHANGED <<rapidVars, results, downloads, dls, asked, at, todo>>
    BY <1>2 DEF DownloadEngine
  <2>2. ApiType'
    BY <2>1, HttpOutcomeFacts DEF ApiInv, ApiType, ApiStates
  <2>3. result' = 0 => \A i \in DOMAIN dls' : Dl(i)'.state = "finished"
    BY <2>1 DEF Dl
  <2> QED BY <2>1, <2>2, <2>3, ApiStepInv, HttpOutcomeFacts
<1>3. CASE HttpDies
  <2>1. /\ api \in {"http", "engines"} /\ api' = "dead"
        /\ UNCHANGED <<rapidVars, idl, results, downloads, dls, asked, at, todo, result>>
    BY <1>3 DEF HttpDies
  <2>2. ApiType'
    BY <2>1 DEF ApiInv, ApiType, ApiStates
  <2> QED BY <2>1, <2>2, ApiStepInv DEF ApiInv, IdlsInv
<1> QED BY <1>1, <1>2, <1>3

LEMMA IdleInv ==
  ASSUME ApiInv, api = "idle", Option \/ Age, UNCHANGED apiVars
  PROVE  ApiInv'
<1>1. UNCHANGED <<idl, results, downloads, dls, api, asked, at, todo, result>>
  BY DEF apiVars
<1>2. call = NoCall /\ RapidInv
  BY DEF ApiInv, PlaceInv
<1>3. RapidInv' /\ UNCHANGED <<sdps, built, passed, pc, call>>
  BY <1>2, BetweenInv DEF Option
<1>4. ApiType' /\ PlaceInv' /\ IdlsInv'
  BY <1>1, <1>3, SameRapid DEF ApiInv, ApiType, PlaceInv, Dl, IdlsInv
<1> QED BY <1>3, <1>4 DEF ApiInv

----------------------------------------------------------------------------
(* The theorems *)

LEMMA ApiInvariant == Spec => []ApiInv
<1>1. Init => ApiInv
  BY InitInv
<1>2. ApiInv /\ [Next]_vars => ApiInv'
  <2> SUFFICES ASSUME ApiInv, [Next]_vars
               PROVE  ApiInv'
    OBVIOUS
  <2>1. CASE ApiStep
    BY <2>1, RapidFoundInv, HttpFoundInv, AskDependInv, NextDependsInv, RapidNextInv, RapidDoneInv,
       RapidAllInv, HttpInv, StartReturnsInv DEF ApiStep
  <2>2. CASE RapidStep /\ UNCHANGED apiVars
    BY <2>2, RapidStepKeeps
  <2>3. CASE (\E q \in Queries : DownloadSearch(q)) \/ (\E id \in 0..results : DownloadAdd(id)) \/ DownloadStart
    BY <2>3, DownloadSearchInv, DownloadAddInv, DownloadStartInv
  <2>4. CASE api = "idle" /\ (Option \/ Age) /\ UNCHANGED apiVars
    BY <2>4, IdleInv
  <2>5. CASE UNCHANGED vars
    <3>1. /\ UNCHANGED <<reposgz, passed, repos, sdps, scrambled, forceUpdate, gitEnabled,
                         rapidGitResolvedTags, built, pc, call, next, stack, found, finished, ret>>
          /\ UNCHANGED <<idl, results, downloads, dls, api, asked, at, todo, result>>
      BY <2>5 DEF vars, rapidVars, diskVars, memVars, callVars, apiVars
    <3>2. RapidInv'
      BY <3>1, SameInv DEF ApiInv
    <3>3. ApiType' /\ PlaceInv' /\ IdlsInv'
      BY <3>1, SameRapid DEF ApiInv, ApiType, PlaceInv, Dl, IdlsInv
    <3> QED BY <3>2, <3>3 DEF ApiInv
  <2> QED BY <2>1, <2>2, <2>3, <2>4, <2>5 DEF Next, Step
<1> QED BY <1>1, <1>2, PTL DEF Spec

\* Every variable of the interface and of the rapid downloader keeps its type.
THEOREM TypeCorrect == Spec => []TypeOK
<1>1. ApiInv => TypeOK
  BY DEF ApiInv, RapidInv, ApiType, ApiStates, TypeOK
<1> QED BY <1>1, ApiInvariant, PTL

\* When CRapidDownloader::download returned true, CSdp::download has done so for every
\* package of the name and of the names these depend on, whatever depends on what, in a
\* circle too (RapidDownloader.cpp:91-127).
THEOREM DownloadPassesAll == Spec => []TrueMeansPassed
<1>1. ApiInv => TrueMeansPassed
  BY DEF ApiInv, RapidInv
<1> QED BY <1>1, ApiInvariant, PTL

\* A search answered by git finds a package of the tag, for every spelling of the tags;
\* it is the package that git built last unless, since the tag was resolved, the list
\* was sorted while list_compare was no order of what was in it and packages of the
\* repositories were known under the tag, too (RapidDownloader.cpp:83, 145-197, 206-245).
THEOREM GitAnswersSearch == Spec => []GitAnswers
<1>1. ApiInv => GitAnswers
  BY DEF ApiInv, RapidInv
<1> QED BY <1>1, ApiInvariant, PTL

\* After the result 0 CSdp::download has returned true for a package of the name of
\* every rapid download (pr-downloader.cpp:297-306).
THEOREM ZeroIsPassed == Spec => []ZeroMeansPassed
<1>1. ASSUME ApiInv, api = "returned", result = 0, NEW i \in DOMAIN dls
      PROVE  Dl(i).kind = "rapid" => \E p \in passed : Name[p] = Dl(i).name
  <2>1. IdlInv(Dl(i)) /\ Dl(i).state = "finished"
    BY <1>1, IdlTypes DEF ApiInv, PlaceInv
  <2> QED BY <2>1 DEF IdlInv, SomePassed
<1>2. ApiInv => ZeroMeansPassed
  BY <1>1 DEF ZeroMeansPassed
<1> QED BY <1>2, ApiInvariant, PTL

\* What a search found stays known until git takes over its tag
\* (pr-downloader.cpp:147-163, RapidDownloader.cpp:75, 184-190).
THEOREM ResultsKept == Spec => []ResultsStayKnown
<1>1. ASSUME ApiInv, NEW j \in 1..results, idl[j].kind = "rapid"
      PROVE  (\E p \in Known : Name[p] = idl[j].name) \/ built[idl[j].tag] # {}
  <2>1. IdlInv(idl[j])
    BY <1>1, IdlTypes DEF ApiInv, IdlsInv
  <2> QED BY <1>1, <2>1 DEF IdlInv, ListedOrBuilt, Known
<1>2. ApiInv => ResultsStayKnown
  BY <1>1 DEF ResultsStayKnown
<1> QED BY <1>2, ApiInvariant, PTL

================================================================================
