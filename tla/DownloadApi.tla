------------------------------ MODULE DownloadApi ------------------------------
(***************************************************************************)
(* The library's interface (src/src/pr-downloader.cpp) over the rapid      *)
(* downloader, of which it makes every call, and over CHttpDownloader as   *)
(* far as HttpDownload shows what a caller meets: each download of a list  *)
(* that is no rapid one ends finished, ends with a CFile that is closed,   *)
(* or was not begun.                                                       *)
(*                                                                         *)
(* DownloadSearch fills searchres, DownloadAdd chooses from it, and        *)
(* DownloadStart adds what the chosen ones depend on and hands the list to *)
(* the rapid downloader, to the http downloader, and its engines to that   *)
(* once more.  One application thread calls, as main.cpp does.             *)
(***************************************************************************)
EXTENDS RapidDownloader

CONSTANTS
  Queries,      \* what is searched for: text and category
  HttpHits,     \* HttpHits[text]: what the http catalogues have for a text
  HttpNames,    \* names of files the catalogues have
  MaxAdds       \* bound on the length of `downloads`

(* A hit: name, kind (http or engine), and the names it depends on. *)
HttpHit == [name : HttpNames, kind : {"http", "engine"}, depend : Seq(Texts)]

ASSUME ApiAssumption ==
  /\ HttpNames \cap Texts = {}
  /\ Queries \subseteq [text : Texts \cup HttpNames, game : BOOLEAN]
  /\ \A q \in Queries : q.game => q.text \in Texts
  /\ HttpHits \in [Texts \cup HttpNames -> Seq(HttpHit)]
  /\ MaxAdds \in Nat

VARIABLES
  idl,          \* the IDownloads: those of searchres, then those addDepends made
  results,      \* the size of searchres
  downloads,    \* the ids that were added
  dls,          \* DownloadStart's list, as positions in idl
  api,          \* where the application's call is
  asked,        \* the text of the search
  at,           \* the position in dls
  todo,         \* what the IDownload at `at` still depends on
  result        \* of the last DownloadStart

apiVars == <<idl, results, downloads, dls, api, asked, at, todo, result>>
vars == <<rapidVars, apiVars>>

IDownload ==
  [name : Names \cup HttpNames, origin : Texts \cup HttpNames, tag : Tags \cup {NoText},
   kind : {"rapid", "http", "engine"}, depend : Seq(Texts),
   state : {"none", "opened", "finished"}]

NoResult == -1

TypeOK ==
  /\ RapidTypeOK
  /\ idl \in Seq(IDownload) /\ results \in 0..Len(idl)
  /\ downloads \in Seq(0..results)
  /\ dls \in Seq(DOMAIN idl)
  /\ api \in {"idle", "rapidSearch", "httpSearch", "depends", "rapid", "wait", "http",
              "engines", "returned", "dead"}
  /\ asked \in Texts \cup HttpNames /\ at \in Nat /\ todo \in Seq(Texts)
  /\ result \in {NoResult, 0, 1, 2, 5}

Dl(i) == idl[dls[i]]
Unfinished(kinds) ==
  {j \in {dls[i] : i \in DOMAIN dls} : idl[j].kind \in kinds /\ idl[j].state # "finished"}

----------------------------------------------------------------------------
(* search: for a game the rapid downloader, then the http catalogues *)

\* CAT_COUNT, which addDepends asks with, counts as a game's category.
Search(text, game) ==
  /\ asked' = text
  /\ IF game
     THEN BeginSearch(text) /\ api' = "rapidSearch"
     ELSE api' = "httpSearch" /\ UNCHANGED rapidVars

NewRapid(line) ==
  [name |-> Name[line.pkg], origin |-> asked, tag |-> line.tag, kind |-> "rapid",
   depend |-> <<>>, state |-> "none"]
NewHttp(hit) ==
  [name |-> hit.name, origin |-> NoText, tag |-> NoText, kind |-> hit.kind,
   depend |-> hit.depend, state |-> "none"]

\* dlListContains, while the new ones are appended one by one
Added(new) ==
  {k \in DOMAIN new :
     /\ \A i \in DOMAIN dls : Dl(i).name # new[k].name
     /\ \A j \in 1..(k - 1) : new[j].name # new[k].name}

\* What was found is the application's result or joins DownloadStart's list.
Found(new) ==
  IF dls = <<>>
  THEN /\ idl' = new /\ results' = Len(new) /\ api' = "idle" /\ asked' = NoText
       /\ UNCHANGED dls
  ELSE \E f \in InOrder(Added(new)) :
         /\ idl' = idl \o [i \in DOMAIN f |-> new[f[i]]]
         /\ dls' = dls \o [i \in DOMAIN f |-> Len(idl) + i]
         /\ api' = "depends" /\ asked' = NoText
         /\ UNCHANGED results

RapidFound ==
  /\ api = "rapidSearch" /\ pc = "off"
  /\ IF found = <<>>
     THEN api' = "httpSearch" /\ UNCHANGED <<idl, results, dls, asked>>
     ELSE Found([k \in DOMAIN found |-> NewRapid(found[k])])
  /\ End
  /\ UNCHANGED <<downloads, at, todo, result>>

\* The catalogue answers or cannot be reached.
HttpFound ==
  /\ api = "httpSearch"
  /\ \E hits \in {<<>>, HttpHits[asked]} :
       Found([k \in DOMAIN hits |-> NewHttp(hits[k])])
  /\ UNCHANGED <<rapidVars, downloads, at, todo, result>>

----------------------------------------------------------------------------
(* The calls *)

DownloadSearch(q) ==
  /\ api = "idle"
  /\ idl' = <<>> /\ results' = 0 /\ downloads' = <<>> /\ dls' = <<>>
  /\ Search(q.text, q.game)
  /\ UNCHANGED <<at, todo, result>>

\* An id equal to the number of results is taken too.
DownloadAdd(id) ==
  /\ api = "idle" /\ Len(downloads) < MaxAdds
  /\ id <= results
  /\ downloads' = Append(downloads, id)
  /\ UNCHANGED <<rapidVars, idl, results, dls, api, asked, at, todo, result>>

DependOf(list, i) == idl[list[i]].depend

\* Whether to fetch dependencies is an option (CONFIG_FETCH_DEPENDS) that may have
\* been set either way before any call.  An id that is none is found out too late.
\* Without enough disk space the result is 5, with nothing to do 1.
DownloadStart ==
  /\ api = "idle"
  /\ LET list == [i \in DOMAIN downloads |-> downloads[i] + 1] IN
     IF \E i \in DOMAIN list : list[i] > results
     THEN api' = "dead" /\ UNCHANGED <<idl, dls, at, todo, result>>
     ELSE /\ dls' = list
          /\ \/ result' = 5 /\ api' = "returned" /\ UNCHANGED todo
             \/ list = <<>> /\ result' = 1 /\ api' = "returned" /\ UNCHANGED todo
             \/ /\ list # <<>> /\ UNCHANGED result
                /\ \E fetchDepends \in BOOLEAN :
                     IF fetchDepends
                     THEN api' = "depends" /\ todo' = DependOf(list, 1)
                     ELSE api' = "rapid" /\ UNCHANGED todo
          /\ UNCHANGED <<idl, at>>
  /\ UNCHANGED <<rapidVars, results, downloads, asked>>

\* DownloadStart is back: its list is gone, and what addDepends made stays in
\* memory but is not used again.
StartReturns ==
  /\ api = "returned"
  /\ idl' = SubSeq(idl, 1, results) /\ dls' = <<>> /\ result' = NoResult
  /\ api' = "idle" /\ at' = 1
  /\ UNCHANGED <<rapidVars, results, downloads, asked, todo>>

\* addDepends walks the list while it grows.
AskDepend ==
  /\ api = "depends" /\ todo # <<>>
  /\ todo' = Tail(todo)
  /\ Search(Head(todo), TRUE)
  /\ UNCHANGED <<idl, results, downloads, dls, at, result>>

NextDepends ==
  /\ api = "depends" /\ todo = <<>>
  /\ IF at < Len(dls)
     THEN at' = at + 1 /\ todo' = DependOf(dls, at + 1) /\ UNCHANGED api
     ELSE api' = "rapid" /\ at' = 1 /\ UNCHANGED todo
  /\ UNCHANGED <<rapidVars, idl, results, downloads, dls, asked, result>>

\* IDownloader::download passes over what is finished, CRapidDownloader's over
\* what is not a rapid download.
RapidLeft == {i \in at..Len(dls) : Dl(i).kind = "rapid" /\ Dl(i).state # "finished"}

RapidNext ==
  /\ api = "rapid" /\ RapidLeft # {}
  /\ at' \in RapidLeft /\ \A j \in RapidLeft : at' <= j
  /\ BeginDownload(Dl(at').origin, Dl(at').name)
  /\ api' = "wait"
  /\ UNCHANGED <<idl, results, downloads, dls, asked, todo, result>>

\* The return value is not looked at, only what became of the state.
RapidDone ==
  /\ api = "wait" /\ pc = "off"
  /\ idl' = [idl EXCEPT ![dls[at]].state = IF finished THEN "finished" ELSE @]
  /\ at' = at + 1 /\ api' = "rapid"
  /\ End
  /\ UNCHANGED <<results, downloads, dls, asked, todo, result>>

RapidAll ==
  /\ api = "rapid" /\ RapidLeft = {}
  /\ api' = "http" /\ at' = 1
  /\ UNCHANGED <<rapidVars, idl, results, downloads, dls, asked, todo, result>>

\* A download of these kinds that is not finished becomes so, or keeps a CFile,
\* or was not begun.  What has a closed CFile finishes only if its file is there.
HttpOutcome(kinds) ==
  \E state \in [Unfinished(kinds) -> {"none", "opened", "finished"}] :
    /\ \A j \in Unfinished(kinds) : idl[j].state = "opened" => state[j] # "none"
    /\ idl' = [j \in DOMAIN idl |->
                 IF j \in Unfinished(kinds) THEN [idl[j] EXCEPT !.state = state[j]] ELSE idl[j]]
CanDie(kinds) == \E j \in Unfinished(kinds) : idl[j].state = "opened"

HttpDownload ==
  /\ api = "http"
  /\ HttpOutcome({"http", "engine"})
  /\ api' = "engines"
  /\ UNCHANGED <<rapidVars, results, downloads, dls, asked, at, todo, result>>

\* download_engine, whose result, and with it that of extractEngine, is dropped.
DownloadEngine ==
  /\ api = "engines"
  /\ HttpOutcome({"engine"})
  /\ result' = IF \A i \in DOMAIN dls : idl'[dls[i]].state = "finished" THEN 0 ELSE 2
  /\ api' = "returned"
  /\ UNCHANGED <<rapidVars, results, downloads, dls, asked, at, todo>>

HttpDies ==
  /\ \/ api = "http" /\ CanDie({"http", "engine"})
     \/ api = "engines" /\ CanDie({"engine"})
  /\ api' = "dead"
  /\ UNCHANGED <<rapidVars, idl, results, downloads, dls, asked, at, todo, result>>

----------------------------------------------------------------------------
\* DownloadSetConfig, as far as it reaches the rapid downloader.  The number of
\* parallel connections is HttpDownload's concern; the write path, where the files
\* are, is not changed between calls.
Option == SetForceUpdate \/ \E enabled \in BOOLEAN : SetGit(enabled)

Init ==
  /\ RapidInit
  /\ idl = <<>> /\ results = 0 /\ downloads = <<>> /\ dls = <<>>
  /\ api = "idle" /\ asked = NoText /\ at = 1 /\ todo = <<>> /\ result = NoResult

ApiStep ==
  \/ RapidFound \/ HttpFound \/ AskDepend \/ NextDepends
  \/ RapidNext \/ RapidDone \/ RapidAll \/ HttpDownload \/ DownloadEngine \/ HttpDies
  \/ StartReturns

Step == ApiStep \/ (RapidStep /\ UNCHANGED apiVars)

Next ==
  \/ Step
  \/ \E q \in Queries : DownloadSearch(q)
  \/ \E id \in 0..results : DownloadAdd(id)
  \/ DownloadStart
  \/ api = "idle" /\ (Option \/ Age) /\ UNCHANGED apiVars

Spec == Init /\ [][Next]_vars

\* A call that was made goes on: nothing in it waits for ever, as the models of
\* the two downloaders show.
FairSpec == Spec /\ WF_vars(Step)

----------------------------------------------------------------------------
(* Properties *)

\* DownloadStart looks at states only, not at what the downloaders return
\* (pr-downloader.cpp:297-306).  After a 0 CSdp::download has returned true, in this
\* call or an earlier one, for a package of the name of each rapid download; for one
\* only, and not for what it depends on.
ZeroMeansPassed ==
  api = "returned" /\ result = 0 => \A i \in DOMAIN dls :
    Dl(i).kind = "rapid" => \E p \in passed : Name[p] = Dl(i).name

\* What a search found can be downloaded by its name later, whatever calls come
\* in between, unless git has taken over its tag.
ResultsStayKnown ==
  \A j \in 1..results : idl[j].kind = "rapid" =>
    \/ \E p \in Known : Name[p] = idl[j].name
    \/ built[idl[j].tag] # {}

\* Every call returns (or the process dies in it): dependencies in a circle end,
\* and so does the change between git and repos.gz.
CallReturns == api # "idle" ~> api \in {"idle", "dead"}

\* "Download complete!" (main.cpp:239), said of the result 0: of every package that was
\* downloaded, and of all it depends on, CSdp::download has returned true.
ZeroMeansComplete ==
  api = "returned" /\ result = 0 => \A i \in DOMAIN dls :
    Dl(i).kind = "rapid" => AllPassed(Dl(i).name)

================================================================================
