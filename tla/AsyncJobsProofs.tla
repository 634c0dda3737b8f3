---------------------------- MODULE AsyncJobsProofs ----------------------------
(***************************************************************************)
(* Theorems about AsyncJobs, for any number of jobs and any priorities:    *)
(* the invariants and action properties of the run AsyncJobs, and that it  *)
(* implements JobPool.                                                     *)
(*                                                                         *)
(* Inv is inductive.  Beside the invariants of the run it says which       *)
(* control states of the two threads go together (ControlInv), where a     *)
(* submitted job can be (PlaceInv) and that the queue is always a heap,    *)
(* without which <algorithm> promises nothing about the next pop.          *)
(***************************************************************************)
EXTENDS AsyncJobs, FiniteSetTheorems, WellFoundedInduction, TLAPS

\* What Process has in hand, and when the pool ends.
ControlInv ==
  /\ item = NoJob <=> worker \in {"check", "asleep", "drain", "exit"}
  /\ item # NoJob => item \in submitted
  /\ item # NoJob => (item \in started <=> worker \notin {"taken", "discard"})
  /\ m_dying <=> app \in {"notify", "join", "gone"}
  /\ worker \in {"drain", "discard", "exit"} => m_dying
  /\ worker = "exit" => m_queue = <<>>
  /\ app = "gone" => worker = "exit"
  /\ app = "remove" => target \in Kept \cap submitted /\ answer[target] = "none"

\* Where a submitted job is: no job is lost, and before the pool ends each
\* one that is not queued was taken to be started or cancelled.
PlaceInv ==
  /\ started \subseteq submitted /\ started \cap Queued = {}
  /\ submitted \subseteq Queued \cup {item} \cup deleted \cup Kept
  /\ ~m_dying => \A i \in submitted \ Queued : i \in started \cup {item} \/ answer[i] = "true"
  /\ \A i \in Jobs : answer[i] # "none" => i \in submitted

HeapInv == IsHeap(m_queue)

Inv == TypeOK /\ Ownership /\ ControlInv /\ PlaceInv /\ HeapInv /\ CancelIsHonest

ElementsOf(q) == {q[k] : k \in DOMAIN q}
Distinct(q) == \A j, k \in DOMAIN q : q[j] = q[k] => j = k

--------------------------------------------------------------------------------
(* The heap *)

LEMMA Least ==
  ASSUME NEW S \in SUBSET Nat, S # {}
  PROVE  \E m \in S : \A k \in S : m <= k
<1> DEFINE R == {pair \in Nat \X Nat : pair[1] < pair[2]}
<1>1. IsWellFoundedOn(R, Nat)
  BY NatLessThanWellFounded DEF OpToRel
<1>2. PICK m \in S : \A k \in S : ~(<<k, m>> \in R)
  BY <1>1, WFMin
<1>3. \A k \in S : ~(k < m)
  BY <1>2
<1> QED BY <1>3

\* The first of a heap is its largest: the least place with a larger one would
\* have it at its parent's place, too.
LEMMA HeapTop ==
  ASSUME NEW q \in Seq(Jobs), IsHeap(q)
  PROVE  \A k \in 1..Len(q) : Priority[q[k]] <= Priority[q[1]]
<1>1. Len(q) \in Nat /\ \A k \in 1..Len(q) : Priority[q[k]] \in Int
  BY JobsAssumption
<1> DEFINE S == {k \in 1..Len(q) : ~(Priority[q[k]] <= Priority[q[1]])}
<1>2. SUFFICES ASSUME S # {} PROVE FALSE
  OBVIOUS
<1>3. PICK m \in S : \A k \in S : m <= k
  <2>1. S \in SUBSET Nat
    BY <1>1
  <2> HIDE DEF S
  <2> QED BY <1>2, <2>1, Least
<1>4. m \in 2..Len(q)
  BY <1>1, <1>3
<1>5. m \div 2 \in 1..Len(q) /\ m \div 2 < m
  BY <1>1, <1>4
<1>6. Priority[q[m \div 2]] <= Priority[q[1]]
  BY <1>1, <1>3, <1>5
<1>7. Priority[q[m]] <= Priority[q[m \div 2]]
  BY <1>4 DEF IsHeap
<1> QED BY <1>1, <1>3, <1>4, <1>5, <1>6, <1>7

\* A heap of the jobs in S holds these and each once.
LEMMA HeapsHold ==
  ASSUME NEW S \in SUBSET Jobs, NEW q \in HeapsOf(S)
  PROVE  q \in Seq(Jobs) /\ ElementsOf(q) = S /\ Distinct(q) /\ IsHeap(q)
<1>1. Cardinality(S) \in Nat
  BY JobsAssumption, FS_Subset, FS_CardinalityType
<1>2. /\ q \in [1..Cardinality(S) -> S] /\ IsHeap(q)
      /\ \A i \in S : \E k \in DOMAIN q : q[k] = i
      /\ \A j, k \in DOMAIN q : q[j] = q[k] => j = k
  BY DEF HeapsOf, OrdersOf
<1>3. q \in Seq(Jobs)
  BY <1>1, <1>2
<1>4. ElementsOf(q) = S
  BY <1>2 DEF ElementsOf
<1> QED BY <1>2, <1>3, <1>4 DEF Distinct

\* Push adds one job and leaves a heap.
LEMMA PushFacts ==
  ASSUME Inv, NEW i \in Jobs, Push(i)
  PROVE  /\ m_queue' \in Seq(Jobs) /\ Queued' = Queued \cup {i}
         /\ Distinct(m_queue') /\ HeapInv'
<1>1. Queued \in SUBSET Jobs
  BY DEF Inv, TypeOK, Queued
<1>2. m_queue' \in HeapsOf(Queued \cup {i})
  BY DEF Inv, HeapInv, Push, Reordered
<1> QED BY <1>1, <1>2, HeapsHold DEF ElementsOf, Queued, HeapInv

\* Pop takes out the first item, which is the most urgent one.
LEMMA PopFacts ==
  ASSUME Inv, PopFront
  PROVE  /\ m_queue' \in Seq(Jobs) /\ Queued' = Queued \ {item'}
         /\ Distinct(m_queue') /\ HeapInv'
         /\ item' \in Queued /\ item' \in Jobs /\ linked' = linked \ {item'}
         /\ \A j \in Queued : Priority[j] <= Priority[item']
<1>1. m_queue \in Seq(Jobs) /\ m_queue # <<>> /\ item' = m_queue[1] /\ IsHeap(m_queue)
  BY DEF Inv, TypeOK, HeapInv, PopFront
<1>2. 1 \in DOMAIN m_queue /\ DOMAIN m_queue = 1..Len(m_queue)
  BY <1>1
<1>3. item' \in Queued /\ item' \in Jobs
  BY <1>1, <1>2 DEF Queued
<1>4. \A j \in Queued : Priority[j] <= Priority[item']
  BY <1>1, <1>2, HeapTop DEF Queued
<1>5. Queued \ {item'} \in SUBSET Jobs
  BY <1>1 DEF Queued
<1>6. m_queue' \in HeapsOf(Queued \ {item'})
  BY <1>1 DEF PopFront, Reordered
<1>7. m_queue' \in Seq(Jobs) /\ Queued' = Queued \ {item'} /\ Distinct(m_queue') /\ HeapInv'
  BY <1>5, <1>6, HeapsHold DEF ElementsOf, Queued, HeapInv
<1> QED BY <1>1, <1>3, <1>4, <1>7 DEF PopFront

\* Remove takes out the job if it is there.
LEMMA RemoveFacts ==
  ASSUME Inv, Remove(target \in Queued)
  PROVE  /\ m_queue' \in Seq(Jobs) /\ Queued' = Queued \ {target}
         /\ Distinct(m_queue') /\ HeapInv'
<1>1. CASE target \in Queued
  <2>1. Queued \ {target} \in SUBSET Jobs
    BY DEF Inv, TypeOK, Queued
  <2>2. m_queue' \in HeapsOf(Queued \ {target})
    BY <1>1 DEF Remove
  <2> QED BY <2>1, <2>2, HeapsHold DEF ElementsOf, Queued, HeapInv
<1>2. CASE target \notin Queued
  <2>1. m_queue' = m_queue
    BY <1>2 DEF Remove
  <2> QED BY <1>2, <2>1 DEF Inv, TypeOK, Ownership, HeapInv, Distinct, Queued
<1> QED BY <1>1, <1>2

\* A step that leaves the vector alone leaves its elements and order alone.
LEMMA SameQueue ==
  ASSUME Inv, m_queue' = m_queue
  PROVE  Queued' = Queued /\ HeapInv' /\ Distinct(m_queue')
BY DEF Inv, Queued, HeapInv, Ownership, Distinct

--------------------------------------------------------------------------------
(* Inv is inductive *)

LEMMA InitInv == ASSUME Init PROVE Inv
<1> USE JobsAssumption DEF Init
<1>1. Queued = {} /\ HeapInv
  BY DEF Queued, HeapInv, IsHeap
<1>2. TypeOK
  <2>1. m_queue \in Seq(Jobs)
    OBVIOUS
  <2>2. answer \in [Jobs -> {"none", "true", "false"}]
    OBVIOUS
  <2> QED BY <2>1, <2>2 DEF TypeOK, WorkerSteps, AppSteps
<1>3. Ownership /\ ControlInv /\ PlaceInv /\ CancelIsHonest
  BY <1>1 DEF Ownership, ControlInv, PlaceInv, CancelIsHonest
<1> QED BY <1>1, <1>2, <1>3 DEF Inv

\* Push, whoever calls it.
LEMMA PushKeepsInv ==
  ASSUME Inv, NEW i \in Jobs, Push(i), app = "idle" \/ worker = "post"
  PROVE  Inv'
<1> USE PushFacts, JobsAssumption
<1>1. TypeOK'
  BY DEF Inv, Push, TypeOK, Wake, WorkerSteps
<1>2. Ownership'
  BY DEF Inv, Push, TypeOK, Ownership, ControlInv, Distinct
<1>3. ControlInv'
  BY DEF Inv, Push, TypeOK, ControlInv, Wake, Ownership
<1>4. PlaceInv'
  BY DEF Inv, Push, TypeOK, PlaceInv, Ownership
<1>5. CancelIsHonest'
  BY DEF Inv, Push, TypeOK, PlaceInv, CancelIsHonest, Wake
<1> QED BY <1>1, <1>2, <1>3, <1>4, <1>5 DEF Inv

LEMMA AppKeepsInv == ASSUME Inv, App PROVE Inv'
<1> USE JobsAssumption
<1>1. CASE \E i \in Jobs : DoWork(i)
  BY <1>1, PushKeepsInv DEF DoWork
<1>2. ASSUME NEW i \in Jobs, CancelItem(i) PROVE Inv'
  <2>1. Queued' = Queued /\ HeapInv' /\ Distinct(m_queue')
    BY <1>2, SameQueue DEF CancelItem
  <2>2. TypeOK'
    BY <1>2 DEF Inv, CancelItem, TypeOK, AppSteps
  <2>3. Ownership'
    BY <1>2, <2>1 DEF Inv, CancelItem, Ownership, Distinct
  <2>4. ControlInv'
    BY <1>2 DEF Inv, CancelItem, ControlInv, TypeOK
  <2>5. PlaceInv'
    BY <1>2, <2>1 DEF Inv, CancelItem, PlaceInv, TypeOK
  <2>6. CancelIsHonest'
    BY <1>2, <2>1 DEF Inv, CancelItem, CancelIsHonest, TypeOK, PlaceInv, ControlInv, Ownership
  <2> QED BY <2>1, <2>2, <2>3, <2>4, <2>5, <2>6 DEF Inv
<1>3. CASE RemoveItem
  <2>1. /\ m_queue' \in Seq(Jobs) /\ Queued' = Queued \ {target}
        /\ Distinct(m_queue') /\ HeapInv'
    BY <1>3, RemoveFacts DEF RemoveItem
  <2>2. TypeOK'
    BY <1>3, <2>1 DEF Inv, RemoveItem, Remove, TypeOK, AppSteps
  <2>3. Ownership'
    BY <1>3, <2>1 DEF Inv, RemoveItem, Remove, Ownership, Distinct
  <2>4. m_queue = <<>> => m_queue' = <<>>
    <3>1. m_queue = <<>> => Queued = {}
      BY DEF Queued
    <3> QED BY <1>3, <3>1 DEF RemoveItem, Remove
  <2>5. ControlInv'
    BY <1>3, <2>4 DEF Inv, RemoveItem, Remove, ControlInv, TypeOK
  <2>6. PlaceInv'
    BY <1>3, <2>1 DEF Inv, RemoveItem, Remove, PlaceInv, TypeOK, ControlInv
  <2>7. CancelIsHonest'
    BY <1>3, <2>1 DEF Inv, RemoveItem, Remove, CancelIsHonest, TypeOK, PlaceInv,
      ControlInv, Ownership
  <2> QED BY <2>1, <2>2, <2>3, <2>5, <2>6, <2>7 DEF Inv
<1>4. CASE SetDying \/ NotifyAll \/ Join
  <2>1. Queued' = Queued /\ HeapInv' /\ Distinct(m_queue')
    BY <1>4, SameQueue DEF SetDying, NotifyAll, Join
  <2>2. TypeOK'
    BY <1>4 DEF Inv, SetDying, NotifyAll, Join, history, TypeOK, AppSteps, WorkerSteps, Wake
  <2>3. Ownership' /\ PlaceInv' /\ CancelIsHonest'
    BY <1>4, <2>1 DEF Inv, SetDying, NotifyAll, Join, history, Ownership, Distinct,
      PlaceInv, CancelIsHonest, Wake
  <2>4. ControlInv'
    BY <1>4 DEF Inv, SetDying, NotifyAll, Join, history, ControlInv, TypeOK, Wake
  <2> QED BY <2>1, <2>2, <2>3, <2>4 DEF Inv
<1> QED BY <1>1, <1>2, <1>3, <1>4 DEF App

LEMMA ProcessKeepsInv == ASSUME Inv, Process \/ WakeSpuriously PROVE Inv'
<1> USE JobsAssumption
<1>1. CASE \E i \in Jobs : HandlerSubmits(i)
  BY <1>1, PushKeepsInv DEF HandlerSubmits
<1>2. CASE Take \/ Pop
  <2>1. /\ m_queue' \in Seq(Jobs) /\ Queued' = Queued \ {item'}
        /\ Distinct(m_queue') /\ HeapInv'
        /\ item' \in Queued /\ item' \in Jobs /\ linked' = linked \ {item'}
        /\ item' = m_queue[1]
    BY <1>2, PopFacts DEF Take, Pop, PopFront
  <2>2. TypeOK'
    BY <1>2, <2>1 DEF Inv, Take, Pop, history, TypeOK, WorkerSteps
  <2>3. Ownership'
    BY <1>2, <2>1 DEF Inv, Take, Pop, history, Ownership, Distinct
  <2>4. ControlInv'
    BY <1>2, <2>1 DEF Inv, Take, Pop, history, ControlInv, TypeOK, Ownership, PlaceInv
  <2>5. PlaceInv'
    BY <1>2, <2>1 DEF Inv, Take, Pop, history, PlaceInv, TypeOK, Ownership, ControlInv
  <2>6. CancelIsHonest'
    BY <1>2, <2>1 DEF Inv, Take, Pop, history, CancelIsHonest, TypeOK
  <2> QED BY <2>1, <2>2, <2>3, <2>4, <2>5, <2>6 DEF Inv
<1>3. CASE Cleanup \/ Discard
  <2>1. Queued' = Queued /\ HeapInv' /\ Distinct(m_queue')
    BY <1>3, SameQueue DEF Cleanup, Discard
  <2>2. item \in Jobs \cap submitted /\ item \notin Queued
    BY <1>3 DEF Inv, Cleanup, Discard, ControlInv, TypeOK, Ownership
  <2>3. TypeOK'
    BY <1>3, <2>2 DEF Inv, Cleanup, Discard, CleanupWorkItem, history, TypeOK, WorkerSteps
  <2>4. Ownership'
    BY <1>3, <2>1, <2>2 DEF Inv, Cleanup, Discard, CleanupWorkItem, history, Ownership,
      Distinct, TypeOK
  <2>5. ControlInv'
    BY <1>3 DEF Inv, Cleanup, Discard, CleanupWorkItem, history, ControlInv
  <2>6. PlaceInv'
    BY <1>3, <2>1, <2>2 DEF Inv, Cleanup, Discard, CleanupWorkItem, history, PlaceInv,
      ControlInv
  <2>7. CancelIsHonest'
    BY <1>3, <2>1 DEF Inv, Cleanup, Discard, CleanupWorkItem, history, CancelIsHonest
  <2> QED BY <2>1, <2>3, <2>4, <2>5, <2>6, <2>7 DEF Inv
<1>4. CASE \/ Sleep \/ RunReturns \/ RunThrows \/ HandlersReturn \/ SeeDying
           \/ PopNothing \/ WakeSpuriously
  <2> USE <1>4 DEF Sleep, RunReturns, RunThrows, HandlersReturn, SeeDying, PopNothing,
        WakeSpuriously, history
  <2>1. Queued' = Queued /\ HeapInv' /\ Distinct(m_queue')
    BY SameQueue
  <2>2. TypeOK'
    BY DEF Inv, TypeOK, WorkerSteps, ControlInv
  <2>3. Ownership' /\ PlaceInv' /\ CancelIsHonest'
    BY <2>1 DEF Inv, Ownership, Distinct, PlaceInv, CancelIsHonest
  <2>4. ControlInv'
    BY DEF Inv, ControlInv
  <2> QED BY <2>1, <2>2, <2>3, <2>4 DEF Inv
<1>5. CASE StartRun
  <2>1. Queued' = Queued /\ HeapInv' /\ Distinct(m_queue')
    BY <1>5, SameQueue DEF StartRun
  <2>2. item \in Jobs \cap submitted /\ item \notin Queued
    BY <1>5 DEF Inv, StartRun, ControlInv, TypeOK, Ownership
  <2>3. TypeOK'
    BY <1>5, <2>2 DEF Inv, StartRun, TypeOK, WorkerSteps
  <2>4. Ownership'
    BY <1>5, <2>1 DEF Inv, StartRun, Ownership, Distinct
  <2>5. ControlInv'
    BY <1>5, <2>2 DEF Inv, StartRun, ControlInv
  <2>6. PlaceInv'
    BY <1>5, <2>1, <2>2 DEF Inv, StartRun, PlaceInv
  <2>7. CancelIsHonest'
    BY <1>5, <2>1, <2>2 DEF Inv, StartRun, CancelIsHonest
  <2> QED BY <2>1, <2>3, <2>4, <2>5, <2>6, <2>7 DEF Inv
<1> QED BY <1>1, <1>2, <1>3, <1>4, <1>5 DEF Process

\* The invariant that the theorems below rest on.
THEOREM InvHolds == Spec => []Inv
<1>1. Inv /\ [Next]_vars => Inv'
  <2>1. ASSUME Inv, UNCHANGED vars PROVE Inv'
    BY <2>1 DEF vars, Inv, TypeOK, Ownership, ControlInv, PlaceInv, HeapInv,
      CancelIsHonest, Queued
  <2> QED BY <2>1, AppKeepsInv, ProcessKeepsInv DEF Next, Done
<1> QED BY <1>1, InitInv, PTL DEF Spec

--------------------------------------------------------------------------------
(* The properties of the run *)

\* Every variable keeps its type, whatever the jobs are.
THEOREM TypeCorrect == Spec => []TypeOK
BY InvHolds, PTL DEF Inv

\* A job is in one place, and nobody has one that was deleted.
THEOREM JobsAreOwned == Spec => []Ownership
BY InvHolds, PTL DEF Inv

\* Cancel returns true for the jobs that never start and false for those
\* that were started or are about to be, however its two steps and the worker's interleave.
THEOREM CancelTellsTheTruth == Spec => []CancelIsHonest
BY InvHolds, PTL DEF Inv

\* After Wait the queue is empty and nothing is leaked, also not the jobs
\* that handlers submitted while the pool ended.
THEOREM NothingIsLeaked == Spec => []NoneLeftBehind
<1>1. m_queue = <<>> => Queued = {}
  BY DEF Queued
<1>2. Inv => NoneLeftBehind
  BY <1>1, JobsAssumption DEF Inv, TypeOK, NoneLeftBehind, ControlInv, PlaceInv
<1> QED BY <1>2, InvHolds, PTL

\* Process takes the most urgent of the queued jobs, whatever was removed before.
THEOREM MostUrgentFirst == Spec => HighestFirst
<1>1. ASSUME Inv, [Next]_vars, worker' = "taken", worker # "taken"
      PROVE  \A j \in Queued : Priority[j] <= Priority[item']
  <2>1. Take
    BY <1>1 DEF Next, vars, history, App, Process, Push, Wake, DoWork, CancelItem, RemoveItem,
      SetDying, NotifyAll, Join, Sleep, StartRun, RunReturns, RunThrows, HandlerSubmits,
      HandlersReturn, Cleanup, SeeDying, Pop, Discard, PopNothing, WakeSpuriously, Done
  <2> QED BY <1>1, <2>1, PopFacts DEF Take
<1>2. Inv /\ [Next]_vars =>
        [worker' = "taken" /\ worker # "taken" =>
           \A j \in Queued : Priority[j] <= Priority[item']]_vars
  BY <1>1
<1> QED BY <1>2, InvHolds, PTL DEF Spec, HighestFirst

--------------------------------------------------------------------------------
(* AsyncJobs implements JobPool *)

\* What became of job i, as AsyncJobs's INSTANCE of JobPool has it.
JobOf(i) ==
  IF i \notin submitted THEN "new"
  ELSE IF i \in Queued THEN "waiting"
  ELSE IF i = item /\ worker = "taken" THEN "taken"
  ELSE IF i = item /\ i \in started THEN "running"
  ELSE IF i \in started THEN "finished"
  ELSE IF answer[i] = "true" THEN "withdrawn"
  ELSE "dropped"

jobs == [i \in Jobs |-> JobOf(i)]
PoolStep == Pool!PoolNext \/ UNCHANGED <<jobs, m_dying>>

\* One job moves, the others stay: the shape of JobPool's steps.
LEMMA OneMoves ==
  ASSUME NEW i \in Jobs, NEW from, NEW to, JobOf(i) = from, JobOf(i)' = to,
         \A j \in Jobs \ {i} : JobOf(j)' = JobOf(j)
  PROVE  Pool!Move(i, from, to)
BY DEF Pool!Move, JobOf

\* A job is taken or running exactly when Process has it in hand to run it.
LEMMA RunningIsItem ==
  ASSUME Inv
  PROVE  /\ Pool!In("running") = {i \in Jobs : i = item /\ i \in started}
         /\ Pool!In("taken") = {i \in Jobs : i = item /\ worker = "taken"}
<1>1. Pool!In("running") = {i \in Jobs : i = item /\ i \in started}
  BY DEF Inv, PlaceInv, ControlInv, Pool!In
<1>2. Pool!In("taken") = {i \in Jobs : i = item /\ worker = "taken"}
  BY DEF Inv, Ownership, ControlInv, TypeOK, Pool!In
<1> QED BY <1>1, <1>2

LEMMA WaitingIsQueued == ASSUME Inv PROVE Pool!In("waiting") = Queued
BY DEF Inv, Ownership, TypeOK, Queued, Pool!In

\* Both callers of Push: the application before the end, a handler from
\* within a running job.
LEMMA PushIsSubmit ==
  ASSUME Inv, NEW i \in Jobs, Push(i), app = "idle" \/ worker = "post"
  PROVE  PoolStep
<1>1. Queued' = Queued \cup {i}
  BY PushFacts
<1>2. JobOf(i) = "new" /\ JobOf(i)' = "waiting"
  BY <1>1 DEF Push, JobOf
<1>3. \A j \in Jobs \ {i} : JobOf(j)' = JobOf(j)
  BY <1>1 DEF Push, JobOf, Wake
<1>4. ~m_dying \/ Pool!In("running") # {}
  BY RunningIsItem DEF Inv, ControlInv, TypeOK
<1>5. Pool!Submit(i)
  BY <1>2, <1>3, <1>4, OneMoves DEF Pool!Submit, Push
<1> QED BY <1>5 DEF PoolStep, Pool!PoolNext

\* Every step of the two threads is a step of the pool or none.
LEMMA StepIsPoolStep == ASSUME Inv, Inv', [Next]_vars PROVE PoolStep
<1>1. CASE \E i \in Jobs : DoWork(i) \/ HandlerSubmits(i)
  BY <1>1, PushIsSubmit DEF DoWork, HandlerSubmits
<1>2. ASSUME NEW i \in Jobs, CancelItem(i) PROVE PoolStep
  <2>1. Queued' = Queued
    BY <1>2 DEF CancelItem, Queued
  <2>2. \A j \in Jobs : JobOf(j)' = JobOf(j)
    BY <1>2, <2>1 DEF CancelItem, JobOf, Inv, TypeOK
  <2> QED BY <1>2, <2>2 DEF PoolStep, jobs, CancelItem
<1>3. CASE RemoveItem
  <2>1. Queued' = Queued \ {target} /\ target \in Jobs /\ ~m_dying /\ UNCHANGED m_dying
    BY <1>3, RemoveFacts DEF RemoveItem, Inv, ControlInv, TypeOK, JobsAssumption
  <2> PICK i \in Jobs : i = target
    BY <2>1
  <2>2. \A j \in Jobs \ {i} : JobOf(j)' = JobOf(j)
    BY <1>3, <2>1 DEF RemoveItem, Remove, JobOf, Inv, TypeOK
  <2>3. CASE i \in Queued
    <3>1. JobOf(i) = "waiting" /\ JobOf(i)' = "withdrawn"
      BY <1>3, <2>1, <2>3 DEF RemoveItem, Remove, JobOf, Inv, TypeOK, Ownership, PlaceInv
    <3>2. Pool!Withdraw(i)
      BY <2>1, <2>2, <3>1, OneMoves DEF Pool!Withdraw
    <3> QED BY <2>1, <3>2 DEF PoolStep, Pool!PoolNext
  <2>4. CASE i \notin Queued
    <3>1. JobOf(i)' = JobOf(i)
      BY <1>3, <2>1, <2>4 DEF RemoveItem, Remove, JobOf, Inv, TypeOK, ControlInv, PlaceInv
    <3> QED BY <2>1, <2>2, <3>1 DEF PoolStep, jobs
  <2> QED BY <2>3, <2>4
<1>4. CASE SetDying
  <2>1. m_dying' = TRUE /\ ~m_dying /\ \A j \in Jobs : JobOf(j)' = JobOf(j)
    BY <1>4 DEF SetDying, history, JobOf, Queued, Inv, ControlInv, TypeOK
  <2>2. Pool!Close
    BY <2>1 DEF Pool!Close, JobOf
  <2> QED BY <2>2 DEF PoolStep, Pool!PoolNext
<1>5. CASE Take
  <2>1. /\ Queued' = Queued \ {item'} /\ item' \in Queued /\ item' \in Jobs
        /\ \A j \in Queued : Priority[j] <= Priority[item']
    BY <1>5, PopFacts DEF Take
  <2> PICK i \in Jobs : i = item'
    BY <2>1
  <2>2. UNCHANGED <<m_dying, submitted, started, answer>> /\ item = NoJob /\ worker' = "taken"
    BY <1>5 DEF Take, PopFront, history, Inv, ControlInv
  <2>3. JobOf(i) = "waiting" /\ JobOf(i)' = "taken"
    BY <2>1, <2>2 DEF JobOf, Inv, Ownership
  <2>4. \A j \in Jobs \ {i} : JobOf(j)' = JobOf(j)
    BY <2>1, <2>2, JobsAssumption DEF JobOf
  <2>5. Pool!In("taken") \cup Pool!In("running") = {}
    BY <2>2, RunningIsItem, JobsAssumption
  <2>6. Pool!Take(i)
    BY <1>5, <2>1, <2>2, <2>3, <2>4, <2>5, WaitingIsQueued, OneMoves DEF Pool!Take, Take
  <2> QED BY <2>6 DEF PoolStep, Pool!PoolNext
<1>6. CASE Pop
  <2>1. Queued' = Queued \ {item'} /\ item' \in Queued /\ item' \in Jobs
    BY <1>6, PopFacts DEF Pop
  <2> PICK i \in Jobs : i = item'
    BY <2>1
  <2>2. /\ UNCHANGED <<m_dying, submitted, started, answer>>
        /\ item = NoJob /\ m_dying /\ worker' = "discard"
    BY <1>6 DEF Pop, history, Inv, ControlInv
  <2>3. JobOf(i) = "waiting" /\ JobOf(i)' = "dropped"
    BY <2>1, <2>2 DEF JobOf, Inv, Ownership, PlaceInv, CancelIsHonest
  <2>4. \A j \in Jobs \ {i} : JobOf(j)' = JobOf(j)
    BY <2>1, <2>2, JobsAssumption DEF JobOf
  <2>5. Pool!In("taken") \cup Pool!In("running") = {}
    BY <2>2, RunningIsItem, JobsAssumption
  <2>6. Pool!Drop(i)
    BY <2>2, <2>3, <2>4, <2>5, OneMoves DEF Pool!Drop
  <2> QED BY <2>6 DEF PoolStep, Pool!PoolNext
<1>7. CASE Cleanup
  <2>1. item \in Jobs /\ item \in started /\ Queued' = Queued /\ item' = NoJob
    BY <1>7 DEF Cleanup, CleanupWorkItem, Queued, Inv, ControlInv, TypeOK
  <2> PICK i \in Jobs : i = item
    BY <2>1
  <2>2. JobOf(i) = "running" /\ JobOf(i)' = "finished"
    BY <1>7, <2>1, JobsAssumption DEF Cleanup, history, JobOf, Inv, PlaceInv
  <2>3. \A j \in Jobs \ {i} : JobOf(j)' = JobOf(j)
    BY <1>7, <2>1, JobsAssumption DEF Cleanup, history, JobOf
  <2>4. Pool!Finish(i)
    BY <1>7, <2>2, <2>3, OneMoves DEF Pool!Finish, Cleanup
  <2> QED BY <2>4 DEF PoolStep, Pool!PoolNext
<1>8. CASE Discard
  <2>1. item \notin started /\ Queued' = Queued /\ item' = NoJob
    BY <1>8, JobsAssumption DEF Discard, CleanupWorkItem, Queued, Inv, ControlInv
  <2>2. \A j \in Jobs : JobOf(j)' = JobOf(j)
    BY <1>8, <2>1, JobsAssumption DEF Discard, history, JobOf
  <2> QED BY <1>8, <2>2 DEF PoolStep, jobs, Discard
<1>10. CASE StartRun
  <2>1. item \in Jobs /\ Queued' = Queued /\ item' = item /\ item \notin started
    BY <1>10 DEF StartRun, Queued, Inv, ControlInv, TypeOK
  <2> PICK i \in Jobs : i = item
    BY <2>1
  <2>2. JobOf(i) = "taken" /\ JobOf(i)' = "running"
    BY <1>10, <2>1 DEF StartRun, JobOf, Inv, Ownership, ControlInv
  <2>3. \A j \in Jobs \ {i} : JobOf(j)' = JobOf(j)
    BY <1>10, <2>1 DEF StartRun, JobOf
  <2>4. Pool!Start(i)
    BY <1>10, <2>2, <2>3, OneMoves DEF Pool!Start, StartRun
  <2> QED BY <2>4 DEF PoolStep, Pool!PoolNext
<1>9. CASE \/ NotifyAll \/ Join \/ Sleep \/ RunReturns \/ RunThrows \/ HandlersReturn
           \/ SeeDying \/ PopNothing \/ WakeSpuriously \/ Done \/ UNCHANGED vars
  <2>1. /\ UNCHANGED <<m_queue, m_dying, submitted, started, answer, item>>
        /\ worker' = "taken" <=> worker = "taken"
    BY <1>9 DEF NotifyAll, Join, Sleep, RunReturns, RunThrows, HandlersReturn, SeeDying,
      PopNothing, WakeSpuriously, Done, vars, history, Wake
  <2>2. \A j \in Jobs : JobOf(j)' = JobOf(j)
    BY <2>1 DEF JobOf, Queued
  <2> QED BY <2>1, <2>2 DEF PoolStep, jobs
<1> QED
  BY <1>1, <1>2, <1>3, <1>4, <1>5, <1>6, <1>7, <1>8, <1>9, <1>10 DEF Next, App, Process

\* The worker thread keeps what JobPool promises, for all jobs and priorities.
THEOREM ImplementsJobPool == Spec => PoolImplemented
<1>1. Init => Pool!PoolInit
  BY DEF Init, Pool!PoolInit
<1>2. Inv /\ Inv' /\ [Next]_vars => [Pool!PoolNext]_(Pool!poolVars)
  BY StepIsPoolStep DEF PoolStep, jobs, JobOf, Pool!poolVars
<1> QED BY <1>1, <1>2, InvHolds, PTL DEF Spec, PoolImplemented, Pool!PoolSpec
================================================================================
