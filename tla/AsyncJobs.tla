------------------------------- MODULE AsyncJobs -------------------------------
(***************************************************************************)
(* WorkerThread and its WorkItemQueue (src/src/lsl/lslutils/thread.cpp)    *)
(* with the jobs Unitsync gives them (src/src/lsl/lslunitsync/             *)
(* unitsync.cpp).                                                          *)
(*                                                                         *)
(* Two threads: the worker, Process(), and the application, which submits  *)
(* jobs, may cancel those it kept the ownership of, and at last waits for  *)
(* the worker to end.  The handlers of the events a job posts run on the   *)
(* worker and may submit jobs too.  The queue is a heap in a vector under  *)
(* a mutex: a critical section is one step.  What a job does with the      *)
(* unitsync library is abstracted to whether it throws.                    *)
(***************************************************************************)
EXTENDS Integers, Sequences, FiniteSets

CONSTANTS
  Jobs,         \* the work items, each submitted at most once
  Priority,     \* Priority[i]: the priority i is submitted with
  Kept,         \* submitted with toBeDeleted = false: the application's own
  Loads,        \* LoadUnitSyncLibAsyncWorkItems: they catch what they run
  NoJob

ASSUME JobsAssumption ==
  /\ IsFiniteSet(Jobs)
  /\ Priority \in [Jobs -> Int]
  /\ Kept \subseteq Jobs /\ Loads \subseteq Jobs \ Kept
  /\ NoJob \notin Jobs

VARIABLES
  (* WorkItemQueue *)
  m_queue,      \* the vector
  m_dying,
  (* WorkItem *)
  linked,       \* the items whose m_queue is not NULL
  deleted,      \* the items that were deleted
  (* control of the two threads *)
  worker, item, \* where Process() is, its local variable
  app, target,  \* where the application is, the item it cancels
  (* what happened so far *)
  submitted, started, posted,
  answer        \* answer[i]: what WorkItem::Cancel returned for i

vars == <<m_queue, m_dying, linked, deleted, worker, item, app, target,
          submitted, started, posted, answer>>
history == <<submitted, started, posted, answer>>

Queued == {m_queue[k] : k \in DOMAIN m_queue}

WorkerSteps == {"check", "asleep", "taken", "run", "post", "cleanup",
                "drain", "discard", "exit"}
AppSteps == {"idle", "remove", "notify", "join", "gone"}

TypeOK ==
  /\ m_queue \in Seq(Jobs) /\ m_dying \in BOOLEAN
  /\ linked \subseteq Jobs /\ deleted \subseteq Jobs
  /\ worker \in WorkerSteps /\ item \in Jobs \cup {NoJob}
  /\ app \in AppSteps /\ target \in Jobs \cup {NoJob}
  /\ submitted \subseteq Jobs /\ started \subseteq Jobs /\ posted \subseteq Jobs
  /\ answer \in [Jobs -> {"none", "true", "false"}]

----------------------------------------------------------------------------
(* <algorithm>'s heaps.  push_heap, pop_heap and make_heap leave some heap  *)
(* of the elements; the first two only if they are given one.               *)

IsHeap(q) == \A k \in 2..Len(q) : Priority[q[k]] <= Priority[q[k \div 2]]

OrdersOf(S) ==
  {q \in [1..Cardinality(S) -> S] :
     /\ \A i \in S : \E k \in DOMAIN q : q[k] = i
     /\ \A j, k \in DOMAIN q : q[j] = q[k] => j = k}

HeapsOf(S) == {q \in OrdersOf(S) : IsHeap(q)}
Reordered(q, S) == IF IsHeap(q) THEN HeapsOf(S) ELSE OrdersOf(S)

----------------------------------------------------------------------------
(* WorkItemQueue, within m_lock *)

\* Mutant of Wake: Push and Cancel do not notify.
WakeNobody == worker

Wake == IF worker = "asleep" THEN "check" ELSE worker

\* DoWork and Push.  m_cond is only ever waited for by the worker.
Push(i) ==
  /\ i \notin submitted
  /\ submitted' = submitted \cup {i}
  /\ m_queue' \in Reordered(m_queue, Queued \cup {i})
  /\ linked' = linked \cup {i}
  /\ worker' = Wake
  /\ UNCHANGED <<m_dying, deleted, item, app, target, started, posted, answer>>

\* The first item leaves the queue for Process's local variable.
PopFront ==
  /\ m_queue # <<>>
  /\ item' = m_queue[1]
  /\ m_queue' \in Reordered(m_queue, Queued \ {m_queue[1]})
  /\ linked' = linked \ {m_queue[1]}

\* Mutant of CleanupWorkItem: m_toBeDeleted is not looked at.
DeleteWorkItem == deleted' = deleted \cup {item} /\ item' = NoJob

CleanupWorkItem ==
  /\ deleted' = IF item \in Kept THEN deleted ELSE deleted \cup {item}
  /\ item' = NoJob

----------------------------------------------------------------------------
(* The application *)

DoWork(i) == app = "idle" /\ Push(i)

\* WorkItem::Cancel reads m_queue without the lock, then Remove takes it.
CancelItem(i) ==
  /\ app = "idle" /\ i \in Kept \cap submitted /\ answer[i] = "none"
  /\ IF i \in linked
     THEN app' = "remove" /\ target' = i /\ UNCHANGED answer
     ELSE answer' = [answer EXCEPT ![i] = "false"] /\ UNCHANGED <<app, target>>
  /\ UNCHANGED <<m_queue, m_dying, linked, deleted, worker, item,
                 submitted, started, posted>>

\* Mutant of Remove: the heap is not recreated.
RemoveKeepingOrder(found) ==
  /\ m_queue' = SelectSeq(m_queue, LAMBDA i : i # target)
  /\ linked' = linked \ {target}
  /\ answer' = [answer EXCEPT ![target] = IF found THEN "true" ELSE "false"]

\* Mutant of Remove: std::remove without the erase, so that the last item is
\* there twice.
RemoveWithoutErase(found) ==
  LET rest == SelectSeq(m_queue, LAMBDA i : i # target) IN
  /\ m_queue' = IF found /\ rest # <<>> THEN Append(rest, m_queue[Len(m_queue)]) ELSE m_queue
  /\ linked' = linked \ {target}
  /\ answer' = [answer EXCEPT ![target] = IF found THEN "true" ELSE "false"]

\* Mutant of Remove: it is not checked whether the item was found.
RemoveUnchecked(found) ==
  /\ m_queue' \in IF found THEN HeapsOf(Queued \ {target}) ELSE {m_queue}
  /\ linked' = linked \ {target}
  /\ answer' = [answer EXCEPT ![target] = IF m_queue = <<>> THEN "false" ELSE "true"]

Remove(found) ==
  /\ m_queue' \in IF found THEN HeapsOf(Queued \ {target}) ELSE {m_queue}
  /\ linked' = IF found THEN linked \ {target} ELSE linked
  /\ answer' = [answer EXCEPT ![target] = IF found THEN "true" ELSE "false"]

RemoveItem ==
  /\ app = "remove" /\ Remove(target \in Queued)
  /\ app' = "idle" /\ target' = NoJob
  /\ UNCHANGED <<m_dying, deleted, worker, item, submitted, started, posted>>

\* WorkerThread::Wait: WorkItemQueue::Cancel notifies after the unlock.
SetDying ==
  /\ app = "idle" /\ m_dying' = TRUE /\ app' = "notify"
  /\ UNCHANGED <<m_queue, linked, deleted, worker, item, target, history>>

\* Mutant of NotifyAll: the worker is not woken up.
NotifyNobody ==
  /\ app = "notify" /\ app' = "join"
  /\ UNCHANGED <<m_queue, m_dying, linked, deleted, worker, item, target, history>>

NotifyAll ==
  /\ app = "notify" /\ worker' = Wake /\ app' = "join"
  /\ UNCHANGED <<m_queue, m_dying, linked, deleted, item, target, history>>

Join ==
  /\ app = "join" /\ worker = "exit" /\ app' = "gone"
  /\ UNCHANGED <<m_queue, m_dying, linked, deleted, worker, item, target, history>>

App ==
  \/ RemoveItem \/ SetDying \/ NotifyAll \/ Join
  \/ \E i \in Jobs : DoWork(i) \/ CancelItem(i)

----------------------------------------------------------------------------
(* Process() *)

Sleep ==
  /\ worker = "check" /\ ~m_dying /\ m_queue = <<>>
  /\ worker' = "asleep"
  /\ UNCHANGED <<m_queue, m_dying, linked, deleted, item, app, target, history>>

WakeSpuriously ==
  /\ worker = "asleep" /\ worker' = "check"
  /\ UNCHANGED <<m_queue, m_dying, linked, deleted, item, app, target, history>>

\* The pop is under the lock,
Take ==
  /\ worker = "check" /\ ~m_dying /\ PopFront
  /\ worker' = "taken"
  /\ UNCHANGED <<m_dying, deleted, app, target, history>>

\* item->Run() comes after the unlock: by then the end may have been asked for.
StartRun ==
  /\ worker = "taken"
  /\ worker' = "run" /\ started' = started \cup {item}
  /\ UNCHANGED <<m_queue, m_dying, linked, deleted, item, app, target,
                 submitted, posted, answer>>

\* Run() of Unitsync's jobs ends with PostEvent; other jobs need not post.
RunReturns ==
  /\ worker = "run"
  /\ worker' = IF item \in Kept THEN "cleanup" ELSE "post"
  /\ posted' = IF item \in Kept THEN posted ELSE posted \cup {item}
  /\ UNCHANGED <<m_queue, m_dying, linked, deleted, item, app, target,
                 submitted, started, answer>>

\* GetMap's "Map does not exist" (unitsync.cpp:477), or the library's
\* exceptions: the event is not posted, Process eats the exception.
RunThrows ==
  /\ worker = "run" /\ item \notin Loads /\ worker' = "cleanup"
  /\ UNCHANGED <<m_queue, m_dying, linked, deleted, item, app, target, history>>

HandlerSubmits(i) == worker = "post" /\ Push(i)

HandlersReturn ==
  /\ worker = "post" /\ worker' = "cleanup"
  /\ UNCHANGED <<m_queue, m_dying, linked, deleted, item, app, target, history>>

Cleanup ==
  /\ worker = "cleanup" /\ CleanupWorkItem /\ worker' = "check"
  /\ UNCHANGED <<m_queue, m_dying, linked, app, target, history>>

\* Mutant of SeeDying: Process returns at once.
LeaveAtOnce ==
  /\ worker = "check" /\ m_dying /\ worker' = "exit"
  /\ UNCHANGED <<m_queue, m_dying, linked, deleted, item, app, target, history>>

SeeDying ==
  /\ worker = "check" /\ m_dying /\ worker' = "drain"
  /\ UNCHANGED <<m_queue, m_dying, linked, deleted, item, app, target, history>>

Pop ==
  /\ worker = "drain" /\ PopFront /\ worker' = "discard"
  /\ UNCHANGED <<m_dying, deleted, app, target, history>>

Discard ==
  /\ worker = "discard" /\ CleanupWorkItem /\ worker' = "drain"
  /\ UNCHANGED <<m_queue, m_dying, linked, app, target, history>>

\* Mutant of PopNothing: Pop's NULL is cleaned up like an item.
CleanupNothing ==
  /\ worker = "drain" /\ m_queue = <<>> /\ worker' = "discard"
  /\ UNCHANGED <<m_queue, m_dying, linked, deleted, item, app, target, history>>

PopNothing ==
  /\ worker = "drain" /\ m_queue = <<>> /\ worker' = "exit"
  /\ UNCHANGED <<m_queue, m_dying, linked, deleted, item, app, target, history>>

Process ==
  \/ Sleep \/ Take \/ StartRun \/ RunReturns \/ RunThrows \/ HandlersReturn \/ Cleanup
  \/ SeeDying \/ Pop \/ Discard \/ PopNothing
  \/ \E i \in Jobs : HandlerSubmits(i)

----------------------------------------------------------------------------

Init ==
  /\ m_queue = <<>> /\ m_dying = FALSE
  /\ linked = {} /\ deleted = {}
  /\ worker = "check" /\ item = NoJob
  /\ app = "idle" /\ target = NoJob
  /\ submitted = {} /\ started = {} /\ posted = {}
  /\ answer = [i \in Jobs |-> "none"]

\* Everything has ended.
Done == app = "gone" /\ UNCHANGED vars

Next == App \/ Process \/ WakeSpuriously \/ Done

Spec == Init /\ [][Next]_vars

\* The worker runs, and a started Cancel, Wait or join is carried through;
\* nobody has to submit, to wait, or to wake a thread without a reason.
FairSpec == Spec /\ WF_vars(Process) /\ WF_vars(RemoveItem \/ NotifyAll \/ Join)

----------------------------------------------------------------------------
(* Properties *)

\* A job is in one place: m_queue of a work item says whether the queue holds
\* it, and neither the queue nor Process has a job that was deleted or that
\* was never submitted.  Jobs the application kept are never deleted.
Ownership ==
  /\ linked = Queued
  /\ \A j, k \in DOMAIN m_queue : m_queue[j] = m_queue[k] => j = k
  /\ item \notin Queued \cup deleted
  /\ Queued \cap deleted = {} /\ Kept \cap deleted = {}
  /\ Queued \cup deleted \subseteq submitted

\* "@return true if it was removed, false otherwise" (thread.h:38): a job
\* whose Cancel returned true never starts and Process never gets hold of
\* it, one whose Cancel returned false was started or is the next to start.
CancelIsHonest ==
  \A i \in Jobs :
    /\ answer[i] = "true" => i \notin started \cup Queued /\ i # item
    /\ answer[i] = "false" => i \in started \/ (worker = "taken" /\ i = item)

\* Once Wait has returned nothing is left in the queue, and every job that
\* was to be deleted is deleted: none is leaked.
NoneLeftBehind ==
  app = "gone" => m_queue = <<>> /\ submitted \ Kept \subseteq deleted

\* "Priority of item, highest is run first" (thread.h:48): of the queued jobs Process
\* takes the most urgent, also after one was removed from the middle of the heap.
HighestFirst ==
  [][worker' = "taken" /\ worker # "taken" =>
       \A j \in Queued : Priority[j] <= Priority[item']]_vars

\* The worker notices that it is to end: Wait returns.
WaitReturns == app = "notify" ~> app = "gone"

\* No job is forgotten in the queue, no notification is lost.
JobsLeaveQueue == \A i \in Jobs : i \in Queued ~> i \notin Queued

----------------------------------------------------------------------------
(* AsyncJobs implements JobPool. *)

Pool == INSTANCE JobPool WITH
  job <- [i \in Jobs |->
            IF i \notin submitted THEN "new"
            ELSE IF i \in Queued THEN "waiting"
            ELSE IF i = item /\ worker = "taken" THEN "taken"
            ELSE IF i = item /\ i \in started THEN "running"
            ELSE IF i \in started THEN "finished"
            ELSE IF answer[i] = "true" THEN "withdrawn"
            ELSE "dropped"],
  open <- ~m_dying

\* The two threads keep what JobPool promises.
PoolImplemented == Pool!PoolSpec

\* "we just need symmetry between number of initiated async jobs and number
\* of finished/failed async jobs" (unitsync.cpp:952): when the worker has
\* nothing left to do, each job of Unitsync has posted its event.
EventPerJob == worker = "asleep" => submitted \ Kept \subseteq posted
================================================================================
