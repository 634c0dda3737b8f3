-------------------------------- MODULE JobPool --------------------------------
(***************************************************************************)
(* What a thread that works off prioritised jobs promises (WorkerThread,   *)
(* src/src/lsl/lslutils/thread.h): a job is started at most once, one at a *)
(* time, the most urgent of the waiting jobs is taken first; a waiting job *)
(* may be withdrawn and then never starts; once the pool is closed no job  *)
(* is taken any more and what still waits is dropped, while the one that   *)
(* was taken before still runs.                                            *)
(***************************************************************************)
EXTENDS Integers

CONSTANTS
  Jobs,
  Priority      \* Priority[i]: the higher, the more urgent

VARIABLES
  job,          \* job[i]: "new", "waiting", "taken", "running", "finished",
                \* "withdrawn" or "dropped"
  open          \* whether jobs may still be taken

poolVars == <<job, open>>

In(state) == {i \in Jobs : job[i] = state}
Move(i, from, to) == job[i] = from /\ job' = [job EXCEPT ![i] = to]

PoolInit == job = [i \in Jobs |-> "new"] /\ open = TRUE

\* A running job may submit others, even while the pool closes.
Submit(i) == (open \/ In("running") # {}) /\ Move(i, "new", "waiting") /\ UNCHANGED open

Take(i) ==
  /\ open /\ In("taken") \cup In("running") = {}
  /\ \A j \in In("waiting") : Priority[j] <= Priority[i]
  /\ Move(i, "waiting", "taken") /\ UNCHANGED open

Start(i) == Move(i, "taken", "running") /\ UNCHANGED open

Finish(i) == Move(i, "running", "finished") /\ UNCHANGED open
Withdraw(i) == open /\ Move(i, "waiting", "withdrawn") /\ UNCHANGED open
Close == open /\ open' = FALSE /\ UNCHANGED job

Drop(i) ==
  /\ ~open /\ In("taken") \cup In("running") = {}
  /\ Move(i, "waiting", "dropped") /\ UNCHANGED open

PoolNext ==
  \/ Close
  \/ \E i \in Jobs : Submit(i) \/ Take(i) \/ Start(i) \/ Finish(i) \/ Withdraw(i) \/ Drop(i)

PoolSpec == PoolInit /\ [][PoolNext]_poolVars
================================================================================
