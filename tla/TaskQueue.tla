------------------------------ MODULE TaskQueue ------------------------------
(***************************************************************************)
(* What rainman's CThreadPool promises the code that submits to it         *)
(* (CResourceLoader, CSgaCreator): tasks leave the queue in the order they *)
(* were submitted, at most WorkerCount of them run at a time, each runs    *)
(* once, and its future is set once.  Threads, mutex and condition         *)
(* variable are the business of ThreadPool.tla, which implements this      *)
(* module; ResourceLoad.tla is built on top of it.                         *)
(***************************************************************************)
EXTENDS Naturals, Sequences, FiniteSets

CONSTANTS
  Tasks,        \* the packaged_tasks that may ever be submitted
  Outcomes,     \* what a finished task leaves in its future
  WorkerCount   \* CThreadPool::ThreadCount()

ASSUME PoolAssumption ==
  /\ WorkerCount \in Nat \ {0}
  /\ {"none", "pending"} \cap Outcomes = {}

VARIABLES
  queue,        \* m_qTasks
  running,      \* the tasks a worker is executing
  future        \* the state of the std::future Submit returned

poolVars == <<queue, running, future>>

PoolTypeOK ==
  /\ queue \in Seq(Tasks)
  /\ running \in SUBSET Tasks
  /\ future \in [Tasks -> {"none", "pending"} \cup Outcomes]

PoolInit ==
  /\ queue = <<>>
  /\ running = {}
  /\ future = [t \in Tasks |-> "none"]

Ready(t) == future[t] \in Outcomes

\* Mutant: the pool has one worker less than ThreadCount() says.
FreeWorkerButOne == Cardinality(running) + 1 < WorkerCount

FreeWorker == Cardinality(running) < WorkerCount

Submit(t) ==
  /\ future[t] = "none"
  /\ queue' = Append(queue, t)
  /\ future' = [future EXCEPT ![t] = "pending"]
  /\ UNCHANGED running

\* A worker with nothing to do takes the oldest task.
Start ==
  /\ FreeWorker
  /\ queue # <<>>
  /\ queue' = Tail(queue)
  /\ running' = running \cup {Head(queue)}
  /\ UNCHANGED future

Finish(t, o) ==
  /\ t \in running
  /\ running' = running \ {t}
  /\ future' = [future EXCEPT ![t] = o]
  /\ UNCHANGED queue

PoolNext ==
  \/ \E t \in Tasks : Submit(t)
  \/ Start
  \/ \E t \in Tasks, o \in Outcomes : Finish(t, o)

PoolFairness ==
  /\ WF_poolVars(Start)
  /\ \A t \in Tasks : WF_poolVars(\E o \in Outcomes : Finish(t, o))

PoolSafety == PoolInit /\ [][PoolNext]_poolVars

PoolSpec == PoolSafety /\ PoolFairness
=============================================================================
