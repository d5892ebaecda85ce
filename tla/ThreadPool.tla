----------------------------- MODULE ThreadPool ------------------------------
(***************************************************************************)
(* rainman/core/CThreadPool: a fixed set of workers that share a queue, a  *)
(* mutex, a condition variable and a stop flag.  Every critical section    *)
(* of m_mtxQueue is one action; what the code does outside the mutex       *)
(* (notify_one, running the task, notify_all, join) is an action of its    *)
(* own, because other threads may act in between.                          *)
(***************************************************************************)
EXTENDS Naturals, Sequences, FiniteSets

CONSTANTS
  Workers,   \* m_vWorkers
  Clients,   \* the threads that call Submit
  Tasks,     \* the tasks they may submit
  NoTask     \* what a worker holds when it runs nothing

ASSUME ThreadPoolAssumption ==
  /\ IsFiniteSet(Workers) /\ Workers # {}
  /\ IsFiniteSet(Clients)
  /\ NoTask \notin Tasks

VARIABLES
  queue,     \* m_qTasks
  stopping,  \* m_bStopping
  worker,    \* what each worker thread is doing
  task,      \* the task a worker took from the queue
  future,    \* the shared state behind each future
  client,    \* "notify": between the push and notify_one of Submit
  owner      \* progress of the destructor

vars == <<queue, stopping, worker, task, future, client, owner>>

\* Running a task sets its future to a value or to the exception it threw.
Outcomes == {"value", "exception"}

WorkerStates == {"test", "waiting", "running", "exited"}

TypeOK ==
  /\ queue \in Seq(Tasks)
  /\ stopping \in BOOLEAN
  /\ worker \in [Workers -> WorkerStates]
  /\ task \in [Workers -> Tasks \cup {NoTask}]
  /\ future \in [Tasks -> {"none", "pending"} \cup Outcomes]
  /\ client \in [Clients -> {"idle", "notify"}]
  /\ owner \in {"alive", "notifying", "joining", "destroyed"}

InState(s) == {w \in Workers : worker[w] = s}
Notifying == {c \in Clients : client[c] = "notify"}

Init ==
  /\ queue = <<>>
  /\ stopping = FALSE
  /\ worker = [w \in Workers |-> "test"]
  /\ task = [w \in Workers |-> NoTask]
  /\ future = [t \in Tasks |-> "none"]
  /\ client = [c \in Clients |-> "idle"]
  /\ owner = "alive"

-----------------------------------------------------------------------------
\* Submit: the push under the mutex, then notify_one outside of it.  The pool
\* is a static of the process: nothing is submitted once main has returned.

Push(c, t) ==
  /\ client[c] = "idle"
  /\ owner = "alive"
  /\ future[t] = "none"
  /\ queue' = Append(queue, t)
  /\ future' = [future EXCEPT ![t] = "pending"]
  /\ client' = [client EXCEPT ![c] = "notify"]
  /\ UNCHANGED <<stopping, worker, task, owner>>

\* Mutant: only the push into an empty queue notifies.
NotifyOneIfFirst(c) ==
  /\ client[c] = "notify"
  /\ client' = [client EXCEPT ![c] = "idle"]
  /\ \/ Len(queue) = 1 /\ \E w \in InState("waiting") : worker' = [worker EXCEPT ![w] = "test"]
     \/ (Len(queue) # 1 \/ InState("waiting") = {}) /\ UNCHANGED worker
  /\ UNCHANGED <<queue, stopping, task, future, owner>>

NotifyOne(c) ==
  /\ client[c] = "notify"
  /\ client' = [client EXCEPT ![c] = "idle"]
  /\ \/ \E w \in InState("waiting") : worker' = [worker EXCEPT ![w] = "test"]
     \/ InState("waiting") = {} /\ UNCHANGED worker
  /\ UNCHANGED <<queue, stopping, task, future, owner>>

-----------------------------------------------------------------------------
\* WorkerLoop.  "test" is the evaluation of the wait predicate, on entry and
\* after each wakeup; releasing the mutex and blocking are one step of wait.

Wait(w) ==
  /\ worker[w] = "test"
  /\ queue = <<>> /\ ~stopping
  /\ worker' = [worker EXCEPT ![w] = "waiting"]
  /\ UNCHANGED <<queue, stopping, task, future, client, owner>>

SpuriousWakeup(w) ==
  /\ worker[w] = "waiting"
  /\ worker' = [worker EXCEPT ![w] = "test"]
  /\ UNCHANGED <<queue, stopping, task, future, client, owner>>

\* Mutant: a worker leaves as soon as it sees the flag.
ExitAtOnce(w) ==
  /\ worker[w] = "test"
  /\ stopping
  /\ worker' = [worker EXCEPT ![w] = "exited"]
  /\ UNCHANGED <<queue, stopping, task, future, client, owner>>

Exit(w) ==
  /\ worker[w] = "test"
  /\ stopping /\ queue = <<>>
  /\ worker' = [worker EXCEPT ![w] = "exited"]
  /\ UNCHANGED <<queue, stopping, task, future, client, owner>>

\* Mutant: the newest task first.
TakeNewest(w) ==
  /\ worker[w] = "test"
  /\ queue # <<>>
  /\ task' = [task EXCEPT ![w] = queue[Len(queue)]]
  /\ queue' = SubSeq(queue, 1, Len(queue) - 1)
  /\ worker' = [worker EXCEPT ![w] = "running"]
  /\ UNCHANGED <<stopping, future, client, owner>>

Take(w) ==
  /\ worker[w] = "test"
  /\ queue # <<>>
  /\ task' = [task EXCEPT ![w] = Head(queue)]
  /\ queue' = Tail(queue)
  /\ worker' = [worker EXCEPT ![w] = "running"]
  /\ UNCHANGED <<stopping, future, client, owner>>

\* Mutant: a task popped after the flag was set is dropped, its promise broken.
RunUnlessStopping(w) ==
  /\ worker[w] = "running"
  /\ IF stopping
       THEN future' = [future EXCEPT ![task[w]] = "broken"]
       ELSE \E o \in Outcomes : future' = [future EXCEPT ![task[w]] = o]
  /\ task' = [task EXCEPT ![w] = NoTask]
  /\ worker' = [worker EXCEPT ![w] = "test"]
  /\ UNCHANGED <<queue, stopping, client, owner>>

Run(w) ==
  /\ worker[w] = "running"
  /\ \E o \in Outcomes : future' = [future EXCEPT ![task[w]] = o]
  /\ task' = [task EXCEPT ![w] = NoTask]
  /\ worker' = [worker EXCEPT ![w] = "test"]
  /\ UNCHANGED <<queue, stopping, client, owner>>

-----------------------------------------------------------------------------
\* ~CThreadPool

SetStopping ==
  /\ owner = "alive"
  /\ Notifying = {}
  /\ stopping' = TRUE
  /\ owner' = "notifying"
  /\ UNCHANGED <<queue, worker, task, future, client>>

\* Mutant: the destructor wakes one worker only.
NotifyAllWakesOne ==
  /\ owner = "notifying"
  /\ \/ \E w \in InState("waiting") : worker' = [worker EXCEPT ![w] = "test"]
     \/ InState("waiting") = {} /\ UNCHANGED worker
  /\ owner' = "joining"
  /\ UNCHANGED <<queue, stopping, task, future, client>>

NotifyAll ==
  /\ owner = "notifying"
  /\ worker' = [w \in Workers |-> IF worker[w] = "waiting" THEN "test" ELSE worker[w]]
  /\ owner' = "joining"
  /\ UNCHANGED <<queue, stopping, task, future, client>>

JoinAll ==
  /\ owner = "joining"
  /\ InState("exited") = Workers
  /\ owner' = "destroyed"
  /\ UNCHANGED <<queue, stopping, worker, task, future, client>>

Submission(c) == (\E t \in Tasks : Push(c, t)) \/ NotifyOne(c)
WorkerLoop(w) == Wait(w) \/ SpuriousWakeup(w) \/ Exit(w) \/ Take(w) \/ Run(w)
Destruction == SetStopping \/ NotifyAll \/ JoinAll

Next ==
  \/ \E c \in Clients : Submission(c)
  \/ \E w \in Workers : WorkerLoop(w)
  \/ Destruction

\* A thread that can run does run; a task returns.  Nobody has to submit, to
\* destroy the pool, or to wake up spuriously.
Fairness ==
  /\ \A c \in Clients : WF_vars(NotifyOne(c))
  /\ \A w \in Workers : WF_vars(Wait(w) \/ Exit(w) \/ Take(w)) /\ WF_vars(Run(w))
  /\ WF_vars(NotifyAll) /\ WF_vars(JoinAll)

Spec == Init /\ [][Next]_vars /\ Fairness

-----------------------------------------------------------------------------
\* Properties

\* A worker sleeps only while every queued task has somebody on the way for it:
\* a client still to call notify_one, or a worker about to test the predicate.
\* This is what notify_one after the unlock (CThreadPool.h, Submit) must keep.
NoLostWakeup ==
  ~stopping /\ InState("waiting") # {} =>
    Len(queue) <= Cardinality(InState("test")) + Cardinality(Notifying)

\* When the destructor returns, no submitted task was dropped: workers leave the
\* loop only with stop set and the queue empty, and join waits for running ones.
DestroyedIsDrained ==
  owner = "destroyed" => queue = <<>> /\ \A t \in Tasks : future[t] # "pending"

\* Every submitted task is run, whatever the interleaving of pushes,
\* notifications and waits, also when the pool is destroyed meanwhile.
EverySubmittedTaskRuns ==
  \A t \in Tasks : future[t] = "pending" ~> future[t] \in Outcomes

\* The destructor returns: setting the flag under the mutex and notify_all reach
\* every sleeping worker.
DestructionEnds == owner = "notifying" ~> owner = "destroyed"

\* The pool keeps the promise of TaskQueue, fairness included: first in first
\* out, at most one worker per running task, futures set once.
Promise ==
  INSTANCE TaskQueue
    WITH running <- {task[w] : w \in InState("running")},
         WorkerCount <- Cardinality(Workers)

ImplementsTaskQueue == Promise!PoolSpec
=============================================================================
