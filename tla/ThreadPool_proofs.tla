--------------------------- MODULE ThreadPool_proofs ---------------------------
(***************************************************************************)
(* Proofs about ThreadPool, for any finite sets of workers and clients and *)
(* any set of tasks: no wakeup is lost, a destroyed pool is drained, and   *)
(* its steps are steps of TaskQueue.                                       *)
(***************************************************************************)
EXTENDS ThreadPool, FiniteSetTheorems, SequenceTheorems, TLAPS

\* The variables keep their types: each action writes values of them.
THEOREM TypeCorrect == Spec => []TypeOK
<1>1. Init => TypeOK
  BY EmptySeq DEF Init, TypeOK, WorkerStates
<1>2. TypeOK /\ [Next]_vars => TypeOK'
  <2> SUFFICES ASSUME TypeOK, [Next]_vars PROVE TypeOK'
    OBVIOUS
  <2> USE DEF TypeOK, WorkerStates, Outcomes
  <2>1. ASSUME NEW c \in Clients, NEW t \in Tasks, Push(c, t) PROVE TypeOK'
    BY <2>1 DEF Push
  <2>2. ASSUME NEW c \in Clients, NotifyOne(c) PROVE TypeOK'
    BY <2>2 DEF NotifyOne, InState
  <2>3. ASSUME NEW w \in Workers, Wait(w) PROVE TypeOK'
    BY <2>3 DEF Wait
  <2>4. ASSUME NEW w \in Workers, SpuriousWakeup(w) PROVE TypeOK'
    BY <2>4 DEF SpuriousWakeup
  <2>5. ASSUME NEW w \in Workers, Exit(w) PROVE TypeOK'
    BY <2>5 DEF Exit
  <2>6. ASSUME NEW w \in Workers, Take(w) PROVE TypeOK'
    BY <2>6 DEF Take
  <2>7. ASSUME NEW w \in Workers, Run(w) PROVE TypeOK'
    BY <2>7 DEF Run
  <2>8. CASE Destruction
    BY <2>8 DEF Destruction, SetStopping, NotifyAll, JoinAll
  <2>9. CASE UNCHANGED vars
    BY <2>9 DEF vars
  <2>10. QED
    BY <2>1, <2>2, <2>3, <2>4, <2>5, <2>6, <2>7, <2>8, <2>9
    DEF Next, Submission, WorkerLoop
<1>3. QED
  BY <1>1, <1>2, PTL DEF Spec

-----------------------------------------------------------------------------
\* Why the destructor drops nothing.

\* Nobody submits once the destructor has begun; workers leave an empty queue.
Shutdown ==
  /\ owner = "alive" <=> ~stopping
  /\ stopping => \A c \in Clients : client[c] = "idle"
  /\ \A w \in Workers : worker[w] = "exited" => stopping /\ queue = <<>>
  /\ owner = "destroyed" => \A w \in Workers : worker[w] = "exited"

\* A task whose future is pending is in exactly one place: once in the queue, or
\* with one worker that runs it.
Custody ==
  /\ \A w \in Workers : worker[w] = "running" => task[w] \in Tasks /\ future[task[w]] = "pending"
  /\ \A v, w \in InState("running") : task[v] = task[w] => v = w
  /\ \A i \in 1 .. Len(queue) : future[queue[i]] = "pending"
  /\ \A i, j \in 1 .. Len(queue) : queue[i] = queue[j] => i = j
  /\ \A i \in 1 .. Len(queue), w \in InState("running") : task[w] # queue[i]
  /\ \A t \in Tasks : future[t] = "pending" =>
       (\E i \in 1 .. Len(queue) : queue[i] = t) \/ (\E w \in InState("running") : task[w] = t)

\* Shutdown is an invariant: SetStopping waits for the clients, and Push needs a
\* pool that is alive.
LEMMA ShutdownInvariant == Spec => []Shutdown
<1>1. Init => Shutdown
  BY DEF Init, Shutdown
<1>2. TypeOK /\ Shutdown /\ [Next]_vars => Shutdown'
  <2> SUFFICES ASSUME TypeOK, Shutdown, [Next]_vars PROVE Shutdown'
    OBVIOUS
  <2> USE DEF Shutdown, TypeOK, WorkerStates
  <2>1. ASSUME NEW c \in Clients, NEW t \in Tasks, Push(c, t) PROVE Shutdown'
    BY <2>1 DEF Push
  <2>2. ASSUME NEW c \in Clients, NotifyOne(c) PROVE Shutdown'
    BY <2>2 DEF NotifyOne, InState
  <2>3. ASSUME NEW w \in Workers, Wait(w) PROVE Shutdown'
    BY <2>3 DEF Wait
  <2>4. ASSUME NEW w \in Workers, SpuriousWakeup(w) PROVE Shutdown'
    BY <2>4 DEF SpuriousWakeup
  <2>5. ASSUME NEW w \in Workers, Exit(w) PROVE Shutdown'
    BY <2>5 DEF Exit
  <2>6. ASSUME NEW w \in Workers, Take(w) PROVE Shutdown'
    BY <2>6 DEF Take
  <2>7. ASSUME NEW w \in Workers, Run(w) PROVE Shutdown'
    BY <2>7 DEF Run
  <2>8. CASE SetStopping
    BY <2>8 DEF SetStopping, Notifying
  <2>9. CASE NotifyAll
    BY <2>9 DEF NotifyAll
  <2>10. CASE JoinAll
    BY <2>10 DEF JoinAll, InState
  <2>11. CASE UNCHANGED vars
    BY <2>11 DEF vars
  <2>12. QED
    BY <2>1, <2>2, <2>3, <2>4, <2>5, <2>6, <2>7, <2>8, <2>9, <2>10, <2>11
    DEF Next, Submission, WorkerLoop, Destruction
<1>3. QED
  BY <1>1, <1>2, TypeCorrect, PTL DEF Spec

\* Custody is an invariant: a step moves at most one task, from its client to the
\* queue, from the queue to a worker, or from a worker to its future.
LEMMA CustodyInvariant == Spec => []Custody
<1>1. Init => Custody
  BY DEF Init, Custody, InState
<1>2. TypeOK /\ Custody /\ [Next]_vars => Custody'
  <2> SUFFICES ASSUME TypeOK, Custody, [Next]_vars PROVE Custody'
    OBVIOUS
  <2>1. ASSUME NEW c \in Clients, NEW t \in Tasks, Push(c, t) PROVE Custody'
    <3>1. /\ Len(queue') = Len(queue) + 1 /\ Len(queue) \in Nat
          /\ \A i \in 1 .. Len(queue) : queue'[i] = queue[i] /\ queue[i] \in Tasks
          /\ queue'[Len(queue) + 1] = t
      BY <2>1 DEF Push, TypeOK
    <3>2. UNCHANGED <<worker, task>> /\ future[t] = "none"
          /\ future' = [future EXCEPT ![t] = "pending"]
      BY <2>1 DEF Push
    <3>3. \A i \in 1 .. Len(queue) : queue[i] # t
      BY <3>1, <3>2 DEF Custody
    <3>4. \A w \in InState("running") : task[w] # t
      BY <3>2 DEF Custody, InState
    <3>5. (\A w \in Workers : worker[w] = "running" => task[w] \in Tasks /\ future[task[w]] = "pending")'
      BY <3>2, <3>4 DEF Custody, TypeOK, InState
    <3>6. (\A v, w \in InState("running") : task[v] = task[w] => v = w)'
      BY <3>2 DEF Custody, InState
    <3>7. (\A i \in 1 .. Len(queue) : future[queue[i]] = "pending")'
      BY <3>1, <3>2, <3>3 DEF Custody, TypeOK
    <3>8. (\A i, j \in 1 .. Len(queue) : queue[i] = queue[j] => i = j)'
      BY <3>1, <3>3 DEF Custody
    <3>9. (\A i \in 1 .. Len(queue), w \in InState("running") : task[w] # queue[i])'
      BY <3>1, <3>2, <3>4 DEF Custody, InState
    <3>10. (\A u \in Tasks : future[u] = "pending" =>
              (\E i \in 1 .. Len(queue) : queue[i] = u) \/ (\E w \in InState("running") : task[w] = u))'
      BY <3>1, <3>2 DEF Custody, TypeOK, InState
    <3>11. QED
      BY <3>5, <3>6, <3>7, <3>8, <3>9, <3>10 DEF Custody
  <2>2. ASSUME NEW c \in Clients, NotifyOne(c) PROVE Custody'
    BY <2>2 DEF NotifyOne, InState, Custody, TypeOK
  <2>3. ASSUME NEW w \in Workers, Wait(w) PROVE Custody'
    BY <2>3 DEF Wait, InState, Custody, TypeOK
  <2>4. ASSUME NEW w \in Workers, SpuriousWakeup(w) PROVE Custody'
    BY <2>4 DEF SpuriousWakeup, InState, Custody, TypeOK
  <2>5. ASSUME NEW w \in Workers, Exit(w) PROVE Custody'
    BY <2>5 DEF Exit, InState, Custody, TypeOK
  <2>6. ASSUME NEW w \in Workers, Take(w) PROVE Custody'
    <3>1. /\ Len(queue) \in Nat \ {0} /\ Len(queue') = Len(queue) - 1
          /\ Head(queue) = queue[1] /\ queue[1] \in Tasks
          /\ \A i \in 1 .. Len(queue') : queue'[i] = queue[i + 1]
      BY <2>6, HeadTailProperties DEF Take, TypeOK
    <3>2. /\ worker[w] = "test" /\ worker' = [worker EXCEPT ![w] = "running"]
          /\ task' = [task EXCEPT ![w] = queue[1]] /\ UNCHANGED future
      BY <2>6, <3>1 DEF Take
    <3>3. \A v \in InState("running")' : v = w \/ (v \in InState("running") /\ task'[v] = task[v])
      BY <3>2 DEF InState, TypeOK
    <3>4. task'[w] = queue[1] /\ w \in InState("running")'
      BY <3>2 DEF InState, TypeOK
    <3>5. \A v \in InState("running") : v # w /\ v \in InState("running")' /\ task'[v] = task[v]
      BY <3>2 DEF InState, TypeOK
    <3>6. (\A v \in Workers : worker[v] = "running" => task[v] \in Tasks /\ future[task[v]] = "pending")'
      BY <3>1, <3>2, <3>3, <3>4 DEF Custody, InState
    <3>7. (\A u, v \in InState("running") : task[u] = task[v] => u = v)'
      BY <3>1, <3>3, <3>4 DEF Custody
    <3>8. (\A i \in 1 .. Len(queue) : future[queue[i]] = "pending")'
      BY <3>1, <3>2 DEF Custody
    <3>9. (\A i, j \in 1 .. Len(queue) : queue[i] = queue[j] => i = j)'
      BY <3>1 DEF Custody
    <3>10. (\A i \in 1 .. Len(queue), v \in InState("running") : task[v] # queue[i])'
      BY <3>1, <3>3, <3>4 DEF Custody
    <3>11. (\A u \in Tasks : future[u] = "pending" =>
              (\E i \in 1 .. Len(queue) : queue[i] = u) \/ (\E v \in InState("running") : task[v] = u))'
      <4> SUFFICES ASSUME NEW u \in Tasks, future[u] = "pending"
                   PROVE (\E i \in 1 .. Len(queue') : queue'[i] = u)
                           \/ (\E v \in InState("running")' : task'[v] = u)
        BY <3>2
      <4>1. CASE \E v \in InState("running") : task[v] = u
        BY <4>1, <3>5
      <4>2. CASE \E i \in 1 .. Len(queue) : queue[i] = u
        <5>1. PICK i \in 1 .. Len(queue) : queue[i] = u
          BY <4>2
        <5>2. CASE i = 1
          BY <5>1, <5>2, <3>4
        <5>3. CASE i # 1
          <6>1. i - 1 \in 1 .. Len(queue') /\ queue'[i - 1] = queue[(i - 1) + 1]
            BY <5>3, <3>1
          <6>2. QED
            BY <5>1, <6>1
        <5>4. QED
          BY <5>2, <5>3
      <4>3. QED
        BY <4>1, <4>2 DEF Custody
    <3>12. QED
      BY <3>6, <3>7, <3>8, <3>9, <3>10, <3>11 DEF Custody
  <2>7. ASSUME NEW w \in Workers, Run(w) PROVE Custody'
    <3>1. /\ worker[w] = "running" /\ worker' = [worker EXCEPT ![w] = "test"]
          /\ task' = [task EXCEPT ![w] = NoTask] /\ UNCHANGED queue
      BY <2>7 DEF Run
    <3>2. PICK o \in Outcomes : future' = [future EXCEPT ![task[w]] = o]
      BY <2>7 DEF Run
    <3>3. o # "pending"
      BY DEF Outcomes
    <3>4. InState("running")' = InState("running") \ {w}
      BY <3>1 DEF InState, TypeOK
    <3>5. \A v \in InState("running")' : v \in InState("running") /\ v # w /\ task'[v] = task[v]
      BY <3>1, <3>4 DEF TypeOK, InState
    <3>6. \A v \in InState("running")' : task[v] # task[w]
      BY <3>1, <3>5 DEF Custody, InState
    <3>7. \A i \in 1 .. Len(queue) : queue[i] # task[w]
      BY <3>1 DEF Custody, InState
    <3>8. (\A v \in Workers : worker[v] = "running" => task[v] \in Tasks /\ future[task[v]] = "pending")'
      BY <3>2, <3>5, <3>6 DEF Custody, InState, TypeOK
    <3>9. (\A u, v \in InState("running") : task[u] = task[v] => u = v)'
      BY <3>5 DEF Custody
    <3>10. (\A i \in 1 .. Len(queue) : future[queue[i]] = "pending")'
      BY <3>1, <3>2, <3>7 DEF Custody, TypeOK
    <3>11. (\A i, j \in 1 .. Len(queue) : queue[i] = queue[j] => i = j)'
      BY <3>1 DEF Custody
    <3>12. (\A i \in 1 .. Len(queue), v \in InState("running") : task[v] # queue[i])'
      BY <3>1, <3>5 DEF Custody
    <3>13. (\A u \in Tasks : future[u] = "pending" =>
              (\E i \in 1 .. Len(queue) : queue[i] = u) \/ (\E v \in InState("running") : task[v] = u))'
      BY <3>1, <3>2, <3>3, <3>4, <3>5 DEF Custody, TypeOK
    <3>14. QED
      BY <3>8, <3>9, <3>10, <3>11, <3>12, <3>13 DEF Custody
  <2>8. CASE Destruction
    BY <2>8 DEF Destruction, SetStopping, NotifyAll, JoinAll, InState, Custody, TypeOK
  <2>9. CASE UNCHANGED vars
    BY <2>9 DEF vars, InState, Custody
  <2>10. QED
    BY <2>1, <2>2, <2>3, <2>4, <2>5, <2>6, <2>7, <2>8, <2>9
    DEF Next, Submission, WorkerLoop
<1>3. QED
  BY <1>1, <1>2, TypeCorrect, PTL DEF Spec

\* A destroyed pool has run every task it was given: every worker has exited,
\* none of them with anything left in the queue.
THEOREM DestroyedPoolIsDrained == Spec => []DestroyedIsDrained
<1>1. TypeOK /\ Shutdown /\ Custody => DestroyedIsDrained
  <2> SUFFICES ASSUME TypeOK, Shutdown, Custody, owner = "destroyed"
               PROVE queue = <<>> /\ \A t \in Tasks : future[t] # "pending"
    BY DEF DestroyedIsDrained
  <2>1. PICK w \in Workers : worker[w] = "exited"
    BY ThreadPoolAssumption DEF Shutdown
  <2>2. queue = <<>>
    BY <2>1 DEF Shutdown
  <2>3. InState("running") = {}
    BY DEF Shutdown, InState
  <2>4. QED
    BY <2>2, <2>3 DEF Custody
<1>2. QED
  BY <1>1, TypeCorrect, ShutdownInvariant, CustodyInvariant, PTL

-----------------------------------------------------------------------------
\* Why no wakeup is lost.

\* The sets that are counted are finite.
LEMMA Countable ==
  /\ \A s : IsFiniteSet(InState(s)) /\ Cardinality(InState(s)) \in Nat
  /\ IsFiniteSet(Notifying) /\ Cardinality(Notifying) \in Nat
<1>1. ASSUME NEW s PROVE IsFiniteSet(InState(s)) /\ Cardinality(InState(s)) \in Nat
  <2>1. InState(s) \in SUBSET Workers
    BY DEF InState
  <2>2. QED
    BY <2>1, FS_Subset, FS_CardinalityType, ThreadPoolAssumption
<1>2. IsFiniteSet(Notifying) /\ Cardinality(Notifying) \in Nat
  <2>1. Notifying \in SUBSET Clients
    BY DEF Notifying
  <2>2. QED
    BY <2>1, FS_Subset, FS_CardinalityType, ThreadPoolAssumption
<1>3. QED
  BY <1>1, <1>2

\* A worker that goes from one state to another leaves the one set for the other.
LEMMA MoveWorker ==
  ASSUME worker \in [Workers -> WorkerStates],
         NEW w \in Workers, NEW from, NEW to, from # to,
         worker[w] = from, worker' = [worker EXCEPT ![w] = to]
  PROVE  /\ InState(from)' = InState(from) \ {w} /\ w \in InState(from)
         /\ InState(to)' = InState(to) \cup {w} /\ w \notin InState(to)
         /\ Cardinality(InState(from)') = Cardinality(InState(from)) - 1
         /\ Cardinality(InState(to)') = Cardinality(InState(to)) + 1
         /\ \A s : s # from /\ s # to => InState(s)' = InState(s)
<1>1. InState(from)' = InState(from) \ {w} /\ w \in InState(from)
  BY DEF InState
<1>2. InState(to)' = InState(to) \cup {w} /\ w \notin InState(to)
  BY DEF InState
<1>3. \A s : s # from /\ s # to => InState(s)' = InState(s)
  BY DEF InState
<1>4. Cardinality(InState(from)') = Cardinality(InState(from)) - 1
  BY <1>1, FS_RemoveElement, Countable
<1>5. Cardinality(InState(to)') = Cardinality(InState(to)) + 1
  BY <1>2, FS_AddElement, Countable
<1>6. QED
  BY <1>1, <1>2, <1>3, <1>4, <1>5

\* A worker sleeps only while every queued task has somebody on the way for it.
\* The invariant is inductive: it counts, per task in the queue, a client that
\* still has to notify or a worker that still has to test the predicate.
THEOREM NoWakeupIsLost == Spec => []NoLostWakeup
<1>1. Init => NoLostWakeup
  <2> SUFFICES ASSUME Init PROVE Len(queue) <= Cardinality(InState("test")) + Cardinality(Notifying)
    BY DEF NoLostWakeup
  <2>1. Len(queue) = 0
    BY EmptySeq DEF Init
  <2>2. QED
    BY <2>1, Countable
<1>2. TypeOK /\ NoLostWakeup /\ [Next]_vars => NoLostWakeup'
  <2> SUFFICES ASSUME TypeOK, NoLostWakeup, [Next]_vars PROVE NoLostWakeup'
    OBVIOUS
  <2> DEFINE Waiting == InState("waiting")
             Testing == Cardinality(InState("test"))
             Calling == Cardinality(Notifying)
  <2>0. /\ Len(queue) \in Nat /\ Testing \in Nat /\ Calling \in Nat
        /\ worker \in [Workers -> WorkerStates]
    BY Countable DEF TypeOK
  <2>1. ASSUME NEW c \in Clients, NEW t \in Tasks, Push(c, t) PROVE NoLostWakeup'
    <3>1. Len(queue') = Len(queue) + 1 /\ UNCHANGED <<worker, stopping>>
      BY <2>1 DEF Push, TypeOK
    <3>2. Notifying' = Notifying \cup {c} /\ c \notin Notifying
      BY <2>1 DEF Push, Notifying, TypeOK
    <3>3. Calling' = Calling + 1
      BY <3>2, FS_AddElement, Countable
    <3>4. Waiting' = Waiting /\ Testing' = Testing
      BY <3>1 DEF InState
    <3>5. QED
      BY <2>0, <3>1, <3>3, <3>4 DEF NoLostWakeup
  <2>2. ASSUME NEW c \in Clients, NotifyOne(c) PROVE NoLostWakeup'
    <3>1. Notifying' = Notifying \ {c} /\ c \in Notifying
      BY <2>2 DEF NotifyOne, Notifying, TypeOK
    <3>2. Calling' = Calling - 1
      BY <3>1, FS_RemoveElement, Countable
    <3>3. CASE \E w \in Waiting : worker' = [worker EXCEPT ![w] = "test"]
      <4>1. PICK w \in Waiting : worker' = [worker EXCEPT ![w] = "test"]
        BY <3>3
      <4>2. w \in Workers /\ worker[w] = "waiting"
        BY DEF InState
      <4>3. Testing' = Testing + 1
        BY <2>0, <4>1, <4>2, MoveWorker
      <4>4. UNCHANGED <<queue, stopping>> /\ Waiting # {}
        BY <2>2, <4>1 DEF NotifyOne
      <4>5. QED
        BY <2>0, <3>2, <4>3, <4>4 DEF NoLostWakeup
    <3>4. CASE Waiting = {} /\ UNCHANGED worker
      BY <3>4 DEF NoLostWakeup, InState
    <3>5. QED
      BY <2>2, <3>3, <3>4 DEF NotifyOne
  <2>3. ASSUME NEW w \in Workers, Wait(w) PROVE NoLostWakeup'
    <3>1. Len(queue') = 0
      BY <2>3, EmptySeq DEF Wait
    <3>2. Cardinality(InState("test")') \in Nat /\ Calling' = Calling
      <4>1. InState("test")' \in SUBSET Workers /\ UNCHANGED client
        BY <2>3 DEF InState, Wait
      <4>2. QED
        BY <4>1, FS_Subset, FS_CardinalityType, ThreadPoolAssumption DEF Notifying
    <3>3. QED
      BY <2>0, <3>1, <3>2 DEF NoLostWakeup
  <2>4. ASSUME NEW w \in Workers, SpuriousWakeup(w) PROVE NoLostWakeup'
    <3>1. /\ worker[w] = "waiting" /\ worker' = [worker EXCEPT ![w] = "test"]
          /\ UNCHANGED <<queue, stopping, client>>
      BY <2>4 DEF SpuriousWakeup
    <3>2. Testing' = Testing + 1 /\ Waiting # {}
      BY <2>0, <3>1, MoveWorker
    <3>3. Calling' = Calling
      BY <3>1 DEF Notifying
    <3>4. QED
      BY <2>0, <3>1, <3>2, <3>3 DEF NoLostWakeup
  <2>5. ASSUME NEW w \in Workers, Exit(w) PROVE NoLostWakeup'
    BY <2>5 DEF Exit, NoLostWakeup
  <2>6. ASSUME NEW w \in Workers, Take(w) PROVE NoLostWakeup'
    <3>1. /\ worker[w] = "test" /\ worker' = [worker EXCEPT ![w] = "running"]
          /\ UNCHANGED <<stopping, client>>
      BY <2>6 DEF Take
    <3>2. Testing' = Testing - 1
      BY <2>0, <3>1, MoveWorker
    <3>3. Waiting' = Waiting /\ Calling' = Calling
      BY <2>0, <3>1 DEF InState, Notifying
    <3>4. Len(queue') = Len(queue) - 1
      BY <2>6 DEF Take, TypeOK
    <3>5. QED
      BY <2>0, <3>1, <3>2, <3>3, <3>4 DEF NoLostWakeup
  <2>7. ASSUME NEW w \in Workers, Run(w) PROVE NoLostWakeup'
    <3>1. /\ worker[w] = "running" /\ worker' = [worker EXCEPT ![w] = "test"]
          /\ UNCHANGED <<queue, stopping, client>>
      BY <2>7 DEF Run
    <3>2. Testing' = Testing + 1
      BY <2>0, <3>1, MoveWorker
    <3>3. Waiting' = Waiting /\ Calling' = Calling
      BY <2>0, <3>1 DEF InState, Notifying
    <3>4. QED
      BY <2>0, <3>1, <3>2, <3>3 DEF NoLostWakeup
  <2>8. CASE SetStopping
    BY <2>8 DEF SetStopping, NoLostWakeup
  <2>9. CASE NotifyAll
    <3>1. InState("waiting")' = {}
      BY <2>9 DEF NotifyAll, InState, TypeOK
    <3>2. QED
      BY <3>1 DEF NoLostWakeup
  <2>10. CASE JoinAll
    BY <2>10 DEF JoinAll, NoLostWakeup, InState, Notifying
  <2>11. CASE UNCHANGED vars
    BY <2>11 DEF vars, NoLostWakeup, InState, Notifying
  <2>12. QED
    BY <2>1, <2>2, <2>3, <2>4, <2>5, <2>6, <2>7, <2>8, <2>9, <2>10, <2>11
    DEF Next, Submission, WorkerLoop, Destruction
<1>3. QED
  BY <1>1, <1>2, TypeCorrect, PTL DEF Spec

-----------------------------------------------------------------------------
\* The pool implements TaskQueue.

Executed == {task[w] : w \in InState("running")}

\* While a worker tests the predicate, fewer tasks run than there are workers.
LEMMA TestingWorkerIsFree ==
  ASSUME NEW w \in Workers, worker[w] = "test"
  PROVE  Cardinality(Executed) < Cardinality(Workers)
<1> DEFINE f == [v \in InState("running") |-> task[v]]
<1>1. f \in Surjection(InState("running"), Executed)
  BY DEF Surjection, Executed
<1>2. IsFiniteSet(Executed) /\ Cardinality(Executed) <= Cardinality(InState("running"))
  BY <1>1, Countable, FS_Surjection
<1>3. Cardinality(InState("running")) <= Cardinality(Workers \ {w})
  <2>1. InState("running") \in SUBSET (Workers \ {w})
    BY DEF InState
  <2>2. QED
    BY <2>1, FS_Subset, FS_RemoveElement, ThreadPoolAssumption
<1>4. Cardinality(Workers \ {w}) = Cardinality(Workers) - 1
  BY FS_RemoveElement, ThreadPoolAssumption
<1>5. /\ Cardinality(Executed) \in Nat /\ Cardinality(Workers) \in Nat
      /\ Cardinality(InState("running")) \in Nat
  BY <1>2, Countable, FS_CardinalityType, ThreadPoolAssumption
<1>6. QED
  BY <1>2, <1>3, <1>4, <1>5

\* Every behaviour of the pool is one of the abstract pool: Push submits, Take
\* starts the oldest task on a free worker, Run finishes it, and the rest of what
\* threads do is invisible.
THEOREM RefinesTaskQueue == Spec => Promise!PoolSafety
<1>1. Init => Promise!PoolInit
  BY DEF Init, Promise!PoolInit, InState
<1>2. TypeOK /\ Custody /\ [Next]_vars => [Promise!PoolNext]_(Promise!poolVars)
  <2> SUFFICES ASSUME TypeOK, Custody, [Next]_vars
               PROVE Promise!PoolNext \/ UNCHANGED <<queue, Executed, future>>
    BY DEF Promise!poolVars, Executed
  <2>1. ASSUME NEW c \in Clients, NEW t \in Tasks, Push(c, t) PROVE Promise!Submit(t)
    BY <2>1 DEF Push, Promise!Submit, InState
  <2>2. ASSUME NEW w \in Workers, Take(w) PROVE Promise!Start
    <3>1. worker[w] = "test" /\ queue # <<>>
      BY <2>2 DEF Take
    <3>2. Executed' = Executed \cup {Head(queue)}
      BY <2>2 DEF Take, Executed, InState, TypeOK
    <3>3. Promise!FreeWorker
      <4>1. Cardinality(Executed) < Cardinality(Workers)
        BY <3>1, TestingWorkerIsFree
      <4>2. QED
        BY <4>1, Zenon DEF Promise!FreeWorker, Executed, Promise!Cardinality, Cardinality
    <3>4. QED
      BY <2>2, <3>1, <3>2, <3>3 DEF Promise!Start, Take, Executed
  <2>3. ASSUME NEW w \in Workers, Run(w)
        PROVE \E t \in Tasks, o \in Outcomes : Promise!Finish(t, o)
    <3>1. PICK o \in Outcomes : future' = [future EXCEPT ![task[w]] = o]
      BY <2>3 DEF Run
    <3>2. w \in InState("running") /\ task[w] \in Tasks
      BY <2>3 DEF Run, InState, Custody
    <3>3. Executed' = Executed \ {task[w]}
      BY <2>3, <3>2 DEF Run, Executed, InState, TypeOK, Custody
    <3>4. Promise!Finish(task[w], o)
      BY <2>3, <3>1, <3>2, <3>3 DEF Run, Promise!Finish, Executed
    <3>5. QED
      BY <3>1, <3>2, <3>4
  <2>4. ASSUME NEW w \in Workers, Wait(w) \/ SpuriousWakeup(w) \/ Exit(w)
        PROVE UNCHANGED <<queue, Executed, future>>
    BY <2>4 DEF Wait, SpuriousWakeup, Exit, Executed, InState, TypeOK
  <2>5. ASSUME NEW c \in Clients, NotifyOne(c) PROVE UNCHANGED <<queue, Executed, future>>
    BY <2>5 DEF NotifyOne, Executed, InState, TypeOK
  <2>6. CASE Destruction
    BY <2>6 DEF Destruction, SetStopping, NotifyAll, JoinAll, Executed, InState, TypeOK
  <2>7. CASE UNCHANGED vars
    BY <2>7 DEF vars, Executed, InState
  <2>8. QED
    BY <2>1, <2>2, <2>3, <2>4, <2>5, <2>6, <2>7
    DEF Next, Submission, WorkerLoop, Promise!PoolNext
<1>3. QED
  BY <1>1, <1>2, TypeCorrect, CustodyInvariant, PTL DEF Spec, Promise!PoolSafety

=============================================================================
