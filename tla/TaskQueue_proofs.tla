--------------------------- MODULE TaskQueue_proofs ----------------------------
(***************************************************************************)
(* What every client of the pool may use: its steps keep the types of the  *)
(* queue, the running tasks and the futures, and a task that is in the     *)
(* queue or running is there once and has a future nobody has set.         *)
(***************************************************************************)
EXTENDS TaskQueue, SequenceTheorems, TLAPS

LEMMA PoolInitTypeOK == PoolInit => PoolTypeOK
BY EmptySeq DEF PoolInit, PoolTypeOK

LEMMA SubmitTypeOK ==
  ASSUME PoolTypeOK, NEW t \in Tasks, Submit(t)
  PROVE  PoolTypeOK'
BY DEF PoolTypeOK, Submit

LEMMA StartTypeOK ==
  ASSUME PoolTypeOK, Start
  PROVE  PoolTypeOK'
BY DEF PoolTypeOK, Start

LEMMA FinishTypeOK ==
  ASSUME PoolTypeOK, NEW t \in Tasks, NEW o \in Outcomes, Finish(t, o)
  PROVE  PoolTypeOK'
BY DEF PoolTypeOK, Finish

\* A pool nobody submits to changes in no way that matters.
LEMMA IdleTypeOK ==
  ASSUME PoolTypeOK, UNCHANGED poolVars
  PROVE  PoolTypeOK'
BY DEF PoolTypeOK, poolVars

-----------------------------------------------------------------------------
PoolCustody ==
  /\ \A t \in running : future[t] = "pending"
  /\ \A i \in 1 .. Len(queue) : future[queue[i]] = "pending" /\ queue[i] \notin running
  /\ \A i, j \in 1 .. Len(queue) : queue[i] = queue[j] => i = j

LEMMA PoolInitCustody == PoolInit => PoolCustody
BY DEF PoolInit, PoolCustody

LEMMA SubmitCustody ==
  ASSUME PoolTypeOK, PoolCustody, NEW t \in Tasks, Submit(t)
  PROVE  PoolCustody'
<1>1. queue \in Seq(Tasks) /\ future \in [Tasks -> {"none", "pending"} \cup Outcomes]
  BY DEF PoolTypeOK
<1>2. future[t] = "none" /\ queue' = Append(queue, t) /\ future' = [future EXCEPT ![t] = "pending"]
      /\ running' = running
  BY DEF Submit
<1>3. Len(queue') = Len(queue) + 1 /\ queue'[Len(queue) + 1] = t
      /\ \A i \in 1 .. Len(queue) : queue'[i] = queue[i] /\ queue[i] # t /\ queue[i] \in Tasks
  BY <1>1, <1>2 DEF PoolCustody
<1>4. \A s \in running : s # t
  BY <1>2 DEF PoolCustody
<1>5. QED
  BY <1>1, <1>2, <1>3, <1>4 DEF PoolCustody, PoolTypeOK

LEMMA StartCustody ==
  ASSUME PoolTypeOK, PoolCustody, Start
  PROVE  PoolCustody'
<1>1. queue \in Seq(Tasks) /\ queue # <<>>
  BY DEF PoolTypeOK, Start
<1>2. queue' = Tail(queue) /\ running' = running \cup {queue[1]} /\ future' = future
  BY <1>1 DEF Start
<1>3. Len(queue') = Len(queue) - 1 /\ \A i \in 1 .. Len(queue') : queue'[i] = queue[i + 1] /\ i + 1 \in 1 .. Len(queue)
  BY <1>1, <1>2
<1>4. 1 \in 1 .. Len(queue)
  BY <1>1
<1>5. QED
  BY <1>2, <1>3, <1>4 DEF PoolCustody

LEMMA FinishCustody ==
  ASSUME PoolTypeOK, PoolCustody, NEW t \in Tasks, NEW o \in Outcomes, Finish(t, o)
  PROVE  PoolCustody'
<1>1. queue \in Seq(Tasks) /\ future \in [Tasks -> {"none", "pending"} \cup Outcomes] /\ running \subseteq Tasks
  BY DEF PoolTypeOK
<1>2. t \in running /\ running' = running \ {t} /\ future' = [future EXCEPT ![t] = o] /\ queue' = queue
  BY DEF Finish
<1>3. \A i \in 1 .. Len(queue) : queue[i] # t /\ queue[i] \in Tasks
  BY <1>1, <1>2 DEF PoolCustody
<1>4. QED
  BY <1>1, <1>2, <1>3 DEF PoolCustody

LEMMA IdleCustody ==
  ASSUME PoolCustody, UNCHANGED poolVars
  PROVE  PoolCustody'
BY DEF PoolCustody, poolVars
=============================================================================
