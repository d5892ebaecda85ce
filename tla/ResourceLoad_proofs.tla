-------------------------- MODULE ResourceLoad_proofs --------------------------
(***************************************************************************)
(* Proofs about ResourceLoad, for any number of files and any list of      *)
(* default write folders: how many workers the nested submissions of       *)
(* CResourceLoader need, that phases with deferred errors collect what     *)
(* they submitted, which error Load throws, and what it registers.         *)
(***************************************************************************)
EXTENDS ResourceLoad, TaskQueue_proofs, FiniteSetTheorems

\* One more element makes a finite set larger by one at most.
LEMMA OneMore ==
  ASSUME NEW A, IsFiniteSet(A), NEW x
  PROVE  /\ IsFiniteSet(A \cup {x})
         /\ Cardinality(A) \in Nat /\ Cardinality(A \cup {x}) \in Nat
         /\ Cardinality(A \cup {x}) <= Cardinality(A) + 1
<1>1. Cardinality(A) \in Nat
  BY FS_CardinalityType
<1>2. IsFiniteSet(A \cup {x}) /\ Cardinality(A \cup {x}) \in {Cardinality(A), Cardinality(A) + 1}
  <2>1. CASE x \in A
    BY <2>1, A \cup {x} = A
  <2>2. CASE x \notin A
    BY <2>2, FS_AddElement
  <2>3. QED
    BY <2>1, <2>2
<1>3. QED
  BY <1>1, <1>2

\* At most three tasks of the pool are phases.
LEMMA ThreePhases ==
  ASSUME NEW S, S \subseteq {PhaseTask(p) : p \in PhaseSet}
  PROVE  IsFiniteSet(S) /\ Cardinality(S) <= 3
<1> DEFINE A == {PhaseTask(Ucs)}
           B == A \cup {PhaseTask(Folders)}
           C == B \cup {PhaseTask(Archives)}
<1>1. S \subseteq C
  <2>1. \A p \in PhaseSet : PhaseTask(p) \in C
    BY DEF PhaseSet
  <2>2. QED
    BY <2>1
<1>2. IsFiniteSet(A) /\ Cardinality(A) <= 1
  <2>1. IsFiniteSet(A) /\ Cardinality(A) = 1
    BY FS_Singleton, Zenon
  <2>2. QED
    BY <2>1
<1> HIDE DEF A
<1>3. IsFiniteSet(B) /\ Cardinality(B) <= 2
  <2>1. IsFiniteSet(B) /\ Cardinality(B) <= Cardinality(A) + 1 /\ Cardinality(B) \in Nat
    BY <1>2, OneMore
  <2>2. Cardinality(A) \in Nat
    BY <1>2, FS_CardinalityType
  <2>3. QED
    BY <1>2, <2>1, <2>2
<1> HIDE DEF B
<1>4. IsFiniteSet(C) /\ Cardinality(C) <= 3
  <2>1. IsFiniteSet(C) /\ Cardinality(C) <= Cardinality(B) + 1 /\ Cardinality(C) \in Nat
    BY <1>3, OneMore
  <2>2. Cardinality(B) \in Nat
    BY <1>3, FS_CardinalityType
  <2>3. QED
    BY <1>3, <2>1, <2>2
<1> HIDE DEF C
<1>5. IsFiniteSet(S) /\ Cardinality(S) <= Cardinality(C)
  BY <1>1, <1>4, FS_Subset
<1>6. Cardinality(S) \in Nat /\ Cardinality(C) \in Nat
  BY <1>4, <1>5, FS_CardinalityType
<1>7. QED
  BY <1>4, <1>5, <1>6

\* With four workers or more, one is always left for the files: the three phases
\* of Load never hold all of them.  (With three or fewer, they can.)
THEOREM FourWorkersSuffice ==
  ASSUME WorkerCount >= 4
  PROVE  Spec => []NoStarvation
<1>1. NoStarvation
  <2> SUFFICES ASSUME ~FreeWorker,
                      \A t \in running : \E p \in PhaseSet : t = PhaseTask(p)
               PROVE FALSE
    BY DEF NoStarvation
  <2>1. running \subseteq {PhaseTask(p) : p \in PhaseSet}
    OBVIOUS
  <2>2. Cardinality(running) <= 3 /\ Cardinality(running) \in Nat
    BY <2>1, ThreePhases, FS_CardinalityType
  <2>3. QED
    BY <2>2, PoolAssumption DEF FreeWorker
<1>2. QED
  BY <1>1, PTL

-----------------------------------------------------------------------------
\* Type correctness needs to know where the loops of a phase stand.
LoopOK ==
  /\ loader = "begin" => \A p \in PhaseSet : phase[p] = "off"
  /\ \A p \in PhaseSet :
       /\ phase[p] \in {"off", "list"} => next[p] = 1
       /\ phase[p] \in {"submit", "collect"} => next[p] <= items[p]

TypeInv == TypeOK /\ LoopOK

LEMMA TaskTypes ==
  /\ \A p \in PhaseSet : PhaseTask(p) \in Tasks
  /\ \A p \in PhaseSet, i \in Items : Item(p, i) \in Tasks
  /\ "ok" \in Outcomes /\ "error" \in Outcomes
  /\ \A p \in PhaseSet : OutcomesOf(p) \subseteq Outcomes
BY LoadAssumption DEF PhaseTask, Item, Items, PhaseSet, OutcomesOf

LEMMA PhaseNames ==
  /\ Ucs \in PhaseSet /\ Folders \in PhaseSet /\ Archives \in PhaseSet
  /\ Ucs # Folders /\ Ucs # Archives /\ Folders # Archives
BY DEF PhaseSet, Ucs, Folders, Archives

\* The types of what a phase keeps for itself.
PhaseVarsOK ==
  /\ phase \in [PhaseSet -> {"off", "list", "submit", "collect", "return", "done"}]
  /\ items \in [PhaseSet -> 0 .. MaxItems]
  /\ next \in [PhaseSet -> 1 .. MaxItems + 1]
  /\ refused \in SUBSET (0 .. MaxItems)
  /\ firstError \in [PhaseSet -> 0 .. NoError]
  /\ registered \in [PhaseSet -> Seq(Items)]

LEMMA TypeInvInit == Init => TypeInv
<1> SUFFICES ASSUME Init PROVE TypeInv
  OBVIOUS
<1>1. PoolTypeOK
  BY PoolInitTypeOK DEF Init
<1>2. PhaseVarsOK /\ LoopOK
  BY LoadAssumption DEF Init, PhaseVarsOK, LoopOK, Each, NoError
<1>3. QED
  BY <1>1, <1>2 DEF TypeInv, TypeOK, Init, PhaseVarsOK

LEMMA PhaseStepTypes ==
  ASSUME TypeInv, NEW p \in PhaseSet, PhaseStep(p)
  PROVE  TypeInv'
<1>0. /\ PoolTypeOK /\ PhaseVarsOK /\ LoopOK /\ MaxItems \in Nat \ {0}
      /\ next[p] \in 1 .. MaxItems + 1 /\ items[p] \in 0 .. MaxItems
  BY LoadAssumption DEF TypeInv, TypeOK, PhaseVarsOK
<1>1. UNCHANGED <<active, loader, result>>
  BY DEF PhaseStep, List, SubmitItem, CollectUcs, CollectFolder, CollectArchive, ReturnFromPhase
<1>2. SUFFICES PoolTypeOK' /\ PhaseVarsOK' /\ LoopOK'
  BY <1>1 DEF TypeInv, TypeOK, PhaseVarsOK
<1>3. loader # "begin" \/ phase[p] = "off"
  BY <1>0 DEF LoopOK
<1>4. CASE List(p)
  <2>1. PoolTypeOK'
    BY <1>0, <1>4, IdleTypeOK DEF List
  <2>2. PhaseVarsOK'
    <3>1. phase' \in [PhaseSet -> {"off", "list", "submit", "collect", "return", "done"}]
      BY <1>0, <1>4 DEF List, PhaseVarsOK
    <3>2. items' \in [PhaseSet -> 0 .. MaxItems]
      BY <1>0, <1>4 DEF List, PhaseVarsOK
    <3>3. 0 \in 0 .. MaxItems /\ 0 \in 0 .. NoError
      BY <1>0 DEF NoError
    <3>4. refused' \in SUBSET (0 .. MaxItems) /\ firstError' \in [PhaseSet -> 0 .. NoError]
      BY <1>0, <1>4, <3>3 DEF List, PhaseVarsOK
    <3>5. UNCHANGED <<next, registered>>
      BY <1>4 DEF List
    <3>6. QED
      BY <1>0, <3>1, <3>2, <3>4, <3>5 DEF PhaseVarsOK
  <2>3. LoopOK'
    BY <1>0, <1>1, <1>3, <1>4 DEF List, PhaseVarsOK, LoopOK
  <2>4. QED
    BY <2>1, <2>2, <2>3
<1>5. CASE SubmitItem(p)
  <2>1. next[p] \in Items /\ next[p] <= items[p]
    BY <1>0, <1>5 DEF SubmitItem, LoopOK, Items
  <2>2. PoolTypeOK'
    BY <1>0, <1>5, <2>1, SubmitTypeOK, TaskTypes DEF SubmitItem
  <2>3. PhaseVarsOK'
    <3>1. /\ next \in [PhaseSet -> 1 .. MaxItems + 1]
          /\ next[p] + 1 \in 1 .. MaxItems + 1 /\ 1 \in 1 .. MaxItems + 1
      BY <1>0, <2>1 DEF PhaseVarsOK, Items
    <3>2. next' \in [PhaseSet -> 1 .. MaxItems + 1]
      BY <3>1, <1>5 DEF SubmitItem
    <3>3. phase' \in [PhaseSet -> {"off", "list", "submit", "collect", "return", "done"}]
      BY <1>0, <1>5 DEF SubmitItem, PhaseVarsOK
    <3>4. UNCHANGED <<items, refused, firstError, registered>>
      BY <1>5 DEF SubmitItem
    <3>5. QED
      BY <1>0, <3>2, <3>3, <3>4 DEF PhaseVarsOK
  <2>4. LoopOK'
    BY <1>0, <1>1, <1>3, <1>5, <2>1 DEF SubmitItem, PhaseVarsOK, LoopOK, Items
  <2>5. QED
    BY <2>2, <2>3, <2>4
<1>6. ASSUME phase[p] = "collect", UNCHANGED <<poolVars, items>>,
             /\ \/ Advance(p)
                \/ next' = next /\ phase' = [phase EXCEPT ![p] = "return"]
             /\ NoteError(p) \/ UNCHANGED firstError
             /\ Register(p) \/ UNCHANGED registered
             /\ refused' \in {refused, refused \cup {next[p]}}
      PROVE  PoolTypeOK' /\ PhaseVarsOK' /\ LoopOK'
  <2>1. next[p] \in Items /\ next[p] <= items[p]
    BY <1>0, <1>6 DEF LoopOK, Items
  <2>2. PoolTypeOK'
    BY <1>0, <1>6, IdleTypeOK
  <2>3. refused' \in SUBSET (0 .. MaxItems) /\ items' \in [PhaseSet -> 0 .. MaxItems]
    BY <1>0, <1>6, <2>1 DEF PhaseVarsOK, Items
  <2>4. phase' \in [PhaseSet -> {"off", "list", "submit", "collect", "return", "done"}]
    BY <1>0, <1>6 DEF PhaseVarsOK, Advance
  <2>5. next' \in [PhaseSet -> 1 .. MaxItems + 1]
    <3>1. next \in [PhaseSet -> 1 .. MaxItems + 1] /\ next[p] + 1 \in 1 .. MaxItems + 1
      BY <1>0, <2>1 DEF PhaseVarsOK, Items
    <3>2. CASE Advance(p)
      BY <3>1, <3>2 DEF Advance
    <3>3. CASE next' = next
      BY <3>1, <3>3
    <3>4. QED
      BY <1>6, <3>2, <3>3
  <2>6. firstError' \in [PhaseSet -> 0 .. NoError]
    <3>1. /\ firstError \in [PhaseSet -> 0 .. NoError]
          /\ next[p] \in 0 .. NoError
      BY <1>0, <2>1 DEF PhaseVarsOK, Items, NoError
    <3>2. CASE NoteError(p)
      BY <3>1, <3>2 DEF NoteError
    <3>3. CASE UNCHANGED firstError
      BY <3>1, <3>3
    <3>4. QED
      BY <1>6, <3>2, <3>3
  <2>7. registered' \in [PhaseSet -> Seq(Items)]
    <3>1. /\ registered \in [PhaseSet -> Seq(Items)]
          /\ Append(registered[p], next[p]) \in Seq(Items)
      BY <1>0, <2>1 DEF PhaseVarsOK
    <3>2. CASE Register(p)
      BY <3>1, <3>2 DEF Register
    <3>3. CASE UNCHANGED registered
      BY <3>1, <3>3
    <3>4. QED
      BY <1>6, <3>2, <3>3
  <2>8. LoopOK'
    BY <1>0, <1>1, <1>3, <1>6, <2>1 DEF PhaseVarsOK, LoopOK, Advance
  <2>9. QED
    BY <2>2, <2>3, <2>4, <2>5, <2>6, <2>7, <2>8 DEF PhaseVarsOK
<1>7. CASE p = Ucs /\ CollectUcs
  BY <1>6, <1>7 DEF CollectUcs, Collecting
<1>8. CASE p = Folders /\ CollectFolder
  BY <1>6, <1>8 DEF CollectFolder, Collecting
<1>9. CASE p = Archives /\ CollectArchive
  BY <1>6, <1>9 DEF CollectArchive, Collecting
<1>10. CASE ReturnFromPhase(p)
  <2>1. PoolTypeOK'
    BY <1>0, <1>10, FinishTypeOK, IdleTypeOK, TaskTypes DEF ReturnFromPhase
  <2>2. PhaseVarsOK' /\ LoopOK'
    BY <1>0, <1>1, <1>3, <1>10 DEF ReturnFromPhase, PhaseVarsOK, LoopOK
  <2>3. QED
    BY <2>1, <2>2
<1>11. QED
  BY <1>4, <1>5, <1>7, <1>8, <1>9, <1>10 DEF PhaseStep

LEMMA LoaderStepTypes ==
  ASSUME TypeInv, LoaderStep
  PROVE  TypeInv'
<1>0. PoolTypeOK /\ PhaseVarsOK /\ LoopOK /\ MaxItems \in Nat \ {0}
  BY LoadAssumption DEF TypeInv, TypeOK, PhaseVarsOK
<1>1. CASE Begin
  <2>1. PoolTypeOK'
    BY <1>0, <1>1, IdleTypeOK DEF Begin
  <2>2. PhaseVarsOK' /\ LoopOK'
    BY <1>0, <1>1 DEF Begin, PhaseVarsOK, LoopOK
  <2>3. QED
    BY <1>1, <2>1, <2>2 DEF Begin, TypeInv, TypeOK, PhaseVarsOK
<1>2. CASE Launch
  <2>1. PICK i \in DOMAIN Phases : Phases[i] \in active \ Launched /\ Submit(PhaseTask(Phases[i]))
    BY <1>2 DEF Launch
  <2>2. PoolTypeOK'
    <3>1. Phases[i] \in PhaseSet
      BY LoadAssumption DEF PhaseSet
    <3>2. PhaseTask(Phases[i]) \in Tasks
      BY <3>1, TaskTypes
    <3>3. QED
      BY <1>0, <2>1, <3>2, SubmitTypeOK
  <2>3. UNCHANGED <<active, phase, items, next, refused, firstError, registered, result>>
        /\ loader = "launch" /\ loader' \in {"launch", "wait"}
    BY <1>2 DEF Launch
  <2>4. LoopOK'
    BY <1>0, <2>3 DEF LoopOK
  <2>5. QED
    BY <2>2, <2>3, <2>4 DEF TypeInv, TypeOK
<1>3. CASE Throw
  <2>1. PICK i \in DOMAIN Phases : result' = <<Phases[i], firstError[Phases[i]]>>
    BY <1>3 DEF Throw
  <2>2. Phases[i] \in PhaseSet
    BY LoadAssumption DEF PhaseSet
  <2>3. PoolTypeOK'
    BY <1>0, <1>3, IdleTypeOK DEF Throw
  <2>4. result' \in PhaseSet \X (0 .. NoError)
    BY <1>0, <2>1, <2>2 DEF PhaseVarsOK
  <2>5. QED
    BY <1>3, <2>3, <2>4 DEF Throw, TypeInv, TypeOK, LoopOK
<1>4. CASE NextModule
  <2>1. PoolTypeOK'
    BY <1>0, <1>4 DEF NextModule, PoolTypeOK
  <2>2. PhaseVarsOK' /\ LoopOK'
    BY <1>0, <1>4 DEF NextModule, PhaseVarsOK, LoopOK, Each, NoError
  <2>3. QED
    BY <1>4, <2>1, <2>2 DEF NextModule, TypeInv, TypeOK, PhaseVarsOK
<1>5. CASE LaterStageThrows \/ Return
  <2>1. PoolTypeOK'
    BY <1>0, <1>5, IdleTypeOK DEF LaterStageThrows, Return
  <2>2. QED
    BY <1>5, <2>1 DEF LaterStageThrows, Return, TypeInv, TypeOK, LoopOK
<1>6. QED
  BY <1>1, <1>2, <1>3, <1>4, <1>5 DEF LoaderStep

LEMMA TypeInvNext == TypeInv /\ [Next]_vars => TypeInv'
<1> SUFFICES ASSUME TypeInv, [Next]_vars PROVE TypeInv'
  OBVIOUS
<1>1. ASSUME PoolTypeOK', UNCHANGED loadVars PROVE TypeInv'
  BY <1>1 DEF TypeInv, TypeOK, LoopOK, loadVars
<1>2. CASE Worker
  BY <1>1, <1>2, StartTypeOK DEF Worker, TypeInv, TypeOK
<1>3. ASSUME NEW p \in PhaseSet, NEW i \in Items, FinishItem(p, i) PROVE TypeInv'
  BY <1>1, <1>3, FinishTypeOK, TaskTypes DEF FinishItem, TypeInv, TypeOK
<1>4. CASE UNCHANGED vars
  BY <1>1, <1>4, IdleTypeOK DEF vars, TypeInv, TypeOK
<1>5. QED
  BY <1>2, <1>3, <1>4, LoaderStepTypes, PhaseStepTypes DEF Next

LEMMA TypeInvariant == Spec => []TypeInv
BY TypeInvInit, TypeInvNext, PTL DEF Spec

\* The load is type correct, for any number of files and workers; in particular the
\* loops over the futures stay within what was submitted.
THEOREM TypeCorrect == Spec => []TypeOK
<1>1. TypeInv => TypeOK
  BY DEF TypeInv
<1>2. QED
  BY <1>1, TypeInvariant, PTL

-----------------------------------------------------------------------------
(***************************************************************************)
(* The errors of a load.  While a phase collects, the items before next    *)
(* are ready, and firstError is the least of the errors among them; the    *)
(* errors of items still to come, and those of abandoned ones, have larger *)
(* numbers.                                                                *)
(***************************************************************************)
TasksInv(p) ==
  /\ phase[p] \in {"off", "list"} => items[p] = 0
  /\ \A i \in Items : future[Item(p, i)] # "none" =>
       /\ phase[p] \notin {"off", "list"} /\ i <= items[p]
       /\ phase[p] = "submit" => i < next[p]
  /\ phase[p] \in {"collect", "return", "done"} =>
       \A i \in Items : i < next[p] => Ready(Item(p, i))
  /\ phase[p] \in {"return", "done"} /\ (p = Folders => firstError[p] = NoError) =>
       next[p] = items[p] + 1
  /\ p = Ucs => \A i \in Items : future[Item(p, i)] # "missing"

ErrorsInv(p) ==
  /\ phase[p] \in {"off", "list", "submit"} =>
       firstError[p] = NoError /\ (p = Archives => refused = {})
  /\ p = Archives => \A i \in refused : i < next[p]
  /\ p = Folders /\ phase[p] = "collect" => firstError[p] = NoError
  /\ firstError[p] # NoError =>
       /\ firstError[p] \in Errors(p) /\ firstError[p] <= next[p]
       /\ \A j \in Errors(p) : firstError[p] <= j
  /\ firstError[p] = NoError /\ phase[p] \in {"collect", "return", "done"} =>
       \A j \in Errors(p) : j >= next[p]

\* What Load throws, once it has returned.
ResultOK ==
  \/ (\A p \in active : ~Failed(p)) /\ result[1] \notin PhaseSet
  \/ \E i \in DOMAIN Phases :
       /\ Failed(Phases[i]) /\ \A j \in 1 .. i - 1 : ~Failed(Phases[j])
       /\ result = <<Phases[i], firstError[Phases[i]]>>

ControlInv ==
  /\ loader = "begin" => active = {}
  /\ loader = "launch" => Concurrent
  /\ \A p \in PhaseSet : phase[p] = "off" <=> p \notin active
  /\ \A p \in PhaseSet : future[PhaseTask(p)] # "none" => p \in active /\ Concurrent
  /\ \A p \in PhaseSet : Ready(PhaseTask(p)) => phase[p] = "done"
  /\ loader # "returned" => result = NoResult
  /\ loader = "returned" => ResultOK /\ \A p \in active : phase[p] = "done"

LoadInv ==
  /\ TypeInv /\ PoolCustody /\ ControlInv
  /\ \A p \in PhaseSet : TasksInv(p) /\ ErrorsInv(p)

LEMMA TaskShapes ==
  /\ \A p, q \in PhaseSet, i, j \in Items : Item(p, i) = Item(q, j) => p = q /\ i = j
  /\ \A p, q \in PhaseSet, i \in Items : PhaseTask(q) # Item(p, i)
  /\ \A p, q \in PhaseSet : PhaseTask(p) = PhaseTask(q) => p = q
  /\ Items \subseteq Nat /\ NoError \in Nat /\ MaxItems \in Nat /\ NoError \notin 0 .. MaxItems
  /\ "none" \notin Outcomes /\ "pending" \notin Outcomes
BY LoadAssumption, PoolAssumption DEF Item, PhaseTask, Items, NoError

\* What the invariant says of a phase depends on that phase's own state only.
LEMMA PhaseFrame ==
  ASSUME NEW p \in PhaseSet, TasksInv(p), ErrorsInv(p),
         phase'[p] = phase[p], items'[p] = items[p], next'[p] = next[p],
         firstError'[p] = firstError[p], p = Archives => refused' = refused,
         \A i \in Items : future'[Item(p, i)] = future[Item(p, i)],
         TypeInv
  PROVE  TasksInv(p)' /\ ErrorsInv(p)'
<1>1. TasksInv(p)'
  BY DEF TasksInv, Ready
<1>2. Errors(p)' = Errors(p)
  <2>1. 1 .. items[p] \subseteq Items
    BY LoadAssumption DEF TypeInv, TypeOK, Items
  <2>2. QED
    BY <2>1 DEF Errors
<1>3. ErrorsInv(p)'
  BY <1>2 DEF ErrorsInv
<1>4. QED
  BY <1>1, <1>3

\* A phase that executes is active, and Load has not returned.
LEMMA ExecutingPhase ==
  ASSUME LoadInv, NEW p \in PhaseSet, Executing(p), phase[p] # "done"
  PROVE  p \in active /\ loader \in {"launch", "wait"}
<1>1. p \in active
  <2>1. CASE Concurrent
    <3>1. future[PhaseTask(p)] = "pending"
      BY <2>1 DEF Executing, LoadInv, PoolCustody
    <3>2. QED
      BY <3>1 DEF LoadInv, ControlInv
  <2>2. CASE ~Concurrent
    BY <2>2 DEF Executing
  <2>3. QED
    BY <2>1, <2>2
<1>2. QED
  BY <1>1 DEF LoadInv, ControlInv, TypeInv, TypeOK

\* A step that leaves the phase tasks and what Load does alone.
LEMMA ControlFrame ==
  ASSUME LoadInv, NEW p \in PhaseSet, p \in active, loader \in {"launch", "wait"},
         UNCHANGED <<active, loader, result>>,
         \A q \in PhaseSet : future'[PhaseTask(q)] = future[PhaseTask(q)],
         phase[p] # "done", phase'[p] # "off",
         \A q \in PhaseSet : q # p => phase'[q] = phase[q]
  PROVE  ControlInv'
<1>1. Concurrent' = Concurrent
  BY DEF Concurrent
<1>2. \A q \in PhaseSet : Ready(PhaseTask(q))' = Ready(PhaseTask(q))
  BY DEF Ready
<1>3. QED
  BY <1>1, <1>2 DEF LoadInv, ControlInv

LEMMA ListErrors ==
  ASSUME LoadInv, NEW p \in PhaseSet, List(p)
  PROVE  LoadInv'
<1>1. phase[p] = "list" /\ p \in active /\ loader \in {"launch", "wait"} /\ UNCHANGED poolVars
  BY ExecutingPhase DEF List
<1>2. TypeInv'
  BY PhaseStepTypes DEF LoadInv, PhaseStep
<1>3. PoolCustody'
  BY <1>1, IdleCustody DEF LoadInv
<1>4. ASSUME NEW q \in PhaseSet, q # p PROVE TasksInv(q)' /\ ErrorsInv(q)'
  <2>1. /\ phase'[q] = phase[q] /\ items'[q] = items[q] /\ next'[q] = next[q]
        /\ firstError'[q] = firstError[q] /\ (q = Archives => refused' = refused)
        /\ \A i \in Items : future'[Item(q, i)] = future[Item(q, i)]
    BY <1>1, <1>4 DEF List, LoadInv, TypeInv, TypeOK, poolVars
  <2>2. QED
    BY <2>1, PhaseFrame DEF LoadInv
<1>5. UNCHANGED <<active, loader, result>> /\ phase'[p] # "off" /\ next' = next
      /\ \A q \in PhaseSet : q # p => phase'[q] = phase[q]
  BY DEF List, LoadInv, TypeInv, TypeOK
<1>6. ControlInv'
  BY <1>1, <1>5, ControlFrame DEF poolVars
<1>7. /\ next[p] = 1 /\ items[p] = 0 /\ firstError[p] = NoError
      /\ p = Archives => refused = {}
      /\ \A i \in Items : future[Item(p, i)] = "none"
      /\ next \in [PhaseSet -> 1 .. MaxItems + 1] /\ items \in [PhaseSet -> 0 .. MaxItems]
      /\ firstError \in [PhaseSet -> 0 .. NoError]
  BY <1>1 DEF LoadInv, TasksInv, ErrorsInv, TypeInv, TypeOK, LoopOK
<1>8. ASSUME NEW n \in 0 .. MaxItems, items' = [items EXCEPT ![p] = n],
             phase' = [phase EXCEPT ![p] = IF n = 0 THEN "return" ELSE "submit"],
             UNCHANGED <<refused, firstError>>
      PROVE  TasksInv(p)' /\ ErrorsInv(p)'
  <2>1. /\ items'[p] = n /\ next'[p] = 1 /\ firstError'[p] = NoError
        /\ phase'[p] = IF n = 0 THEN "return" ELSE "submit"
        /\ future' = future
    BY <1>1, <1>5, <1>7, <1>8 DEF LoadInv, TypeInv, TypeOK, poolVars
  <2>2. TasksInv(p)'
    BY <1>7, <2>1, TaskShapes DEF TasksInv, Items
  <2>3. phase'[p] = "return" => Errors(p)' = {}
    BY <1>7, <1>8, <2>1 DEF Errors
  <2>4. ErrorsInv(p)'
    BY <1>7, <1>8, <2>1, <2>3 DEF ErrorsInv
  <2>5. QED
    BY <2>2, <2>4
<1>9. ASSUME p = Archives, refused' = {0}, firstError' = [firstError EXCEPT ![p] = 0],
             phase' = [phase EXCEPT ![p] = "return"], UNCHANGED items
      PROVE  TasksInv(p)' /\ ErrorsInv(p)'
  <2>1. /\ items'[p] = 0 /\ next'[p] = 1 /\ firstError'[p] = 0 /\ phase'[p] = "return"
        /\ future' = future
    BY <1>1, <1>5, <1>7, <1>9 DEF LoadInv, TypeInv, TypeOK, poolVars
  <2>2. TasksInv(p)'
    BY <1>7, <1>9, <2>1, TaskShapes, PhaseNames DEF TasksInv, Items
  <2>3. Errors(p)' = {0}
    BY <1>7, <1>9, <2>1 DEF Errors
  <2>4. ErrorsInv(p)'
    <3>1. firstError'[p] # NoError /\ firstError'[p] <= next'[p] /\ p # Folders
      BY <1>9, <2>1, TaskShapes, PhaseNames
    <3>2. (\A i \in refused' : i < next'[p]) /\ firstError'[p] \in Errors(p)'
          /\ \A j \in Errors(p)' : firstError'[p] <= j
      BY <1>9, <2>1, <2>3
    <3>3. QED
      BY <2>1, <3>1, <3>2 DEF ErrorsInv
  <2>5. QED
    BY <2>2, <2>4
<1>10. TasksInv(p)' /\ ErrorsInv(p)'
  BY <1>8, <1>9 DEF List
<1>11. QED
  BY <1>2, <1>3, <1>4, <1>6, <1>10 DEF LoadInv

LEMMA SubmitErrors ==
  ASSUME LoadInv, NEW p \in PhaseSet, SubmitItem(p)
  PROVE  LoadInv'
<1>1. phase[p] = "submit" /\ p \in active /\ loader \in {"launch", "wait"}
  BY ExecutingPhase DEF SubmitItem
<1>2. TypeInv'
  BY PhaseStepTypes DEF LoadInv, PhaseStep
<1>3. /\ next[p] \in Items /\ next[p] <= items[p] /\ items[p] \in 0 .. MaxItems
      /\ next \in [PhaseSet -> 1 .. MaxItems + 1]
      /\ phase \in [PhaseSet -> {"off", "list", "submit", "collect", "return", "done"}]
      /\ future \in [Tasks -> {"none", "pending"} \cup Outcomes] /\ Item(p, next[p]) \in Tasks
  BY <1>1, LoadAssumption, TaskTypes DEF LoadInv, TypeInv, TypeOK, LoopOK, Items, PoolTypeOK
<1>4. PoolCustody'
  BY <1>3, SubmitCustody DEF SubmitItem, LoadInv, TypeInv, TypeOK
<1>5. /\ UNCHANGED <<active, loader, items, refused, firstError, result>>
      /\ future' = [future EXCEPT ![Item(p, next[p])] = "pending"]
      /\ phase'[p] \in {"submit", "collect"}
      /\ phase'[p] = "submit" => next'[p] = next[p] + 1
      /\ phase'[p] = "collect" => next'[p] = 1
      /\ \A q \in PhaseSet : q # p => phase'[q] = phase[q] /\ next'[q] = next[q]
  BY <1>1, <1>3 DEF SubmitItem, Submit
<1>6. /\ \A q \in PhaseSet : future'[PhaseTask(q)] = future[PhaseTask(q)]
      /\ \A q \in PhaseSet, i \in Items :
           (q # p \/ i # next[p]) => future'[Item(q, i)] = future[Item(q, i)]
      /\ future'[Item(p, next[p])] = "pending"
  BY <1>3, <1>5, TaskShapes, TaskTypes
<1>7. ControlInv'
  BY <1>1, <1>5, <1>6, ControlFrame
<1>8. ASSUME NEW q \in PhaseSet, q # p PROVE TasksInv(q)' /\ ErrorsInv(q)'
  BY <1>5, <1>6, <1>8, PhaseFrame DEF LoadInv
<1>9. TasksInv(p)'
  <2>1. \A i \in Items : future'[Item(p, i)] # "none" =>
          i <= items[p] /\ (phase'[p] = "submit" => i < next'[p])
    BY <1>1, <1>3, <1>5, <1>6, TaskShapes DEF LoadInv, TasksInv
  <2>2. p = Ucs => \A i \in Items : future'[Item(p, i)] # "missing"
    BY <1>6 DEF LoadInv, TasksInv
  <2>3. phase'[p] = "collect" => \A i \in Items : ~(i < next'[p])
    BY <1>5 DEF Items
  <2>4. QED
    BY <1>5, <2>1, <2>2, <2>3 DEF TasksInv
<1>10. ErrorsInv(p)'
  <2>1. firstError'[p] = NoError /\ (p = Archives => refused' = {})
    BY <1>1, <1>5 DEF LoadInv, ErrorsInv
  <2>2. phase'[p] = "collect" => \A j \in Errors(p)' : j >= next'[p]
    <3>1. Errors(p)' \subseteq Items
      <4>1. 1 .. items'[p] \subseteq Items
        BY <1>3, <1>5, LoadAssumption DEF Items
      <4>2. CASE p = Archives
        BY <2>1, <4>1, <4>2 DEF Errors
      <4>3. CASE p # Archives
        BY <4>1, <4>3 DEF Errors
      <4>4. QED
        BY <4>2, <4>3
    <3>2. QED
      BY <1>5, <3>1 DEF Items
  <2>3. QED
    BY <1>5, <2>1, <2>2 DEF ErrorsInv
<1>11. QED
  BY <1>2, <1>4, <1>7, <1>8, <1>9, <1>10 DEF LoadInv

\* future.get() returned, and the loop goes on, or for a folder that cannot be
\* scanned leaves.
LEMMA CollectErrors ==
  ASSUME LoadInv, NEW p \in PhaseSet, PhaseStep(p), Collecting(p),
         UNCHANGED <<poolVars, active, loader, items, result>>,
         \A i \in refused' : i \in refused \/ i = next[p],
         refused \subseteq refused',
         p # Archives => refused' = refused,
         \/ /\ Advance(p) /\ UNCHANGED <<refused, firstError>>
            /\ Outcome(p) # "error"
         \/ /\ Advance(p) /\ NoteError(p) /\ p # Folders
            /\ Outcome(p) = "error" \/ (p = Archives /\ next[p] \in refused')
         \/ /\ p = Folders /\ NoteError(p) /\ UNCHANGED next
            /\ phase' = [phase EXCEPT ![p] = "return"] /\ Outcome(p) = "error"
  PROVE  LoadInv'
<1>1. phase[p] = "collect" /\ p \in active /\ loader \in {"launch", "wait"} /\ future' = future
      /\ Ready(Item(p, next[p]))
  BY ExecutingPhase DEF Collecting, poolVars
<1>2. TypeInv'
  BY PhaseStepTypes DEF LoadInv
<1>3. /\ next[p] \in Items /\ next[p] <= items[p] /\ items[p] \in 0 .. MaxItems
      /\ next \in [PhaseSet -> 1 .. MaxItems + 1] /\ firstError \in [PhaseSet -> 0 .. NoError]
      /\ phase \in [PhaseSet -> {"off", "list", "submit", "collect", "return", "done"}]
      /\ refused \subseteq Nat
  BY <1>1, LoadAssumption DEF LoadInv, TypeInv, TypeOK, LoopOK, Items
<1>4. PoolCustody'
  BY IdleCustody DEF LoadInv
<1>5. /\ \A q \in PhaseSet : q # p =>
           /\ phase'[q] = phase[q] /\ next'[q] = next[q] /\ firstError'[q] = firstError[q]
      /\ phase'[p] \in {"collect", "return"}
  BY <1>1, <1>3 DEF Advance, NoteError
<1>6. ControlInv'
  BY <1>1, <1>5, ControlFrame
<1>7. ASSUME NEW q \in PhaseSet, q # p PROVE TasksInv(q)' /\ ErrorsInv(q)'
  <2>1. q = Archives => refused' = refused
    BY <1>7
  <2>2. QED
    BY <1>1, <1>5, <1>7, <2>1, PhaseFrame DEF LoadInv
<1>8. /\ TasksInv(p) /\ ErrorsInv(p)
      /\ \A i \in refused : p = Archives => i < next[p]
      /\ firstError[p] # NoError => firstError[p] \in Errors(p) /\ firstError[p] <= next[p]
      /\ \A j \in Errors(p) : IF firstError[p] = NoError THEN j >= next[p] ELSE firstError[p] <= j
      /\ p = Folders => firstError[p] = NoError
  BY <1>1 DEF LoadInv, ErrorsInv
<1>9. /\ Errors(p) \subseteq Nat
      /\ Errors(p)' \subseteq Errors(p) \cup {next[p]}
      /\ Errors(p) \subseteq Errors(p)'
      /\ Outcome(p) = "error" => next[p] \in Errors(p)'
      /\ p = Archives /\ next[p] \in refused' => next[p] \in Errors(p)'
      /\ Outcome(p) # "error" /\ refused' = refused => next[p] \notin Errors(p)'
  <2>1. items' = items /\ next[p] \in 1 .. items[p] /\ 1 .. items[p] \subseteq Nat
    BY <1>3 DEF Items
  <2>2. p = Archives => next[p] \notin refused
    BY <1>3, <1>8 DEF Items
  <2>3. CASE p = Archives
    BY <1>1, <1>3, <2>1, <2>2, <2>3 DEF Errors, Outcome
  <2>4. CASE p # Archives
    BY <1>1, <2>1, <2>4 DEF Errors, Outcome
  <2>5. QED
    BY <2>3, <2>4
<1>10. CASE Advance(p) /\ UNCHANGED <<refused, firstError>> /\ Outcome(p) # "error"
  <2>1. /\ next'[p] = next[p] + 1 /\ phase'[p] = IF next[p] = items[p] THEN "return" ELSE "collect"
        /\ items' = items /\ firstError' = firstError /\ Errors(p)' = Errors(p)
    BY <1>1, <1>3, <1>9, <1>10 DEF Advance
  <2>2. TasksInv(p)'
    BY <1>1, <1>3, <1>8, <2>1 DEF TasksInv, Ready, Items
  <2>3. \A j \in Errors(p)' : IF firstError'[p] = NoError THEN j >= next'[p] ELSE firstError'[p] <= j
    BY <1>3, <1>8, <1>9, <1>10, <2>1 DEF Items
  <2>4. firstError'[p] # NoError => firstError'[p] \in Errors(p)' /\ firstError'[p] <= next'[p]
    BY <1>3, <1>8, <2>1 DEF Items, NoError
  <2>5. \A i \in refused' : p = Archives => i < next'[p]
    BY <1>3, <1>8, <1>10, <2>1 DEF Items
  <2>6. ErrorsInv(p)'
    BY <1>8, <2>1, <2>3, <2>4, <2>5 DEF ErrorsInv
  <2>7. QED
    BY <1>2, <1>4, <1>6, <1>7, <2>2, <2>6 DEF LoadInv
<1>11. CASE /\ Advance(p) /\ NoteError(p) /\ p # Folders
            /\ Outcome(p) = "error" \/ (p = Archives /\ next[p] \in refused')
  <2>1. /\ next'[p] = next[p] + 1 /\ phase'[p] = IF next[p] = items[p] THEN "return" ELSE "collect"
        /\ items' = items
        /\ firstError'[p] = IF firstError[p] = NoError THEN next[p] ELSE firstError[p]
        /\ next[p] \in Errors(p)' /\ firstError'[p] # NoError
    BY <1>1, <1>3, <1>9, <1>11, TaskShapes DEF Advance, NoteError, Items
  <2>2. TasksInv(p)'
    BY <1>1, <1>3, <1>8, <1>11, <2>1 DEF TasksInv, Ready, Items
  <2>3. \A j \in Errors(p)' : firstError'[p] <= j
    BY <1>3, <1>8, <1>9, <2>1 DEF Items
  <2>4. firstError'[p] \in Errors(p)' /\ firstError'[p] <= next'[p]
    BY <1>3, <1>8, <1>9, <2>1 DEF Items, NoError
  <2>5. \A i \in refused' : p = Archives => i < next'[p]
    BY <1>3, <1>8, <2>1 DEF Items
  <2>6. ErrorsInv(p)'
    BY <1>11, <2>1, <2>3, <2>4, <2>5 DEF ErrorsInv
  <2>7. QED
    BY <1>2, <1>4, <1>6, <1>7, <2>2, <2>6 DEF LoadInv
<1>12. CASE /\ p = Folders /\ NoteError(p) /\ UNCHANGED next
            /\ phase' = [phase EXCEPT ![p] = "return"] /\ Outcome(p) = "error"
  <2>1. /\ next'[p] = next[p] /\ phase'[p] = "return" /\ items' = items
        /\ firstError'[p] = next[p] /\ next[p] \in Errors(p)' /\ firstError'[p] # NoError
        /\ p # Archives /\ p # Ucs
    BY <1>3, <1>8, <1>9, <1>12, TaskShapes, PhaseNames DEF NoteError, Items
  <2>2. TasksInv(p)'
    BY <1>1, <1>8, <1>12, <2>1 DEF TasksInv, Ready
  <2>3. \A j \in Errors(p)' : firstError'[p] <= j
    BY <1>3, <1>8, <1>9, <1>12, <2>1 DEF Items
  <2>4. firstError'[p] <= next'[p]
    BY <1>3, <2>1 DEF Items
  <2>5. ErrorsInv(p)'
    BY <2>1, <2>3, <2>4 DEF ErrorsInv
  <2>6. QED
    BY <1>2, <1>4, <1>6, <1>7, <2>2, <2>5 DEF LoadInv
<1>13. QED
  BY <1>10, <1>11, <1>12

LEMMA ReturnErrors ==
  ASSUME LoadInv, NEW p \in PhaseSet, ReturnFromPhase(p)
  PROVE  LoadInv'
<1>1. phase[p] = "return" /\ p \in active /\ loader \in {"launch", "wait"}
  BY ExecutingPhase DEF ReturnFromPhase
<1>2. TypeInv'
  BY PhaseStepTypes DEF LoadInv, PhaseStep
<1>3. PoolCustody'
  BY TaskTypes, FinishCustody, IdleCustody DEF ReturnFromPhase, LoadInv, TypeInv, TypeOK
<1>4. /\ UNCHANGED <<active, loader, items, next, refused, firstError, result>>
      /\ phase' = [phase EXCEPT ![p] = "done"] /\ phase'[p] = "done"
      /\ \A q \in PhaseSet : q # p => phase'[q] = phase[q]
  BY <1>1 DEF ReturnFromPhase, LoadInv, TypeInv, TypeOK
<1>5. /\ \A q \in PhaseSet : future'[PhaseTask(q)] # future[PhaseTask(q)] => q = p /\ Concurrent
      /\ \A q \in PhaseSet, i \in Items : future'[Item(q, i)] = future[Item(q, i)]
  <2>1. CASE Concurrent
    <3>1. PICK o : future' = [future EXCEPT ![PhaseTask(p)] = o]
      BY <2>1 DEF ReturnFromPhase, Finish
    <3>2. future \in [Tasks -> {"none", "pending"} \cup Outcomes]
      BY DEF LoadInv, TypeInv, TypeOK, PoolTypeOK
    <3>3. \A t \in Tasks : t # PhaseTask(p) => future'[t] = future[t]
      BY <3>1, <3>2
    <3>4. QED
      BY <2>1, <3>3, TaskTypes, TaskShapes
  <2>2. CASE ~Concurrent
    BY <2>2 DEF ReturnFromPhase, poolVars
  <2>3. QED
    BY <2>1, <2>2
<1>6. ControlInv'
  <2>1. Concurrent' = Concurrent
    BY <1>4 DEF Concurrent
  <2>2. \A q \in PhaseSet : future'[PhaseTask(q)] # "none" => q \in active /\ Concurrent
    BY <1>1, <1>5 DEF LoadInv, ControlInv
  <2>3. \A q \in PhaseSet : Ready(PhaseTask(q))' => phase'[q] = "done"
    BY <1>4, <1>5 DEF LoadInv, ControlInv, Ready
  <2>4. \A q \in PhaseSet : phase'[q] = "off" <=> q \notin active
    BY <1>1, <1>4 DEF LoadInv, ControlInv
  <2>5. QED
    BY <1>1, <1>4, <2>1, <2>2, <2>3, <2>4 DEF LoadInv, ControlInv
<1>7. ASSUME NEW q \in PhaseSet, q # p PROVE TasksInv(q)' /\ ErrorsInv(q)'
  BY <1>4, <1>5, <1>7, PhaseFrame DEF LoadInv
<1>8. TasksInv(p)'
  BY <1>1, <1>4, <1>5 DEF LoadInv, TasksInv, Ready
<1>9. ErrorsInv(p)'
  <2>1. Errors(p)' = Errors(p)
    <3>1. 1 .. items[p] \subseteq Items
      BY LoadAssumption DEF LoadInv, TypeInv, TypeOK, Items
    <3>2. QED
      BY <1>4, <1>5, <3>1 DEF Errors
  <2>2. QED
    BY <1>1, <1>4, <2>1 DEF LoadInv, ErrorsInv
<1>10. QED
  BY <1>2, <1>3, <1>6, <1>7, <1>8, <1>9 DEF LoadInv

\* An item that fails concerns a phase only through its number.
LEMMA LaterError ==
  ASSUME NEW p \in PhaseSet, ErrorsInv(p), phase[p] \notin {"off", "list"},
         phase'[p] = phase[p], next'[p] = next[p], firstError'[p] = firstError[p],
         refused' = refused, Errors(p) \subseteq Errors(p)',
         firstError[p] = NoError /\ phase[p] # "submit" => \A j \in Errors(p)' : j >= next[p],
         firstError[p] # NoError => \A j \in Errors(p)' : firstError[p] <= j
  PROVE  ErrorsInv(p)'
<1>1. ErrorsInv(p)' <=>
        /\ phase'[p] \in {"off", "list", "submit"} =>
             firstError'[p] = NoError /\ (p = Archives => refused' = {})
        /\ p = Archives => \A i \in refused' : i < next'[p]
        /\ p = Folders /\ phase'[p] = "collect" => firstError'[p] = NoError
        /\ firstError'[p] # NoError =>
             /\ firstError'[p] \in Errors(p)' /\ firstError'[p] <= next'[p]
             /\ \A j \in Errors(p)' : firstError'[p] <= j
        /\ firstError'[p] = NoError /\ phase'[p] \in {"collect", "return", "done"} =>
             \A j \in Errors(p)' : j >= next'[p]
  BY DEF ErrorsInv
<1>2. QED
  BY <1>1 DEF ErrorsInv

\* Workers do nothing to the phases but make their items ready.
LEMMA WorkerErrors ==
  ASSUME LoadInv, [Next]_vars, UNCHANGED loadVars, PoolCustody',
         \/ UNCHANGED future
         \/ \E p \in PhaseSet, i \in Items, o \in Outcomes :
              /\ Item(p, i) \in running /\ (p = Ucs => o # "missing")
              /\ future' = [future EXCEPT ![Item(p, i)] = o]
  PROVE  LoadInv'
<1>1. TypeInv'
  BY TypeInvNext DEF LoadInv
<1>2. UNCHANGED <<active, loader, phase, items, next, refused, firstError, result>>
  BY DEF loadVars
<1>3. \A q \in PhaseSet : future'[PhaseTask(q)] = future[PhaseTask(q)]
  BY TaskTypes, TaskShapes DEF LoadInv, TypeInv, TypeOK, PoolTypeOK
<1>4. ControlInv'
  <2>1. Concurrent' = Concurrent /\ \A q \in PhaseSet : Ready(PhaseTask(q))' = Ready(PhaseTask(q))
    BY <1>2, <1>3 DEF Concurrent, Ready
  <2>2. ResultOK' = ResultOK
    BY <1>2 DEF ResultOK, Failed
  <2>3. QED
    BY <1>2, <1>3, <2>1, <2>2 DEF LoadInv, ControlInv
<1>5. ASSUME NEW q \in PhaseSet, \A i \in Items : future'[Item(q, i)] = future[Item(q, i)]
      PROVE  TasksInv(q)' /\ ErrorsInv(q)'
  BY <1>2, <1>5, PhaseFrame DEF LoadInv
<1>6. ASSUME NEW p \in PhaseSet, NEW i \in Items, NEW o \in Outcomes,
             Item(p, i) \in running, p = Ucs => o # "missing",
             future' = [future EXCEPT ![Item(p, i)] = o]
      PROVE  TasksInv(p)' /\ ErrorsInv(p)'
  <2>1. /\ future'[Item(p, i)] = o
        /\ \A j \in Items : j # i => future'[Item(p, j)] = future[Item(p, j)]
    BY <1>6, TaskTypes, TaskShapes DEF LoadInv, TypeInv, TypeOK, PoolTypeOK
  <2>2. /\ future[Item(p, i)] = "pending" /\ phase[p] \notin {"off", "list"}
        /\ i <= items[p] /\ (phase[p] = "submit" => i < next[p])
        /\ phase[p] \in {"collect", "return", "done"} => ~(i < next[p])
    BY <1>6, TaskShapes DEF LoadInv, PoolCustody, TasksInv, Ready
  <2>3. TasksInv(p)'
    BY <1>2, <1>6, <2>1, <2>2 DEF LoadInv, TasksInv, Ready
  <2>4. /\ Errors(p) \subseteq Errors(p)' /\ Errors(p)' \subseteq Errors(p) \cup {i}
        /\ next[p] \in Nat /\ i \in Nat /\ firstError[p] \in Nat
    <3>1. items' = items /\ refused' = refused /\ 1 .. items[p] \subseteq Items
      BY <1>2, LoadAssumption DEF LoadInv, TypeInv, TypeOK, Items
    <3>2. next[p] \in Nat /\ i \in Nat /\ firstError[p] \in Nat
      BY TaskShapes DEF LoadInv, TypeInv, TypeOK
    <3>3. Errors(p) \subseteq Errors(p)' /\ Errors(p)' \subseteq Errors(p) \cup {i}
      BY <2>1, <2>2, <3>1 DEF Errors
    <3>4. QED
      BY <3>2, <3>3
  <2>5. phase[p] \in {"submit", "collect", "return", "done"}
    BY <2>2 DEF LoadInv, TypeInv, TypeOK
  <2>6. CASE firstError[p] = NoError
    <3>1. phase[p] # "submit" => \A j \in Errors(p)' : j >= next[p]
      BY <2>2, <2>4, <2>5, <2>6 DEF LoadInv, ErrorsInv
    <3>2. /\ ErrorsInv(p) /\ phase[p] \notin {"off", "list"}
          /\ phase'[p] = phase[p] /\ next'[p] = next[p] /\ firstError'[p] = firstError[p]
          /\ refused' = refused
      BY <1>2, <2>2 DEF LoadInv
    <3>3. QED
      BY <2>3, <2>4, <2>6, <3>1, <3>2, LaterError
  <2>7. CASE firstError[p] # NoError
    <3>1. /\ firstError[p] \in Errors(p) /\ firstError[p] <= next[p]
          /\ phase[p] # "submit" /\ \A j \in Errors(p) : firstError[p] <= j
      BY <2>7 DEF LoadInv, ErrorsInv
    <3>2. firstError[p] \in Errors(p)' /\ \A j \in Errors(p)' : firstError[p] <= j
      BY <2>2, <2>4, <2>5, <3>1
    <3>3. /\ ErrorsInv(p) /\ phase[p] \notin {"off", "list"}
          /\ phase'[p] = phase[p] /\ next'[p] = next[p] /\ firstError'[p] = firstError[p]
          /\ refused' = refused
      BY <1>2, <2>2 DEF LoadInv
    <3>4. QED
      BY <2>3, <2>4, <2>7, <3>2, <3>3, LaterError
  <2>8. QED
    BY <2>3, <2>6, <2>7
<1>7. \A q \in PhaseSet : TasksInv(q)' /\ ErrorsInv(q)'
  <2>1. CASE UNCHANGED future
    BY <1>5, <2>1
  <2>2. ASSUME NEW p \in PhaseSet, NEW i \in Items, NEW o \in Outcomes,
               Item(p, i) \in running, p = Ucs => o # "missing",
               future' = [future EXCEPT ![Item(p, i)] = o],
               NEW q \in PhaseSet, q # p
        PROVE  TasksInv(q)' /\ ErrorsInv(q)'
    <3>1. \A j \in Items : future'[Item(q, j)] = future[Item(q, j)]
      BY <2>2, TaskTypes, TaskShapes DEF LoadInv, TypeInv, TypeOK, PoolTypeOK
    <3>2. QED
      BY <1>5, <3>1
  <2>3. QED
    BY <1>6, <2>1, <2>2
<1>8. QED
  BY <1>1, <1>4, <1>7 DEF LoadInv

\* Once all phases are done without an error, nothing is queued or running: the
\* next module starts with an idle pool.
LEMMA IdleWhenSucceeded ==
  ASSUME LoadInv, Succeeded
  PROVE  queue = <<>> /\ running = {}
<1>1. \A p \in active : phase[p] = "done" /\ firstError[p] = NoError
  <2>1. active \subseteq PhaseSet
    BY DEF LoadInv, TypeInv, TypeOK
  <2>2. QED
    BY <2>1 DEF Succeeded, PhasesDone, Failed, LoadInv, ControlInv
<1>2. \A p \in PhaseSet : future[PhaseTask(p)] # "pending"
  <2>1. SUFFICES ASSUME NEW p \in PhaseSet, future[PhaseTask(p)] = "pending" PROVE FALSE
    OBVIOUS
  <2>2. p \in active /\ Concurrent
    BY <2>1 DEF LoadInv, ControlInv
  <2>3. Ready(PhaseTask(p))
    BY <2>2 DEF Succeeded, PhasesDone
  <2>4. QED
    BY <2>1, <2>3, TaskShapes DEF Ready
<1>3. \A p \in PhaseSet, i \in Items : future[Item(p, i)] # "pending"
  <2>1. SUFFICES ASSUME NEW p \in PhaseSet, NEW i \in Items, future[Item(p, i)] = "pending"
                 PROVE FALSE
    OBVIOUS
  <2>2. TasksInv(p) /\ next[p] \in Nat /\ items[p] \in Nat
    BY TaskShapes DEF LoadInv, TypeInv, TypeOK
  <2>3. phase[p] # "off" /\ i <= items[p]
    BY <2>1, <2>2 DEF TasksInv
  <2>4. phase[p] = "done" /\ firstError[p] = NoError
    BY <1>1, <2>3 DEF LoadInv, ControlInv
  <2>5. next[p] = items[p] + 1
    BY <2>2, <2>4 DEF TasksInv
  <2>6. i < next[p]
    BY <2>2, <2>3, <2>5, TaskShapes
  <2>7. Ready(Item(p, i))
    BY <2>2, <2>4, <2>6 DEF TasksInv
  <2>8. QED
    BY <2>1, <2>7, TaskShapes DEF Ready
<1>4. \A t \in Tasks : future[t] # "pending"
  <2>1. SUFFICES ASSUME NEW t \in Tasks PROVE future[t] # "pending"
    OBVIOUS
  <2>2. PICK p \in PhaseSet, i \in 0 .. MaxItems : t = <<p, i>>
    BY LoadAssumption DEF PhaseSet
  <2>3. CASE i = 0
    BY <1>2, <2>2, <2>3 DEF PhaseTask
  <2>4. CASE i # 0
    <3>1. i \in Items
      BY <2>2, <2>4, LoadAssumption DEF Items
    <3>2. QED
      BY <1>3, <2>2, <3>1 DEF Item
  <2>5. QED
    BY <2>3, <2>4
<1>5. queue \in Seq(Tasks) /\ running \subseteq Tasks
  BY DEF LoadInv, TypeInv, TypeOK, PoolTypeOK
<1>6. running = {}
  BY <1>4, <1>5 DEF LoadInv, PoolCustody
<1>7. queue = <<>>
  <2>1. SUFFICES ASSUME queue # <<>> PROVE FALSE
    OBVIOUS
  <2>2. 1 \in 1 .. Len(queue) /\ queue[1] \in Tasks
    BY <1>5, <2>1
  <2>3. QED
    BY <1>4, <2>2 DEF LoadInv, PoolCustody
<1>8. QED
  BY <1>6, <1>7

LEMMA LoadInvInit == Init => LoadInv
<1> SUFFICES ASSUME Init PROVE LoadInv
  OBVIOUS
<1>1. TypeInv
  BY TypeInvInit
<1>2. PoolCustody
  BY PoolInitCustody DEF Init
<1>3. \A t \in Tasks : future[t] = "none"
  BY DEF Init, PoolInit
<1>4. ControlInv
  BY <1>3, TaskTypes, TaskShapes DEF Init, ControlInv, Each, Ready
<1>5. ASSUME NEW p \in PhaseSet PROVE TasksInv(p) /\ ErrorsInv(p)
  <2>1. /\ \A i \in Items : future[Item(p, i)] = "none"
        /\ phase[p] = "off" /\ items[p] = 0 /\ firstError[p] = NoError /\ refused = {}
    BY <1>3, TaskTypes DEF Init, Each
  <2>2. QED
    BY <2>1 DEF TasksInv, ErrorsInv
<1>6. QED
  BY <1>1, <1>2, <1>4, <1>5 DEF LoadInv

LEMMA LoaderErrors ==
  ASSUME LoadInv, LoaderStep
  PROVE  LoadInv'
<1>1. TypeInv'
  BY LoaderStepTypes DEF LoadInv
<1>2. CASE Begin
  <2>1. /\ future' = future /\ active = {} /\ active' \subseteq PhaseSet
        /\ \A p \in PhaseSet : phase'[p] = IF p \in active' THEN "list" ELSE "off"
        /\ loader' = IF Concurrent' THEN "launch" ELSE "wait"
        /\ UNCHANGED <<items, next, refused, firstError, result>> /\ result = NoResult
    BY <1>2 DEF Begin, LoadInv, ControlInv, poolVars, Concurrent
  <2>2. PoolCustody'
    BY <1>2, IdleCustody DEF Begin, LoadInv
  <2>3. ControlInv'
    <3>1. \A p \in PhaseSet : future'[PhaseTask(p)] = "none"
      BY <2>1 DEF LoadInv, ControlInv
    <3>2. \A p \in PhaseSet : phase'[p] = "off" <=> p \notin active'
      BY <2>1
    <3>3. QED
      BY <2>1, <3>1, <3>2, TaskShapes DEF ControlInv, Ready
  <2>4. ASSUME NEW p \in PhaseSet PROVE TasksInv(p)' /\ ErrorsInv(p)'
    <3>1. phase[p] = "off" /\ phase'[p] \in {"off", "list"}
      BY <2>1 DEF LoadInv, ControlInv
    <3>2. /\ \A i \in Items : future[Item(p, i)] = "none"
          /\ items[p] = 0 /\ firstError[p] = NoError /\ (p = Archives => refused = {})
      BY <3>1 DEF LoadInv, TasksInv, ErrorsInv
    <3>3. QED
      BY <2>1, <3>1, <3>2 DEF TasksInv, ErrorsInv
  <2>5. QED
    BY <1>1, <2>2, <2>3, <2>4 DEF LoadInv
<1>3. CASE Launch
  <2>1. PICK i \in DOMAIN Phases : Phases[i] \in active \ Launched /\ Submit(PhaseTask(Phases[i]))
    BY <1>3 DEF Launch
  <2>2. Phases[i] \in PhaseSet /\ PhaseTask(Phases[i]) \in Tasks
    BY LoadAssumption, TaskTypes DEF PhaseSet
  <2>3. PoolCustody'
    BY <2>1, <2>2, SubmitCustody DEF LoadInv, TypeInv, TypeOK
  <2>4. /\ UNCHANGED <<active, phase, items, next, refused, firstError, registered, result>>
        /\ loader = "launch" /\ loader' \in {"launch", "wait"}
    BY <1>3 DEF Launch
  <2>5. /\ \A q \in PhaseSet : future'[PhaseTask(q)] =
              IF q = Phases[i] THEN "pending" ELSE future[PhaseTask(q)]
        /\ \A q \in PhaseSet, k \in Items : future'[Item(q, k)] = future[Item(q, k)]
    BY <2>1, <2>2, TaskTypes, TaskShapes DEF Submit, LoadInv, TypeInv, TypeOK, PoolTypeOK
  <2>6. ControlInv'
    <3>1. Concurrent' = Concurrent /\ Concurrent
      BY <2>4 DEF Concurrent, LoadInv, ControlInv
    <3>2. \A q \in PhaseSet : future'[PhaseTask(q)] # "none" => q \in active
      BY <2>1, <2>5 DEF LoadInv, ControlInv
    <3>3. \A q \in PhaseSet : Ready(PhaseTask(q))' => phase[q] = "done"
      BY <2>5, TaskShapes DEF LoadInv, ControlInv, Ready
    <3>4. QED
      BY <2>4, <3>1, <3>2, <3>3 DEF LoadInv, ControlInv
  <2>7. ASSUME NEW p \in PhaseSet PROVE TasksInv(p)' /\ ErrorsInv(p)'
    BY <2>4, <2>5, PhaseFrame DEF LoadInv
  <2>8. QED
    BY <1>1, <2>3, <2>6, <2>7 DEF LoadInv
<1>4. CASE Throw \/ LaterStageThrows \/ Return
  <2>1. /\ UNCHANGED <<queue, running, future, active, phase, items, next, refused, firstError>>
        /\ loader' = "returned" /\ loader = "wait" /\ PhasesDone
    BY <1>4 DEF Throw, LaterStageThrows, Return, Succeeded, PhasesDone, poolVars
  <2>2. PoolCustody'
    BY <2>1, IdleCustody DEF LoadInv, poolVars
  <2>3. \A p \in active : phase[p] = "done"
    <3>1. active \subseteq PhaseSet
      BY DEF LoadInv, TypeInv, TypeOK
    <3>2. QED
      BY <2>1, <3>1 DEF PhasesDone, LoadInv, ControlInv
  <2>4. ResultOK'
    <3>1. Concurrent' = Concurrent /\ \A p : Failed(p)' = Failed(p)
      BY <2>1 DEF Concurrent, Failed
    <3>2. CASE Throw
      BY <2>1, <3>1, <3>2 DEF Throw, ResultOK
    <3>3. CASE LaterStageThrows
      BY <2>1, <3>1, <3>3 DEF LaterStageThrows, Succeeded, ResultOK, PhaseSet, Ucs, Folders, Archives
    <3>4. CASE Return
      <4>1. result' = NoResult
        BY <2>1, <3>4 DEF Return, LoadInv, ControlInv
      <4>2. QED
        BY <2>1, <3>1, <3>4, <4>1
           DEF Return, Succeeded, ResultOK, NoResult, PhaseSet, Ucs, Folders, Archives
    <3>5. QED
      BY <1>4, <3>2, <3>3, <3>4
  <2>5. ControlInv'
    <3>1. Concurrent' = Concurrent /\ \A p : Ready(PhaseTask(p))' = Ready(PhaseTask(p))
      BY <2>1 DEF Concurrent, Ready
    <3>2. QED
      BY <2>1, <2>3, <2>4, <3>1 DEF LoadInv, ControlInv
  <2>6. ASSUME NEW p \in PhaseSet PROVE TasksInv(p)' /\ ErrorsInv(p)'
    BY <2>1, PhaseFrame DEF LoadInv
  <2>7. QED
    BY <1>1, <2>2, <2>5, <2>6 DEF LoadInv
<1>5. CASE NextModule
  <2>1. queue' = <<>> /\ running' = {}
    BY <1>5, IdleWhenSucceeded DEF NextModule
  <2>2. PoolCustody'
    BY <2>1 DEF PoolCustody
  <2>3. \A t \in Tasks : future'[t] = "none"
    BY <1>5 DEF NextModule
  <2>4. ControlInv'
    <3>1. /\ active' = {} /\ loader' = "begin" /\ result' = result /\ loader = "wait"
          /\ \A p \in PhaseSet : phase'[p] = "off"
      BY <1>5 DEF NextModule, Succeeded, PhasesDone, Each
    <3>2. \A p \in PhaseSet : future'[PhaseTask(p)] = "none"
      BY <2>3, TaskTypes
    <3>3. QED
      BY <3>1, <3>2, TaskShapes DEF LoadInv, ControlInv, Ready
  <2>5. ASSUME NEW p \in PhaseSet PROVE TasksInv(p)' /\ ErrorsInv(p)'
    <3>1. /\ \A i \in Items : future'[Item(p, i)] = "none"
          /\ phase'[p] = "off" /\ items'[p] = 0 /\ firstError'[p] = NoError /\ refused' = {}
      BY <1>5, <2>3, TaskTypes DEF NextModule, Each
    <3>2. QED
      BY <3>1 DEF TasksInv, ErrorsInv
  <2>6. QED
    BY <1>1, <2>2, <2>4, <2>5 DEF LoadInv
<1>6. QED
  BY <1>2, <1>3, <1>4, <1>5 DEF LoaderStep

LEMMA PhaseErrors ==
  ASSUME LoadInv, NEW p \in PhaseSet, PhaseStep(p)
  PROVE  LoadInv'
<1>1. CASE List(p) \/ SubmitItem(p) \/ ReturnFromPhase(p)
  BY <1>1, ListErrors, SubmitErrors, ReturnErrors
<1>2. CASE p = Ucs /\ CollectUcs
  <2>1. Outcome(p) \in {"ok", "error"}
    <3>1. next[p] \in Items
      BY <1>2, LoadAssumption DEF CollectUcs, Collecting, LoadInv, TypeInv, TypeOK, LoopOK, Items
    <3>2. Outcome(p) \in Outcomes /\ Outcome(p) # "missing"
      BY <1>2, <3>1 DEF CollectUcs, Collecting, Ready, Outcome, LoadInv, TasksInv
    <3>3. QED
      BY <3>2, LoadAssumption
  <2>2. Collecting(p) /\ UNCHANGED <<poolVars, active, loader, items, result>> /\ refused' = refused
    BY <1>2 DEF CollectUcs
  <2>3. \/ Advance(p) /\ UNCHANGED <<refused, firstError>> /\ Outcome(p) # "error"
        \/ Advance(p) /\ NoteError(p) /\ p # Folders /\ Outcome(p) = "error"
    BY <1>2, <2>1, <2>2, PhaseNames DEF CollectUcs
  <2>4. QED
    BY <2>2, <2>3, CollectErrors
<1>3. CASE p = Folders /\ CollectFolder
  <2>1. Collecting(p) /\ UNCHANGED <<poolVars, active, loader, items, result>> /\ refused' = refused
    BY <1>3 DEF CollectFolder
  <2>2. \/ Advance(p) /\ UNCHANGED <<refused, firstError>> /\ Outcome(p) # "error"
        \/ /\ p = Folders /\ NoteError(p) /\ UNCHANGED next
           /\ phase' = [phase EXCEPT ![p] = "return"] /\ Outcome(p) = "error"
    BY <1>3, <2>1 DEF CollectFolder
  <2>3. QED
    BY <2>1, <2>2, CollectErrors
<1>4. CASE p = Archives /\ CollectArchive
  <2>1. /\ Collecting(p) /\ UNCHANGED <<poolVars, active, loader, items, result>>
        /\ p # Folders /\ Advance(p)
        /\ refused' = refused \/ refused' = refused \cup {next[p]}
    BY <1>4, PhaseNames DEF CollectArchive
  <2>2. \/ UNCHANGED <<refused, firstError>> /\ Outcome(p) # "error"
        \/ NoteError(p) /\ (Outcome(p) = "error" \/ (p = Archives /\ next[p] \in refused'))
    BY <1>4 DEF CollectArchive
  <2>3. /\ \A i \in refused' : i \in refused \/ i = next[p]
        /\ refused \subseteq refused'
    BY <2>1
  <2>4. QED
    BY <1>4, <2>1, <2>2, <2>3, CollectErrors
<1>5. QED
  BY <1>1, <1>2, <1>3, <1>4 DEF PhaseStep

LEMMA LoadInvNext == LoadInv /\ [Next]_vars => LoadInv'
<1> SUFFICES ASSUME LoadInv, [Next]_vars PROVE LoadInv'
  OBVIOUS
<1>1. CASE LoaderStep
  BY <1>1, LoaderErrors
<1>2. CASE \E p \in PhaseSet : PhaseStep(p)
  BY <1>2, PhaseErrors
<1>3. CASE Worker
  <2>1. UNCHANGED loadVars /\ UNCHANGED future /\ Start
    BY <1>3 DEF Worker, Start
  <2>2. PoolCustody'
    BY <2>1, StartCustody DEF LoadInv, TypeInv, TypeOK
  <2>3. QED
    BY <2>1, <2>2, WorkerErrors
<1>4. ASSUME NEW p \in PhaseSet, NEW i \in Items, FinishItem(p, i) PROVE LoadInv'
  <2>1. PICK o \in OutcomesOf(p) : Finish(Item(p, i), o)
    BY <1>4 DEF FinishItem
  <2>2. o \in Outcomes /\ (p = Ucs => o # "missing") /\ Item(p, i) \in Tasks
    BY TaskTypes DEF OutcomesOf
  <2>3. PoolCustody'
    BY <2>1, <2>2, FinishCustody DEF LoadInv, TypeInv, TypeOK
  <2>4. /\ UNCHANGED loadVars /\ Item(p, i) \in running
        /\ future' = [future EXCEPT ![Item(p, i)] = o]
    BY <1>4, <2>1 DEF FinishItem, Finish
  <2>5. QED
    BY <2>2, <2>3, <2>4, WorkerErrors
<1>5. CASE UNCHANGED vars
  <2>1. UNCHANGED loadVars /\ UNCHANGED poolVars /\ UNCHANGED future
    BY <1>5 DEF vars, poolVars
  <2>2. PoolCustody'
    BY <2>1, IdleCustody DEF LoadInv
  <2>3. QED
    BY <2>1, <2>2, WorkerErrors
<1>6. QED
  BY <1>1, <1>2, <1>3, <1>4, <1>5 DEF Next

LEMMA LoadInvariant == Spec => []LoadInv
BY LoadInvInit, LoadInvNext, PTL DEF Spec

\* A phase of localised text or archives returns only when every task it submitted
\* has finished, however many failed: no task is left with a reference into it.
THEOREM DeferredPhasesWait == Spec => []DeferredPhasesCollect
<1>1. LoadInv => DeferredPhasesCollect
  <2>1. SUFFICES ASSUME LoadInv, NEW p \in {Ucs, Archives}, phase[p] = "done", NEW i \in Items
                 PROVE  future[Item(p, i)] # "pending"
    BY DEF DeferredPhasesCollect, PhaseCollects, Outstanding
  <2>2. p \in PhaseSet /\ p # Folders
    BY PhaseNames
  <2>3. TasksInv(p) /\ next[p] \in Nat /\ items[p] \in Nat
    BY <2>1, <2>2, TaskShapes DEF LoadInv, TypeInv, TypeOK
  <2>4. next[p] = items[p] + 1
    BY <2>1, <2>2, <2>3 DEF TasksInv
  <2>5. CASE i <= items[p]
    <3>1. i < next[p]
      BY <2>3, <2>4, <2>5, TaskShapes
    <3>2. Ready(Item(p, i))
      BY <2>1, <2>3, <3>1 DEF TasksInv
    <3>3. QED
      BY <3>2, TaskShapes DEF Ready
  <2>6. CASE ~(i <= items[p])
    BY <2>3, <2>6 DEF TasksInv
  <2>7. QED
    BY <2>5, <2>6
<1>2. QED
  BY <1>1, LoadInvariant, PTL

LEMMA LeastIsMin ==
  ASSUME NEW S \in SUBSET Nat, NEW m \in S, \A j \in S : m <= j
  PROVE  Min(S) = m
<1>1. \A k \in S : (\A j \in S : k <= j) => k = m
  OBVIOUS
<1>2. QED
  BY <1>1 DEF Min

\* When a phase is done it reports its least error, and reports none only if there
\* was none.
LEMMA FinishedPhase ==
  ASSUME LoadInv, NEW p \in PhaseSet, p \in active, phase[p] = "done"
  PROVE  /\ Failed(p) <=> Errors(p) # {}
         /\ Failed(p) => Min(Errors(p)) = firstError[p]
<1>1. TasksInv(p) /\ ErrorsInv(p) /\ items[p] \in Nat /\ next[p] \in Nat /\ refused \subseteq Nat
  BY TaskShapes DEF LoadInv, TypeInv, TypeOK
<1>2. Errors(p) \subseteq Nat
  BY <1>1 DEF Errors
<1>3. CASE firstError[p] = NoError
  <2>1. next[p] = items[p] + 1 /\ \A j \in Errors(p) : j >= next[p]
    BY <1>1, <1>3 DEF TasksInv, ErrorsInv
  <2>2. \A j \in Errors(p) : j < next[p]
    BY <1>1, <2>1 DEF Errors, ErrorsInv
  <2>3. Errors(p) = {}
    BY <1>1, <1>2, <2>1, <2>2
  <2>4. QED
    BY <1>3, <2>3 DEF Failed
<1>4. CASE firstError[p] # NoError
  <2>1. firstError[p] \in Errors(p) /\ \A j \in Errors(p) : firstError[p] <= j
    BY <1>1, <1>4 DEF ErrorsInv
  <2>2. QED
    BY <1>2, <1>4, <2>1, LeastIsMin DEF Failed
<1>5. QED
  BY <1>3, <1>4

\* What Load throws is the error a load without threads would meet first, for any
\* number of files, any failures and any schedule of any number of workers.
THEOREM FirstErrorIsThrown == Spec => []FirstErrorWins
<1>1. LoadInv => FirstErrorWins
  <2>1. SUFFICES ASSUME LoadInv, loader = "returned" PROVE FirstErrorWins
    BY DEF FirstErrorWins
  <2> DEFINE failing == {i \in DOMAIN Phases : Phases[i] \in active /\ Errors(Phases[i]) # {}}
  <2>2. ResultOK /\ \A i \in DOMAIN Phases : Phases[i] \in PhaseSet
    BY <2>1, LoadAssumption DEF LoadInv, ControlInv, PhaseSet
  <2>3. \A i \in DOMAIN Phases : i \in failing <=> Failed(Phases[i])
    BY <2>1, <2>2, FinishedPhase DEF LoadInv, ControlInv, Failed
  <2>4. DOMAIN Phases = 1 .. 3 /\ \A p \in PhaseSet : \E i \in DOMAIN Phases : p = Phases[i]
    BY LoadAssumption DEF PhaseSet
  <2>5. CASE failing = {}
    <3>1. result[1] \notin PhaseSet
      BY <2>2, <2>3, <2>5 DEF ResultOK
    <3>2. QED
      BY <2>5, <3>1 DEF FirstErrorWins
  <2>6. CASE failing # {}
    <3>1. PICK i \in DOMAIN Phases :
                 /\ Failed(Phases[i]) /\ \A j \in 1 .. i - 1 : ~Failed(Phases[j])
                 /\ result = <<Phases[i], firstError[Phases[i]]>>
      <4>1. ~ \A p \in active : ~Failed(p)
        BY <2>2, <2>3, <2>6
      <4>2. QED
        BY <2>2, <4>1 DEF ResultOK
    <3>2. i \in failing /\ failing \subseteq Nat /\ \A j \in failing : i <= j
      <4>1. \A j \in failing : j \in 1 .. 3 /\ Failed(Phases[j])
        BY <2>3, <2>4
      <4>2. QED
        BY <2>3, <2>4, <3>1, <4>1
    <3>3. Min(failing) = i
      BY <3>2, LeastIsMin
    <3>4. Min(Errors(Phases[i])) = firstError[Phases[i]]
      BY <2>1, <2>2, <3>1, FinishedPhase DEF LoadInv, ControlInv, Failed
    <3>5. QED
      BY <2>6, <3>1, <3>3, <3>4 DEF FirstErrorWins
  <2>7. QED
    BY <2>5, <2>6
<1>2. QED
  BY <1>1, LoadInvariant, PTL

-----------------------------------------------------------------------------
(***************************************************************************)
(* What a load registers.  A phase that defers its errors has, at any      *)
(* moment, registered the items before next that came out well, in their   *)
(* order; workers finish items from next on only.                          *)
(***************************************************************************)
Increasing(s) == \A j, k \in DOMAIN s : j < k => s[j] < s[k]

Good(p, i) == future[Item(p, i)] = "ok" /\ (p = Archives => i \notin refused)

RegisteredInv(p) ==
  /\ Increasing(registered[p])
  /\ phase[p] \in {"off", "list", "submit"} => registered[p] = <<>>
  /\ \A i \in Items :
       (\E k \in DOMAIN registered[p] : registered[p][k] = i) <=>
         /\ phase[p] \in {"collect", "return", "done"}
         /\ i < next[p] /\ Good(p, i)

SparingInv == \A p \in {Ucs, Archives} : RegisteredInv(p)

\* A phase that has collected nothing.
LEMMA EmptyRegistered ==
  ASSUME NEW p \in PhaseSet, registered'[p] = <<>>, next'[p] = 1
  PROVE  RegisteredInv(p)'
<1>1. DOMAIN registered'[p] = {} /\ \A i \in Items : ~(i < next'[p])
  BY DEF Items
<1>2. Increasing(registered[p])'
  BY <1>1 DEF Increasing
<1>3. QED
  BY <1>1, <1>2 DEF RegisteredInv

\* What is said of a phase depends on that phase's own state only, and not on the
\* items still to come.
LEMMA RegisteredFrame ==
  ASSUME NEW p \in PhaseSet, RegisteredInv(p),
         registered'[p] = registered[p], next'[p] = next[p],
         phase'[p] = phase[p] \/ (phase[p] = "return" /\ phase'[p] = "done"),
         p = Archives => refused' = refused,
         phase[p] \in {"collect", "return", "done"} =>
           \A i \in Items : i < next[p] => future'[Item(p, i)] = future[Item(p, i)]
  PROVE  RegisteredInv(p)'
<1>1. Increasing(registered[p])' /\ (phase'[p] \in {"off", "list", "submit"} => registered'[p] = <<>>)
  BY DEF RegisteredInv, Increasing
<1>2. ASSUME NEW i \in Items
      PROVE  (\E k \in DOMAIN registered'[p] : registered'[p][k] = i) <=>
               (phase'[p] \in {"collect", "return", "done"} /\ i < next'[p] /\ Good(p, i)')
  <2>1. (\E k \in DOMAIN registered[p] : registered[p][k] = i) <=>
          (phase[p] \in {"collect", "return", "done"} /\ i < next[p] /\ Good(p, i))
    BY DEF RegisteredInv
  <2>2. phase'[p] \in {"collect", "return", "done"} <=> phase[p] \in {"collect", "return", "done"}
    OBVIOUS
  <2>3. phase[p] \in {"collect", "return", "done"} /\ i < next[p] => (Good(p, i)' <=> Good(p, i))
    BY DEF Good
  <2>4. QED
    BY <2>1, <2>2, <2>3
<1>3. QED
  BY <1>1, <1>2 DEF RegisteredInv

LEMMA AppendLarger ==
  ASSUME NEW s \in Seq(Items), NEW n \in Items, Increasing(s), \A k \in DOMAIN s : s[k] < n
  PROVE  /\ Increasing(Append(s, n))
         /\ \A i : (\E k \in DOMAIN Append(s, n) : Append(s, n)[k] = i) <=>
                     (\E k \in DOMAIN s : s[k] = i) \/ i = n
<1>1. /\ DOMAIN s = 1 .. Len(s) /\ Len(s) \in Nat
      /\ DOMAIN Append(s, n) = 1 .. Len(s) + 1
      /\ \A k \in 1 .. Len(s) : Append(s, n)[k] = s[k]
      /\ Append(s, n)[Len(s) + 1] = n
  OBVIOUS
<1>2. Increasing(Append(s, n))
  <2>1. SUFFICES ASSUME NEW j \in 1 .. Len(s) + 1, NEW k \in 1 .. Len(s) + 1, j < k
                 PROVE  Append(s, n)[j] < Append(s, n)[k]
    BY <1>1 DEF Increasing
  <2>2. j \in 1 .. Len(s)
    BY <1>1, <2>1
  <2>3. CASE k = Len(s) + 1
    BY <1>1, <2>2, <2>3
  <2>4. CASE k # Len(s) + 1
    <3>1. k \in 1 .. Len(s)
      BY <1>1, <2>4
    <3>2. QED
      BY <1>1, <2>1, <2>2, <3>1 DEF Increasing
  <2>5. QED
    BY <2>3, <2>4
<1>3. ASSUME NEW i
      PROVE (\E k \in DOMAIN Append(s, n) : Append(s, n)[k] = i) <=>
              (\E k \in DOMAIN s : s[k] = i) \/ i = n
  <2>1. 1 .. Len(s) \subseteq 1 .. Len(s) + 1 /\ Len(s) + 1 \in 1 .. Len(s) + 1
        /\ \A k \in 1 .. Len(s) + 1 : k \in 1 .. Len(s) \/ k = Len(s) + 1
    BY <1>1
  <2>2. QED
    BY <1>1, <2>1
<1>4. QED
  BY <1>2, <1>3

\* The loop over the futures goes on, and registers the item just when it is good.
LEMMA CollectRegisters ==
  ASSUME LoadInv, NEW p \in {Ucs, Archives}, RegisteredInv(p), Collecting(p), Advance(p),
         NEW n \in Items, n = next[p],
         UNCHANGED future,
         p = Archives => refused' = refused \/ refused' = refused \cup {n},
         IF Good(p, n)' THEN Register(p) ELSE UNCHANGED registered
  PROVE  RegisteredInv(p)'
<1>1. p \in PhaseSet /\ phase[p] = "collect" /\ Items \subseteq Nat
  BY PhaseNames, TaskShapes DEF Collecting
<1>2. /\ registered[p] \in Seq(Items) /\ registered \in [PhaseSet -> Seq(Items)]
      /\ next'[p] = n + 1 /\ phase'[p] \in {"collect", "return"}
  BY <1>1 DEF LoadInv, TypeInv, TypeOK, Advance
<1>3. \A i \in Items : (\E k \in DOMAIN registered[p] : registered[p][k] = i) <=>
                         (i < n /\ Good(p, i))
  BY <1>1 DEF RegisteredInv
<1>4. ASSUME NEW i \in Items
      PROVE  /\ i < next'[p] <=> i < n \/ i = n
             /\ i < n => (Good(p, i)' <=> Good(p, i))
  <2>1. i \in Nat /\ n \in Nat
    BY <1>1
  <2>2. i < n => i # n
    BY <2>1
  <2>3. i < n => (Good(p, i)' <=> Good(p, i))
    BY <2>2 DEF Good
  <2>4. i < n + 1 <=> i < n \/ i = n
    BY <2>1
  <2>5. QED
    BY <1>2, <2>3, <2>4
<1>5. \A k \in DOMAIN registered[p] : registered[p][k] \in Items
  BY <1>2
<1>6. ~(n < n)
  BY <1>1
<1>7. CASE Good(p, n)'
  <2>1. registered'[p] = Append(registered[p], n)
    BY <1>1, <1>2, <1>7 DEF Register
  <2>2. \A k \in DOMAIN registered[p] : registered[p][k] < n
    BY <1>3, <1>5
  <2>3. /\ Increasing(registered'[p])
        /\ \A i : (\E k \in DOMAIN registered'[p] : registered'[p][k] = i) <=>
                    (\E k \in DOMAIN registered[p] : registered[p][k] = i) \/ i = n
    <3>1. PICK r \in Seq(Items) : r = registered[p]
      BY <1>2
    <3>2. Increasing(r) /\ \A k \in DOMAIN r : r[k] < n
      BY <2>2, <3>1 DEF RegisteredInv
    <3>3. QED
      BY <2>1, <3>1, <3>2, AppendLarger
  <2>4. \A i \in Items : (\E k \in DOMAIN registered'[p] : registered'[p][k] = i) <=>
                           (i < next'[p] /\ Good(p, i)')
    <3>1. SUFFICES ASSUME NEW i \in Items
                   PROVE  (i < n /\ Good(p, i)) \/ i = n <=> (i < next'[p] /\ Good(p, i)')
      BY <1>3, <2>3
    <3>2. CASE i = n
      BY <1>4, <1>7, <3>2
    <3>3. CASE i # n
      BY <1>4, <3>3
    <3>4. QED
      BY <3>2, <3>3
  <2>5. Increasing(registered[p])'
    BY <2>3 DEF Increasing
  <2>6. QED
    BY <1>2, <2>4, <2>5 DEF RegisteredInv
<1>8. CASE ~Good(p, n)'
  <2>1. registered' = registered
    BY <1>8
  <2>2. \A i \in Items : (\E k \in DOMAIN registered'[p] : registered'[p][k] = i) <=>
                           (i < next'[p] /\ Good(p, i)')
    <3>1. SUFFICES ASSUME NEW i \in Items
                   PROVE  (i < n /\ Good(p, i)) <=> (i < next'[p] /\ Good(p, i)')
      BY <1>3, <2>1
    <3>2. CASE i = n
      BY <1>6, <1>8, <3>2
    <3>3. CASE i # n
      BY <1>4, <3>3
    <3>4. QED
      BY <3>2, <3>3
  <2>3. Increasing(registered[p])'
    BY <2>1 DEF RegisteredInv, Increasing
  <2>4. QED
    BY <1>2, <2>2, <2>3 DEF RegisteredInv
<1>9. QED
  BY <1>7, <1>8

LEMMA PhaseKeepsRegistered ==
  ASSUME LoadInv, SparingInv, NEW q \in PhaseSet, PhaseStep(q), NEW p \in {Ucs, Archives}
  PROVE  RegisteredInv(p)'
<1>1. /\ p \in PhaseSet /\ p # Folders /\ RegisteredInv(p)
      /\ phase \in [PhaseSet -> {"off", "list", "submit", "collect", "return", "done"}]
      /\ next \in [PhaseSet -> 1 .. MaxItems + 1] /\ registered \in [PhaseSet -> Seq(Items)]
      /\ future \in [Tasks -> {"none", "pending"} \cup Outcomes]
      /\ phase[p] \in {"off", "list"} => next[p] = 1
  BY PhaseNames DEF SparingInv, LoadInv, TypeInv, TypeOK, LoopOK, PoolTypeOK
<1>2. \A i \in Items : ~(i < 1)
  BY DEF Items
<1>3. CASE List(q)
  <2>1. UNCHANGED <<future, next, registered>>
    BY <1>3 DEF List, poolVars
  <2>2. CASE q = p
    <3>1. registered'[p] = <<>> /\ next'[p] = 1
      BY <1>1, <1>3, <2>1, <2>2 DEF List, RegisteredInv
    <3>2. QED
      BY <1>1, <3>1, EmptyRegistered
  <2>3. CASE q # p
    <3>1. phase'[p] = phase[p] /\ (p = Archives => refused' = refused)
      BY <1>1, <1>3, <2>3 DEF List
    <3>2. QED
      BY <1>1, <2>1, <3>1, RegisteredFrame
  <2>4. QED
    BY <2>2, <2>3
<1>4. CASE SubmitItem(q)
  <2>1. UNCHANGED <<registered, refused>> /\ future' = [future EXCEPT ![Item(q, next[q])] = "pending"]
        /\ phase[q] = "submit"
    BY <1>4 DEF SubmitItem, Submit
  <2>2. next[q] \in Items
    BY <1>4, LoadAssumption DEF SubmitItem, LoadInv, TypeInv, TypeOK, LoopOK, Items
  <2>3. CASE q = p
    <3>1. registered[p] = <<>>
      BY <1>1, <2>1, <2>3 DEF RegisteredInv
    <3>2. CASE phase'[p] = "collect"
      <4>1. next'[p] = 1
        BY <1>1, <1>4, <2>1, <2>3, <3>2 DEF SubmitItem
      <4>2. QED
        BY <1>1, <2>1, <3>1, <4>1, EmptyRegistered
    <3>3. CASE phase'[p] # "collect"
      <4>1. phase'[p] = "submit"
        BY <1>1, <1>4, <2>1, <2>3, <3>3 DEF SubmitItem
      <4>2. DOMAIN registered'[p] = {} /\ registered'[p] = <<>>
        BY <2>1, <3>1
      <4>3. Increasing(registered[p])'
        BY <4>2 DEF Increasing
      <4>4. QED
        BY <4>1, <4>2, <4>3 DEF RegisteredInv
    <3>4. QED
      BY <3>2, <3>3
  <2>4. CASE q # p
    <3>1. phase'[p] = phase[p] /\ next'[p] = next[p]
      BY <1>1, <1>4, <2>4 DEF SubmitItem
    <3>2. \A i \in Items : future'[Item(p, i)] = future[Item(p, i)]
      BY <1>1, <2>1, <2>2, <2>4, TaskShapes
    <3>3. QED
      BY <1>1, <2>1, <3>1, <3>2, RegisteredFrame
  <2>5. QED
    BY <2>3, <2>4
<1>5. ASSUME q # p, UNCHANGED future, p = Archives => refused' = refused,
             \A r \in PhaseSet : r # q =>
               phase'[r] = phase[r] /\ next'[r] = next[r] /\ registered'[r] = registered[r]
      PROVE  RegisteredInv(p)'
  BY <1>1, <1>5, RegisteredFrame
<1>6. Collecting(p) => next[p] \in Items
  BY <1>1, LoadAssumption DEF Collecting, LoadInv, TypeInv, TypeOK, LoopOK, Items
<1>7. CASE q = Ucs /\ CollectUcs
  <2>1. /\ Collecting(Ucs) /\ Advance(Ucs) /\ UNCHANGED <<future, refused>>
        /\ IF Outcome(Ucs) = "ok" THEN Register(Ucs) ELSE UNCHANGED registered
    BY <1>7 DEF CollectUcs, poolVars
  <2>2. CASE p = Ucs
    <3>1. PICK n : n = next[p]
      OBVIOUS
    <3>2. n \in Items
      BY <1>6, <2>1, <2>2, <3>1
    <3>3. Good(p, n)' <=> Outcome(Ucs) = "ok"
      BY <2>1, <2>2, <3>1, PhaseNames DEF Good, Outcome
    <3>4. QED
      BY <1>1, <2>1, <2>2, <3>1, <3>2, <3>3, PhaseNames, CollectRegisters
  <2>3. CASE p # Ucs
    BY <1>1, <1>5, <1>7, <2>1, <2>3 DEF Advance, Register
  <2>4. QED
    BY <2>2, <2>3
<1>8. CASE q = Folders /\ CollectFolder
  <2>1. UNCHANGED <<future, refused>> /\ phase' = [phase EXCEPT ![q] = phase'[q]]
        /\ next' = [next EXCEPT ![q] = next'[q]]
        /\ registered' = [registered EXCEPT ![q] = registered'[q]]
    BY <1>1, <1>8 DEF CollectFolder, Advance, Register, poolVars
  <2>2. QED
    BY <1>1, <1>5, <1>8, <2>1
<1>9. CASE q = Archives /\ CollectArchive
  <2>1. /\ Collecting(Archives) /\ Advance(Archives) /\ UNCHANGED future
        /\ \/ refused' = refused /\ Outcome(Archives) # "ok" /\ UNCHANGED registered
           \/ refused' = refused /\ Outcome(Archives) = "ok" /\ Register(Archives)
           \/ refused' = refused \cup {next[Archives]} /\ UNCHANGED registered
    BY <1>9 DEF CollectArchive, poolVars
  <2>2. CASE p = Archives
    <3>1. PICK n : n = next[p]
      OBVIOUS
    <3>2. n \in Items
      BY <1>6, <2>1, <2>2, <3>1
    <3>3. n \notin refused
      <4>1. ErrorsInv(p) /\ n \in Nat
        BY <1>1, <3>2, TaskShapes DEF LoadInv
      <4>2. \A i \in refused : i < n
        BY <2>2, <3>1, <4>1 DEF ErrorsInv
      <4>3. QED
        BY <4>1, <4>2
    <3>4. IF Good(p, n)' THEN Register(p) ELSE UNCHANGED registered
      BY <2>1, <2>2, <3>1, <3>3 DEF Good, Outcome
    <3>5. QED
      BY <1>1, <2>1, <2>2, <3>1, <3>2, <3>4, CollectRegisters
  <2>3. CASE p # Archives
    BY <1>1, <1>5, <1>9, <2>1, <2>3 DEF Advance, Register
  <2>4. QED
    BY <2>2, <2>3
<1>10. CASE ReturnFromPhase(q)
  <2>1. /\ UNCHANGED <<next, refused, registered>> /\ phase[q] = "return"
        /\ phase' = [phase EXCEPT ![q] = "done"]
    BY <1>10 DEF ReturnFromPhase
  <2>2. \A i \in Items : future'[Item(p, i)] = future[Item(p, i)]
    <3>1. CASE Concurrent
      <4>1. PICK o : future' = [future EXCEPT ![PhaseTask(q)] = o]
        BY <1>10, <3>1 DEF ReturnFromPhase, Finish
      <4>2. \A i \in Items : PhaseTask(q) # Item(p, i) /\ Item(p, i) \in Tasks
        BY <1>1, TaskTypes, TaskShapes
      <4>3. QED
        BY <1>1, <4>1, <4>2
    <3>2. CASE ~Concurrent
      BY <1>10, <3>2 DEF ReturnFromPhase, poolVars
    <3>3. QED
      BY <3>1, <3>2
  <2>3. QED
    BY <1>1, <2>1, <2>2, RegisteredFrame
<1>11. QED
  BY <1>3, <1>4, <1>7, <1>8, <1>9, <1>10 DEF PhaseStep

LEMMA SparingStep == LoadInv /\ SparingInv /\ [Next]_vars => SparingInv'
<1> SUFFICES ASSUME LoadInv, SparingInv, [Next]_vars, NEW p \in {Ucs, Archives}
             PROVE  RegisteredInv(p)'
  BY DEF SparingInv
<1>1. p \in PhaseSet /\ RegisteredInv(p)
  BY PhaseNames DEF SparingInv
<1>2. ASSUME UNCHANGED <<phase, next, refused, registered>>,
             \A i \in Items : phase[p] \in {"collect", "return", "done"} /\ i < next[p] =>
                                future'[Item(p, i)] = future[Item(p, i)]
      PROVE  RegisteredInv(p)'
  BY <1>1, <1>2, RegisteredFrame
<1>3. CASE Begin
  <2>1. UNCHANGED <<next, refused, registered>> /\ phase[p] = "off" /\ next[p] = 1
    BY <1>1, <1>3 DEF Begin, LoadInv, TypeInv, LoopOK
  <2>2. registered'[p] = <<>> /\ next'[p] = 1
    BY <1>1, <2>1 DEF RegisteredInv
  <2>3. QED
    BY <1>1, <2>2, EmptyRegistered
<1>4. CASE NextModule
  <2>1. registered'[p] = <<>> /\ next'[p] = 1
    BY <1>1, <1>4 DEF NextModule, Each
  <2>2. QED
    BY <1>1, <2>1, EmptyRegistered
<1>5. CASE Launch
  <2>1. PICK i \in DOMAIN Phases : Submit(PhaseTask(Phases[i]))
    BY <1>5 DEF Launch
  <2>2. Phases[i] \in PhaseSet
    BY LoadAssumption DEF PhaseSet
  <2>3. \A k \in Items : future'[Item(p, k)] = future[Item(p, k)]
    BY <1>1, <2>1, <2>2, TaskTypes, TaskShapes DEF Submit, LoadInv, TypeInv, TypeOK, PoolTypeOK
  <2>4. QED
    BY <1>2, <1>5, <2>3 DEF Launch
<1>6. CASE Throw \/ LaterStageThrows \/ Return \/ Worker \/ UNCHANGED vars
  <2>1. UNCHANGED <<phase, next, refused, registered, future>>
    BY <1>6 DEF Throw, LaterStageThrows, Return, Worker, Start, vars, loadVars, poolVars
  <2>2. QED
    BY <1>2, <2>1
<1>7. ASSUME NEW q \in PhaseSet, NEW i \in Items, FinishItem(q, i) PROVE RegisteredInv(p)'
  <2>1. PICK o : Finish(Item(q, i), o)
    BY <1>7 DEF FinishItem
  <2>2. future' = [future EXCEPT ![Item(q, i)] = o] /\ Item(q, i) \in running
    BY <2>1 DEF Finish
  <2>3. future[Item(q, i)] = "pending" /\ TasksInv(q)
    BY <2>2 DEF LoadInv, PoolCustody
  <2>4. phase[q] \in {"collect", "return", "done"} => ~(i < next[q])
    BY <2>3, TaskShapes DEF TasksInv, Ready
  <2>5. \A k \in Items : phase[p] \in {"collect", "return", "done"} /\ k < next[p] =>
                           future'[Item(p, k)] = future[Item(p, k)]
    BY <1>1, <2>2, <2>4, TaskTypes, TaskShapes DEF LoadInv, TypeInv, TypeOK, PoolTypeOK
  <2>6. QED
    BY <1>2, <1>7, <2>5 DEF FinishItem, loadVars
<1>8. ASSUME NEW q \in PhaseSet, PhaseStep(q) PROVE RegisteredInv(p)'
  BY <1>8, PhaseKeepsRegistered
<1>9. QED
  BY <1>3, <1>4, <1>5, <1>6, <1>7, <1>8 DEF Next, LoaderStep

\* A file or archive that fails costs nothing but itself, whatever fails and whenever
\* the tasks finish: all the others are registered, in the order of the list.
THEOREM OthersAreSpared == Spec => []BadItemSparesTheRest
<1>1. Init => SparingInv
  <2>1. SUFFICES ASSUME Init, NEW p \in {Ucs, Archives} PROVE RegisteredInv(p)
    BY DEF SparingInv
  <2>2. registered[p] = <<>> /\ next[p] = 1
    BY <2>1, PhaseNames DEF Init, Each
  <2>3. DOMAIN registered[p] = {} /\ \A i \in Items : ~(i < next[p])
    BY <2>2 DEF Items
  <2>4. QED
    BY <2>2, <2>3 DEF RegisteredInv, Increasing
<1>2. LoadInv /\ SparingInv => BadItemSparesTheRest
  <2>1. SUFFICES ASSUME LoadInv, SparingInv, loader = "returned", NEW p \in active \ {Folders}
                 PROVE  /\ \A j, k \in DOMAIN registered[p] : j < k => registered[p][j] < registered[p][k]
                        /\ {registered[p][k] : k \in DOMAIN registered[p]} =
                             {i \in 1 .. items[p] : future[Item(p, i)] = "ok" /\ i \notin Errors(p)}
    BY DEF BadItemSparesTheRest
  <2>2. /\ p \in PhaseSet /\ p \in {Ucs, Archives} /\ phase[p] = "done"
        /\ TasksInv(p) /\ RegisteredInv(p) /\ items[p] \in Nat /\ 1 .. items[p] \subseteq Items
        /\ registered[p] \in Seq(Items)
    BY <2>1, LoadAssumption DEF LoadInv, ControlInv, SparingInv, TypeInv, TypeOK, PhaseSet, Items
  <2>3. next[p] = items[p] + 1
    BY <2>2, PhaseNames DEF TasksInv
  <2>4. \A i \in Items : i < next[p] <=> i \in 1 .. items[p]
    BY <2>2, <2>3 DEF Items
  <2>5. \A i \in 1 .. items[p] :
          Good(p, i) <=> (future[Item(p, i)] = "ok" /\ i \notin Errors(p))
    BY LoadAssumption DEF Good, Errors
  <2>6. \A i \in Items : (\E k \in DOMAIN registered[p] : registered[p][k] = i) <=>
                           (i < next[p] /\ Good(p, i))
    BY <2>2 DEF RegisteredInv
  <2>7. \A k \in DOMAIN registered[p] : registered[p][k] \in Items
    BY <2>2
  <2>8. {registered[p][k] : k \in DOMAIN registered[p]} =
          {i \in 1 .. items[p] : future[Item(p, i)] = "ok" /\ i \notin Errors(p)}
    BY <2>2, <2>4, <2>5, <2>6, <2>7
  <2>9. QED
    BY <2>2, <2>8 DEF RegisteredInv, Increasing
<1>3. QED
  BY <1>1, <1>2, LoadInvariant, SparingStep, PTL DEF Spec
=============================================================================
