--------------------------- MODULE ModuleLoad_proofs ---------------------------
(***************************************************************************)
(* Proofs about ModuleLoad, for any number of loads: the thread of the     *)
(* load before is past its task when it is joined, every module has one    *)
(* owner, and a loading form waits for a result.                           *)
(***************************************************************************)
EXTENDS ModuleLoad, SequenceTheorems, TLAPS

\* m_bRunning tells exactly that the task has not returned; while Run is under
\* way, there is a load to launch and no task; a thread has a load.
RunningIsAccurate ==
  /\ running <=> thread \in {"reading", "returned"}
  /\ thread # "none" => job # None
  /\ main = "launching" => ~running /\ started >= 1

\* The loads that have got somewhere: to the thread, the queue or the window.
Fresh(n) == n <= started /\ (main = "launching" => n < started)

LoadsAreFresh ==
  /\ ThreadBusy => job \in Loads /\ Fresh(job)
  /\ \A i \in 1 .. Len(events) : Fresh(events[i][1])
  /\ Fresh(module)

\* None is at two of these places.
LoadsAreApart ==
  /\ ThreadBusy => job # module /\ \A i \in 1 .. Len(events) : events[i][1] # job
  /\ \A i \in 1 .. Len(events) : events[i][1] # module
  /\ \A i, j \in 1 .. Len(events) : events[i][1] = events[j][1] => i = j

UIInv == TypeOK /\ RunningIsAccurate

-----------------------------------------------------------------------------
\* Every variable keeps its type; running, on which the type of job and live
\* depends, is accurate.
LEMMA BasicInvariant == Spec => []UIInv
<1> USE DEF UIInv, TypeOK, RunningIsAccurate, started, Loads, None, MaybeLoad, Kinds, Results, NoDialog
<1>1. Init => UIInv
  <2> SUFFICES ASSUME Init PROVE UIInv
    OBVIOUS
  <2>1. dialog \in {NoDialog} \cup ({"file", "new"} \X Kinds)
    BY DEF Init
  <2>2. events \in Seq(Loads \X Results) /\ kinds \in Seq(Kinds) /\ Len(kinds) = 0
    BY EmptySeq DEF Init
  <2>3. playMenu \in [top : BOOLEAN, item : BOOLEAN]
    BY DEF Init
  <2>4. started <= MaxLoads
    BY <2>2, LoadsAssumption
  <2>5. /\ running \in BOOLEAN /\ cancelled \in BOOLEAN /\ loadMenu \in BOOLEAN
        /\ welcome \in BOOLEAN /\ overlapped \in BOOLEAN
    BY DEF Init
  <2>6. /\ main \in {"loop", "launching", "dying", "dead"}
        /\ frame \in {"open", "closing", "gone"}
        /\ thread \in {"none", "reading", "returned", "stored", "exited"}
        /\ job \in MaybeLoad /\ result \in Results
        /\ form \in MaybeLoad /\ forms \subseteq Loads
        /\ module \in MaybeLoad /\ tree \in MaybeLoad /\ live \subseteq Loads
    BY DEF Init
  <2>7. RunningIsAccurate
    BY DEF Init
  <2>8. QED
    BY <2>1, <2>2, <2>3, <2>4, <2>5, <2>6, <2>7
<1>2. UIInv /\ [Next]_vars => UIInv'
  <2> SUFFICES ASSUME UIInv, [Next]_vars PROVE UIInv'
    OBVIOUS
  <2> USE LoadsAssumption DEF runner, ui
  <2>1. CASE OpenFileDialog
    BY <2>1 DEF OpenFileDialog, UserActs
  <2>2. CASE OpenNewModDialog
    BY <2>2 DEF OpenNewModDialog, UserActs
  <2>3. CASE CloseDialog
    BY <2>3 DEF CloseDialog
  <2>4. CASE AcceptDialog
    <3>1. dialog[2] \in Kinds
      BY <2>4 DEF AcceptDialog
    <3>2. kinds' \in Seq(Kinds) /\ Len(kinds') = Len(kinds) + 1 /\ Len(kinds) \in Nat
      BY <2>4, <3>1 DEF AcceptDialog
    <3>3. started + 1 \in Loads /\ started' <= MaxLoads
      BY <2>4, <3>2 DEF AcceptDialog
    <3>4. dialog' \in {NoDialog} \cup ({"file", "new"} \X Kinds)
      BY <2>4 DEF AcceptDialog
    <3>5. form' \in MaybeLoad /\ forms' \subseteq Loads /\ loadMenu' \in BOOLEAN
      BY <2>4, <3>3 DEF AcceptDialog
    <3>6. overlapped' \in BOOLEAN
      BY <2>4 DEF AcceptDialog, Unsettled
    <3>7. /\ main' = "launching" /\ ~running /\ started' >= 1
          /\ UNCHANGED <<frame, events, runner, playMenu, welcome, tree, module, live>>
      BY <2>4, <3>2 DEF AcceptDialog
    <3>8. QED
      BY <3>2, <3>3, <3>4, <3>5, <3>6, <3>7
  <2>5. CASE Launch
    <3>1. started \in Loads
      BY <2>5 DEF Launch
    <3>2. job' \in Loads /\ live' \subseteq Loads
      BY <2>5, <3>1 DEF Launch
    <3>3. running' = TRUE /\ cancelled' = FALSE /\ thread' = "reading" /\ main' = "loop"
      BY <2>5 DEF Launch
    <3>4. UNCHANGED <<frame, dialog, events, kinds, result, ui, module, overlapped>>
      BY <2>5 DEF Launch
    <3>5. RunningIsAccurate'
      BY <3>2, <3>3
    <3>6. /\ running' \in BOOLEAN /\ cancelled' \in BOOLEAN
          /\ main' \in {"loop", "launching", "dying", "dead"}
          /\ thread' \in {"none", "reading", "returned", "stored", "exited"}
      BY <3>3
    <3>7. job' \in MaybeLoad
      BY <3>2
    <3>8. QED
      BY <3>2, <3>4, <3>5, <3>6, <3>7
  <2>6. CASE ClickCancel
    BY <2>6 DEF ClickCancel, UserActs
  <2>17. CASE CloseWelcome
    <3>1. welcome' \in BOOLEAN /\ UNCHANGED overlapped
      BY <2>17 DEF CloseWelcome
    <3>2. UNCHANGED <<main, frame, dialog, events, kinds, runner, form, forms, loadMenu, playMenu, tree, module, live>>
      BY <2>17 DEF CloseWelcome
    <3>3. QED
      BY <3>1, <3>2
  <2>7. CASE ReadModule
    <3>1. live' \subseteq Loads /\ result' \in Results /\ thread' = "returned"
      BY <2>7 DEF ReadModule
    <3>2. running
      BY <2>7 DEF ReadModule
    <3>3. UNCHANGED <<main, frame, dialog, events, kinds, running, job, cancelled, ui, module, overlapped>>
      BY <2>7 DEF ReadModule
    <3>4. QED
      BY <3>1, <3>2, <3>3
  <2>8. CASE StopRunning
    <3>1. RunningIsAccurate'
      BY <2>8 DEF StopRunning
    <3>2. running' \in BOOLEAN /\ thread' = "stored"
      BY <2>8 DEF StopRunning
    <3>3. UNCHANGED <<main, frame, dialog, events, kinds, job, result, cancelled, ui, module, live, overlapped>>
      BY <2>8 DEF StopRunning
    <3>4. QED
      BY <3>1, <3>2, <3>3
  <2>15. CASE PostDone
    <3>1. job \in Loads /\ <<job, result>> \in Loads \X Results
      BY <2>15 DEF PostDone
    <3>2. events' \in Seq(Loads \X Results)
      BY <2>15, <3>1 DEF PostDone
    <3>3. thread = "stored" /\ thread' = "exited"
      BY <2>15 DEF PostDone
    <3>4. UNCHANGED <<main, frame, dialog, kinds, running, job, result, cancelled, ui, module, live, overlapped>>
      BY <2>15 DEF PostDone
    <3>5. QED
      BY <3>2, <3>3, <3>4
  <2>16. CASE Deliver
    <3>1. Head(events) \in Loads \X Results /\ events' \in Seq(Loads \X Results)
      BY <2>16 DEF Deliver
    <3>2. form' \in MaybeLoad /\ forms' \subseteq Loads
      BY <2>16 DEF Deliver, HideForm
    <3>3. /\ module' \in MaybeLoad /\ tree' \in MaybeLoad /\ live' \subseteq Loads
          /\ loadMenu' \in BOOLEAN /\ welcome' \in BOOLEAN
          /\ playMenu' \in [top : BOOLEAN, item : BOOLEAN]
      <4>1. CASE Head(events)[2] = "ok"
        <5> DEFINE n == Head(events)[1]
        <5>1. n \in Loads /\ ShowModule(n)
          BY <2>16, <3>1, <4>1 DEF Deliver
        <5> HIDE DEF n
        <5>2. module' = n /\ live' = live \ {module}
          BY <5>1 DEF ShowModule
        <5>3. (playMenu.top /\ kinds[n] # "sga") \in BOOLEAN
          OBVIOUS
        <5>4. CASE tree = None
          <6>1. /\ tree' = n /\ loadMenu' = FALSE /\ welcome' = FALSE
                /\ playMenu' = [top |-> (playMenu.top /\ kinds[n] # "sga"), item |-> TRUE]
            BY <5>1, <5>4 DEF ShowModule
          <6>2. loadMenu' \in BOOLEAN /\ welcome' \in BOOLEAN
            BY <6>1
          <6>3. playMenu' \in [top : BOOLEAN, item : BOOLEAN]
            BY <5>3, <6>1
          <6>4. QED
            BY <5>1, <5>2, <6>1, <6>2, <6>3
        <5>5. CASE tree # None
          BY <5>1, <5>2, <5>3, <5>5 DEF ShowModule
        <5>6. QED
          BY <5>4, <5>5
      <4>2. CASE Head(events)[2] # "ok"
        BY <2>16, <4>2 DEF Deliver
      <4>3. QED
        BY <4>1, <4>2
    <3>4. UNCHANGED <<main, frame, dialog, kinds, runner, overlapped>>
      BY <2>16 DEF Deliver
    <3>5. QED
      BY <3>1, <3>2, <3>3, <3>4
  <2>9. CASE CloseMod
    BY <2>9 DEF CloseMod, UserActs
  <2>10. CASE CloseWindow
    BY <2>10 DEF CloseWindow, UserActs
  <2>11. CASE DestroyFrame
    BY <2>11 DEF DestroyFrame
  <2>12. CASE Destroyed
    <3>1. events' \in Seq(Loads \X Results)
      BY <2>12, EmptySeq DEF Destroyed
    <3>2. /\ live' \subseteq Loads /\ module' = None /\ tree' = None /\ welcome' = FALSE
          /\ form' = None /\ forms' = {} /\ main' = "dead" /\ frame' = "gone"
      BY <2>12 DEF Destroyed
    <3>3. UNCHANGED <<dialog, kinds, runner, loadMenu, playMenu, overlapped>>
      BY <2>12 DEF Destroyed
    <3>4. QED
      BY <3>1, <3>2, <3>3
  <2>13. CASE UNCHANGED vars
    BY <2>13 DEF vars
  <2>14. QED
    BY <2>1, <2>2, <2>3, <2>4, <2>5, <2>6, <2>7, <2>8, <2>9, <2>10, <2>11, <2>12, <2>13, <2>15, <2>16, <2>17
    DEF Next, User, Background, MainThread
<1>3. QED
  BY <1>1, <1>2, PTL DEF Spec

-----------------------------------------------------------------------------
\* Every variable of the window, the runner and the thread keeps its type, for
\* any number of loads.
THEOREM TypeCorrect == Spec => []TypeOK
  BY BasicInvariant, PTL DEF UIInv

\* CTaskRunner::Run, called on the GUI thread, joins a thread that has left its
\* task: IsLoading was false, and the flag is cleared after the task.
THEOREM JoinsAreShort == Spec => []JoinIsShort
<1>1. UIInv => JoinIsShort
  BY DEF UIInv, TypeOK, RunningIsAccurate, JoinIsShort
<1>2. QED
  BY <1>1, BasicInvariant, PTL

\* The loading form the frame knows is hidden by a result that is still to come:
\* none of the ways a load ends (module, nullptr, exception) forgets the event.
THEOREM FormsAwaitResults == Spec => []FormAwaitsResult
<1> USE DEF FormAwaitsResult, ThreadBusy
<1>1. Init => FormAwaitsResult
  BY DEF Init
<1>2. UIInv /\ FormAwaitsResult /\ [Next]_vars => FormAwaitsResult'
  <2> SUFFICES ASSUME UIInv, FormAwaitsResult, [Next]_vars, form' # None
               PROVE (main = "launching" \/ ThreadBusy \/ events # <<>>)'
    OBVIOUS
  <2> USE DEF runner, ui
  <2>1. CASE \/ OpenFileDialog \/ OpenNewModDialog \/ CloseDialog \/ ClickCancel
             \/ CloseWelcome \/ CloseWindow
    BY <2>1 DEF OpenFileDialog, OpenNewModDialog, CloseDialog, ClickCancel, CloseWelcome,
                CloseWindow
  <2>2. CASE AcceptDialog
    BY <2>2 DEF AcceptDialog
  <2>3. CASE CloseMod
    BY <2>3 DEF CloseMod
  <2>4. CASE ReadModule
    BY <2>4 DEF ReadModule
  <2>5. CASE StopRunning
    BY <2>5 DEF StopRunning
  <2>6. CASE PostDone
    <3>1. events \in Seq(Loads \X Results) /\ events' = Append(events, <<job, result>>)
      BY <2>6 DEF PostDone, UIInv, TypeOK
    <3>2. Len(events') = Len(events) + 1 /\ Len(events) \in Nat
      BY <3>1
    <3>3. QED
      BY <3>2
  <2>7. CASE Launch
    BY <2>7 DEF Launch
  <2>8. CASE Deliver
    BY <2>8 DEF Deliver, HideForm
  <2>9. CASE DestroyFrame
    BY <2>9 DEF DestroyFrame
  <2>10. CASE Destroyed
    BY <2>10 DEF Destroyed
  <2>11. CASE UNCHANGED vars
    BY <2>11 DEF vars
  <2>12. QED
    BY <2>1, <2>2, <2>3, <2>4, <2>5, <2>6, <2>7, <2>8, <2>9, <2>10, <2>11
    DEF Next, User, Background, MainThread
<1>3. QED
  BY <1>1, <1>2, BasicInvariant, PTL DEF Spec

-----------------------------------------------------------------------------
\* What Deliver takes from the event queue and leaves in it.
LEMMA FirstEvent ==
  ASSUME UIInv, events # <<>>
  PROVE  /\ 1 \in 1 .. Len(events) /\ Head(events) = events[1]
         /\ events[1][1] \in Loads
         /\ Len(Tail(events)) = Len(events) - 1
         /\ \A i \in 1 .. Len(Tail(events)) :
              i + 1 \in 1 .. Len(events) /\ Tail(events)[i] = events[i + 1]
<1>1. events \in Seq(Loads \X Results)
  BY DEF UIInv, TypeOK
<1>2. Len(events) \in Nat \ {0} /\ Head(events) = events[1] /\ events[1] \in Loads \X Results
  BY <1>1, EmptySeq
<1>3. /\ Len(Tail(events)) = Len(events) - 1
      /\ \A i \in 1 .. Len(Tail(events)) : Tail(events)[i] = events[i + 1]
  BY <1>1, HeadTailProperties
<1>4. QED
  BY <1>2, <1>3

\* What PostDone leaves in the event queue.
LEMMA LastEvent ==
  ASSUME UIInv, NEW e \in Loads \X Results
  PROVE  /\ Len(Append(events, e)) = Len(events) + 1 /\ Len(events) \in Nat
         /\ Append(events, e)[Len(events) + 1] = e
         /\ \A i \in 1 .. Len(events) : Append(events, e)[i] = events[i]
  BY AppendProperties DEF UIInv, TypeOK

\* A load is at no two of the places it goes through, and no load is at any of
\* them before it is launched: the deletes of ModulesHaveOwners hit one owner.
LEMMA LoadsStayApart == Spec => [](LoadsAreFresh /\ LoadsAreApart)
<1> USE DEF LoadsAreFresh, LoadsAreApart, Fresh, ThreadBusy, started, Loads, None
<1>1. Init => LoadsAreFresh /\ LoadsAreApart
  BY EmptySeq DEF Init
<1>2. UIInv /\ UIInv' /\ LoadsAreFresh /\ LoadsAreApart /\ [Next]_vars
        => LoadsAreFresh' /\ LoadsAreApart'
  <2> SUFFICES ASSUME UIInv, UIInv', LoadsAreFresh, LoadsAreApart, [Next]_vars
               PROVE LoadsAreFresh' /\ LoadsAreApart'
    OBVIOUS
  <2>0. /\ Len(kinds) \in Nat /\ Len(events) \in Nat /\ job \in MaybeLoad
        /\ \A i \in 1 .. Len(events) : events[i][1] \in Loads
    BY DEF UIInv, TypeOK
  <2> USE LoadsAssumption DEF runner, ui
  <2>1. CASE \/ OpenFileDialog \/ OpenNewModDialog \/ CloseDialog \/ ClickCancel
             \/ CloseWelcome \/ CloseWindow \/ DestroyFrame \/ UNCHANGED vars
    <3>1. UNCHANGED <<kinds, thread, job, events, module>>
      BY <2>1 DEF OpenFileDialog, OpenNewModDialog, CloseDialog, ClickCancel, CloseWelcome,
                  CloseWindow, DestroyFrame, vars
    <3>2. main' = main \/ main' = "dying"
      BY <2>1 DEF OpenFileDialog, OpenNewModDialog, CloseDialog, ClickCancel, CloseWelcome,
                  CloseWindow, DestroyFrame, vars
    <3>3. QED
      BY <3>1, <3>2
  <2>2. CASE AcceptDialog
    <3>1. Len(kinds') = Len(kinds) + 1 /\ main' = "launching" /\ main # "launching"
      BY <2>2 DEF AcceptDialog, UIInv, TypeOK
    <3>2. UNCHANGED <<thread, job, events, module>>
      BY <2>2 DEF AcceptDialog
    <3>3. LoadsAreFresh'
      BY <2>0, <3>1, <3>2 DEF UIInv, TypeOK, MaybeLoad
    <3>4. LoadsAreApart'
      BY <3>2
    <3>5. QED
      BY <3>3, <3>4
  <2>3. CASE CloseMod
    <3>1. module' = 0 /\ UNCHANGED <<main, kinds, thread, job, events>>
      BY <2>3 DEF CloseMod
    <3>2. main # "launching"
      BY <2>3 DEF CloseMod, UserActs
    <3>3. QED
      BY <2>0, <3>1, <3>2
  <2>4. CASE ReadModule
    BY <2>4 DEF ReadModule
  <2>5. CASE StopRunning
    BY <2>5 DEF StopRunning
  <2>6. CASE PostDone
    <3>1. /\ events' = Append(events, <<job, result>>) /\ thread = "stored" /\ thread' = "exited"
          /\ UNCHANGED <<main, kinds, module>>
      BY <2>6 DEF PostDone
    <3>2. job \in Loads /\ <<job, result>> \in Loads \X Results
      BY <3>1 DEF UIInv, TypeOK
    <3>3. /\ Len(events') = Len(events) + 1
          /\ events'[Len(events) + 1] = <<job, result>>
          /\ \A i \in 1 .. Len(events) : events'[i] = events[i]
      BY <3>1, <3>2, LastEvent
    <3>4. \A i \in 1 .. Len(events') :
            \/ i \in 1 .. Len(events) /\ events'[i][1] = events[i][1]
            \/ i = Len(events) + 1 /\ events'[i][1] = job
      BY <2>0, <3>3
    <3>5. LoadsAreFresh'
      BY <3>1, <3>4
    <3>6. LoadsAreApart'
      BY <3>1, <3>4
    <3>7. QED
      BY <3>5, <3>6
  <2>7. CASE Launch
    <3>1. /\ main = "launching" /\ main' = "loop" /\ job' = Len(kinds)
          /\ UNCHANGED <<kinds, events, module>>
      BY <2>7 DEF Launch
    <3>2. job' \in Loads
      BY <2>0, <3>1 DEF UIInv, TypeOK, RunningIsAccurate
    <3>3. LoadsAreFresh'
      BY <2>0, <3>1, <3>2
    <3>4. module < Len(kinds) /\ \A i \in 1 .. Len(events) : events[i][1] < Len(kinds)
      BY <3>1
    <3>5. module \in Nat /\ \A i \in 1 .. Len(events) : events[i][1] \in Nat
      BY <2>0 DEF UIInv, TypeOK, MaybeLoad
    <3>6. LoadsAreApart'
      BY <2>0, <3>1, <3>4, <3>5
    <3>7. QED
      BY <3>3, <3>6
  <2>8. CASE Deliver
    <3>1. /\ events # <<>> /\ events' = Tail(events) /\ main = "loop"
          /\ UNCHANGED <<main, kinds, thread, job>>
      BY <2>8 DEF Deliver
    <3>2. module' = module \/ module' = Head(events)[1]
      BY <2>8 DEF Deliver, ShowModule
    <3>3. /\ 1 \in 1 .. Len(events) /\ Head(events) = events[1]
          /\ \A i \in 1 .. Len(events') :
               i + 1 \in 1 .. Len(events) /\ events'[i] = events[i + 1]
      BY <3>1, FirstEvent
    <3>4. LoadsAreFresh'
      BY <3>1, <3>2, <3>3
    <3>5. ThreadBusy' => job' # module' /\ \A i \in 1 .. Len(events') : events'[i][1] # job'
      BY <3>1, <3>2, <3>3
    <3>6. \A i, j \in 1 .. Len(events') : events'[i][1] = events'[j][1] => i = j
      <4> SUFFICES ASSUME NEW i \in 1 .. Len(events'), NEW j \in 1 .. Len(events'),
                          events'[i][1] = events'[j][1]
                   PROVE i = j
        OBVIOUS
      <4>1. /\ i + 1 \in 1 .. Len(events) /\ j + 1 \in 1 .. Len(events)
            /\ events[i + 1][1] = events[j + 1][1]
        BY <3>3
      <4>2. i + 1 = j + 1
        BY <4>1
      <4>3. QED
        BY <4>2
    <3>7. \A i \in 1 .. Len(events') : events'[i][1] # module'
      <4> SUFFICES ASSUME NEW i \in 1 .. Len(events')
                   PROVE events'[i][1] # module'
        OBVIOUS
      <4>1. i + 1 \in 1 .. Len(events) /\ i + 1 # 1 /\ events'[i][1] = events[i + 1][1]
        BY <3>3
      <4>2. events[i + 1][1] # events[1][1]
        BY <3>3, <4>1
      <4>3. QED
        BY <3>2, <3>3, <4>1, <4>2
    <3>8. QED
      BY <3>4, <3>5, <3>6, <3>7
  <2>9. CASE Destroyed
    <3>1. events' = <<>> /\ module' = 0 /\ main' = "dead" /\ ~ThreadBusy /\ UNCHANGED <<kinds, thread>>
      BY <2>9 DEF Destroyed
    <3>2. Len(events') = 0
      BY <3>1, EmptySeq
    <3>3. QED
      BY <2>0, <3>1, <3>2
  <2>10. QED
    BY <2>1, <2>2, <2>3, <2>4, <2>5, <2>6, <2>7, <2>8, <2>9
    DEF Next, User, Background, MainThread
<1>3. QED
  BY <1>1, <1>2, BasicInvariant, PTL DEF Spec

-----------------------------------------------------------------------------
\* Owned, by membership: what the thread holds, what an event carries, what the
\* ModuleManager has.
ThreadOwns(n) ==
  /\ thread = "reading" \/ (thread \in {"returned", "stored"} /\ result = "ok")
  /\ n = job
EventOwns(n) == \E i \in 1 .. Len(events) : events[i][1] = n /\ events[i][2] = "ok"
ManagerOwns(n) == n = module
EachHasOwner ==
  frame # "gone" =>
    \A n \in Loads : n \in live <=> ThreadOwns(n) \/ EventOwns(n) \/ ManagerOwns(n)

\* From the launch of a load to the deletion of its module, exactly one of the
\* thread, its event and the ModuleManager owns the CModuleFile: no way a load
\* ends leaks the module, and none deletes one that is still owned.
THEOREM NoModuleIsOrphaned == Spec => []ModulesHaveOwners
<1> USE DEF EachHasOwner, ManagerOwns
<1>1. Init => EachHasOwner
  BY EmptySeq DEF Init, ThreadOwns, EventOwns, Loads, None
<1>2. /\ UIInv /\ LoadsAreFresh /\ LoadsAreApart
      /\ EachHasOwner /\ [Next]_vars
      => EachHasOwner'
  <2> SUFFICES ASSUME UIInv, LoadsAreFresh, LoadsAreApart,
                      EachHasOwner, [Next]_vars,
                      frame' # "gone", NEW n \in Loads
               PROVE (n \in live <=> ThreadOwns(n) \/ EventOwns(n) \/ ManagerOwns(n))'
    BY DEF Loads
  <2>0. frame # "gone" => (n \in live <=> ThreadOwns(n) \/ EventOwns(n) \/ ManagerOwns(n))
    OBVIOUS
  <2>n. n # None
    BY DEF Loads, None
  <2> USE DEF runner, ui
  <2>1. CASE \/ OpenFileDialog \/ OpenNewModDialog \/ CloseDialog \/ ClickCancel
             \/ CloseWelcome \/ CloseWindow \/ DestroyFrame \/ AcceptDialog \/ UNCHANGED vars
    <3>1. UNCHANGED <<live, thread, job, result, events, module>>
      BY <2>1 DEF OpenFileDialog, OpenNewModDialog, CloseDialog, ClickCancel, CloseWelcome,
                  CloseWindow, DestroyFrame, AcceptDialog, vars
    <3>2. frame # "gone"
      BY <2>1 DEF OpenFileDialog, OpenNewModDialog, CloseDialog, ClickCancel, CloseWelcome,
                  CloseWindow, DestroyFrame, AcceptDialog, UserActs, vars
    <3>3. QED
      BY <2>0, <3>1, <3>2 DEF ThreadOwns, EventOwns
  <2>2. CASE CloseMod
    <3>1. /\ frame # "gone" /\ live' = live \ {module} /\ module' = None
          /\ UNCHANGED <<thread, job, result, events>>
      BY <2>2 DEF CloseMod, UserActs
    <3>2. ThreadOwns(n)' <=> ThreadOwns(n)
      BY <3>1 DEF ThreadOwns
    <3>3. EventOwns(n)' <=> EventOwns(n)
      BY <3>1 DEF EventOwns
    <3>4. n = module => ~ThreadOwns(n) /\ ~EventOwns(n)
      BY DEF LoadsAreApart, ThreadBusy, ThreadOwns, EventOwns
    <3>5. QED
      BY <2>0, <2>n, <3>1, <3>2, <3>3, <3>4
  <2>3. CASE ReadModule
    <3>1. /\ thread = "reading" /\ thread' = "returned"
          /\ live' = IF result' = "ok" THEN live ELSE live \ {job}
          /\ UNCHANGED <<frame, job, events, module>>
      BY <2>3 DEF ReadModule
    <3>2. ThreadOwns(n) <=> n = job
      BY <3>1 DEF ThreadOwns
    <3>3. ThreadOwns(n)' <=> result' = "ok" /\ n = job
      BY <3>1 DEF ThreadOwns
    <3>4. EventOwns(n)' <=> EventOwns(n)
      BY <3>1 DEF EventOwns
    <3>5. n = job => ~EventOwns(n) /\ n # module
      BY <3>1 DEF LoadsAreApart, ThreadBusy, EventOwns
    <3>6. QED
      BY <2>0, <3>1, <3>2, <3>3, <3>4, <3>5
  <2>4. CASE StopRunning
    <3>1. /\ thread = "returned" /\ thread' = "stored"
          /\ UNCHANGED <<frame, live, job, result, events, module>>
      BY <2>4 DEF StopRunning
    <3>2. QED
      BY <2>0, <3>1 DEF ThreadOwns, EventOwns
  <2>5. CASE PostDone
    <3>1. /\ thread = "stored" /\ thread' = "exited"
          /\ events' = Append(events, <<job, result>>)
          /\ UNCHANGED <<frame, live, module>>
      BY <2>5 DEF PostDone
    <3>2. <<job, result>> \in Loads \X Results
      BY <3>1 DEF UIInv, TypeOK, RunningIsAccurate, MaybeLoad
    <3>3. /\ Len(events') = Len(events) + 1 /\ Len(events) \in Nat
          /\ events'[Len(events) + 1] = <<job, result>>
          /\ \A i \in 1 .. Len(events) : events'[i] = events[i]
      BY <3>1, <3>2, LastEvent
    <3>4. EventOwns(n)' <=> EventOwns(n) \/ (n = job /\ result = "ok")
      BY <3>3 DEF EventOwns
    <3>5. ThreadOwns(n) <=> n = job /\ result = "ok"
      BY <3>1 DEF ThreadOwns
    <3>6. ~ThreadOwns(n)'
      BY <3>1 DEF ThreadOwns
    <3>7. QED
      BY <2>0, <3>1, <3>4, <3>5, <3>6
  <2>6. CASE Launch
    <3>1. /\ thread \in {"none", "exited"} /\ thread' = "reading"
          /\ job' = started /\ live' = live \cup {started}
          /\ UNCHANGED <<frame, events, module>>
      BY <2>6 DEF Launch
    <3>2. ~ThreadOwns(n) /\ (ThreadOwns(n)' <=> n = started)
      BY <3>1 DEF ThreadOwns
    <3>3. EventOwns(n)' <=> EventOwns(n)
      BY <3>1 DEF EventOwns
    <3>4. QED
      BY <2>0, <3>1, <3>2, <3>3
  <2>7. CASE Deliver
    <3>1. /\ frame # "gone" /\ events # <<>> /\ events' = Tail(events)
          /\ UNCHANGED <<frame, thread, job, result>>
      BY <2>7 DEF Deliver
    <3>2. ThreadOwns(n)' <=> ThreadOwns(n)
      BY <3>1 DEF ThreadOwns
    <3> DEFINE e == Head(events)
    <3>3. /\ 1 \in 1 .. Len(events) /\ e = events[1] /\ e[1] \in Loads
          /\ Len(events') = Len(events) - 1 /\ Len(events) \in Nat
          /\ \A i \in 1 .. Len(events') :
               i + 1 \in 1 .. Len(events) /\ events'[i] = events[i + 1]
      BY <3>1, FirstEvent DEF UIInv, TypeOK
    <3> HIDE DEF e
    <3>4. EventOwns(n) <=> EventOwns(n)' \/ (n = e[1] /\ e[2] = "ok")
      <4>1. EventOwns(n)' => EventOwns(n)
        BY <3>3 DEF EventOwns
      <4>2. n = e[1] /\ e[2] = "ok" => EventOwns(n)
        BY <3>3 DEF EventOwns
      <4>3. ASSUME EventOwns(n), ~(n = e[1] /\ e[2] = "ok") PROVE EventOwns(n)'
        <5>1. PICK i \in 1 .. Len(events) : events[i][1] = n /\ events[i][2] = "ok"
          BY <4>3 DEF EventOwns
        <5>2. i # 1
          BY <3>3, <4>3, <5>1
        <5>3. i - 1 \in 1 .. Len(events') /\ events'[i - 1] = events[i]
          BY <3>3, <5>2
        <5>4. QED
          BY <5>1, <5>3 DEF EventOwns
      <4>4. QED
        BY <4>1, <4>2, <4>3
    <3>5. n = e[1] => ~EventOwns(n)'
      <4> SUFFICES ASSUME n = e[1], NEW i \in 1 .. Len(events'), events'[i][1] = n
                   PROVE FALSE
        BY DEF EventOwns
      <4>1. i + 1 \in 1 .. Len(events) /\ events[i + 1][1] = events[1][1] /\ i + 1 # 1
        BY <3>3
      <4>2. QED
        BY <3>3, <4>1 DEF LoadsAreApart
    <3>6. n = e[1] => ~ThreadOwns(n) /\ n # module
      BY <3>3 DEF LoadsAreApart, ThreadBusy, ThreadOwns
    <3>7. n = module => ~ThreadOwns(n) /\ ~EventOwns(n)
      BY DEF LoadsAreApart, ThreadBusy, ThreadOwns, EventOwns
    <3>8. CASE e[2] = "ok"
      <4>1. module' = e[1] /\ live' = live \ {module}
        BY <2>7, <3>8 DEF Deliver, ShowModule, e
      <4>2. QED
        BY <2>0, <3>1, <3>2, <3>4, <3>5, <3>6, <3>7, <3>8, <4>1
    <3>9. CASE e[2] # "ok"
      <4>1. UNCHANGED <<module, live>>
        BY <2>7, <3>9 DEF Deliver, e
      <4>2. QED
        BY <2>0, <3>1, <3>2, <3>4, <3>9, <4>1
    <3>10. QED
      BY <3>8, <3>9
  <2>8. CASE Destroyed
    BY <2>8 DEF Destroyed
  <2>9. QED
    BY <2>1, <2>2, <2>3, <2>4, <2>5, <2>6, <2>7, <2>8
    DEF Next, User, Background, MainThread
<1>3. UIInv /\ EachHasOwner => ModulesHaveOwners
  <2> SUFFICES ASSUME UIInv, EachHasOwner, frame # "gone" PROVE live = Owned
    BY DEF ModulesHaveOwners
  <2>1. live \subseteq Loads /\ module \in MaybeLoad
    BY DEF UIInv, TypeOK
  <2>2. events \in Seq(Loads \X Results) /\ DOMAIN events = 1 .. Len(events)
    BY DEF UIInv, TypeOK
  <2>3. \A i \in DOMAIN events : events[i][1] \in Loads
    BY <2>2
  <2>4. thread # "none" => job \in Loads
    BY DEF UIInv, TypeOK, RunningIsAccurate, MaybeLoad
  <2>5. Owned \subseteq Loads
    BY <2>1, <2>3, <2>4 DEF Owned, MaybeLoad
  <2>6. \A n \in Loads : n \in Owned <=> ThreadOwns(n) \/ EventOwns(n) \/ ManagerOwns(n)
    <3> TAKE n \in Loads
    <3>0. n # None
      BY DEF Loads, None
    <3>1. EventOwns(n) <=> n \in {events[i][1] : i \in {j \in DOMAIN events : events[j][2] = "ok"}}
      BY <2>2 DEF EventOwns
    <3>2. ThreadOwns(n) <=>
            n \in (IF thread = "reading" \/ (thread \in {"returned", "stored"} /\ result = "ok")
                     THEN {job} ELSE {})
      BY DEF ThreadOwns
    <3>3. ManagerOwns(n) <=> n \in {module} \ {None}
      BY <3>0
    <3>4. QED
      BY <3>1, <3>2, <3>3 DEF Owned
  <2>7. QED
    BY <2>1, <2>5, <2>6
<1>4. QED
  BY <1>1, <1>2, <1>3, BasicInvariant, LoadsStayApart, PTL DEF Spec

-----------------------------------------------------------------------------
\* As long as no load began before the last one was settled, a module is at one
\* place at most: launched, read, in the event queue or in the window.
OneAtATime ==
  frame = "open" /\ ~overlapped =>
    /\ main = "launching" => module = None /\ events = <<>> /\ ~ThreadBusy
    /\ ThreadBusy => module = None /\ events = <<>>
    /\ events # <<>> => module = None /\ Len(events) = 1

WindowInv == OneAtATime /\ WindowMatchesModule

\* The tree and the welcome page follow the module, overlapping loads included;
\* without overlap the tree is that of the module, and no stale form is up.
THEOREM WindowIsRight == Spec => []WindowMatchesModule
<1> USE DEF OneAtATime, WindowMatchesModule, ThreadBusy, None
<1>1. Init => WindowInv
  BY DEF Init, WindowInv
<1>2. UIInv /\ FormAwaitsResult /\ WindowInv /\ [Next]_vars => WindowInv'
  <2> SUFFICES ASSUME UIInv, FormAwaitsResult, WindowInv, [Next]_vars, frame' = "open"
               PROVE WindowInv'
    BY DEF WindowInv
  <2> USE DEF runner, ui
  <2>1. CASE OpenFileDialog \/ OpenNewModDialog \/ CloseDialog \/ ClickCancel
    BY <2>1 DEF OpenFileDialog, OpenNewModDialog, CloseDialog, ClickCancel, WindowInv
  <2>2. CASE CloseWindow \/ DestroyFrame \/ Destroyed
    BY <2>2 DEF CloseWindow, DestroyFrame, Destroyed, UserActs
  <2>3. CASE AcceptDialog
    <3>1. /\ main = "loop" /\ main' = "launching" /\ frame = "open"
          /\ overlapped' = (overlapped \/ Unsettled)
          /\ form' = started + 1 /\ forms' = forms \cup {started + 1}
          /\ UNCHANGED <<thread, events, module, tree, welcome>>
      BY <2>3 DEF AcceptDialog
    <3>2. ASSUME ~overlapped' PROVE OneAtATime' /\ tree' = module' /\ forms' = {form'} \ {None}
      <4>1. ~overlapped /\ module = None /\ events = <<>> /\ ~ThreadBusy
        BY <3>1, <3>2 DEF Unsettled
      <4>2. form = None /\ forms = {}
        BY <3>1, <4>1 DEF FormAwaitsResult, WindowInv
      <4>3. started + 1 # None
        BY DEF started, UIInv, TypeOK
      <4>4. QED
        BY <3>1, <4>1, <4>2, <4>3 DEF WindowInv
    <3>3. QED
      BY <3>1, <3>2 DEF WindowInv
  <2>4. CASE Launch
    BY <2>4 DEF Launch, WindowInv
  <2>5. CASE ReadModule
    BY <2>5 DEF ReadModule, WindowInv
  <2>6. CASE StopRunning
    BY <2>6 DEF StopRunning, WindowInv
  <2>7. CASE PostDone
    <3>1. /\ frame = "open" /\ thread = "stored" /\ thread' = "exited"
          /\ events' = Append(events, <<job, result>>)
          /\ UNCHANGED <<main, module, form, forms, tree, welcome, overlapped>>
      BY <2>7 DEF PostDone
    <3>2. ASSUME ~overlapped PROVE OneAtATime'
      <4>1. events = <<>> /\ module = None /\ main # "launching"
        BY <3>1, <3>2 DEF WindowInv
      <4>2. Len(events') = 1
        BY <3>1, <4>1
      <4>3. QED
        BY <3>1, <4>1, <4>2
    <3>3. QED
      BY <3>1, <3>2 DEF WindowInv
  <2>8. CASE Deliver
    <3>1. /\ frame = "open" /\ main = "loop" /\ events # <<>> /\ events' = Tail(events)
          /\ UNCHANGED <<main, thread, overlapped>> /\ form' = None /\ forms' = forms \ {form}
      BY <2>8 DEF Deliver, HideForm
    <3>2. /\ (tree' = None) = (module' = None)
          /\ welcome' => module' = None
      <4>1. CASE Head(events)[2] = "ok"
        <5>1. Head(events)[1] \in Loads
          BY <3>1, FirstEvent
        <5>2. /\ module' = Head(events)[1] /\ module' # None
              /\ IF tree = None THEN tree' = Head(events)[1] /\ welcome' = FALSE
                                ELSE UNCHANGED <<tree, welcome>>
          BY <2>8, <4>1, <5>1 DEF Deliver, ShowModule, Loads
        <5>3. QED
          BY <3>1, <5>2 DEF WindowInv
      <4>2. CASE Head(events)[2] # "ok"
        BY <2>8, <3>1, <4>2 DEF Deliver, WindowInv
      <4>3. QED
        BY <4>1, <4>2
    <3>3. ASSUME ~overlapped PROVE OneAtATime' /\ tree' = module' /\ forms' = {form'} \ {None}
      <4>1. module = None /\ tree = None /\ Len(events) = 1 /\ ~ThreadBusy
        BY <3>1, <3>3 DEF WindowInv, UIInv, TypeOK
      <4>2. events' = <<>>
        <5>1. events \in Seq(Loads \X Results)
          BY DEF UIInv, TypeOK
        <5>2. QED
          BY <3>1, <4>1, <5>1
      <4>3. forms' = {}
        BY <3>1, <3>3 DEF WindowInv
      <4>4. tree' = module'
        BY <2>8, <4>1 DEF Deliver, ShowModule
      <4>5. QED
        BY <3>1, <4>1, <4>2, <4>3, <4>4
    <3>4. QED
      BY <3>1, <3>2, <3>3 DEF WindowInv
  <2>9. CASE CloseMod
    BY <2>9 DEF CloseMod, UserActs, WindowInv
  <2>10. CASE UNCHANGED vars
    BY <2>10 DEF vars, WindowInv
  <2>11. CASE CloseWelcome
    BY <2>11 DEF CloseWelcome, UserActs, WindowInv
  <2>12. QED
    BY <2>1, <2>2, <2>3, <2>4, <2>5, <2>6, <2>7, <2>8, <2>9, <2>10, <2>11
    DEF Next, User, Background, MainThread
<1>3. WindowInv => WindowMatchesModule
  BY DEF WindowInv
<1>4. QED
  BY <1>1, <1>2, <1>3, BasicInvariant, FormsAwaitResults, PTL DEF Spec
=============================================================================
