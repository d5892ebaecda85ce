---------------------------- MODULE ResourceLoad -----------------------------
(***************************************************************************)
(* rainman/module/CResourceLoader::Load on the shared pool.  A load has up *)
(* to three phases (localised text, data folders, data archives).  With    *)
(* two or more of them active, each phase is itself a task of the pool;    *)
(* and each phase submits one task per file, folder or archive to the same *)
(* pool and waits for them, in order, on the worker it occupies.  Load     *)
(* then goes on to the required mods and the engine, which are loaded the  *)
(* same way one after the other, unless an error stops it.                 *)
(*                                                                         *)
(* Task <<p, 0>> is phase p, task <<p, i>> the i-th item of phase p.        *)
(***************************************************************************)
EXTENDS TaskQueue, FiniteSetsExt

CONSTANTS
  Phases,        \* in the order in which Load submits and collects them
  MaxItems,      \* bound: files, folders or archives of one phase
  DefaultWrite   \* items of the folders phase with bIsDefaultWrite

Ucs == "ucs"
Folders == "folders"
Archives == "archives"

Items == 1 .. MaxItems
NoError == MaxItems + 1

ASSUME LoadAssumption ==
  /\ Phases = <<Ucs, Folders, Archives>>
  /\ MaxItems \in Nat \ {0}
  /\ DefaultWrite \subseteq Items
  /\ Tasks = {Ucs, Folders, Archives} \X (0 .. MaxItems)
  /\ Outcomes = {"ok", "missing", "error"}

PhaseSet == {Ucs, Folders, Archives}
PhaseTask(p) == <<p, 0>>
Item(p, i) == <<p, i>>

VARIABLES
  active,       \* the phases iReloadWhat asks for
  loader,       \* what the thread inside Load is doing
  phase,        \* what each phase is doing
  items,        \* how many items it found
  next,         \* the item it submits or collects next
  refused,      \* archives whose registration threw; 0 if their listing did
  firstError,   \* pFirstError: the item whose error the phase will report
  registered,   \* what the phase added to the module, in order
  result        \* what Load throws, or nothing

loadVars == <<active, loader, phase, items, next, refused, firstError, registered, result>>
vars == <<poolVars, loadVars>>

NoResult == <<"none", 0>>

TypeOK ==
  /\ PoolTypeOK
  /\ active \in SUBSET PhaseSet
  /\ loader \in {"begin", "launch", "wait", "returned"}
  /\ phase \in [PhaseSet -> {"off", "list", "submit", "collect", "return", "done"}]
  /\ items \in [PhaseSet -> 0 .. MaxItems]
  /\ next \in [PhaseSet -> 1 .. MaxItems + 1]
  /\ refused \in SUBSET (0 .. MaxItems)
  /\ firstError \in [PhaseSet -> 0 .. NoError]
  /\ registered \in [PhaseSet -> Seq(Items)]
  /\ result \in {NoResult} \cup (PhaseSet \X (0 .. NoError)) \cup {<<"module", 0>>}

\* Every Load has phases, vectors and futures of its own.
Each(v) == [p \in PhaseSet |-> v]

Init ==
  /\ PoolInit
  /\ active = {}
  /\ loader = "begin"
  /\ phase = Each("off") /\ items = Each(0) /\ next = Each(1)
  /\ refused = {} /\ firstError = Each(NoError) /\ registered = Each(<<>>)
  /\ result = NoResult

-----------------------------------------------------------------------------
\* The phases

\* A phase runs on the worker that took it, or inside Load if it is alone.
Concurrent == Cardinality(active) >= 2
Executing(p) ==
  IF Concurrent THEN PhaseTask(p) \in running ELSE p \in active /\ loader = "wait"

\* Mutant: the end of the listing counts as an item.
ListOneMore(p) ==
  /\ phase[p] = "list" /\ Executing(p)
  /\ \E n \in 1 .. MaxItems + 1 : items' = [items EXCEPT ![p] = n]
  /\ phase' = [phase EXCEPT ![p] = "submit"]
  /\ UNCHANGED <<poolVars, active, loader, next, refused, firstError, registered, result>>

\* The phase learns what there is to load.  A folder that cannot be listed has
\* no items for localised text and is an error for archives (item 0 stands
\* for the listing); folders come from the .module file.
List(p) ==
  /\ phase[p] = "list" /\ Executing(p)
  /\ \/ \E n \in 0 .. MaxItems :
          /\ items' = [items EXCEPT ![p] = n]
          /\ phase' = [phase EXCEPT ![p] = IF n = 0 THEN "return" ELSE "submit"]
          /\ UNCHANGED <<refused, firstError>>
     \/ /\ p = Archives
        /\ refused' = {0}
        /\ firstError' = [firstError EXCEPT ![p] = 0]
        /\ phase' = [phase EXCEPT ![p] = "return"]
        /\ UNCHANGED items
  /\ UNCHANGED <<poolVars, active, loader, next, registered, result>>

SubmitItem(p) ==
  /\ phase[p] = "submit" /\ Executing(p)
  /\ Submit(Item(p, next[p]))
  /\ IF next[p] = items[p]
       THEN /\ next' = [next EXCEPT ![p] = 1]
            /\ phase' = [phase EXCEPT ![p] = "collect"]
       ELSE /\ next' = [next EXCEPT ![p] = @ + 1]
            /\ UNCHANGED phase
  /\ UNCHANGED <<active, loader, items, refused, firstError, registered, result>>

\* What the loop over the futures does after one item.
Advance(p) ==
  /\ next' = [next EXCEPT ![p] = @ + 1]
  /\ phase' = [phase EXCEPT ![p] = IF next[p] = items[p] THEN "return" ELSE @]

\* Mutant: the last error wins.
NoteLastError(p) == firstError' = [firstError EXCEPT ![p] = next[p]]

NoteError(p) ==
  firstError' = [firstError EXCEPT ![p] = IF @ = NoError THEN next[p] ELSE @]

Register(p) == registered' = [registered EXCEPT ![p] = Append(@, next[p])]

\* future.get() of the next item; blocks until it is ready.
Collecting(p) ==
  /\ phase[p] = "collect" /\ Executing(p)
  /\ Ready(Item(p, next[p]))

Outcome(p) == future[Item(p, next[p])]

\* Mutant: the first error ends the loop.
CollectUcsUntilError ==
  /\ Collecting(Ucs)
  /\ IF Outcome(Ucs) = "ok"
       THEN Advance(Ucs) /\ Register(Ucs) /\ UNCHANGED firstError
       ELSE /\ NoteError(Ucs)
            /\ phase' = [phase EXCEPT ![Ucs] = "return"]
            /\ UNCHANGED <<next, registered>>
  /\ UNCHANGED <<poolVars, active, loader, items, refused, result>>

CollectUcs ==
  /\ Collecting(Ucs)
  /\ Advance(Ucs)
  /\ IF Outcome(Ucs) = "ok"
       THEN Register(Ucs) /\ UNCHANGED firstError
       ELSE NoteError(Ucs) /\ UNCHANGED registered
  /\ UNCHANGED <<poolVars, active, loader, items, refused, result>>

\* A folder that is missing on disk is skipped, the default write folder is
\* created and registered.  The error of a scan is not deferred: get() throws
\* it out of the loop, and the futures still outstanding are abandoned.
CollectFolder ==
  /\ Collecting(Folders)
  /\ IF Outcome(Folders) = "error"
       THEN /\ NoteError(Folders)
            /\ phase' = [phase EXCEPT ![Folders] = "return"]
            /\ UNCHANGED <<next, registered>>
       ELSE /\ Advance(Folders)
            /\ IF Outcome(Folders) = "ok" \/ next[Folders] \in DefaultWrite
                 THEN Register(Folders)
                 ELSE UNCHANGED registered
            /\ UNCHANGED firstError
  /\ UNCHANGED <<poolVars, active, loader, items, refused, result>>

\* Mutant: after an error, archives are read but no longer registered.
CollectArchiveUntilError ==
  /\ Collecting(Archives)
  /\ Advance(Archives)
  /\ IF Outcome(Archives) = "ok" /\ firstError[Archives] = NoError
       THEN Register(Archives) /\ UNCHANGED firstError
       ELSE /\ IF Outcome(Archives) = "error" THEN NoteError(Archives) ELSE UNCHANGED firstError
            /\ UNCHANGED registered
  /\ UNCHANGED <<poolVars, active, loader, items, refused, result>>

\* An archive that is not there is skipped; one that does not load, or that
\* the file map refuses, leaves its error and the others are still registered.
CollectArchive ==
  /\ Collecting(Archives)
  /\ Advance(Archives)
  /\ \/ /\ Outcome(Archives) = "missing"
        /\ UNCHANGED <<refused, firstError, registered>>
     \/ /\ Outcome(Archives) = "error"
        /\ NoteError(Archives)
        /\ UNCHANGED <<refused, registered>>
     \/ /\ Outcome(Archives) = "ok"
        /\ Register(Archives)
        /\ UNCHANGED <<refused, firstError>>
     \/ /\ Outcome(Archives) = "ok"
        /\ refused' = refused \cup {next[Archives]}
        /\ NoteError(Archives)
        /\ UNCHANGED registered
  /\ UNCHANGED <<poolVars, active, loader, items, result>>

\* The phase lambda returns the error it caught; its locals are gone.
ReturnFromPhase(p) ==
  /\ phase[p] = "return" /\ Executing(p)
  /\ phase' = [phase EXCEPT ![p] = "done"]
  /\ IF Concurrent
       THEN Finish(PhaseTask(p), IF firstError[p] = NoError THEN "ok" ELSE "error")
       ELSE UNCHANGED poolVars
  /\ UNCHANGED <<active, loader, items, next, refused, firstError, registered, result>>

-----------------------------------------------------------------------------
\* The workers, and the tasks that load one file, folder or archive

OutcomesOf(p) == IF p = Ucs THEN {"ok", "error"} ELSE Outcomes

FinishItem(p, i) ==
  /\ \E o \in OutcomesOf(p) : Finish(Item(p, i), o)
  /\ UNCHANGED loadVars

Worker == Start /\ UNCHANGED loadVars

-----------------------------------------------------------------------------
\* Load

Begin ==
  /\ loader = "begin"
  /\ active' \in SUBSET PhaseSet
  /\ phase' = [p \in PhaseSet |-> IF p \in active' THEN "list" ELSE "off"]
  /\ loader' = IF Cardinality(active') >= 2 THEN "launch" ELSE "wait"
  /\ UNCHANGED <<poolVars, items, next, refused, firstError, registered, result>>

Launched == {p \in PhaseSet : future[PhaseTask(p)] # "none"}

Launch ==
  /\ loader = "launch"
  /\ \E i \in DOMAIN Phases :
       /\ Phases[i] \in active \ Launched
       /\ \A j \in 1 .. i - 1 : Phases[j] \notin active \ Launched
       /\ Submit(PhaseTask(Phases[i]))
       /\ loader' = IF active \ Launched = {Phases[i]} THEN "wait" ELSE loader
  /\ UNCHANGED <<active, phase, items, next, refused, firstError, registered, result>>

\* All the get() of the phase futures have returned.
PhasesDone ==
  /\ loader = "wait"
  /\ \A p \in active : IF Concurrent THEN Ready(PhaseTask(p)) ELSE phase[p] = "done"

Failed(p) == p \in active /\ firstError[p] # NoError

\* "Propagate first error": in the order of Phases, not of time.
Throw ==
  /\ PhasesDone
  /\ \E i \in DOMAIN Phases :
       /\ Failed(Phases[i])
       /\ \A j \in 1 .. i - 1 : ~Failed(Phases[j])
       /\ result' = <<Phases[i], firstError[Phases[i]]>>
  /\ loader' = "returned"
  /\ UNCHANGED <<poolVars, active, phase, items, next, refused, firstError, registered>>

Succeeded == PhasesDone /\ \A p \in active : ~Failed(p)

\* The next required mod or engine, of any number: a Load of its own, with its
\* own flags.
NextModule ==
  /\ Succeeded
  /\ active' = {}
  /\ loader' = "begin"
  /\ phase' = Each("off") /\ items' = Each(0) /\ next' = Each(1)
  /\ refused' = {} /\ firstError' = Each(NoError) /\ registered' = Each(<<>>)
  /\ future' = [t \in Tasks |-> "none"]
  /\ UNCHANGED <<queue, running, result>>

\* A later stage throws: a .module file that does not load, map archives,
\* attribute inheritance or the type tables of LoadDataGeneric.
LaterStageThrows ==
  /\ Succeeded
  /\ result' = <<"module", 0>>
  /\ loader' = "returned"
  /\ UNCHANGED <<poolVars, active, phase, items, next, refused, firstError, registered>>

Return ==
  /\ Succeeded
  /\ loader' = "returned"
  /\ UNCHANGED <<poolVars, active, phase, items, next, refused, firstError, registered, result>>

PhaseStep(p) ==
  \/ List(p)
  \/ SubmitItem(p)
  \/ p = Ucs /\ CollectUcs
  \/ p = Folders /\ CollectFolder
  \/ p = Archives /\ CollectArchive
  \/ ReturnFromPhase(p)

LoaderStep == Begin \/ Launch \/ Throw \/ NextModule \/ LaterStageThrows \/ Return

Next ==
  \/ LoaderStep
  \/ \E p \in PhaseSet : PhaseStep(p)
  \/ Worker
  \/ \E p \in PhaseSet, i \in Items : FinishItem(p, i)

Fairness ==
  /\ WF_vars(LoaderStep)
  /\ \A p \in PhaseSet : WF_vars(PhaseStep(p))
  /\ WF_vars(Worker)
  /\ \A p \in PhaseSet, i \in Items : WF_vars(FinishItem(p, i))

Spec == Init /\ [][Next]_vars /\ Fairness
-----------------------------------------------------------------------------
\* Properties

\* The load never starves itself: it never happens that work is queued while
\* every worker is held by a phase that waits for queued work (CThreadPool has
\* no work stealing: future.get() on a worker just blocks it).
NoStarvation ==
  ~ /\ queue # <<>>
    /\ ~FreeWorker
    /\ \A t \in running : \E p \in PhaseSet :
         t = PhaseTask(p) /\ phase[p] = "collect" /\ ~Ready(Item(p, next[p]))

\* Load returns, throws, or goes on to the next module, whatever the flags, the
\* files and the schedule: no wait for a phase lasts for ever.
LoadReturns == loader \in {"launch", "wait"} ~> loader \in {"begin", "returned"}

Outstanding(p) == {i \in Items : future[Item(p, i)] = "pending"}

\* The tasks of a phase hold references into its locals (task, fileInfo,
\* archivePath.c_str()): none is queued or running once the phase has returned.
PhaseCollects(p) == phase[p] = "done" => Outstanding(p) = {}

NoTaskOutlivesItsPhase == \A p \in PhaseSet : PhaseCollects(p)

\* Localised text and archives, whose errors are deferred, keep it.
DeferredPhasesCollect == \A p \in {Ucs, Archives} : PhaseCollects(p)

Errors(p) ==
  {i \in 1 .. items[p] : future[Item(p, i)] = "error"} \cup (IF p = Archives THEN refused ELSE {})

\* What Load throws does not depend on the schedule: it is the error a load
\* without threads would meet first.
FirstErrorWins ==
  loader = "returned" =>
    LET failing == {i \in DOMAIN Phases : Phases[i] \in active /\ Errors(Phases[i]) # {}}
    IN  IF failing = {}
          THEN result[1] \notin PhaseSet
          ELSE LET p == Phases[Min(failing)] IN result = <<p, Min(Errors(p))>>

\* A bad file or archive costs nothing but itself: every other one is
\* registered, in the order of the list.
BadItemSparesTheRest ==
  loader = "returned" =>
    \A p \in active \ {Folders} :
      /\ \A j, k \in DOMAIN registered[p] : j < k => registered[p][j] < registered[p][k]
      /\ {registered[p][k] : k \in DOMAIN registered[p]} =
           {i \in 1 .. items[p] : future[Item(p, i)] = "ok" /\ i \notin Errors(p)}
=============================================================================
