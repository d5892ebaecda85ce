------------------------------ MODULE ModuleLoad ------------------------------
(***************************************************************************)
(* Loading a mod into the main window: ConstructFrame, ModuleManager,      *)
(* TabManager and the loading form on the GUI thread, CModuleLoadPresenter *)
(* with its CWxTaskRunner and CTaskRunner, and the background thread.      *)
(*                                                                         *)
(* Two things make the interleavings.  The background thread clears        *)
(* m_bRunning before it posts the result, and the result waits in the      *)
(* event queue of the frame; and a modal dialog runs an event loop of its  *)
(* own, so a result may be delivered while a handler is still on the       *)
(* stack.  Load n creates module n and loading form n.                     *)
(***************************************************************************)
EXTENDS Naturals, Sequences

CONSTANT MaxLoads   \* bound: loads the user starts

ASSUME LoadsAssumption == MaxLoads \in Nat \ {0}

Loads == 1 .. MaxLoads
None == 0
MaybeLoad == Loads \cup {None}
Kinds == {"mod", "sga"}
Results == {"ok", "error", "cancelled"}

VARIABLES
  main,       \* the GUI thread: in its loop, joining the last load, or dead
  frame,      \* "open", "closing" after Destroy(), "gone"
  dialog,     \* the modal dialog that is open and what it will load
  events,     \* <<load, result>> posted with CallAfter, not yet delivered
  kinds,      \* history: what each load that was started reads
  running,    \* CTaskRunner::m_bRunning
  thread,     \* the background thread, m_thread
  job,        \* the load it works on
  result,     \* what it will report
  cancelled,  \* the token of the latest load
  form,       \* m_pLoadingForm
  forms,      \* the loading forms on screen
  loadMenu,   \* the menu items that load something are enabled
  playMenu,   \* top: the Play menu opens; item: IDM_PlayMod is enabled
  welcome,    \* the welcome page, with its load buttons, is a tab
  module,     \* ModuleManager::m_pModule
  tree,       \* the module whose file tree fills the splitter
  live,       \* the CModuleFile objects that exist
  overlapped  \* history: some load began before the last one was settled

runner == <<running, thread, job, result, cancelled>>
ui == <<form, forms, loadMenu, playMenu, welcome, tree>>
vars == <<main, frame, dialog, events, kinds, runner, ui, module, live, overlapped>>

NoDialog == <<"none", "mod">>
started == Len(kinds)

TypeOK ==
  /\ main \in {"loop", "launching", "dying", "dead"}
  /\ frame \in {"open", "closing", "gone"}
  /\ dialog \in {NoDialog} \cup ({"file", "new"} \X Kinds)
  /\ events \in Seq(Loads \X Results)
  /\ kinds \in Seq(Kinds) /\ started <= MaxLoads
  /\ running \in BOOLEAN
  /\ thread \in {"none", "reading", "returned", "stored", "exited"}
  /\ job \in MaybeLoad /\ result \in Results
  /\ cancelled \in BOOLEAN
  /\ form \in MaybeLoad /\ forms \subseteq Loads
  /\ loadMenu \in BOOLEAN /\ welcome \in BOOLEAN
  /\ playMenu \in [top : BOOLEAN, item : BOOLEAN]
  /\ module \in MaybeLoad /\ tree \in MaybeLoad
  /\ live \subseteq Loads
  /\ overlapped \in BOOLEAN

Init ==
  /\ main = "loop" /\ frame = "open" /\ dialog = NoDialog
  /\ events = <<>> /\ kinds = <<>>
  /\ running = FALSE /\ thread = "none" /\ job = None /\ result = "ok" /\ cancelled = FALSE
  /\ form = None /\ forms = {}
  /\ loadMenu = TRUE /\ playMenu = [top |-> TRUE, item |-> FALSE]
  /\ welcome = TRUE /\ tree = None
  /\ module = None /\ live = {}
  /\ overlapped = FALSE

-----------------------------------------------------------------------------
\* The user.  A modal dialog disables every other window.

UserActs == main = "loop" /\ frame = "open" /\ dialog = NoDialog

\* The menu items go grey during a load; the buttons of the welcome page do not.
LoadButton == loadMenu \/ welcome

\* DoLoadMod, DoLoadSga: nothing while IsLoading, else a file dialog.
OpenFileDialog ==
  /\ UserActs /\ LoadButton
  /\ ~running
  /\ \E k \in Kinds : dialog' = <<"file", k>>
  /\ UNCHANGED <<main, frame, events, kinds, runner, ui, module, live, overlapped>>

\* DoNewMod shows its dialog first; IsLoading is read in DoLoadMod, after it.
OpenNewModDialog ==
  /\ UserActs /\ LoadButton
  /\ dialog' = <<"new", "mod">>
  /\ UNCHANGED <<main, frame, events, kinds, runner, ui, module, live, overlapped>>

\* The tab of the welcome page has a close button, and no editor to ask.
CloseWelcome ==
  /\ UserActs /\ welcome
  /\ welcome' = FALSE
  /\ UNCHANGED <<main, frame, dialog, events, kinds, runner, form, forms, loadMenu, playMenu, tree, module, live, overlapped>>

\* The user gives up, or the new mod is saved while a load is still running.
CloseDialog ==
  /\ main = "loop" /\ dialog # NoDialog
  /\ dialog' = NoDialog
  /\ UNCHANGED <<main, frame, events, kinds, runner, ui, module, live, overlapped>>

ThreadBusy == thread \in {"reading", "returned", "stored"}
Unsettled == module # None \/ events # <<>> \/ ThreadBusy

\* Mutant: LoadMod does not look at IsLoading.
AcceptDialogWhileRunning ==
  /\ main = "loop" /\ dialog # NoDialog
  /\ started < MaxLoads
  /\ dialog' = NoDialog
  /\ kinds' = Append(kinds, dialog[2])
  /\ form' = started + 1
  /\ forms' = forms \cup {started + 1}
  /\ loadMenu' = FALSE
  /\ main' = "launching"
  /\ overlapped' = (overlapped \/ Unsettled)
  /\ UNCHANGED <<frame, events, runner, playMenu, welcome, tree, module, live>>

\* CModuleLoadPresenter::LoadMod and LoadSga up to CTaskRunner::Run, which
\* first joins the thread of the load before (Launch).
AcceptDialog ==
  /\ main = "loop" /\ dialog # NoDialog
  /\ ~running
  /\ started < MaxLoads
  /\ dialog' = NoDialog
  /\ kinds' = Append(kinds, dialog[2])
  /\ form' = started + 1
  /\ forms' = forms \cup {started + 1}
  /\ loadMenu' = FALSE
  /\ main' = "launching"
  /\ overlapped' = (overlapped \/ Unsettled)
  /\ UNCHANGED <<frame, events, runner, playMenu, welcome, tree, module, live>>

Launch ==
  /\ main = "launching"
  /\ thread \in {"none", "exited"}
  /\ running' = TRUE
  /\ cancelled' = FALSE
  /\ job' = started
  /\ thread' = "reading"
  /\ live' = live \cup {started}
  /\ main' = "loop"
  /\ UNCHANGED <<frame, dialog, events, kinds, result, ui, module, overlapped>>

\* The cancel button of any loading form reaches the token of the latest load.
ClickCancel ==
  /\ UserActs /\ forms # {}
  /\ cancelled' = TRUE
  /\ UNCHANGED <<main, frame, dialog, events, kinds, running, thread, job, result, ui, module, live, overlapped>>

-----------------------------------------------------------------------------
\* The background thread

\* Mutant: the early return for a cancelled load forgets the module.
ReadModuleLeaks ==
  /\ thread = "reading"
  /\ \/ result' \in {"ok", "error"}
     \/ kinds[job] = "mod" /\ cancelled /\ result' = "cancelled"
  /\ live' = IF result' = "error" THEN live \ {job} ELSE live
  /\ thread' = "returned"
  /\ UNCHANGED <<main, frame, dialog, events, kinds, running, job, cancelled, ui, module, overlapped>>

\* The task ends with the module, with nullptr after one of its looks at the
\* token (LoadSga has none), or with an exception; but for the first the
\* module is deleted.
ReadModule ==
  /\ thread = "reading"
  /\ \/ result' \in {"ok", "error"}
     \/ kinds[job] = "mod" /\ cancelled /\ result' = "cancelled"
  /\ live' = IF result' = "ok" THEN live ELSE live \ {job}
  /\ thread' = "returned"
  /\ UNCHANGED <<main, frame, dialog, events, kinds, running, job, cancelled, ui, module, overlapped>>

StopRunning ==
  /\ thread = "returned"
  /\ running' = FALSE
  /\ thread' = "stored"
  /\ UNCHANGED <<main, frame, dialog, events, kinds, job, result, cancelled, ui, module, live, overlapped>>

\* Mutant: a cancelled load posts nothing.
PostDoneUnlessCancelled ==
  /\ thread = "stored"
  /\ events' = IF result = "cancelled" THEN events ELSE Append(events, <<job, result>>)
  /\ thread' = "exited"
  /\ UNCHANGED <<main, frame, dialog, kinds, running, job, result, cancelled, ui, module, live, overlapped>>

\* Mutant: the result goes to a frame that was never set.
PostDoneToNobody ==
  /\ thread = "stored"
  /\ events' = Append(events, <<None, result>>)
  /\ thread' = "exited"
  /\ UNCHANGED <<main, frame, dialog, kinds, running, job, result, cancelled, ui, module, live, overlapped>>

PostDone ==
  /\ thread = "stored"
  /\ events' = Append(events, <<job, result>>)
  /\ thread' = "exited"
  /\ UNCHANGED <<main, frame, dialog, kinds, running, job, result, cancelled, ui, module, live, overlapped>>

-----------------------------------------------------------------------------
\* The event queue of the frame

\* Mutant: the pointer is cleared, the form stays on screen.
HideFormOnly ==
  /\ form' = None
  /\ UNCHANGED forms

\* HideLoadingDialog
HideForm ==
  /\ form' = None
  /\ forms' = forms \ {form}

\* OnModuleLoaded, SetModule(pMod): the services and m_pModule follow, the old
\* module is deleted; menus, tree and tabs are set up unless there is a tree.
ShowModule(n) ==
  /\ module' = n
  /\ live' = live \ {module}
  /\ IF tree = None
       THEN /\ tree' = n
            /\ loadMenu' = FALSE
            /\ welcome' = FALSE
            /\ playMenu' = [top |-> playMenu.top /\ kinds[n] # "sga", item |-> TRUE]
       ELSE /\ loadMenu' = (loadMenu \/ module = None)   \* EnableLoadMenuItems
            /\ playMenu' = [playMenu EXCEPT !.top = @ /\ kinds[n] # "sga"]
            /\ UNCHANGED <<tree, welcome>>

\* The onDone callback; it runs in the loop of a modal dialog just as well.
Deliver ==
  /\ main = "loop" /\ frame # "gone"
  /\ events # <<>>
  /\ events' = Tail(events)
  /\ HideForm
  /\ IF Head(events)[2] = "ok"
       THEN ShowModule(Head(events)[1])
       ELSE /\ loadMenu' = (loadMenu \/ module = None)   \* EnableLoadMenuItems
            /\ UNCHANGED <<playMenu, welcome, tree, module, live>>
  /\ UNCHANGED <<main, frame, dialog, kinds, runner, overlapped>>

\* OnCloseMod, SetModule(nullptr): the tree goes first, its items point into
\* the module.
CloseMod ==
  /\ UserActs /\ tree # None      \* wxID_CLOSE is enabled with the tree
  /\ loadMenu' = TRUE
  /\ playMenu' = [playMenu EXCEPT !.item = FALSE]
  /\ welcome' = TRUE
  /\ tree' = None
  /\ live' = live \ {module}
  /\ module' = None
  /\ UNCHANGED <<main, frame, dialog, events, kinds, runner, form, forms, overlapped>>

\* OnCloseWindow when no tab vetoes; the frame is deleted when the loop is idle.
CloseWindow ==
  /\ UserActs
  /\ frame' = "closing"
  /\ UNCHANGED <<main, dialog, events, kinds, runner, ui, module, live, overlapped>>

\* ~ConstructFrame reaches ~CModuleLoadPresenter: the alive flag falls, the
\* token is cancelled, the thread joined (Destroyed).
DestroyFrame ==
  /\ main = "loop" /\ frame = "closing"
  /\ main' = "dying"
  /\ cancelled' = TRUE
  /\ UNCHANGED <<frame, dialog, events, kinds, running, thread, job, result, ui, module, live, overlapped>>

\* Mutant: the destructor waits until every result was delivered.
DestroyedWhenDelivered ==
  /\ main = "dying"
  /\ ~ThreadBusy /\ events = <<>>
  /\ main' = "dead" /\ frame' = "gone"
  /\ live' = live \ {module} /\ module' = None
  /\ tree' = None /\ welcome' = FALSE /\ form' = None /\ forms' = {}
  /\ UNCHANGED <<dialog, kinds, events, runner, loadMenu, playMenu, overlapped>>

\* ~ModuleManager deletes the module, ~wxWindow the tree, the tabs and the
\* forms, ~wxEvtHandler the events that were not delivered.
Destroyed ==
  /\ main = "dying"
  /\ ~ThreadBusy
  /\ main' = "dead" /\ frame' = "gone"
  /\ events' = <<>>
  /\ live' = live \ {module} /\ module' = None
  /\ tree' = None /\ welcome' = FALSE /\ form' = None /\ forms' = {}
  /\ UNCHANGED <<dialog, kinds, runner, loadMenu, playMenu, overlapped>>

-----------------------------------------------------------------------------
User ==
  \/ OpenFileDialog \/ OpenNewModDialog \/ CloseDialog \/ AcceptDialog
  \/ ClickCancel \/ CloseWelcome \/ CloseMod \/ CloseWindow

Background == ReadModule \/ StopRunning \/ PostDone
MainThread == Launch \/ Deliver \/ DestroyFrame \/ Destroyed

Next == User \/ Background \/ MainThread

\* The task ends (its files are finite), both threads run, the loop is idle at
\* some point; the user owes nothing.
Fairness ==
  /\ WF_vars(Background)
  /\ WF_vars(Launch) /\ WF_vars(Deliver)
  /\ WF_vars(DestroyFrame) /\ WF_vars(Destroyed)

Spec == Init /\ [][Next]_vars /\ Fairness
-----------------------------------------------------------------------------
\* Properties

\* "Tree items hold borrowed pointers into CFileMap data owned by the module"
\* (SetModule): the tree in the splitter belongs to a module that exists.
TreeShowsLiveModule == frame = "open" /\ tree # None => tree \in live

\* There is a tree only while there is a module, and the welcome page with its
\* load buttons only while there is none.  And as long as no load is started
\* before the last one was settled (an open mod closed, a result delivered),
\* the tree is that of the module, and no loading form is up but the current one.
WindowMatchesModule ==
  frame = "open" =>
    /\ (tree = None) = (module = None)
    /\ welcome => module = None
    /\ ~overlapped => tree = module /\ forms = {form} \ {None}

\* The Play menu of a loaded mod opens (SetModule enables its IDM_PlayMod).  It does not
\* after an archive was open (OnModuleLoaded); no configuration checks it.
ModsCanBePlayed ==
  module # None /\ kinds[module] = "mod" => playMenu.top /\ playMenu.item

\* Every CModuleFile has an owner until the frame dies: the thread that reads
\* it, the event that carries it, or the ModuleManager; none leaks and none is
\* used after its delete, whatever dialogs and results overlap.
Owned ==
  (IF thread = "reading" \/ (thread \in {"returned", "stored"} /\ result = "ok")
     THEN {job} ELSE {})
  \cup {events[i][1] : i \in {j \in DOMAIN events : events[j][2] = "ok"}}
  \cup ({module} \ {None})

ModulesHaveOwners == frame # "gone" => live = Owned

\* The GUI thread never waits for a load: when Run joins the thread of the load
\* before, that thread is past its task.
JoinIsShort == main = "launching" => thread \in {"none", "stored", "exited"}

\* The form the frame knows is taken down: as long as it is up, a result that
\* hides it is still to come.
FormAwaitsResult ==
  form # None => main = "launching" \/ ThreadBusy \/ events # <<>>

\* The user can load again: a load ends with its module shown or with the menu
\* items enabled, also after errors, cancels and overlapping loads.
LoadMenuComesBack ==
  thread = "reading" ~> (loadMenu \/ module # None \/ frame # "open")

\* Closing the window ends the program, also in the middle of a load: the
\* destructor's join does not wait for the GUI thread.
QuitCompletes == frame = "closing" ~> frame = "gone"
=============================================================================
