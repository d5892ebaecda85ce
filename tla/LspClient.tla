------------------------------ MODULE LspClient -------------------------------
(***************************************************************************)
(* The language server of the script editors: lsp::CLspClient with its I/O *)
(* thread, the editors (frmScarEditor) that open, edit and close documents *)
(* through it and poll it from their timers, the View menu that switches   *)
(* it off and on (ConstructFrame), and the server process at the other end *)
(* of two pipes, which is external and may die at any moment.              *)
(*                                                                         *)
(* The GUI thread and the I/O thread meet in the queues of the client, of  *)
(* which every critical section of m_mtx is atomic.  A text is the number  *)
(* of its latest edit.  The four kinds of requests differ in what they     *)
(* carry only.  The out queue, both pipes and the server's own delay are   *)
(* one queue: a message is in it until the I/O thread handles the answer.  *)
(***************************************************************************)
EXTENDS Naturals, Sequences, SequencesExt

CONSTANTS
  Editors,
  Uri,           \* the document of each editor
  NoEditor, NoDocument,
  MaxText,       \* bound: texts of one editor
  MaxEdits,      \* bound: edits of all editors
  MaxRequests,   \* bound: requests, made before the first toggle
  MaxToggles     \* bound: uses of the View menu item

ASSUME LspAssumption ==
  /\ NoEditor \notin Editors
  /\ NoDocument \notin [version : Nat, text : 1 .. MaxText]
  /\ MaxText \in Nat \ {0} /\ MaxEdits \in Nat /\ MaxRequests \in Nat /\ MaxToggles \in Nat

Uris == {Uri[e] : e \in Editors}
Texts == 1 .. MaxText

VARIABLES
  ui,           \* the GUI thread; "stopping" while Stop joins the I/O thread,
                \* "undefined" after a callback ran for a deleted editor
  enabled,      \* ~m_bLspShutDown
  client,       \* m_pLspClient exists
  editor,       \* the editors
  toggles,      \* uses of the menu item
  hasty,        \* history: switched on again before every editor had a tick
  io,           \* the I/O thread; "none" if it is not joinable
  ready,        \* m_bReady
  stopRequested,
  out,          \* m_outQueue, and what was written but not answered yet
  pending,      \* m_pendingCallbacks
  callbacks,    \* the request callbacks, <<id, editor>>
  diagnosticsCallbacks,
  versions,     \* m_documentVersions; 0 if there is none
  nextId,       \* m_nextRequestId
  server,       \* the process
  docs,         \* the documents it has open
  confused      \* history: it got a message the protocol does not allow

frameVars == <<ui, enabled, client, toggles, hasty>>
queues == <<out, pending, callbacks, diagnosticsCallbacks, versions, nextId>>
thread == <<io, ready, stopRequested>>
process == <<server, docs, confused>>
vars == <<frameVars, editor, queues, thread, process>>

Document == [version : Nat, text : Texts]

Message ==
  [kind : {"open", "change"}, uri : Uris, version : Nat, text : Texts]
    \cup [kind : {"close"}, uri : Uris]
    \cup [kind : {"request"}, id : Nat]
    \cup [kind : {"shutdown", "exit"}]

Callback ==
  [kind : {"result"}, editor : Editors]
    \cup [kind : {"diagnostics"}, editor : Editors, text : Texts]

TypeOK ==
  /\ ui \in {"loop", "stopping", "undefined"}
  /\ enabled \in BOOLEAN /\ client \in BOOLEAN /\ hasty \in BOOLEAN
  /\ editor \in [Editors -> [state : {"new", "open", "gone"},
                             lspOpen : BOOLEAN, needsOpen : BOOLEAN, needsSync : BOOLEAN,
                             text : 0 .. MaxText, shown : 0 .. MaxText]]
  /\ toggles \in 0 .. MaxToggles
  /\ io \in {"none", "handshake", "loop", "exited"}
  /\ ready \in BOOLEAN /\ stopRequested \in BOOLEAN
  /\ out \in Seq(Message) /\ pending \in Seq(Callback)
  /\ callbacks \subseteq Nat \X Editors
  /\ diagnosticsCallbacks \in [Uris -> Editors \cup {NoEditor}]
  /\ versions \in [Uris -> Nat] /\ nextId \in Nat
  /\ server \in {"none", "running", "dead"}
  /\ docs \in [Uris -> Document \cup {NoDocument}]
  /\ confused \in BOOLEAN

NoCallbacks == [u \in Uris |-> NoEditor]
NoVersions == [u \in Uris |-> 0]
NoDocuments == [u \in Uris |-> NoDocument]

NewEditor ==
  [state |-> "new", lspOpen |-> FALSE, needsOpen |-> FALSE, needsSync |-> FALSE,
   text |-> 0, shown |-> 0]

Init ==
  /\ ui = "loop" /\ enabled = TRUE /\ client = FALSE /\ toggles = 0 /\ hasty = FALSE
  /\ editor = [e \in Editors |-> NewEditor]
  /\ out = <<>> /\ pending = <<>> /\ callbacks = {} /\ diagnosticsCallbacks = NoCallbacks
  /\ versions = NoVersions /\ nextId = 1
  /\ io = "none" /\ ready = FALSE /\ stopRequested = FALSE
  /\ server = "none" /\ docs = NoDocuments
  /\ confused = FALSE

edits == Cardinality({p \in Editors \X Texts : 1 < p[2] /\ p[2] <= editor[p[1]].text})

IsOpen(e) == editor[e].state = "open"

-----------------------------------------------------------------------------
\* The client as the GUI thread uses it

\* CProcess: what the client does to the process.
IsRunning == server = "running"
Start == server' = "running"
Kill == server' = "none" /\ docs' = NoDocuments

\* StartAsync on a new client: the process and the thread, or neither.
StartAsync ==
  \/ /\ io' = "handshake" /\ Start
     /\ UNCHANGED <<ready, stopRequested, docs, confused>>
  \/ UNCHANGED <<thread, process>>

\* ConstructFrame::GetLspClient, when it is not switched off: the client there
\* is, whatever became of its server, or a new one.
GetLspClient ==
  /\ enabled
  /\ client' = TRUE
  /\ IF client THEN UNCHANGED <<thread, process>> ELSE StartAsync

Send(m) == out' = Append(out, m)

\* Mutant: the open counts as the first change.
LspOpenDocumentSynced(e, ed) ==
  IF ready
    THEN /\ editor' = [ed EXCEPT ![e].lspOpen = TRUE, ![e].needsOpen = FALSE, ![e].needsSync = FALSE]
         /\ diagnosticsCallbacks' = [diagnosticsCallbacks EXCEPT ![Uri[e]] = e]
         /\ versions' = [versions EXCEPT ![Uri[e]] = 1]
         /\ Send([kind |-> "open", uri |-> Uri[e], version |-> 1, text |-> ed[e].text])
    ELSE /\ editor' = [ed EXCEPT ![e].needsOpen = TRUE]
         /\ UNCHANGED <<diagnosticsCallbacks, versions, out>>

\* frmScarEditor::LspOpenDocument: deferred until the server is ready.
LspOpenDocument(e, ed) ==
  IF ready
    THEN /\ editor' = [ed EXCEPT ![e].lspOpen = TRUE, ![e].needsOpen = FALSE]
         /\ diagnosticsCallbacks' = [diagnosticsCallbacks EXCEPT ![Uri[e]] = e]
         /\ versions' = [versions EXCEPT ![Uri[e]] = 1]
         /\ Send([kind |-> "open", uri |-> Uri[e], version |-> 1, text |-> ed[e].text])
    ELSE /\ editor' = [ed EXCEPT ![e].needsOpen = TRUE]
         /\ UNCHANGED <<diagnosticsCallbacks, versions, out>>

\* Mutant: the version stays.
LspSyncDocumentSameVersion(e, ed) ==
  /\ editor' = [ed EXCEPT ![e].needsSync = FALSE]
  /\ Send([kind |-> "change", uri |-> Uri[e], version |-> versions[Uri[e]], text |-> ed[e].text])
  /\ UNCHANGED <<diagnosticsCallbacks, versions>>

\* LspSyncDocument
LspSyncDocument(e, ed) ==
  /\ editor' = [ed EXCEPT ![e].needsSync = FALSE]
  /\ versions' = [versions EXCEPT ![Uri[e]] = @ + 1]
  /\ Send([kind |-> "change", uri |-> Uri[e], version |-> versions[Uri[e]] + 1,
           text |-> ed[e].text])
  /\ UNCHANGED diagnosticsCallbacks

\* Poll: the pending callbacks run in order.  A diagnostics callback shows what
\* it got; every callback holds the pointer of the editor that made it.
Shown(ed) ==
  [e \in Editors |->
    LET mine == {i \in DOMAIN pending : pending[i].kind = "diagnostics" /\ pending[i].editor = e}
    IN  IF mine = {} THEN ed[e] ELSE [ed[e] EXCEPT !.shown = pending[Max(mine)].text]]

PollRuns == \A i \in DOMAIN pending : IsOpen(pending[i].editor)

-----------------------------------------------------------------------------
\* The editors

\* Load: filling the control marks the text as modified; then the document is
\* opened, if there is a client.
OpenEditor(e) ==
  /\ ui = "loop" /\ editor[e].state = "new"
  /\ LET ed == [editor EXCEPT ![e].state = "open", ![e].text = 1, ![e].needsSync = TRUE]
     IN  \/ /\ ~enabled
            /\ editor' = ed
            /\ UNCHANGED <<client, thread, process, out, diagnosticsCallbacks, versions>>
         \/ /\ GetLspClient
            /\ LspOpenDocument(e, ed)
  /\ UNCHANGED <<ui, enabled, toggles, hasty, pending, callbacks, nextId>>

\* Mutant: an edit does not mark the text as modified.
EditUnnoticed(e) ==
  /\ ui = "loop" /\ IsOpen(e)
  /\ editor[e].text < MaxText /\ edits < MaxEdits
  /\ editor' = [editor EXCEPT ![e].text = @ + 1]
  /\ UNCHANGED <<frameVars, queues, thread, process>>

Edit(e) ==
  /\ ui = "loop" /\ IsOpen(e)
  /\ editor[e].text < MaxText /\ edits < MaxEdits
  /\ editor' = [editor EXCEPT ![e].text = @ + 1, ![e].needsSync = TRUE]
  /\ UNCHANGED <<frameVars, queues, thread, process>>

\* Completion, signature help, hover, definition.
Request(e) ==
  /\ ui = "loop" /\ IsOpen(e) /\ editor[e].lspOpen
  /\ GetLspClient
  /\ nextId <= MaxRequests /\ toggles = 0
  /\ nextId' = nextId + 1
  /\ callbacks' = callbacks \cup {<<nextId, e>>}
  /\ Send([kind |-> "request", id |-> nextId])
  /\ UNCHANGED <<ui, enabled, toggles, hasty, editor, pending, diagnosticsCallbacks, versions>>

\* The destructor, LspCloseDocument.  What is pending for the editor stays.
CloseEditor(e) ==
  /\ ui = "loop" /\ IsOpen(e)
  /\ editor' = [editor EXCEPT ![e] = [NewEditor EXCEPT !.state = "gone"]]
  /\ \/ /\ editor[e].lspOpen
        /\ GetLspClient
        /\ diagnosticsCallbacks' = [diagnosticsCallbacks EXCEPT ![Uri[e]] = NoEditor]
        /\ Send([kind |-> "close", uri |-> Uri[e]])
        /\ versions' = [versions EXCEPT ![Uri[e]] = 0]
     \/ /\ ~editor[e].lspOpen \/ ~enabled
        /\ UNCHANGED <<client, thread, process, diagnosticsCallbacks, out, versions>>
  /\ UNCHANGED <<ui, enabled, toggles, hasty, pending, callbacks, nextId>>

\* Mutant: changes come before deferred opens.
TickSyncsFirst(e) ==
  /\ ui = "loop" /\ IsOpen(e)
  /\ GetLspClient
  /\ LET ed == Shown(editor)
         opens == editor[e].needsOpen /\ ~editor[e].lspOpen /\ ~editor[e].needsSync
         syncs == editor[e].needsSync /\ editor[e].lspOpen
     IN  \/ opens /\ LspOpenDocument(e, ed)
         \/ syncs /\ LspSyncDocument(e, ed)
         \/ /\ ~opens /\ ~syncs
            /\ editor' = ed
            /\ UNCHANGED <<diagnosticsCallbacks, versions, out>>
  /\ PollRuns
  /\ pending' = <<>>
  /\ UNCHANGED <<ui, enabled, toggles, hasty, callbacks, nextId>>

\* OnLspTimer: a deferred open, else a change, never both in one tick; Poll.
Tick(e) ==
  /\ ui = "loop" /\ IsOpen(e)
  /\ GetLspClient
  /\ LET ed == Shown(editor)
         opens == editor[e].needsOpen /\ ~editor[e].lspOpen
         syncs == ~opens /\ editor[e].needsSync /\ editor[e].lspOpen
     IN  \/ opens /\ LspOpenDocument(e, ed)
         \/ syncs /\ LspSyncDocument(e, ed)
         \/ /\ ~opens /\ ~syncs
            /\ editor' = ed
            /\ UNCHANGED <<diagnosticsCallbacks, versions, out>>
  /\ PollRuns
  /\ pending' = <<>>
  /\ UNCHANGED <<ui, enabled, toggles, hasty, callbacks, nextId>>

\* Poll runs a callback whose editor was deleted since: nothing is known of what
\* follows.
TickUndefined(e) ==
  /\ ui = "loop" /\ IsOpen(e)
  /\ client /\ ~PollRuns
  /\ ui' = "undefined"
  /\ UNCHANGED <<enabled, client, toggles, hasty, editor, queues, thread, process>>

\* The tick of an editor without a client: to be opened again later.
TickDisabled(e) ==
  /\ ui = "loop" /\ IsOpen(e)
  /\ ~enabled /\ editor[e].lspOpen
  /\ editor' = [editor EXCEPT ![e].lspOpen = FALSE, ![e].needsOpen = TRUE]
  /\ UNCHANGED <<frameVars, queues, thread, process>>

-----------------------------------------------------------------------------
\* OnLspToggle; OnCloseWindow switches the server off in the same way.

EmptyQueues ==
  /\ out' = <<>> /\ pending' = <<>> /\ callbacks' = {} /\ diagnosticsCallbacks' = NoCallbacks
  /\ versions' = NoVersions /\ nextId' = 1

\* Stop up to the join, if there is a thread to join.
SwitchOff ==
  /\ ui = "loop" /\ enabled /\ toggles < MaxToggles
  /\ toggles' = toggles + 1
  /\ enabled' = FALSE
  /\ IF io = "none"
       THEN /\ client' = FALSE
            /\ EmptyQueues
            /\ UNCHANGED <<ui, stopRequested>>
       ELSE /\ ui' = "stopping"
            /\ stopRequested' = TRUE
            /\ out' = out \o << [kind |-> "shutdown"], [kind |-> "exit"] >>
            /\ nextId' = nextId + 1
            /\ UNCHANGED <<client, pending, callbacks, diagnosticsCallbacks, versions>>
  /\ UNCHANGED <<hasty, editor, io, ready, process>>

\* The rest of Stop: Kill and the resets; then the client is deleted.
Stopped ==
  /\ ui = "stopping" /\ io = "exited"
  /\ ui' = "loop"
  /\ client' = FALSE
  /\ io' = "none" /\ ready' = FALSE /\ stopRequested' = FALSE
  /\ EmptyQueues
  /\ Kill
  /\ UNCHANGED <<enabled, toggles, hasty, editor, confused>>

SwitchOn ==
  /\ ui = "loop" /\ ~enabled /\ toggles < MaxToggles
  /\ toggles' = toggles + 1
  /\ enabled' = TRUE
  /\ hasty' = (hasty \/ \E e \in Editors : IsOpen(e) /\ editor[e].lspOpen)
  /\ UNCHANGED <<ui, client, editor, queues, thread, process>>

-----------------------------------------------------------------------------
\* The I/O thread

\* RunInitHandshake: an answer within ten seconds, or not; Stop cuts it short.
Initialized ==
  /\ ui # "undefined" /\ io = "handshake" /\ IsRunning
  /\ io' = "loop" /\ ready' = TRUE
  /\ UNCHANGED <<frameVars, editor, queues, stopRequested, process>>

InitializeFails ==
  /\ ui # "undefined" /\ io = "handshake"
  /\ io' = "exited"
  /\ UNCHANGED <<frameVars, editor, queues, ready, stopRequested, process>>

\* HandleMessage.  The result of a request runs its callback once, an error
\* only drops it; diagnostics go to the editor registered for the document.
HandleResponse(id, isError) ==
  LET asked == {c \in callbacks : c[1] = id}
  IN  /\ callbacks' = callbacks \ asked
      /\ IF isError \/ asked = {}
           THEN UNCHANGED pending
           ELSE \E c \in asked : pending' = Append(pending, [kind |-> "result", editor |-> c[2]])

\* Mutant: diagnostics for a document nobody registered are queued as well.
HandleAnyNotification(u, text) ==
  /\ pending' = Append(pending,
       [kind |-> "diagnostics", editor |-> diagnosticsCallbacks[u], text |-> text])
  /\ UNCHANGED callbacks

HandleNotification(u, text) ==
  /\ pending' = IF diagnosticsCallbacks[u] = NoEditor THEN pending ELSE
       Append(pending, [kind |-> "diagnostics", editor |-> diagnosticsCallbacks[u], text |-> text])
  /\ UNCHANGED callbacks

\* Mutant: the loop ends with the process only.
IoThreadExitsWithProcess ==
  /\ ui # "undefined"
  /\ io = "loop"
  /\ server = "dead"
  /\ ready' = FALSE
  /\ out' = <<>>
  /\ io' = "exited"
  /\ UNCHANGED <<frameVars, editor, pending, callbacks, diagnosticsCallbacks, versions, nextId,
                 stopRequested, process>>

\* The loop ends: the process died, or Stop was called; what is queued is
\* written, but nobody will read an answer.
IoThreadExits ==
  /\ ui # "undefined"
  /\ io = "loop"
  /\ stopRequested \/ server = "dead"
  /\ ready' = (ready /\ server # "dead")
  /\ out' = <<>>
  /\ io' = "exited"
  /\ UNCHANGED <<frameVars, editor, pending, callbacks, diagnosticsCallbacks, versions, nextId,
                 stopRequested, process>>

-----------------------------------------------------------------------------
\* The server (external).  It takes messages in order, answers each request,
\* and publishes diagnostics after a didChange (frmScarEditor::Load relies on
\* no more than that).

Refused(m) ==
  \/ m.kind = "open" /\ docs[m.uri] # NoDocument
  \/ m.kind \in {"change", "close"} /\ docs[m.uri] = NoDocument
  \/ m.kind = "change" /\ docs[m.uri] # NoDocument /\ docs[m.uri].version >= m.version

Updated(m) ==
  CASE m.kind \in {"open", "change"} ->
         [docs EXCEPT ![m.uri] = [version |-> m.version, text |-> m.text]]
    [] m.kind = "close" -> [docs EXCEPT ![m.uri] = NoDocument]
    [] OTHER -> docs

Exchange ==
  /\ ui # "undefined" /\ io = "loop" /\ IsRunning /\ out # <<>>
  /\ out' = Tail(out)
  /\ LET m == Head(out)
     IN  /\ confused' = (confused \/ Refused(m))
         /\ docs' = Updated(m)
         /\ \/ m.kind = "request" /\ \E isError \in BOOLEAN : HandleResponse(m.id, isError)
            \/ m.kind = "change" /\ HandleNotification(m.uri, m.text)
            \/ m.kind \in {"open", "close"} /\ UNCHANGED <<callbacks, pending>>
  /\ UNCHANGED <<frameVars, editor, diagnosticsCallbacks, versions, nextId, thread, server>>

\* Once the I/O thread has gone, nobody notices.
ServerDies ==
  /\ ui # "undefined" /\ io # "exited" /\ IsRunning
  /\ server' = "dead"
  /\ docs' = NoDocuments
  /\ UNCHANGED <<frameVars, editor, queues, thread, confused>>

-----------------------------------------------------------------------------
User(e) == OpenEditor(e) \/ Edit(e) \/ Request(e) \/ CloseEditor(e)
Timer(e) == Tick(e) \/ TickUndefined(e) \/ TickDisabled(e)
IoThread == Initialized \/ InitializeFails \/ Exchange \/ IoThreadExits

Next ==
  \/ \E e \in Editors : User(e) \/ Timer(e)
  \/ SwitchOff \/ Stopped \/ SwitchOn
  \/ IoThread
  \/ ServerDies

\* Timers fire and the I/O thread runs; a server that lives reads its pipe and
\* answers.
Fairness ==
  /\ \A e \in Editors : WF_vars(Timer(e))
  /\ WF_vars(Stopped)
  /\ WF_vars(Initialized \/ InitializeFails) /\ WF_vars(Exchange) /\ WF_vars(IoThreadExits)

Spec == Init /\ [][Next]_vars /\ Fairness

-----------------------------------------------------------------------------
\* Properties

\* No server to hope for: not started, failed, or dead.
Down == client /\ (~IsRunning \/ io \in {"none", "exited"})

\* The server gets for every document a didOpen, then didChange with rising
\* versions, then a didClose, also across restarts of the server, deferred
\* opens and the handshake; unless it is switched off and on within a tick.
ServerFollowsTheProtocol == ~hasty => ~confused

\* When nothing is on its way and an editor owes no change, the server has the
\* text of the editor.
ServerHasTheText ==
  ~hasty /\ io = "loop" /\ IsRunning /\ out = <<>> =>
    \A e \in Editors : editor[e].lspOpen /\ ~editor[e].needsSync =>
      docs[Uri[e]] # NoDocument /\ docs[Uri[e]].text = editor[e].text

\* Every edit, the loading of the file included, is answered by the diagnostics
\* of the text it leads to, whenever the server becomes ready; as long as the
\* server lives and is not switched off.
DiagnosticsCatchUp ==
  \A e \in Editors :
    IsOpen(e) ~> (editor[e].shown = editor[e].text \/ ~IsOpen(e)
                    \/ toggles > 0 \/ Down \/ ui = "undefined")

\* A document whose opening was deferred, to wait for the handshake or after the
\* client was switched off, is opened once there is a server again.
DeferredOpensHappen ==
  \A e \in Editors :
    IsOpen(e) /\ editor[e].needsOpen /\ enabled ~>
      (editor[e].lspOpen \/ ~IsOpen(e) \/ ~enabled \/ Down \/ ui = "undefined")

\* Stop returns: the I/O thread sees the flag in the handshake, in its loop and
\* after the process died.
StopReturns == ui = "stopping" ~> ui = "loop"

\* Switched on, the server knows the document of every script editor.  It does not know
\* those that were opened while it was off (LspOpenDocument); no configuration checks it.
EnabledEditorsConnect ==
  \A e \in Editors :
    IsOpen(e) /\ enabled ~>
      (editor[e].lspOpen \/ ~IsOpen(e) \/ ~enabled \/ Down \/ ui = "undefined")
=============================================================================
