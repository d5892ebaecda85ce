----------------------------- MODULE EditSession -----------------------------
(***************************************************************************)
(* What the user edits and what becomes of it: the pages of the notebook   *)
(* (cdms/frame/TabManager), the one of them that shows a file while it is  *)
(* only looked at (the preview), the editors' marks of unsaved work        *)
(* (cdms/views/frmRgdEditor, frmScarEditor, frmUCSEditor; the one of       *)
(* frmRgmMaterialEditor has no mark), what is asked when a page, the       *)
(* module or the window is closed, and the string table all UCS editors of *)
(* a module share (rainman/localization/CUcsTransaction over CUcsFile).    *)
(*                                                                         *)
(* A page stands for the address of its window: a new page may get that of *)
(* one that was deleted.  Everything runs on the GUI thread, and a message *)
(* box is answered before anything else happens, so an action is a whole   *)
(* event handler, but for the closing of the window, which asks the pages  *)
(* one by one.                                                             *)
(***************************************************************************)
EXTENDS Naturals, Sequences, FiniteSets

CONSTANTS
  Pages,      \* windows in the notebook
  Files,      \* files of the module
  Handler,    \* what the first handler of each opens
  Ids,        \* numbers of UCS entries
  Texts,      \* texts of UCS entries that are not empty
  Original,   \* the UCS file as it was found
  NoPage,     \* bound: no page open beyond the members of Pages
  NoFile

Absent == "absent"
Blank == "blank"
Entries == Texts \cup {Absent, Blank}
FileKinds == {"rgd", "text", "rgm", "image"}
Closer == "closed"     \* stands for an editor that was closed
Writer == "written"    \* stands for a later save of another editor

ASSUME EditAssumption ==
  /\ NoPage \notin Pages /\ NoFile \notin Files
  /\ {Closer, Writer} \cap (Pages \cup {NoPage}) = {} /\ Handler \in [Files -> FileKinds]
  /\ {Absent, Blank} \cap Texts = {} /\ Original \in [Ids -> Entries]

VARIABLES
  tree,         \* a module is shown: the splitter is split
  tabs,         \* the pages of the notebook, in order
  page,         \* what each of them is
  preview,      \* m_pPreviewPage
  previewFile,  \* m_sPreviewFilePath
  closing,      \* whether the window is being closed
  vetoable,     \* whether it may be kept open
  next,         \* the page that is asked next
  answered,     \* ghost: the answers so far
  rawUcs,       \* the entries in the CUcsFile of the module
  diskUcs,      \* the entries in the file
  saved,        \* ghost: for each id the text last asked to be saved
  failed,       \* ghost: the editor whose save of an id failed last, until it is written
  cut           \* ghost: the ids the last save left out, which was reported as good

noteVars == <<tabs, page, preview, previewFile>>
closeVars == <<closing, vetoable, next, answered>>
ucsVars == <<rawUcs, diskUcs, saved, failed, cut>>
vars == <<tree, noteVars, closeVars, ucsVars>>

Kinds == FileKinds \cup {"closed", "welcome", "module", "ucs"}
ISaveable == {"rgd", "text", "ucs"}
Editors == ISaveable \cup {"rgm"}
NoEdits == [i \in Ids |-> Absent]
Outcomes == {"saved", "refused", "failed"}
Answers == {"yes", "no", "cancel"}
Unasked == [p \in Pages |-> "unasked"]

\* A window as its constructor leaves it.  dirty: m_bDataNeedsSaving or m_bNeedsSave(s|ing);
\* unsaved: what it shows is not what it read or last saved; edits: m_map of its transaction.
Fresh(kind, file) == [kind |-> kind, file |-> file, dirty |-> FALSE, unsaved |-> FALSE, edits |-> NoEdits]
Closed == Fresh("closed", NoFile)

Open == {p \in Pages : page[p].kind # "closed"}
Free == Pages \ Open
Idle == closing = "no"

-----------------------------------------------------------------------------
\* TabManager.

\* GetPageIndex and DeletePage(idx): nothing when the page is not found.
Without(seq, p) ==
  IF \A n \in DOMAIN seq : seq[n] # p
    THEN seq
    ELSE LET idx == CHOOSE n \in DOMAIN seq : seq[n] = p
         IN  [n \in 1 .. Len(seq) - 1 |-> IF n < idx THEN seq[n] ELSE seq[n + 1]]

\* m_pPreviewPage is forgotten.
NoPreview == preview' = NoPage /\ previewFile' = NoFile

\* ClosePreviewTab: what is left of the notebook.
TabsButPreview == Without(tabs, preview)
PagesButPreview == [p \in Pages |-> IF p = preview THEN Closed ELSE page[p]]

\* AddPage of the manager closes the preview, once the new window exists.
AddPage(p, window) ==
  /\ p \in Free
  /\ tabs' = Append(TabsButPreview, p)
  /\ page' = [PagesButPreview EXCEPT ![p] = window]
  /\ NoPreview

\* AddPage of the notebook, which the handlers of files and the tools call, does not.
AddPageToTabs(p, window) ==
  /\ p \in Free
  /\ tabs' = Append(tabs, p)
  /\ page' = [page EXCEPT ![p] = window]
  /\ UNCHANGED <<preview, previewFile>>

\* Mutant: a preview stays one when its file is edited.
MarkKeepingPreview(p, window) ==
  /\ page' = [page EXCEPT ![p] = [window EXCEPT !.dirty = TRUE]]
  /\ UNCHANGED <<preview, previewFile>>

\* UpdateDirtyState(page, true): a preview is pinned.
Mark(p, window) ==
  /\ page' = [page EXCEPT ![p] = [window EXCEPT !.dirty = TRUE]]
  /\ IF preview = p THEN NoPreview ELSE UNCHANGED <<preview, previewFile>>

\* OnPageClosed and the deletion of the page.
DeletePage(p, pages) ==
  /\ tabs' = Without(tabs, p)
  /\ page' = [pages EXCEPT ![p] = Closed]
  /\ IF preview = p THEN NoPreview ELSE UNCHANGED <<preview, previewFile>>

-----------------------------------------------------------------------------
\* The file tree.

Window(f) == Fresh(Handler[f], f)
IsPreviewed(f) == preview # NoPage /\ previewFile = f

\* OnNodeSelected: the file replaces the one that was looked at.  A handler that throws
\* has added its page already; one that reads the file first adds none when that fails.
SelectFile(f) ==
  /\ Idle /\ tree /\ ~ IsPreviewed(f)
  /\ \/ \E p \in Free \cup ({preview} \cap Pages) :
          /\ tabs' = Append(TabsButPreview, p)
          /\ page' = [PagesButPreview EXCEPT ![p] = Window(f)]
          /\ \/ preview' = p /\ previewFile' = f
             \/ NoPreview
     \/ /\ tabs' = TabsButPreview /\ page' = PagesButPreview
        /\ NoPreview
  /\ UNCHANGED <<tree, closeVars, ucsVars>>

\* Mutant: the file of the preview is not forgotten with its page.
ActivatePreviewHalf(f) ==
  /\ Idle /\ tree /\ IsPreviewed(f)
  /\ preview' = NoPage
  /\ UNCHANGED <<tree, tabs, page, previewFile, closeVars, ucsVars>>

\* OnNodeActivate: the file that is looked at stays open.
ActivatePreview(f) ==
  /\ Idle /\ tree /\ IsPreviewed(f)
  /\ NoPreview
  /\ UNCHANGED <<tree, tabs, page, closeVars, ucsVars>>

\* OnNodeActivate of another file, and the actions of the context menu.
OpenFile(f) ==
  /\ Idle /\ tree
  /\ \E p \in Pages : AddPageToTabs(p, Window(f))
  /\ UNCHANGED <<tree, closeVars, ucsVars>>

-----------------------------------------------------------------------------
\* The editors.

\* A value changed, a node pasted over another; text typed: a marked change.
Edit(p) ==
  /\ Idle /\ page[p].kind \in {"rgd", "text"}
  /\ Mark(p, [page[p] EXCEPT !.unsaved = TRUE])
  /\ UNCHANGED <<tree, tabs, closeVars, ucsVars>>

\* A child added, deleted or pasted into a table: changed and not marked.
Restructure(p) ==
  /\ Idle /\ page[p].kind = "rgd"
  /\ page' = [page EXCEPT ![p].unsaved = TRUE]
  /\ UNCHANGED <<tree, tabs, preview, previewFile, closeVars, ucsVars>>

\* A texture or a name changed: the editor of materials has no mark.
EditMaterial(p) ==
  /\ Idle /\ page[p].kind = "rgm"
  /\ page' = [page EXCEPT ![p].unsaved = TRUE]
  /\ UNCHANGED <<tree, tabs, preview, previewFile, closeVars, ucsVars>>

\* Text undone up to the save point.
Undo(p) ==
  /\ Idle /\ page[p].kind = "text" /\ page[p].dirty
  /\ page' = [page EXCEPT ![p].dirty = FALSE, ![p].unsaved = FALSE]
  /\ UNCHANGED <<tree, tabs, preview, previewFile, closeVars, ucsVars>>

\* The code of the file of an RGD editor in a page of its own.
ViewCode(p) ==
  /\ Idle /\ page[p].kind = "rgd"
  /\ \E q \in Pages : AddPage(q, Fresh("text", page[p].file))
  /\ UNCHANGED <<tree, closeVars, ucsVars>>

OpenUcs ==
  /\ Idle /\ tree
  /\ \E p \in Pages : AddPageToTabs(p, Fresh("ucs", NoFile))
  /\ UNCHANGED <<tree, closeVars, ucsVars>>

\* CUcsTransaction::SetString and GetRawMap: own edits over the shared entries.
Merge(edits, entries) == [i \in Ids |-> IF edits[i] # Absent THEN edits[i] ELSE entries[i]]

\* Mutant: an edit goes to the shared file at once.
ChangeEntryShared(p, i, text) ==
  /\ Mark(p, [page[p] EXCEPT !.unsaved = TRUE, !.edits[i] = text])
  /\ rawUcs' = [rawUcs EXCEPT ![i] = text]
  /\ UNCHANGED <<tree, tabs, closeVars, diskUcs, saved, failed, cut>>

ChangeEntry(p, i, text) ==
  /\ Mark(p, [page[p] EXCEPT !.unsaved = TRUE, !.edits[i] = text])
  /\ UNCHANGED <<tree, tabs, closeVars, ucsVars>>

\* OnPropertyChange of an entry the editor shows.
EditEntry(p, i) ==
  /\ Idle /\ page[p].kind = "ucs" /\ Merge(page[p].edits, rawUcs)[i] # Absent
  /\ \E text \in Texts \cup {Blank} : ChangeEntry(p, i, text)

\* OnNewEntry: refused as a duplicate when the editor or the shared file has the id.
NewEntry(p, i) ==
  /\ Idle /\ page[p].kind = "ucs" /\ Merge(page[p].edits, rawUcs)[i] = Absent
  /\ ChangeEntry(p, i, Blank)

-----------------------------------------------------------------------------
\* DoSave.

\* What the window is after it: refused before the file was opened, failed when it could
\* not be.  A transaction has given its edits to the shared file by then.
AfterSave(p, outcome) ==
  CASE outcome = "saved" -> Fresh(page[p].kind, page[p].file)
    [] outcome = "failed" -> [page[p] EXCEPT !.edits = NoEdits]
    [] OTHER -> page[p]

\* What failed in p is from now on that of who.
FailedIn(p, who) == [i \in Ids |-> IF failed[i] = p THEN who ELSE failed[i]]

\* fopen has emptied the file; whether the writes and the close after it went well nobody
\* looks, and entries that did not get there are missing (or cut short).
WriteUcs(entries, lost) ==
  /\ diskUcs' = [i \in Ids |-> IF i \in lost THEN Absent ELSE entries[i]]
  /\ cut' = lost

\* CUcsTransaction::Save, once the name of the file was found.
Store(p, outcome, who) ==
  /\ rawUcs' = Merge(page[p].edits, rawUcs)
  /\ saved' = Merge(page[p].edits, saved)
  /\ \/ /\ outcome = "saved"
        /\ \E lost \in SUBSET Ids : WriteUcs(rawUcs', lost)
        /\ failed' = [i \in Ids |-> IF failed[i] = Closer /\ page[p].edits[i] = Absent THEN Writer ELSE NoPage]
     \/ /\ outcome = "failed"
        /\ failed' = [i \in Ids |-> IF page[p].edits[i] # Absent THEN who ELSE FailedIn(p, who)[i]]
        /\ UNCHANGED <<diskUcs, cut>>

\* No transaction writes anything.
KeepUcs(p, who) ==
  /\ failed' = FailedIn(p, who)
  /\ UNCHANGED <<rawUcs, diskUcs, saved, cut>>

\* who is the page itself, or Closer when it is closed after it.
DoSave(p, outcome, who) ==
  IF page[p].kind = "ucs" /\ outcome # "refused" THEN Store(p, outcome, who) ELSE KeepUcs(p, who)

\* Save of the editor's own toolbar, and Ctrl+S where ISaveable.
Save(p) ==
  /\ Idle /\ page[p].kind \in Editors
  /\ \E outcome \in Outcomes :
       /\ page' = [page EXCEPT ![p] = AfterSave(p, outcome)]
       /\ DoSave(p, outcome, p)
  /\ UNCHANGED <<tree, tabs, preview, previewFile, closeVars>>

-----------------------------------------------------------------------------
\* Closing a page, the module and the window.

\* OnTabClosing of a page that is no ISaveable or has no mark.
CloseTab(p) ==
  /\ Idle /\ p \in Open /\ ~ page[p].dirty
  /\ DeletePage(p, page)
  /\ UNCHANGED <<tree, closeVars, ucsVars>>

\* OnTabClosing of a marked page: after Yes it closes whether or not it could be saved;
\* Cancel leaves everything as it is.
CloseMarkedTab(p) ==
  /\ Idle /\ p \in Open /\ page[p].dirty
  /\ DeletePage(p, page)
  /\ \/ KeepUcs(p, Closer)
     \/ \E outcome \in Outcomes : DoSave(p, outcome, Closer)
  /\ UNCHANGED <<tree, closeVars>>

\* SetModule with a module: only its properties are open.
OpenModule ==
  /\ Idle /\ ~ tree
  /\ tree' = TRUE
  /\ \E p \in Free :
       /\ tabs' = <<p>>
       /\ page' = [q \in Pages |-> IF q = p THEN Fresh("module", NoFile) ELSE Closed]
  /\ NoPreview
  /\ UNCHANGED <<closeVars, ucsVars>>

\* OnModProperties: the page is selected or opened again.
ShowModule ==
  /\ Idle /\ tree /\ \A p \in Pages : page[p].kind # "module"
  /\ \E p \in Pages : AddPage(p, Fresh("module", NoFile))
  /\ UNCHANGED <<tree, closeVars, ucsVars>>

\* CUcsFile::Load skips entries without a text.
Loaded(entries) == [i \in Ids |-> IF entries[i] = Blank THEN Absent ELSE entries[i]]

\* Ghost: the last save of the id was reported as failed, or went wrong unseen.
Excused(i) == failed[i] \in Pages \cup {Closer} \/ i \in cut

\* SetModule with none: all pages but a new one are deleted and nobody is asked.  The
\* entries are gone with the module; it finds those of the file when it is opened again.
CloseModule ==
  /\ Idle /\ tree
  /\ tree' = FALSE
  /\ \E p \in Free :
       /\ tabs' = <<p>>
       /\ page' = [q \in Pages |-> IF q = p THEN Fresh("welcome", NoFile) ELSE Closed]
  /\ UNCHANGED <<preview, previewFile>>
  /\ rawUcs' = Loaded(diskUcs)
  /\ saved' = [i \in Ids |-> IF Excused(i) THEN diskUcs[i] ELSE saved[i]]
  /\ failed' = [i \in Ids |-> NoPage] /\ cut' = {}
  /\ UNCHANGED <<closeVars, diskUcs>>

\* Close of the window, which may be vetoed, and Exit of the menu, which may not.
CloseWindow ==
  /\ Idle
  /\ closing' = "asking" /\ vetoable' \in BOOLEAN /\ next' = 1 /\ answered' = Unasked
  /\ UNCHANGED <<tree, noteVars, ucsVars>>

\* Mutant: after a save that succeeded nobody else is asked.
NextPageHasty(p, answer) ==
  /\ next' = next + 1
  /\ answered' = [answered EXCEPT ![p] = answer]
  /\ closing' = IF next = Len(tabs) \/ (answer = "yes" /\ ~ page'[p].dirty) THEN "closed" ELSE "asking"
  /\ UNCHANGED vetoable

\* CanCloseAll: the page was asked or has nothing to save.
NextPage(p, answer) ==
  /\ next' = next + 1
  /\ answered' = [answered EXCEPT ![p] = answer]
  /\ closing' = IF next = Len(tabs) THEN "closed" ELSE "asking"
  /\ UNCHANGED vetoable

AskPage ==
  /\ closing = "asking" /\ Len(tabs) > 0
  /\ LET p == tabs[next] IN
       \/ /\ ~ page[p].dirty
          /\ NextPage(p, "unasked")
          /\ UNCHANGED <<page, ucsVars>>
       \/ /\ page[p].dirty
          /\ \E outcome \in Outcomes :
               /\ page' = [page EXCEPT ![p] = AfterSave(p, outcome)]
               /\ DoSave(p, outcome, p)
          /\ NextPage(p, "yes")
       \/ /\ page[p].dirty
          /\ NextPage(p, "no")
          /\ UNCHANGED <<page, ucsVars>>
       \/ /\ page[p].dirty
          /\ IF vetoable
               THEN closing' = "no" /\ vetoable' = FALSE /\ next' = 0 /\ answered' = Unasked
               ELSE NextPage(p, "cancel")
          /\ UNCHANGED <<page, ucsVars>>
  /\ UNCHANGED <<tree, tabs, preview, previewFile>>

\* CanCloseAll of a notebook without pages.
CloseEmptyWindow ==
  /\ closing = "asking" /\ Len(tabs) = 0
  /\ closing' = "closed"
  /\ UNCHANGED <<tree, noteVars, vetoable, next, answered, ucsVars>>

-----------------------------------------------------------------------------
Init ==
  /\ tree = FALSE
  /\ \E p \in Pages :
       /\ tabs = <<p>>
       /\ page = [q \in Pages |-> IF q = p THEN Fresh("welcome", NoFile) ELSE Closed]
  /\ preview = NoPage /\ previewFile = NoFile
  /\ closing = "no" /\ vetoable = FALSE /\ next = 0 /\ answered = Unasked
  /\ rawUcs = Loaded(Original) /\ diskUcs = Original /\ saved = Original
  /\ failed = [i \in Ids |-> NoPage] /\ cut = {}

Next ==
  \/ \E f \in Files : SelectFile(f) \/ ActivatePreview(f) \/ OpenFile(f)
  \/ \E p \in Pages :
       \/ Edit(p) \/ Restructure(p) \/ EditMaterial(p) \/ Undo(p) \/ ViewCode(p)
       \/ Save(p) \/ CloseTab(p) \/ CloseMarkedTab(p)
       \/ \E i \in Ids : EditEntry(p, i) \/ NewEntry(p, i)
  \/ OpenUcs \/ OpenModule \/ ShowModule \/ CloseModule
  \/ CloseWindow \/ AskPage \/ CloseEmptyWindow

Spec == Init /\ [][Next]_vars

-----------------------------------------------------------------------------
Windows == [kind : Kinds, file : Files \cup {NoFile}, dirty : BOOLEAN, unsaved : BOOLEAN,
            edits : [Ids -> Entries]]

\* Types; the notebook shows every open page once; the preview's page and file are
\* remembered and forgotten together (SetPreviewPage, PinPreviewTab, ClosePreviewTab).
TypeOK ==
  /\ tree \in BOOLEAN
  /\ tabs \in Seq(Pages)
  /\ page \in [Pages -> Windows]
  /\ \A p \in Pages : p \in Open <=> \E n \in DOMAIN tabs : tabs[n] = p
  /\ \A m, n \in DOMAIN tabs : tabs[m] = tabs[n] => m = n
  /\ preview \in Pages \cup {NoPage} /\ previewFile \in Files \cup {NoFile}
  /\ preview = NoPage <=> previewFile = NoFile
  /\ closing \in {"no", "asking", "closed"} /\ vetoable \in BOOLEAN /\ next \in Nat
  /\ answered \in [Pages -> Answers \cup {"unasked"}]
  /\ rawUcs \in [Ids -> Entries] /\ diskUcs \in [Ids -> Entries]
  /\ saved \in [Ids -> Entries] /\ cut \in SUBSET Ids
  /\ failed \in [Ids -> Pages \cup {NoPage, Closer, Writer}]

\* While a module is shown, the page that the next click in the tree, or the next page of
\* the manager, deletes without asking (ClosePreviewTab) is an open page of the file
\* remembered for it, of a kind some handler opens, and carries no mark
\* of unsaved work, whatever was opened, edited, undone, saved, pinned and closed before
\* (UpdateDirtyState, OnPageClosed).
PreviewIsClean ==
  tree /\ preview # NoPage =>
    /\ page[preview].kind \in FileKinds
    /\ page[preview].file = previewFile
    /\ ~ page[preview].dirty

\* When the window has closed (OnCloseWindow, CanCloseAll), the user answered for every
\* page that is still marked: No, or a Yes whose save failed; Cancel only when the close
\* could not be vetoed (OnQuit).
ExitAskedAboutEveryMark ==
  closing = "closed" =>
    \A p \in Open : page[p].dirty => answered[p] \in (IF vetoable THEN {"yes", "no"} ELSE Answers)

\* However many UCS editors are open, the file holds under every id the text that was
\* last asked to be saved there, of whichever editor, and never one that no editor was
\* told to save (CUcsTransaction::Save over the shared CUcsFile).  Excused are the ids
\* whose save was reported as failed, and those a write that nobody checked left out,
\* both until the next good save.  An entry without text counts as none, as for Load.
DiskHasWhatWasSaved ==
  \A i \in Ids : ~ Excused(i) => Loaded(diskUcs)[i] = Loaded(saved)[i]

\* What CUcsFile.h says of Save, "throws a CRainmanException on error": a save that was
\* not reported as failed has left every text that was to be saved in the file.  It fails
\* when a write after fopen does; no configuration checks it.
SavedMeansWritten ==
  \A i \in Ids : failed[i] \notin Pages \cup {Closer} => Loaded(diskUcs)[i] = Loaded(saved)[i]

\* BUG-D02 of known-bugs.md, a UCS editor that keeps unsaved changes after it was closed
\* so that a later save writes them, is fixed: no save of another editor writes what one
\* that is closed could not save (CUcsTransaction::Save).
ClosedIsNotWritten == \A i \in Ids : failed[i] # Writer

\* What ISaveable promises of IsModified: "Returns true if the editor has unsaved changes"
\* (every question before a close depends on it).  It fails for RGD documents that were
\* restructured; no configuration checks it.
UnsavedIsMarked == \A p \in Open : page[p].kind \in ISaveable /\ page[p].unsaved => page[p].dirty

\* The page a click in the tree deletes unasked shows nothing that is not saved
\* (SetPreviewPage).  It fails for RGD documents that were restructured and for every
\* edited material, which nothing pins; no configuration checks it.
NothingUnsavedIsPreviewed == tree /\ preview # NoPage => ~ page[preview].unsaved
=============================================================================
