# CorsixModStudio in TLA+

TLA+ models of the concurrent and stateful core of CorsixModStudio (CDMS), the
TLC configurations that check them on small instances, and TLAPS proofs of
their most important invariants. Paths below are relative to the repository.

## 1. The system

CDMS opens *mods* of Relic games: it reads a `.module` file, overlays its data
folders and archives into one virtual file system, shows that as a tree and
opens files in editor tabs. The code has four layers.

| Part | Where | State it keeps | Operations |
|---|---|---|---|
| Thread pool | `src/rainman/core/CThreadPool` | queue, stop flag, workers, futures | `Submit`, worker loop, destructor |
| Resource loader | `src/rainman/module/CResourceLoader` | per load: active phases, futures, first errors | `Load` and its three phases, nested loads |
| File map | `src/rainman/module/CFileMap` | sources, tree of folders and files, `mapSources`, `mapSourceNames` | register, map, open, write, erase |
| Stores | `src/rainman/io` | open files, memory ranges | `VOpenStream`, `VOpenOutputStream`, iterate |
| Archives | `src/rainman/archive` | table of contents; temporary directory tree | read; `CreateSga` with parallel compression |
| Localised text | `src/rainman/localization` | hash map and sorted shadow; a transaction's edits | load, replace, combine, save |
| Lua and inheritance | `src/rainman/lua` | Lua states, inheritance tree, file cache | load, evaluate, convert |
| Formats | `src/rainman/formats` | RGD, RGT, chunky, RGM, BFX trees | read, edit, write |
| Module files | `CModuleFile`, `CModuleParser`, `CDoWModule` | the parsed description and the loaded resources | parse, `ReloadResources`, save |
| Task runner | `src/cdms/async` | thread, `m_bRunning`, cancellation token | `Run`, `Cancel`, destructor, `CallAfter` |
| Main frame | `src/cdms/frame` | module, menus, splitter, tabs, loading form, language client | load, close, toggle, quit |
| Presenters, services | `src/cdms/presenters`, `services` | one runner each | start, cancel, deliver |
| Views, actions, tools | `src/cdms/views`, `actions`, `tools` | controls, dirty marks | user input |
| Language client | `src/lsp`, `frmScarEditor` | queues, callbacks, versions, I/O thread, process | start, stop, requests, documents, `Poll` |

Who talks to whom:

* presenters start a thread through `CWxTaskRunner`; its result comes back as an
  event of the GUI thread (`CallAfter`);
* that thread runs `CResourceLoader::Load`, which submits phases to the
  process-wide pool; phases submit items to the same pool and wait for them, and
  write to one `CFileMap` under its mutex;
* the GUI reads and writes files through the same `CFileMap`;
* the editors are pages of one notebook and tell `TabManager` when they are
  edited and saved; the file tree opens and closes pages through it; all UCS
  editors of a module share one `CUcsFile` behind transactions of their own;
* the dialog that makes archives runs `CSgaCreator` on a background thread, which
  compresses on the same pool as the loads;
* the script editors share one `CLspClient`, whose I/O thread exchanges messages
  with a server process over two pipes and queues callbacks; timers of the
  editors run them.

Hard are the nested waiting on the pool, the first-error rules of the phases,
results in flight while modal dialogs run event loops of their own, sources of
equal priority and leftovers in the file map, a server that is starting,
dying or switched off while documents open and close, a file that is written in
several passes any of which can fail, and work that must not be dropped unasked
on any way out. `PROJECT.json` lists every hazard at its line with the properties
that cover it, or the reason why none does.

What would make each part correct: the pool loses no task and no wakeup and can
always be destroyed; a load always ends, with an error that does not depend on
the schedule; the file map is a function of its sources, and a written file is
read back; modules have one owner and the window shows the module it has; the
server's view of a document is the editor's; an archive that is accepted is
whole, and what is reported as made is one that is accepted; and no work is lost
without a question, nor called saved that was not. For the parts not
modelled: what is written is read again (formats, text).

## 2. Modules

| Module | Models | Checked by | Proved in |
|---|---|---|---|
| `TaskQueue` | what the pool promises: a FIFO of tasks, at most `WorkerCount` running, futures set once | through its clients | `TaskQueue_proofs` (lemmas) |
| `ThreadPool` | `CThreadPool` with mutex, condition variable and destructor; implements `TaskQueue` | `MCThreadPool` | `ThreadPool_proofs` |
| `ResourceLoad` | `CResourceLoader::Load`; EXTENDS `TaskQueue` | `MCResourceLoad` | `ResourceLoad_proofs` |
| `ModuleLoad` | frame, presenter, runner and background thread | itself | `ModuleLoad_proofs` |
| `FileMap` | `CFileMap`, its two loading phases, saving, mass extraction | `MCFileMap` | `FileMap_proofs` |
| `LspClient` | `CLspClient`, the script editors, the toggle, the server | `MCLspClient` | `LspClient_proofs` |
| `SgaFile` | `CSgaFile`: what a reader makes of an archive, as operators | through the next | |
| `SgaCreate` | `CSgaCreator::CreateSga` and its presenter; EXTENDS `TaskQueue`, `SgaFile` | `MCSgaCreate` | `SgaCreate_proofs` |
| `EditSession` | `TabManager`, the preview, the editors' marks, closing, UCS transactions | `MCEditSession` | `EditSession_proofs` |

The load and the making of archives compose with the pool by abstraction:
`ThreadPool` is shown to implement `TaskQueue`, and `ResourceLoad` and
`SgaCreate` are built from the actions of `TaskQueue`. `FileMap` takes from `ResourceLoad` that the two phases map their
sources in order and interleaved, and that a module's phases end before those of
the next one begin.

Operators whose comment begins with `Mutant:` are plausible bugs. No
specification uses them: each property has one, named in `PROJECT.json`, that
takes the place of the definition below it and must make TLC report the property
violated.

### How the models correspond to the code

**ThreadPool.** Every critical section of `m_mtxQueue` is one action. `Push` and
`NotifyOne` are separate, since `Submit` notifies after the unlock, and so are
`SetStopping`, `NotifyAll` and `JoinAll` of the destructor. The state `"test"`
of a worker is the evaluation of the wait predicate: on entry, after a
notification, and after a spurious wakeup. The pool is a static, so nothing is
submitted during its destruction (`owner = "alive"` in `Push`), and a client
that is between push and notify is not interrupted by it.

**ResourceLoad.** Task `<<p, 0>>` is a phase and `<<p, i>>` its i-th item. With
two or more active phases (`Concurrent`) a phase can take a step only while its
task is running on a worker, which it occupies also while it waits in `get()`;
with one it runs in the loading thread. `List` is everything a phase does before
it submits. The rules of the three loops differ and are kept apart:
`CollectUcs` and `CollectArchive` keep the first error and go on,
`CollectFolder` lets the exception out of the loop and abandons the futures.
`CollectArchive` has a fourth case, an archive that was read but whose
registration throws (`refused`). `NextModule` starts over for the required mods
and engines, which the code loads one after the other with the same function;
tasks that were abandoned stay in the queue. `LaterStageThrows` stands for the
stages after the phases (map archives, required mods' module files, type
tables), which run on the loading thread.

**ModuleLoad.** Load n creates module n and loading form n. A modal dialog is a
state, not an atomic step: results may be delivered while it is open. `thread`
goes through the program points of the lambda in `CTaskRunner::Run`: reading,
returned (the flag is still set), stored (the flag is cleared, the result not
yet posted), exited. `AcceptDialog` and `Launch` are two steps because `Run`
joins the previous thread in between. `live` are the `CModuleFile` objects that
exist; deleting an object that a tree still shows is not an error of the model
but of `TreeShowsLiveModule`. `overlapped` and `kinds` are history variables.
The welcome page is a tab like any other and may be closed (`CloseWelcome`); then
the window has neither a module nor that page until a module is opened.

**FileMap.** Names are reduced to what the code distinguishes: a folder, a
folder in it, a file in each, and sources with their sort number. The sort
number is the triple it is packed from; two sources may have the same one
(Company of Heroes archives all get number 15000, extractions all number 0),
and `Put` and `Erase` do what a `std::map` ordered by that number does. Contents are version numbers:
1 for what a source had before the load, then one number per write. `Targets` is `_MakeFolderWritable`,
with the order of `mapSourceNames`, which is by address, left open.

**LspClient.** The out queue, both pipes and the delay of the server are one
queue; `Exchange` removes a message from it, lets the server act on it and lets
the I/O thread handle the answer. `Tick` is `OnLspTimer`: at most one of a
deferred open and a change, then `Poll`. Each callback carries the editor it
captured. If `Poll` would run one of an editor that was deleted, behaviour is
undefined and the state `ui = "undefined"` has no successor; the properties do
not speak about what follows. The server (external) opens, changes and closes
documents, answers requests, and publishes diagnostics after a change only,
which is what `frmScarEditor::Load` relies on.

**SgaFile, SgaCreate.** The file is a record: what the first bytes say, the data
header with its counts, table of contents, directories, file records and names,
and the data. A file record stays a sequence of words, because writer and reader
lay different structures over it: that is where version 2 goes wrong. A name is a
number whose order is that of `strcmp` and whose lower half is upper case, a
path a sequence of names; the checksum of a directory and the deflated form of a
content are parameters. Two directories may have the same checksum, which
`crc32_case_idt` gives for instance to `a[1]` and `a{1}`; then a lookup may end in
either (`FindDir` is a set, `VOpenStream` the set of what opening may give).
`SgaFile` holds both binary searches, the lookup of the table of contents, the
seek by a signed `long` (`LongEnd`), inflating, and the walk of the iterator. `SgaCreate` has one action for every write to
the output: opening it, the provisional header, the data of each file, checksum,
size, header, data checksum; each may fail, as may any compression, and the
user may then start over on the same file. The four writes at the end
(`Finalise`) may also go wrong unseen, since nobody looks at what `fflush`, the
`fseek` before the data checksum and `fclose` return, and any `fseek` flushes what
came before: `lost` remembers that the file is not what was written. The loop that
reads the archive again never ends when a read fails (`ReadFails`, state `"spin"`).
A content too long for the `long` of `VTell` cannot be compressed. Compressions an attempt left behind go
on in the pool (`Compress`), with any outcome.

**EditSession.** A page stands for the address of its window, so that a page may
be opened at the address of one that was closed: `m_pPreviewPage` is such an
address. An editor is what its mark says (`dirty`) and what is true (`unsaved`);
a UCS editor has its transaction (`edits`) over `rawUcs`, the table all share.
Every handler is one action, its message boxes included, because they are modal
and nothing else happens before they are answered; only `CanCloseAll` is taken
page by page, since each page decides with the saves of the earlier ones behind
it. `saved`, `failed`, `cut` and `answered` are history variables. `Restructure`
stands for the three commands of the RGD tree that change the document and do not
mark it, `EditMaterial` for the changes in the material editor (`.rgm`), which has
a Save of its own and no mark. The page of a file is of the kind its first
handler opens (`Handler`). A save of the string table has three outcomes:
`refused` before the file was opened, `failed` when it could not be opened (the
only error `CUcsFile::Save` throws), and `saved`, which is what the code calls it
when none of the writes to the truncated file was checked: any of the entries may
be missing (`WriteUcs`, `cut`).

## 3. Runs

| Run | Question | Bounds |
|---|---|---|
| `thread_pool` | Does the pool lose wakeups or tasks, can it be destroyed, is it a FIFO? | 2 workers, 2 clients, 3 tasks |
| `resource_load` | Does a load return, with the right error and the right registrations? | 4 workers, up to 2 items per phase |
| `resource_load_two_cores` | The same pool with two workers (**violated**) | 2 workers |
| `resource_load_abandon` | Does a task outlive the phase it refers to (**violated**) | 4 workers |
| `module_load` | Owners, waiting, forms, menus and the welcome page over overlapping loads | 3 loads |
| `module_load_tree` | Does the tree show a live module (**violated**) | 2 loads |
| `file_map` | Is the map independent of the schedule; are writes read back and confined? | 2 plans, 8 sources (2 of them extraction's), 2 files, 3 writes after the load |
| `lsp_client` | Protocol, texts, diagnostics, deferred opens, Stop | 2 editors, 1 edit, 1 request, 2 toggles |
| `sga` | Is an archive that loads whole, can every file be found, does making one end, at the limits of its words too? | words of 3 bits, 8 trees, 3 files, 2 archives, 2 workers |
| `sga_v2` | The same for version 2 (**violated**) | 1 archive |
| `edit_session` | Is anything marked lost unasked, do editors of one table agree with the file? | 3 pages, 3 files (RGD, text, material), 1 entry, 1 text besides the empty one and none |
| `edit_stale` | Is what a closed editor could not save left unwritten (**violated**) | the same |

Why the bounds suffice: a lost wakeup needs two sleeping workers, or two pushes
before a notification; a third task makes the queue outlast both. Starvation
needs as many phases as workers and one item behind them; two items distinguish
the first error from the last and an item that is skipped from the end of the
list. Three loads let a result, a running thread and a shown module coexist. In
the file map, the first plan has two sources of equal number, an output that
precedes the archives, one folder that is no output and one output that must
not be written; every distribution of the files over the sources is an initial
state. Two editors are needed for a callback to be run by another editor's tick,
two toggles to switch off and on; requests are made before the first toggle,
since they do not interact with documents. Words of three bits put the limits of
the archive's counters within reach: there are trees of seven directories, the
last number that fits, and of eight, archives that end at 32, the first place a
signed seek cannot reach, and at 33, one whose last file lies beyond, and a file
whose length a `long` cannot tell. (The number of files is cut by the same
operator as that of directories; the theorems are about both.) Three letters in
two spellings make both searches take each of their branches; the checksums of the
directories are in another order than their names, and two are equal; a second
archive meets the file and the compressions of one that failed. Three pages hold a
preview, another editor and the page that replaces it, or two UCS editors and the
page of the module. One entry is enough because a transaction treats every id by
itself; its text, the empty one and none are what `Load`, `OnNewEntry` and the
writing of the file tell apart.

The largest runs are `edit_session`, with 2.9 million states, and `sga`, with half a
million, of which each takes a minute or two.

`CHECK_DEADLOCK FALSE` is set where the system may really stop: a destroyed pool, a
load that returned, a closed window, a map with its writes used up, editors that are
all closed, the last archive made.

Numbers named as bounds in the modules: `MaxItems`, `MaxLoads`, `MaxSaves`,
`MaxText`, `MaxEdits`, `MaxRequests`, `MaxToggles`, `MaxFiles`, `MaxAttempts`; `Base`
(the width of a word), `MaxLetter` and `Pages` are bounds too. `Symmetric` of
`MCEditSession` permutes the pages, whose addresses the code only compares.

## 4. Fairness

* `ThreadPool`: a thread that can run does (`WF` of a worker's step, of a
  running task's end and of the notifications); a task returns. Nobody must
  submit, and spurious wakeups need not happen.
* `ResourceLoad`: the loading thread, each phase, the workers and each item make
  progress. An item reads a finite file.
* `ModuleLoad`: the background task ends, both threads run, the event loop
  delivers. The user owes nothing; `LoadMenuComesBack` and `QuitCompletes` hold
  although dialogs may stay open, since dialogs run event loops.
* `LspClient`: timers fire, the I/O thread runs, and a server that lives reads
  its pipe and answers. The last one is an assumption about another program:
  `CProcess::Write` blocks while the pipe is full.
* `SgaCreate`: the thread in `CreateSga` runs, and so do the workers; a
  compression ends. Nobody has to start another archive.
* `FileMap` and `EditSession` have safety properties only and no fairness.

## 5. What the passing runs show

* *Pool.* `NoLostWakeup` counts: queued tasks never exceed clients still to
  notify plus workers about to look. Together with fairness it gives
  `EverySubmittedTaskRuns`; `ImplementsTaskQueue` is the refinement, liveness
  included.
* *Load.* With four workers the nesting is harmless (`NoStarvation`,
  `LoadReturns`). `FirstErrorWins` says that what `Load` throws is what a load
  without threads would meet first: least phase, then least item.
  `BadItemSparesTheRest` and `DeferredPhasesCollect` are the two halves of
  "deferred error propagation".
* *Window.* `ModulesHaveOwners` is an equation: the objects that exist are
  exactly those owned by the thread, an event or the manager. `JoinIsShort` and
  `FormAwaitsResult` cover the gap between the running flag and the result.
  `WindowMatchesModule` says that a tree is up only with a module and the welcome
  page, whose buttons start loads, only without one, overlapping loads included;
  not that one of the two is there, since the user may close the page. That the tree
  is the one of the module it says for loads that do not overlap; with overlap that
  fails, which `module_load_tree` shows at its worst consequence.
* *File map.* `ParallelIsSequential` compares the map with the best source of a
  sequential load, first registered first among equals, whatever the
  interleaving. `ReadYourWrites` holds unless a cancelled extraction left its
  source behind.
* *Language client.* `ServerFollowsTheProtocol`, `ServerHasTheText` and
  `DiagnosticsCatchUp` hold across restarts and deferred opens. They exclude the
  case that the server is switched off and on within one timer tick (`hasty`):
  an editor then believes its document is open on the new server.
* *Archives.* `LoadableIsComplete` is about every state, not about success:
  whatever lies in the output file while the program runs or after it stopped, if
  the reader accepts it, a walk through it lists exactly the files that were
  packed, even if data were lost unseen; if nothing was, they read back. Exempt are
  trees with more directories or files than a word counts (`Countable`) and
  archives past the end of a double word (`Addressable`), for which the code does
  not look. Past 2 GiB, where offsets fit and a signed seek fails, an error is
  allowed and other bytes are not (`Readings`); that needs that such an offset is
  never one that wraps around into the header. The files of a directory that
  shares its checksum are listed and not promised to be found (`ToldApart`):
  they are not (`FoldersComeOutWhole`, section 6). `AcceptedAtTheEnd` says why the first part
  holds: nothing but the last write of the header makes the file acceptable, since
  the checksum is that of a header the file does not have before. `LookupsAgree`
  compares the two binary searches with the folded tree for every name in every
  spelling. `CreationEnds` allows the endless loop after a read error to be an end;
  without that (`CreationAlwaysEnds`) it is false of the code.
* *Editing.* `PreviewIsClean` says that `ClosePreviewTab`, which asks nobody, meets
  an unmarked page of the file it is remembered for. It does not make it harmless:
  an RGD document that was restructured and an edited material carry no mark, and
  are deleted with what was changed (`NothingUnsavedIsPreviewed`, section 6).
  `ExitAskedAboutEveryMark` relates the marks at the end to the answers given on the
  way. `DiskHasWhatWasSaved` holds for any number of editors over one table,
  whatever was discarded; exempt (`Excused`) are the entries whose last save was
  reported as failed and those a write lost unseen, until the next good save.

## 6. Findings

Five runs show the code doing something else than its documents, comments or
evident purpose. `PROJECT.json` quotes both sides.

1. *Starvation on small machines* (`CResourceLoader.cpp:1105`). Phases occupy
   workers while waiting for items on the same pool. With two workers, or three
   and all three phases active, every worker may be held.
2. *Abandoned folder scans* (`CResourceLoader.cpp:581`). The first scan error leaves
   the loop while other scans refer to the phase's vectors.
3. *Tree of a deleted module* (`Construct.cpp:725`). A load accepted while
   another is unsettled replaces the module, not the tree.
4. *Archives of version 2* (`CSgaCreator.cpp:530`). The flags take two bytes where
   the reader has four; the archive loads and no file of it reads back.
5. *Saves of a closed editor* (`CUcsTransation.cpp:28`). A failed save of a UCS
   editor leaves its texts in the shared table, where the next save of any other
   editor writes them even if the first one was closed with No. `docs/known-bugs.md:56`
   (BUG-D02) calls that fixed.

More properties that fail are stated in their modules and in no run: each shows one
result nobody looks at, or one flag nobody sets, which a reader finds as quickly in
the code. An `INVARIANT` or `PROPERTY` line in a configuration shows them.

* `DoneMeansLoadable` (`SgaCreate`): the last header is buffered, and a flush, seek or
  close that fails goes unnoticed (`CSgaCreator.cpp:597`, `599`, `619`), so that an
  archive is reported as made that does not load, against
  `docs/manual-test-plan.md:331` ("The new SGA can be reopened").
* `CreationAlwaysEnds` (`SgaCreate`): after a read error the loop at
  `CSgaCreator.cpp:601` does not end.
* `FoldersComeOutWhole` (`SgaCreate`): `crc32_case_idt.c:47` folds `[` and `{`, `]` and
  `}`, `\` and `|`, `^` and `~` to one, and the reader never compares the name of a
  directory: the files of one of two such directories are out of reach.
  `docs/hash-algorithms.md:12` calls the folding "harmless for digits and most
  punctuation".
* `UnsavedIsMarked` (`EditSession`): adding, deleting and pasting nodes into a table
  (`frmRgdEditor.cpp:1506`, `1583`, `1653`) leaves the editor without its mark,
  although `ISaveable.h:28` says of `IsModified` "Returns true if the editor has
  unsaved changes", and every way of closing it drops them unasked.
* `NothingUnsavedIsPreviewed` (`EditSession`): such a document or an edited material
  (`frmRgmMaterialEditor.cpp:271`, an editor without any mark) may be the preview,
  which the next click in the tree deletes unasked.
* `SavedMeansWritten` (`EditSession`): `CUcsFile::Save` truncates the table and looks
  at no result after `fopen` (`CUcsFile.cpp:72-95`), and the user is told that it
  was saved; `CUcsFile.h:61` says it "throws a CRainmanException on error".
* `ModsCanBePlayed` (`ModuleLoad`): `Construct.cpp:826` disables the Play menu for
  an archive, and nothing enables it for a mod loaded later.
* `ExtractsWhereAsked` (`FileMap`): after `frmMassExtract.cpp:293`, Cancel, the
  registered directory stays and later extractions may write to it.
* `EnabledEditorsConnect` (`LspClient`): an editor opened while the server is off
  (`frmScarEditor.cpp:772`) is not connected when it is switched on.

The models show two more things no document speaks of: closing a page after Yes
closes it although the save failed (`CloseMarkedTab`); and closing the module drops
marked pages without a question (`CloseModule`).

## 7. Proofs

All proofs are for every value of the constants that satisfies the named
assumptions.

* `ThreadPool_proofs` (assuming `ThreadPoolAssumption`: finite sets of workers
  and clients, at least one worker).
  `TypeCorrect` is inductive by itself. `DestroyedPoolIsDrained` needs that a
  worker leaves only with the flag set and the queue empty, and nothing is
  pushed after the flag (`ShutdownInvariant`), and that a pending future belongs
  to a task in the queue or on a worker (`CustodyInvariant`). `NoWakeupIsLost`
  is inductive with type correctness; the work is in the cardinalities: one
  lemma, `MoveWorker`, says what a worker's change of state does to both counts.
  `RefinesTaskQueue` maps `running` to the tasks held by running workers; that
  no two workers hold the same task, and that a worker about to take one leaves
  room, are `CustodyInvariant` and `TestingWorkerIsFree`.
* `ResourceLoad_proofs` (`LoadAssumption`, `PoolAssumption`).
  `FourWorkersSuffice`: `WorkerCount >= 4 => []NoStarvation`. Starvation means that
  every running task is a phase task; there are three phases, so at most three
  workers are held, whatever the number of files and however the load got there.
  `DeferredPhasesWait` and `FirstErrorIsThrown` follow from `LoadInv`, which adds to
  type correctness (`TypeInv`: where the loops of a phase stand) three things: a
  phase has submitted only what it found and everything before `next` is ready
  (`TasksInv`); `firstError` is the least error so far, and every error still to come
  has a larger number, those of abandoned folder scans included (`ErrorsInv`); phase
  tasks belong to active phases and are ready only when the phase is done
  (`ControlInv`). That the next required mod starts with an idle pool
  (`IdleWhenSucceeded`) is part of the induction: without it a task of the last
  module could still set a future of the next one. `OthersAreSpared` is inductive on
  top of it (`SparingInv`): what a phase has registered, in increasing order, is what
  came out well of the items before `next`, and workers finish only later ones.
* `TaskQueue_proofs` has the lemmas its clients share: the type of the pool, and
  that a task in the queue or on a worker is pending and in one place only.
* `SgaCreate_proofs` (`SgaAssumption`, `CreateAssumption`). Type correctness needs
  that the queue of directories holds directories of the scanned tree (`Queued`).
  `RefusedUntilTheEnd`: until its size is written the file says it has none
  (`Unsized`); from then on the checksum is that of the header in memory
  (`Checked`), and the header in the file is an older one (`Outdated`), because
  the first record was blank when it was written and a record that was filled in
  is never blank. That a flush may lose the checksum or the header again only adds
  files the reader refuses. `SuccessLeavesNoTask`: a pending task of the current attempt is
  one that is still to be collected (`Outstanding`).

  `LoadableIsWhole` and `EveryFileIsFound` have one hypothesis more, `2 \notin
  Versions`: for version 2 both are false (section 6). They are proved in two
  halves, joined by what an archive must be like to hold an input: its header lists
  the input (`Complete`), and its records lead to the contents (`Sound`).
  - *The reader.* `BisectFinds` says what the recursive search of both binary
    searches computes on keys that never fall, by induction over the length of the
    range; `DirHashMapSorts` that the map of directories is a permutation in the
    order of the checksums. So a directory with a checksum of its own is found
    (`FindsDir`), a lookup in it returns what was packed (`Opens`), and a walk,
    which descends to larger indices only, lists all there is, directories of equal
    checksum included (`WalkLists`). Reading ends with the content or, where a signed
    seek does not reach, with an error, and with nothing else (`StoredIsRead`).
  - *The writer.* `Layout` follows the loop over `qDirsTodo`: the directories that
    were met, each once, the root first; of those laid out, entries that delimit
    all their children, behind them, and all their files in ascending order.
    `SpreadStep` is one turn of that loop. An empty queue means that all of the
    tree was met (`AllAreMet`), so the counts of the scan are those of the header
    and the completed header lists the input (`LaidOut`); filling in records
    leaves it so (`Settled`). `Answers` relates the futures to the contents,
    `Measured` says that a content that was compressed had a length a signed `long`
    can tell, and `Appended` that as long as nothing was lost what was collected lies
    in the file where its record points; more data behind it changes nothing
    (`StoredStays`), and an offset that fits a double word is read back from its two
    words (`DwordFits`). `Acceptable` closes the argument: `Load` accepts only what
    carries the checksum of the header in memory, so a header that was lost is never
    accepted, and that header is the one that lists the input.

  What the proofs ask of the parameters is what the code relies on: deflated data
  determine the content, and a scanned directory is finite with the parent of
  everything in it. Of the checksums they ask nothing but that they are numbers.
* `EditSession_proofs` (`EditAssumption`). Type correctness includes that the
  notebook shows each open page once, so most of the work is in what `Without`
  does to a sequence. `PreviewClean` is inductive together with it. `SavesMerge`
  rests on `SharedIsSaved`: the shared table holds what was last asked to be saved,
  whether or not that was written. It exempts the ids of a save that failed or lost
  them unseen until the next good save, which writes the whole table, restores them; `ExitAsks` on `ExitInv`: of the pages before `next` those that are
  marked were answered for.
* `FileMap_proofs` (`FileMapAssumption`: every source has an address of its own,
  and only mass extraction registers pure outputs). `OnlyThisModIsWritten`: the
  stores change only in `WriteTo`, and every element of `Targets` passed `Suitable`
  or is the writable source the file has now. The others rest on `MapInv`: type
  correctness; mapped sources belong to the load, are registered and have a name in
  the folder of the file, which is `MappedOpens`; and the sources of a file have
  different sort numbers (`Sorted`), so that one of them is the best. `SavedIsRead` needs `Latest`: a file
  saved through the map is read from the source it was saved to, because that
  source becomes the best (`TargetIsBest`), and an archive that was opened as a mod
  offers no source to save to but what an extraction left. `ParallelLoad` needs
  `Mapped`: of the places the phases have passed, the map holds the first of each
  sort number, whatever the interleaving, since sources of the two phases never
  share a sort number.
* `ModuleLoad_proofs` proves type correctness and four safety invariants for
  any number of loads, with the welcome page open or closed. `BasicInvariant` relates the running flag to the program
  point of the thread; `LoadsStayApart` says that the loads named by the thread,
  by the events and by the manager are different ones, all started: without it a
  delete could hit an object with a second owner, and the equation of
  `ModulesHaveOwners` would not be inductive. The part of `WindowIsRight` that excludes
  overlap needs that until then a module is launched, being read, in an event or in
  the window, at one of these places only (`OneAtATime`).
* `LspClient_proofs` (`LspAssumption`). `TypeCorrect` holds for any editors, two of
  one document included; it needs besides the types that an open editor has a
  text (`TypeInv`), since the text is what its messages are made of.
  `ServerFollowsTheProtocol` and `ServerHasTheText` are proved under the hypothesis `OwnDocuments`: no two editors have the
  same URI. Two View Code tabs of one file do; for them neither holds. The
  invariant (`Agreement`) follows the queue: reading all that is in it takes the
  server through a sequence of states without a refusal (`Reads`), and the last of
  them is the one the editors believe it to be in (`InStep`). A message that is
  sent adds a state at the end (`ReadsMore`), one that is read removes the first
  (`ReadsOn`), and a new server starts with the empty queue, when no editor
  believes anything to be open.

Out of the prover's reach and left to TLC: the liveness properties
(`EverySubmittedTaskRuns`, `DestructionEnds`, `LoadReturns`,
`LoadMenuComesBack`, `QuitCompletes`, `DiagnosticsCatchUp`,
`DeferredOpensHappen`, `StopReturns`, `CreationEnds`) and the fairness part of
`ImplementsTaskQueue`. Every invariant and action property that a passing run
checks is proved as well, `ServerFollowsTheProtocol` and `ServerHasTheText` for
editors with documents of their own, those about archives for version 4.

The library's induction theorems take an operator as parameter, which the
installed provers cannot instantiate. Where a proof goes by induction over data
(the binary searches, the walk of an archive, the layout of a tree) it takes the
least number at which a statement fails (`LeastNumber`, `SetInduction`), a
statement being a set of numbers.

## 8. Not modelled

* Left out of modelled parts: progress messages; `DoLoadFolder` and
  `DoLoadArchive`; `MapSingleFile`, the rewriting of tables of contents and the
  iterator of the file map; a failure inside `MapSga`; JSON-RPC framing, the
  blocking `Start` and the status panel of the language client; an installation
  without the server's binary.
* Undefined behaviour reached but not followed: a callback of a deleted editor.
* Of archives: several tables of contents, which the writer never makes; titles,
  times and the second checksum, which the reader does not look at; a crash of
  the machine in the middle of a write. Of unseen losses the model has those that
  leave a beginning of what was written; an entry or a name counts as one octet.
* Of editing: the background fill of the UCS grid, read-only editors, the modal
  UCS editor, several string tables, pages that show what cannot be edited (images,
  hashes), the fields of the module page, which change the module in memory at once
  (`frmModule.cpp:147`), the macro dialog, and what two editors of one script or RGD file write over each
  other. An entry that is cut short on the disk counts as missing.
* Not modelled: stores, formats, the Lua interpreter and the inheritance tree, the
  parsing of `.module` files and the annotation translator are sequential
  computations over data without state between calls; their failures are
  outcomes of the actions of the modules above. Painting and layout, hashes, the
  vendored Lua versions, `CDMSSrc_055` (the former sources, a third of the
  repository's lines) and the assets are left out for good.

## 9. What could follow

1. A refresh of the file tree while editors write (`CRefreshFilesPresenter`) in
   `FileMap`, and two View Code pages of one file in `LspClient`.
2. `RgdTree`: editing of `CRgdFile` entries under the editor, and `CUcsMap` as a
   refinement of a plain map, with the fill of the grid beside it.
3. JSON-RPC framing and the annotation translator as functions over bounded
   inputs, against reference definitions.
