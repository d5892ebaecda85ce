-------------------------- MODULE EditSession_proofs ---------------------------
(***************************************************************************)
(* Proofs about EditSession, for any number of pages, files, entries and   *)
(* texts: its types, with the notebook showing every open page once; the   *)
(* preview that is deleted unasked carries no mark of unsaved work; what a *)
(* file of entries holds was saved there; the window closes only after     *)
(* every marked page was asked about.                                      *)
(***************************************************************************)
EXTENDS EditSession, Integers, TLAPS

Listed(seq, p) == \E n \in DOMAIN seq : seq[n] = p
Distinct(seq) == \A m, n \in DOMAIN seq : seq[m] = seq[n] => m = n
Notebook(seq, pages) ==
  seq \in Seq(Pages) /\ Distinct(seq) /\ \A p \in Pages : pages[p].kind # "closed" <=> Listed(seq, p)

\* DeletePage takes one page out of the notebook.
LEMMA WithoutPage ==
  ASSUME NEW seq \in Seq(Pages), Distinct(seq), NEW p
  PROVE  /\ Without(seq, p) \in Seq(Pages) /\ Distinct(Without(seq, p))
         /\ \A q \in Pages : Listed(Without(seq, p), q) <=> q # p /\ Listed(seq, q)
<1>0. Len(seq) \in Nat /\ DOMAIN seq = 1 .. Len(seq) /\ \A n \in DOMAIN seq : seq[n] \in Pages
  OBVIOUS
<1>1. CASE ~ Listed(seq, p)
  BY <1>1 DEF Without, Listed
<1>2. CASE Listed(seq, p)
  <2> DEFINE idx == CHOOSE n \in DOMAIN seq : seq[n] = p
             rest == [n \in 1 .. Len(seq) - 1 |-> IF n < idx THEN seq[n] ELSE seq[n + 1]]
  <2>1. idx \in DOMAIN seq /\ seq[idx] = p
    BY <1>2 DEF Listed
  <2>2. Without(seq, p) = rest
    BY <1>2 DEF Without, Listed
  <2> HIDE DEF idx
  <2>3. Len(seq) - 1 \in Nat /\ \A n \in 1 .. Len(seq) - 1 : n \in DOMAIN seq /\ n + 1 \in DOMAIN seq
    BY <1>0, <2>1
  <2>4. rest \in Seq(Pages) /\ DOMAIN rest = 1 .. Len(seq) - 1
    BY <1>0, <2>3
  <2>5. ASSUME NEW m \in DOMAIN rest, NEW n \in DOMAIN rest, rest[m] = rest[n] PROVE m = n
    <3>1. m \in DOMAIN seq /\ m + 1 \in DOMAIN seq /\ n \in DOMAIN seq /\ n + 1 \in DOMAIN seq
      BY <2>3, <2>4
    <3>2. m \in Int /\ n \in Int /\ idx \in Int
      BY <1>0, <2>1, <2>4
    <3>3. (IF m < idx THEN m ELSE m + 1) = (IF n < idx THEN n ELSE n + 1)
      BY <2>4, <2>5, <3>1, <3>2 DEF Distinct
    <3>4. QED
      BY <3>2, <3>3
  <2>6. ASSUME NEW q \in Pages, Listed(rest, q) PROVE q # p /\ Listed(seq, q)
    <3>1. PICK n \in DOMAIN rest : rest[n] = q
      BY <2>6 DEF Listed
    <3>2. n \in DOMAIN seq /\ n + 1 \in DOMAIN seq /\ n \in Int /\ idx \in Int
      BY <1>0, <2>1, <2>3, <2>4
    <3>3. PICK k \in DOMAIN seq : k # idx /\ seq[k] = q
      <4>1. CASE n < idx
        BY <2>4, <3>1, <3>2, <4>1
      <4>2. CASE ~ n < idx
        BY <2>4, <3>1, <3>2, <4>2
      <4>3. QED
        BY <4>1, <4>2
    <3>4. QED
      BY <2>1, <3>3 DEF Distinct, Listed
  <2>7. ASSUME NEW q \in Pages, q # p, Listed(seq, q) PROVE Listed(rest, q)
    <3>1. PICK k \in DOMAIN seq : seq[k] = q
      BY <2>7 DEF Listed
    <3>2. k # idx /\ k \in Int /\ idx \in Int /\ 1 <= k /\ k <= Len(seq) /\ 1 <= idx /\ idx <= Len(seq)
      BY <1>0, <2>1, <2>7, <3>1
    <3>3. CASE k < idx
      <4>1. k \in DOMAIN rest /\ rest[k] = q
        BY <1>0, <2>4, <3>1, <3>2, <3>3
      <4>2. QED
        BY <4>1 DEF Listed
    <3>4. CASE idx < k
      <4>1. k - 1 \in DOMAIN rest /\ ~ k - 1 < idx /\ k - 1 + 1 = k
        BY <1>0, <2>4, <3>2, <3>4
      <4>2. rest[k - 1] = q
        BY <2>4, <3>1, <4>1
      <4>3. QED
        BY <4>1, <4>2 DEF Listed
    <3>5. QED
      BY <3>2, <3>3, <3>4
  <2>8. QED
    BY <2>2, <2>4, <2>5, <2>6, <2>7 DEF Distinct
<1>3. QED
  BY <1>1, <1>2

\* A new page is added at the end.
LEMMA AppendPage ==
  ASSUME NEW seq \in Seq(Pages), Distinct(seq), NEW p \in Pages, ~ Listed(seq, p)
  PROVE  /\ Append(seq, p) \in Seq(Pages) /\ Distinct(Append(seq, p))
         /\ \A q \in Pages : Listed(Append(seq, p), q) <=> q = p \/ Listed(seq, q)
<1> DEFINE more == Append(seq, p)
<1>1. more \in Seq(Pages) /\ Len(seq) \in Nat /\ DOMAIN seq = 1 .. Len(seq) /\ DOMAIN more = 1 .. Len(seq) + 1
  OBVIOUS
<1>2. \A n \in DOMAIN seq : n \in DOMAIN more /\ more[n] = seq[n]
  BY <1>1
<1>3. Len(seq) + 1 \in DOMAIN more /\ more[Len(seq) + 1] = p
  BY <1>1
<1>4. \A n \in DOMAIN more : n \in DOMAIN seq \/ n = Len(seq) + 1
  BY <1>1
<1> HIDE DEF more
<1>5. Distinct(more)
  BY <1>2, <1>3, <1>4 DEF Distinct, Listed
<1>6. \A q \in Pages : Listed(more, q) <=> q = p \/ Listed(seq, q)
  BY <1>2, <1>3, <1>4 DEF Listed
<1>7. QED
  BY <1>1, <1>5, <1>6 DEF more

-----------------------------------------------------------------------------
WindowsOK == page \in [Pages -> Windows]
PreviewOK == preview \in Pages \cup {NoPage} /\ previewFile \in Files \cup {NoFile} /\ (preview = NoPage <=> previewFile = NoFile)
NotesOK == WindowsOK /\ PreviewOK /\ Notebook(tabs, page)
CloseOK ==
  /\ closing \in {"no", "asking", "closed"} /\ vetoable \in BOOLEAN /\ next \in Nat
  /\ answered \in [Pages -> Answers \cup {"unasked"}]
UcsOK ==
  /\ rawUcs \in [Ids -> Entries] /\ diskUcs \in [Ids -> Entries]
  /\ saved \in [Ids -> Entries] /\ cut \in SUBSET Ids
  /\ failed \in [Ids -> Pages \cup {NoPage, Closer, Writer}]

LEMMA TypeParts == TypeOK <=> tree \in BOOLEAN /\ NotesOK /\ CloseOK /\ UcsOK
BY DEF TypeOK, NotesOK, WindowsOK, PreviewOK, Notebook, Distinct, Listed, CloseOK, UcsOK, Open

LEMMA FreshType ==
  ASSUME NEW kind \in Kinds, NEW file \in Files \cup {NoFile}
  PROVE  /\ Fresh(kind, file) \in Windows /\ Fresh(kind, file).kind = kind /\ Fresh(kind, file).file = file
         /\ Fresh(kind, file).dirty = FALSE /\ Fresh(kind, file).unsaved = FALSE /\ Fresh(kind, file).edits = NoEdits
BY DEF Fresh, Windows, NoEdits, Entries

LEMMA ClosedType == Closed \in Windows /\ Closed.kind = "closed" /\ Closed.dirty = FALSE
<1>1. "closed" \in Kinds /\ NoFile \in Files \cup {NoFile}
  BY DEF Kinds, FileKinds
<1>2. QED
  BY <1>1, FreshType DEF Closed

LEMMA WindowType ==
  ASSUME NEW f \in Files
  PROVE  /\ Window(f) \in Windows /\ Window(f).kind \in FileKinds /\ Window(f).kind # "closed"
         /\ Window(f).file = f /\ Window(f).dirty = FALSE
<1>1. Handler[f] \in FileKinds /\ Handler[f] # "closed"
  BY EditAssumption DEF FileKinds
<1>2. Handler[f] \in Kinds /\ f \in Files \cup {NoFile}
  BY <1>1 DEF Kinds, FileKinds
<1>3. QED
  BY <1>1, <1>2, FreshType DEF Window

\* The notebook without the preview.
LEMMA ButPreview ==
  ASSUME NotesOK
  PROVE  PagesButPreview \in [Pages -> Windows] /\ Notebook(TabsButPreview, PagesButPreview)
<1>1. TabsButPreview \in Seq(Pages) /\ Distinct(TabsButPreview)
      /\ \A q \in Pages : Listed(TabsButPreview, q) <=> q # preview /\ Listed(tabs, q)
  BY WithoutPage DEF NotesOK, Notebook, TabsButPreview
<1>2. PagesButPreview \in [Pages -> Windows]
      /\ \A q \in Pages : PagesButPreview[q] = IF q = preview THEN Closed ELSE page[q]
  BY ClosedType DEF NotesOK, WindowsOK, PagesButPreview
<1>3. QED
  BY <1>1, <1>2, ClosedType DEF NotesOK, Notebook

\* A window added to a notebook in which its page is free.
LEMMA AddedPage ==
  ASSUME NEW seq, NEW pages \in [Pages -> Windows], Notebook(seq, pages), NEW p \in Pages, pages[p].kind = "closed",
         NEW window \in Windows, window.kind # "closed"
  PROVE  [pages EXCEPT ![p] = window] \in [Pages -> Windows] /\ Notebook(Append(seq, p), [pages EXCEPT ![p] = window])
<1>1. ~ Listed(seq, p) /\ seq \in Seq(Pages) /\ Distinct(seq)
  BY DEF Notebook
<1>2. /\ Append(seq, p) \in Seq(Pages) /\ Distinct(Append(seq, p))
      /\ \A q \in Pages : Listed(Append(seq, p), q) <=> q = p \/ Listed(seq, q)
  BY <1>1, AppendPage
<1>3. \A q \in Pages : [pages EXCEPT ![p] = window][q] = IF q = p THEN window ELSE pages[q]
  OBVIOUS
<1>4. QED
  BY <1>2, <1>3 DEF Notebook

\* A window changed in its place.
LEMMA ChangedPage ==
  ASSUME NotesOK, NEW p \in Pages, NEW window \in Windows, window.kind = page[p].kind
  PROVE  [page EXCEPT ![p] = window] \in [Pages -> Windows] /\ Notebook(tabs, [page EXCEPT ![p] = window])
<1>1. \A q \in Pages : [page EXCEPT ![p] = window][q] = IF q = p THEN window ELSE page[q]
  BY DEF NotesOK, WindowsOK
<1>2. QED
  BY <1>1 DEF NotesOK, WindowsOK, Notebook

LEMMA OnlyPage ==
  ASSUME NEW p \in Pages, NEW kind \in Kinds, kind # "closed", tabs' = <<p>>,
         page' = [q \in Pages |-> IF q = p THEN Fresh(kind, NoFile) ELSE Closed]
  PROVE  WindowsOK' /\ Notebook(tabs, page)'
<1>1. WindowsOK' /\ \A q \in Pages : page'[q].kind # "closed" <=> q = p
  BY FreshType, ClosedType DEF WindowsOK
<1>2. <<p>> \in Seq(Pages) /\ DOMAIN <<p>> = {1} /\ <<p>>[1] = p
  OBVIOUS
<1>3. QED
  BY <1>1, <1>2 DEF Notebook, Distinct, Listed

LEMMA MergeType ==
  ASSUME NEW edits \in [Ids -> Entries], NEW entries \in [Ids -> Entries]
  PROVE  Merge(edits, entries) \in [Ids -> Entries]
BY DEF Merge

LEMMA AfterSaveType ==
  ASSUME WindowsOK, NEW p \in Pages, NEW outcome \in Outcomes
  PROVE  /\ AfterSave(p, outcome) \in Windows
         /\ AfterSave(p, outcome).kind = page[p].kind /\ AfterSave(p, outcome).file = page[p].file
         /\ AfterSave(p, outcome).dirty => page[p].dirty
<1>1. page[p] \in Windows /\ page[p].kind \in Kinds /\ page[p].file \in Files \cup {NoFile}
  BY DEF WindowsOK, Windows
<1>2. CASE outcome = "saved"
  BY <1>1, <1>2, FreshType DEF AfterSave
<1>3. CASE outcome = "failed"
  <2>1. AfterSave(p, outcome) = [page[p] EXCEPT !.edits = NoEdits]
    BY <1>3 DEF AfterSave
  <2>2. QED
    BY <1>1, <2>1 DEF Windows, NoEdits, Entries
<1>4. CASE outcome = "refused"
  BY <1>1, <1>4 DEF AfterSave
<1>5. QED
  BY <1>2, <1>3, <1>4 DEF Outcomes

LEMMA FailedType ==
  ASSUME UcsOK, NEW p \in Pages, NEW who \in {p, Closer}
  PROVE  FailedIn(p, who) \in [Ids -> Pages \cup {NoPage, Closer, Writer}]
BY DEF UcsOK, FailedIn

LEMMA DoSaveType ==
  ASSUME WindowsOK, UcsOK, NEW p \in Pages, NEW outcome \in Outcomes, NEW who \in {p, Closer},
         DoSave(p, outcome, who) \/ KeepUcs(p, who)
  PROVE  UcsOK'
<1>1. page[p].edits \in [Ids -> Entries]
  BY DEF WindowsOK, Windows
<1>2. CASE KeepUcs(p, who)
  BY <1>2, FailedType DEF UcsOK, KeepUcs
<1>3. CASE Store(p, outcome, who)
  <2>1. rawUcs' \in [Ids -> Entries] /\ saved' \in [Ids -> Entries]
    BY <1>1, <1>3, MergeType DEF UcsOK, Store
  <2>2. CASE outcome = "saved"
    <3>1. PICK lost \in SUBSET Ids : WriteUcs(rawUcs', lost)
      BY <1>3, <2>2 DEF Store
    <3>2. diskUcs' \in [Ids -> Entries] /\ cut' \in SUBSET Ids
      BY <2>1, <3>1 DEF WriteUcs, Entries
    <3>3. failed' \in [Ids -> Pages \cup {NoPage, Closer, Writer}]
      BY <1>3, <2>2 DEF Store
    <3>4. QED
      BY <2>1, <3>2, <3>3 DEF UcsOK
  <2>3. CASE outcome # "saved"
    BY <1>3, <2>1, <2>3, FailedType DEF Store, UcsOK
  <2>4. QED
    BY <2>2, <2>3
<1>4. QED
  BY <1>2, <1>3 DEF DoSave

-----------------------------------------------------------------------------
\* The page that is asked next is in the notebook.
NextOK == closing = "asking" => next \in Nat \ {0} /\ (Len(tabs) > 0 => next <= Len(tabs))
Inv == TypeOK /\ NextOK

LEMMA AddPageType ==
  ASSUME NotesOK, NEW p, NEW window \in Windows, window.kind # "closed", AddPage(p, window)
  PROVE  NotesOK'
<1>1. p \in Pages /\ page[p].kind = "closed"
  BY DEF AddPage, Free, Open
<1>2. PagesButPreview[p].kind = "closed"
  BY <1>1, ClosedType DEF PagesButPreview
<1>3. WindowsOK' /\ Notebook(tabs, page)'
  BY <1>1, <1>2, ButPreview, AddedPage DEF AddPage, WindowsOK
<1>4. PreviewOK'
  BY EditAssumption DEF AddPage, NoPreview, PreviewOK
<1>5. QED
  BY <1>3, <1>4 DEF NotesOK

LEMMA AddPageToTabsType ==
  ASSUME NotesOK, NEW p, NEW window \in Windows, window.kind # "closed", AddPageToTabs(p, window)
  PROVE  NotesOK'
<1>1. p \in Pages /\ page[p].kind = "closed"
  BY DEF AddPageToTabs, Free, Open
<1>2. WindowsOK' /\ Notebook(tabs, page)'
  BY <1>1, AddedPage DEF AddPageToTabs, WindowsOK, NotesOK
<1>3. PreviewOK'
  BY DEF AddPageToTabs, PreviewOK, NotesOK
<1>4. QED
  BY <1>2, <1>3 DEF NotesOK

LEMMA MarkType ==
  ASSUME NotesOK, NEW p \in Pages, NEW window \in Windows, window.kind = page[p].kind, Mark(p, window), tabs' = tabs
  PROVE  NotesOK'
<1>1. [window EXCEPT !.dirty = TRUE] \in Windows /\ [window EXCEPT !.dirty = TRUE].kind = page[p].kind
  BY DEF Windows
<1>2. WindowsOK' /\ Notebook(tabs, page)'
  BY <1>1, ChangedPage DEF Mark, WindowsOK
<1>3. PreviewOK'
  BY EditAssumption DEF Mark, NoPreview, PreviewOK, NotesOK
<1>4. QED
  BY <1>2, <1>3 DEF NotesOK

LEMMA DeletePageType ==
  ASSUME NotesOK, NEW p \in Pages, DeletePage(p, page)
  PROVE  NotesOK'
<1>1. /\ Without(tabs, p) \in Seq(Pages) /\ Distinct(Without(tabs, p))
      /\ \A q \in Pages : Listed(Without(tabs, p), q) <=> q # p /\ Listed(tabs, q)
  BY WithoutPage DEF NotesOK, Notebook
<1>2. WindowsOK' /\ \A q \in Pages : page'[q] = IF q = p THEN Closed ELSE page[q]
  BY ClosedType DEF DeletePage, NotesOK, WindowsOK
<1>3. Notebook(tabs, page)'
  BY <1>1, <1>2, ClosedType DEF DeletePage, NotesOK, Notebook
<1>4. PreviewOK'
  BY EditAssumption DEF DeletePage, NoPreview, PreviewOK, NotesOK
<1>5. QED
  BY <1>2, <1>3, <1>4 DEF NotesOK

LEMMA SelectFileType ==
  ASSUME NotesOK, NEW f \in Files, SelectFile(f)
  PROVE  NotesOK'
<1>1. CASE tabs' = TabsButPreview /\ page' = PagesButPreview /\ NoPreview
  <2>1. PreviewOK'
    BY <1>1, EditAssumption DEF NoPreview, PreviewOK
  <2>2. QED
    BY <1>1, <2>1, ButPreview DEF NotesOK, WindowsOK
<1>2. ASSUME NEW p \in Free \cup ({preview} \cap Pages), tabs' = Append(TabsButPreview, p),
             page' = [PagesButPreview EXCEPT ![p] = Window(f)],
             (preview' = p /\ previewFile' = f) \/ NoPreview
      PROVE  NotesOK'
  <2>1. p \in Pages /\ PagesButPreview[p].kind = "closed"
    BY <1>2, ClosedType DEF PagesButPreview, Free, Open
  <2>2. Window(f).kind # "closed"
    BY WindowType
  <2>3. WindowsOK' /\ Notebook(tabs, page)'
    BY <1>2, <2>1, <2>2, WindowType, ButPreview, AddedPage DEF WindowsOK
  <2>4. PreviewOK'
    BY <1>2, <2>1, EditAssumption DEF NoPreview, PreviewOK
  <2>5. QED
    BY <2>3, <2>4 DEF NotesOK
<1>3. QED
  BY <1>1, <1>2 DEF SelectFile

\* The question put to the next page.
LEMMA AskPageType ==
  ASSUME Inv, AskPage
  PROVE  /\ tabs[next] \in Pages /\ next \in 1 .. Len(tabs) /\ NotesOK' /\ CloseOK' /\ UcsOK' /\ NextOK'
<1> DEFINE p == tabs[next]
<1>1. NotesOK /\ CloseOK /\ UcsOK /\ NextOK /\ tabs \in Seq(Pages) /\ Len(tabs) \in Nat
  BY TypeParts DEF Inv, NotesOK, Notebook
<1>2. next \in 1 .. Len(tabs) /\ p \in Pages /\ tabs' = tabs
  BY <1>1 DEF AskPage, NextOK
<1> HIDE DEF p
<1>3. ASSUME NEW answer \in Answers \cup {"unasked"}, NextPage(p, answer) PROVE CloseOK' /\ NextOK'
  BY <1>1, <1>2, <1>3 DEF NextPage, CloseOK, NextOK
<1>4. ASSUME closing' = "no", vetoable' = FALSE, next' = 0, answered' = Unasked PROVE CloseOK' /\ NextOK'
  BY <1>4 DEF CloseOK, NextOK, Unasked
<1>5. CloseOK' /\ NextOK'
  BY <1>3, <1>4 DEF AskPage, Answers, p
<1>6. ASSUME NEW outcome \in Outcomes, page' = [page EXCEPT ![p] = AfterSave(p, outcome)], DoSave(p, outcome, p)
      PROVE  WindowsOK' /\ Notebook(tabs, page)' /\ UcsOK'
  BY <1>1, <1>2, <1>6, AfterSaveType, ChangedPage, DoSaveType DEF NotesOK, WindowsOK
<1>7. ASSUME UNCHANGED <<page, ucsVars>> PROVE WindowsOK' /\ Notebook(tabs, page)' /\ UcsOK'
  BY <1>1, <1>2, <1>7 DEF NotesOK, WindowsOK, Notebook, UcsOK, ucsVars
<1>8. WindowsOK' /\ Notebook(tabs, page)' /\ UcsOK'
  <2>1. \/ UNCHANGED <<page, ucsVars>>
        \/ \E outcome \in Outcomes : page' = [page EXCEPT ![p] = AfterSave(p, outcome)] /\ DoSave(p, outcome, p)
    BY DEF AskPage, p
  <2>2. QED
    BY <1>6, <1>7, <2>1
<1>9. PreviewOK'
  BY <1>1 DEF AskPage, NotesOK, PreviewOK
<1>10. QED
  BY <1>2, <1>5, <1>8, <1>9 DEF NotesOK, p

LEMMA UcsUnchanged == UcsOK /\ UNCHANGED ucsVars => UcsOK'
BY DEF UcsOK, ucsVars

LEMMA CloseUnchanged ==
  CloseOK /\ UNCHANGED closeVars => CloseOK' /\ (closing # "asking" => NextOK')
BY DEF CloseOK, closeVars, NextOK

LEMMA InvInit == Init => Inv
<1> SUFFICES ASSUME Init PROVE Inv
  OBVIOUS
<1>1. tree \in BOOLEAN /\ PreviewOK /\ CloseOK /\ NextOK
  BY EditAssumption DEF Init, PreviewOK, CloseOK, NextOK, Unasked
<1>2. UcsOK
  BY EditAssumption DEF Init, UcsOK, Loaded, Entries
<1>3. WindowsOK /\ Notebook(tabs, page)
  <2>1. PICK p \in Pages : tabs = <<p>> /\ page = [q \in Pages |-> IF q = p THEN Fresh("welcome", NoFile) ELSE Closed]
    BY DEF Init
  <2>2. "welcome" \in Kinds /\ NoFile \in Files \cup {NoFile}
    BY DEF Kinds, FileKinds
  <2>3. WindowsOK /\ \A q \in Pages : page[q].kind # "closed" <=> q = p
    BY <2>1, <2>2, FreshType, ClosedType DEF WindowsOK
  <2>4. tabs \in Seq(Pages) /\ DOMAIN tabs = {1} /\ tabs[1] = p
    BY <2>1
  <2>5. QED
    BY <2>3, <2>4 DEF Notebook, Distinct, Listed
<1>4. QED
  BY <1>1, <1>2, <1>3, TypeParts DEF Inv, NotesOK

LEMMA InvNext == Inv /\ [Next]_vars => Inv'
<1> SUFFICES ASSUME Inv, [Next]_vars PROVE Inv'
  OBVIOUS
<1>0. tree \in BOOLEAN /\ NotesOK /\ WindowsOK /\ PreviewOK /\ CloseOK /\ UcsOK /\ NextOK
  BY TypeParts DEF Inv, NotesOK
<1> SUFFICES tree' \in BOOLEAN /\ NotesOK' /\ CloseOK' /\ UcsOK' /\ NextOK'
  <2>1. (tree \in BOOLEAN /\ NotesOK /\ CloseOK /\ UcsOK => TypeOK)'
    BY TypeParts, PTL
  <2>2. QED
    BY <2>1 DEF Inv
<1>a. ASSUME Idle, UNCHANGED closeVars PROVE CloseOK' /\ NextOK'
  BY <1>0, <1>a, CloseUnchanged DEF Idle
<1>b. "rgd" \in Kinds /\ "text" \in Kinds /\ "ucs" \in Kinds /\ "module" \in Kinds /\ "welcome" \in Kinds
      /\ NoFile \in Files \cup {NoFile}
  BY DEF Kinds, FileKinds
<1>c. \A p \in Pages : page[p] \in Windows /\ page[p].edits \in [Ids -> Entries] /\ page[p].file \in Files \cup {NoFile}
  BY <1>0 DEF WindowsOK, Windows
<1>1. ASSUME NEW f \in Files, SelectFile(f) PROVE tree' \in BOOLEAN /\ NotesOK' /\ CloseOK' /\ UcsOK' /\ NextOK'
  BY <1>0, <1>a, <1>1, SelectFileType, UcsUnchanged DEF SelectFile
<1>2. ASSUME NEW f \in Files, ActivatePreview(f) PROVE tree' \in BOOLEAN /\ NotesOK' /\ CloseOK' /\ UcsOK' /\ NextOK'
  <2>1. PreviewOK'
    BY <1>2, EditAssumption DEF ActivatePreview, NoPreview, PreviewOK
  <2>2. WindowsOK' /\ Notebook(tabs, page)'
    BY <1>0, <1>2 DEF ActivatePreview, NotesOK, WindowsOK, Notebook
  <2>3. QED
    BY <1>0, <1>a, <1>2, <2>1, <2>2, UcsUnchanged DEF ActivatePreview, NotesOK
<1>3. ASSUME NEW f \in Files, OpenFile(f) PROVE tree' \in BOOLEAN /\ NotesOK' /\ CloseOK' /\ UcsOK' /\ NextOK'
  <2>1. Window(f) \in Windows /\ Window(f).kind # "closed"
    BY WindowType
  <2>2. QED
    BY <1>0, <1>a, <1>3, <2>1, AddPageToTabsType, UcsUnchanged DEF OpenFile
<1>4. ASSUME NEW p \in Pages, Edit(p) PROVE tree' \in BOOLEAN /\ NotesOK' /\ CloseOK' /\ UcsOK' /\ NextOK'
  <2>1. [page[p] EXCEPT !.unsaved = TRUE] \in Windows /\ [page[p] EXCEPT !.unsaved = TRUE].kind = page[p].kind
    BY <1>c DEF Windows
  <2>2. QED
    BY <1>0, <1>a, <1>4, <2>1, MarkType, UcsUnchanged DEF Edit
<1>5. ASSUME NEW p \in Pages, Restructure(p) \/ EditMaterial(p) PROVE tree' \in BOOLEAN /\ NotesOK' /\ CloseOK' /\ UcsOK' /\ NextOK'
  <2> DEFINE w == [page[p] EXCEPT !.unsaved = TRUE]
  <2>1. w \in Windows /\ w.kind = page[p].kind
    BY <1>c DEF Windows
  <2>2. page' = [page EXCEPT ![p] = w] /\ tabs' = tabs
    BY <1>5 DEF Restructure, EditMaterial
  <2> HIDE DEF w
  <2>3. WindowsOK' /\ Notebook(tabs, page)'
    BY <1>0, <2>1, <2>2, ChangedPage DEF WindowsOK
  <2>4. PreviewOK'
    BY <1>0, <1>5 DEF Restructure, EditMaterial, PreviewOK
  <2>5. QED
    BY <1>0, <1>a, <1>5, <2>3, <2>4, UcsUnchanged DEF Restructure, EditMaterial, NotesOK
<1>6. ASSUME NEW p \in Pages, Undo(p) PROVE tree' \in BOOLEAN /\ NotesOK' /\ CloseOK' /\ UcsOK' /\ NextOK'
  <2> DEFINE w == [page[p] EXCEPT !.dirty = FALSE, !.unsaved = FALSE]
  <2>1. w \in Windows /\ w.kind = page[p].kind
    BY <1>c DEF Windows
  <2>2. page' = [page EXCEPT ![p] = w] /\ tabs' = tabs
    BY <1>6 DEF Undo
  <2> HIDE DEF w
  <2>3. WindowsOK' /\ Notebook(tabs, page)'
    BY <1>0, <2>1, <2>2, ChangedPage DEF WindowsOK
  <2>4. PreviewOK'
    BY <1>0, <1>6 DEF Undo, PreviewOK
  <2>5. QED
    BY <1>0, <1>a, <1>6, <2>3, <2>4, UcsUnchanged DEF Undo, NotesOK
<1>7. ASSUME NEW p \in Pages, ViewCode(p) PROVE tree' \in BOOLEAN /\ NotesOK' /\ CloseOK' /\ UcsOK' /\ NextOK'
  <2>1. Fresh("text", page[p].file) \in Windows /\ Fresh("text", page[p].file).kind # "closed"
    BY <1>b, <1>c, FreshType
  <2>2. QED
    BY <1>0, <1>a, <1>7, <2>1, AddPageType, UcsUnchanged DEF ViewCode
<1>8. CASE OpenUcs
  <2>1. Fresh("ucs", NoFile) \in Windows /\ Fresh("ucs", NoFile).kind # "closed"
    BY <1>b, FreshType
  <2>2. QED
    BY <1>0, <1>a, <1>8, <2>1, AddPageToTabsType, UcsUnchanged DEF OpenUcs
<1>9. ASSUME NEW p \in Pages, NEW i \in Ids, NEW text \in Entries, Idle, ChangeEntry(p, i, text)
      PROVE  tree' \in BOOLEAN /\ NotesOK' /\ CloseOK' /\ UcsOK' /\ NextOK'
  <2> DEFINE w == [page[p] EXCEPT !.unsaved = TRUE, !.edits[i] = text]
  <2>1. w \in Windows /\ w.kind = page[p].kind
    BY <1>c DEF Windows
  <2> HIDE DEF w
  <2>2. Mark(p, w) /\ UNCHANGED <<tree, tabs, closeVars, ucsVars>>
    BY <1>9 DEF ChangeEntry, w
  <2>3. QED
    BY <1>0, <1>a, <1>9, <2>1, <2>2, MarkType, UcsUnchanged
<1>10. ASSUME NEW p \in Pages, NEW i \in Ids, EditEntry(p, i) \/ NewEntry(p, i)
       PROVE  tree' \in BOOLEAN /\ NotesOK' /\ CloseOK' /\ UcsOK' /\ NextOK'
  BY <1>9, <1>10 DEF EditEntry, NewEntry, Entries
<1>11. ASSUME NEW p \in Pages, Save(p) PROVE tree' \in BOOLEAN /\ NotesOK' /\ CloseOK' /\ UcsOK' /\ NextOK'
  <2>1. PICK outcome \in Outcomes : page' = [page EXCEPT ![p] = AfterSave(p, outcome)] /\ DoSave(p, outcome, p)
    BY <1>11 DEF Save
  <2>2. WindowsOK' /\ Notebook(tabs, page)' /\ UcsOK' /\ PreviewOK'
    BY <1>0, <1>11, <2>1, AfterSaveType, ChangedPage, DoSaveType DEF Save, WindowsOK, PreviewOK
  <2>3. QED
    BY <1>0, <1>a, <1>11, <2>2 DEF Save, NotesOK
<1>12. ASSUME NEW p \in Pages, CloseTab(p) PROVE tree' \in BOOLEAN /\ NotesOK' /\ CloseOK' /\ UcsOK' /\ NextOK'
  BY <1>0, <1>a, <1>12, DeletePageType, UcsUnchanged DEF CloseTab
<1>13. ASSUME NEW p \in Pages, CloseMarkedTab(p) PROVE tree' \in BOOLEAN /\ NotesOK' /\ CloseOK' /\ UcsOK' /\ NextOK'
  <2>1. UcsOK'
    BY <1>0, <1>13, DoSaveType DEF CloseMarkedTab, Outcomes
  <2>2. QED
    BY <1>0, <1>a, <1>13, <2>1, DeletePageType DEF CloseMarkedTab
<1>14. CASE OpenModule
  <2>1. WindowsOK' /\ Notebook(tabs, page)'
    BY <1>14, <1>b, OnlyPage DEF OpenModule, Free
  <2>2. PreviewOK'
    BY <1>14, EditAssumption DEF OpenModule, NoPreview, PreviewOK
  <2>3. QED
    BY <1>0, <1>a, <1>14, <2>1, <2>2, UcsUnchanged DEF OpenModule, NotesOK
<1>15. CASE ShowModule
  <2>1. Fresh("module", NoFile) \in Windows /\ Fresh("module", NoFile).kind # "closed"
    BY <1>b, FreshType
  <2>2. QED
    BY <1>0, <1>a, <1>15, <2>1, AddPageType, UcsUnchanged DEF ShowModule
<1>16. CASE CloseModule
  <2>1. WindowsOK' /\ Notebook(tabs, page)'
    BY <1>16, <1>b, OnlyPage DEF CloseModule, Free
  <2>2. PreviewOK'
    BY <1>0, <1>16 DEF CloseModule, PreviewOK
  <2>3. UcsOK'
    BY <1>0, <1>16 DEF CloseModule, UcsOK, Loaded, Entries
  <2>4. QED
    BY <1>a, <1>16, <2>1, <2>2, <2>3 DEF CloseModule, NotesOK
<1>17. CASE CloseWindow
  <2>1. CloseOK'
    BY <1>17 DEF CloseWindow, CloseOK, Unasked
  <2>2. tabs \in Seq(Pages)
    BY <1>0 DEF NotesOK, Notebook
  <2>3. NextOK'
    BY <1>17, <2>2 DEF CloseWindow, NextOK, noteVars
  <2>4. NotesOK'
    BY <1>0, <1>17 DEF CloseWindow, noteVars, NotesOK, WindowsOK, PreviewOK, Notebook
  <2>5. QED
    BY <1>0, <1>17, <2>1, <2>3, <2>4, UcsUnchanged DEF CloseWindow
<1>18. CASE AskPage
  BY <1>0, <1>18, AskPageType DEF AskPage
<1>19. CASE CloseEmptyWindow
  <2>1. NotesOK'
    BY <1>0, <1>19 DEF CloseEmptyWindow, noteVars, NotesOK, WindowsOK, PreviewOK, Notebook
  <2>2. CloseOK' /\ NextOK'
    BY <1>0, <1>19 DEF CloseEmptyWindow, CloseOK, NextOK
  <2>3. QED
    BY <1>0, <1>19, <2>1, <2>2, UcsUnchanged DEF CloseEmptyWindow
<1>20. CASE UNCHANGED vars
  BY <1>0, <1>20 DEF vars, noteVars, closeVars, ucsVars, NotesOK, WindowsOK, PreviewOK, Notebook, CloseOK, UcsOK, NextOK
<1>21. QED
  BY <1>1, <1>2, <1>3, <1>4, <1>5, <1>6, <1>7, <1>8, <1>10, <1>11, <1>12, <1>13, <1>14, <1>15, <1>16, <1>17,
     <1>18, <1>19, <1>20 DEF Next

\* The variables keep their types, the notebook shows every open page once, and the
\* preview's page and file are remembered and forgotten together.
THEOREM TypeCorrect == Spec => []TypeOK
<1>1. Inv => TypeOK
  BY DEF Inv
<1>2. QED
  BY InvInit, InvNext, <1>1, PTL DEF Spec

-----------------------------------------------------------------------------
LEMMA PreviewNext == Inv /\ PreviewIsClean /\ [Next]_vars => PreviewIsClean'
<1> SUFFICES ASSUME Inv, PreviewIsClean, [Next]_vars, tree', preview' # NoPage
             PROVE  page'[preview'].kind \in FileKinds /\ page'[preview'].file = previewFile' /\ ~ page'[preview'].dirty
  BY DEF PreviewIsClean
<1> DEFINE Goal == page'[preview'].kind \in FileKinds /\ page'[preview'].file = previewFile' /\ ~ page'[preview'].dirty
<1>0. WindowsOK /\ preview \in Pages \cup {NoPage}
  BY TypeParts DEF Inv, NotesOK, PreviewOK
<1>a. ASSUME tree, UNCHANGED <<preview, previewFile>>, UNCHANGED page[preview] PROVE Goal
  BY <1>a DEF PreviewIsClean
<1>b. ASSUME tree, preview # NoPage, preview \in Pages PROVE page[preview].kind # "closed"
  BY <1>b DEF PreviewIsClean, FileKinds
<1>c. ASSUME NEW p, NEW window, AddPageToTabs(p, window), tree PROVE Goal
  <2>1. p # preview
    BY <1>b, <1>c DEF AddPageToTabs, Free, Open
  <2>2. UNCHANGED page[preview]
    BY <1>0, <1>c, <2>1 DEF AddPageToTabs, WindowsOK
  <2>3. QED
    BY <1>a, <1>c, <2>2 DEF AddPageToTabs
<1>d. ASSUME NEW p \in Pages, NEW window, Mark(p, window), tree PROVE Goal
  <2>1. p # preview /\ UNCHANGED <<preview, previewFile>>
    BY <1>d DEF Mark, NoPreview
  <2>2. UNCHANGED page[preview]
    BY <1>0, <1>d, <2>1 DEF Mark, WindowsOK
  <2>3. QED
    BY <1>a, <1>d, <2>1, <2>2
<1>e. ASSUME NEW p \in Pages, DeletePage(p, page), tree PROVE Goal
  <2>1. p # preview /\ UNCHANGED <<preview, previewFile>>
    BY <1>e DEF DeletePage, NoPreview
  <2>2. UNCHANGED page[preview]
    BY <1>0, <1>e, <2>1 DEF DeletePage, WindowsOK
  <2>3. QED
    BY <1>a, <1>e, <2>1, <2>2
<1>f. ASSUME NEW p \in Pages, NEW window, tree, UNCHANGED <<preview, previewFile>>,
             page' = [page EXCEPT ![p] = window], window.kind = page[p].kind, window.file = page[p].file,
             window.dirty => page[p].dirty
      PROVE  Goal
  <2>1. preview \in Pages /\ page'[preview] = IF preview = p THEN window ELSE page[preview]
    BY <1>0, <1>f DEF WindowsOK
  <2>2. QED
    BY <1>f, <2>1 DEF PreviewIsClean
<1>1. ASSUME NEW f \in Files, SelectFile(f) PROVE Goal
  <2>1. PICK p \in Free \cup ({preview} \cap Pages) :
          page' = [PagesButPreview EXCEPT ![p] = Window(f)] /\ preview' = p /\ previewFile' = f
    BY <1>1 DEF SelectFile, NoPreview
  <2>2. p \in Pages /\ page'[p] = Window(f)
    BY <2>1 DEF PagesButPreview, Free
  <2>3. QED
    BY <2>1, <2>2, WindowType
<1>2. ASSUME NEW f \in Files, ActivatePreview(f) PROVE Goal
  BY <1>2 DEF ActivatePreview, NoPreview
<1>3. ASSUME NEW f \in Files, OpenFile(f) PROVE Goal
  BY <1>3, <1>c DEF OpenFile
<1>4. ASSUME NEW p \in Pages, Edit(p) PROVE Goal
  BY <1>4, <1>d DEF Edit
<1>5. ASSUME NEW p \in Pages, Restructure(p) \/ EditMaterial(p) PROVE Goal
  <2>1. page[p] \in Windows
    BY <1>0 DEF WindowsOK
  <2> DEFINE w == [page[p] EXCEPT !.unsaved = TRUE]
  <2>2. w.kind = page[p].kind /\ w.file = page[p].file /\ w.dirty = page[p].dirty
    BY <2>1 DEF Windows
  <2>3. page' = [page EXCEPT ![p] = w] /\ tree /\ UNCHANGED <<preview, previewFile>>
    BY <1>5 DEF Restructure, EditMaterial
  <2> HIDE DEF w
  <2>4. QED
    BY <1>f, <2>2, <2>3
<1>6. ASSUME NEW p \in Pages, Undo(p) PROVE Goal
  <2>1. page[p] \in Windows
    BY <1>0 DEF WindowsOK
  <2> DEFINE w == [page[p] EXCEPT !.dirty = FALSE, !.unsaved = FALSE]
  <2>2. w.kind = page[p].kind /\ w.file = page[p].file /\ ~ w.dirty
    BY <2>1 DEF Windows
  <2>3. page' = [page EXCEPT ![p] = w] /\ tree /\ UNCHANGED <<preview, previewFile>>
    BY <1>6 DEF Undo
  <2> HIDE DEF w
  <2>4. QED
    BY <1>f, <2>2, <2>3
<1>7. ASSUME NEW p \in Pages, ViewCode(p) PROVE Goal
  BY <1>7 DEF ViewCode, AddPage, NoPreview
<1>8. CASE OpenUcs
  BY <1>8, <1>c DEF OpenUcs
<1>9. ASSUME NEW p \in Pages, NEW i \in Ids, EditEntry(p, i) \/ NewEntry(p, i) PROVE Goal
  <2>1. PICK text : ChangeEntry(p, i, text)
    BY <1>9 DEF EditEntry, NewEntry
  <2>2. QED
    BY <2>1, <1>d DEF ChangeEntry
<1>10. ASSUME NEW p \in Pages, Save(p) PROVE Goal
  <2>1. PICK outcome \in Outcomes : page' = [page EXCEPT ![p] = AfterSave(p, outcome)]
    BY <1>10 DEF Save
  <2>2. QED
    BY <1>0, <1>10, <1>f, <2>1, AfterSaveType DEF Save
<1>11. ASSUME NEW p \in Pages, CloseTab(p) \/ CloseMarkedTab(p) PROVE Goal
  BY <1>11, <1>e DEF CloseTab, CloseMarkedTab
<1>12. CASE OpenModule
  BY <1>12 DEF OpenModule, NoPreview
<1>13. CASE ShowModule
  BY <1>13 DEF ShowModule, AddPage, NoPreview
<1>14. CASE CloseModule
  BY <1>14 DEF CloseModule
<1>15. CASE CloseWindow \/ CloseEmptyWindow \/ UNCHANGED vars
  BY <1>15, <1>a DEF CloseWindow, CloseEmptyWindow, vars, noteVars
<1>16. CASE AskPage
  <2>1. tree /\ UNCHANGED <<preview, previewFile>> /\ tabs[next] \in Pages
    BY <1>16, AskPageType DEF AskPage
  <2>2. CASE UNCHANGED page
    BY <2>1, <2>2, <1>a
  <2>3. ASSUME NEW outcome \in Outcomes, page' = [page EXCEPT ![tabs[next]] = AfterSave(tabs[next], outcome)] PROVE Goal
    BY <1>0, <1>f, <2>1, <2>3, AfterSaveType
  <2>4. QED
    BY <1>16, <2>2, <2>3 DEF AskPage
<1>17. QED
  BY <1>1, <1>2, <1>3, <1>4, <1>5, <1>6, <1>7, <1>8, <1>9, <1>10, <1>11, <1>12, <1>13, <1>14, <1>15, <1>16 DEF Next

\* The page that navigation deletes without asking carries no mark of unsaved work.
THEOREM PreviewClean == Spec => []PreviewIsClean
<1>1. Init => PreviewIsClean
  BY DEF Init, PreviewIsClean
<1>2. QED
  BY InvInit, InvNext, <1>1, PreviewNext, PTL DEF Spec

-----------------------------------------------------------------------------
\* The shared entries are what was last asked to be saved, whether or not that was written:
\* this is what makes the next save, of whichever editor, write it.
SharedIsSaved == \A i \in Ids : Loaded(rawUcs)[i] = Loaded(saved)[i]
UcsInv == SharedIsSaved /\ DiskHasWhatWasSaved

LEMMA LoadedTwice == \A e : Loaded(Loaded(e)) = Loaded(e)
BY DEF Loaded, Absent, Blank

LEMMA LoadedMerge ==
  ASSUME NEW edits, NEW e, NEW f, NEW i \in Ids, Loaded(e)[i] = Loaded(f)[i]
  PROVE  Loaded(Merge(edits, e))[i] = Loaded(Merge(edits, f))[i]
BY DEF Loaded, Merge

\* Any end of a save but a good one leaves the file alone, and excuses what it was to write.
LEMMA UcsStore ==
  ASSUME UcsInv, WindowsOK, UcsOK, NEW p \in Pages, NEW outcome \in Outcomes, NEW who \in {p, Closer},
         DoSave(p, outcome, who) \/ KeepUcs(p, who)
  PROVE  UcsInv'
<1>0. /\ failed \in [Ids -> Pages \cup {NoPage, Closer, Writer}]
      /\ who \in Pages \cup {Closer}
  BY DEF UcsOK
<1>1. \A i \in Ids : FailedIn(p, who)[i] \in Pages \cup {Closer} <=> failed[i] \in Pages \cup {Closer}
  BY <1>0 DEF FailedIn
<1>2. CASE KeepUcs(p, who)
  <2>1. \A i \in Ids : Excused(i)' <=> Excused(i)
    BY <1>1, <1>2 DEF KeepUcs, Excused
  <2>2. QED
    BY <1>2, <2>1 DEF UcsInv, SharedIsSaved, DiskHasWhatWasSaved, KeepUcs
<1>3. CASE Store(p, outcome, who)
  <2>1. rawUcs' = Merge(page[p].edits, rawUcs) /\ saved' = Merge(page[p].edits, saved)
    BY <1>3 DEF Store
  <2>2. SharedIsSaved'
    BY <2>1, LoadedMerge DEF UcsInv, SharedIsSaved
  <2>3. CASE outcome = "saved"
    <3>1. PICK lost \in SUBSET Ids : WriteUcs(rawUcs', lost)
      BY <1>3, <2>3 DEF Store
    <3>2. ASSUME NEW i \in Ids, ~ Excused(i)' PROVE Loaded(diskUcs')[i] = Loaded(saved')[i]
      <4>1. diskUcs'[i] = rawUcs'[i]
        BY <3>1, <3>2 DEF WriteUcs, Excused
      <4>2. Loaded(diskUcs')[i] = Loaded(rawUcs')[i]
        BY <4>1 DEF Loaded
      <4>3. QED
        BY <2>2, <4>2 DEF SharedIsSaved
    <3>3. QED
      BY <2>2, <3>2 DEF UcsInv, DiskHasWhatWasSaved
  <2>4. CASE outcome # "saved"
    <3>1. /\ UNCHANGED <<diskUcs, cut>>
          /\ failed' = [i \in Ids |-> IF page[p].edits[i] # Absent THEN who ELSE FailedIn(p, who)[i]]
      BY <1>3, <2>4 DEF Store
    <3>2. ASSUME NEW i \in Ids, ~ Excused(i)' PROVE Loaded(diskUcs')[i] = Loaded(saved')[i]
      <4>1. page[p].edits[i] = Absent /\ failed'[i] = FailedIn(p, who)[i]
        BY <1>0, <3>1, <3>2 DEF Excused
      <4>2. ~ Excused(i)
        BY <1>1, <3>1, <3>2, <4>1 DEF Excused
      <4>3. saved'[i] = saved[i]
        BY <2>1, <4>1 DEF Merge
      <4>4. Loaded(saved')[i] = Loaded(saved)[i]
        BY <4>3 DEF Loaded
      <4>5. QED
        BY <3>1, <4>2, <4>4 DEF UcsInv, DiskHasWhatWasSaved
    <3>3. QED
      BY <2>2, <3>2 DEF UcsInv, DiskHasWhatWasSaved
  <2>5. QED
    BY <2>3, <2>4
<1>4. QED
  BY <1>2, <1>3 DEF DoSave

LEMMA UcsNext == Inv /\ UcsInv /\ [Next]_vars => UcsInv'
<1> SUFFICES ASSUME Inv, UcsInv, [Next]_vars PROVE UcsInv'
  OBVIOUS
<1>0. WindowsOK /\ UcsOK
  BY TypeParts DEF Inv, NotesOK
<1>a. ASSUME UNCHANGED ucsVars PROVE UcsInv'
  BY <1>a DEF UcsInv, SharedIsSaved, DiskHasWhatWasSaved, Excused, ucsVars
<1>1. ASSUME NEW f \in Files, SelectFile(f) \/ ActivatePreview(f) \/ OpenFile(f) PROVE UcsInv'
  BY <1>1, <1>a DEF SelectFile, ActivatePreview, OpenFile
<1>2. ASSUME NEW p \in Pages, Edit(p) \/ Restructure(p) \/ EditMaterial(p) \/ Undo(p) \/ ViewCode(p) \/ CloseTab(p) PROVE UcsInv'
  BY <1>2, <1>a DEF Edit, Restructure, EditMaterial, Undo, ViewCode, CloseTab
<1>3. ASSUME NEW p \in Pages, NEW i \in Ids, EditEntry(p, i) \/ NewEntry(p, i) PROVE UcsInv'
  BY <1>3, <1>a DEF EditEntry, NewEntry, ChangeEntry
<1>4. ASSUME NEW p \in Pages, Save(p) \/ CloseMarkedTab(p) PROVE UcsInv'
  BY <1>0, <1>4, UcsStore DEF Save, CloseMarkedTab, Outcomes
<1>5. CASE OpenUcs \/ OpenModule \/ ShowModule \/ CloseWindow \/ CloseEmptyWindow \/ UNCHANGED vars
  BY <1>5, <1>a DEF OpenUcs, OpenModule, ShowModule, CloseWindow, CloseEmptyWindow, vars
<1>6. CASE CloseModule
  <2>1. /\ rawUcs' = Loaded(diskUcs) /\ diskUcs' = diskUcs
        /\ saved' = [i \in Ids |-> IF Excused(i) THEN diskUcs[i] ELSE saved[i]]
    BY <1>6 DEF CloseModule
  <2>2. ASSUME NEW i \in Ids PROVE Loaded(saved')[i] = Loaded(diskUcs)[i]
    <3>1. CASE Excused(i)
      BY <2>1, <3>1 DEF Loaded
    <3>2. CASE ~ Excused(i)
      <4>1. Loaded(saved')[i] = Loaded(saved)[i]
        BY <2>1, <3>2 DEF Loaded
      <4>2. QED
        BY <3>2, <4>1 DEF UcsInv, DiskHasWhatWasSaved
    <3>3. QED
      BY <3>1, <3>2
  <2>3. QED
    BY <2>1, <2>2, LoadedTwice DEF UcsInv, SharedIsSaved, DiskHasWhatWasSaved
<1>7. CASE AskPage
  BY <1>0, <1>7, <1>a, UcsStore, AskPageType DEF AskPage
<1>8. QED
  BY <1>1, <1>2, <1>3, <1>4, <1>5, <1>6, <1>7 DEF Next

\* However many editors share the entries, the file holds what was last asked to be saved
\* and nothing that no editor was told to save, but for the ids whose save was reported as
\* failed or whose write went wrong unseen.
THEOREM SavesMerge == Spec => []DiskHasWhatWasSaved
<1>1. Init => UcsInv
  BY LoadedTwice DEF Init, UcsInv, SharedIsSaved, DiskHasWhatWasSaved
<1>2. UcsInv => DiskHasWhatWasSaved
  BY DEF UcsInv
<1>3. QED
  BY InvInit, InvNext, <1>1, <1>2, UcsNext, PTL DEF Spec

-----------------------------------------------------------------------------
Allowed == IF vetoable THEN {"yes", "no"} ELSE Answers
AskedBefore(k) == \A n \in DOMAIN tabs : n < k /\ page[tabs[n]].dirty => answered[tabs[n]] \in Allowed

\* While the window is closing, the pages before the next one were asked; when it has
\* closed, all were.
ExitInv ==
  /\ closing = "asking" => AskedBefore(next)
  /\ closing = "closed" => AskedBefore(Len(tabs) + 1)

LEMMA AskPageExit == Inv /\ ExitInv /\ AskPage => ExitInv'
<1> SUFFICES ASSUME Inv, ExitInv, AskPage PROVE ExitInv'
  OBVIOUS
<1> DEFINE p == tabs[next]
<1>0. WindowsOK /\ CloseOK /\ Distinct(tabs) /\ tabs \in Seq(Pages)
  BY TypeParts DEF Inv, NotesOK, Notebook
<1>1. /\ p \in Pages /\ next \in 1 .. Len(tabs) /\ tabs' = tabs
      /\ Len(tabs) \in Nat /\ DOMAIN tabs = 1 .. Len(tabs) /\ next \in Int
  <2>1. p \in Pages /\ next \in 1 .. Len(tabs) /\ tabs' = tabs
    BY AskPageType DEF AskPage
  <2>2. Len(tabs) \in Nat /\ DOMAIN tabs = 1 .. Len(tabs)
    BY <1>0
  <2>3. QED
    BY <2>1, <2>2
<1>2. AskedBefore(next)
  BY DEF AskPage, ExitInv
<1>3. CASE closing' = "no"
  BY <1>3 DEF ExitInv
<1>4. ASSUME NEW answer \in Answers \cup {"unasked"}, NextPage(p, answer), page'[p].dirty => answer \in Allowed,
             \A q \in Pages : q # p => page'[q] = page[q]
      PROVE  ExitInv'
  <2>1. vetoable' = vetoable /\ next' = next + 1 /\ answered' = [answered EXCEPT ![p] = answer]
        /\ (closing' = "closed" => next = Len(tabs))
    BY <1>4 DEF NextPage
  <2>2. Allowed' = Allowed
    BY <2>1 DEF Allowed
  <2>3. ASSUME NEW n \in DOMAIN tabs, n < next + 1, page'[tabs[n]].dirty PROVE answered'[tabs[n]] \in Allowed
    <3>1. CASE n = next
      BY <1>0, <1>1, <1>4, <2>1, <2>3, <3>1 DEF CloseOK
    <3>2. CASE n # next
      <4>1. n < next /\ tabs[n] # p /\ tabs[n] \in Pages
        BY <1>0, <1>1, <2>3, <3>2 DEF Distinct
      <4>2. page[tabs[n]].dirty /\ answered'[tabs[n]] = answered[tabs[n]]
        BY <1>0, <1>4, <2>1, <2>3, <4>1 DEF CloseOK
      <4>3. QED
        BY <1>2, <2>3, <4>1, <4>2 DEF AskedBefore
    <3>3. QED
      BY <3>1, <3>2
  <2>4. \A n \in DOMAIN tabs' : n < next + 1 /\ page'[tabs'[n]].dirty => answered'[tabs'[n]] \in Allowed'
    BY <1>1, <2>2, <2>3
  <2>5. QED
    BY <1>1, <2>1, <2>4 DEF ExitInv, AskedBefore
<1>5. ASSUME UNCHANGED page, ~ page[p].dirty, NextPage(p, "unasked") PROVE ExitInv'
  BY <1>4, <1>5
<1>6. ASSUME NEW outcome \in Outcomes, page' = [page EXCEPT ![p] = AfterSave(p, outcome)], NextPage(p, "yes") PROVE ExitInv'
  <2>1. \A q \in Pages : q # p => page'[q] = page[q]
    BY <1>0, <1>6 DEF WindowsOK
  <2>2. "yes" \in Allowed /\ "yes" \in Answers
    BY DEF Allowed, Answers
  <2>3. QED
    BY <1>4, <1>6, <2>1, <2>2
<1>7. ASSUME UNCHANGED page, NextPage(p, "no") PROVE ExitInv'
  <2>1. "no" \in Allowed /\ "no" \in Answers
    BY DEF Allowed, Answers
  <2>2. QED
    BY <1>4, <1>7, <2>1
<1>8. ASSUME UNCHANGED page, ~ vetoable, NextPage(p, "cancel") PROVE ExitInv'
  <2>1. "cancel" \in Allowed /\ "cancel" \in Answers
    BY <1>8 DEF Allowed, Answers
  <2>2. QED
    BY <1>4, <1>8, <2>1
<1> HIDE DEF p
<1>9. QED
  BY <1>3, <1>5, <1>6, <1>7, <1>8 DEF AskPage, p

LEMMA ExitNext == Inv /\ ExitInv /\ [Next]_vars => ExitInv'
<1> SUFFICES ASSUME Inv, ExitInv, [Next]_vars PROVE ExitInv'
  OBVIOUS
<1>a. ASSUME Idle, UNCHANGED closeVars PROVE ExitInv'
  BY <1>a DEF Idle, closeVars, ExitInv
<1>1. ASSUME NEW f \in Files, SelectFile(f) \/ ActivatePreview(f) \/ OpenFile(f) PROVE ExitInv'
  BY <1>1, <1>a DEF SelectFile, ActivatePreview, OpenFile
<1>2. ASSUME NEW p \in Pages,
             Edit(p) \/ Restructure(p) \/ EditMaterial(p) \/ Undo(p) \/ ViewCode(p) \/ Save(p) \/ CloseTab(p) \/ CloseMarkedTab(p)
      PROVE  ExitInv'
  BY <1>2, <1>a DEF Edit, Restructure, EditMaterial, Undo, ViewCode, Save, CloseTab, CloseMarkedTab
<1>3. ASSUME NEW p \in Pages, NEW i \in Ids, EditEntry(p, i) \/ NewEntry(p, i) PROVE ExitInv'
  BY <1>3, <1>a DEF EditEntry, NewEntry, ChangeEntry
<1>4. CASE OpenUcs \/ OpenModule \/ ShowModule \/ CloseModule
  BY <1>4, <1>a DEF OpenUcs, OpenModule, ShowModule, CloseModule
<1>5. CASE CloseWindow
  <2>1. closing' = "asking" /\ next' = 1 /\ tabs' = tabs /\ DOMAIN tabs = 1 .. Len(tabs)
    BY <1>5, TypeParts DEF CloseWindow, noteVars, Inv, NotesOK, Notebook
  <2>2. \A n \in DOMAIN tabs : ~ n < 1
    BY <2>1
  <2>3. QED
    BY <2>1, <2>2 DEF ExitInv, AskedBefore
<1>6. CASE CloseEmptyWindow
  <2>1. closing' = "closed" /\ tabs' = tabs /\ DOMAIN tabs = {}
    <3>1. DOMAIN tabs = 1 .. Len(tabs) /\ Len(tabs) = 0
      BY <1>6, TypeParts DEF CloseEmptyWindow, Inv, NotesOK, Notebook
    <3>2. QED
      BY <1>6, <3>1 DEF CloseEmptyWindow, noteVars
  <2>2. QED
    BY <2>1 DEF ExitInv, AskedBefore
<1>7. CASE AskPage
  BY <1>7, AskPageExit
<1>8. CASE UNCHANGED vars
  BY <1>8 DEF vars, noteVars, closeVars, ExitInv, AskedBefore, Allowed
<1>9. QED
  BY <1>1, <1>2, <1>3, <1>4, <1>5, <1>6, <1>7, <1>8 DEF Next

\* The window closes only when the user answered for every page that is still marked.
THEOREM ExitAsks == Spec => []ExitAskedAboutEveryMark
<1>1. Init => ExitInv
  BY DEF Init, ExitInv
<1>2. ASSUME Inv, ExitInv PROVE ExitAskedAboutEveryMark
  <2> SUFFICES ASSUME closing = "closed", NEW p \in Open, page[p].dirty PROVE answered[p] \in Allowed
    BY DEF ExitAskedAboutEveryMark, Allowed
  <2>1. Notebook(tabs, page)
    BY <1>2, TypeParts DEF Inv, NotesOK
  <2>2. tabs \in Seq(Pages) /\ Listed(tabs, p)
    BY <2>1 DEF Notebook, Open
  <2>3. PICK n \in DOMAIN tabs : tabs[n] = p
    BY <2>2 DEF Listed
  <2>4. n < Len(tabs) + 1
    BY <2>2, <2>3
  <2>5. AskedBefore(Len(tabs) + 1)
    BY <1>2 DEF ExitInv
  <2>6. QED
    BY <2>3, <2>4, <2>5 DEF AskedBefore
<1>3. QED
  BY InvInit, InvNext, <1>1, <1>2, ExitNext, PTL DEF Spec
=============================================================================
