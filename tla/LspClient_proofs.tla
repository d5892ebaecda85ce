--------------------------- MODULE LspClient_proofs ---------------------------
(***************************************************************************)
(* Proofs about LspClient, for any number of editors.  If each has a       *)
(* document of its own, the server gets the messages of each document in   *)
(* the order the protocol asks for, and ends up with the text of the       *)
(* editor.  With or without that, client, queues, editors and server keep  *)
(* their types.                                                            *)
(*                                                                         *)
(* The argument for the server follows the queue: reading all that is in   *)
(* it takes the server through a sequence of states, and the last of them  *)
(* is the one the editors believe it to be in.  Typing is shown part by    *)
(* part (frame, thread, process), with one addition: an open editor has a  *)
(* text, so that what it sends is a message.  What an editor shows stays a *)
(* text because the last of the callbacks that wait for it has one         *)
(* (MaxIn).                                                                *)
(***************************************************************************)
EXTENDS LspClient, SequenceTheorems, WellFoundedInduction, TLAPS

DocsType == [Uris -> Document \cup {NoDocument}]

\* Refused and Updated, of a server with the documents s.
Refuses(s, m) ==
  \/ m.kind = "open" /\ s[m.uri] # NoDocument
  \/ m.kind \in {"change", "close"} /\ s[m.uri] = NoDocument
  \/ m.kind = "change" /\ s[m.uri] # NoDocument /\ s[m.uri].version >= m.version

After(s, m) ==
  CASE m.kind \in {"open", "change"} ->
         [s EXCEPT ![m.uri] = [version |-> m.version, text |-> m.text]]
    [] m.kind = "close" -> [s EXCEPT ![m.uri] = NoDocument]
    [] OTHER -> s

\* The states d through which the messages q take a server that starts in s.
Reads(d, q, s) ==
  /\ d \in [0 .. Len(q) -> DocsType]
  /\ d[0] = s
  /\ \A i \in 1 .. Len(q) : ~Refuses(d[i - 1], q[i]) /\ d[i] = After(d[i - 1], q[i])

\* What an editor believes of its document.
InStep(e, doc) ==
  IF editor[e].lspOpen
    THEN /\ doc # NoDocument /\ doc.version = versions[Uri[e]]
         /\ ~editor[e].needsSync => doc.text = editor[e].text
    ELSE doc = NoDocument

Agreement ==
  \E d : Reads(d, out, docs) /\ \A e \in Editors : InStep(e, d[Len(out)][Uri[e]])

\* The fields of the editors; what one shows comes from a callback (X).
EditorType(X) ==
  [state : {"new", "open", "gone"}, lspOpen : BOOLEAN, needsOpen : BOOLEAN, needsSync : BOOLEAN,
   text : 0 .. MaxText, shown : X]

WellFormed(ed) ==
  /\ \E X : ed \in [Editors -> EditorType(X)]
  /\ \A e \in Editors :
       /\ ed[e].lspOpen => ed[e].state = "open"
       /\ ed[e].state = "open" => ed[e].text \in Texts

Types ==
  /\ out \in Seq(Message) /\ docs \in DocsType
  /\ versions \in [Uris -> Nat] /\ nextId \in Nat
  /\ WellFormed(editor)

\* Where the GUI thread, the I/O thread and the process can be together.
Control ==
  /\ ready => io \in {"loop", "exited"}
  /\ io = "none" => server = "none" /\ docs = NoDocuments
  /\ ~client => io = "none" /\ out = <<>>
  /\ ui = "loop" /\ ~enabled => ~client
  /\ ui = "stopping" => ~enabled

Protocol ==
  ~hasty =>
    /\ ~confused
    /\ enabled /\ ~client => \A e \in Editors : ~editor[e].lspOpen
    /\ server = "running" /\ io \in {"handshake", "loop"} => Agreement

ProtocolInv == Types /\ Control /\ Protocol

-----------------------------------------------------------------------------
LEMMA MessageFields ==
  ASSUME NEW m \in Message
  PROVE  /\ m.kind \in {"open", "change", "close", "request", "shutdown", "exit"}
         /\ m.kind \in {"open", "change", "close"} => m.uri \in Uris
         /\ m.kind \in {"open", "change"} => m.version \in Nat /\ m.text \in Texts
BY DEF Message

LEMMA AfterType ==
  ASSUME NEW s \in DocsType, NEW m \in Message
  PROVE  After(s, m) \in DocsType
<1>1. CASE m.kind \in {"open", "change"}
  <2>1. [version |-> m.version, text |-> m.text] \in Document
    BY <1>1, MessageFields DEF Document
  <2>2. After(s, m) = [s EXCEPT ![m.uri] = [version |-> m.version, text |-> m.text]]
    BY <1>1 DEF After
  <2>3. QED
    BY <2>1, <2>2 DEF DocsType
<1>2. CASE m.kind = "close"
  BY <1>2 DEF After, DocsType
<1>3. CASE m.kind \notin {"open", "change", "close"}
  BY <1>3 DEF After
<1>4. QED
  BY <1>1, <1>2, <1>3

\* One more message takes the server one state further.
LEMMA ReadsMore ==
  ASSUME NEW q \in Seq(Message), NEW s, NEW d, Reads(d, q, s), NEW m \in Message,
         ~Refuses(d[Len(q)], m)
  PROVE  \E c : Reads(c, Append(q, m), s) /\ c[Len(q) + 1] = After(d[Len(q)], m)
<1> DEFINE c == [i \in 0 .. Len(q) + 1 |-> IF i <= Len(q) THEN d[i] ELSE After(d[Len(q)], m)]
<1>1. /\ Len(q) \in Nat /\ Len(Append(q, m)) = Len(q) + 1 /\ Append(q, m)[Len(q) + 1] = m
      /\ \A i \in 1 .. Len(q) : Append(q, m)[i] = q[i]
  OBVIOUS
<1>2. d \in [0 .. Len(q) -> DocsType] /\ d[0] = s
      /\ \A i \in 1 .. Len(q) : ~Refuses(d[i - 1], q[i]) /\ d[i] = After(d[i - 1], q[i])
  BY DEF Reads
<1>3. After(d[Len(q)], m) \in DocsType
  BY <1>1, <1>2, AfterType
<1>4. c \in [0 .. Len(q) + 1 -> DocsType]
  BY <1>1, <1>2, <1>3
<1>5. /\ c[0] = s /\ c[Len(q) + 1] = After(d[Len(q)], m)
      /\ \A i \in 0 .. Len(q) : c[i] = d[i]
  BY <1>1, <1>2
<1> HIDE DEF c
<1>6. ASSUME NEW i \in 1 .. Len(q) + 1
      PROVE  ~Refuses(c[i - 1], Append(q, m)[i]) /\ c[i] = After(c[i - 1], Append(q, m)[i])
  <2>1. CASE i <= Len(q)
    <3>1. i \in 1 .. Len(q) /\ c[i] = d[i] /\ c[i - 1] = d[i - 1] /\ Append(q, m)[i] = q[i]
      BY <1>1, <1>5, <2>1
    <3>2. QED
      BY <1>2, <3>1
  <2>2. CASE i = Len(q) + 1
    <3>1. c[i - 1] = d[Len(q)] /\ Append(q, m)[i] = m
      BY <1>1, <1>5, <2>2
    <3>2. QED
      BY <1>5, <2>2, <3>1
  <2>3. QED
    BY <1>1, <2>1, <2>2
<1>7. Reads(c, Append(q, m), s)
  BY <1>1, <1>4, <1>5, <1>6 DEF Reads
<1>8. QED
  BY <1>5, <1>7

\* The server reads the first message.
LEMMA ReadsOn ==
  ASSUME NEW q \in Seq(Message), q # <<>>, NEW s, NEW d, Reads(d, q, s)
  PROVE  /\ ~Refuses(s, Head(q)) /\ Head(q) \in Message
         /\ \E c : /\ Reads(c, Tail(q), After(s, Head(q)))
                   /\ c[Len(Tail(q))] = d[Len(q)]
<1> DEFINE c == [i \in 0 .. Len(q) - 1 |-> d[i + 1]]
<1>1. /\ Len(q) \in Nat \ {0} /\ Len(Tail(q)) = Len(q) - 1 /\ Head(q) = q[1] /\ Head(q) \in Message
      /\ \A i \in 1 .. Len(q) - 1 : Tail(q)[i] = q[i + 1]
  OBVIOUS
<1>2. d \in [0 .. Len(q) -> DocsType] /\ d[0] = s
      /\ \A i \in 1 .. Len(q) : ~Refuses(d[i - 1], q[i]) /\ d[i] = After(d[i - 1], q[i])
  BY DEF Reads
<1>3. ~Refuses(s, Head(q)) /\ d[1] = After(s, Head(q))
  BY <1>1, <1>2
<1>4. c \in [0 .. Len(q) - 1 -> DocsType]
  BY <1>1, <1>2
<1>5. \A i \in 0 .. Len(q) - 1 : c[i] = d[i + 1]
  OBVIOUS
<1> HIDE DEF c
<1>6. ASSUME NEW i \in 1 .. Len(q) - 1
      PROVE  ~Refuses(c[i - 1], Tail(q)[i]) /\ c[i] = After(c[i - 1], Tail(q)[i])
  <2>1. i + 1 \in 1 .. Len(q) /\ c[i] = d[i + 1] /\ c[i - 1] = d[i] /\ Tail(q)[i] = q[i + 1]
        /\ (i + 1) - 1 = i
    BY <1>1, <1>5
  <2>2. QED
    BY <1>2, <2>1
<1>7. c[0] = After(s, Head(q)) /\ c[Len(q) - 1] = d[Len(q)]
  BY <1>1, <1>3, <1>5
<1>8. Reads(c, Tail(q), After(s, Head(q)))
  BY <1>1, <1>4, <1>6, <1>7 DEF Reads
<1>9. QED
  BY <1>1, <1>3, <1>7, <1>8

\* The editors have documents of their own (two tabs of one file would share one).
OwnDocuments == \A e, f \in Editors : Uri[e] = Uri[f] => e = f

\* What InStep asks of an editor is as good as before.
Kept(e) ==
  /\ editor'[e].lspOpen = editor[e].lspOpen
  /\ editor[e].lspOpen =>
       /\ versions'[Uri[e]] = versions[Uri[e]]
       /\ ~editor'[e].needsSync => ~editor[e].needsSync /\ editor'[e].text = editor[e].text

LEMMA KeptInStep ==
  ASSUME NEW e \in Editors, Kept(e), NEW doc, InStep(e, doc)
  PROVE  InStep(e, doc)'
BY DEF Kept, InStep

LEMMA FinalDocs ==
  ASSUME Types, NEW d, Reads(d, out, docs)
  PROVE  Len(out) \in Nat /\ d[Len(out)] \in DocsType
BY DEF Types, Reads

LEMMA IdleAgrees ==
  ASSUME Agreement, UNCHANGED <<out, docs>>, \A e \in Editors : Kept(e)
  PROVE  Agreement'
<1>1. PICK d : Reads(d, out, docs) /\ \A e \in Editors : InStep(e, d[Len(out)][Uri[e]])
  BY DEF Agreement
<1>2. \A e \in Editors : InStep(e, d[Len(out)][Uri[e]])'
  BY <1>1, KeptInStep
<1>3. Reads(d, out', docs')
  BY <1>1
<1>4. QED
  BY <1>2, <1>3 DEF Agreement

\* A message that has nothing to do with documents.
LEMMA OtherAgrees ==
  ASSUME Types, Agreement, NEW m \in Message, m.kind \notin {"open", "change", "close"},
         out' = Append(out, m), docs' = docs, \A e \in Editors : Kept(e)
  PROVE  Agreement'
<1>1. PICK d : Reads(d, out, docs) /\ \A e \in Editors : InStep(e, d[Len(out)][Uri[e]])
  BY DEF Agreement
<1>2. ~Refuses(d[Len(out)], m) /\ After(d[Len(out)], m) = d[Len(out)]
  BY DEF Refuses, After
<1>3. out \in Seq(Message) /\ Len(out') = Len(out) + 1
  BY DEF Types
<1>4. PICK c : Reads(c, out', docs') /\ c[Len(out')] = d[Len(out)]
  BY <1>1, <1>2, <1>3, ReadsMore
<1>5. \A e \in Editors : InStep(e, c[Len(out)][Uri[e]])'
  BY <1>1, <1>4, KeptInStep
<1>6. QED
  BY <1>4, <1>5 DEF Agreement

\* A message of one editor about its document.
LEMMA SendAgrees ==
  ASSUME OwnDocuments, Types, Agreement, NEW e \in Editors, NEW m \in Message,
         m.uri = Uri[e], out' = Append(out, m), docs' = docs,
         \/ m.kind = "open" /\ ~editor[e].lspOpen
         \/ m.kind = "change" /\ editor[e].lspOpen /\ m.version = versions[Uri[e]] + 1
         \/ m.kind = "close" /\ editor[e].lspOpen,
         IF m.kind = "close" THEN ~editor'[e].lspOpen
           ELSE editor'[e].lspOpen /\ versions'[Uri[e]] = m.version /\ editor'[e].text = m.text,
         \A f \in Editors \ {e} : Kept(f)
  PROVE  Agreement'
<1>1. PICK d : Reads(d, out, docs) /\ \A f \in Editors : InStep(f, d[Len(out)][Uri[f]])
  BY DEF Agreement
<1>s. PICK s : s = d[Len(out)]
  OBVIOUS
<1>2. s \in DocsType /\ s[Uri[e]] \in Document \cup {NoDocument} /\ Uri[e] \in Uris
  BY <1>1, <1>s, FinalDocs DEF DocsType, Uris
<1>3. InStep(e, s[Uri[e]])
  BY <1>1, <1>s
<1>4. ~Refuses(s, m)
  <2>1. CASE m.kind = "open"
    BY <1>3, <2>1 DEF InStep, Refuses
  <2>2. CASE m.kind = "change"
    BY <1>3, <2>2, <1>2 DEF InStep, Refuses, Types
  <2>3. CASE m.kind = "close"
    BY <1>3, <2>3 DEF InStep, Refuses
  <2>4. QED
    BY <2>1, <2>2, <2>3
<1>5. /\ \A f \in Editors \ {e} : After(s, m)[Uri[f]] = s[Uri[f]]
      /\ m.kind = "close" => After(s, m)[Uri[e]] = NoDocument
      /\ m.kind # "close" => After(s, m)[Uri[e]] = [version |-> m.version, text |-> m.text]
  BY <1>2 DEF After, DocsType, OwnDocuments
<1>6. out \in Seq(Message) /\ Len(out') = Len(out) + 1
  BY DEF Types
<1>7. PICK c : Reads(c, out', docs') /\ c[Len(out')] = After(s, m)
  BY <1>1, <1>s, <1>4, <1>6, ReadsMore
<1>8. ASSUME NEW f \in Editors PROVE InStep(f, After(s, m)[Uri[f]])'
  <2>1. CASE f # e
    BY <1>1, <1>s, <1>5, <2>1, KeptInStep
  <2>2. CASE f = e /\ m.kind = "close"
    BY <1>5, <2>2 DEF InStep
  <2>3. CASE f = e /\ m.kind # "close"
    <3>1. [version |-> m.version, text |-> m.text] \in Document
      BY <2>3, MessageFields DEF Document
    <3>2. [version |-> m.version, text |-> m.text] # NoDocument
      BY <3>1, LspAssumption DEF Document, Texts
    <3>3. QED
      BY <1>5, <2>3, <3>2 DEF InStep
  <2>4. QED
    BY <2>1, <2>2, <2>3
<1>9. QED
  BY <1>7, <1>8 DEF Agreement

\* The I/O thread sends the first message and the server reads it.
LEMMA ExchangeAgrees ==
  ASSUME Types, Agreement, out # <<>>, out' = Tail(out), docs' = After(docs, Head(out)),
         \A e \in Editors : Kept(e)
  PROVE  ~Refuses(docs, Head(out)) /\ Agreement'
<1>1. PICK d : Reads(d, out, docs) /\ \A e \in Editors : InStep(e, d[Len(out)][Uri[e]])
  BY DEF Agreement
<1>2. out \in Seq(Message)
  BY DEF Types
<1>3. ~Refuses(docs, Head(out))
  BY <1>1, <1>2, ReadsOn
<1>4. PICK c : Reads(c, out', docs') /\ c[Len(out')] = d[Len(out)]
  BY <1>1, <1>2, ReadsOn
<1>5. \A e \in Editors : InStep(e, c[Len(out)][Uri[e]])'
  BY <1>1, <1>4, KeptInStep
<1>6. QED
  BY <1>3, <1>4, <1>5 DEF Agreement

\* A new server and an empty queue agree with editors that have nothing open.
LEMMA StartAgrees ==
  ASSUME out' = <<>>, docs' = NoDocuments, \A e \in Editors : ~editor'[e].lspOpen
  PROVE  Agreement'
<1> DEFINE d == [i \in 0 .. 0 |-> NoDocuments]
<1>1. Len(out') = 0 /\ NoDocuments \in DocsType
  BY DEF NoDocuments, DocsType
<1>2. Reads(d, out', docs')
  BY <1>1 DEF Reads
<1>3. \A e \in Editors : d[Len(out')][Uri[e]] = NoDocument
  BY <1>1 DEF NoDocuments, Uris
<1>4. \A e \in Editors : InStep(e, d[Len(out)][Uri[e]])'
  BY <1>3 DEF InStep
<1>5. QED
  BY <1>2, <1>4 DEF Agreement

-----------------------------------------------------------------------------
\* Steps that ask for the client may start it.
LEMMA Connect ==
  ASSUME Control, GetLspClient, UNCHANGED <<ui, enabled>>
  PROVE  /\ Control' /\ client' /\ UNCHANGED <<docs, confused>>
         /\ client => UNCHANGED <<server, io>>
         /\ ~client => out = <<>> /\ docs = NoDocuments /\ ~ready
<1>1. client' = TRUE /\ enabled' = enabled /\ enabled
  BY DEF GetLspClient
<1>2. CASE client
  BY <1>1, <1>2 DEF GetLspClient, Control, thread, process
<1>3. CASE ~client
  BY <1>1, <1>3 DEF GetLspClient, StartAsync, Start, Control, thread, process
<1>4. QED
  BY <1>2, <1>3

LEMMA ConnectIdle ==
  ASSUME ProtocolInv, GetLspClient, UNCHANGED <<ui, enabled, hasty, out>>,
         \A e \in Editors : Kept(e)
  PROVE  Control' /\ Protocol'
<1>1. /\ Control' /\ client' /\ UNCHANGED <<docs, confused>>
      /\ client => UNCHANGED <<server, io>>
      /\ ~client => out = <<>> /\ docs = NoDocuments
  BY Connect DEF ProtocolInv
<1>2. SUFFICES ASSUME ~hasty, server' = "running", io' \in {"handshake", "loop"} PROVE Agreement'
  BY <1>1 DEF Protocol, ProtocolInv
<1>3. CASE client
  BY <1>1, <1>2, <1>3, IdleAgrees DEF ProtocolInv, Protocol
<1>4. CASE ~client
  <2>1. \A e \in Editors : ~editor'[e].lspOpen
    BY <1>2, <1>4 DEF GetLspClient, ProtocolInv, Protocol, Kept
  <2>2. QED
    BY <1>1, <1>4, <2>1, StartAgrees
<1>5. QED
  BY <1>3, <1>4

LEMMA ConnectSend ==
  ASSUME OwnDocuments, ProtocolInv, GetLspClient, UNCHANGED <<ui, enabled, hasty>>,
         NEW e \in Editors, ready \/ editor[e].lspOpen,
         NEW m \in Message, m.uri = Uri[e], out' = Append(out, m),
         \/ m.kind = "open" /\ ~editor[e].lspOpen
         \/ m.kind = "change" /\ editor[e].lspOpen /\ m.version = versions[Uri[e]] + 1
         \/ m.kind = "close" /\ editor[e].lspOpen,
         IF m.kind = "close" THEN ~editor'[e].lspOpen
           ELSE editor'[e].lspOpen /\ versions'[Uri[e]] = m.version /\ editor'[e].text = m.text,
         \A f \in Editors \ {e} : Kept(f)
  PROVE  Control' /\ Protocol'
<1>1. /\ Control' /\ client' /\ UNCHANGED <<docs, confused>>
      /\ client => UNCHANGED <<server, io>>
      /\ ~client => ~ready
  BY Connect DEF ProtocolInv
<1>2. SUFFICES ASSUME ~hasty, server' = "running", io' \in {"handshake", "loop"} PROVE Agreement'
  BY <1>1 DEF Protocol, ProtocolInv
<1>3. client
  BY <1>1, <1>2 DEF GetLspClient, ProtocolInv, Protocol
<1>4. Agreement /\ Types
  BY <1>1, <1>2, <1>3 DEF ProtocolInv, Protocol
<1>5. docs' = docs
  BY <1>1
<1>6. QED
  BY <1>4, <1>5, SendAgrees

\* A step that replaces one editor.
LEMMA OneEditor ==
  ASSUME NEW ed, WellFormed(ed), NEW X, ed \in [Editors -> EditorType(X)],
         NEW e \in Editors, NEW r \in EditorType(X),
         r.lspOpen => r.state = "open", r.state = "open" => r.text \in Texts,
         NEW new, new = [ed EXCEPT ![e] = r]
  PROVE  WellFormed(new) /\ new[e] = r /\ \A f \in Editors \ {e} : new[f] = ed[f]
<1>1. /\ new \in [Editors -> EditorType(X)]
      /\ new[e] = r /\ \A f \in Editors \ {e} : new[f] = ed[f]
  OBVIOUS
<1>2. QED
  BY <1>1 DEF WellFormed

\* LspOpenDocument, of editors ed that differ from editor in what InStep does not see.
LEMMA OpenDocument ==
  ASSUME OwnDocuments, ProtocolInv, NEW e \in Editors, NEW ed, WellFormed(ed),
         ed[e].state = "open", ~editor[e].lspOpen, ~ed[e].lspOpen,
         \A f \in Editors \ {e} :
           /\ ed[f].lspOpen = editor[f].lspOpen /\ ed[f].needsSync = editor[f].needsSync
           /\ ed[f].text = editor[f].text,
         GetLspClient, LspOpenDocument(e, ed), UNCHANGED <<ui, enabled, hasty, nextId>>
  PROVE  ProtocolInv'
<1>0. Types /\ Control /\ Uri[e] \in Uris
  BY DEF ProtocolInv, Uris
<1>d. docs' \in DocsType /\ nextId' \in Nat
  BY <1>0, Connect DEF Types
<1>1. CASE ready
  <2> DEFINE m == [kind |-> "open", uri |-> Uri[e], version |-> 1, text |-> ed[e].text]
  <2>1. /\ editor' = [ed EXCEPT ![e].lspOpen = TRUE, ![e].needsOpen = FALSE]
        /\ versions' = [versions EXCEPT ![Uri[e]] = 1] /\ out' = Append(out, m)
    BY <1>1 DEF LspOpenDocument, Send
  <2>2. m \in Message
    BY <1>0 DEF Message, WellFormed
  <2>r. PICK X, r : ed \in [Editors -> EditorType(X)]
                    /\ r = [ed[e] EXCEPT !.lspOpen = TRUE, !.needsOpen = FALSE]
    BY DEF WellFormed
  <2>e. editor' = [ed EXCEPT ![e] = r]
    BY <2>1, <2>r
  <2>f. /\ r \in EditorType(X) /\ r.state = "open" /\ r.lspOpen = TRUE
        /\ r.text = ed[e].text /\ r.text \in Texts
    BY <2>r DEF EditorType, WellFormed
  <2>3. /\ WellFormed(editor') /\ editor'[e] = r
        /\ \A f \in Editors \ {e} : editor'[f] = ed[f]
    BY <2>r, <2>e, <2>f, OneEditor
  <2>4. /\ editor'[e].lspOpen = TRUE /\ editor'[e].text = ed[e].text
        /\ \A f \in Editors \ {e} : editor'[f] = ed[f]
    BY <2>f, <2>3
  <2>5. /\ versions' \in [Uris -> Nat] /\ versions'[Uri[e]] = 1
        /\ \A f \in Editors \ {e} : versions'[Uri[f]] = versions[Uri[f]]
    BY <1>0, <2>1 DEF Types, OwnDocuments, Uris
  <2>6. Types'
    BY <1>0, <1>d, <2>1, <2>2, <2>3, <2>5 DEF Types
  <2>7. \A f \in Editors \ {e} : Kept(f)
    BY <2>4, <2>5 DEF Kept
  <2>8. m.kind = "open" /\ m.uri = Uri[e] /\ m.version = 1 /\ m.text = ed[e].text
    OBVIOUS
  <2> HIDE DEF m
  <2>9. Control' /\ Protocol'
    BY <1>1, <2>1, <2>2, <2>4, <2>5, <2>7, <2>8, ConnectSend
  <2>10. QED
    BY <2>6, <2>9 DEF ProtocolInv
<1>2. CASE ~ready
  <2>1. /\ editor' = [ed EXCEPT ![e].needsOpen = TRUE]
        /\ UNCHANGED <<versions, out>>
    BY <1>2 DEF LspOpenDocument
  <2>r. PICK X, r : ed \in [Editors -> EditorType(X)] /\ r = [ed[e] EXCEPT !.needsOpen = TRUE]
    BY DEF WellFormed
  <2>e. editor' = [ed EXCEPT ![e] = r]
    BY <2>1, <2>r
  <2>f. /\ r \in EditorType(X) /\ r.state = "open" /\ r.lspOpen = FALSE
        /\ r.text = ed[e].text /\ r.text \in Texts
    BY <2>r DEF EditorType, WellFormed
  <2>2. /\ WellFormed(editor') /\ editor'[e] = r
        /\ \A f \in Editors \ {e} : editor'[f] = ed[f]
    BY <2>r, <2>e, <2>f, OneEditor
  <2>3. /\ editor'[e].lspOpen = FALSE /\ editor[e].lspOpen = FALSE
        /\ \A f \in Editors \ {e} : editor'[f] = ed[f]
    BY <1>0, <2>f, <2>2 DEF Types, WellFormed, EditorType
  <2>4. \A f \in Editors : Kept(f)
    <3>1. Kept(e)
      BY <2>3 DEF Kept
    <3>2. \A f \in Editors \ {e} : Kept(f)
      BY <2>1, <2>3 DEF Kept
    <3>3. QED
      BY <3>1, <3>2
  <2>5. Control' /\ Protocol'
    BY <2>1, <2>4, ConnectIdle
  <2>6. Types'
    BY <1>0, <1>d, <2>1, <2>2 DEF Types
  <2>7. QED
    BY <2>5, <2>6 DEF ProtocolInv
<1>3. QED
  BY <1>1, <1>2

\* A diagnostics callback changes what an editor shows, and nothing else.
LEMMA ShownKeeps ==
  ASSUME WellFormed(editor)
  PROVE  /\ WellFormed(Shown(editor))
         /\ \A f \in Editors :
              /\ Shown(editor)[f].state = editor[f].state
              /\ Shown(editor)[f].lspOpen = editor[f].lspOpen
              /\ Shown(editor)[f].needsSync = editor[f].needsSync
              /\ Shown(editor)[f].text = editor[f].text
<1>1. PICK X : editor \in [Editors -> EditorType(X)]
  BY DEF WellFormed
<1> DEFINE Y == X \cup {Shown(editor)[e].shown : e \in Editors}
<1>2. ASSUME NEW e \in Editors
      PROVE  /\ Shown(editor)[e] \in EditorType(Y)
             /\ Shown(editor)[e].state = editor[e].state
             /\ Shown(editor)[e].lspOpen = editor[e].lspOpen
             /\ Shown(editor)[e].needsSync = editor[e].needsSync
             /\ Shown(editor)[e].text = editor[e].text
  <2>1. PICK x : Shown(editor)[e] = editor[e] \/ Shown(editor)[e] = [editor[e] EXCEPT !.shown = x]
    BY DEF Shown
  <2>2. editor[e] \in EditorType(X) /\ X \subseteq Y /\ Shown(editor)[e].shown \in Y
    BY <1>1
  <2>3. CASE Shown(editor)[e] = editor[e]
    BY <2>2, <2>3 DEF EditorType
  <2>4. CASE Shown(editor)[e] = [editor[e] EXCEPT !.shown = x]
    BY <2>2, <2>4 DEF EditorType
  <2>5. QED
    BY <2>1, <2>3, <2>4
<1>3. Shown(editor) \in [Editors -> EditorType(Y)]
  <2>1. Shown(editor) = [e \in Editors |-> Shown(editor)[e]]
    BY DEF Shown
  <2>2. QED
    BY <1>2, <2>1
<1>4. QED
  BY <1>2, <1>3 DEF WellFormed

-----------------------------------------------------------------------------
\* A step of one editor that sends nothing.
LEMMA QuietStep ==
  ASSUME ProtocolInv, UNCHANGED <<ui, enabled, client, hasty, out, versions, nextId, io, ready,
                                  server, docs, confused>>,
         WellFormed(editor'), \A f \in Editors : Kept(f)
  PROVE  ProtocolInv'
<1>1. Types' /\ Control'
  BY DEF ProtocolInv, Types, Control
<1>2. Agreement => Agreement'
  BY IdleAgrees
<1>3. Protocol'
  BY <1>2 DEF ProtocolInv, Protocol, Kept
<1>4. QED
  BY <1>1, <1>3 DEF ProtocolInv

LEMMA OpenEditorStep ==
  ASSUME OwnDocuments, ProtocolInv, NEW e \in Editors, OpenEditor(e)
  PROVE  ProtocolInv'
<1>1. PICK X : editor \in [Editors -> EditorType(X)]
  BY DEF ProtocolInv, Types, WellFormed
<1>2. PICK r : r = [editor[e] EXCEPT !.state = "open", !.text = 1, !.needsSync = TRUE]
  OBVIOUS
<1>3. PICK ed : ed = [editor EXCEPT ![e] = r]
  OBVIOUS
<1>4. /\ r \in EditorType(X) /\ r.state = "open" /\ r.text = 1 /\ r.text \in Texts
      /\ editor[e].lspOpen = FALSE /\ r.lspOpen = FALSE /\ r.needsSync = TRUE
  <2>1. editor[e] \in EditorType(X) /\ editor[e].state = "new"
    BY <1>1 DEF OpenEditor
  <2>2. editor[e].lspOpen = FALSE
    BY <2>1 DEF EditorType, ProtocolInv, Types, WellFormed
  <2>3. 1 \in Texts /\ 1 \in 0 .. MaxText
    BY LspAssumption DEF Texts
  <2>4. /\ r \in EditorType(X) /\ r.state = "open" /\ r.text = 1 /\ r.needsSync = TRUE
        /\ r.lspOpen = editor[e].lspOpen
    BY <1>2, <2>1, <2>3 DEF EditorType
  <2>5. QED
    BY <2>2, <2>3, <2>4
<1>5. WellFormed(ed) /\ ed[e] = r /\ \A f \in Editors \ {e} : ed[f] = editor[f]
  BY <1>1, <1>3, <1>4, OneEditor DEF ProtocolInv, Types
<1>6. ed = [editor EXCEPT ![e].state = "open", ![e].text = 1, ![e].needsSync = TRUE]
  BY <1>1, <1>2, <1>3
<1>7. CASE /\ editor' = ed
           /\ UNCHANGED <<ui, enabled, client, hasty, thread, process, out, nextId, versions>>
  <2>1. \A f \in Editors : Kept(f)
    BY <1>4, <1>5, <1>7 DEF Kept
  <2>2. QED
    BY <1>5, <1>7, <2>1, QuietStep DEF thread, process
<1>8. CASE GetLspClient /\ LspOpenDocument(e, ed) /\ UNCHANGED <<ui, enabled, hasty, nextId>>
  <2>1. ~editor[e].lspOpen /\ ~ed[e].lspOpen /\ ed[e].state = "open"
    BY <1>4, <1>5
  <2>2. QED
    BY <1>5, <1>8, <2>1, OpenDocument
<1>9. QED
  BY <1>6, <1>7, <1>8 DEF OpenEditor

LEMMA EditStep ==
  ASSUME ProtocolInv, NEW e \in Editors, Edit(e)
  PROVE  ProtocolInv'
<1>1. PICK X : editor \in [Editors -> EditorType(X)]
  BY DEF ProtocolInv, Types, WellFormed
<1>2. PICK r : r = [editor[e] EXCEPT !.text = editor[e].text + 1, !.needsSync = TRUE]
  OBVIOUS
<1>3. editor[e].text \in Texts /\ editor[e].state = "open" /\ editor[e].text < MaxText
  BY DEF Edit, IsOpen, ProtocolInv, Types, WellFormed
<1>4. editor[e].text + 1 \in Texts /\ editor[e].text + 1 \in 0 .. MaxText
  BY <1>3, LspAssumption DEF Texts
<1>5. /\ r \in EditorType(X) /\ r.state = "open" /\ r.text \in Texts
      /\ r.lspOpen = editor[e].lspOpen /\ r.needsSync = TRUE
  BY <1>1, <1>2, <1>3, <1>4 DEF EditorType
<1>6. editor' = [editor EXCEPT ![e] = r]
  BY <1>1, <1>2 DEF Edit
<1>7. WellFormed(editor') /\ editor'[e] = r /\ \A f \in Editors \ {e} : editor'[f] = editor[f]
  BY <1>1, <1>5, <1>6, OneEditor DEF ProtocolInv, Types
<1>8. UNCHANGED <<ui, enabled, client, hasty, out, versions, nextId, io, ready, server, docs, confused>>
  BY DEF Edit, frameVars, queues, thread, process
<1>9. \A f \in Editors : Kept(f)
  BY <1>5, <1>7, <1>8 DEF Kept
<1>10. QED
  BY <1>7, <1>8, <1>9, QuietStep

LEMMA RequestStep ==
  ASSUME ProtocolInv, NEW e \in Editors, Request(e)
  PROVE  ProtocolInv'
<1>1. /\ GetLspClient /\ editor[e].lspOpen
      /\ UNCHANGED <<ui, enabled, hasty, editor, versions>> /\ nextId' = nextId + 1
  BY DEF Request
<1>2. PICK m : m = [kind |-> "request", id |-> nextId]
  OBVIOUS
<1>3. m \in Message /\ m.kind = "request" /\ out' = Append(out, m)
  BY <1>2 DEF Request, Send, Message, ProtocolInv, Types
<1>4. /\ Control' /\ client' /\ UNCHANGED <<docs, confused>>
      /\ client => UNCHANGED <<server, io>>
  BY <1>1, Connect DEF ProtocolInv
<1>5. Types'
  BY <1>1, <1>3, <1>4 DEF ProtocolInv, Types
<1>6. Protocol'
  <2>1. SUFFICES ASSUME ~hasty, server' = "running", io' \in {"handshake", "loop"} PROVE Agreement'
    BY <1>1, <1>4 DEF Protocol, ProtocolInv
  <2>2. client
    BY <1>1, <2>1 DEF GetLspClient, ProtocolInv, Protocol
  <2>3. Agreement /\ Types
    BY <1>4, <2>1, <2>2 DEF ProtocolInv, Protocol
  <2>4. \A f \in Editors : Kept(f)
    BY <1>1 DEF Kept
  <2>5. docs' = docs /\ m.kind \notin {"open", "change", "close"}
    BY <1>3, <1>4
  <2>6. QED
    BY <1>3, <2>3, <2>4, <2>5, OtherAgrees
<1>7. QED
  BY <1>4, <1>5, <1>6 DEF ProtocolInv

LEMMA CloseEditorStep ==
  ASSUME OwnDocuments, ProtocolInv, NEW e \in Editors, CloseEditor(e)
  PROVE  ProtocolInv'
<1>1. PICK X : editor \in [Editors -> EditorType(X)]
  BY DEF ProtocolInv, Types, WellFormed
<1>2. PICK r : r = [NewEditor EXCEPT !.state = "gone"]
  OBVIOUS
<1>3. /\ r \in EditorType(X \cup {0}) /\ r.state = "gone" /\ r.lspOpen = FALSE
      /\ editor \in [Editors -> EditorType(X \cup {0})]
  <2>1. 0 \in 0 .. MaxText
    BY LspAssumption
  <2>2. r = [state |-> "gone", lspOpen |-> FALSE, needsOpen |-> FALSE, needsSync |-> FALSE,
             text |-> 0, shown |-> 0]
    BY <1>2 DEF NewEditor
  <2>3. r \in EditorType(X \cup {0}) /\ r.state = "gone" /\ r.lspOpen = FALSE
    BY <2>1, <2>2 DEF EditorType
  <2>4. EditorType(X) \subseteq EditorType(X \cup {0})
    BY DEF EditorType
  <2>5. QED
    BY <1>1, <2>3, <2>4
<1>4. editor' = [editor EXCEPT ![e] = r]
  BY <1>2 DEF CloseEditor
<1>5. /\ WellFormed(editor') /\ editor'[e] = r /\ editor'[e].lspOpen = FALSE
      /\ \A f \in Editors \ {e} : editor'[f] = editor[f]
  BY <1>3, <1>4, OneEditor DEF ProtocolInv, Types
<1>6. UNCHANGED <<ui, enabled, hasty, nextId>> /\ Types /\ Uri[e] \in Uris
  BY DEF CloseEditor, ProtocolInv, Uris
<1>7. CASE editor[e].lspOpen /\ GetLspClient
  <2>1. PICK m : m = [kind |-> "close", uri |-> Uri[e]]
    OBVIOUS
  <2>2. /\ m \in Message /\ m.kind = "close" /\ m.uri = Uri[e] /\ out' = Append(out, m)
        /\ versions' = [versions EXCEPT ![Uri[e]] = 0]
    BY <1>6, <1>7, <2>1 DEF CloseEditor, Send, Message, GetLspClient
  <2>3. /\ versions' \in [Uris -> Nat]
        /\ \A f \in Editors \ {e} : versions'[Uri[f]] = versions[Uri[f]]
    BY <1>6, <2>2 DEF Types, OwnDocuments, Uris
  <2>4. \A f \in Editors \ {e} : Kept(f)
    BY <1>5, <2>3 DEF Kept
  <2>5. Control' /\ Protocol'
    BY <1>5, <1>6, <1>7, <2>2, <2>4, ConnectSend
  <2>6. docs' = docs
    BY <1>6, <1>7, Connect DEF ProtocolInv
  <2>7. Types'
    BY <1>5, <1>6, <2>2, <2>3, <2>6 DEF Types
  <2>8. QED
    BY <2>5, <2>7 DEF ProtocolInv
<1>8. CASE /\ ~editor[e].lspOpen \/ ~enabled
           /\ UNCHANGED <<client, thread, process, out, versions>>
  <2>1. CASE ~editor[e].lspOpen
    <3>1. editor[e].lspOpen = FALSE
      BY <1>1, <2>1 DEF EditorType
    <3>2. \A f \in Editors : Kept(f)
      BY <1>5, <1>8, <3>1 DEF Kept
    <3>3. QED
      BY <1>5, <1>6, <1>8, <3>2, QuietStep DEF thread, process
  <2>2. CASE ~enabled
    <3>1. ui = "loop" /\ ~client /\ io = "none" /\ server = "none"
      BY <2>2 DEF CloseEditor, ProtocolInv, Control
    <3>2. UNCHANGED <<client, ready, io, server, docs, confused, out, versions>>
      BY <1>8 DEF thread, process
    <3>3. Types' /\ Control'
      BY <1>5, <1>6, <3>2 DEF ProtocolInv, Types, Control
    <3>4. Protocol'
      BY <1>6, <2>2, <3>1, <3>2 DEF ProtocolInv, Protocol
    <3>5. QED
      BY <3>3, <3>4 DEF ProtocolInv
  <2>3. QED
    BY <1>8, <2>1, <2>2
<1>9. QED
  BY <1>7, <1>8 DEF CloseEditor

\* A tick polls first: what the editors show changes, then one message at most goes out.
LEMMA TickStep ==
  ASSUME OwnDocuments, ProtocolInv, NEW e \in Editors, Tick(e)
  PROVE  ProtocolInv'
<1>1. PICK ed : ed = Shown(editor)
  OBVIOUS
<1>2. /\ WellFormed(ed)
      /\ \A f \in Editors :
           /\ ed[f].state = editor[f].state /\ ed[f].lspOpen = editor[f].lspOpen
           /\ ed[f].needsSync = editor[f].needsSync /\ ed[f].text = editor[f].text
  BY <1>1, ShownKeeps DEF ProtocolInv, Types
<1>3. /\ GetLspClient /\ UNCHANGED <<ui, enabled, hasty, nextId>> /\ editor[e].state = "open"
      /\ Types /\ Uri[e] \in Uris
  BY DEF Tick, IsOpen, ProtocolInv, Uris
<1>4. CASE ~editor[e].lspOpen /\ LspOpenDocument(e, ed)
  <2>1. ed[e].state = "open" /\ ~ed[e].lspOpen
    BY <1>2, <1>3, <1>4
  <2>2. QED
    BY <1>2, <1>3, <1>4, <2>1, OpenDocument
<1>5. CASE editor[e].lspOpen /\ LspSyncDocument(e, ed)
  <2>1. PICK m, X, r :
          /\ m = [kind |-> "change", uri |-> Uri[e], version |-> versions[Uri[e]] + 1,
                  text |-> ed[e].text]
          /\ ed \in [Editors -> EditorType(X)]
          /\ r = [ed[e] EXCEPT !.needsSync = FALSE]
    BY <1>2 DEF WellFormed
  <2>2. /\ editor' = [ed EXCEPT ![e] = r] /\ out' = Append(out, m)
        /\ versions' = [versions EXCEPT ![Uri[e]] = versions[Uri[e]] + 1]
    BY <1>5, <2>1 DEF LspSyncDocument, Send
  <2>3. ed[e].text \in Texts /\ ed[e].state = "open" /\ ed[e].lspOpen = editor[e].lspOpen
    BY <1>2, <1>3 DEF WellFormed
  <2>4. /\ r \in EditorType(X) /\ r.state = "open" /\ r.lspOpen = editor[e].lspOpen
        /\ r.text = ed[e].text
    BY <2>1, <2>3 DEF EditorType
  <2>5. /\ WellFormed(editor') /\ editor'[e] = r
        /\ \A f \in Editors \ {e} : editor'[f] = ed[f]
    BY <1>2, <2>1, <2>2, <2>3, <2>4, OneEditor
  <2>6. versions[Uri[e]] + 1 \in Nat
    BY <1>3 DEF Types
  <2>7. /\ m \in Message /\ m.kind = "change" /\ m.uri = Uri[e]
        /\ m.version = versions[Uri[e]] + 1 /\ m.text = ed[e].text
    BY <1>3, <2>1, <2>3, <2>6 DEF Message
  <2>8. /\ versions' \in [Uris -> Nat] /\ versions'[Uri[e]] = m.version
        /\ \A f \in Editors \ {e} : versions'[Uri[f]] = versions[Uri[f]]
    BY <1>3, <2>2, <2>6, <2>7 DEF Types, OwnDocuments, Uris
  <2>9. \A f \in Editors \ {e} : Kept(f)
    BY <1>2, <2>5, <2>8 DEF Kept
  <2>10. editor'[e].lspOpen /\ editor'[e].text = m.text
    BY <1>5, <2>4, <2>5, <2>7
  <2>11. Control' /\ Protocol'
    BY <1>3, <1>5, <2>2, <2>7, <2>8, <2>9, <2>10, ConnectSend
  <2>12. docs' = docs
    BY <1>3, Connect DEF ProtocolInv
  <2>13. Types'
    BY <1>3, <2>2, <2>5, <2>7, <2>8, <2>12 DEF Types
  <2>14. QED
    BY <2>11, <2>13 DEF ProtocolInv
<1>6. CASE editor' = ed /\ UNCHANGED <<versions, out>>
  <2>1. \A f \in Editors : Kept(f)
    BY <1>2, <1>6 DEF Kept
  <2>2. Control' /\ Protocol'
    BY <1>3, <1>6, <2>1, ConnectIdle
  <2>3. docs' = docs
    BY <1>3, Connect DEF ProtocolInv
  <2>4. Types'
    BY <1>2, <1>3, <1>6, <2>3 DEF Types
  <2>5. QED
    BY <2>2, <2>4 DEF ProtocolInv
<1>7. QED
  BY <1>1, <1>4, <1>5, <1>6 DEF Tick

LEMMA TickWithoutClientStep ==
  ASSUME ProtocolInv, NEW e \in Editors, TickUndefined(e) \/ TickDisabled(e)
  PROVE  ProtocolInv'
<1>1. CASE TickUndefined(e)
  <2>1. UNCHANGED <<enabled, client, toggles, hasty, editor, queues, thread, process>>
        /\ ui' = "undefined"
    BY <1>1 DEF TickUndefined
  <2>2. Types' /\ Control'
    BY <2>1 DEF ProtocolInv, Types, Control, queues, thread, process
  <2>3. \A f \in Editors : Kept(f)
    BY <2>1 DEF Kept, queues
  <2>4. Agreement => Agreement'
    BY <2>1, <2>3, IdleAgrees DEF queues, process
  <2>5. Protocol'
    BY <2>1, <2>4 DEF ProtocolInv, Protocol, thread, process
  <2>6. QED
    BY <2>2, <2>5 DEF ProtocolInv
<1>2. CASE TickDisabled(e)
  <2>1. /\ UNCHANGED <<frameVars, queues, thread, process>>
        /\ ui = "loop" /\ ~enabled /\ editor[e].state = "open"
        /\ editor' = [editor EXCEPT ![e].lspOpen = FALSE, ![e].needsOpen = TRUE]
    BY <1>2 DEF TickDisabled, IsOpen
  <2>2. ~client /\ io = "none" /\ server = "none"
    BY <2>1 DEF ProtocolInv, Control
  <2>3. PICK X, r : /\ editor \in [Editors -> EditorType(X)]
                    /\ r = [editor[e] EXCEPT !.lspOpen = FALSE, !.needsOpen = TRUE]
    BY DEF ProtocolInv, Types, WellFormed
  <2>4. editor' = [editor EXCEPT ![e] = r]
    BY <2>1, <2>3
  <2>5. /\ r \in EditorType(X) /\ r.state = "open" /\ r.lspOpen = FALSE
        /\ r.text = editor[e].text
    BY <2>1, <2>3 DEF EditorType
  <2>6. editor[e].text \in Texts
    BY <2>1 DEF ProtocolInv, Types, WellFormed
  <2>7. WellFormed(editor')
    BY <2>3, <2>4, <2>5, <2>6, OneEditor DEF ProtocolInv, Types
  <2>8. Types' /\ Control'
    BY <2>1, <2>7 DEF ProtocolInv, Types, Control, frameVars, queues, thread, process
  <2>9. Protocol'
    BY <2>1, <2>2 DEF ProtocolInv, Protocol, frameVars, thread, process
  <2>10. QED
    BY <2>8, <2>9 DEF ProtocolInv
<1>3. QED
  BY <1>1, <1>2

-----------------------------------------------------------------------------
\* The menu item.
LEMMA EmptyQueuesTyped ==
  ASSUME EmptyQueues
  PROVE  out' = <<>> /\ out' \in Seq(Message) /\ versions' \in [Uris -> Nat] /\ nextId' \in Nat
BY DEF EmptyQueues, NoVersions

LEMMA SwitchOffStep ==
  ASSUME ProtocolInv, SwitchOff
  PROVE  ProtocolInv'
<1>1. /\ Types /\ Control /\ Protocol /\ ui = "loop" /\ enabled' = FALSE
      /\ UNCHANGED <<hasty, editor, io, ready, server, docs, confused>>
  BY DEF ProtocolInv, SwitchOff, process
<1>2. CASE io = "none"
  <2>1. client' = FALSE /\ EmptyQueues /\ ui' = ui
    BY <1>2 DEF SwitchOff
  <2>2. Types'
    BY <1>1, <2>1, EmptyQueuesTyped DEF Types
  <2>3. Control'
    BY <1>1, <1>2, <2>1, EmptyQueuesTyped DEF Control
  <2>4. Protocol'
    BY <1>1, <1>2 DEF Protocol
  <2>5. QED
    BY <2>2, <2>3, <2>4 DEF ProtocolInv
<1>3. CASE io # "none"
  <2>1. /\ ui' = "stopping" /\ UNCHANGED <<client, versions>> /\ nextId' = nextId + 1
        /\ out' = out \o << [kind |-> "shutdown"], [kind |-> "exit"] >>
    BY <1>3 DEF SwitchOff
  <2>2. PICK m, n, mid : /\ m = [kind |-> "shutdown"] /\ n = [kind |-> "exit"]
                         /\ mid = Append(out, m)
    OBVIOUS
  <2>3. /\ m \in Message /\ n \in Message /\ mid \in Seq(Message)
        /\ m.kind = "shutdown" /\ n.kind = "exit"
    BY <1>1, <2>2 DEF Types, Message
  <2>4. out' = Append(mid, n) /\ out' \in Seq(Message)
    BY <1>1, <2>1, <2>2, <2>3 DEF Types
  <2>5. Types'
    BY <1>1, <2>1, <2>4 DEF Types
  <2>6. Control'
    BY <1>1, <1>3, <2>1 DEF Control
  <2>7. ASSUME Agreement PROVE Agreement'
    <3>1. PICK d : Reads(d, out, docs) /\ \A e \in Editors : InStep(e, d[Len(out)][Uri[e]])
      BY <2>7 DEF Agreement
    <3>2. \A s : /\ ~Refuses(s, m) /\ After(s, m) = s
                 /\ ~Refuses(s, n) /\ After(s, n) = s
      BY <2>3 DEF Refuses, After
    <3>3. out \in Seq(Message) /\ Len(mid) = Len(out) + 1 /\ Len(out') = Len(mid) + 1
      BY <1>1, <2>2, <2>3, <2>4 DEF Types
    <3>4. PICK c : Reads(c, mid, docs) /\ c[Len(mid)] = d[Len(out)]
      BY <2>2, <2>3, <3>1, <3>2, <3>3, ReadsMore
    <3>5. PICK b : Reads(b, out', docs) /\ b[Len(out')] = d[Len(out)]
      BY <2>3, <2>4, <3>2, <3>3, <3>4, ReadsMore
    <3>6. \A e \in Editors : Kept(e)
      BY <1>1, <2>1 DEF Kept
    <3>7. \A e \in Editors : InStep(e, b[Len(out)][Uri[e]])'
      BY <3>1, <3>5, <3>6, KeptInStep
    <3>8. Reads(b, out, docs)'
      BY <1>1, <3>5
    <3>9. QED
      BY <3>7, <3>8 DEF Agreement
  <2>8. Protocol'
    BY <1>1, <2>7 DEF Protocol
  <2>9. QED
    BY <2>5, <2>6, <2>8 DEF ProtocolInv
<1>4. QED
  BY <1>2, <1>3

LEMMA StoppedStep ==
  ASSUME ProtocolInv, Stopped
  PROVE  ProtocolInv'
<1>1. /\ Types /\ Control /\ Protocol /\ EmptyQueues /\ ui = "stopping" /\ ui' = "loop"
      /\ client' = FALSE /\ io' = "none" /\ ready' = FALSE /\ server' = "none"
      /\ docs' = NoDocuments /\ UNCHANGED <<enabled, hasty, editor, confused>>
  BY DEF ProtocolInv, Stopped, Kill
<1>2. NoDocuments \in DocsType
  BY DEF NoDocuments, DocsType
<1>3. Types'
  BY <1>1, <1>2, EmptyQueuesTyped DEF Types
<1>4. Control'
  BY <1>1, EmptyQueuesTyped DEF Control
<1>5. Protocol'
  BY <1>1 DEF Protocol, Control
<1>6. QED
  BY <1>3, <1>4, <1>5 DEF ProtocolInv

LEMMA SwitchOnStep ==
  ASSUME ProtocolInv, SwitchOn
  PROVE  ProtocolInv'
<1>1. /\ Types /\ Control /\ Protocol /\ ui = "loop" /\ ~enabled /\ enabled' = TRUE
      /\ hasty' = (hasty \/ \E e \in Editors : IsOpen(e) /\ editor[e].lspOpen)
      /\ UNCHANGED <<ui, client, editor, queues, thread, process>>
  BY DEF ProtocolInv, SwitchOn
<1>2. Types' /\ Control'
  BY <1>1 DEF Types, Control, queues, thread, process
<1>3. ~client /\ server = "none"
  BY <1>1 DEF Control
<1>4. ~hasty' => \A e \in Editors : ~editor[e].lspOpen
  BY <1>1 DEF Types, WellFormed, IsOpen
<1>5. Protocol'
  BY <1>1, <1>3, <1>4 DEF Protocol, process
<1>6. QED
  BY <1>2, <1>5 DEF ProtocolInv

-----------------------------------------------------------------------------
\* The I/O thread and the server.
LEMMA ExchangeStep ==
  ASSUME ProtocolInv, Exchange
  PROVE  ProtocolInv'
<1>1. /\ Types /\ Control /\ Protocol /\ io = "loop" /\ server = "running" /\ out # <<>>
      /\ out' = Tail(out) /\ confused' = (confused \/ Refused(Head(out)))
      /\ docs' = Updated(Head(out))
      /\ UNCHANGED <<frameVars, editor, diagnosticsCallbacks, versions, nextId, thread, server>>
  BY DEF ProtocolInv, Exchange, IsRunning
<1>2. docs' = After(docs, Head(out)) /\ (Refused(Head(out)) <=> Refuses(docs, Head(out)))
  BY <1>1 DEF Updated, Refused, After, Refuses
<1>3. Head(out) \in Message /\ out' \in Seq(Message)
  BY <1>1 DEF Types
<1>4. docs' \in DocsType
  BY <1>1, <1>2, <1>3, AfterType DEF Types
<1>5. Types'
  BY <1>1, <1>3, <1>4 DEF Types
<1>6. Control'
  BY <1>1 DEF Control, frameVars, thread
<1>7. \A e \in Editors : Kept(e)
  BY <1>1 DEF Kept
<1>8. ASSUME ~hasty PROVE ~Refuses(docs, Head(out)) /\ Agreement'
  BY <1>1, <1>2, <1>7, <1>8, ExchangeAgrees DEF Protocol
<1>9. Protocol'
  BY <1>1, <1>2, <1>8 DEF Protocol, frameVars
<1>10. QED
  BY <1>5, <1>6, <1>9 DEF ProtocolInv

LEMMA OtherIoStep ==
  ASSUME ProtocolInv, Initialized \/ InitializeFails \/ IoThreadExits \/ ServerDies
  PROVE  ProtocolInv'
<1>1. Types /\ Control /\ Protocol /\ UNCHANGED <<frameVars, editor>>
      /\ UNCHANGED <<versions, nextId, confused>>
  BY DEF ProtocolInv, Initialized, InitializeFails, IoThreadExits, ServerDies, queues, process
<1>2. \A e \in Editors : Kept(e)
  BY <1>1 DEF Kept
<1>3. CASE Initialized
  <2>1. io = "handshake" /\ io' = "loop" /\ ready' = TRUE /\ UNCHANGED <<out, docs, server>>
    BY <1>3 DEF Initialized, queues, process
  <2>2. Types' /\ Control'
    BY <1>1, <2>1 DEF Types, Control, frameVars
  <2>3. Agreement => Agreement'
    BY <1>2, <2>1, IdleAgrees
  <2>4. Protocol'
    BY <1>1, <2>1, <2>3 DEF Protocol, frameVars
  <2>5. QED
    BY <2>2, <2>4 DEF ProtocolInv
<1>4. CASE InitializeFails
  <2>1. io = "handshake" /\ io' = "exited" /\ ready' = ready /\ UNCHANGED <<out, docs, server>>
    BY <1>4 DEF InitializeFails, queues, process
  <2>2. Types' /\ Control'
    BY <1>1, <2>1 DEF Types, Control, frameVars
  <2>3. Protocol'
    BY <1>1, <2>1 DEF Protocol, frameVars
  <2>4. QED
    BY <2>2, <2>3 DEF ProtocolInv
<1>5. CASE IoThreadExits
  <2>1. /\ io = "loop" /\ io' = "exited" /\ ready' = (ready /\ server # "dead") /\ out' = <<>>
        /\ UNCHANGED <<docs, server>>
    BY <1>5 DEF IoThreadExits, process
  <2>2. Types'
    BY <1>1, <2>1 DEF Types
  <2>3. Control'
    BY <1>1, <2>1 DEF Control, frameVars
  <2>4. Protocol'
    BY <1>1, <2>1 DEF Protocol, frameVars
  <2>5. QED
    BY <2>2, <2>3, <2>4 DEF ProtocolInv
<1>6. CASE ServerDies
  <2>1. /\ io # "exited" /\ server = "running" /\ server' = "dead" /\ docs' = NoDocuments
        /\ UNCHANGED <<out, io, ready>>
    BY <1>6 DEF ServerDies, IsRunning, queues, thread
  <2>2. NoDocuments \in DocsType
    BY DEF NoDocuments, DocsType
  <2>3. Types'
    BY <1>1, <2>1, <2>2 DEF Types
  <2>4. Control'
    BY <1>1, <2>1 DEF Control, frameVars
  <2>5. Protocol'
    BY <1>1, <2>1 DEF Protocol, frameVars
  <2>6. QED
    BY <2>3, <2>4, <2>5 DEF ProtocolInv
<1>7. QED
  BY <1>3, <1>4, <1>5, <1>6

-----------------------------------------------------------------------------
LEMMA InitEstablishes ==
  ASSUME Init
  PROVE  ProtocolInv
<1>1. /\ ui = "loop" /\ enabled = TRUE /\ client = FALSE /\ editor = [e \in Editors |-> NewEditor]
      /\ out = <<>> /\ versions = NoVersions /\ nextId = 1 /\ io = "none" /\ ready = FALSE
      /\ server = "none" /\ docs = NoDocuments /\ confused = FALSE
  BY DEF Init
<1>2. NewEditor \in EditorType({0}) /\ NewEditor.lspOpen = FALSE /\ NewEditor.state = "new"
  <2>1. 0 \in 0 .. MaxText
    BY LspAssumption
  <2>2. QED
    BY <2>1 DEF NewEditor, EditorType
<1>3. editor \in [Editors -> EditorType({0})] /\ \A e \in Editors : editor[e] = NewEditor
  BY <1>1, <1>2
<1>4. WellFormed(editor)
  BY <1>2, <1>3 DEF WellFormed
<1>5. docs \in DocsType /\ versions \in [Uris -> Nat]
  BY <1>1 DEF NoDocuments, NoVersions, DocsType
<1>6. Types
  BY <1>1, <1>4, <1>5 DEF Types
<1>7. Control
  BY <1>1 DEF Control
<1>8. Protocol
  BY <1>1, <1>2, <1>3 DEF Protocol
<1>9. QED
  BY <1>6, <1>7, <1>8 DEF ProtocolInv

LEMMA StepKeeps ==
  ASSUME OwnDocuments, ProtocolInv, [Next]_vars
  PROVE  ProtocolInv'
<1>1. ASSUME NEW e \in Editors, User(e) PROVE ProtocolInv'
  BY <1>1, OpenEditorStep, EditStep, RequestStep, CloseEditorStep DEF User
<1>2. ASSUME NEW e \in Editors, Timer(e) PROVE ProtocolInv'
  BY <1>2, TickStep, TickWithoutClientStep DEF Timer
<1>3. CASE SwitchOff \/ Stopped \/ SwitchOn
  BY <1>3, SwitchOffStep, StoppedStep, SwitchOnStep
<1>4. CASE IoThread \/ ServerDies
  BY <1>4, ExchangeStep, OtherIoStep DEF IoThread
<1>5. CASE UNCHANGED vars
  <2>1. UNCHANGED <<ui, enabled, client, hasty, editor, out, versions, nextId, io, ready, server,
                    docs, confused>>
    BY <1>5 DEF vars, frameVars, queues, thread, process
  <2>2. \A e \in Editors : Kept(e)
    BY <2>1 DEF Kept
  <2>3. WellFormed(editor')
    BY <2>1 DEF ProtocolInv, Types
  <2>4. QED
    BY <2>1, <2>2, <2>3, QuietStep
<1>6. QED
  BY <1>1, <1>2, <1>3, <1>4, <1>5 DEF Next

\* Of the documents, versions and queue the client keeps, and the control of its threads.
LEMMA Invariant ==
  ASSUME OwnDocuments
  PROVE  Spec => []ProtocolInv
<1>1. Init => ProtocolInv
  BY InitEstablishes
<1>2. ProtocolInv /\ [Next]_vars => ProtocolInv'
  BY StepKeeps
<1>3. QED
  BY <1>1, <1>2, PTL DEF Spec

\* With documents of their own, whatever the editors open, edit and close, however late the
\* handshake, and wherever the server dies or is switched off and on (never within a tick),
\* the server gets no message that the protocol does not allow.
THEOREM FollowsTheProtocol ==
  ASSUME OwnDocuments
  PROVE  Spec => []ServerFollowsTheProtocol
<1>1. ProtocolInv => ServerFollowsTheProtocol
  BY DEF ProtocolInv, Protocol, ServerFollowsTheProtocol
<1>2. QED
  BY <1>1, Invariant, PTL

\* And once it has read all of them, it has the text of every editor that owes it no change.
THEOREM HasTheText ==
  ASSUME OwnDocuments
  PROVE  Spec => []ServerHasTheText
<1>1. ASSUME ProtocolInv PROVE ServerHasTheText
  <2>1. SUFFICES ASSUME ~hasty, io = "loop", server = "running", out = <<>>,
                        NEW e \in Editors, editor[e].lspOpen, ~editor[e].needsSync
                 PROVE  docs[Uri[e]] # NoDocument /\ docs[Uri[e]].text = editor[e].text
    BY DEF ServerHasTheText, IsRunning
  <2>2. PICK d : Reads(d, out, docs) /\ \A f \in Editors : InStep(f, d[Len(out)][Uri[f]])
    BY <1>1, <2>1 DEF ProtocolInv, Protocol, Agreement
  <2>3. d[Len(out)] = docs
    BY <2>1, <2>2 DEF Reads
  <2>4. InStep(e, docs[Uri[e]])
    BY <2>2, <2>3
  <2>5. QED
    BY <2>1, <2>4 DEF InStep
<1>2. QED
  BY <1>1, Invariant, PTL

-----------------------------------------------------------------------------
\* Types.  The induction needs one fact more: an open editor has a text.
EditorsTyped(ed) ==
  /\ ed \in [Editors -> EditorType(0 .. MaxText)]
  /\ \A e \in Editors : ed[e].state = "open" => ed[e].text \in Texts

FrameTyped ==
  /\ ui \in {"loop", "stopping", "undefined"}
  /\ enabled \in BOOLEAN /\ client \in BOOLEAN /\ hasty \in BOOLEAN
  /\ toggles \in 0 .. MaxToggles

ThreadTyped ==
  /\ io \in {"none", "handshake", "loop", "exited"}
  /\ ready \in BOOLEAN /\ stopRequested \in BOOLEAN

ProcessTyped ==
  /\ server \in {"none", "running", "dead"} /\ docs \in DocsType /\ confused \in BOOLEAN

SentTyped ==
  /\ out \in Seq(Message) /\ versions \in [Uris -> Nat]
  /\ diagnosticsCallbacks \in [Uris -> Editors \cup {NoEditor}]

AskedTyped == pending \in Seq(Callback) /\ callbacks \subseteq Nat \X Editors /\ nextId \in Nat

TypeInv ==
  FrameTyped /\ EditorsTyped(editor) /\ SentTyped /\ AskedTyped /\ ThreadTyped /\ ProcessTyped

LEMMA TypeInvTypes == TypeInv <=> TypeOK /\ \A e \in Editors : IsOpen(e) => editor[e].text \in Texts
BY DEF TypeInv, TypeOK, FrameTyped, EditorsTyped, SentTyped, AskedTyped, ThreadTyped, ProcessTyped,
       EditorType, DocsType, IsOpen

LEMMA Bounds ==
  /\ MaxText \in Nat /\ 0 \in 0 .. MaxText /\ 1 \in 0 .. MaxText /\ 1 \in Texts
  /\ 0 \in 0 .. MaxToggles
BY LspAssumption DEF Texts

\* Every set of numbers has a least one.
LEMMA LeastNumber ==
  ASSUME NEW T \in SUBSET Nat, T # {}
  PROVE  \E n \in T : \A m \in T : n <= m
<1> DEFINE R == OpToRel(<, Nat)
<1>1. \A x, y \in Nat : <<x, y>> \in R <=> x < y
  BY DEF OpToRel
<1>2. IsWellFoundedOn(R, Nat)
  BY NatLessThanWellFounded
<1> HIDE DEF R
<1>3. PICK n \in T : \A m \in T : ~(<<m, n>> \in R)
  BY <1>2, WFMin
<1>4. ASSUME NEW m \in T PROVE n <= m
  <2>1. m \in Nat /\ n \in Nat /\ ~(m < n)
    BY <1>1, <1>3
  <2>2. QED
    BY <2>1
<1>5. QED
  BY <1>4

LEMMA MaxIn ==
  ASSUME NEW n \in Nat, NEW S \in SUBSET (1 .. n), S # {}
  PROVE  Max(S) \in S
<1> DEFINE T == {n - i : i \in S}
<1>1. \A i \in S : n - i \in Nat
  OBVIOUS
<1>0. T \in SUBSET Nat /\ T # {}
  BY <1>1
<1>2. PICK k \in T : \A m \in T : k <= m
  BY <1>0, LeastNumber
<1>3. PICK x \in S : k = n - x
  OBVIOUS
<1>4. ASSUME NEW y \in S PROVE x >= y
  <2>1. n - x <= n - y
    BY <1>2, <1>3
  <2>2. QED
    BY <2>1
<1>5. QED
  BY <1>4 DEF Max

\* Record by record: what an EXCEPT of a field leaves in its type.
LEMMA EditorTyped ==
  ASSUME NEW ed, EditorsTyped(ed), NEW e \in Editors, NEW r \in EditorType(0 .. MaxText),
         r.state = "open" => r.text \in Texts
  PROVE  EditorsTyped([ed EXCEPT ![e] = r])
BY DEF EditorsTyped

LEMMA ShownTyped ==
  ASSUME EditorsTyped(editor), pending \in Seq(Callback)
  PROVE  EditorsTyped(Shown(editor))
<1>1. ASSUME NEW e \in Editors
      PROVE  /\ Shown(editor)[e] \in EditorType(0 .. MaxText)
             /\ Shown(editor)[e].state = "open" => Shown(editor)[e].text \in Texts
  <2> DEFINE mine == {i \in DOMAIN pending : pending[i].kind = "diagnostics" /\ pending[i].editor = e}
             x == pending[Max(mine)].text
  <2>1. editor[e] \in EditorType(0 .. MaxText) /\ (editor[e].state = "open" => editor[e].text \in Texts)
    BY DEF EditorsTyped
  <2>2. CASE mine = {}
    BY <2>1, <2>2 DEF Shown
  <2>3. CASE mine # {}
    <3>1. mine \in SUBSET (1 .. Len(pending)) /\ Len(pending) \in Nat
      OBVIOUS
    <3>2. Max(mine) \in mine
      BY <2>3, <3>1, MaxIn
    <3>3. pending[Max(mine)] \in Callback /\ pending[Max(mine)].kind = "diagnostics"
      BY <3>2, ElementOfSeq
    <3>4. x \in 0 .. MaxText
      BY <3>3 DEF Callback, Texts
    <3>5. Shown(editor)[e] = [editor[e] EXCEPT !.shown = x]
      BY <2>3 DEF Shown
    <3> HIDE DEF x
    <3>6. QED
      BY <2>1, <3>4, <3>5 DEF EditorType
  <2>4. QED
    BY <2>2, <2>3
<1>2. Shown(editor) = [e \in Editors |-> Shown(editor)[e]]
  BY DEF Shown
<1>3. QED
  BY <1>1, <1>2 DEF EditorsTyped

\* What the handlers of the editors do to editor ed of e, and what they send.
LEMMA FieldsTyped ==
  ASSUME NEW ed, EditorsTyped(ed), NEW e \in Editors, ed[e].state = "open"
  PROVE  /\ EditorsTyped([ed EXCEPT ![e].lspOpen = TRUE, ![e].needsOpen = FALSE])
         /\ EditorsTyped([ed EXCEPT ![e].lspOpen = FALSE, ![e].needsOpen = TRUE])
         /\ EditorsTyped([ed EXCEPT ![e].needsOpen = TRUE])
         /\ EditorsTyped([ed EXCEPT ![e].needsSync = FALSE])
<1> DEFINE a == [ed[e] EXCEPT !.lspOpen = TRUE, !.needsOpen = FALSE]
           b == [ed[e] EXCEPT !.lspOpen = FALSE, !.needsOpen = TRUE]
           c == [ed[e] EXCEPT !.needsOpen = TRUE]
           g == [ed[e] EXCEPT !.needsSync = FALSE]
<1>1. ed[e] \in EditorType(0 .. MaxText) /\ ed[e].text \in Texts
  BY DEF EditorsTyped
<1>2. /\ a \in EditorType(0 .. MaxText) /\ a.text \in Texts
      /\ b \in EditorType(0 .. MaxText) /\ b.text \in Texts
      /\ c \in EditorType(0 .. MaxText) /\ c.text \in Texts
      /\ g \in EditorType(0 .. MaxText) /\ g.text \in Texts
  BY <1>1 DEF EditorType
<1>3. /\ [ed EXCEPT ![e].lspOpen = TRUE, ![e].needsOpen = FALSE] = [ed EXCEPT ![e] = a]
      /\ [ed EXCEPT ![e].lspOpen = FALSE, ![e].needsOpen = TRUE] = [ed EXCEPT ![e] = b]
      /\ [ed EXCEPT ![e].needsOpen = TRUE] = [ed EXCEPT ![e] = c]
      /\ [ed EXCEPT ![e].needsSync = FALSE] = [ed EXCEPT ![e] = g]
  BY DEF EditorsTyped
<1> HIDE DEF a, b, c, g
<1>4. /\ EditorsTyped([ed EXCEPT ![e] = a]) /\ EditorsTyped([ed EXCEPT ![e] = b])
      /\ EditorsTyped([ed EXCEPT ![e] = c]) /\ EditorsTyped([ed EXCEPT ![e] = g])
  BY <1>2, EditorTyped
<1>5. QED
  BY <1>3, <1>4

LEMMA ConnectTyped ==
  ASSUME GetLspClient, ThreadTyped, ProcessTyped
  PROVE  client' \in BOOLEAN /\ ThreadTyped' /\ ProcessTyped'
BY DEF GetLspClient, StartAsync, Start, ThreadTyped, ProcessTyped, thread, process

LEMMA OpenDocumentTyped ==
  ASSUME SentTyped, NEW e \in Editors, NEW ed, EditorsTyped(ed), ed[e].state = "open",
         LspOpenDocument(e, ed)
  PROVE  EditorsTyped(editor') /\ SentTyped'
<1>1. CASE ready
  <2> DEFINE m == [kind |-> "open", uri |-> Uri[e], version |-> 1, text |-> ed[e].text]
  <2>1. Uri[e] \in Uris /\ ed[e].text \in Texts
    BY DEF Uris, EditorsTyped
  <2>2. m \in Message
    BY <2>1 DEF Message
  <2>3. /\ editor' = [ed EXCEPT ![e].lspOpen = TRUE, ![e].needsOpen = FALSE]
        /\ diagnosticsCallbacks' = [diagnosticsCallbacks EXCEPT ![Uri[e]] = e]
        /\ versions' = [versions EXCEPT ![Uri[e]] = 1]
        /\ out' = Append(out, m)
    BY <1>1 DEF LspOpenDocument, Send
  <2> HIDE DEF m
  <2>4. EditorsTyped(editor')
    BY <2>3, FieldsTyped
  <2>5. SentTyped'
    BY <2>1, <2>2, <2>3 DEF SentTyped
  <2>6. QED
    BY <2>4, <2>5
<1>2. CASE ~ready
  <2>1. editor' = [ed EXCEPT ![e].needsOpen = TRUE] /\ SentTyped'
    BY <1>2 DEF LspOpenDocument, SentTyped
  <2>2. QED
    BY <2>1, FieldsTyped
<1>3. QED
  BY <1>1, <1>2

LEMMA SyncDocumentTyped ==
  ASSUME SentTyped, NEW e \in Editors, NEW ed, EditorsTyped(ed), ed[e].state = "open",
         LspSyncDocument(e, ed)
  PROVE  EditorsTyped(editor') /\ SentTyped'
<1> DEFINE m == [kind |-> "change", uri |-> Uri[e], version |-> versions[Uri[e]] + 1,
                 text |-> ed[e].text]
<1>1. Uri[e] \in Uris /\ ed[e].text \in Texts /\ versions[Uri[e]] \in Nat
  BY DEF Uris, EditorsTyped, SentTyped
<1>2. m \in Message
  BY <1>1 DEF Message
<1>3. /\ editor' = [ed EXCEPT ![e].needsSync = FALSE]
      /\ versions' = [versions EXCEPT ![Uri[e]] = @ + 1]
      /\ out' = Append(out, m)
      /\ diagnosticsCallbacks' = diagnosticsCallbacks
  BY DEF LspSyncDocument, Send
<1> HIDE DEF m
<1>4. EditorsTyped(editor')
  BY <1>3, FieldsTyped
<1>5. SentTyped'
  BY <1>1, <1>2, <1>3 DEF SentTyped
<1>6. QED
  BY <1>4, <1>5

LEMMA UserTyped ==
  ASSUME TypeInv, NEW e \in Editors, User(e)
  PROVE  TypeInv'
<1>0. editor[e] \in EditorType(0 .. MaxText) /\ (IsOpen(e) => editor[e].text \in Texts)
  BY DEF TypeInv, EditorsTyped, IsOpen
<1>1. CASE OpenEditor(e)
  <2> DEFINE r == [editor[e] EXCEPT !.state = "open", !.text = 1, !.needsSync = TRUE]
             ed == [editor EXCEPT ![e] = r]
  <2>1. [editor EXCEPT ![e].state = "open", ![e].text = 1, ![e].needsSync = TRUE] = ed
    BY DEF TypeInv, EditorsTyped
  <2>2. r \in EditorType(0 .. MaxText) /\ r.text \in Texts /\ r.state = "open"
    BY <1>0, Bounds DEF EditorType
  <2>3. EditorsTyped(ed) /\ ed[e].state = "open"
    <3> HIDE DEF r
    <3>1. EditorsTyped(ed)
      BY <2>2, EditorTyped DEF TypeInv
    <3>2. ed[e] = r
      BY DEF TypeInv, EditorsTyped
    <3>3. QED
      BY <2>2, <3>1, <3>2
  <2> HIDE DEF ed, r
  <2>4. FrameTyped' /\ AskedTyped'
    <3>1. client' \in BOOLEAN
      BY <1>1, ConnectTyped DEF OpenEditor, TypeInv, FrameTyped
    <3>2. QED
      BY <1>1, <3>1 DEF OpenEditor, TypeInv, FrameTyped, AskedTyped
  <2>5. CASE ~enabled /\ editor' = ed
             /\ UNCHANGED <<client, thread, process, out, diagnosticsCallbacks, versions>>
    BY <2>3, <2>4, <2>5 DEF TypeInv, SentTyped, ThreadTyped, ProcessTyped, thread, process
  <2>6. CASE GetLspClient /\ LspOpenDocument(e, ed)
    <3>1. EditorsTyped(editor') /\ SentTyped'
      BY <2>3, <2>6, OpenDocumentTyped DEF TypeInv
    <3>2. ThreadTyped' /\ ProcessTyped'
      BY <2>6, ConnectTyped DEF TypeInv
    <3>3. QED
      BY <2>4, <3>1, <3>2 DEF TypeInv
  <2>7. QED
    BY <1>1, <2>1, <2>5, <2>6 DEF OpenEditor
<1>2. CASE Edit(e)
  <2> DEFINE r == [editor[e] EXCEPT !.text = @ + 1, !.needsSync = TRUE]
  <2>1. editor' = [editor EXCEPT ![e] = r]
    BY <1>2 DEF Edit, TypeInv, EditorsTyped
  <2>0. editor[e].text + 1 \in Texts /\ editor[e].text + 1 \in 0 .. MaxText
    BY <1>0, <1>2, Bounds DEF Edit, EditorType, Texts
  <2>2. r \in EditorType(0 .. MaxText) /\ r.text \in Texts
    BY <1>0, <2>0 DEF EditorType
  <2> HIDE DEF r
  <2>3. EditorsTyped(editor')
    BY <2>1, <2>2, EditorTyped DEF TypeInv
  <2>4. UNCHANGED <<frameVars, queues, thread, process>>
    BY <1>2 DEF Edit
  <2>5. QED
    BY <2>3, <2>4 DEF TypeInv, FrameTyped, SentTyped, AskedTyped, ThreadTyped, ProcessTyped,
                      frameVars, queues, thread, process
<1>3. CASE Request(e)
  <2> DEFINE m == [kind |-> "request", id |-> nextId]
  <2>1. m \in Message /\ nextId \in Nat
    BY DEF Message, TypeInv, AskedTyped
  <2>2. out' = Append(out, m)
    BY <1>3 DEF Request, Send
  <2> HIDE DEF m
  <2>3. SentTyped'
    BY <1>3, <2>1, <2>2 DEF Request, TypeInv, SentTyped
  <2>4. AskedTyped' /\ EditorsTyped(editor')
    BY <1>3, <2>1 DEF Request, TypeInv, AskedTyped, EditorsTyped
  <2>5. client' \in BOOLEAN /\ ThreadTyped' /\ ProcessTyped'
    BY <1>3, ConnectTyped DEF Request, TypeInv
  <2>6. FrameTyped'
    BY <1>3, <2>5 DEF Request, TypeInv, FrameTyped
  <2>7. QED
    BY <2>3, <2>4, <2>5, <2>6 DEF TypeInv
<1>4. CASE CloseEditor(e)
  <2> DEFINE r == [NewEditor EXCEPT !.state = "gone"]
             m == [kind |-> "close", uri |-> Uri[e]]
  <2>1. r \in EditorType(0 .. MaxText) /\ r.state = "gone"
    BY Bounds DEF NewEditor, EditorType
  <2>2. editor' = [editor EXCEPT ![e] = r]
    BY <1>4 DEF CloseEditor
  <2>3. Uri[e] \in Uris /\ m \in Message
    BY DEF Uris, Message
  <2> HIDE DEF r
  <2>4. EditorsTyped(editor')
    BY <2>1, <2>2, EditorTyped DEF TypeInv
  <2>5. AskedTyped'
    BY <1>4 DEF CloseEditor, TypeInv, AskedTyped
  <2>6. CASE /\ GetLspClient
             /\ diagnosticsCallbacks' = [diagnosticsCallbacks EXCEPT ![Uri[e]] = NoEditor]
             /\ Send(m)
             /\ versions' = [versions EXCEPT ![Uri[e]] = 0]
    <3> HIDE DEF m
    <3>1. out' = Append(out, m)
      BY <2>6 DEF Send
    <3>2. SentTyped'
      BY <2>3, <2>6, <3>1 DEF TypeInv, SentTyped
    <3>3. client' \in BOOLEAN /\ ThreadTyped' /\ ProcessTyped'
      BY <2>6, ConnectTyped DEF TypeInv
    <3>4. FrameTyped'
      BY <1>4, <3>3 DEF CloseEditor, TypeInv, FrameTyped
    <3>5. QED
      BY <2>4, <2>5, <3>2, <3>3, <3>4 DEF TypeInv
  <2>7. CASE UNCHANGED <<client, thread, process, diagnosticsCallbacks, out, versions>>
    <3>1. FrameTyped'
      BY <1>4, <2>7 DEF CloseEditor, TypeInv, FrameTyped
    <3>2. QED
      BY <2>4, <2>5, <2>7, <3>1 DEF TypeInv, SentTyped, ThreadTyped, ProcessTyped, thread, process
  <2>8. QED
    BY <1>4, <2>6, <2>7 DEF CloseEditor
<1>5. QED
  BY <1>1, <1>2, <1>3, <1>4 DEF User

LEMMA TimerTyped ==
  ASSUME TypeInv, NEW e \in Editors, Timer(e)
  PROVE  TypeInv'
<1>1. CASE Tick(e)
  <2> DEFINE ed == Shown(editor)
  <2>1. EditorsTyped(ed)
    BY ShownTyped DEF TypeInv, AskedTyped
  <2>2. ed[e].state = "open"
    <3>1. editor[e] \in EditorType(0 .. MaxText) /\ editor[e].state = "open"
      BY <1>1 DEF Tick, IsOpen, TypeInv, EditorsTyped
    <3>2. PICK x : ed[e] = editor[e] \/ ed[e] = [editor[e] EXCEPT !.shown = x]
      BY DEF Shown
    <3> HIDE DEF ed
    <3>3. QED
      BY <3>1, <3>2 DEF EditorType
  <2>3. \/ LspOpenDocument(e, ed)
        \/ LspSyncDocument(e, ed)
        \/ editor' = ed /\ UNCHANGED <<diagnosticsCallbacks, versions, out>>
    BY <1>1 DEF Tick
  <2> HIDE DEF ed
  <2>4. EditorsTyped(editor') /\ SentTyped'
    <3>1. CASE LspOpenDocument(e, ed)
      BY <2>1, <2>2, <3>1, OpenDocumentTyped DEF TypeInv
    <3>2. CASE LspSyncDocument(e, ed)
      BY <2>1, <2>2, <3>2, SyncDocumentTyped DEF TypeInv
    <3>3. CASE editor' = ed /\ UNCHANGED <<diagnosticsCallbacks, versions, out>>
      BY <2>1, <3>3 DEF TypeInv, SentTyped
    <3>4. QED
      BY <2>3, <3>1, <3>2, <3>3
  <2>5. client' \in BOOLEAN /\ ThreadTyped' /\ ProcessTyped'
    BY <1>1, ConnectTyped DEF Tick, TypeInv
  <2>6. FrameTyped'
    BY <1>1, <2>5 DEF Tick, TypeInv, FrameTyped
  <2>7. AskedTyped'
    BY <1>1 DEF Tick, TypeInv, AskedTyped
  <2>8. QED
    BY <2>4, <2>5, <2>6, <2>7 DEF TypeInv
<1>2. CASE TickUndefined(e)
  BY <1>2 DEF TickUndefined, TypeInv, FrameTyped, EditorsTyped, SentTyped, AskedTyped, ThreadTyped,
              ProcessTyped, queues, thread, process
<1>3. CASE TickDisabled(e)
  <2>1. EditorsTyped(editor')
    BY <1>3, FieldsTyped DEF TickDisabled, IsOpen, TypeInv
  <2>2. UNCHANGED <<frameVars, queues, thread, process>>
    BY <1>3 DEF TickDisabled
  <2>3. QED
    BY <2>1, <2>2 DEF TypeInv, FrameTyped, SentTyped, AskedTyped, ThreadTyped, ProcessTyped,
                      frameVars, queues, thread, process
<1>4. QED
  BY <1>1, <1>2, <1>3 DEF Timer

LEMMA EmptyTyped ==
  ASSUME EmptyQueues
  PROVE  SentTyped' /\ AskedTyped'
BY DEF EmptyQueues, SentTyped, AskedTyped, NoCallbacks, NoVersions

LEMMA MenuTyped ==
  ASSUME TypeInv, SwitchOff \/ Stopped \/ SwitchOn
  PROVE  TypeInv'
<1>0. toggles + 1 \in 0 .. MaxToggles \/ ~(toggles < MaxToggles)
  BY LspAssumption DEF TypeInv, FrameTyped
<1>1. CASE SwitchOff
  <2>1. EditorsTyped(editor') /\ ThreadTyped' /\ ProcessTyped'
    <3>1. stopRequested' \in BOOLEAN
      BY <1>1 DEF SwitchOff, TypeInv, ThreadTyped
    <3>2. QED
      BY <1>1, <3>1 DEF SwitchOff, TypeInv, EditorsTyped, ThreadTyped, ProcessTyped, process
  <2>2. FrameTyped'
    BY <1>0, <1>1 DEF SwitchOff, TypeInv, FrameTyped
  <2>3. SentTyped' /\ AskedTyped'
    <3>1. CASE io = "none"
      BY <1>1, <3>1, EmptyTyped DEF SwitchOff
    <3>2. CASE io # "none"
      <4> DEFINE q == << [kind |-> "shutdown"], [kind |-> "exit"] >>
      <4>1. q \in Seq(Message)
        BY DEF Message
      <4>2. /\ out' = out \o q /\ nextId' = nextId + 1
            /\ UNCHANGED <<pending, callbacks, diagnosticsCallbacks, versions>>
        BY <1>1, <3>2 DEF SwitchOff
      <4> HIDE DEF q
      <4>3. out' \in Seq(Message)
        BY <4>1, <4>2 DEF TypeInv, SentTyped
      <4>4. QED
        BY <4>2, <4>3 DEF TypeInv, SentTyped, AskedTyped
    <3>3. QED
      BY <3>1, <3>2
  <2>4. QED
    BY <2>1, <2>2, <2>3 DEF TypeInv
<1>2. CASE Stopped
  <2>1. SentTyped' /\ AskedTyped'
    BY <1>2, EmptyTyped DEF Stopped
  <2>2. ProcessTyped'
    BY <1>2 DEF Stopped, Kill, TypeInv, ProcessTyped, DocsType, NoDocuments
  <2>3. FrameTyped' /\ EditorsTyped(editor') /\ ThreadTyped'
    BY <1>2 DEF Stopped, TypeInv, FrameTyped, EditorsTyped, ThreadTyped
  <2>4. QED
    BY <2>1, <2>2, <2>3 DEF TypeInv
<1>3. CASE SwitchOn
  <2>1. FrameTyped'
    BY <1>0, <1>3 DEF SwitchOn, TypeInv, FrameTyped
  <2>2. UNCHANGED <<editor, queues, thread, process>>
    BY <1>3 DEF SwitchOn
  <2>3. QED
    BY <2>1, <2>2 DEF TypeInv, EditorsTyped, SentTyped, AskedTyped, ThreadTyped, ProcessTyped,
                      queues, thread, process
<1>4. QED
  BY <1>1, <1>2, <1>3

LEMMA ExchangeTyped ==
  ASSUME TypeInv, Exchange
  PROVE  TypeInv'
<1> DEFINE m == Head(out)
<1>1. m \in Message /\ out' \in Seq(Message)
  BY HeadTailProperties DEF Exchange, TypeInv, SentTyped
<1>2. docs' = After(docs, m)
  BY DEF Exchange, Updated, After
<1>3. ProcessTyped'
  <2>1. docs' \in DocsType
    BY <1>1, <1>2, AfterType DEF TypeInv, ProcessTyped
  <2>2. confused' \in BOOLEAN
    <3>1. confused' = (confused \/ Refused(m))
      BY DEF Exchange
    <3>2. QED
      BY <3>1 DEF Refused, TypeInv, ProcessTyped
  <2>3. QED
    BY <2>1, <2>2 DEF Exchange, TypeInv, ProcessTyped
<1>4. SentTyped'
  BY <1>1 DEF Exchange, TypeInv, SentTyped
<1>5. AskedTyped'
  <2>1. CASE \E isError \in BOOLEAN : HandleResponse(m.id, isError)
    <3>1. PICK isError \in BOOLEAN : HandleResponse(m.id, isError)
      BY <2>1
    <3> DEFINE asked == {c \in callbacks : c[1] = m.id}
    <3>2. callbacks' \subseteq Nat \X Editors
      BY <3>1 DEF HandleResponse, TypeInv, AskedTyped
    <3>3. CASE UNCHANGED pending
      BY <3>2, <3>3 DEF Exchange, TypeInv, AskedTyped
    <3>4. CASE \E c \in asked : pending' = Append(pending, [kind |-> "result", editor |-> c[2]])
      <4>1. PICK c \in asked : pending' = Append(pending, [kind |-> "result", editor |-> c[2]])
        BY <3>4
      <4>2. [kind |-> "result", editor |-> c[2]] \in Callback
        BY <4>1 DEF Callback, TypeInv, AskedTyped
      <4>3. pending' \in Seq(Callback)
        BY <4>1, <4>2 DEF TypeInv, AskedTyped
      <4>4. QED
        BY <3>2, <4>3 DEF Exchange, TypeInv, AskedTyped
    <3>5. QED
      BY <3>1, <3>3, <3>4 DEF HandleResponse
  <2>2. CASE m.kind = "change" /\ HandleNotification(m.uri, m.text)
    <3> DEFINE d == diagnosticsCallbacks[m.uri]
               c == [kind |-> "diagnostics", editor |-> d, text |-> m.text]
    <3>1. m.uri \in Uris /\ m.text \in Texts
      BY <1>1, <2>2, MessageFields
    <3>2. d = NoEditor \/ d \in Editors
      BY <3>1 DEF TypeInv, SentTyped
    <3>3. pending' = pending \/ (d \in Editors /\ pending' = Append(pending, c))
      BY <2>2, <3>2 DEF HandleNotification
    <3>4. d \in Editors => c \in Callback
      BY <3>1 DEF Callback
    <3> HIDE DEF c
    <3>5. pending' \in Seq(Callback)
      BY <3>3, <3>4 DEF TypeInv, AskedTyped
    <3>6. QED
      BY <2>2, <3>5 DEF HandleNotification, Exchange, TypeInv, AskedTyped
  <2>3. CASE UNCHANGED <<callbacks, pending>>
    BY <2>3 DEF Exchange, TypeInv, AskedTyped
  <2>4. QED
    BY <2>1, <2>2, <2>3 DEF Exchange
<1>6. FrameTyped' /\ EditorsTyped(editor') /\ ThreadTyped'
  BY DEF Exchange, TypeInv, FrameTyped, EditorsTyped, ThreadTyped, frameVars, thread
<1>7. QED
  BY <1>3, <1>4, <1>5, <1>6 DEF TypeInv

LEMMA OtherTyped ==
  ASSUME TypeInv, Initialized \/ InitializeFails \/ IoThreadExits \/ ServerDies \/ UNCHANGED vars
  PROVE  TypeInv'
<1>1. CASE Initialized \/ InitializeFails
  <2>1. ThreadTyped'
    BY <1>1 DEF Initialized, InitializeFails, TypeInv, ThreadTyped
  <2>2. UNCHANGED <<frameVars, editor, queues, process>>
    BY <1>1 DEF Initialized, InitializeFails
  <2>3. QED
    BY <2>1, <2>2 DEF TypeInv, FrameTyped, EditorsTyped, SentTyped, AskedTyped, ProcessTyped,
                      frameVars, queues, process
<1>2. CASE IoThreadExits
  <2>1. ThreadTyped'
    BY <1>2 DEF IoThreadExits, TypeInv, ThreadTyped
  <2>2. SentTyped' /\ AskedTyped'
    BY <1>2 DEF IoThreadExits, TypeInv, SentTyped, AskedTyped
  <2>3. UNCHANGED <<frameVars, editor, process>>
    BY <1>2 DEF IoThreadExits
  <2>4. QED
    BY <2>1, <2>2, <2>3 DEF TypeInv, FrameTyped, EditorsTyped, ProcessTyped, frameVars, process
<1>3. CASE ServerDies
  <2>1. ProcessTyped'
    BY <1>3 DEF ServerDies, TypeInv, ProcessTyped, DocsType, NoDocuments
  <2>2. UNCHANGED <<frameVars, editor, queues, thread>>
    BY <1>3 DEF ServerDies
  <2>3. QED
    BY <2>1, <2>2 DEF TypeInv, FrameTyped, EditorsTyped, SentTyped, AskedTyped, ThreadTyped,
                      frameVars, queues, thread
<1>4. CASE UNCHANGED vars
  BY <1>4 DEF vars, TypeInv, FrameTyped, EditorsTyped, SentTyped, AskedTyped, ThreadTyped,
              ProcessTyped, frameVars, queues, thread, process
<1>5. QED
  BY <1>1, <1>2, <1>3, <1>4

LEMMA InitTyped ==
  ASSUME Init
  PROVE  TypeInv
<1>1. NewEditor \in EditorType(0 .. MaxText) /\ NewEditor.state = "new"
  BY Bounds DEF NewEditor, EditorType
<1>2. EditorsTyped(editor)
  BY <1>1 DEF Init, EditorsTyped
<1>3. SentTyped /\ AskedTyped
  BY DEF Init, SentTyped, AskedTyped, NoCallbacks, NoVersions
<1>4. FrameTyped /\ ThreadTyped /\ ProcessTyped
  BY Bounds DEF Init, FrameTyped, ThreadTyped, ProcessTyped, DocsType, NoDocuments
<1>5. QED
  BY <1>2, <1>3, <1>4 DEF TypeInv

\* The client, its queues, the editors and the process are type correct, for any editors,
\* documents and bounds: what waits in Poll is a callback with an editor and a text, what is
\* written is a message of a document some editor has.
THEOREM TypeCorrect == Spec => []TypeOK
<1>1. Init => TypeInv
  BY InitTyped
<1>2. TypeInv /\ [Next]_vars => TypeInv'
  BY UserTyped, TimerTyped, MenuTyped, ExchangeTyped, OtherTyped DEF Next, IoThread
<1>3. TypeInv => TypeOK
  BY TypeInvTypes
<1>4. QED
  BY <1>1, <1>2, <1>3, PTL DEF Spec
=============================================================================
