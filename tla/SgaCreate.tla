------------------------------ MODULE SgaCreate ------------------------------
(***************************************************************************)
(* rainman/archive/CSgaCreator::CreateSga, as the Make SGA dialog runs it: *)
(* on the presenter's background thread, one at a time, again after it     *)
(* failed or ended.  The directory is scanned, the output file truncated,  *)
(* the data header laid out in memory with gaps for what is not known yet, *)
(* and written; then every file is compressed by a task of the shared pool *)
(* and, in order, its record is filled in and its data appended; at the    *)
(* end the checksum and the size of the header and the header itself are   *)
(* written over what the file began with.  Any write can fail and leaves   *)
(* the file as it is; what is still buffered when the file is sought,      *)
(* flushed or closed can be lost without a word, because nobody looks at   *)
(* what fflush, the flush of fseek and fclose return.  What is in the file *)
(* is read as SgaFile reads it.                                            *)
(*                                                                         *)
(* Task <<n, i>> compresses the i-th file of the n-th attempt.             *)
(***************************************************************************)
EXTENDS TaskQueue, SgaFile

CONSTANTS
  Trees,        \* directories that may be packed: from directory to name to content
  Versions,     \* the versions asked for
  ToCs,         \* the names of tables of contents asked for
  MaxFiles,     \* bound: files of one directory tree
  MaxAttempts   \* bound: archives made one after the other

Failed == "error"

ASSUME CreateAssumption ==
  /\ MaxFiles \in Nat /\ MaxAttempts \in Nat \ {0}
  /\ Tasks = (1 .. MaxAttempts) \X (1 .. MaxFiles)
  /\ Outcomes = Contents \cup {Failed} /\ Failed \notin Contents
  /\ Versions \subseteq Nat
  /\ \A t \in Trees :
       /\ IsFiniteSet(DOMAIN t) /\ <<>> \in DOMAIN t
       /\ \A d \in DOMAIN t :
            /\ d \in Seq(Names) /\ LowerPath(d) \in Paths
            /\ d # <<>> => Front(d) \in DOMAIN t
            /\ DOMAIN t[d] \subseteq Names /\ t[d] \in [DOMAIN t[d] -> Contents]

VARIABLES
  pc,          \* what the thread in CreateSga does next
  attempt,     \* how many archives were begun
  version,     \* iVersion
  pInput,      \* the scanned directory
  dataHeader,  \* the data header in memory
  qDirsTodo,   \* directories to lay out
  iDirC,       \* directories counted so far, with those still to do
  vFilesList,  \* files laid out so far, as << directory, name >>
  iFileIdx,    \* the file whose compression is collected next
  fOut,        \* the output file
  lost,        \* something written to it was lost unseen
  packed       \* the scanned directory it was opened for

createVars == <<pc, attempt, version, pInput, dataHeader, qDirsTodo, iDirC, vFilesList, iFileIdx,
                fOut, lost, packed>>
vars == <<poolVars, createVars>>

Stages == {"idle", "scan", "head", "dirs", "names", "flush", "submit", "collect",
           "md5", "size", "header", "datamd5", "spin", "done", "failed"}

-----------------------------------------------------------------------------
\* CSgaCreator::_ScanDirectory: names in lower case, sorted.

ScanDirectory(tree) ==
  LET folded(dir) == CHOOSE d \in DOMAIN tree : LowerPath(d) = dir
      spelled(names, name) == CHOOSE n \in names : Lower(n) = name
  IN  [dir \in {LowerPath(d) : d \in DOMAIN tree} |->
        LET names == DOMAIN tree[folded(dir)]
        IN  [name \in {Lower(n) : n \in names} |-> tree[folded(dir)][spelled(names, name)]]]

IsChild(dir, parent) == Len(dir) = Len(parent) + 1 /\ SubSeq(dir, 1, Len(parent)) = parent

SubNames(input, dir) == {Last(d) : d \in {c \in DOMAIN input : IsChild(c, dir)}}

\* Mutant: the children stay in the order in which the directory lists them.
AnyOrder(names) ==
  {s \in [1 .. Cardinality(names) -> names] : \A i, j \in DOMAIN s : i # j => s[i] # s[j]}

\* std::sort of the children, which their names tell apart.
Ascending(names) ==
  {s \in [1 .. Cardinality(names) -> names] : \A i, j \in DOMAIN s : i < j => s[i] < s[j]}

-----------------------------------------------------------------------------
\* The file records, word by word.

Gap == Base - 1   \* what "[-FILE HEADER BUFFER-]" leaves in a word

FileRecord(name, v) ==
  IF v = 4 THEN << Word(name), High(name), Gap, Gap, Gap, Gap, Gap, Gap, Gap, Gap, Gap >>
  ELSE << Word(name), High(name), Gap, Gap, Gap, Gap, Gap, Gap, Gap, Gap >>

\* CompressOneFile: the smaller of the two forms, and the flag that says which.
Compressed(content) ==
  LET smaller == Len(Deflated[content]) < Len(Bytes[content])
  IN  [data  |-> IF smaller THEN Deflated[content] ELSE Bytes[content],
       size  |-> Len(Bytes[content]),
       flags |-> IF smaller THEN 1 ELSE 0]

\* Before the data of a file, version 4 has its name and checksum.
PreData(v) == IF v = 4 THEN << "name", "crc" >> ELSE <<>>

\* What is known of a file once it is compressed.  Version 4 has the time of the file
\* (here 0), which is never read.  Version 2 gets its flags as one word where the
\* reader's structure has two, so that everything behind them comes one word early.
FillRecord(r, v, offset, c) ==
  LET n == Len(c.data)
  IN  IF v = 4
      THEN << r[1], r[2], Word(offset), High(offset), Word(n), High(n),
              Word(c.size), High(c.size), 0, 0, c.flags >>
      ELSE << r[1], r[2], c.flags, Word(offset), High(offset), Word(n), High(n),
              Word(c.size), High(c.size), r[10] >>

-----------------------------------------------------------------------------
NoHeader == [files |-> <<>>]

Init ==
  /\ PoolInit
  /\ pc = "idle" /\ attempt = 0 /\ version = 0
  /\ pInput = <<>> /\ dataHeader = NoHeader
  /\ qDirsTodo = <<>> /\ iDirC = 0 /\ vFilesList = <<>> /\ iFileIdx = 1
  /\ fOut = NoFile /\ lost = FALSE /\ packed = <<>>

\* The dialog starts a new archive when the last one has been reported.
CreateSga(v) ==
  /\ pc \in {"idle", "done", "failed"} /\ attempt < MaxAttempts
  /\ attempt' = attempt + 1 /\ version' = v
  /\ pc' = IF v \in {2, 4} THEN "scan" ELSE "failed"
  /\ UNCHANGED <<poolVars, pInput, dataHeader, qDirsTodo, iDirC, vFilesList, iFileIdx, fOut, lost, packed>>

Count(input) ==
  [dirs |-> Cardinality(DOMAIN input),
   files |-> Cardinality(UNION {{<< d, n >> : n \in DOMAIN input[d]} : d \in DOMAIN input})]

\* The counts and the table of contents, with the root directory to lay out.
EmptyHeader(input, toc) ==
  [dirCount |-> Word(Count(input).dirs), fileCount |-> Word(Count(input).files),
   toc |-> [alias |-> toc, startDir |-> 0, endDir |-> Word(Count(input).dirs),
            startFile |-> 0, endFile |-> Word(Count(input).files)],
   dirs |-> <<>>, files |-> <<>>, names |-> <<>>]

\* Mutant: the files are numbered from 0.
ScanFromZero(tree, toc) ==
  /\ pc = "scan"
  /\ pInput' = ScanDirectory(tree)
  /\ dataHeader' = EmptyHeader(ScanDirectory(tree), toc)
  /\ qDirsTodo' = << <<>> >> /\ iDirC' = 1 /\ vFilesList' = <<>> /\ iFileIdx' = 0
  /\ pc' = "head"
  /\ UNCHANGED <<poolVars, attempt, version, fOut, lost, packed>>

Scan(tree, toc) ==
  /\ pc = "scan"
  /\ pInput' = ScanDirectory(tree)
  /\ dataHeader' = EmptyHeader(ScanDirectory(tree), toc)
  /\ qDirsTodo' = << <<>> >> /\ iDirC' = 1 /\ vFilesList' = <<>> /\ iFileIdx' = 1
  /\ pc' = "head"
  /\ UNCHANGED <<poolVars, attempt, version, fOut, lost, packed>>

ScanFails ==
  /\ pc = "scan"
  /\ pc' = "failed"
  /\ UNCHANGED <<poolVars, attempt, version, pInput, dataHeader, qDirsTodo, iDirC, vFilesList, iFileIdx, fOut, lost, packed>>

\* fopen with "w+b", and the file head with gaps for the checksum and the size.
OpenOutput ==
  /\ pc = "head"
  /\ fOut' = [magic |-> TRUE, version |-> version, platform |-> 1, md5 |-> NoMd5,
              sized |-> FALSE, header |-> NoHeader, data |-> <<>>]
  /\ lost' = FALSE /\ packed' = pInput
  /\ pc' = "dirs"
  /\ UNCHANGED <<poolVars, attempt, version, pInput, dataHeader, qDirsTodo, iDirC, vFilesList, iFileIdx>>

\* One directory: its name, and the ranges of its children among directories and files.
LayOutDirectory ==
  /\ pc = "dirs"
  /\ LET dir == Head(qDirsTodo)
     IN  \E subs \in Ascending(SubNames(pInput, dir)), names \in Ascending(DOMAIN pInput[dir]) :
           /\ dataHeader' = [dataHeader EXCEPT !.names = Append(@, dir), !.dirs = Append(@,
                [name |-> Len(dataHeader.names),
                 subBegin |-> Word(iDirC), subEnd |-> Word(iDirC + Len(subs)),
                 fileBegin |-> Word(Len(vFilesList)), fileEnd |-> Word(Len(vFilesList) + Len(names))])]
           /\ qDirsTodo' = Tail(qDirsTodo) \o [i \in DOMAIN subs |-> Append(dir, subs[i])]
           /\ iDirC' = iDirC + Len(subs)
           /\ vFilesList' = vFilesList \o [i \in DOMAIN names |-> << dir, names[i] >>]
  /\ pc' = IF qDirsTodo' = <<>> THEN "names" ELSE "dirs"
  /\ UNCHANGED <<poolVars, attempt, version, pInput, iFileIdx, fOut, lost, packed>>

\* The names of the files, behind those of the directories.
LayOutFileNames ==
  /\ pc = "names"
  /\ LET n == Len(dataHeader.names)
     IN  dataHeader' = [dataHeader EXCEPT
           !.files = [i \in DOMAIN vFilesList |-> FileRecord(n + i - 1, version)],
           !.names = @ \o [i \in DOMAIN vFilesList |-> vFilesList[i][2]]]
  /\ pc' = "flush"
  /\ UNCHANGED <<poolVars, attempt, version, pInput, qDirsTodo, iDirC, vFilesList, iFileIdx, fOut, lost, packed>>

\* The header as it stands goes out, to be written again at the end.
FlushHeader ==
  /\ pc = "flush"
  /\ fOut' = [fOut EXCEPT !.header = dataHeader]
  /\ pc' = "submit"
  /\ UNCHANGED <<poolVars, attempt, version, pInput, dataHeader, qDirsTodo, iDirC, vFilesList, iFileIdx, lost, packed>>

Content(i) == pInput[vFilesList[i][1]][vFilesList[i][2]]

SubmitCompression ==
  /\ pc = "submit"
  /\ IF iFileIdx <= Len(vFilesList)
     THEN /\ << attempt, iFileIdx >> \in Tasks   \* bound: MaxFiles
          /\ Submit(<< attempt, iFileIdx >>)
          /\ iFileIdx' = iFileIdx + 1 /\ pc' = pc
     ELSE /\ UNCHANGED poolVars
          /\ iFileIdx' = 1 /\ pc' = "collect"
  /\ UNCHANGED <<attempt, version, pInput, dataHeader, qDirsTodo, iDirC, vFilesList, fOut, lost, packed>>

\* A worker ends a compression.  One of an attempt that has failed reads a name and a store
\* that are gone: whatever it finds, nobody asks for it.  VTell is a long: what it cannot
\* tell the length of is not read.
Compress(t, o) ==
  /\ Finish(t, o)
  /\ o # Failed => Len(Bytes[o]) < LongEnd
  /\ t[1] = attempt /\ pc \in {"submit", "collect"} => o \in {Content(t[2]), Failed}
  /\ UNCHANGED createVars

WorkerStarts == Start /\ UNCHANGED createVars

\* Mutant: the offset of a file is taken before the bytes that precede its data.
CollectEarly ==
  /\ pc = "collect" /\ iFileIdx <= Len(vFilesList)
  /\ Ready(<< attempt, iFileIdx >>) /\ future[<< attempt, iFileIdx >>] # Failed
  /\ LET c == Compressed(future[<< attempt, iFileIdx >>])
         offset == Len(fOut.data)
     IN  /\ dataHeader' = [dataHeader EXCEPT !.files[iFileIdx] = FillRecord(@, version, offset, c)]
         /\ fOut' = [fOut EXCEPT !.data = @ \o PreData(version) \o c.data]
  /\ iFileIdx' = iFileIdx + 1
  /\ UNCHANGED <<poolVars, pc, attempt, version, pInput, qDirsTodo, iDirC, vFilesList, lost, packed>>

\* compressionFutures[iFileIdx].get() and the data and record of that file.
Collect ==
  /\ pc = "collect" /\ iFileIdx <= Len(vFilesList)
  /\ Ready(<< attempt, iFileIdx >>) /\ future[<< attempt, iFileIdx >>] # Failed
  /\ LET c == Compressed(future[<< attempt, iFileIdx >>])
         offset == Len(fOut.data) + Len(PreData(version))
     IN  /\ dataHeader' = [dataHeader EXCEPT !.files[iFileIdx] = FillRecord(@, version, offset, c)]
         /\ fOut' = [fOut EXCEPT !.data = @ \o PreData(version) \o c.data]
  /\ iFileIdx' = iFileIdx + 1
  /\ UNCHANGED <<poolVars, pc, attempt, version, pInput, qDirsTodo, iDirC, vFilesList, lost, packed>>

\* Mutant: the error a compression left is waited for and never seen.
CollectFailsUnseen == FALSE /\ UNCHANGED vars

\* get() rethrows: the file is closed as it is, the remaining futures are let go.
CollectFails ==
  /\ pc = "collect" /\ iFileIdx <= Len(vFilesList)
  /\ future[<< attempt, iFileIdx >>] = Failed
  /\ pc' = "failed"
  /\ UNCHANGED <<poolVars, attempt, version, pInput, dataHeader, qDirsTodo, iDirC, vFilesList, iFileIdx, fOut, lost, packed>>

\* Mutant: the last compression is not collected.
CollectedButOne ==
  /\ pc = "collect" /\ iFileIdx >= Len(vFilesList)
  /\ pc' = "md5"
  /\ UNCHANGED <<poolVars, attempt, version, pInput, dataHeader, qDirsTodo, iDirC, vFilesList, iFileIdx, fOut, lost, packed>>

Collected ==
  /\ pc = "collect" /\ iFileIdx > Len(vFilesList)
  /\ pc' = "md5"
  /\ UNCHANGED <<poolVars, attempt, version, pInput, dataHeader, qDirsTodo, iDirC, vFilesList, iFileIdx, fOut, lost, packed>>

\* The four writes at the end, each by what it may leave of the file.
Finalise(from, to, wanted, files) ==
  /\ pc = from /\ pc' = to
  /\ fOut' \in {wanted} \cup files
  /\ lost' = (lost \/ fOut' # wanted)
  /\ UNCHANGED <<poolVars, attempt, version, pInput, dataHeader, qDirsTodo, iDirC, vFilesList, iFileIdx, packed>>

\* The fseek before it flushes the last of the data, and in a small archive all there is.
WriteMd5 ==
  LET md5 == Md5(dataHeader)
  IN  Finalise("md5", "size", [fOut EXCEPT !.md5 = md5],
        {[fOut EXCEPT !.md5 = md5, !.data = SubSeq(@, 1, n)] : n \in 0 .. Len(fOut.data)}
        \cup {[fOut EXCEPT !.md5 = md5, !.magic = FALSE, !.data = <<>>]})

\* Mutant: the header is put in place with its size.
WriteSizeAndHeader == Finalise("size", "header", [fOut EXCEPT !.sized = TRUE, !.header = dataHeader], {})

\* The fseek behind it flushes the checksum and the size.
WriteSize == Finalise("size", "header", [fOut EXCEPT !.sized = TRUE], {fOut, [fOut EXCEPT !.md5 = NoMd5]})

\* With fflush.
WriteHeader == Finalise("header", "datamd5", [fOut EXCEPT !.header = dataHeader], {fOut})

\* The file is read to its end for a checksum nobody reads.  An error of fread is not its end:
\* the loop goes on for ever.
WriteDataMd5 == Finalise("datamd5", "done", fOut, {})
ReadFails == Finalise("datamd5", "spin", fOut, {})

\* fopen fails and leaves the file, or the first write does and leaves it empty.
OpenFails ==
  /\ pc = "head"
  /\ fOut' \in {fOut, NoFile}
  /\ pc' = "failed"
  /\ UNCHANGED <<poolVars, attempt, version, pInput, dataHeader, qDirsTodo, iDirC, vFilesList, iFileIdx, lost, packed>>

WriteFails ==
  /\ \/ pc \in {"flush", "md5", "size", "header", "datamd5"}
     \/ /\ pc = "collect" /\ iFileIdx <= Len(vFilesList)
        /\ Ready(<< attempt, iFileIdx >>) /\ future[<< attempt, iFileIdx >>] # Failed
  /\ pc' = "failed"
  /\ UNCHANGED <<poolVars, attempt, version, pInput, dataHeader, qDirsTodo, iDirC, vFilesList, iFileIdx, fOut, lost, packed>>

Creator ==
  \/ \E t \in Trees, toc \in ToCs : Scan(t, toc)
  \/ ScanFails \/ OpenOutput \/ LayOutDirectory \/ LayOutFileNames \/ FlushHeader
  \/ SubmitCompression \/ Collect \/ CollectFails \/ Collected
  \/ WriteMd5 \/ WriteSize \/ WriteHeader \/ WriteDataMd5 \/ ReadFails \/ OpenFails \/ WriteFails

Next ==
  \/ \E v \in Versions : CreateSga(v)
  \/ Creator
  \/ WorkerStarts
  \/ \E t \in Tasks, o \in Outcomes : Compress(t, o)

Fairness ==
  /\ WF_vars(Creator)
  /\ WF_vars(WorkerStarts)
  /\ \A t \in Tasks : WF_vars(\E o \in Outcomes : Compress(t, o))

Spec == Init /\ [][Next]_vars /\ Fairness
-----------------------------------------------------------------------------
\* Properties

TypeOK ==
  /\ PoolTypeOK
  /\ pc \in Stages /\ attempt \in 0 .. MaxAttempts /\ version \in {0} \cup Versions
  /\ qDirsTodo \in Seq(Seq(Names)) /\ vFilesList \in Seq(Seq(Names) \X Names)
  /\ iDirC \in Nat /\ iFileIdx \in Nat \ {0} /\ lost \in BOOLEAN
  /\ pInput \in {<<>>} \cup {ScanDirectory(t) : t \in Trees}
  /\ packed \in {<<>>} \cup {ScanDirectory(t) : t \in Trees}

\* The words of the format can count what there is to pack, its double words what that takes.
Countable(input) == Count(input).dirs < Base /\ Count(input).files < Base
Addressable(file) == DataOffset(file.header) + Len(file.data) < Base * Base

\* No other directory has its checksum, or it is the root, which needs none.
ToldApart(dir, input) == dir = <<>> \/ \A other \in DOMAIN input : Crc[other] = Crc[dir] => other = dir

\* What reading a file with this content may give: in an archive that reaches beyond what a
\* signed seek can, an error instead.
Readings(file, content) ==
  IF DataOffset(file.header) + Len(file.data) <= LongEnd THEN {Bytes[content]}
  ELSE {Bytes[content], Unreadable}

\* Looking up any name in a directory gives the content packed under it, or says there is none.
FindsPacked(file, toc, input, dir) ==
  \A name \in Names :
    VOpenStream(file, toc, dir, name) \subseteq
      IF Lower(name) \in DOMAIN input[dir] THEN Readings(file, input[dir][Lower(name)]) ELSE {Missing}

\* Whatever Load accepts lists the files that were packed and no others, whatever was lost of
\* it; if nothing was, the listed paths lead to their contents.  Also while the next archive is
\* being made, and after one has failed.
LoadableIsComplete ==
  Loads(fOut) /\ Countable(packed) =>
    /\ Walk(fOut) = UNION {{<< d, n >> : n \in DOMAIN packed[d]} : d \in DOMAIN packed}
    /\ ~lost /\ Addressable(fOut) =>
         \A d \in DOMAIN packed : ToldApart(d, packed) => FindsPacked(fOut, ParentToC(fOut), packed, d)

\* An archive that was made without an error, and lost nothing, loads, and any file of it is
\* found under its name in any spelling, and no other.
LookupsAgree ==
  pc = "done" /\ ~lost =>
    /\ Loads(fOut)
    /\ Countable(packed) /\ Addressable(fOut) =>
         \A d \in DOMAIN packed : ToldApart(d, packed) => FindsPacked(fOut, fOut.header.toc.alias, packed, d)

\* docs/manual-test-plan.md, SGA Packer Tool: an archive that was made can be opened again.
\* It fails when what was buffered is lost by the flush, a seek or the close; no configuration
\* checks it.
DoneMeansLoadable == pc = "done" => Loads(fOut)

\* docs/manual-test-plan.md, Extract Folder from SGA: every folder comes out as it was packed.
\* It fails for folders of the same checksum; no configuration checks it.
FoldersComeOutWhole ==
  pc = "done" /\ ~lost /\ Countable(packed) /\ Addressable(fOut) =>
    \A d \in DOMAIN packed : FindsPacked(fOut, fOut.header.toc.alias, packed, d)

\* The file becomes acceptable by the last write of its header and by no earlier one,
\* unless it has no data a reader could miss.
AcceptedAtTheEnd ==
  [][fOut' # fOut /\ Loads(fOut') => pc = "header" \/ vFilesList = <<>>]_vars

\* An archive that reports success has left no compression behind in the pool.
DoneLeavesNoTask ==
  pc = "done" => \A i \in 1 .. MaxFiles : future[<< attempt, i >>] # "pending"

\* Making an archive ends, on any pool, unless the loop that reads it again does not.
CreationEnds == (pc # "idle") ~> (pc \in {"done", "failed", "spin"})

\* That it ends at all is false of the code, and no document says it: no run checks this.
CreationAlwaysEnds == (pc # "idle") ~> (pc \in {"done", "failed"})
=============================================================================
