--------------------------- MODULE SgaCreate_proofs ----------------------------
(***************************************************************************)
(* Proofs about SgaCreate and SgaFile, for any directories, contents, word *)
(* width and number of workers.  Its variables keep their types; the       *)
(* output file is no archive for a reader before its header has been       *)
(* written; an archive that reports success leaves no compression behind.  *)
(* When only version 4 is asked for (an archive of version 2 cannot be     *)
(* read back): whatever Load accepts and the format can hold is a whole    *)
(* archive, in which a walk lists what was packed and a lookup finds it.   *)
(* The argument for these last: a file whose header lists the input (Lays) *)
(* and whose records lead to the contents (Stored) is whole                *)
(* (LaidAndStored), and a reader of a whole archive sees the input (Opens, *)
(* WalkLists).  Layout, Settled and Appended say how far the making of an  *)
(* archive has come towards that; Acceptable, that Load accepts nothing    *)
(* less.                                                                   *)
(***************************************************************************)
EXTENDS SgaCreate, TaskQueue_proofs, FiniteSetTheorems, WellFoundedInduction

Scanned == {ScanDirectory(t) : t \in Trees}

LEMMA LowerIsName == \A n \in Names : Lower(n) \in Names
BY SgaAssumption DEF Lower, Names

LEMMA LowerPathIsPath == \A d \in Seq(Names) : LowerPath(d) \in Seq(Names)
<1> SUFFICES ASSUME NEW d \in Seq(Names) PROVE LowerPath(d) \in Seq(Names)
  OBVIOUS
<1>1. LowerPath(d) = [i \in 1 .. Len(d) |-> Lower(d[i])]
  BY DEF LowerPath
<1>2. \A i \in 1 .. Len(d) : Lower(d[i]) \in Names
  BY LowerIsName
<1>3. Len(d) \in Nat
  OBVIOUS
<1>4. QED
  BY <1>1, <1>2, <1>3

LEMMA NamesAreFinite ==
  ASSUME NEW names, names \subseteq Names
  PROVE  IsFiniteSet(names) /\ Cardinality(names) \in Nat
<1>1. IsFiniteSet(Names)
  BY FS_Interval, SgaAssumption DEF Names
<1>2. QED
  BY <1>1, FS_Subset, FS_CardinalityType

\* What _ScanDirectory returns is a tree of names in lower case.
LEMMA ScannedType ==
  ASSUME NEW input \in Scanned
  PROVE  /\ DOMAIN input \subseteq Seq(Names)
         /\ \A d \in DOMAIN input : DOMAIN input[d] \subseteq Names
<1>1. PICK t \in Trees : input = ScanDirectory(t)
  BY DEF Scanned
<1> DEFINE folded(dir) == CHOOSE d \in DOMAIN t : LowerPath(d) = dir
           spelled(names, name) == CHOOSE n \in names : Lower(n) = name
           low(dir) == {Lower(n) : n \in DOMAIN t[folded(dir)]}
           dirs == {LowerPath(d) : d \in DOMAIN t}
<1>2. input = [dir \in dirs |-> [name \in low(dir) |-> t[folded(dir)][spelled(DOMAIN t[folded(dir)], name)]]]
  BY <1>1 DEF ScanDirectory
<1>3. DOMAIN t \subseteq Seq(Names) /\ \A d \in DOMAIN t : DOMAIN t[d] \subseteq Names
  BY CreateAssumption
<1>4. DOMAIN input = dirs
  BY <1>2
<1>5. dirs \subseteq Seq(Names)
  BY <1>3, LowerPathIsPath
<1>6. ASSUME NEW dir \in dirs PROVE DOMAIN input[dir] \subseteq Names
  <2>1. folded(dir) \in DOMAIN t
    OBVIOUS
  <2> HIDE DEF folded, spelled
  <2>2. DOMAIN input[dir] = low(dir)
    BY <1>2
  <2>3. QED
    BY <2>1, <2>2, <1>3, LowerIsName
<1>7. QED
  BY <1>4, <1>5, <1>6

LEMMA AscendingType ==
  ASSUME NEW names, names \subseteq Names, NEW s \in Ascending(names)
  PROVE  s \in Seq(Names) /\ Len(s) \in Nat /\ DOMAIN s = 1 .. Len(s)
<1>1. Cardinality(names) \in Nat
  BY NamesAreFinite
<1>2. s \in [1 .. Cardinality(names) -> Names]
  BY DEF Ascending
<1>3. s \in Seq(Names)
  BY <1>1, <1>2
<1>4. QED
  BY <1>3

LEMMA SubNamesType ==
  ASSUME NEW input \in Scanned, NEW dir \in Seq(Names)
  PROVE  SubNames(input, dir) \subseteq Names
<1>1. \A c \in {d \in DOMAIN input : IsChild(d, dir)} : Last(c) \in Names
  <2> TAKE c \in {d \in DOMAIN input : IsChild(d, dir)}
  <2>1. c \in Seq(Names) /\ Len(c) = Len(dir) + 1
    BY ScannedType DEF IsChild
  <2>2. Len(c) \in 1 .. Len(c)
    BY <2>1
  <2>3. QED
    BY <2>1, <2>2 DEF Last
<1>2. QED
  BY <1>1 DEF SubNames

\* A child's path is its parent's with one name more.
LEMMA ChildPath ==
  ASSUME NEW input \in Scanned, NEW dir \in Seq(Names), NEW n \in SubNames(input, dir)
  PROVE  Append(dir, n) \in DOMAIN input
<1>1. PICK c \in DOMAIN input : IsChild(c, dir) /\ n = Last(c)
  BY DEF SubNames
<1>2. c \in Seq(Names) /\ Len(c) = Len(dir) + 1 /\ SubSeq(c, 1, Len(dir)) = dir
  BY <1>1, ScannedType DEF IsChild
<1>3. n = c[Len(dir) + 1]
  BY <1>1, <1>2 DEF Last
<1>4. Append(dir, n) \in Seq(Names) /\ Len(Append(dir, n)) = Len(dir) + 1
  BY SubNamesType
<1>5. \A i \in 1 .. Len(dir) + 1 : Append(dir, n)[i] = c[i]
  <2> TAKE i \in 1 .. Len(dir) + 1
  <2>1. CASE i = Len(dir) + 1
    BY <2>1, <1>3
  <2>2. CASE i \in 1 .. Len(dir)
    <3>1. dir[i] = SubSeq(c, 1, Len(dir))[i]
      BY <1>2
    <3>2. SubSeq(c, 1, Len(dir))[i] = c[i]
      BY <1>2, <2>2
    <3>3. QED
      BY <2>2, <3>1, <3>2
  <2>3. QED
    BY <2>1, <2>2
<1>6. Append(dir, n) = c
  BY <1>2, <1>4, <1>5, SeqEqual
<1>7. QED
  BY <1>6

-----------------------------------------------------------------------------
\* While directories are laid out there is one to do, and each is in the scanned tree.
Queued ==
  pc \in {"head", "dirs"} =>
    pInput \in Scanned /\ qDirsTodo \in Seq(DOMAIN pInput) /\ qDirsTodo # <<>>

\* Laying out one directory keeps the types of the queue and of the file list.
LEMMA LayOutTypes ==
  ASSUME TypeOK, Queued, LayOutDirectory
  PROVE  /\ qDirsTodo' \in Seq(DOMAIN pInput) /\ qDirsTodo' \in Seq(Seq(Names))
         /\ iDirC' \in Nat /\ vFilesList' \in Seq(Seq(Names) \X Names)
<1> DEFINE dir == Head(qDirsTodo)
<1>1. pInput \in Scanned /\ qDirsTodo \in Seq(DOMAIN pInput) /\ qDirsTodo # <<>>
  BY DEF Queued, LayOutDirectory
<1>2. dir \in DOMAIN pInput /\ Tail(qDirsTodo) \in Seq(DOMAIN pInput)
  BY <1>1, HeadTailProperties
<1>3. dir \in Seq(Names) /\ DOMAIN pInput[dir] \subseteq Names /\ SubNames(pInput, dir) \subseteq Names
  BY <1>1, <1>2, ScannedType, SubNamesType
<1>4. PICK subs \in Ascending(SubNames(pInput, dir)), names \in Ascending(DOMAIN pInput[dir]) :
        /\ qDirsTodo' = Tail(qDirsTodo) \o [i \in DOMAIN subs |-> Append(dir, subs[i])]
        /\ iDirC' = iDirC + Len(subs)
        /\ vFilesList' = vFilesList \o [i \in DOMAIN names |-> << dir, names[i] >>]
  BY Zenon DEF LayOutDirectory
<1>5. subs \in Seq(Names) /\ Len(subs) \in Nat /\ DOMAIN subs = 1 .. Len(subs)
      /\ names \in Seq(Names) /\ Len(names) \in Nat /\ DOMAIN names = 1 .. Len(names)
  BY <1>3, AscendingType
<1> DEFINE kids == [i \in DOMAIN subs |-> Append(dir, subs[i])]
           files == [i \in DOMAIN names |-> << dir, names[i] >>]
<1>6. kids \in Seq(DOMAIN pInput)
  <2>1. \A i \in DOMAIN subs : subs[i] \in SubNames(pInput, dir)
    BY <1>4 DEF Ascending
  <2>2. \A i \in DOMAIN subs : Append(dir, subs[i]) \in DOMAIN pInput
    BY <2>1, <1>1, <1>3, ChildPath
  <2> HIDE DEF dir
  <2>3. QED
    BY <2>2, <1>5
<1>7. files \in Seq(Seq(Names) \X Names)
  <2>1. \A i \in DOMAIN names : << dir, names[i] >> \in Seq(Names) \X Names
    BY <1>3, <1>5
  <2> HIDE DEF dir
  <2>2. QED
    BY <2>1, <1>5
<1> HIDE DEF dir, kids, files
<1>8. qDirsTodo' \in Seq(DOMAIN pInput)
  BY <1>2, <1>4, <1>6, ConcatProperties DEF kids, dir
<1>9. DOMAIN pInput \subseteq Seq(Names)
  BY <1>1, ScannedType
<1>10. vFilesList' \in Seq(Seq(Names) \X Names)
  BY <1>4, <1>7, ConcatProperties DEF TypeOK, files, dir
<1>11. qDirsTodo' \in Seq(Seq(Names))
  BY <1>8, <1>9, SeqMonotonic
<1>12. iDirC' \in Nat
  BY <1>4, <1>5 DEF TypeOK
<1>13. QED
  BY <1>8, <1>10, <1>11, <1>12

\* A tree just scanned starts with its root in the queue.
LEMMA RootIsScanned ==
  ASSUME NEW t \in Trees
  PROVE  << <<>> >> \in Seq(DOMAIN ScanDirectory(t)) /\ << <<>> >> \in Seq(Seq(Names))
<1>1. <<>> \in DOMAIN t
  BY CreateAssumption
<1>2. LowerPath(<<>>) = <<>>
  BY DEF LowerPath
<1>3. <<>> \in DOMAIN ScanDirectory(t)
  BY <1>1, <1>2 DEF ScanDirectory
<1>4. QED
  BY <1>3

LEMMA TypeInvariant == Spec => [](TypeOK /\ Queued)
<1>1. Init => TypeOK /\ Queued
  <2> SUFFICES ASSUME Init PROVE TypeOK /\ Queued
    OBVIOUS
  <2>1. PoolTypeOK
    BY PoolInitTypeOK DEF Init
  <2>2. pc = "idle" /\ pc \in Stages /\ lost \in BOOLEAN
    BY DEF Init, Stages
  <2>3. attempt \in 0 .. MaxAttempts /\ version \in {0} \cup Versions
    BY CreateAssumption DEF Init
  <2>4. qDirsTodo \in Seq(Seq(Names)) /\ vFilesList \in Seq(Seq(Names) \X Names)
    BY DEF Init
  <2>5. iDirC \in Nat /\ iFileIdx \in Nat \ {0}
    BY DEF Init
  <2>6. pInput = <<>> /\ packed = <<>>
    BY DEF Init
  <2>7. pInput \in {<<>>} \cup {ScanDirectory(t) : t \in Trees} /\ packed \in {<<>>} \cup {ScanDirectory(t) : t \in Trees}
    BY <2>6
  <2>8. QED
    BY <2>1, <2>2, <2>3, <2>4, <2>5, <2>7, Zenon DEF TypeOK, Queued
<1>2. TypeOK /\ Queued /\ [Next]_vars => TypeOK' /\ Queued'
  <2> SUFFICES ASSUME TypeOK, Queued, [Next]_vars PROVE TypeOK' /\ Queued'
    OBVIOUS
  <2>1. ASSUME NEW v \in Versions, CreateSga(v) PROVE TypeOK' /\ Queued'
    BY <2>1, IdleTypeOK, CreateAssumption DEF CreateSga, TypeOK, Queued, Stages
  <2>2. ASSUME NEW t \in Trees, NEW toc \in ToCs, Scan(t, toc) PROVE TypeOK' /\ Queued'
    BY <2>2, IdleTypeOK, RootIsScanned DEF Scan, TypeOK, Queued, Stages, Scanned
  <2>3. CASE LayOutDirectory
    BY <2>3, IdleTypeOK, LayOutTypes DEF LayOutDirectory, TypeOK, Queued, Stages
  <2>4. CASE SubmitCompression
    BY <2>4, IdleTypeOK, SubmitTypeOK DEF SubmitCompression, TypeOK, Queued, Stages
  <2>5. CASE Collect
    BY <2>5, IdleTypeOK DEF Collect, TypeOK, Queued, Stages
  <2>6. CASE OpenOutput
    BY <2>6, IdleTypeOK DEF OpenOutput, TypeOK, Queued, Stages
  <2>7. CASE ScanFails \/ LayOutFileNames \/ FlushHeader \/ CollectFails \/ Collected \/ OpenFails \/ WriteFails
    BY <2>7, IdleTypeOK DEF ScanFails, LayOutFileNames, FlushHeader, CollectFails, Collected, OpenFails,
       WriteFails, TypeOK, Queued, Stages
  <2>8. CASE WriteMd5 \/ WriteSize \/ WriteHeader \/ WriteDataMd5 \/ ReadFails
    BY <2>8, IdleTypeOK DEF WriteMd5, WriteSize, WriteHeader, WriteDataMd5, ReadFails, Finalise, TypeOK, Queued, Stages
  <2>9. CASE WorkerStarts
    BY <2>9, StartTypeOK DEF WorkerStarts, createVars, TypeOK, Queued
  <2>10. ASSUME NEW t \in Tasks, NEW o \in Outcomes, Compress(t, o) PROVE TypeOK' /\ Queued'
    BY <2>10, FinishTypeOK DEF Compress, createVars, TypeOK, Queued
  <2>11. CASE UNCHANGED vars
    BY <2>11, IdleTypeOK DEF vars, createVars, TypeOK, Queued
  <2>12. QED
    BY <2>1, <2>2, <2>3, <2>4, <2>5, <2>6, <2>7, <2>8, <2>9, <2>10, <2>11 DEF Next, Creator
<1>3. QED
  BY <1>1, <1>2, PTL DEF Spec

\* The variables of CreateSga and of the pool keep their types: only tasks of this model
\* are submitted, and the file list holds files of the scanned tree.
THEOREM TypeCorrect == Spec => []TypeOK
BY TypeInvariant, PTL

-----------------------------------------------------------------------------
FileFields == {"magic", "version", "platform", "md5", "sized", "header", "data"}
HeaderFields == {"dirCount", "fileCount", "toc", "dirs", "files", "names"}

\* What the write of the checksum may leave of the file, and that what is lost is known to be.
LEMMA Md5Written ==
  ASSUME DOMAIN fOut = FileFields, WriteMd5
  PROVE  /\ pc = "md5" /\ pc' = "size"
         /\ UNCHANGED <<poolVars, attempt, version, pInput, dataHeader, vFilesList, iFileIdx, packed>>
         /\ DOMAIN fOut' = FileFields /\ fOut'.md5 = Md5(dataHeader)
         /\ fOut'.version = fOut.version /\ fOut'.platform = fOut.platform
         /\ fOut'.sized = fOut.sized /\ fOut'.header = fOut.header
         /\ ~lost' => ~lost /\ fOut'.magic = fOut.magic /\ fOut'.data = fOut.data
         /\ \/ fOut'.data = fOut.data
            \/ fOut'.data = <<>>
            \/ \E n \in 0 .. Len(fOut.data) : fOut'.data = SubSeq(fOut.data, 1, n)
<1> DEFINE wanted == [fOut EXCEPT !.md5 = Md5(dataHeader)]
           short(n) == [fOut EXCEPT !.md5 = Md5(dataHeader), !.data = SubSeq(@, 1, n)]
           none == [fOut EXCEPT !.md5 = Md5(dataHeader), !.magic = FALSE, !.data = <<>>]
<1>1. /\ pc = "md5" /\ pc' = "size"
      /\ UNCHANGED <<poolVars, attempt, version, pInput, dataHeader, vFilesList, iFileIdx, packed>>
      /\ fOut' = wanted \/ (\E n \in 0 .. Len(fOut.data) : fOut' = short(n)) \/ fOut' = none
      /\ lost' = (lost \/ fOut' # wanted)
  BY DEF WriteMd5, Finalise
<1>2. CASE fOut' = wanted
  BY <1>1, <1>2 DEF FileFields
<1>3. ASSUME NEW n \in 0 .. Len(fOut.data), fOut' = short(n), fOut' # wanted
      PROVE  /\ DOMAIN fOut' = FileFields /\ fOut'.md5 = Md5(dataHeader)
             /\ fOut'.version = fOut.version /\ fOut'.platform = fOut.platform
             /\ fOut'.sized = fOut.sized /\ fOut'.header = fOut.header
             /\ lost' /\ fOut'.data = SubSeq(fOut.data, 1, n)
  BY <1>1, <1>3 DEF FileFields
<1>4. CASE fOut' = none /\ fOut' # wanted
  BY <1>1, <1>4 DEF FileFields
<1>5. QED
  BY <1>1, <1>2, <1>3, <1>4

\* The same of the write of the size.
LEMMA SizeWritten ==
  ASSUME DOMAIN fOut = FileFields, WriteSize
  PROVE  /\ pc = "size" /\ pc' = "header"
         /\ UNCHANGED <<poolVars, attempt, version, pInput, dataHeader, vFilesList, iFileIdx, packed>>
         /\ DOMAIN fOut' = FileFields /\ fOut'.magic = fOut.magic
         /\ fOut'.version = fOut.version /\ fOut'.platform = fOut.platform
         /\ fOut'.header = fOut.header /\ fOut'.data = fOut.data
         /\ ~lost' => ~lost /\ fOut'.sized = TRUE /\ fOut'.md5 = fOut.md5
         /\ (fOut'.sized = TRUE /\ fOut'.md5 = fOut.md5) \/ fOut'.sized = fOut.sized
<1> DEFINE wanted == [fOut EXCEPT !.sized = TRUE]
           none == [fOut EXCEPT !.md5 = NoMd5]
<1>1. /\ pc = "size" /\ pc' = "header"
      /\ UNCHANGED <<poolVars, attempt, version, pInput, dataHeader, vFilesList, iFileIdx, packed>>
      /\ fOut' = wanted \/ (fOut' = fOut /\ fOut' # wanted) \/ (fOut' = none /\ fOut' # wanted)
      /\ lost' = (lost \/ fOut' # wanted)
  BY DEF WriteSize, Finalise
<1>2. CASE fOut' = wanted
  BY <1>1, <1>2 DEF FileFields
<1>3. CASE fOut' = fOut /\ fOut' # wanted
  BY <1>1, <1>3
<1>4. CASE fOut' = none /\ fOut' # wanted
  BY <1>1, <1>4 DEF FileFields
<1>5. QED
  BY <1>1, <1>2, <1>3, <1>4

\* And of the write of the header.
LEMMA HeaderWritten ==
  ASSUME DOMAIN fOut = FileFields, WriteHeader
  PROVE  /\ pc = "header" /\ pc' = "datamd5"
         /\ UNCHANGED <<poolVars, attempt, version, pInput, dataHeader, vFilesList, iFileIdx, packed>>
         /\ DOMAIN fOut' = FileFields /\ fOut'.magic = fOut.magic
         /\ fOut'.version = fOut.version /\ fOut'.platform = fOut.platform
         /\ fOut'.data = fOut.data /\ fOut'.md5 = fOut.md5 /\ fOut'.sized = fOut.sized
         /\ ~lost' => ~lost /\ fOut'.header = dataHeader
         /\ fOut'.header = dataHeader \/ fOut' = fOut
<1> DEFINE wanted == [fOut EXCEPT !.header = dataHeader]
<1>1. /\ pc = "header" /\ pc' = "datamd5"
      /\ UNCHANGED <<poolVars, attempt, version, pInput, dataHeader, vFilesList, iFileIdx, packed>>
      /\ fOut' = wanted \/ (fOut' = fOut /\ fOut' # wanted)
      /\ lost' = (lost \/ fOut' # wanted)
  BY DEF WriteHeader, Finalise
<1>2. CASE fOut' = wanted
  BY <1>1, <1>2 DEF FileFields
<1>3. CASE fOut' = fOut /\ fOut' # wanted
  BY <1>1, <1>3
<1>4. QED
  BY <1>1, <1>2, <1>3

\* The last step changes nothing a reader looks at.
LEMMA DataMd5Written ==
  ASSUME WriteDataMd5 \/ ReadFails
  PROVE  /\ pc = "datamd5" /\ pc' \in {"done", "spin"}
         /\ UNCHANGED <<poolVars, attempt, version, pInput, dataHeader, vFilesList, iFileIdx, packed, fOut>>
         /\ ~lost' => ~lost
BY DEF WriteDataMd5, ReadFails, Finalise

\* From the moment it is truncated until its size is written, the file says it has none.
Unsized ==
  pc \in {"dirs", "names", "flush", "submit", "collect", "md5", "size"} =>
    DOMAIN fOut = FileFields /\ fOut.sized = FALSE

\* The records in memory are one for each file, blank until the first is collected.
Blank == \A i \in DOMAIN vFilesList : \E n : dataHeader.files[i] = FileRecord(n, version)

Laid ==
  /\ pc \in {"head", "dirs", "names", "flush", "submit", "collect"} => DOMAIN dataHeader = HeaderFields
  /\ pc \in {"flush", "submit", "collect"} => DOMAIN dataHeader.files = DOMAIN vFilesList
  /\ pc \in {"flush", "submit"} => Blank
  /\ pc = "collect" /\ iFileIdx = 1 => Blank
  /\ pc = "submit" => fOut.header = dataHeader
  /\ pc = "collect" /\ iFileIdx = 1 => fOut.header = dataHeader

\* Once the first record is filled in, the header in the file is not the one in memory.
Outdated ==
  /\ pc = "collect" /\ iFileIdx > 1 => fOut.header.files[1] # dataHeader.files[1]
  /\ pc \in {"md5", "size"} /\ vFilesList # <<>> => fOut.header.files[1] # dataHeader.files[1]

\* A record that was filled in is no blank one: their words for the flags differ.
LEMMA FilledIsNotBlank ==
  ASSUME NEW r, NEW n, NEW v, NEW offset, NEW content
  PROVE  FillRecord(r, v, offset, Compressed(content)) # FileRecord(n, v)
<1>1. Gap \in Nat /\ Gap > 1
  BY SgaAssumption DEF Gap
<1>2. Compressed(content).flags \in {0, 1}
  BY DEF Compressed
<1> DEFINE c == Compressed(content)
<1> HIDE DEF c
<1>3. CASE v = 4
  <2>1. FillRecord(r, v, offset, c)[11] = c.flags
    BY <1>3 DEF FillRecord
  <2>2. FileRecord(n, v)[11] = Gap
    BY <1>3 DEF FileRecord
  <2>3. QED
    BY <1>1, <1>2, <2>1, <2>2 DEF c
<1>4. CASE v # 4
  <2>1. FillRecord(r, v, offset, c)[3] = c.flags
    BY <1>4 DEF FillRecord
  <2>2. FileRecord(n, v)[3] = Gap
    BY <1>4 DEF FileRecord
  <2>3. QED
    BY <1>1, <1>2, <2>1, <2>2 DEF c
<1>5. QED
  BY <1>3, <1>4

\* The first collection makes the header in the file outdated, the others leave it so.
LEMMA CollectOutdates ==
  ASSUME TypeOK, Unsized, Laid, Outdated, Collect
  PROVE  fOut'.header.files[1] # dataHeader'.files[1]
<1> DEFINE c == Compressed(future[<< attempt, iFileIdx >>])
           offset == Len(fOut.data) + Len(PreData(version))
<1>1. /\ dataHeader' = [dataHeader EXCEPT !.files[iFileIdx] = FillRecord(@, version, offset, c)]
      /\ fOut' = [fOut EXCEPT !.data = @ \o PreData(version) \o c.data]
      /\ pc = "collect" /\ iFileIdx <= Len(vFilesList)
  BY DEF Collect
<1>2. DOMAIN fOut = FileFields /\ DOMAIN dataHeader = HeaderFields /\ DOMAIN dataHeader.files = DOMAIN vFilesList
  BY <1>1 DEF Unsized, Laid
<1>3. fOut'.header = fOut.header
  BY <1>1, <1>2 DEF FileFields
<1>4. iFileIdx \in DOMAIN dataHeader.files /\ 1 \in DOMAIN dataHeader.files
  BY <1>1, <1>2 DEF TypeOK
<1> HIDE DEF c, offset
<1>5. dataHeader'.files = [dataHeader.files EXCEPT ![iFileIdx] = FillRecord(@, version, offset, c)]
  BY <1>1, <1>2 DEF HeaderFields
<1>6. CASE iFileIdx = 1
  <2>1. PICK n : dataHeader.files[1] = FileRecord(n, version)
    BY <1>1, <1>2, <1>4, <1>6 DEF Laid, Blank
  <2>2. fOut.header = dataHeader
    BY <1>1, <1>6 DEF Laid
  <2>3. dataHeader'.files[1] = FillRecord(dataHeader.files[1], version, offset, c)
    BY <1>4, <1>5, <1>6
  <2>4. QED
    BY <1>3, <2>1, <2>2, <2>3, FilledIsNotBlank DEF c
<1>7. CASE iFileIdx # 1
  <2>1. iFileIdx > 1
    BY <1>7 DEF TypeOK
  <2>2. dataHeader'.files[1] = dataHeader.files[1]
    BY <1>4, <1>5, <1>7
  <2>3. QED
    BY <1>1, <1>3, <2>1, <2>2 DEF Outdated
<1>8. QED
  BY <1>6, <1>7

Progress == Unsized /\ Laid /\ Outdated

LEMMA ProgressInvariant == Spec => [](TypeOK /\ Progress)
<1>1. Init => Progress
  BY DEF Init, Progress, Unsized, Laid, Outdated
<1>2. TypeOK /\ Progress /\ [Next]_vars => Progress'
  <2> SUFFICES ASSUME TypeOK, Progress, [Next]_vars PROVE Progress'
    OBVIOUS
  <2> USE DEF Progress, Unsized, Laid, Outdated, Blank
  <2>1. ASSUME NEW v \in Versions, CreateSga(v) PROVE Progress'
    BY <2>1 DEF CreateSga
  <2>2. ASSUME NEW t \in Trees, NEW toc \in ToCs, Scan(t, toc) PROVE Progress'
    BY <2>2 DEF Scan, EmptyHeader, HeaderFields
  <2>3. CASE OpenOutput
    BY <2>3 DEF OpenOutput, FileFields
  <2>4. CASE LayOutDirectory
    BY <2>4 DEF LayOutDirectory, HeaderFields
  <2>5. CASE LayOutFileNames
    <3>1. pc = "names" /\ pc' = "flush" /\ UNCHANGED <<vFilesList, version, fOut>>
      BY <2>5 DEF LayOutFileNames
    <3>2. DOMAIN dataHeader = HeaderFields
      BY <3>1
    <3>3. DOMAIN dataHeader' = HeaderFields
          /\ dataHeader'.files = [i \in DOMAIN vFilesList |-> FileRecord(Len(dataHeader.names) + i - 1, version)]
      BY <2>5, <3>2 DEF LayOutFileNames, HeaderFields
    <3>4. QED
      BY <3>1, <3>3
  <2>6. CASE FlushHeader
    BY <2>6 DEF FlushHeader, FileFields
  <2>7. CASE SubmitCompression
    BY <2>7 DEF SubmitCompression
  <2>8. CASE Collect
    <3>1. fOut'.header.files[1] # dataHeader'.files[1]
      BY <2>8, CollectOutdates
    <3>2. pc = "collect" /\ pc' = "collect" /\ iFileIdx' = iFileIdx + 1 /\ UNCHANGED <<vFilesList, version>>
      BY <2>8 DEF Collect
    <3>3. iFileIdx' # 1
      BY <3>2 DEF TypeOK
    <3>4. DOMAIN fOut' = FileFields /\ fOut'.sized = FALSE
      BY <2>8, <3>2 DEF Collect, FileFields
    <3>5. DOMAIN dataHeader' = HeaderFields /\ DOMAIN dataHeader'.files = DOMAIN vFilesList
      BY <2>8, <3>2 DEF Collect, HeaderFields
    <3>6. QED
      BY <3>1, <3>2, <3>3, <3>4, <3>5
  <2>9. CASE Collected
    <3>1. pc = "collect" /\ pc' = "md5" /\ iFileIdx > Len(vFilesList)
          /\ UNCHANGED <<vFilesList, version, fOut, dataHeader, iFileIdx>>
      BY <2>9 DEF Collected
    <3>2. vFilesList # <<>> => iFileIdx > 1
      BY <3>1 DEF TypeOK
    <3>3. QED
      BY <3>1, <3>2
  <2>10. CASE ScanFails \/ CollectFails \/ OpenFails \/ WriteFails
    BY <2>10 DEF ScanFails, CollectFails, OpenFails, WriteFails
  <2>11. CASE WriteMd5
    <3>1. pc = "md5" /\ DOMAIN fOut = FileFields
      BY <2>11 DEF WriteMd5, Finalise
    <3>2. QED
      BY <2>11, <3>1, Md5Written
  <2>12. CASE WriteSize \/ WriteHeader \/ WriteDataMd5 \/ ReadFails
    BY <2>12 DEF WriteSize, WriteHeader, WriteDataMd5, ReadFails, Finalise
  <2>13. CASE WorkerStarts \/ \E t \in Tasks, o \in Outcomes : Compress(t, o)
    BY <2>13 DEF WorkerStarts, Compress, createVars
  <2>14. CASE UNCHANGED vars
    BY <2>14 DEF vars, createVars
  <2>15. QED
    BY <2>1, <2>2, <2>3, <2>4, <2>5, <2>6, <2>7, <2>8, <2>9, <2>10, <2>11, <2>12, <2>13, <2>14 DEF Next, Creator
<1>3. QED
  BY <1>1, <1>2, TypeInvariant, PTL DEF Spec

\* The checksum that WriteMd5 leaves is that of the header in memory.
Checked == pc = "size" => DOMAIN fOut = FileFields /\ fOut.md5 = Md5(dataHeader)

LEMMA CheckedInvariant == Spec => []Checked
<1>1. Init => Checked
  BY DEF Init, Checked
<1>2. TypeOK /\ Progress /\ Checked /\ [Next]_vars => Checked'
  <2> SUFFICES ASSUME Progress, Checked, [Next]_vars PROVE Checked'
    OBVIOUS
  <2>1. CASE WriteMd5
    <3>1. DOMAIN fOut = FileFields
      BY <2>1 DEF WriteMd5, Finalise, Progress, Unsized
    <3>2. QED
      BY <2>1, <3>1, Md5Written DEF Checked
  <2>2. CASE WorkerStarts \/ (\E t \in Tasks, o \in Outcomes : Compress(t, o)) \/ UNCHANGED vars
    BY <2>2 DEF WorkerStarts, Compress, vars, createVars, Checked
  <2>3. CASE (\E v \in Versions : CreateSga(v)) \/ (Creator /\ ~WriteMd5)
    <3>1. pc' # "size"
      BY <2>3 DEF CreateSga, Creator, Scan, ScanFails, OpenOutput, LayOutDirectory, LayOutFileNames, FlushHeader,
         SubmitCompression, Collect, CollectFails, Collected, WriteSize, WriteHeader, WriteDataMd5, ReadFails,
         Finalise, OpenFails, WriteFails
    <3>2. QED
      BY <3>1 DEF Checked
  <2>4. QED
    BY <2>1, <2>2, <2>3 DEF Next
<1>3. QED
  BY <1>1, <1>2, ProgressInvariant, PTL DEF Spec

\* A step that writes the file and leaves it acceptable is the last write of the header.
LEMMA EarlierWritesAreRefused ==
  ASSUME TypeOK, Progress, Checked, [Next]_vars, fOut' # fOut, Loads(fOut)'
  PROVE  pc = "header" \/ vFilesList = <<>>
<1>1. CASE OpenOutput
  BY <1>1 DEF OpenOutput, Loads
<1>2. CASE FlushHeader
  BY <1>2 DEF FlushHeader, Loads, Progress, Unsized, FileFields
<1>3. CASE Collect
  BY <1>3 DEF Collect, Loads, Progress, Unsized, FileFields
<1>4. CASE WriteMd5
  <2>1. DOMAIN fOut = FileFields /\ fOut.sized = FALSE
    BY <1>4 DEF WriteMd5, Finalise, Progress, Unsized
  <2>2. QED
    BY <1>4, <2>1, Md5Written DEF Loads
<1>5. CASE WriteSize
  <2>0. pc = "size" /\ DOMAIN fOut = FileFields /\ fOut.sized = FALSE /\ fOut.md5 = Md5(dataHeader)
    BY <1>5 DEF WriteSize, Finalise, Checked, Progress, Unsized
  <2>1. /\ dataHeader' = dataHeader
        /\ fOut'.md5 = Md5(dataHeader) /\ fOut'.header = fOut.header
    BY <1>5, <2>0, SizeWritten DEF Loads
  <2>2. fOut.header = dataHeader
    BY <2>1 DEF Loads, Md5
  <2>3. QED
    BY <2>0, <2>1, <2>2 DEF Progress, Outdated
<1>6. CASE OpenFails
  BY <1>6 DEF OpenFails, NoFile, Loads
<1>7. CASE WriteHeader
  BY <1>7 DEF WriteHeader, Finalise
<1>8. CASE UNCHANGED fOut
  BY <1>8
<1>9. QED
  <2>1. \/ OpenOutput \/ FlushHeader \/ Collect \/ WriteMd5 \/ WriteSize \/ WriteHeader \/ OpenFails
        \/ UNCHANGED fOut
    BY DataMd5Written DEF Next, Creator, CreateSga, Scan, ScanFails, LayOutDirectory, LayOutFileNames,
       SubmitCompression, CollectFails, Collected, WriteFails, WorkerStarts, Compress, vars, createVars
  <2>2. QED
    BY <2>1, <1>1, <1>2, <1>3, <1>4, <1>5, <1>6, <1>7, <1>8

\* Whatever is packed, and wherever the making of an archive fails, its file becomes one
\* that CSgaFile::Load accepts by the last write of the header and not before.
THEOREM RefusedUntilTheEnd == Spec => AcceptedAtTheEnd
<1>1. TypeOK /\ Progress /\ Checked /\ [Next]_vars
      => [fOut' # fOut /\ Loads(fOut') => pc = "header" \/ vFilesList = <<>>]_vars
  BY EarlierWritesAreRefused
<1>2. QED
  BY <1>1, ProgressInvariant, CheckedInvariant, PTL DEF Spec, AcceptedAtTheEnd

-----------------------------------------------------------------------------
\* Which compressions of this attempt may still be pending, at every stage.
Mine(i) == future[<< attempt, i >>]

Outstanding ==
  /\ \A t \in Tasks : t[1] > attempt => future[t] = "none"
  /\ pc \in {"scan", "head", "dirs", "names", "flush"} => \A i \in 1 .. MaxFiles : Mine(i) = "none"
  /\ pc \in {"head", "dirs", "names", "flush"} => iFileIdx = 1
  /\ pc = "submit" => iFileIdx <= Len(vFilesList) + 1
  /\ pc = "submit" => \A i \in 1 .. MaxFiles : i >= iFileIdx => Mine(i) = "none"
  /\ pc = "collect" => \A i \in 1 .. MaxFiles :
       /\ i > Len(vFilesList) => Mine(i) = "none"
       /\ i < iFileIdx => Mine(i) # "pending"
  /\ pc \in {"md5", "size", "header", "datamd5", "done"} => \A i \in 1 .. MaxFiles : Mine(i) # "pending"

Begun == pc # "idle" => attempt \in 1 .. MaxAttempts

\* A compression that ends was pending, and is so no more.
LEMMA CompressKeepsOutstanding ==
  ASSUME TypeOK, PoolCustody, Begun, Outstanding, NEW t \in Tasks, NEW o \in Outcomes, Compress(t, o)
  PROVE  Outstanding'
<1>1. future \in [Tasks -> {"none", "pending"} \cup Outcomes] /\ attempt \in Nat /\ iFileIdx \in Nat
  BY DEF TypeOK, PoolTypeOK
<1>2. future[t] = "pending" /\ future' = [future EXCEPT ![t] = o] /\ o # "pending" /\ UNCHANGED createVars
  BY PoolAssumption DEF Compress, Finish, PoolCustody
<1>3. \A s \in Tasks : future[s] = "none" => future'[s] = "none"
  BY <1>1, <1>2
<1>4. \A s \in Tasks : future[s] # "pending" => future'[s] # "pending"
  BY <1>1, <1>2
<1>5. pc # "idle" => \A i \in 1 .. MaxFiles : << attempt, i >> \in Tasks
  BY CreateAssumption DEF Begun
<1>6. QED
  BY <1>2, <1>3, <1>4, <1>5 DEF Outstanding, Mine, createVars

LEMMA OutstandingInvariant == Spec => [](PoolCustody /\ Begun /\ Outstanding)
<1>1. Init => PoolCustody /\ Begun /\ Outstanding
  BY PoolInitCustody DEF Init, Begun, Outstanding, PoolInit
<1>2. TypeOK /\ PoolCustody /\ Begun /\ Outstanding /\ [Next]_vars => PoolCustody' /\ Begun' /\ Outstanding'
  <2> SUFFICES ASSUME TypeOK, PoolCustody, Begun, Outstanding, [Next]_vars
               PROVE  PoolCustody' /\ Begun' /\ Outstanding'
    OBVIOUS
  <2>0. attempt \in Nat /\ MaxAttempts \in Nat /\ MaxFiles \in Nat /\ iFileIdx \in Nat \ {0} /\ Len(vFilesList) \in Nat
        /\ Tasks = (1 .. MaxAttempts) \X (1 .. MaxFiles)
        /\ future \in [Tasks -> {"none", "pending"} \cup Outcomes]
    BY CreateAssumption DEF TypeOK, PoolTypeOK
  <2> USE DEF Begun, Outstanding, Mine
  <2>1. ASSUME NEW v \in Versions, CreateSga(v) PROVE PoolCustody' /\ Begun' /\ Outstanding'
    <3>1. attempt' = attempt + 1 /\ attempt' \in 1 .. MaxAttempts /\ pc' \in {"scan", "failed"} /\ UNCHANGED poolVars
      BY <2>0, <2>1 DEF CreateSga
    <3>2. \A i \in 1 .. MaxFiles : << attempt + 1, i >> \in Tasks /\ << attempt + 1, i >>[1] > attempt
      BY <2>0, <3>1
    <3>3. QED
      BY <2>0, <3>1, <3>2, IdleCustody DEF poolVars
  <2>2. CASE SubmitCompression
    <3>1. CASE iFileIdx <= Len(vFilesList)
      <4> DEFINE t == << attempt, iFileIdx >>
      <4>1. t \in Tasks /\ Submit(t) /\ iFileIdx' = iFileIdx + 1 /\ pc' = pc /\ pc = "submit" /\ attempt' = attempt
            /\ vFilesList' = vFilesList /\ attempt \in 1 .. MaxAttempts
        BY <2>2, <3>1 DEF SubmitCompression
      <4>2. future' = [future EXCEPT ![t] = "pending"]
        BY <4>1 DEF Submit
      <4>3. \A s \in Tasks : s # t => future'[s] = future[s]
        BY <4>2, <2>0
      <4>4. \A s \in Tasks : s[1] > attempt => s # t
        BY <2>0
      <4>5. \A i \in 1 .. MaxFiles : i >= iFileIdx + 1 => << attempt, i >> # t /\ << attempt, i >> \in Tasks
        BY <2>0, <4>1
      <4>6. PoolCustody'
        BY <4>1, SubmitCustody DEF TypeOK
      <4> HIDE DEF t
      <4>7. Outstanding'
        BY <2>0, <3>1, <4>1, <4>3, <4>4, <4>5
      <4>8. QED
        BY <4>1, <4>6, <4>7
    <3>2. CASE ~(iFileIdx <= Len(vFilesList))
      <4>1. UNCHANGED <<poolVars, attempt, vFilesList>> /\ iFileIdx' = 1 /\ pc' = "collect" /\ pc = "submit"
        BY <2>2, <3>2 DEF SubmitCompression
      <4>2. \A i \in 1 .. MaxFiles : i > Len(vFilesList) => i >= iFileIdx
        BY <2>0, <4>1
      <4>3. QED
        BY <2>0, <3>2, <4>1, <4>2, IdleCustody DEF poolVars
    <3>3. QED
      BY <3>1, <3>2
  <2>3. CASE Collect
    <3>1. Mine(iFileIdx) # "pending" /\ iFileIdx' = iFileIdx + 1
          /\ UNCHANGED <<poolVars, pc, attempt, vFilesList>> /\ pc = "collect"
      BY <2>3, PoolAssumption DEF Collect, Ready
    <3>2. QED
      BY <2>0, <3>1, IdleCustody DEF poolVars
  <2>4. CASE Collected
    <3>1. iFileIdx > Len(vFilesList) /\ pc = "collect" /\ pc' = "md5" /\ UNCHANGED <<poolVars, attempt>>
      BY <2>4 DEF Collected
    <3>2. \A i \in 1 .. MaxFiles : i < iFileIdx \/ i > Len(vFilesList)
      BY <2>0, <3>1
    <3>3. QED
      BY <2>0, <3>1, <3>2, IdleCustody DEF poolVars
  <2>5. CASE ScanFails \/ CollectFails \/ OpenFails \/ WriteFails
    BY <2>5, IdleCustody DEF ScanFails, CollectFails, OpenFails, WriteFails, poolVars
  <2>6. CASE OpenOutput \/ LayOutDirectory \/ LayOutFileNames
    BY <2>6, IdleCustody DEF OpenOutput, LayOutDirectory, LayOutFileNames, poolVars
  <2>7. ASSUME NEW t \in Trees, NEW toc \in ToCs, Scan(t, toc) PROVE PoolCustody' /\ Begun' /\ Outstanding'
    BY <2>7, IdleCustody DEF Scan, poolVars
  <2>8. CASE FlushHeader
    <3>1. pc = "flush" /\ pc' = "submit" /\ UNCHANGED <<poolVars, attempt, iFileIdx, vFilesList>>
      BY <2>8 DEF FlushHeader
    <3>2. QED
      BY <2>0, <3>1, IdleCustody DEF poolVars
  <2>9. CASE WriteMd5 \/ WriteSize \/ WriteHeader \/ WriteDataMd5 \/ ReadFails
    BY <2>9, IdleCustody DEF WriteMd5, WriteSize, WriteHeader, WriteDataMd5, ReadFails, Finalise, poolVars
  <2>10. CASE WorkerStarts
    BY <2>10, StartCustody DEF WorkerStarts, Start, createVars, TypeOK
  <2>11. ASSUME NEW t \in Tasks, NEW o \in Outcomes, Compress(t, o) PROVE PoolCustody' /\ Begun' /\ Outstanding'
    <3>1. PoolCustody'
      BY <2>11, FinishCustody DEF Compress, TypeOK
    <3>2. Outstanding'
      BY <2>11, CompressKeepsOutstanding
    <3>3. Begun'
      BY <2>11 DEF Compress, createVars
    <3>4. QED
      BY <3>1, <3>2, <3>3
  <2>12. CASE UNCHANGED vars
    BY <2>12, IdleCustody DEF vars, createVars, poolVars
  <2>13. QED
    BY <2>1, <2>2, <2>3, <2>4, <2>5, <2>6, <2>7, <2>8, <2>9, <2>10, <2>11, <2>12 DEF Next, Creator
<1>3. QED
  BY <1>1, <1>2, TypeInvariant, PTL DEF Spec

\* An archive that reports success has collected every compression it submitted: no task of
\* the pool reads the names and the store that go away with CreateSga.  (One that failed may
\* have left some.)
THEOREM SuccessLeavesNoTask == Spec => []DoneLeavesNoTask
<1>1. Outstanding => DoneLeavesNoTask
  BY DEF Outstanding, Mine, DoneLeavesNoTask
<1>2. QED
  BY <1>1, OutstandingInvariant, PTL
-----------------------------------------------------------------------------
\* The binary searches of CSgaFile::VOpenStream: for any rising keys they find what is there.

\* A set of numbers that is not empty has a least one.
LEMMA LeastNumber ==
  ASSUME NEW T \in SUBSET Nat, T # {}
  PROVE  \E n \in T : \A m \in T : n <= m
<1> DEFINE R == OpToRel(<, Nat)
<1>1. \A x, y \in Nat : <<x, y>> \in R <=> x < y
  BY DEF OpToRel
<1>2. IsWellFoundedOn(R, Nat)
  BY NatLessThanWellFounded
<1> HIDE DEF R
<1>3. PICK n \in T : \A m \in T : ~(<<m, n>> \in R)
  BY <1>2, WFMin
<1>4. ASSUME NEW m \in T PROVE n <= m
  <2>1. m \in Nat /\ n \in Nat /\ ~(m < n)
    BY <1>1, <1>3
  <2>2. QED
    BY <2>1
<1>5. QED
  BY <1>4

\* Induction, over a set in place of a predicate.
LEMMA SetInduction ==
  ASSUME NEW T, 0 \in T, \A n \in Nat : n \in T => n + 1 \in T
  PROVE  Nat \subseteq T
<1>1. SUFFICES ASSUME Nat \ T # {} PROVE FALSE
  OBVIOUS
<1>2. PICK n \in Nat \ T : \A m \in Nat \ T : n <= m
  BY <1>1, LeastNumber
<1>3. n # 0 /\ n - 1 \in Nat
  BY <1>2
<1>4. n - 1 \in T
  BY <1>2, <1>3
<1>5. QED
  BY <1>2, <1>3, <1>4

\* The ranges that the binary searches halve, and where.
Ranges == (0 .. Base) \X (0 .. Base)

Half(range) == (range[1] + range[2]) \div 2

\* One step of Bisect, and its search on some of the ranges.
Probe(key, at, f, range) ==
  IF range[2] <= range[1] THEN NotFound
  ELSE IF key < at[Half(range)] THEN f[<< range[1], Half(range) >>]
  ELSE IF key > at[Half(range)] THEN f[<< Half(range) + 1, range[2] >>]
  ELSE Half(range)

\* f answers for every range.
Searches(f, key, at) == f = [range \in Ranges |-> Probe(key, at, f, range)]

\* Bisect is such an f, if there is one.
LEMMA BisectIsSearch ==
  ASSUME NEW key, NEW at, NEW first \in 0 .. Base, NEW last \in 0 .. Base, NEW g, Searches(g, key, at)
  PROVE  \E f : Searches(f, key, at) /\ Bisect(key, at, first, last) = f[<< first, last >>]
<1> DEFINE f == CHOOSE f : Searches(f, key, at)
<1>1. Searches(f, key, at)
  OBVIOUS
<1>2. Bisect(key, at, first, last) = f[<< first, last >>]
  BY Zenon DEF Bisect, Searches, Probe, Half, Ranges
<1>3. QED
  BY <1>1, <1>2

\* The middle of a range is in it.
LEMMA HalfBetween ==
  ASSUME NEW range \in Ranges, range[1] < range[2]
  PROVE  /\ Half(range) \in Nat /\ range[1] <= Half(range) /\ Half(range) < range[2]
         /\ << range[1], Half(range) >> \in Ranges
         /\ << Half(range) + 1, range[2] >> \in Ranges
BY SgaAssumption DEF Ranges, Half

\* There is a search: what the larger ranges give follows from what the smaller ones give.
LEMMA SearchExists ==
  ASSUME NEW key, NEW at
  PROVE  \E f : Searches(f, key, at)
<1> DEFINE Upto(f, n) == \A range \in Ranges : range[2] <= range[1] + n => f[range] = Probe(key, at, f, range)
           T == {n \in Nat : \E f : f = [range \in Ranges |-> f[range]] /\ Upto(f, n)}
<1>1. 0 \in T
  <2> DEFINE f == [range \in Ranges |-> NotFound]
  <2>1. Upto(f, 0)
    <3> SUFFICES ASSUME NEW range \in Ranges, range[2] <= range[1] + 0 PROVE f[range] = Probe(key, at, f, range)
      OBVIOUS
    <3>1. range[2] <= range[1]
      BY DEF Ranges
    <3>2. QED
      BY <3>1 DEF Probe
  <2>2. f = [range \in Ranges |-> f[range]]
    OBVIOUS
  <2> HIDE DEF f
  <2>3. QED
    BY <2>1, <2>2
<1>2. ASSUME NEW n \in Nat, n \in T PROVE n + 1 \in T
  <2>1. PICK f : f = [range \in Ranges |-> f[range]] /\ Upto(f, n)
    BY <1>2
  <2> DEFINE g == [range \in Ranges |->
                    IF range[2] <= range[1] + n THEN f[range] ELSE Probe(key, at, f, range)]
  <2>2. ASSUME NEW range \in Ranges, range[2] <= range[1] + (n + 1)
        PROVE  g[range] = Probe(key, at, g, range)
    <3>1. g[range] = Probe(key, at, f, range)
      BY <2>1
    <3>2. CASE range[2] <= range[1]
      BY <3>1, <3>2 DEF Probe
    <3>3. CASE range[1] < range[2]
      <4>1. /\ << range[1], Half(range) >> \in Ranges /\ Half(range) <= range[1] + n
            /\ << Half(range) + 1, range[2] >> \in Ranges /\ range[2] <= (Half(range) + 1) + n
        BY <2>2, <3>3, HalfBetween, SgaAssumption DEF Ranges
      <4>2. /\ g[<< range[1], Half(range) >>] = f[<< range[1], Half(range) >>]
            /\ g[<< Half(range) + 1, range[2] >>] = f[<< Half(range) + 1, range[2] >>]
        BY <4>1
      <4> HIDE DEF g
      <4>3. QED
        BY <3>1, <4>2 DEF Probe
    <3>4. QED
      BY <3>2, <3>3, SgaAssumption DEF Ranges
  <2>3. g = [range \in Ranges |-> g[range]]
    OBVIOUS
  <2> HIDE DEF g
  <2>4. Upto(g, n + 1)
    BY <2>2
  <2>5. QED
    BY <2>3, <2>4
<1>3. Nat \subseteq T
  <2> HIDE DEF T
  <2>1. QED
    BY <1>1, <1>2, SetInduction
<1>4. Base \in T
  BY <1>3, SgaAssumption
<1>5. PICK f : f = [range \in Ranges |-> f[range]] /\ Upto(f, Base)
  BY <1>4
<1>6. \A range \in Ranges : f[range] = Probe(key, at, f, range)
  <2> SUFFICES ASSUME NEW range \in Ranges PROVE f[range] = Probe(key, at, f, range)
    OBVIOUS
  <2>1. range[2] <= range[1] + Base
    BY SgaAssumption DEF Ranges
  <2>2. QED
    BY <1>5, <2>1
<1>7. f = [range \in Ranges |-> Probe(key, at, f, range)]
  BY <1>5, <1>6
<1>8. QED
  BY <1>7 DEF Searches

\* Both binary searches of VOpenStream: among values that never fall, in any range of indices
\* of 16 bits, the search ends at an index that has the key, and reports that there is none
\* only when there is none.
THEOREM BisectFinds ==
  ASSUME NEW first \in 0 .. Base, NEW last \in 0 .. Base, NEW key \in Nat, NEW at,
         \A i \in first .. last - 1 : at[i] \in Nat,
         \A i, j \in first .. last - 1 : i < j => at[i] <= at[j]
  PROVE  LET found == Bisect(key, at, first, last)
         IN  \/ found \in first .. last - 1 /\ at[found] = key
             \/ found = NotFound /\ \A i \in first .. last - 1 : at[i] # key
<1>1. PICK f : Searches(f, key, at) /\ Bisect(key, at, first, last) = f[<< first, last >>]
  BY SearchExists, BisectIsSearch
<1> DEFINE Finds(lo, hi) ==
             \/ f[<< lo, hi >>] \in lo .. hi - 1 /\ at[f[<< lo, hi >>]] = key
             \/ f[<< lo, hi >>] = NotFound /\ \A i \in lo .. hi - 1 : at[i] # key
           T == {n \in Nat : \A lo, hi \in first .. last : hi <= lo + n => Finds(lo, hi)}
<1>2. ASSUME NEW lo \in first .. last, NEW hi \in first .. last
      PROVE  << lo, hi >> \in Ranges /\ f[<< lo, hi >>] = Probe(key, at, f, << lo, hi >>)
  <2>1. << lo, hi >> \in Ranges
    BY SgaAssumption DEF Ranges
  <2>2. QED
    BY <1>1, <2>1 DEF Searches
<1>3. ASSUME NEW lo \in first .. last, NEW hi \in first .. last, hi <= lo
      PROVE  Finds(lo, hi)
  <2>1. f[<< lo, hi >>] = NotFound
    BY <1>2, <1>3 DEF Probe
  <2>2. QED
    BY <1>3, <2>1
<1>4. 0 \in T
  BY <1>3
<1>5. ASSUME NEW n \in Nat, n \in T PROVE n + 1 \in T
  <2> SUFFICES ASSUME NEW lo \in first .. last, NEW hi \in first .. last, hi <= lo + (n + 1)
               PROVE  Finds(lo, hi)
    OBVIOUS
  <2>1. CASE hi <= lo
    BY <2>1, <1>3
  <2>2. CASE lo < hi
    <3> DEFINE mid == Half(<< lo, hi >>)
    <3>1. mid \in Nat /\ lo <= mid /\ mid < hi
      BY <1>2, <2>2, HalfBetween
    <3>2. f[<< lo, hi >>] = IF key < at[mid] THEN f[<< lo, mid >>]
                            ELSE IF key > at[mid] THEN f[<< mid + 1, hi >>] ELSE mid
      BY <1>2, <2>2 DEF Probe
    <3> HIDE DEF mid
    <3>3. mid \in first .. last - 1 /\ mid \in first .. last /\ mid + 1 \in first .. last /\ at[mid] \in Nat
      BY <3>1
    <3>4. CASE key < at[mid]
      <4>1. Finds(lo, mid)
        BY <1>5, <3>1, <3>3
      <4>2. \A i \in lo .. hi - 1 : i >= mid => at[i] # key
        <5> SUFFICES ASSUME NEW i \in lo .. hi - 1, i >= mid PROVE at[i] # key
          OBVIOUS
        <5>1. i \in first .. last - 1 /\ (i = mid \/ mid < i)
          BY <3>1
        <5>2. at[i] \in Nat /\ at[mid] <= at[i]
          BY <3>3, <5>1
        <5>3. QED
          BY <3>3, <3>4, <5>2
      <4>3. f[<< lo, hi >>] = f[<< lo, mid >>]
        BY <3>2, <3>4
      <4>4. QED
        BY <3>1, <4>1, <4>2, <4>3
    <3>5. CASE key > at[mid]
      <4>1. Finds(mid + 1, hi)
        BY <1>5, <3>1, <3>3
      <4>2. \A i \in lo .. hi - 1 : i <= mid => at[i] # key
        <5> SUFFICES ASSUME NEW i \in lo .. hi - 1, i <= mid PROVE at[i] # key
          OBVIOUS
        <5>1. i \in first .. last - 1 /\ (i = mid \/ i < mid)
          BY <3>1
        <5>2. at[i] \in Nat /\ at[i] <= at[mid]
          BY <3>3, <5>1
        <5>3. QED
          BY <3>3, <3>5, <5>2
      <4>3. f[<< lo, hi >>] = f[<< mid + 1, hi >>]
        BY <3>2, <3>3, <3>5
      <4>4. QED
        BY <3>1, <4>1, <4>2, <4>3
    <3>6. CASE key = at[mid]
      <4>1. f[<< lo, hi >>] = mid
        BY <3>2, <3>3, <3>6
      <4>2. QED
        BY <3>1, <3>6, <4>1
    <3>7. QED
      BY <3>3, <3>4, <3>5, <3>6
  <2>3. QED
    BY <2>1, <2>2
<1>6. Nat \subseteq T
  <2> HIDE DEF T
  <2>1. QED
    BY <1>4, <1>5, SetInduction
<1>7. CASE first <= last
  <2>1. last <= first + Base /\ first \in first .. last /\ last \in first .. last
    BY <1>7, SgaAssumption
  <2>2. Base \in T
    BY <1>6, SgaAssumption
  <2>3. Finds(first, last)
    BY <2>1, <2>2
  <2>4. QED
    BY <1>1, <2>3
<1>8. CASE last < first
  <2>1. << first, last >> \in Ranges
    BY DEF Ranges
  <2>2. f[<< first, last >>] = NotFound
    BY <1>1, <1>8, <2>1 DEF Searches, Probe
  <2>3. QED
    BY <1>1, <1>8, <2>2
<1>9. QED
  BY <1>7, <1>8

-----------------------------------------------------------------------------
\* The order of the checksums.

\* How many come before it in the order L.
RankIn(L, ids, id) == Cardinality({other \in ids : << other, id >> \in L})

\* In a total order every one has a rank of its own, one after the other.
LEMMA Ranked ==
  ASSUME NEW n \in Nat, NEW L,
         \A a \in 0 .. n - 1 : << a, a >> \notin L,
         \A a, b, c \in 0 .. n - 1 : << a, b >> \in L /\ << b, c >> \in L => << a, c >> \in L,
         \A a, b \in 0 .. n - 1 : a = b \/ << a, b >> \in L \/ << b, a >> \in L
  PROVE  /\ \A a \in 0 .. n - 1 : RankIn(L, 0 .. n - 1, a) \in 0 .. n - 1
         /\ \A a, b \in 0 .. n - 1 : << a, b >> \in L => RankIn(L, 0 .. n - 1, a) < RankIn(L, 0 .. n - 1, b)
         /\ \A i \in 0 .. n - 1 : \E a \in 0 .. n - 1 : RankIn(L, 0 .. n - 1, a) = i
<1> DEFINE ids == 0 .. n - 1
           below(a) == {other \in ids : << other, a >> \in L}
           rank == [a \in ids |-> RankIn(L, ids, a)]
<1>1. IsFiniteSet(ids) /\ Cardinality(ids) = n
  <2>1. 0 \in Int /\ n - 1 \in Int
    OBVIOUS
  <2>2. IsFiniteSet(ids) /\ Cardinality(ids) = IF 0 > n - 1 THEN 0 ELSE (n - 1) - 0 + 1
    BY <2>1, FS_Interval
  <2>3. QED
    BY <2>2
<1>2. ASSUME NEW a \in ids
      PROVE  /\ IsFiniteSet(below(a)) /\ Cardinality(below(a)) \in Nat /\ Cardinality(below(a)) < n
  <2>1. below(a) \in SUBSET ids /\ a \notin below(a)
    OBVIOUS
  <2> HIDE DEF below, ids
  <2>2. IsFiniteSet(below(a)) /\ Cardinality(below(a)) <= n /\ (n = Cardinality(below(a)) => ids = below(a))
    BY <1>1, <2>1, FS_Subset
  <2>3. Cardinality(below(a)) \in Nat
    BY <2>2, FS_CardinalityType
  <2>4. QED
    BY <1>2, <2>1, <2>2, <2>3
<1>3. ASSUME NEW a \in ids, NEW b \in ids, << a, b >> \in L
      PROVE  Cardinality(below(a)) < Cardinality(below(b))
  <2>1. below(a) \in SUBSET below(b)
    BY <1>3
  <2>2. a \in below(b) /\ a \notin below(a)
    BY <1>3
  <2>3. Cardinality(below(a)) <= Cardinality(below(b))
        /\ (Cardinality(below(b)) = Cardinality(below(a)) => below(b) = below(a))
    BY <1>2, <2>1, FS_Subset
  <2>4. Cardinality(below(a)) \in Nat /\ Cardinality(below(b)) \in Nat
    BY <1>2
  <2> HIDE DEF below
  <2>5. QED
    BY <2>2, <2>3, <2>4
<1>0. ASSUME NEW a \in ids PROVE RankIn(L, ids, a) \in ids
  <2>1. RankIn(L, ids, a) = Cardinality(below(a))
    BY DEF RankIn
  <2>2. Cardinality(below(a)) \in Nat /\ Cardinality(below(a)) < n
    BY <1>2
  <2> HIDE DEF below
  <2>3. QED
    BY <2>1, <2>2
<1>4. rank \in [ids -> ids]
  BY <1>0
<1>5. \A a, b \in ids : rank[a] = rank[b] => a = b
  <2> SUFFICES ASSUME NEW a \in ids, NEW b \in ids, a # b PROVE rank[a] # rank[b]
    OBVIOUS
  <2>1. << a, b >> \in L \/ << b, a >> \in L
    OBVIOUS
  <2>2. rank[a] = Cardinality(below(a)) /\ rank[b] = Cardinality(below(b))
    BY DEF RankIn
  <2>3. Cardinality(below(a)) \in Nat /\ Cardinality(below(b)) \in Nat
    BY <1>2
  <2>4. Cardinality(below(a)) < Cardinality(below(b)) \/ Cardinality(below(b)) < Cardinality(below(a))
    BY <1>3, <2>1
  <2> HIDE DEF below, rank
  <2>5. QED
    BY <2>2, <2>3, <2>4
<1>6. rank \in Surjection(ids, ids)
  <2>1. rank \in Injection(ids, ids)
    BY <1>4, <1>5 DEF Injection, IsInjective
  <2>2. QED
    BY <1>1, <2>1, FS_Injection
<1>7. \A i \in ids : \E a \in ids : RankIn(L, ids, a) = i
  <2> HIDE DEF rank
  <2>1. \A i \in ids : \E a \in ids : rank[a] = i
    BY <1>6 DEF Surjection
  <2>2. QED
    BY <2>1 DEF rank
<1>8. \A a, b \in ids : << a, b >> \in L => RankIn(L, ids, a) < RankIn(L, ids, b)
  BY <1>3 DEF RankIn
<1>9. QED
  BY <1>0, <1>7, <1>8

\* The directories of a header have checksums.
Named(h) ==
  /\ h.dirCount \in Nat
  /\ \A id \in 0 .. h.dirCount - 1 : DirName(h, id) \in Paths

\* m_pSgaDirHashMap lists every directory once, in the order of the checksums.
LEMMA DirHashMapSorts ==
  ASSUME NEW h, Named(h)
  PROVE  LET ids == 0 .. h.dirCount - 1
             map == DirHashMap(h)
         IN  /\ map \in [ids -> ids]
             /\ \A i, j \in ids : i < j => Crc[DirName(h, map[i])] <= Crc[DirName(h, map[j])]
             /\ \A id \in ids : \E i \in ids : map[i] = id
<1> DEFINE ids == 0 .. h.dirCount - 1
           c == [id \in ids |-> Crc[DirName(h, id)]]
           map == DirHashMap(h)
           before(a, b) == Crc[DirName(h, a)] < Crc[DirName(h, b)] \/ (Crc[DirName(h, a)] = Crc[DirName(h, b)] /\ a < b)
           L == {p \in ids \X ids : c[p[1]] < c[p[2]] \/ (c[p[1]] = c[p[2]] /\ p[1] < p[2])}
           rank(id) == Cardinality({other \in ids : before(other, id)})
<1>0. h.dirCount \in Nat
  BY DEF Named
<1>1. c \in [ids -> Nat]
  BY SgaAssumption DEF Named
<1>2. ASSUME NEW a \in ids, NEW b \in ids
      PROVE  << a, b >> \in L <=> c[a] < c[b] \/ (c[a] = c[b] /\ a < b)
  OBVIOUS
<1>3. \A a, b \in ids : << a, b >> \in L <=> before(a, b)
  BY <1>2
<1>4. map = [i \in ids |-> CHOOSE id \in ids : rank(id) = i]
  BY Zenon DEF DirHashMap
<1>5. \A id \in ids : RankIn(L, ids, id) = rank(id)
  <2> SUFFICES ASSUME NEW id \in ids
               PROVE  {other \in ids : << other, id >> \in L} = {other \in ids : before(other, id)}
    BY DEF RankIn
  <2> HIDE DEF L, before
  <2>1. QED
    BY <1>3
<1> HIDE DEF c, map, rank, before
<1>6. /\ \A a \in ids : RankIn(L, ids, a) \in ids
      /\ \A a, b \in ids : << a, b >> \in L => RankIn(L, ids, a) < RankIn(L, ids, b)
      /\ \A i \in ids : \E a \in ids : RankIn(L, ids, a) = i
  <2> HIDE DEF L
  <2>1. \A a \in ids : << a, a >> \notin L
    BY <1>0, <1>1, <1>2
  <2>2. ASSUME NEW x \in ids, NEW y \in ids, NEW z \in ids, << x, y >> \in L, << y, z >> \in L
        PROVE  << x, z >> \in L
    <3>1. c[x] \in Nat /\ c[y] \in Nat /\ c[z] \in Nat /\ x \in Nat /\ y \in Nat /\ z \in Nat
      BY <1>0, <1>1
    <3>2. (c[x] < c[y] \/ (c[x] = c[y] /\ x < y)) /\ (c[y] < c[z] \/ (c[y] = c[z] /\ y < z))
      BY <1>2, <2>2
    <3>3. c[x] < c[z] \/ (c[x] = c[z] /\ x < z)
      BY <3>1, <3>2
    <3>4. QED
      BY <1>2, <3>3
  <2>3. ASSUME NEW x \in ids, NEW y \in ids PROVE x = y \/ << x, y >> \in L \/ << y, x >> \in L
    <3>1. c[x] \in Nat /\ c[y] \in Nat /\ x \in Nat /\ y \in Nat
      BY <1>0, <1>1
    <3>2. x = y \/ (c[x] < c[y] \/ (c[x] = c[y] /\ x < y)) \/ (c[y] < c[x] \/ (c[y] = c[x] /\ y < x))
      BY <3>1
    <3>3. QED
      BY <1>2, <3>2
  <2>4. QED
    BY <1>0, <2>1, <2>2, <2>3, Ranked
<1>7. /\ \A a \in ids : rank(a) \in ids
      /\ \A a, b \in ids : << a, b >> \in L => rank(a) < rank(b)
      /\ \A i \in ids : \E a \in ids : rank(a) = i
  <2> HIDE DEF L
  <2>1. QED
    BY <1>5, <1>6
<1>8. \A i \in ids : map[i] \in ids /\ rank(map[i]) = i
  <2> TAKE i \in ids
  <2>1. map[i] = CHOOSE id \in ids : rank(id) = i
    BY <1>4
  <2>2. QED
    BY <1>7, <2>1
<1>9. map \in [ids -> ids]
  BY <1>4, <1>8
<1>10. ASSUME NEW i \in ids, NEW j \in ids, i < j PROVE c[map[i]] <= c[map[j]]
  <2>1. map[i] \in ids /\ map[j] \in ids /\ rank(map[i]) = i /\ rank(map[j]) = j
    BY <1>8
  <2>2. c[map[i]] \in Nat /\ c[map[j]] \in Nat
    BY <1>1, <2>1
  <2>3. c[map[j]] < c[map[i]] => << map[j], map[i] >> \in L
    BY <1>2, <2>1
  <2> HIDE DEF L
  <2>4. c[map[j]] < c[map[i]] => j < i
    BY <1>7, <2>1, <2>3
  <2>5. QED
    BY <1>0, <1>10, <2>2, <2>4
<1>11. ASSUME NEW id \in ids PROVE \E i \in ids : map[i] = id
  <2>1. PICK i \in ids : i = rank(id)
    BY <1>7
  <2>2. map[i] \in ids /\ rank(map[i]) = rank(id) /\ rank(id) \in Nat
    BY <1>0, <1>8, <2>1
  <2>3. << map[i], id >> \notin L /\ << id, map[i] >> \notin L
    BY <1>7, <2>2
  <2>4. c[map[i]] \in Nat /\ c[id] \in Nat /\ map[i] \in Nat /\ id \in Nat
    BY <1>0, <1>1, <2>2
  <2>5. map[i] = id
    BY <1>2, <2>2, <2>3, <2>4
  <2>6. QED
    BY <2>5
<1>12. \A i \in ids : c[map[i]] = Crc[DirName(h, map[i])]
  BY <1>8 DEF c
<1>13. QED
  BY <1>9, <1>10, <1>11, <1>12 DEF map

-----------------------------------------------------------------------------
\* The tree that is packed.

\* What is in lower case stays so.
LEMMA LowerTwice == \A n \in Names : Lower(Lower(n)) = Lower(n)
BY SgaAssumption DEF Lower, Names

LEMMA LowerPathTwice ==
  ASSUME NEW d \in Seq(Names)
  PROVE  LowerPath(LowerPath(d)) = LowerPath(d)
<1>1. \A i \in DOMAIN d : d[i] \in Names
  OBVIOUS
<1>2. LowerPath(d) = [i \in DOMAIN d |-> Lower(d[i])]
  BY DEF LowerPath
<1>3. LowerPath(LowerPath(d)) = [i \in DOMAIN d |-> Lower(Lower(d[i]))]
  BY <1>2 DEF LowerPath
<1>4. QED
  BY <1>1, <1>2, <1>3, LowerTwice

\* The parent of a folded path is the folded parent.
LEMMA LowerPathFront ==
  ASSUME NEW d \in Seq(Names), d # <<>>
  PROVE  Front(LowerPath(d)) = LowerPath(Front(d))
<1> DEFINE n == Len(d) - 1
<1>1. n \in Nat /\ Len(d) = n + 1 /\ \A i \in 1 .. Len(d) : d[i] \in Names /\ Lower(d[i]) \in Names
  BY EmptySeq, LowerIsName
<1>2. /\ LowerPath(d) \in Seq(Names) /\ Len(LowerPath(d)) = n + 1
      /\ \A i \in 1 .. n : LowerPath(d)[i] = Lower(d[i])
  <2>1. LowerPath(d) = [i \in 1 .. Len(d) |-> Lower(d[i])] /\ LowerPath(d) \in Seq(Names)
    BY LowerPathIsPath DEF LowerPath
  <2>2. QED
    BY <1>1, <2>1
<1>3. /\ Front(d) \in Seq(Names) /\ Len(Front(d)) = n
      /\ \A i \in 1 .. n : Front(d)[i] = d[i]
  <2>1. Front(d) = SubSeq(d, 1, n)
    BY DEF Front
  <2> HIDE DEF n
  <2>2. \A i \in 1 .. n : d[i] \in Names
    BY <1>1
  <2>3. /\ SubSeq(d, 1, n) \in Seq(Names) /\ Len(SubSeq(d, 1, n)) = IF 1 <= n THEN n - 1 + 1 ELSE 0
        /\ \A i \in 1 .. n - 1 + 1 : SubSeq(d, 1, n)[i] = d[1 + i - 1]
    BY <1>1, <2>2, SubSeqProperties
  <2>4. QED
    BY <1>1, <2>1, <2>3
<1>4. /\ Front(LowerPath(d)) \in Seq(Names) /\ Len(Front(LowerPath(d))) = n
      /\ \A i \in 1 .. n : Front(LowerPath(d))[i] = LowerPath(d)[i]
  <2> DEFINE p == LowerPath(d)
  <2>1. Front(p) = SubSeq(p, 1, n)
    BY <1>1, <1>2 DEF Front
  <2> HIDE DEF n, p
  <2>2. p \in Seq(Names) /\ Len(p) = n + 1 /\ n \in Nat
    BY <1>1, <1>2 DEF p
  <2>3. \A i \in 1 .. n : p[i] \in Names
    BY <2>2
  <2>4. /\ SubSeq(p, 1, n) \in Seq(Names) /\ Len(SubSeq(p, 1, n)) = IF 1 <= n THEN n - 1 + 1 ELSE 0
        /\ \A i \in 1 .. n - 1 + 1 : SubSeq(p, 1, n)[i] = p[1 + i - 1]
    BY <2>2, <2>3, SubSeqProperties
  <2>5. QED
    BY <2>1, <2>2, <2>4 DEF p
<1>5. /\ LowerPath(Front(d)) \in Seq(Names) /\ Len(LowerPath(Front(d))) = n
      /\ \A i \in 1 .. n : LowerPath(Front(d))[i] = Lower(Front(d)[i])
  <2>1. LowerPath(Front(d)) = [i \in 1 .. n |-> Lower(Front(d)[i])] /\ LowerPath(Front(d)) \in Seq(Names)
    BY <1>3, LowerPathIsPath DEF LowerPath
  <2>2. QED
    BY <1>1, <2>1
<1>6. QED
  <2>1. \A i \in 1 .. n : Front(LowerPath(d))[i] = LowerPath(Front(d))[i]
    BY <1>2, <1>3, <1>4, <1>5
  <2> HIDE DEF n
  <2>2. QED
    BY <1>4, <1>5, <2>1, SeqEqual

\* A tree of directories in lower case, each in its parent.
Tree(input) ==
  /\ IsFiniteSet(DOMAIN input) /\ <<>> \in DOMAIN input
  /\ \A d \in DOMAIN input :
       /\ d \in Seq(Names) /\ d \in Paths /\ LowerPath(d) = d
       /\ d # <<>> => Front(d) \in DOMAIN input
       /\ \A n \in DOMAIN input[d] : n \in Names /\ Lower(n) = n /\ input[d][n] \in Contents

\* _ScanDirectory returns a tree.
LEMMA ScannedTree ==
  ASSUME NEW input \in Scanned
  PROVE  Tree(input)
<1>1. PICK t \in Trees : input = ScanDirectory(t)
  BY DEF Scanned
<1> DEFINE folded(dir) == CHOOSE d \in DOMAIN t : LowerPath(d) = dir
           spelled(names, name) == CHOOSE n \in names : Lower(n) = name
           low(dir) == {Lower(n) : n \in DOMAIN t[folded(dir)]}
           dirs == {LowerPath(d) : d \in DOMAIN t}
<1>2. input = [dir \in dirs |-> [name \in low(dir) |-> t[folded(dir)][spelled(DOMAIN t[folded(dir)], name)]]]
  BY <1>1 DEF ScanDirectory
<1>3. /\ IsFiniteSet(DOMAIN t) /\ <<>> \in DOMAIN t
      /\ \A d \in DOMAIN t :
           /\ d \in Seq(Names) /\ LowerPath(d) \in Paths
           /\ d # <<>> => Front(d) \in DOMAIN t
           /\ DOMAIN t[d] \subseteq Names /\ t[d] \in [DOMAIN t[d] -> Contents]
  BY CreateAssumption
<1>4. DOMAIN input = dirs
  BY <1>2
<1>5. IsFiniteSet(dirs)
  <2> DEFINE f == [d \in DOMAIN t |-> LowerPath(d)]
  <2>1. f \in Surjection(DOMAIN t, dirs)
    BY DEF Surjection
  <2> HIDE DEF f, dirs
  <2>2. QED
    BY <1>3, <2>1, FS_Surjection
<1>6. <<>> \in dirs
  <2>1. LowerPath(<<>>) = <<>>
    BY DEF LowerPath
  <2>2. QED
    BY <1>3, <2>1
<1>7. ASSUME NEW dir \in dirs
      PROVE  /\ dir \in Seq(Names) /\ dir \in Paths /\ LowerPath(dir) = dir
             /\ dir # <<>> => Front(dir) \in dirs
  <2>1. PICK d \in DOMAIN t : dir = LowerPath(d)
    OBVIOUS
  <2>2. d \in Seq(Names)
    BY <1>3
  <2>3. dir # <<>> => d # <<>>
    BY <2>1 DEF LowerPath
  <2>4. dir # <<>> => Front(dir) = LowerPath(Front(d)) /\ Front(d) \in DOMAIN t
    BY <1>3, <2>1, <2>2, <2>3, LowerPathFront
  <2>5. QED
    BY <1>3, <2>1, <2>2, <2>4, LowerPathTwice, LowerPathIsPath
<1>8. ASSUME NEW dir \in dirs, NEW n \in DOMAIN input[dir]
      PROVE  n \in Names /\ Lower(n) = n /\ input[dir][n] \in Contents
  <2>1. folded(dir) \in DOMAIN t
    OBVIOUS
  <2> HIDE DEF folded, spelled
  <2>2. input[dir] = [name \in low(dir) |-> t[folded(dir)][spelled(DOMAIN t[folded(dir)], name)]]
    BY <1>2
  <2>3. n \in low(dir)
    BY <2>2
  <2>4. PICK m \in DOMAIN t[folded(dir)] : n = Lower(m)
    BY <2>3
  <2>5. spelled(DOMAIN t[folded(dir)], n) \in DOMAIN t[folded(dir)]
    BY <2>4 DEF spelled
  <2>6. input[dir][n] = t[folded(dir)][spelled(DOMAIN t[folded(dir)], n)]
    BY <2>2, <2>3
  <2>7. m \in Names /\ t[folded(dir)] \in [DOMAIN t[folded(dir)] -> Contents]
    BY <1>3, <2>1, <2>4
  <2>8. QED
    BY <2>4, <2>5, <2>6, <2>7, LowerTwice, LowerIsName
<1> HIDE DEF dirs
<1>9. QED
  BY <1>4, <1>5, <1>6, <1>7, <1>8 DEF Tree

-----------------------------------------------------------------------------
\* In a complete archive a lookup finds what was packed.

\* The entry of a directory in the header.
DirInfo == [name : Nat, subBegin : Nat, subEnd : Nat, fileBegin : Nat, fileEnd : Nat]

\* The files of directory id: those of the folder, in the order of their names.
HoldsFiles(file, id, folder) ==
  LET info == file.header.dirs[id + 1]
      ids == DirFiles(file.header, id)
  IN  /\ info.fileBegin < Base /\ info.fileEnd < Base
      /\ \A f \in ids : FileName(file, f) \in DOMAIN folder
      /\ \A f, g \in ids : f < g => FileName(file, f) < FileName(file, g)
      /\ \A name \in DOMAIN folder : \E f \in ids : FileName(file, f) = name

\* The directories of a header: those of the input, each in its parent, the root first.
HoldsDirs(h, input) ==
  LET ids == 0 .. h.dirCount - 1
  IN  /\ h.dirCount \in 1 .. Base - 1
      /\ h.dirs \in Seq(DirInfo) /\ Len(h.dirs) = h.dirCount
      /\ h.toc.startDir = 0 /\ h.toc.endDir = h.dirCount
      /\ DirName(h, 0) = <<>>
      /\ \A id \in ids : DirName(h, id) \in DOMAIN input
      /\ \A a, b \in ids : DirName(h, a) = DirName(h, b) => a = b
      /\ \A d \in DOMAIN input : \E id \in ids : DirName(h, id) = d
      /\ \A id \in ids : \A sub \in SubDirs(h, id) : id < sub /\ sub < h.dirCount
      /\ \A id \in ids : id # 0 => \E parent \in ids : parent < id /\ id \in SubDirs(h, parent)

\* A version 4 archive whose header has the directories and files of the input and no others.
Complete(file, input) ==
  /\ file.version = 4
  /\ HoldsDirs(file.header, input)
  /\ \A id \in 0 .. file.header.dirCount - 1 : HoldsFiles(file, id, input[DirName(file.header, id)])

\* And whose files have the contents of the input, as far as a seek can reach them.
Sound(file, input) ==
  \A id \in 0 .. file.header.dirCount - 1 : \A f \in DirFiles(file.header, id) :
    ReadData(file, f) \in Readings(file, input[DirName(file.header, id)][FileName(file, f)])

\* The directory of a path is found by its checksum and no other, if no other has it.
LEMMA FindsDir ==
  ASSUME NEW h, NEW input, Tree(input), HoldsDirs(h, input), NEW id \in 0 .. h.dirCount - 1,
         ToldApart(DirName(h, id), input)
  PROVE  FindDir(h, DirName(h, id)) = {id}
<1> DEFINE n == h.dirCount
           ids == 0 .. n - 1
           path == DirName(h, id)
           map == DirHashMap(h)
           crcs == [i \in DOMAIN map |-> Crc[DirName(h, map[i])]]
           found == Bisect(Crc[LowerPath(path)], crcs, h.toc.startDir, h.toc.endDir)
           same == {a \in DOMAIN map : Crc[DirName(h, a)] = Crc[LowerPath(path)]}
<1>1. /\ n \in 1 .. Base - 1 /\ h.toc.startDir = 0 /\ h.toc.endDir = n /\ DirName(h, 0) = <<>>
      /\ \A a \in ids : DirName(h, a) \in DOMAIN input
      /\ \A a, b \in ids : DirName(h, a) = DirName(h, b) => a = b
  BY DEF HoldsDirs
<1>2. \A a \in ids : DirName(h, a) \in Paths /\ LowerPath(DirName(h, a)) = DirName(h, a)
  BY <1>1 DEF Tree
<1>3. Named(h)
  BY <1>1, <1>2, SgaAssumption DEF Named
<1>4. /\ map \in [ids -> ids]
      /\ \A i, j \in ids : i < j => Crc[DirName(h, map[i])] <= Crc[DirName(h, map[j])]
      /\ \A a \in ids : \E i \in ids : map[i] = a
  BY <1>3, DirHashMapSorts
<1>5. FindDir(h, path) = IF path = <<>> THEN {h.toc.startDir}
                         ELSE IF found = NotFound THEN {Base - 1} ELSE same
  BY Zenon DEF FindDir
<1> HIDE DEF map
<1>6. DOMAIN crcs = ids /\ \A i \in ids : crcs[i] = Crc[DirName(h, map[i])] /\ crcs[i] \in Nat
  BY <1>2, <1>4, SgaAssumption
<1>7. \A i, j \in ids : i < j => crcs[i] <= crcs[j]
  BY <1>4, <1>6
<1>8. LowerPath(path) = path /\ path \in Paths /\ Crc[path] \in Nat
  BY <1>2, SgaAssumption
<1>9. 0 \in 0 .. Base /\ n \in 0 .. Base
  BY <1>1, SgaAssumption
<1>10. \/ found \in ids /\ crcs[found] = Crc[path]
       \/ found = NotFound /\ \A i \in ids : crcs[i] # Crc[path]
  <2> DEFINE key == Crc[path]
  <2>0. /\ key \in Nat
        /\ \A i \in 0 .. n - 1 : crcs[i] \in Nat
        /\ \A i, j \in 0 .. n - 1 : i < j => crcs[i] <= crcs[j]
    BY <1>6, <1>7, <1>8
  <2> HIDE DEF crcs, path, key, n
  <2>1. LET b == Bisect(key, crcs, 0, n)
        IN  \/ b \in 0 .. n - 1 /\ crcs[b] = key
            \/ b = NotFound /\ \A i \in 0 .. n - 1 : crcs[i] # key
    BY <2>0, <1>9, BisectFinds
  <2> USE DEF key
  <2>2. found = Bisect(Crc[path], crcs, 0, n)
    BY <1>1, <1>8
  <2>3. QED
    BY <2>1, <2>2
<1> HIDE DEF found, crcs
<1>11. CASE path = <<>>
  BY <1>1, <1>5, <1>11
<1>12. CASE path # <<>>
  <2>1. PICK i \in ids : map[i] = id
    BY <1>4
  <2>2. crcs[i] = Crc[path]
    BY <1>6, <2>1
  <2>3. found \in ids
    BY <1>10, <2>2
  <2>4. found # NotFound
    BY <1>1, <2>3, SgaAssumption DEF NotFound
  <2>5. \A a \in ids : Crc[DirName(h, a)] = Crc[path] => a = id
    BY <1>1, <1>12 DEF ToldApart
  <2>6. DOMAIN map = ids
    BY <1>4
  <2>7. same = {id}
    BY <1>8, <2>5, <2>6
  <2> HIDE DEF same
  <2>8. QED
    BY <1>5, <1>12, <2>4, <2>7
<1>13. QED
  BY <1>11, <1>12

\* A file is found under its name in any spelling, and no other.
LEMMA FindsFile ==
  ASSUME NEW file, NEW id \in Nat, NEW folder, file.header.dirs[id + 1] \in DirInfo,
         HoldsFiles(file, id, folder),
         \A n \in DOMAIN folder : n \in Names /\ Lower(n) = n,
         NEW name \in Names
  PROVE  LET found == FindFile(file, id, name)
         IN  IF Lower(name) \in DOMAIN folder
               THEN found \in DirFiles(file.header, id) /\ FileName(file, found) = Lower(name)
                    /\ found # NotFound
               ELSE found = NotFound
<1> DEFINE d == file.header.dirs[id + 1]
           ids == d.fileBegin .. d.fileEnd - 1
           names == [f \in ids |-> Lower(FileName(file, f))]
           found == FindFile(file, id, name)
<1>1. /\ DirFiles(file.header, id) = ids
      /\ d.fileBegin \in 0 .. Base /\ d.fileEnd \in 0 .. Base /\ d.fileEnd < Base
      /\ \A f \in ids : FileName(file, f) \in DOMAIN folder
      /\ \A f, g \in ids : f < g => FileName(file, f) < FileName(file, g)
      /\ \A n \in DOMAIN folder : \E f \in ids : FileName(file, f) = n
  <2>1. d.fileBegin \in Nat /\ d.fileEnd \in Nat /\ d.fileBegin < Base /\ d.fileEnd < Base
    BY DEF HoldsFiles, DirInfo
  <2>2. DirFiles(file.header, id) = ids
    BY DEF DirFiles
  <2> HIDE DEF d
  <2>3. d.fileBegin \in 0 .. Base /\ d.fileEnd \in 0 .. Base /\ d.fileEnd < Base
    BY <2>1, SgaAssumption
  <2>4. QED
    BY <2>2, <2>3 DEF HoldsFiles
<1>2. \A f \in ids : names[f] = FileName(file, f) /\ names[f] \in Nat
  BY <1>1 DEF Names
<1>3. \A f, g \in ids : f < g => names[f] < names[g]
  BY <1>1, <1>2
<1>4. Lower(name) \in Nat
  BY LowerIsName DEF Names
<1>5. found = Bisect(Lower(name), names, d.fileBegin, d.fileEnd)
  BY Zenon DEF FindFile
<1> HIDE DEF names, found
<1>6. \/ found \in ids /\ names[found] = Lower(name)
      \/ found = NotFound /\ \A f \in ids : names[f] # Lower(name)
  <2> DEFINE key == Lower(name)
             lo == d.fileBegin
             hi == d.fileEnd
  <2>1. /\ lo \in 0 .. Base /\ hi \in 0 .. Base /\ key \in Nat
        /\ \A f \in lo .. hi - 1 : names[f] \in Nat
        /\ \A f, g \in lo .. hi - 1 : f < g => names[f] <= names[g]
    BY <1>1, <1>2, <1>3, <1>4
  <2>2. found = Bisect(key, names, lo, hi)
    BY <1>5
  <2> HIDE DEF key, lo, hi
  <2>3. \/ found \in lo .. hi - 1 /\ names[found] = key
        \/ found = NotFound /\ \A f \in lo .. hi - 1 : names[f] # key
    BY <2>1, <2>2, BisectFinds
  <2>4. QED
    BY <2>3 DEF key, lo, hi
<1>7. \A f \in ids : f # NotFound
  BY <1>1, SgaAssumption DEF NotFound
<1>8. CASE found \in ids /\ names[found] = Lower(name)
  BY <1>1, <1>2, <1>7, <1>8 DEF found
<1>9. CASE found = NotFound /\ \A f \in ids : names[f] # Lower(name)
  <2>1. Lower(name) \notin DOMAIN folder
    BY <1>1, <1>2, <1>9
  <2>2. QED
    BY <1>9, <2>1 DEF found
<1>10. QED
  BY <1>6, <1>8, <1>9

\* Opening a file of such an archive gives its content, or says that there is none.
LEMMA Opens ==
  ASSUME NEW file, NEW input, Tree(input), Complete(file, input), Sound(file, input),
         NEW toc, FindsToC(file, toc),
         NEW id \in 0 .. file.header.dirCount - 1, ToldApart(DirName(file.header, id), input),
         NEW name \in Names
  PROVE  LET path == DirName(file.header, id)
         IN  VOpenStream(file, toc, path, name) \subseteq
               IF Lower(name) \in DOMAIN input[path] THEN Readings(file, input[path][Lower(name)])
               ELSE {Missing}
<1> DEFINE h == file.header
           path == DirName(h, id)
           folder == input[path]
           found == FindFile(file, id, name)
           open(dir) == IF dir + 1 \notin DOMAIN file.header.dirs THEN Undefined
                        ELSE IF FindFile(file, dir, name) = NotFound THEN Missing
                        ELSE ReadData(file, FindFile(file, dir, name))
<1>1. /\ HoldsDirs(h, input) /\ HoldsFiles(file, id, folder) /\ path \in DOMAIN input
      /\ h.dirCount \in Nat /\ h.dirs \in Seq(DirInfo) /\ Len(h.dirs) = h.dirCount
  BY DEF Complete, HoldsDirs
<1>2. FindDir(h, path) = {id}
  BY <1>1, FindsDir
<1>3. id \in Nat /\ id + 1 \in DOMAIN h.dirs /\ h.dirs[id + 1] \in DirInfo
  BY <1>1
<1>4. \A n \in DOMAIN folder : n \in Names /\ Lower(n) = n
  BY <1>1 DEF Tree
<1>5. IF Lower(name) \in DOMAIN folder
        THEN found \in DirFiles(h, id) /\ FileName(file, found) = Lower(name) /\ found # NotFound
        ELSE found = NotFound
  <2> HIDE DEF folder, found
  <2>1. LET b == FindFile(file, id, name)
        IN  IF Lower(name) \in DOMAIN folder
              THEN b \in DirFiles(file.header, id) /\ FileName(file, b) = Lower(name) /\ b # NotFound
              ELSE b = NotFound
    BY <1>1, <1>3, <1>4, FindsFile
  <2>2. QED
    BY <2>1 DEF found
<1>6. VOpenStream(file, toc, path, name) = {IF found = NotFound THEN Missing ELSE ReadData(file, found)}
  <2> HIDE DEF path
  <2>1. VOpenStream(file, toc, path, name) = {open(dir) : dir \in FindDir(file.header, path)}
    BY DEF VOpenStream
  <2>2. open(id) = IF found = NotFound THEN Missing ELSE ReadData(file, found)
    BY <1>3
  <2> HIDE DEF open, found
  <2>3. QED
    BY <1>2, <2>1, <2>2
<1>7. \A f \in DirFiles(h, id) : ReadData(file, f) \in Readings(file, folder[FileName(file, f)])
  BY DEF Sound
<1> HIDE DEF found
<1>8. CASE Lower(name) \in DOMAIN folder
  BY <1>5, <1>6, <1>7, <1>8
<1>9. CASE Lower(name) \notin DOMAIN folder
  BY <1>5, <1>6, <1>9
<1>10. QED
  BY <1>8, <1>9

-----------------------------------------------------------------------------
\* In a complete archive a walk lists what was packed.

\* What Walk lists of one directory, and what there is to list of it.
Listed(file, dir) == {<< DirName(file.header, dir), FileName(file, f) >> : f \in DirFiles(file.header, dir)}

Packed(input, d) == {<< d, n >> : n \in DOMAIN input[d]}

\* A walk lists a directory as it was packed.
LEMMA ListedIsPacked ==
  ASSUME NEW file, NEW input, Complete(file, input), NEW id \in 0 .. file.header.dirCount - 1
  PROVE  Listed(file, id) = Packed(input, DirName(file.header, id))
<1>1. HoldsFiles(file, id, input[DirName(file.header, id)])
  BY DEF Complete
<1>2. QED
  BY <1>1 DEF HoldsFiles, Listed, Packed

\* The walk from a directory: its files, and the walks from its children.
From(file, w, dir) == Listed(file, dir) \cup UNION {w[sub] : sub \in SubDirs(file.header, dir)}

Walks(w, file) == w = [dir \in 0 .. Len(file.header.dirs) - 1 |-> From(file, w, dir)]

\* Walk is such a w, if there is one.
LEMMA WalkIsWalks ==
  ASSUME NEW file, NEW g, Walks(g, file)
  PROVE  \E w : Walks(w, file) /\ Walk(file) = w[file.header.toc.startDir]
<1> DEFINE w == CHOOSE w : Walks(w, file)
<1>1. Walks(w, file)
  OBVIOUS
<1>2. Walk(file) = w[file.header.toc.startDir]
  BY Zenon DEF Walk, Walks, From, Listed
<1>3. QED
  BY <1>1, <1>2

\* There is a walk, because children come behind their parents.
LEMMA WalkExists ==
  ASSUME NEW file, NEW n \in Nat, Len(file.header.dirs) = n,
         \A id \in 0 .. n - 1 : \A sub \in SubDirs(file.header, id) : sub \in Nat /\ id < sub /\ sub < n
  PROVE  \E w : Walks(w, file)
<1> DEFINE ids == 0 .. n - 1
           Done(w, k) == \A dir \in ids : dir + k >= n => w[dir] = From(file, w, dir)
           T == {k \in Nat : \E w : w = [dir \in ids |-> w[dir]] /\ Done(w, k)}
<1>1. 0 \in T
  <2> DEFINE w == [dir \in ids |-> {}]
  <2>1. w = [dir \in ids |-> w[dir]] /\ Done(w, 0)
    OBVIOUS
  <2> HIDE DEF w
  <2>2. QED
    BY <2>1
<1>2. ASSUME NEW k \in Nat, k \in T PROVE k + 1 \in T
  <2>1. PICK w : w = [dir \in ids |-> w[dir]] /\ Done(w, k)
    BY <1>2
  <2> DEFINE g == [dir \in ids |-> IF dir + k >= n THEN w[dir] ELSE From(file, w, dir)]
  <2>2. ASSUME NEW dir \in ids, dir + (k + 1) >= n PROVE g[dir] = From(file, g, dir)
    <3>1. g[dir] = From(file, w, dir)
      BY <2>1
    <3>2. \A sub \in SubDirs(file.header, dir) : sub \in ids /\ sub + k >= n
      BY <2>2
    <3>3. \A sub \in SubDirs(file.header, dir) : g[sub] = w[sub]
      BY <3>2
    <3> HIDE DEF g
    <3>4. {g[sub] : sub \in SubDirs(file.header, dir)} = {w[sub] : sub \in SubDirs(file.header, dir)}
      BY <3>3
    <3>5. QED
      BY <3>1, <3>4 DEF From
  <2>3. g = [dir \in ids |-> g[dir]]
    OBVIOUS
  <2> HIDE DEF g
  <2>4. Done(g, k + 1)
    BY <2>2
  <2>5. QED
    BY <2>3, <2>4
<1>3. Nat \subseteq T
  <2> HIDE DEF T
  <2>1. QED
    BY <1>1, <1>2, SetInduction
<1>4. PICK w : w = [dir \in ids |-> w[dir]] /\ Done(w, n)
  <2>1. n \in T
    BY <1>3
  <2>2. QED
    BY <2>1
<1>5. \A dir \in ids : w[dir] = From(file, w, dir)
  BY <1>4
<1>6. w = [dir \in ids |-> From(file, w, dir)]
  BY <1>4, <1>5
<1>7. QED
  BY <1>6 DEF Walks

\* The walk of a complete archive lists the files that were packed.
LEMMA WalkLists ==
  ASSUME NEW file, NEW input, Complete(file, input)
  PROVE  Walk(file) = UNION {Packed(input, d) : d \in DOMAIN input}
<1> DEFINE h == file.header
           n == h.dirCount
           ids == 0 .. n - 1
           all == UNION {Packed(input, d) : d \in DOMAIN input}
<1>1. /\ n \in Nat /\ n > 0 /\ Len(h.dirs) = n /\ h.toc.startDir = 0 /\ h.dirs \in Seq(DirInfo)
      /\ \A id \in ids : DirName(h, id) \in DOMAIN input
      /\ \A d \in DOMAIN input : \E id \in ids : DirName(h, id) = d
      /\ \A id \in ids : \A sub \in SubDirs(h, id) : id < sub /\ sub < n
      /\ \A id \in ids : id # 0 => \E parent \in ids : parent < id /\ id \in SubDirs(h, parent)
  BY DEF Complete, HoldsDirs
<1>2. \A id \in ids : Listed(file, id) = Packed(input, DirName(h, id))
  BY ListedIsPacked
<1>3. ASSUME NEW id \in ids, NEW sub \in SubDirs(h, id) PROVE sub \in Nat /\ sub \in ids
  <2>1. h.dirs[id + 1] \in DirInfo
    BY <1>1
  <2>2. sub \in Nat
    BY <2>1 DEF SubDirs, DirInfo
  <2>3. QED
    BY <1>1, <2>2
<1> HIDE DEF h, n
<1>4. PICK w : Walks(w, file) /\ Walk(file) = w[0]
  <2>1. \E w : Walks(w, file)
    BY <1>1, <1>3, WalkExists DEF h
  <2>2. QED
    BY <1>1, <2>1, WalkIsWalks DEF h
<1>5. \A dir \in ids : w[dir] = From(file, w, dir)
  BY <1>1, <1>4 DEF Walks, h
<1> DEFINE Inside == {k \in Nat : \A dir \in ids : dir + k >= n => w[dir] \subseteq all}
<1>6. 0 \in Inside
  BY <1>1
<1>7. ASSUME NEW k \in Nat, k \in Inside PROVE k + 1 \in Inside
  <2> SUFFICES ASSUME NEW dir \in ids, dir + (k + 1) >= n PROVE w[dir] \subseteq all
    OBVIOUS
  <2>1. Listed(file, dir) \subseteq all
    BY <1>1, <1>2
  <2>2. \A sub \in SubDirs(h, dir) : w[sub] \subseteq all
    <3> TAKE sub \in SubDirs(h, dir)
    <3>1. sub \in ids /\ dir < sub
      BY <1>1, <1>3
    <3>2. sub + k >= n
      BY <1>1, <3>1
    <3>3. QED
      BY <1>7, <3>1, <3>2
  <2> HIDE DEF all
  <2>3. QED
    BY <1>5, <2>1, <2>2 DEF From, h
<1>8. w[0] \subseteq all
  <2>1. Nat \subseteq Inside
    <3> HIDE DEF Inside
    <3>1. QED
      BY <1>6, <1>7, SetInduction
  <2>2. n \in Inside
    <3> HIDE DEF Inside
    <3>1. QED
      BY <1>1, <2>1
  <2>3. 0 \in ids /\ 0 + n >= n
    BY <1>1
  <2> HIDE DEF all
  <2>4. QED
    BY <2>2, <2>3
<1>9. \A id \in ids : w[id] \subseteq w[0]
  <2> DEFINE out == {id \in ids : ~(w[id] \subseteq w[0])}
  <2>1. SUFFICES ASSUME out # {} PROVE FALSE
    OBVIOUS
  <2>2. PICK id \in out : \A other \in out : id <= other
    <3>1. out \in SUBSET Nat
      BY <1>1
    <3> HIDE DEF out
    <3>2. QED
      BY <2>1, <3>1, LeastNumber
  <2>3. id # 0
    OBVIOUS
  <2>4. PICK parent \in ids : parent < id /\ id \in SubDirs(h, parent)
    BY <1>1, <2>3
  <2>5. w[parent] \subseteq w[0]
    BY <1>1, <2>2, <2>4
  <2>6. w[id] \subseteq w[parent]
    BY <1>5, <2>4 DEF From, h
  <2>7. QED
    BY <2>5, <2>6
<1>10. all \subseteq w[0]
  <2> SUFFICES ASSUME NEW d \in DOMAIN input PROVE Packed(input, d) \subseteq w[0]
    OBVIOUS
  <2>1. PICK id \in ids : DirName(h, id) = d
    BY <1>1
  <2>2. Packed(input, d) \subseteq w[id]
    BY <1>2, <1>5, <2>1 DEF From, h
  <2>3. QED
    BY <1>9, <2>1, <2>2
<1>11. QED
  BY <1>4, <1>8, <1>10

-----------------------------------------------------------------------------
\* Words, double words, and names in ascending order.

\* Words and double words hold the numbers that fit them.
LEMMA Remainder ==
  ASSUME NEW b \in Nat, NEW n \in Nat, n < b
  PROVE  n % b = n
OBVIOUS

LEMMA WordFits == \A n \in Nat : n < Base => Word(n) = n
BY Remainder, SgaAssumption DEF Word

LEMMA Divided ==
  ASSUME NEW b \in Nat, b > 0, NEW n \in Nat
  PROVE  n \div b \in Nat /\ n % b \in 0 .. b - 1 /\ n = b * (n \div b) + (n % b)
OBVIOUS

LEMMA ProductGrows ==
  ASSUME NEW b \in Nat, NEW q \in Nat, NEW r \in Nat, q >= r
  PROVE  b * q >= b * r
OBVIOUS

LEMMA DwordFits ==
  ASSUME NEW n \in Nat, n < Base * Base
  PROVE  Word(n) \in Nat /\ High(n) \in Nat /\ Word(n) + Base * High(n) = n
<1> DEFINE q == n \div Base
           r == n % Base
<1>1. Base \in Nat /\ Base > 0
  BY SgaAssumption
<1>2. q \in Nat /\ r \in Nat /\ r >= 0 /\ n = Base * q + r
  BY <1>1, Divided
<1> HIDE DEF q, r
<1>3. q < Base
  <2> SUFFICES ASSUME q >= Base PROVE FALSE
    BY <1>1, <1>2
  <2>1. Base * q >= Base * Base
    BY <1>1, <1>2, ProductGrows
  <2>2. Base * q \in Nat /\ Base * Base \in Nat
    BY <1>1, <1>2
  <2>3. QED
    BY <1>2, <2>1, <2>2
<1>4. Word(q) = q
  BY <1>2, <1>3, WordFits
<1>5. Word(n) = r /\ High(n) = q
  BY <1>4 DEF Word, High, q, r
<1>6. QED
  BY <1>1, <1>2, <1>5

LEMMA NamesAreNumbers == Names \subseteq Nat
BY SgaAssumption DEF Names

\* A sequence in ascending order lists its set.
LEMMA AscendingLists ==
  ASSUME NEW names, names \subseteq Names, NEW s \in Ascending(names)
  PROVE  /\ s \in Seq(names) /\ Len(s) = Cardinality(names) /\ DOMAIN s = 1 .. Len(s)
         /\ \A i, j \in DOMAIN s : i < j => s[i] < s[j]
         /\ \A n \in names : \E i \in DOMAIN s : s[i] = n
<1> DEFINE c == Cardinality(names)
<1>1. IsFiniteSet(names) /\ c \in Nat
  BY NamesAreFinite
<1>2. s \in [1 .. c -> names] /\ \A i, j \in DOMAIN s : i < j => s[i] < s[j]
  BY DEF Ascending
<1>3. DOMAIN s = 1 .. c /\ s \in Seq(names) /\ Len(s) = c
  <2> HIDE DEF c
  <2>1. QED
    BY <1>1, <1>2
<1>4. \A i, j \in 1 .. c : s[i] = s[j] => i = j
  <2> TAKE i, j \in 1 .. c
  <2>1. s[i] \in Nat /\ s[j] \in Nat
    <3>1. s[i] \in names /\ s[j] \in names
      BY <1>2
    <3>2. QED
      BY <3>1, NamesAreNumbers
  <2> HIDE DEF c
  <2>2. i < j \/ j < i \/ i = j
    BY <1>1
  <2>3. QED
    BY <1>2, <1>3, <2>1, <2>2
<1>5. IsFiniteSet(1 .. c) /\ Cardinality(1 .. c) = c
  <2> HIDE DEF c
  <2>1. Cardinality(1 .. c) = IF 1 > c THEN 0 ELSE c - 1 + 1
    BY <1>1, FS_Interval
  <2>2. IsFiniteSet(1 .. c)
    BY <1>1, FS_Interval
  <2>3. QED
    BY <1>1, <2>1, <2>2
<1>6. s \in Surjection(1 .. c, names)
  <2>1. s \in Injection(1 .. c, names)
    BY <1>2, <1>4 DEF Injection, IsInjective
  <2> DEFINE S == 1 .. c
  <2>2. Cardinality(S) = Cardinality(names) /\ IsFiniteSet(S)
    BY <1>5
  <2> HIDE DEF S, c
  <2>3. s \in Injection(S, names)
    BY <2>1 DEF S
  <2>4. s \in Surjection(S, names)
    BY <1>1, <2>2, <2>3, FS_Injection
  <2>5. QED
    BY <2>4 DEF S
<1>7. \A n \in names : \E i \in 1 .. c : s[i] = n
  BY <1>6 DEF Surjection
<1> HIDE DEF c
<1>8. QED
  BY <1>2, <1>3, <1>7 DEF c

\* A sequence without repetition is no longer than the set its elements are from.
LEMMA DistinctAreFew ==
  ASSUME NEW S, IsFiniteSet(S), NEW s \in Seq(S), \A i, j \in 1 .. Len(s) : s[i] = s[j] => i = j
  PROVE  Len(s) <= Cardinality(S)
<1> DEFINE I == 1 .. Len(s)
<1>1. Len(s) \in Nat /\ s \in [I -> S]
  OBVIOUS
<1>2. IsFiniteSet(I) /\ Cardinality(I) = Len(s)
  <2>1. Cardinality(1 .. Len(s)) = IF 1 > Len(s) THEN 0 ELSE Len(s) - 1 + 1
    BY <1>1, FS_Interval
  <2>2. IsFiniteSet(1 .. Len(s))
    BY <1>1, FS_Interval
  <2>3. QED
    BY <1>1, <2>1, <2>2
<1>3. s \in Injection(I, S)
  BY <1>1 DEF Injection, IsInjective
<1> HIDE DEF I
<1>4. QED
  BY <1>2, <1>3, FS_Injection

-----------------------------------------------------------------------------
\* The data of the files.

\* What a version 4 archive is made of: bytes, and what stands for the name and the checksum.
Blob == Octets \cup {"name", "crc"}

\* A record that leads to the content of its file.
Stored(r, data, c) ==
  LET info == FileInfo4(r)
      kept == Compressed(c).data
  IN  /\ info.offset \in Nat /\ info.compressed = Len(kept) /\ info.length = Len(Bytes[c])
      /\ info.offset + info.compressed <= Len(data)
      /\ SubSeq(data, info.offset + 1, info.offset + info.compressed) = kept

\* Whichever form CompressOneFile keeps is a sequence of bytes.
LEMMA CompressedType ==
  ASSUME NEW c \in Contents
  PROVE  /\ Compressed(c).data \in Seq(Octets) /\ Len(Compressed(c).data) \in Nat
         /\ Compressed(c).size = Len(Bytes[c]) /\ Len(Bytes[c]) \in Nat
         /\ Bytes[c] \in Seq(Octets) /\ Deflated[c] \in Seq(Octets) /\ Len(Deflated[c]) \in Nat
<1>1. Bytes[c] \in Seq(Octets) /\ Deflated[c] \in Seq(Octets)
  BY SgaAssumption
<1>2. QED
  BY <1>1 DEF Compressed

LEMMA BlobHolds == Seq(Octets) \subseteq Seq(Blob)
BY SeqMonotonic DEF Blob

\* What is stored stays where it is when more is appended.
LEMMA StoredStays ==
  ASSUME NEW r, NEW data \in Seq(Blob), NEW more \in Seq(Blob), NEW c \in Contents, Stored(r, data, c)
  PROVE  Stored(r, data \o more, c)
<1> DEFINE from == FileInfo4(r).offset
           n == FileInfo4(r).compressed
           whole == data \o more
<1>1. /\ from \in Nat /\ n \in Nat /\ from + n <= Len(data)
      /\ SubSeq(data, from + 1, from + n) = Compressed(c).data
      /\ FileInfo4(r).length = Len(Bytes[c]) /\ n = Len(Compressed(c).data)
  BY CompressedType DEF Stored
<1>2. whole \in Seq(Blob) /\ Len(whole) = Len(data) + Len(more) /\ Len(data) \in Nat /\ Len(more) \in Nat
      /\ \A i \in 1 .. Len(data) : whole[i] = data[i]
  BY ConcatProperties
<1> HIDE DEF from, n, whole
<1>3. SubSeq(whole, from + 1, from + n) = SubSeq(data, from + 1, from + n)
  <2>1. \A i \in from + 1 .. from + n : whole[i] = data[i]
    BY <1>1, <1>2, SMTT(30)
  <2>2. /\ SubSeq(data, from + 1, from + n) = [i \in 1 .. (from + n) - (from + 1) + 1 |-> data[i + (from + 1) - 1]]
        /\ SubSeq(whole, from + 1, from + n) = [i \in 1 .. (from + n) - (from + 1) + 1 |-> whole[i + (from + 1) - 1]]
    BY <1>1, <1>2, SMTT(30)
  <2>3. \A i \in 1 .. (from + n) - (from + 1) + 1 : i + (from + 1) - 1 \in from + 1 .. from + n
    BY <1>1
  <2>4. QED
    BY <2>1, <2>2, <2>3
<1>4. from + n <= Len(whole)
  BY <1>1, <1>2
<1>5. QED
  BY <1>1, <1>3, <1>4 DEF Stored, from, n, whole

\* What was appended is at the end.
LEMMA AppendedPart ==
  ASSUME NEW S, NEW a \in Seq(S), NEW b \in Seq(S)
  PROVE  /\ a \o b \in Seq(S) /\ Len(a \o b) = Len(a) + Len(b)
         /\ SubSeq(a \o b, Len(a) + 1, Len(a) + Len(b)) = b
<1> DEFINE whole == a \o b
           m == Len(a)
           n == Len(b)
<1>1. /\ whole \in Seq(S) /\ Len(whole) = m + n /\ m \in Nat /\ n \in Nat
      /\ \A i \in 1 .. n : whole[m + i] = b[i]
  BY ConcatProperties
<1> HIDE DEF whole, m, n
<1>2. SubSeq(whole, m + 1, m + n) = [i \in 1 .. (m + n) - (m + 1) + 1 |-> whole[i + (m + 1) - 1]]
  BY <1>1
<1>3. (m + n) - (m + 1) + 1 = n /\ \A i \in 1 .. n : i + (m + 1) - 1 = m + i
  BY <1>1
<1>4. b = [i \in 1 .. n |-> b[i]]
  BY DEF n
<1>5. SubSeq(whole, m + 1, m + n) = b
  BY <1>1, <1>2, <1>3, <1>4
<1>6. QED
  BY <1>1, <1>5 DEF whole, m, n

\* Filling a record in for what is appended makes it lead there.
LEMMA FilledIsStored ==
  ASSUME NEW r, NEW data \in Seq(Blob), NEW c \in Contents,
         Len(data \o PreData(4) \o Compressed(c).data) < Base * Base, Len(Bytes[c]) < Base * Base
  PROVE  /\ data \o PreData(4) \o Compressed(c).data \in Seq(Blob)
         /\ Stored(FillRecord(r, 4, Len(data) + Len(PreData(4)), Compressed(c)),
                   data \o PreData(4) \o Compressed(c).data, c)
<1> DEFINE kept == Compressed(c).data
           n == Len(kept)
           front == data \o PreData(4)
           from == Len(data) + Len(PreData(4))
           whole == front \o kept
           w == FillRecord(r, 4, from, Compressed(c))
<1>1. PreData(4) \in Seq(Blob) /\ Len(PreData(4)) = 2
  BY DEF PreData, Blob
<1>2. front \in Seq(Blob) /\ Len(front) = from /\ from \in Nat
  BY <1>1, ConcatProperties
<1>3. kept \in Seq(Blob) /\ n \in Nat /\ Compressed(c).size = Len(Bytes[c]) /\ Len(Bytes[c]) \in Nat
  BY CompressedType, BlobHolds
<1>4. /\ w[3] = Word(from) /\ w[4] = High(from) /\ w[5] = Word(n) /\ w[6] = High(n)
      /\ w[7] = Word(Len(Bytes[c])) /\ w[8] = High(Len(Bytes[c]))
  BY <1>3 DEF FillRecord
<1>5. /\ FileInfo4(w).offset = w[3] + Base * w[4]
      /\ FileInfo4(w).compressed = w[5] + Base * w[6]
      /\ FileInfo4(w).length = w[7] + Base * w[8]
  BY DEF FileInfo4, DwordAt
<1>6. Len(whole) < Base * Base
  OBVIOUS
<1> HIDE DEF kept, n, front, from, whole, w
<1>7. whole \in Seq(Blob) /\ Len(whole) = from + n /\ SubSeq(whole, from + 1, from + n) = kept
  <2>1. front \in Seq(Blob) /\ kept \in Seq(Blob)
    BY <1>2, <1>3
  <2>2. /\ front \o kept \in Seq(Blob) /\ Len(front \o kept) = Len(front) + Len(kept)
        /\ SubSeq(front \o kept, Len(front) + 1, Len(front) + Len(kept)) = kept
    BY <2>1, AppendedPart
  <2>3. QED
    BY <1>2, <2>2 DEF whole, n
<1>8. Base * Base \in Nat
  BY SgaAssumption
<1>9. n < Base * Base /\ from < Base * Base
  BY <1>2, <1>3, <1>6, <1>7, <1>8
<1>10. FileInfo4(w).offset = from /\ FileInfo4(w).compressed = n /\ FileInfo4(w).length = Len(Bytes[c])
  BY <1>2, <1>3, <1>4, <1>5, <1>9, DwordFits
<1>11. from + n <= Len(whole)
  BY <1>2, <1>3, <1>7
<1>12. Stored(w, whole, c)
  BY <1>2, <1>7, <1>10, <1>11 DEF Stored, n, kept
<1>13. QED
  BY <1>7, <1>12 DEF w, whole, from, front, kept

\* A file whose record leads to its content is read as what was packed, as far as a seek reaches.
LEMMA StoredIsRead ==
  ASSUME NEW file, NEW id, NEW c \in Contents, file.version = 4, file.data \in Seq(Blob),
         Stored(file.header.files[id + 1], file.data, c),
         DataOffset(file.header) \in Nat, DataOffset(file.header) > 2, Addressable(file)
  PROVE  ReadData(file, id) \in Readings(file, c)
<1> DEFINE info == FileInfo4(file.header.files[id + 1])
           kept == Compressed(c).data
           start == DataOffset(file.header)
           at == (start + info.offset - 2) % (Base * Base)
           first == at + 2 - start
           raw == SubSeq(file.data, first + 1, first + info.compressed)
           room == Len(file.data)
           whole == {d \in Contents : Deflated[d] = raw /\ Len(Bytes[d]) <= info.length}
<1>1. /\ info.compressed = Len(kept) /\ info.length = Len(Bytes[c])
      /\ SubSeq(file.data, info.offset + 1, info.offset + info.compressed) = kept
      /\ info.offset + info.compressed <= room /\ info.offset \in Nat
  BY DEF Stored
<1>2. ReadData(file, id) =
        IF at >= LongEnd \/ at + 2 + info.compressed > start + room THEN Unreadable
        ELSE IF at + 2 < start THEN Foreign
        ELSE IF info.compressed # info.length THEN Inflate(raw, info.length)
        ELSE raw
  <2>1. FileInfo(file, id) = info /\ PreDataSize(file.version) = 2
    BY DEF FileInfo, PreDataSize
  <2> HIDE DEF info
  <2>2. QED
    BY <2>1 DEF ReadData
<1>3. Inflate(raw, info.length) = IF whole = {} THEN Unreadable ELSE Bytes[CHOOSE d \in whole : TRUE]
  BY DEF Inflate
<1>4. room \in Nat /\ Len(kept) \in Nat /\ Len(Bytes[c]) \in Nat /\ Len(Deflated[c]) \in Nat
  BY CompressedType
<1>5. kept = IF Len(Deflated[c]) < Len(Bytes[c]) THEN Deflated[c] ELSE Bytes[c]
  BY DEF Compressed
<1>6. start \in Nat /\ start > 2 /\ start + room < Base * Base /\ Base * Base \in Nat
  BY SgaAssumption DEF Addressable
<1>7. Readings(file, c) = IF start + room <= LongEnd THEN {Bytes[c]} ELSE {Bytes[c], Unreadable}
  BY DEF Readings
<1>8. LongEnd \in Nat
  BY <1>6 DEF LongEnd
<1> DEFINE square == Base * Base
           offset == info.offset
           size == info.compressed
<1>9. offset \in Nat /\ size \in Nat /\ offset + size <= room
  BY <1>1, <1>4
<1> HIDE DEF room, kept, start, info
<1>10. at = start + offset - 2
  <2> DEFINE n == start + offset - 2
  <2>1. square \in Nat /\ start \in Nat /\ start > 2 /\ start + room < square /\ room \in Nat
    BY <1>4, <1>6
  <2> HIDE DEF square, offset, size
  <2>2. n \in Nat /\ n < square
    BY <1>9, <2>1
  <2> HIDE DEF n
  <2>3. n % square = n
    BY <2>1, <2>2, Remainder
  <2>4. QED
    BY <2>3 DEF n, square, offset
<1> HIDE DEF at, offset, size
<1>11. first = info.offset
  BY <1>6, <1>9, <1>10 DEF offset
<1>12. raw = kept
  BY <1>1, <1>11
<1> HIDE DEF raw, first
<1>0. ~(at + 2 + info.compressed > start + room) /\ ~(at + 2 < start)
      /\ (start + room <= LongEnd => ~(at >= LongEnd))
  <2>1. ~(at + 2 + size > start + room) /\ ~(at + 2 < start)
        /\ (start + room <= LongEnd => ~(at >= LongEnd))
    <3>1. start \in Nat /\ start > 2 /\ room \in Nat
      BY <1>4, <1>6
    <3>2. QED
      BY <1>8, <1>9, <1>10, <3>1
  <2>2. QED
    BY <2>1 DEF size
<1>13. CASE at >= LongEnd
  BY <1>2, <1>7, <1>0, <1>13
<1>14. CASE ~(at >= LongEnd)
  <2>1. ReadData(file, id) = IF info.compressed # info.length THEN Inflate(raw, info.length) ELSE raw
    BY <1>2, <1>0, <1>14
  <2>2. CASE Len(Deflated[c]) < Len(Bytes[c])
    <3>1. kept = Deflated[c] /\ info.compressed # info.length
      BY <1>1, <1>4, <1>5, <2>2
    <3>2. c \in whole
      BY <1>1, <1>4, <1>12, <3>1
    <3>3. (CHOOSE d \in whole : TRUE) \in whole
      BY <3>2
    <3>4. Bytes[CHOOSE d \in whole : TRUE] = Bytes[c]
      BY <1>12, <3>1, <3>3, SgaAssumption
    <3> HIDE DEF whole
    <3>5. ReadData(file, id) = Bytes[c]
      BY <1>3, <2>1, <3>1, <3>2, <3>4
    <3>6. QED
      BY <1>7, <3>5
  <2>3. CASE ~(Len(Deflated[c]) < Len(Bytes[c]))
    <3>1. ReadData(file, id) = Bytes[c]
      BY <1>1, <1>5, <1>12, <2>1, <2>3
    <3>2. QED
      BY <1>7, <3>1
  <2>4. QED
    BY <2>2, <2>3
<1>15. QED
  BY <1>13, <1>14

-----------------------------------------------------------------------------
\* Laying out the directories.

\* The files of a tree, as the file list names them.
FilesOf(input) == UNION {{<< d, n >> : n \in DOMAIN input[d]} : d \in DOMAIN input}

LEMMA FilesAreFinite ==
  ASSUME NEW input, Tree(input)
  PROVE  IsFiniteSet(FilesOf(input)) /\ Cardinality(FilesOf(input)) \in Nat /\ Cardinality(DOMAIN input) \in Nat
<1> DEFINE of(d) == {<< d, n >> : n \in DOMAIN input[d]}
           sets == {of(d) : d \in DOMAIN input}
<1>1. ASSUME NEW d \in DOMAIN input PROVE IsFiniteSet(of(d))
  <2>1. IsFiniteSet(DOMAIN input[d])
    <3>1. DOMAIN input[d] \subseteq Names
      BY DEF Tree
    <3>2. QED
      BY <3>1, NamesAreFinite
  <2> DEFINE f == [n \in DOMAIN input[d] |-> << d, n >>]
             T == of(d)
             S == DOMAIN input[d]
  <2>2. f \in Surjection(S, T)
    BY DEF Surjection
  <2> HIDE DEF f, T, S
  <2>3. IsFiniteSet(T)
    BY <2>1, <2>2, FS_Surjection DEF S
  <2>4. QED
    BY <2>3 DEF T
<1>2. IsFiniteSet(sets)
  <2>1. IsFiniteSet(DOMAIN input)
    BY DEF Tree
  <2> DEFINE f == [d \in DOMAIN input |-> of(d)]
             S == DOMAIN input
  <2>2. f \in Surjection(S, sets)
    BY DEF Surjection
  <2> HIDE DEF f, S, sets
  <2>3. QED
    BY <2>1, <2>2, FS_Surjection DEF S
<1>3. \A T \in sets : IsFiniteSet(T)
  BY <1>1
<1>4. FilesOf(input) = UNION sets
  BY DEF FilesOf
<1> HIDE DEF sets
<1>5. IsFiniteSet(UNION sets)
  BY <1>2, <1>3, FS_UNION
<1>6. QED
  BY <1>4, <1>5, FS_CardinalityType DEF Tree

LEMMA FrontOfAppend ==
  ASSUME NEW S, NEW s \in Seq(S), NEW x \in S
  PROVE  Front(Append(s, x)) = s /\ Append(s, x) # <<>> /\ Last(Append(s, x)) = x
<1>1. /\ Append(s, x) \in Seq(S) /\ Len(Append(s, x)) = Len(s) + 1 /\ Len(s) \in Nat
      /\ \A i \in 1 .. Len(s) : Append(s, x)[i] = s[i]
      /\ Append(s, x)[Len(s) + 1] = x
  OBVIOUS
<1> DEFINE t == Append(s, x)
           n == Len(s)
<1>2. Front(t) = SubSeq(t, 1, n)
  BY <1>1 DEF Front
<1> HIDE DEF t, n
<1>3. SubSeq(t, 1, n) = [i \in 1 .. n - 1 + 1 |-> t[i + 1 - 1]]
  BY <1>1 DEF t, n
<1>4. n - 1 + 1 = n /\ \A i \in 1 .. n : i + 1 - 1 = i
  BY <1>1 DEF n
<1>5. s = [i \in 1 .. n |-> s[i]]
  BY DEF n
<1>6. SubSeq(t, 1, n) = s
  BY <1>1, <1>3, <1>4, <1>5 DEF t, n
<1>7. Last(t) = x
  BY <1>1 DEF Last, t, n
<1>8. t # <<>>
  BY <1>1 DEF t
<1>9. QED
  BY <1>2, <1>6, <1>7, <1>8 DEF t

\* The directories met so far, the root first and each once.
Listing(input, all) ==
  /\ all \in Seq(DOMAIN input) /\ all # <<>> /\ all[1] = <<>>
  /\ \A i, j \in 1 .. Len(all) : all[i] = all[j] => i = j

\* The entry of the p-th of them: its children come behind it, its files are all there.
Entry(input, all, files, p, d) ==
  LET ids == d.fileBegin + 1 .. d.fileEnd
  IN  /\ d.name = p - 1
      /\ p <= d.subBegin /\ d.subEnd <= Len(all)
      /\ d.fileBegin <= d.fileEnd /\ d.fileEnd <= Len(files)
      /\ \A f \in ids : files[f][1] = all[p]
      /\ \A f, g \in ids : f < g => files[f][2] < files[g][2]
      /\ \A n \in DOMAIN input[all[p]] : \E f \in ids : files[f] = << all[p], n >>

\* The j-th of them is among the children of its parent.
Under(all, dirs, j) ==
  /\ all[j] # <<>>
  /\ \E p \in 1 .. Len(dirs) : all[p] = Front(all[j]) /\ j - 1 \in dirs[p].subBegin .. dirs[p].subEnd - 1

\* The children of the p-th of them are there.
Over(input, all, p) ==
  \A n \in SubNames(input, all[p]) : \E j \in 1 .. Len(all) : all[j] = Append(all[p], n)

\* What LayOutDirectory has done when it has met the directories all and laid out dirs and files.
Spread(input, all, dirs, files) ==
  /\ Listing(input, all)
  /\ files \in Seq(FilesOf(input)) /\ \A i, j \in 1 .. Len(files) : files[i] = files[j] => i = j
  /\ dirs \in Seq(DirInfo) /\ Len(dirs) <= Len(all)
  /\ \A p \in 1 .. Len(dirs) : Entry(input, all, files, p, dirs[p])
  /\ \A j \in 2 .. Len(all) : Under(all, dirs, j)
  /\ \A p \in 1 .. Len(dirs) : Over(input, all, p)
  /\ \A i \in 1 .. Len(files) : \E p \in 1 .. Len(dirs) : files[i][1] = all[p]

\* One sequence behind another, element by element.
LEMMA Concatenated ==
  ASSUME NEW S, NEW s \in Seq(S), NEW t \in Seq(S)
  PROVE  /\ s \o t \in Seq(S) /\ Len(s \o t) = Len(s) + Len(t)
         /\ Len(s) \in Nat /\ Len(t) \in Nat
         /\ \A i \in 1 .. Len(s) : (s \o t)[i] = s[i]
         /\ \A i \in 1 .. Len(t) : (s \o t)[Len(s) + i] = t[i]
         /\ \A i \in 1 .. Len(s \o t) : i \in 1 .. Len(s) \/ \E k \in 1 .. Len(t) : i = Len(s) + k
<1>1. /\ s \o t \in Seq(S) /\ Len(s \o t) = Len(s) + Len(t)
      /\ \A i \in 1 .. Len(s) + Len(t) : (s \o t)[i] = IF i <= Len(s) THEN s[i] ELSE t[i - Len(s)]
  BY ConcatProperties
<1>2. Len(s) \in Nat /\ Len(t) \in Nat
  OBVIOUS
<1>3. \A i \in 1 .. Len(t) : Len(s) + i \in 1 .. Len(s) + Len(t) /\ ~(Len(s) + i <= Len(s)) /\ (Len(s) + i) - Len(s) = i
  BY <1>2
<1>4. ASSUME NEW i \in 1 .. Len(s \o t), i \notin 1 .. Len(s)
      PROVE  \E k \in 1 .. Len(t) : i = Len(s) + k
  <2>1. i - Len(s) \in 1 .. Len(t) /\ i = Len(s) + (i - Len(s))
    BY <1>1, <1>2, <1>4
  <2>2. QED
    BY <2>1
<1>5. QED
  BY <1>1, <1>2, <1>3, <1>4

\* Two sequences without repetition and with nothing in common, one behind the other.
LEMMA DistinctJoined ==
  ASSUME NEW S, NEW s \in Seq(S), NEW t \in Seq(S),
         \A i, j \in 1 .. Len(s) : s[i] = s[j] => i = j,
         \A i, j \in 1 .. Len(t) : t[i] = t[j] => i = j,
         \A i \in 1 .. Len(t) : \A j \in 1 .. Len(s) : t[i] # s[j]
  PROVE  \A i, j \in 1 .. Len(s \o t) : (s \o t)[i] = (s \o t)[j] => i = j
<1> DEFINE whole == s \o t
           a == Len(s)
<1>1. /\ \A i \in 1 .. a : whole[i] = s[i]
      /\ \A i \in 1 .. Len(t) : whole[a + i] = t[i]
      /\ \A i \in 1 .. Len(whole) : i \in 1 .. a \/ \E k \in 1 .. Len(t) : i = a + k
  BY Concatenated
<1> HIDE DEF whole, a
<1>2. SUFFICES ASSUME NEW i \in 1 .. Len(whole), NEW j \in 1 .. Len(whole), whole[i] = whole[j] PROVE i = j
  BY DEF whole
<1>3. CASE i \in 1 .. a /\ j \in 1 .. a
  BY <1>1, <1>2, <1>3 DEF a
<1>4. ASSUME i \in 1 .. a, NEW k \in 1 .. Len(t), j = a + k PROVE i = j
  BY <1>1, <1>2, <1>4 DEF a
<1>5. ASSUME j \in 1 .. a, NEW k \in 1 .. Len(t), i = a + k PROVE i = j
  BY <1>1, <1>2, <1>5 DEF a
<1>6. ASSUME NEW k \in 1 .. Len(t), NEW l \in 1 .. Len(t), i = a + k, j = a + l PROVE i = j
  BY <1>1, <1>2, <1>6
<1>7. QED
  BY <1>1, <1>3, <1>4, <1>5, <1>6

\* The children that a directory adds, with their paths, and its files.
Kids(dir, subs) == [i \in DOMAIN subs |-> Append(dir, subs[i])]
Added(dir, names) == [i \in DOMAIN names |-> << dir, names[i] >>]

\* The directory to lay out next.
ToDo(all, dirs) == all[Len(dirs) + 1]

\* The children that a directory adds have not been met before.
LEMMA KidsAreNew ==
  ASSUME NEW input \in Scanned, NEW all, NEW dirs, NEW files, Spread(input, all, dirs, files),
         Len(dirs) < Len(all), NEW subs \in Ascending(SubNames(input, ToDo(all, dirs)))
  PROVE  LET dir == ToDo(all, dirs)
             kids == Kids(dir, subs)
         IN  /\ kids \in Seq(DOMAIN input) /\ Len(kids) = Len(subs) /\ Len(subs) \in Nat
             /\ Listing(input, all \o kids)
             /\ \A i \in 1 .. Len(kids) : Front(kids[i]) = dir /\ kids[i] # <<>>
             /\ \A n \in SubNames(input, dir) : \E i \in 1 .. Len(kids) : kids[i] = Append(dir, n)
<1> DEFINE m == Len(dirs)
           dir == ToDo(all, dirs)
           names == SubNames(input, dir)
           kids == Kids(dir, subs)
<1>0. dir = all[m + 1]
  BY DEF ToDo
<1> HIDE DEF dir
<1>1. /\ Listing(input, all) /\ m \in Nat /\ Len(all) \in Nat /\ m < Len(all)
      /\ \A j \in 2 .. Len(all) : Under(all, dirs, j)
  BY DEF Spread, Listing
<1>2. dir \in DOMAIN input /\ dir \in Seq(Names) /\ all \in Seq(DOMAIN input)
  <2>1. m + 1 \in 1 .. Len(all)
    BY <1>1
  <2>2. all \in Seq(DOMAIN input)
    BY <1>1 DEF Listing
  <2>3. all[m + 1] \in DOMAIN input
    <3> HIDE DEF m
    <3>1. QED
      BY <2>1, <2>2
  <2>4. QED
    BY <1>0, <2>2, <2>3, ScannedType
<1>3. names \subseteq Names
  BY <1>2, SubNamesType
<1>4. /\ subs \in Seq(names) /\ DOMAIN subs = 1 .. Len(subs) /\ Len(subs) \in Nat
      /\ \A i, j \in DOMAIN subs : i < j => subs[i] < subs[j]
      /\ \A n \in names : \E i \in DOMAIN subs : subs[i] = n
  <2>1. subs \in Ascending(names)
    BY DEF dir
  <2> HIDE DEF names
  <2>2. QED
    BY <1>3, <2>1, AscendingLists
<1>5. \A i \in 1 .. Len(subs) : subs[i] \in names /\ subs[i] \in Names /\ subs[i] \in Nat
  <2> HIDE DEF names
  <2>1. \A i \in 1 .. Len(subs) : subs[i] \in names
    BY <1>4
  <2>2. QED
    BY <1>3, <2>1, NamesAreNumbers
<1> HIDE DEF m, kids
<1>6. \A i \in 1 .. Len(subs) : Append(dir, subs[i]) \in DOMAIN input
  BY <1>2, <1>5, ChildPath
<1>7. /\ kids \in Seq(DOMAIN input) /\ Len(kids) = Len(subs)
      /\ \A i \in 1 .. Len(kids) : kids[i] = Append(dir, subs[i])
  <2>1. kids = [i \in 1 .. Len(subs) |-> Append(dir, subs[i])]
    BY <1>4 DEF Kids, kids
  <2>2. QED
    BY <1>4, <1>6, <2>1
<1> HIDE DEF names
<1>8. \A i \in 1 .. Len(kids) : Front(kids[i]) = dir /\ kids[i] # <<>> /\ Last(kids[i]) = subs[i]
  <2> TAKE i \in 1 .. Len(kids)
  <2>1. kids[i] = Append(dir, subs[i]) /\ subs[i] \in Names
    BY <1>5, <1>7
  <2>2. QED
    BY <1>2, <2>1, FrontOfAppend
<1>9. \A n \in names : \E i \in 1 .. Len(kids) : kids[i] = Append(dir, n)
  BY <1>4, <1>7
<1>10. \A i, j \in 1 .. Len(kids) : kids[i] = kids[j] => i = j
  <2> TAKE i, j \in 1 .. Len(kids)
  <2>1. kids[i] = kids[j] => subs[i] = subs[j]
    BY <1>8
  <2>2. subs[i] \in Nat /\ subs[j] \in Nat /\ (i < j => subs[i] < subs[j]) /\ (j < i => subs[j] < subs[i])
    BY <1>4, <1>5, <1>7
  <2>3. i < j \/ j < i \/ i = j
    BY <1>4, <1>7
  <2>4. QED
    BY <2>1, <2>2, <2>3
<1>11. ASSUME NEW i \in 1 .. Len(kids), NEW j \in 1 .. Len(all) PROVE kids[i] # all[j]
  <2>1. CASE j = 1
    BY <1>1, <1>8, <2>1 DEF Listing
  <2>2. CASE j # 1
    <3>1. j \in 2 .. Len(all)
      BY <1>1, <2>2
    <3>2. PICK p \in 1 .. m : all[p] = Front(all[j])
      BY <1>1, <3>1 DEF Under, m
    <3>3. all[p] # dir
      <4>1. p \in 1 .. Len(all) /\ m + 1 \in 1 .. Len(all) /\ p # m + 1
        BY <1>1
      <4>2. QED
        BY <1>0, <1>1, <4>1 DEF Listing
    <3>4. QED
      BY <1>8, <3>2, <3>3
  <2>3. QED
    BY <2>1, <2>2
<1>12. Listing(input, all \o kids)
  <2> DEFINE S == DOMAIN input
  <2>1. /\ all \in Seq(S) /\ kids \in Seq(S) /\ all # <<>> /\ all[1] = <<>>
        /\ \A i, j \in 1 .. Len(all) : all[i] = all[j] => i = j
    BY <1>1, <1>7 DEF Listing
  <2> HIDE DEF S
  <2>2. \A i, j \in 1 .. Len(all \o kids) : (all \o kids)[i] = (all \o kids)[j] => i = j
    BY <1>10, <1>11, <2>1, DistinctJoined
  <2>3. all \o kids \in Seq(S) /\ Len(all \o kids) = Len(all) + Len(kids) /\ (all \o kids)[1] = <<>>
    <3>1. 1 \in 1 .. Len(all)
      BY <2>1
    <3>2. QED
      BY <2>1, <3>1, Concatenated
  <2>4. all \o kids # <<>>
    BY <1>1, <1>4, <1>7, <2>3
  <2>5. QED
    BY <2>2, <2>3, <2>4 DEF Listing, S
<1>13. QED
  BY <1>4, <1>7, <1>8, <1>9, <1>12 DEF names, kids, dir

\* Each file of a directory is added.
LEMMA AddedLists ==
  ASSUME NEW dir, NEW folder, folder \subseteq Names, NEW names \in Ascending(folder), NEW n \in folder
  PROVE  \E i \in 1 .. Len(Added(dir, names)) : Added(dir, names)[i] = << dir, n >>
<1>1. /\ DOMAIN names = 1 .. Len(names) /\ Len(names) \in Nat
      /\ \E i \in DOMAIN names : names[i] = n
  BY AscendingLists
<1>2. Added(dir, names) = [i \in 1 .. Len(names) |-> << dir, names[i] >>]
  BY <1>1 DEF Added
<1>3. Len(Added(dir, names)) = Len(names)
  BY <1>1, <1>2
<1>4. QED
  BY <1>1, <1>2, <1>3

\* The files that the next directory adds.
LEMMA FilesAreNew ==
  ASSUME NEW input \in Scanned, NEW all, NEW dirs, NEW files, Spread(input, all, dirs, files),
         Len(dirs) < Len(all), NEW names \in Ascending(DOMAIN input[ToDo(all, dirs)])
  PROVE  LET dir == ToDo(all, dirs)
             more == Added(dir, names)
             whole == files \o more
         IN  /\ more \in Seq(FilesOf(input)) /\ Len(more) = Len(names) /\ Len(names) \in Nat
             /\ whole \in Seq(FilesOf(input)) /\ \A i, j \in 1 .. Len(whole) : whole[i] = whole[j] => i = j
             /\ \A i \in 1 .. Len(more) : more[i][1] = dir
             /\ \A i, j \in 1 .. Len(more) : i < j => more[i][2] < more[j][2]
             /\ \A n \in DOMAIN input[dir] : \E i \in 1 .. Len(more) : more[i] = << dir, n >>
<1> DEFINE m == Len(dirs)
           dir == ToDo(all, dirs)
           folder == DOMAIN input[dir]
           more == Added(dir, names)
           whole == files \o more
           S == FilesOf(input)
<1>0. dir = all[m + 1] /\ names \in Ascending(folder)
  BY DEF ToDo
<1> HIDE DEF dir
<1>1. /\ Listing(input, all) /\ m \in Nat /\ Len(all) \in Nat /\ m < Len(all)
      /\ files \in Seq(S) /\ \A i, j \in 1 .. Len(files) : files[i] = files[j] => i = j
      /\ \A i \in 1 .. Len(files) : \E p \in 1 .. m : files[i][1] = all[p]
  BY SMTT(30) DEF Spread, Listing
<1>2. dir \in DOMAIN input
  <2>1. m + 1 \in 1 .. Len(all)
    BY <1>1
  <2>2. all \in Seq(DOMAIN input)
    BY <1>1 DEF Listing
  <2>3. all[m + 1] \in DOMAIN input
    <3> HIDE DEF m
    <3>1. QED
      BY <2>1, <2>2
  <2>4. QED
    BY <1>0, <2>3
<1>3. folder \subseteq Names
  BY <1>2, ScannedType
<1>4. /\ names \in Seq(folder) /\ DOMAIN names = 1 .. Len(names) /\ Len(names) \in Nat
      /\ \A i, j \in DOMAIN names : i < j => names[i] < names[j]
      /\ \A n \in folder : \E i \in DOMAIN names : names[i] = n
  <2> HIDE DEF folder
  <2>1. QED
    BY <1>0, <1>3, AscendingLists
<1>5. \A i \in 1 .. Len(names) : names[i] \in folder /\ names[i] \in Nat
  <2> HIDE DEF folder
  <2>1. \A i \in 1 .. Len(names) : names[i] \in folder
    BY <1>4
  <2>2. QED
    BY <1>3, <2>1, NamesAreNumbers
<1>6. \A i \in 1 .. Len(names) : << dir, names[i] >> \in S
  BY <1>2, <1>5 DEF FilesOf
<1> HIDE DEF m, folder, S, more, whole
<1>7. /\ more \in Seq(S) /\ Len(more) = Len(names)
      /\ \A i \in 1 .. Len(more) : more[i] = << dir, names[i] >>
  <2>1. more = [i \in 1 .. Len(names) |-> << dir, names[i] >>]
    BY <1>4 DEF Added, more
  <2>2. QED
    BY <1>4, <1>6, <2>1
<1>8. \A i, j \in 1 .. Len(more) : i < j => more[i][2] < more[j][2]
  <2> TAKE i, j \in 1 .. Len(more)
  <2>1. more[i] = << dir, names[i] >> /\ more[j] = << dir, names[j] >> /\ (i < j => names[i] < names[j])
    BY <1>4, <1>7
  <2>2. QED
    BY <2>1
<1>9. \A n \in folder : \E i \in 1 .. Len(more) : more[i] = << dir, n >>
  BY <1>4, <1>7
<1>10. \A i, j \in 1 .. Len(more) : more[i] = more[j] => i = j
  <2> TAKE i, j \in 1 .. Len(more)
  <2>1. more[i][2] \in Nat /\ more[j][2] \in Nat
    BY <1>5, <1>7
  <2>2. i < j \/ j < i \/ i = j
    BY <1>4, <1>7
  <2>3. QED
    BY <1>8, <2>1, <2>2
<1>11. \A i \in 1 .. Len(more) : \A j \in 1 .. Len(files) : more[i] # files[j]
  <2> TAKE i \in 1 .. Len(more)
  <2> TAKE j \in 1 .. Len(files)
  <2>1. PICK p \in 1 .. m : files[j][1] = all[p]
    BY <1>1
  <2>2. p \in 1 .. Len(all) /\ m + 1 \in 1 .. Len(all) /\ p # m + 1
    BY <1>1
  <2>3. all[p] # dir
    BY <1>0, <1>1, <2>2 DEF Listing
  <2>4. more[i][1] = dir
    BY <1>7
  <2>5. QED
    BY <2>1, <2>3, <2>4
<1>12. whole \in Seq(S)
  BY <1>1, <1>7, Concatenated DEF whole
<1>13. \A i, j \in 1 .. Len(whole) : whole[i] = whole[j] => i = j
  <2>1. files \in Seq(S) /\ more \in Seq(S)
    BY <1>1, <1>7
  <2>2. QED
    BY <1>1, <1>10, <1>11, <2>1, DistinctJoined DEF whole
<1>14. \A i \in 1 .. Len(more) : more[i][1] = dir
  BY <1>7
<1>15. QED
  BY <1>4, <1>7, <1>8, <1>9, <1>12, <1>13, <1>14 DEF whole, more, dir, folder, S

\* An entry stays right when directories and files are added behind.
LEMMA EntryStays ==
  ASSUME NEW input, NEW all, NEW whole, NEW files, NEW filed, NEW p \in Nat, NEW d \in DirInfo,
         Entry(input, all, files, p, d), whole[p] = all[p],
         Len(all) \in Nat, Len(whole) \in Nat, Len(files) \in Nat, Len(filed) \in Nat,
         Len(all) <= Len(whole), Len(files) <= Len(filed),
         \A i \in 1 .. Len(files) : filed[i] = files[i]
  PROVE  Entry(input, whole, filed, p, d)
<1>1. \A i \in d.fileBegin + 1 .. d.fileEnd : filed[i] = files[i]
  BY SMTT(30) DEF Entry, DirInfo
<1>2. d.subEnd <= Len(whole) /\ d.fileEnd <= Len(filed)
  BY DEF Entry, DirInfo
<1>3. QED
  BY <1>1, <1>2 DEF Entry

\* The entry of the directory that is laid out next.
NewEntry(all, dirs, files, subs, names) ==
  [name |-> Len(dirs), subBegin |-> Word(Len(all)), subEnd |-> Word(Len(all) + Len(subs)),
   fileBegin |-> Word(Len(files)), fileEnd |-> Word(Len(files) + Len(names))]

\* Laying out the next directory goes on with the layout.
LEMMA SpreadStep ==
  ASSUME NEW input \in Scanned, Countable(input), NEW all, NEW dirs, NEW files, Spread(input, all, dirs, files),
         Len(dirs) < Len(all),
         NEW subs \in Ascending(SubNames(input, ToDo(all, dirs))),
         NEW names \in Ascending(DOMAIN input[ToDo(all, dirs)])
  PROVE  LET kids == Kids(ToDo(all, dirs), subs)
             more == Added(ToDo(all, dirs), names)
         IN  /\ Len(kids) = Len(subs)
             /\ Spread(input, all \o kids, Append(dirs, NewEntry(all, dirs, files, subs, names)), files \o more)
<1> DEFINE m == Len(dirs)
           dir == ToDo(all, dirs)
           kids == Kids(dir, subs)
           more == Added(dir, names)
           whole == all \o kids
           filed == files \o more
           entry == NewEntry(all, dirs, files, subs, names)
           laid == Append(dirs, entry)
           a == Len(all)
           b == Len(files)
<1>0. dir = all[m + 1]
  BY DEF ToDo
<1>1. /\ kids \in Seq(DOMAIN input) /\ Len(kids) = Len(subs) /\ Len(subs) \in Nat
      /\ Listing(input, whole)
      /\ \A i \in 1 .. Len(kids) : Front(kids[i]) = dir /\ kids[i] # <<>>
      /\ \A n \in SubNames(input, dir) : \E i \in 1 .. Len(kids) : kids[i] = Append(dir, n)
  BY KidsAreNew
<1>2. /\ more \in Seq(FilesOf(input)) /\ Len(more) = Len(names) /\ Len(names) \in Nat
      /\ filed \in Seq(FilesOf(input)) /\ \A i, j \in 1 .. Len(filed) : filed[i] = filed[j] => i = j
      /\ \A i \in 1 .. Len(more) : more[i][1] = dir
      /\ \A i, j \in 1 .. Len(more) : i < j => more[i][2] < more[j][2]
      /\ \A n \in DOMAIN input[dir] : \E i \in 1 .. Len(more) : more[i] = << dir, n >>
  <2>1. more \in Seq(FilesOf(input)) /\ Len(more) = Len(names) /\ Len(names) \in Nat
    BY FilesAreNew
  <2>2. filed \in Seq(FilesOf(input))
    BY FilesAreNew
  <2>3. \A i, j \in 1 .. Len(filed) : filed[i] = filed[j] => i = j
    BY FilesAreNew
  <2>4. \A i \in 1 .. Len(more) : more[i][1] = dir
    BY FilesAreNew
  <2>5. \A i, j \in 1 .. Len(more) : i < j => more[i][2] < more[j][2]
    BY FilesAreNew
  <2>6. \A n \in DOMAIN input[dir] : \E i \in 1 .. Len(more) : more[i] = << dir, n >>
    <3>1. DOMAIN input[dir] \subseteq Names
      <4>1. Len(dirs) + 1 \in 1 .. Len(all) /\ all \in Seq(DOMAIN input)
        BY DEF Spread, Listing
      <4>2. dir \in DOMAIN input
        BY <1>0, <4>1
      <4>3. QED
        BY <4>2, ScannedType
    <3> DEFINE folder == DOMAIN input[dir]
    <3>2. names \in Ascending(folder)
      OBVIOUS
    <3> HIDE DEF folder, dir
    <3>3. QED
      BY <3>1, <3>2, AddedLists DEF folder
  <2>7. QED
    BY <2>1, <2>2, <2>3, <2>4, <2>5, <2>6
<1>3. Tree(input) /\ Spread(input, all, dirs, files) /\ m \in Nat /\ m < a
  BY ScannedTree DEF Spread
<1> HIDE DEF kids, more, dir, entry
<1>4. /\ all \in Seq(DOMAIN input) /\ files \in Seq(FilesOf(input)) /\ dirs \in Seq(DirInfo)
  BY DEF Spread, Listing
<1>5. /\ Len(whole) = a + Len(subs) /\ a \in Nat
      /\ \A i \in 1 .. a : whole[i] = all[i]
      /\ \A i \in 1 .. Len(subs) : whole[a + i] = kids[i]
      /\ \A i \in 1 .. Len(whole) : i \in 1 .. a \/ \E k \in 1 .. Len(subs) : i = a + k
  <2> DEFINE S == DOMAIN input
  <2>1. all \in Seq(S) /\ kids \in Seq(S)
    BY <1>1, <1>4
  <2> HIDE DEF S
  <2>2. /\ Len(all \o kids) = Len(all) + Len(kids) /\ Len(all) \in Nat
        /\ \A i \in 1 .. Len(all) : (all \o kids)[i] = all[i]
        /\ \A i \in 1 .. Len(kids) : (all \o kids)[Len(all) + i] = kids[i]
        /\ \A i \in 1 .. Len(all \o kids) : i \in 1 .. Len(all) \/ \E k \in 1 .. Len(kids) : i = Len(all) + k
    BY <2>1, Concatenated
  <2>3. QED
    BY <1>1, <2>2
<1>6. /\ Len(filed) = b + Len(names) /\ b \in Nat
      /\ \A i \in 1 .. b : filed[i] = files[i]
      /\ \A i \in 1 .. Len(names) : filed[b + i] = more[i]
      /\ \A i \in 1 .. Len(filed) : i \in 1 .. b \/ \E k \in 1 .. Len(names) : i = b + k
  <2> DEFINE S == FilesOf(input)
  <2>1. files \in Seq(S) /\ more \in Seq(S)
    BY <1>2, <1>4
  <2> HIDE DEF S
  <2>2. /\ Len(files \o more) = Len(files) + Len(more) /\ Len(files) \in Nat /\ files \o more \in Seq(S)
        /\ \A i \in 1 .. Len(files) : (files \o more)[i] = files[i]
        /\ \A i \in 1 .. Len(more) : (files \o more)[Len(files) + i] = more[i]
        /\ \A i \in 1 .. Len(files \o more) : i \in 1 .. Len(files) \/ \E k \in 1 .. Len(more) : i = Len(files) + k
    BY <2>1, Concatenated
  <2>3. QED
    BY <1>2, <2>2
<1>7. Len(whole) < Base /\ Len(filed) < Base
  <2>1. /\ IsFiniteSet(DOMAIN input) /\ IsFiniteSet(FilesOf(input))
        /\ Cardinality(FilesOf(input)) \in Nat /\ Cardinality(DOMAIN input) \in Nat
    BY <1>3, FilesAreFinite DEF Tree
  <2>2. Cardinality(DOMAIN input) < Base /\ Cardinality(FilesOf(input)) < Base
    BY DEF Countable, Count, FilesOf
  <2>3. whole \in Seq(DOMAIN input) /\ \A i, j \in 1 .. Len(whole) : whole[i] = whole[j] => i = j
    BY <1>1 DEF Listing
  <2> DEFINE S == DOMAIN input
  <2> HIDE DEF whole, filed, S
  <2>4. whole \in Seq(S) /\ IsFiniteSet(S)
    BY <2>1, <2>3 DEF S
  <2>5. Len(whole) <= Cardinality(S)
    BY <2>3, <2>4, DistinctAreFew
  <2>6. Len(filed) <= Cardinality(FilesOf(input))
    BY <1>2, <2>1, DistinctAreFew
  <2>7. Len(whole) \in Nat /\ Len(filed) \in Nat
    BY <1>1, <1>2, <1>5, <1>6
  <2>8. QED
    BY <2>1, <2>2, <2>5, <2>6, <2>7, SgaAssumption DEF S
<1>8. entry = [name |-> m, subBegin |-> a, subEnd |-> a + Len(subs), fileBegin |-> b, fileEnd |-> b + Len(names)]
  <2>1. a < Base /\ a + Len(subs) < Base /\ b < Base /\ b + Len(names) < Base
    BY <1>1, <1>2, <1>5, <1>6, <1>7, SgaAssumption
  <2>2. a \in Nat /\ a + Len(subs) \in Nat /\ b \in Nat /\ b + Len(names) \in Nat
    BY <1>1, <1>2, <1>5, <1>6
  <2> HIDE DEF a, b, m
  <2>3. QED
    BY <2>1, <2>2, WordFits DEF a, b, m, entry, NewEntry
<1>9. entry \in DirInfo
  BY <1>1, <1>2, <1>3, <1>5, <1>6, <1>8 DEF DirInfo
<1>10. /\ laid \in Seq(DirInfo) /\ Len(laid) = m + 1 /\ laid[m + 1] = entry
       /\ \A p \in 1 .. m : laid[p] = dirs[p]
  BY <1>4, <1>9, AppendProperties
<1>11. /\ whole[m + 1] = dir /\ \A p \in 1 .. m : whole[p] = all[p]
  BY <1>0, <1>3, <1>5
<1> HIDE DEF whole, filed, laid, a, b, m
<1>12. ASSUME NEW p \in 1 .. m + 1 PROVE Entry(input, whole, filed, p, laid[p])
  <2>1. CASE p \in 1 .. m
    <3>1. Entry(input, all, files, p, dirs[p]) /\ dirs[p] \in DirInfo
      BY <1>4, <2>1 DEF Spread, m
    <3>2. Len(all) <= Len(whole) /\ Len(files) <= Len(filed)
          /\ Len(all) \in Nat /\ Len(whole) \in Nat /\ Len(files) \in Nat /\ Len(filed) \in Nat
      BY <1>1, <1>2, <1>5, <1>6 DEF a, b
    <3>3. whole[p] = all[p] /\ p \in Nat /\ \A i \in 1 .. Len(files) : filed[i] = files[i]
      BY <1>6, <1>11, <2>1 DEF b
    <3>4. Entry(input, whole, filed, p, dirs[p])
      BY <3>1, <3>2, <3>3, EntryStays
    <3>5. QED
      BY <1>10, <2>1, <3>4
  <2>2. CASE p = m + 1
    <3>1. laid[p] = entry /\ whole[p] = dir /\ entry.name = p - 1
      BY <1>3, <1>8, <1>10, <1>11, <2>2
    <3>2. p <= entry.subBegin /\ entry.subEnd <= Len(whole)
      BY <1>1, <1>3, <1>5, <1>8, <2>2
    <3>3. entry.fileBegin <= entry.fileEnd /\ entry.fileEnd <= Len(filed)
      BY <1>2, <1>6, <1>8
    <3>4. \A f \in b + 1 .. b + Len(names) : \E k \in 1 .. Len(names) : f = b + k
      <4> TAKE f \in b + 1 .. b + Len(names)
      <4>1. f - b \in 1 .. Len(names) /\ f = b + (f - b)
        BY <1>2, <1>6
      <4>2. QED
        BY <4>1
    <3>5. \A f \in b + 1 .. b + Len(names) : filed[f][1] = dir
      <4> TAKE f \in b + 1 .. b + Len(names)
      <4>1. PICK k \in 1 .. Len(names) : f = b + k
        BY <3>4
      <4>2. filed[f] = more[k] /\ k \in 1 .. Len(more)
        BY <1>2, <1>6, <4>1
      <4>3. QED
        BY <1>2, <4>2
    <3>6. \A f, g \in b + 1 .. b + Len(names) : f < g => filed[f][2] < filed[g][2]
      <4> TAKE f, g \in b + 1 .. b + Len(names)
      <4>1. PICK k \in 1 .. Len(names) : f = b + k
        BY <3>4
      <4>2. PICK l \in 1 .. Len(names) : g = b + l
        BY <3>4
      <4>3. f < g => k < l
        BY <1>2, <1>6, <4>1, <4>2
      <4>4. filed[f] = more[k] /\ filed[g] = more[l]
        BY <1>6, <4>1, <4>2
      <4>5. QED
        BY <1>2, <4>3, <4>4
    <3>7. \A n \in DOMAIN input[dir] : \E f \in b + 1 .. b + Len(names) : filed[f] = << dir, n >>
      <4> TAKE n \in DOMAIN input[dir]
      <4>1. PICK k \in 1 .. Len(names) : more[k] = << dir, n >>
        BY <1>2
      <4>2. b + k \in b + 1 .. b + Len(names) /\ filed[b + k] = more[k]
        BY <1>2, <1>6
      <4>3. QED
        BY <4>1, <4>2
    <3>8. entry.fileBegin = b /\ entry.fileEnd = b + Len(names)
      BY <1>8
    <3>9. QED
      BY <3>1, <3>2, <3>3, <3>5, <3>6, <3>7, <3>8 DEF Entry
  <2>3. QED
    BY <1>3, <2>1, <2>2
<1>13. ASSUME NEW j \in 2 .. Len(whole) PROVE Under(whole, laid, j)
  <2>1. CASE j \in 1 .. a
    <3>1. Under(all, dirs, j) /\ whole[j] = all[j]
      BY <1>5, <2>1 DEF Spread, a
    <3>2. PICK p \in 1 .. m : all[p] = Front(all[j]) /\ j - 1 \in dirs[p].subBegin .. dirs[p].subEnd - 1
      BY <3>1 DEF Under, m
    <3>3. p \in 1 .. Len(laid) /\ laid[p] = dirs[p] /\ whole[p] = all[p]
      BY <1>3, <1>10, <1>11
    <3>4. QED
      BY <3>1, <3>2, <3>3 DEF Under
  <2>2. CASE j \notin 1 .. a
    <3>1. PICK k \in 1 .. Len(subs) : j = a + k
      BY <1>5, <2>2
    <3>2. whole[j] = kids[k] /\ kids[k] # <<>> /\ Front(kids[k]) = dir
      BY <1>1, <1>5, <3>1
    <3>3. m + 1 \in 1 .. Len(laid) /\ laid[m + 1] = entry /\ whole[m + 1] = dir
      BY <1>3, <1>10, <1>11
    <3>4. j - 1 \in entry.subBegin .. entry.subEnd - 1
      BY <1>1, <1>5, <1>8, <3>1
    <3>5. QED
      BY <3>2, <3>3, <3>4 DEF Under
  <2>3. QED
    BY <2>1, <2>2
<1>14. ASSUME NEW p \in 1 .. m + 1 PROVE Over(input, whole, p)
  <2>1. CASE p \in 1 .. m
    <3>1. Over(input, all, p) /\ whole[p] = all[p]
      BY <1>11, <2>1 DEF Spread, m
    <3>2. \A j \in 1 .. a : j \in 1 .. Len(whole) /\ whole[j] = all[j]
      BY <1>1, <1>5
    <3>3. QED
      BY <3>1, <3>2 DEF Over, a
  <2>2. CASE p = m + 1
    <3>1. \A i \in 1 .. Len(subs) : a + i \in 1 .. Len(whole) /\ whole[a + i] = kids[i]
      BY <1>1, <1>5
    <3>2. QED
      BY <1>1, <1>11, <2>2, <3>1 DEF Over
  <2>3. QED
    BY <1>3, <2>1, <2>2
<1>15. ASSUME NEW i \in 1 .. Len(filed) PROVE \E p \in 1 .. m + 1 : filed[i][1] = whole[p]
  <2>1. CASE i \in 1 .. b
    <3>1. PICK p \in 1 .. m : files[i][1] = all[p]
      BY <2>1 DEF Spread, b, m
    <3>2. p \in 1 .. m + 1 /\ whole[p] = all[p] /\ filed[i] = files[i]
      BY <1>3, <1>6, <1>11, <2>1
    <3>3. QED
      BY <3>1, <3>2
  <2>2. CASE i \notin 1 .. b
    <3>1. PICK k \in 1 .. Len(names) : i = b + k
      BY <1>6, <2>2
    <3>2. filed[i] = more[k] /\ k \in 1 .. Len(more)
      BY <1>2, <1>6, <3>1
    <3>3. more[k][1] = dir /\ m + 1 \in 1 .. m + 1
      BY <1>2, <1>3, <3>2
    <3>4. QED
      BY <1>11, <3>2, <3>3
  <2>3. QED
    BY <2>1, <2>2
<1>16. Len(laid) <= Len(whole)
  BY <1>1, <1>3, <1>5, <1>10
<1>17. Spread(input, whole, laid, filed)
  BY <1>1, <1>2, <1>10, <1>12, <1>13, <1>14, <1>15, <1>16 DEF Spread
<1>18. QED
  BY <1>1, <1>17 DEF whole, filed, laid, kids, more, dir, entry

-----------------------------------------------------------------------------
\* The header that lists an input.

\* A path is its parent and its last name.
LEMMA FrontAndLast ==
  ASSUME NEW S, NEW d \in Seq(S), d # <<>>
  PROVE  /\ Front(d) \in Seq(S) /\ Len(d) = Len(Front(d)) + 1 /\ Last(d) \in S
         /\ SubSeq(d, 1, Len(Front(d))) = Front(d) /\ Append(Front(d), Last(d)) = d
<1>1. PICK s \in Seq(S), x \in S : d = Append(s, x)
  BY SequenceEmptyOrAppend
<1>2. Front(d) = s /\ Last(d) = x
  BY <1>1, FrontOfAppend
<1>3. Len(d) = Len(s) + 1 /\ Len(s) \in Nat
  BY <1>1, AppendProperties
<1>4. Front(d) = SubSeq(d, 1, Len(s))
  BY <1>3 DEF Front
<1>5. QED
  BY <1>1, <1>2, <1>3, <1>4

\* When nothing is left to lay out, every directory of the input has been met.
LEMMA AllAreMet ==
  ASSUME NEW input, Tree(input), NEW all, NEW dirs, NEW files, Spread(input, all, dirs, files),
         Len(dirs) = Len(all)
  PROVE  /\ \A d \in DOMAIN input : \E j \in 1 .. Len(all) : all[j] = d
         /\ Len(all) = Cardinality(DOMAIN input)
<1> DEFINE Met(d) == \E j \in 1 .. Len(all) : all[j] = d
           out == {d \in DOMAIN input : ~Met(d)}
           lengths == {Len(d) : d \in out}
<1>1. /\ all \in Seq(DOMAIN input) /\ all # <<>> /\ all[1] = <<>> /\ Len(all) \in Nat
      /\ \A p \in 1 .. Len(all) : Over(input, all, p)
      /\ \A i, j \in 1 .. Len(all) : all[i] = all[j] => i = j
  BY DEF Spread, Listing
<1>2. \A d \in DOMAIN input : d \in Seq(Names) /\ (d # <<>> => Front(d) \in DOMAIN input)
  BY DEF Tree
<1>3. Met(<<>>)
  BY <1>1
<1>4. out = {}
  <2> SUFFICES ASSUME out # {} PROVE FALSE
    OBVIOUS
  <2>1. lengths \in SUBSET Nat /\ lengths # {}
    <3>1. \A d \in out : Len(d) \in Nat
      BY <1>2
    <3> HIDE DEF out
    <3>2. QED
      BY <3>1
  <2>2. PICK k \in lengths : \A l \in lengths : k <= l
    <3> HIDE DEF lengths
    <3>1. QED
      BY <2>1, LeastNumber
  <2>3. PICK d \in out : Len(d) = k
    OBVIOUS
  <2>4. d \in Seq(Names) /\ d # <<>> /\ Front(d) \in DOMAIN input
    BY <1>2, <1>3
  <2>5. /\ Front(d) \in Seq(Names) /\ Len(d) = Len(Front(d)) + 1 /\ Append(Front(d), Last(d)) = d
        /\ SubSeq(d, 1, Len(Front(d))) = Front(d)
    BY <2>4, FrontAndLast
  <2>6. Front(d) \notin out
    <3>1. Len(Front(d)) \in Nat /\ Len(Front(d)) < k
      BY <2>3, <2>5
    <3>2. Len(Front(d)) \notin lengths
      <4> HIDE DEF lengths
      <4>1. k \in Nat
        BY <2>1
      <4>2. QED
        BY <2>2, <3>1, <4>1
    <3>3. QED
      BY <3>2
  <2>7. PICK p \in 1 .. Len(all) : all[p] = Front(d)
    BY <2>4, <2>6
  <2>8. Last(d) \in SubNames(input, Front(d))
    <3>1. IsChild(d, Front(d))
      BY <2>5 DEF IsChild
    <3>2. QED
      BY <3>1 DEF SubNames
  <2>9. PICK j \in 1 .. Len(all) : all[j] = Append(Front(d), Last(d))
    <3>1. Over(input, all, p)
      BY <1>1
    <3>2. \A n \in SubNames(input, all[p]) : \E j \in 1 .. Len(all) : all[j] = Append(all[p], n)
      BY <3>1 DEF Over
    <3>3. QED
      BY <2>7, <2>8, <3>2, Zenon
  <2>10. QED
    BY <2>5, <2>9
<1>5. \A d \in DOMAIN input : Met(d)
  BY <1>4
<1>6. Len(all) = Cardinality(DOMAIN input)
  <2> DEFINE I == 1 .. Len(all)
             S == DOMAIN input
             n == Len(all)
  <2>1. all \in [I -> S]
    BY <1>1
  <2>2. all \in Injection(I, S) /\ all \in Surjection(I, S)
    BY <1>1, <1>5, <2>1 DEF Injection, IsInjective, Surjection
  <2>3. n \in Nat /\ IsFiniteSet(I) /\ Cardinality(I) = n
    <3>1. IsFiniteSet(1 .. n) /\ Cardinality(1 .. n) = IF 1 > n THEN 0 ELSE n - 1 + 1
      BY <1>1, FS_Interval
    <3>2. QED
      BY <1>1, <3>1
  <2>4. IsFiniteSet(S)
    BY DEF Tree
  <2> HIDE DEF I, S, n
  <2>5. Cardinality(I) = Cardinality(S)
    BY <2>2, <2>4, FS_Injection
  <2>6. QED
    BY <2>3, <2>5 DEF n, S
<1>7. QED
  BY <1>5, <1>6

\* The name of file f as a version 4 header gives it.
NameOf(h, f) == h.names[DwordAt(h.files[f + 1], 1) + 1]

\* The header lists the files of directory id: those of the folder, in the order of their names.
Lists(h, id, files, folder) ==
  LET info == h.dirs[id + 1]
      ids == DirFiles(h, id)
  IN  /\ info.fileBegin < Base /\ info.fileEnd < Base /\ info.fileEnd <= Len(files)
      /\ \A f \in ids : files[f + 1] = << DirName(h, id), NameOf(h, f) >> /\ NameOf(h, f) \in DOMAIN folder
      /\ \A f, g \in ids : f < g => NameOf(h, f) < NameOf(h, g)
      /\ \A n \in DOMAIN folder : \E f \in ids : NameOf(h, f) = n

\* The header lists the input.
Lays(h, input, files) ==
  /\ HoldsDirs(h, input)
  /\ files \in Seq(FilesOf(input)) /\ Len(h.names) \in Nat
  /\ \A id \in 0 .. h.dirCount - 1 : Lists(h, id, files, input[DirName(h, id)])

\* What LayOutFileNames adds.
FileNames(files) == [i \in DOMAIN files |-> files[i][2]]
Records(n, files) == [i \in DOMAIN files |-> FileRecord(n + i - 1, 4)]

\* The header that LayOutFileNames completes.
Laying(h, input, all, dirs, files) ==
  /\ h.dirCount = Word(Count(input).dirs) /\ h.toc.startDir = 0 /\ h.toc.endDir = Word(Count(input).dirs)
  /\ h.dirs = dirs /\ h.names = all \o FileNames(files) /\ h.files = Records(Len(all), files)

\* Two sequences of different things, one behind the other.
LEMMA Joined ==
  ASSUME NEW S, NEW T, NEW s \in Seq(S), NEW t \in Seq(T)
  PROVE  /\ \A i \in 1 .. Len(s) : (s \o t)[i] = s[i]
         /\ \A i \in 1 .. Len(t) : (s \o t)[Len(s) + i] = t[i]
<1> DEFINE U == S \cup T
<1>1. S \subseteq U /\ T \subseteq U
  OBVIOUS
<1> HIDE DEF U
<1>2. s \in Seq(U) /\ t \in Seq(U)
  BY <1>1, SeqMonotonic
<1>3. /\ s \o t \in Seq(U) /\ Len(s \o t) = Len(s) + Len(t)
      /\ Len(s) \in Nat /\ Len(t) \in Nat
      /\ \A i \in 1 .. Len(s) : (s \o t)[i] = s[i]
      /\ \A i \in 1 .. Len(t) : (s \o t)[Len(s) + i] = t[i]
      /\ \A i \in 1 .. Len(s \o t) : i \in 1 .. Len(s) \/ \E k \in 1 .. Len(t) : i = Len(s) + k
  BY <1>2, Concatenated
<1>4. QED
  BY <1>3

\* The names of directories and of files are found where the header says.
LEMMA NamesAreFound ==
  ASSUME NEW input, Countable(input), NEW all, NEW dirs, NEW files, Spread(input, all, dirs, files),
         Len(dirs) = Len(all), Len(all) = Cardinality(DOMAIN input), Tree(input),
         NEW h, Laying(h, input, all, dirs, files)
  PROVE  /\ \A p \in 1 .. Len(all) : h.names[h.dirs[p].name + 1] = all[p]
         /\ \A i \in 1 .. Len(files) : h.names[DwordAt(h.files[i], 1) + 1] = files[i][2]
         /\ Len(all) < Base /\ Len(files) < Base
<1> DEFINE n == Len(all)
           k == Len(files)
<1>1. /\ all \in Seq(DOMAIN input) /\ n \in Nat /\ files \in Seq(FilesOf(input)) /\ k \in Nat
      /\ \A p \in 1 .. n : dirs[p].name = p - 1
      /\ \A i, j \in 1 .. k : files[i] = files[j] => i = j
  BY DEF Spread, Listing, Entry
<1>2. \A i \in 1 .. k : files[i][2] \in Names
  <2> TAKE i \in 1 .. k
  <2>1. files[i] \in FilesOf(input)
    BY <1>1
  <2>2. QED
    BY <2>1 DEF FilesOf, Tree
<1>3. FileNames(files) = [i \in 1 .. k |-> files[i][2]]
  BY <1>1 DEF FileNames
<1> HIDE DEF n, k
<1>4. FileNames(files) \in Seq(Names) /\ Len(FileNames(files)) = k /\ \A i \in 1 .. k : FileNames(files)[i] = files[i][2]
  BY <1>1, <1>2, <1>3
<1>5. /\ \A i \in 1 .. n : h.names[i] = all[i]
      /\ \A i \in 1 .. k : h.names[n + i] = files[i][2]
  <2> DEFINE fn == FileNames(files)
  <2>1. fn \in Seq(Names) /\ all \in Seq(DOMAIN input)
    BY <1>1, <1>4
  <2>2. /\ \A i \in 1 .. Len(all) : (all \o fn)[i] = all[i]
        /\ \A i \in 1 .. Len(fn) : (all \o fn)[Len(all) + i] = fn[i]
    <3> HIDE DEF fn
    <3>1. QED
      BY <2>1, Joined
  <2>3. QED
    BY <1>4, <2>2 DEF n, Laying
<1>6. n < Base /\ k < Base
  <2>1. IsFiniteSet(FilesOf(input)) /\ Cardinality(FilesOf(input)) \in Nat
    BY FilesAreFinite
  <2>2. k <= Cardinality(FilesOf(input))
    BY <1>1, <2>1, DistinctAreFew DEF k
  <2>3. Cardinality(FilesOf(input)) < Base /\ n < Base
    BY DEF Countable, Count, FilesOf, n
  <2>4. QED
    BY <1>1, <2>1, <2>2, <2>3, SgaAssumption
<1>7. ASSUME NEW i \in 1 .. k PROVE DwordAt(h.files[i], 1) = n + i - 1
  <2>1. h.files[i] = FileRecord(n + i - 1, 4)
    BY <1>1 DEF Records, n, k, Laying
  <2>2. n + i - 1 \in Nat /\ n + i - 1 < Base + Base
    BY <1>1, <1>6, SgaAssumption
  <2>3. Base + Base <= Base * Base
    <3>1. Base * 2 = Base + Base /\ Base \in Nat /\ Base >= 2
      BY SgaAssumption
    <3>2. Base * Base >= Base * 2
      BY <3>1, ProductGrows
    <3>3. Base * Base \in Nat
      BY <3>1
    <3>4. QED
      BY <3>1, <3>2, <3>3
  <2>4. n + i - 1 < Base * Base
    <3> DEFINE square == Base * Base
               x == n + i - 1
    <3>1. square \in Nat /\ Base \in Nat /\ x \in Nat /\ x < Base + Base /\ Base + Base <= square
      BY <2>2, <2>3, SgaAssumption
    <3> HIDE DEF square, x
    <3>2. x < square
      BY <3>1
    <3>3. QED
      BY <3>2 DEF square, x
  <2> DEFINE x == n + i - 1
  <2>5. Word(x) + Base * High(x) = x
    <3> HIDE DEF x
    <3>1. x \in Nat /\ x < Base * Base
      BY <2>2, <2>4 DEF x
    <3>2. QED
      BY <3>1, DwordFits
  <2>6. DwordAt(h.files[i], 1) = Word(x) + Base * High(x)
    BY <2>1 DEF DwordAt, FileRecord
  <2>7. QED
    BY <2>5, <2>6
<1>8. ASSUME NEW i \in 1 .. k PROVE h.names[DwordAt(h.files[i], 1) + 1] = files[i][2]
  <2>1. DwordAt(h.files[i], 1) + 1 = n + i
    BY <1>1, <1>7
  <2>2. QED
    BY <1>5, <2>1
<1>9. ASSUME NEW p \in 1 .. n PROVE h.names[h.dirs[p].name + 1] = all[p]
  <2>1. h.dirs[p].name + 1 = p
    BY <1>1 DEF Laying
  <2>2. QED
    BY <1>5, <2>1
<1>10. QED
  BY <1>6, <1>8, <1>9 DEF n, k

\* When every directory is laid out, the header lists the input.
LEMMA LaidOut ==
  ASSUME NEW input \in Scanned, Countable(input), NEW all, NEW dirs, NEW files, Spread(input, all, dirs, files),
         Len(dirs) = Len(all), NEW h, Laying(h, input, all, dirs, files)
  PROVE  Lays(h, input, files)
<1> DEFINE n == Len(all)
           k == Len(files)
           ids == 0 .. h.dirCount - 1
<1>1. /\ all \in Seq(DOMAIN input) /\ n \in Nat /\ n > 0 /\ all[1] = <<>>
      /\ \A i, j \in 1 .. n : all[i] = all[j] => i = j
      /\ files \in Seq(FilesOf(input)) /\ k \in Nat
      /\ dirs \in Seq(DirInfo) /\ Len(dirs) = n
      /\ \A p \in 1 .. n : Entry(input, all, files, p, dirs[p])
      /\ \A j \in 2 .. n : Under(all, dirs, j)
  BY DEF Spread, Listing
<1>2. Tree(input)
  BY ScannedTree
<1>3. (\A d \in DOMAIN input : \E j \in 1 .. n : all[j] = d) /\ n = Cardinality(DOMAIN input)
  BY <1>2, AllAreMet
<1>4. h.dirs = dirs /\ h.names = all \o FileNames(files) /\ h.files = Records(Len(all), files)
  BY DEF Laying
<1>5. /\ \A p \in 1 .. n : h.names[h.dirs[p].name + 1] = all[p]
      /\ \A i \in 1 .. k : h.names[DwordAt(h.files[i], 1) + 1] = files[i][2]
      /\ n < Base /\ k < Base
  BY <1>2, <1>3, NamesAreFound
<1>6. h.dirCount = n /\ h.toc.startDir = 0 /\ h.toc.endDir = n
  <2>1. Count(input).dirs = n
    BY <1>3 DEF Count
  <2>2. Word(n) = n
    BY <1>1, <1>5, WordFits
  <2>3. QED
    BY <2>1, <2>2 DEF Laying
<1> HIDE DEF n, k
<1>7. \A id \in ids : id \in Nat /\ id + 1 \in 1 .. n /\ DirName(h, id) = all[id + 1]
  BY <1>1, <1>5, <1>6 DEF DirName
<1>8. \A id \in ids : h.dirs[id + 1] = dirs[id + 1] /\ dirs[id + 1] \in DirInfo
  BY <1>1, <1>4, <1>7
<1>9. \A id \in ids : Entry(input, all, files, id + 1, dirs[id + 1])
  BY <1>1, <1>7
<1>10. HoldsDirs(h, input)
  <2>1. h.dirCount \in 1 .. Base - 1 /\ h.dirs \in Seq(DirInfo) /\ Len(h.dirs) = h.dirCount
    BY <1>1, <1>4, <1>5, <1>6, SgaAssumption
  <2>2. DirName(h, 0) = <<>>
    <3>1. 0 \in ids
      BY <1>1, <1>6
    <3>2. QED
      BY <1>1, <1>7, <3>1
  <2>3. \A id \in ids : DirName(h, id) \in DOMAIN input
    <3>1. \A p \in 1 .. n : all[p] \in DOMAIN input
      BY <1>1 DEF n
    <3>2. QED
      BY <1>7, <3>1
  <2>4. \A x, y \in ids : DirName(h, x) = DirName(h, y) => x = y
    <3> TAKE x, y \in ids
    <3>1. all[x + 1] = all[y + 1] => x + 1 = y + 1
      BY <1>1, <1>7
    <3>2. QED
      BY <1>7, <3>1
  <2>5. \A d \in DOMAIN input : \E id \in ids : DirName(h, id) = d
    <3> TAKE d \in DOMAIN input
    <3>1. PICK j \in 1 .. n : all[j] = d
      BY <1>3
    <3>2. j - 1 \in ids /\ (j - 1) + 1 = j
      BY <1>1, <1>6
    <3>3. QED
      BY <1>7, <3>1, <3>2
  <2>6. \A id \in ids : \A sub \in SubDirs(h, id) : id < sub /\ sub < h.dirCount
    <3> TAKE id \in ids
    <3>1. /\ dirs[id + 1].subBegin \in Nat /\ dirs[id + 1].subEnd \in Nat
          /\ id + 1 <= dirs[id + 1].subBegin /\ dirs[id + 1].subEnd <= n
      BY <1>8, <1>9 DEF Entry, DirInfo, n
    <3>2. SubDirs(h, id) = dirs[id + 1].subBegin .. dirs[id + 1].subEnd - 1
      BY <1>8 DEF SubDirs
    <3>3. QED
      BY <1>1, <1>6, <1>7, <3>1, <3>2, SMTT(30)
  <2>7. \A id \in ids : id # 0 => \E parent \in ids : parent < id /\ id \in SubDirs(h, parent)
    <3> SUFFICES ASSUME NEW id \in ids, id # 0 PROVE \E parent \in ids : parent < id /\ id \in SubDirs(h, parent)
      OBVIOUS
    <3>1. id + 1 \in 2 .. n /\ (id + 1) - 1 = id
      BY <1>1, <1>7
    <3>2. PICK p \in 1 .. n : id \in dirs[p].subBegin .. dirs[p].subEnd - 1
      <4>1. Under(all, dirs, id + 1) /\ Len(dirs) = n
        BY <1>1, <3>1 DEF n
      <4>2. QED
        BY <3>1, <4>1 DEF Under
    <3>3. p - 1 \in ids /\ (p - 1) + 1 = p
      BY <1>1, <1>6
    <3>4. dirs[p] \in DirInfo /\ p <= dirs[p].subBegin
      BY <1>1, <3>3 DEF Entry
    <3>5. p - 1 < id
      BY <1>7, <3>2, <3>4 DEF DirInfo
    <3>6. id \in SubDirs(h, p - 1)
      BY <1>8, <3>2, <3>3 DEF SubDirs
    <3>7. QED
      BY <3>3, <3>5, <3>6
  <2>8. QED
    BY <1>6, <2>1, <2>2, <2>3, <2>4, <2>5, <2>6, <2>7 DEF HoldsDirs
<1>11. ASSUME NEW id \in ids PROVE Lists(h, id, files, input[DirName(h, id)])
  <2> DEFINE d == dirs[id + 1]
             path == DirName(h, id)
             own == d.fileBegin + 1 .. d.fileEnd
  <2>1. /\ path = all[id + 1] /\ d \in DirInfo /\ h.dirs[id + 1] = d
        /\ Entry(input, all, files, id + 1, d)
    BY <1>7, <1>8, <1>9
  <2>2. /\ d.fileBegin \in Nat /\ d.fileEnd \in Nat
        /\ d.fileBegin <= d.fileEnd /\ d.fileEnd <= k
        /\ \A f \in own : files[f][1] = path
        /\ \A f, g \in own : f < g => files[f][2] < files[g][2]
        /\ \A x \in DOMAIN input[path] : \E f \in own : files[f] = << path, x >>
    BY <2>1 DEF Entry, DirInfo, k
  <2>3. DirFiles(h, id) = d.fileBegin .. d.fileEnd - 1
    BY <2>1 DEF DirFiles
  <2> HIDE DEF d, path
  <2>4. d.fileBegin < Base /\ d.fileEnd < Base
    BY <1>1, <1>5, <2>2, SgaAssumption
  <2>5. \A f \in DirFiles(h, id) : f + 1 \in own /\ f + 1 \in 1 .. k /\ f \in Nat
    BY <1>1, <2>2, <2>3, SMTT(30)
  <2>6. \A f \in DirFiles(h, id) : NameOf(h, f) = files[f + 1][2]
    BY <1>5, <2>5 DEF NameOf
  <2>7. ASSUME NEW f \in DirFiles(h, id)
        PROVE  files[f + 1] = << path, NameOf(h, f) >> /\ NameOf(h, f) \in DOMAIN input[path]
    <3>1. files[f + 1] \in FilesOf(input)
      <4>1. f + 1 \in 1 .. Len(files)
        BY <2>5 DEF k
      <4> DEFINE i == f + 1
                 S == FilesOf(input)
      <4>2. i \in 1 .. Len(files) /\ files \in Seq(S)
        BY <1>1, <4>1
      <4> HIDE DEF i, S
      <4>3. files[i] \in S
        BY <4>2
      <4>4. QED
        BY <4>3 DEF i, S
    <3>2. PICK x \in DOMAIN input : \E y \in DOMAIN input[x] : files[f + 1] = << x, y >>
      BY <3>1 DEF FilesOf
    <3>3. PICK y \in DOMAIN input[x] : files[f + 1] = << x, y >>
      BY <3>2
    <3>4. x = path /\ y = NameOf(h, f)
      BY <2>2, <2>5, <2>6, <3>3
    <3>5. QED
      BY <3>3, <3>4
  <2>8. \A f, g \in DirFiles(h, id) : f < g => NameOf(h, f) < NameOf(h, g)
    <3> TAKE f, g \in DirFiles(h, id)
    <3>1. f + 1 \in own /\ g + 1 \in own /\ (f < g => f + 1 < g + 1)
      BY <2>5
    <3>2. NameOf(h, f) = files[f + 1][2] /\ NameOf(h, g) = files[g + 1][2]
      BY <2>6
    <3>3. QED
      BY <2>2, <3>1, <3>2
  <2>9. \A x \in DOMAIN input[path] : \E f \in DirFiles(h, id) : NameOf(h, f) = x
    <3> TAKE x \in DOMAIN input[path]
    <3>1. PICK f \in own : files[f] = << path, x >>
      BY <2>2
    <3>2. f - 1 \in DirFiles(h, id) /\ (f - 1) + 1 = f
      BY <2>2, <2>3
    <3>3. NameOf(h, f - 1) = x
      BY <2>6, <3>1, <3>2
    <3>4. QED
      BY <3>2, <3>3
  <2>10. QED
    BY <2>1, <2>2, <2>4, <2>7, <2>8, <2>9 DEF Lists, d, path, k
<1>12. Len(h.names) \in Nat
  <2>1. \A i \in 1 .. k : files[i] \in FilesOf(input)
    BY <1>1 DEF k
  <2>2. \A i \in 1 .. k : files[i][2] \in Names
    BY <1>2, <2>1 DEF FilesOf, Tree
  <2>3. FileNames(files) = [i \in 1 .. k |-> files[i][2]]
    BY <1>1 DEF FileNames, k
  <2>4. FileNames(files) \in Seq(Names)
    BY <1>1, <2>2, <2>3
  <2> DEFINE S == DOMAIN input \cup Names
             fn == FileNames(files)
  <2>5. DOMAIN input \subseteq S /\ Names \subseteq S
    OBVIOUS
  <2> HIDE DEF S, fn
  <2>6. all \in Seq(S) /\ fn \in Seq(S)
    BY <1>1, <2>4, <2>5, SeqMonotonic DEF fn
  <2>7. all \o fn \in Seq(S)
    BY <2>6, ConcatProperties
  <2>8. Len(all \o fn) \in Nat
    BY <2>7
  <2>9. QED
    BY <1>4, <2>8 DEF fn
<1>13. QED
  BY <1>1, <1>10, <1>11, <1>12 DEF Lays

\* The files of a laid out header are in the list of files, and those it names of the folder.
LEMMA LaidFiles ==
  ASSUME NEW h, NEW input, NEW files, Lays(h, input, files), NEW id \in 0 .. h.dirCount - 1
  PROVE  LET folder == input[DirName(h, id)]
             ids == DirFiles(h, id)
         IN  /\ DirName(h, id) \in DOMAIN input
             /\ h.dirs[id + 1].fileBegin < Base /\ h.dirs[id + 1].fileEnd < Base
             /\ \A f \in ids : /\ f + 1 \in 1 .. Len(files)
                               /\ files[f + 1] = << DirName(h, id), NameOf(h, f) >>
                               /\ NameOf(h, f) \in DOMAIN folder
             /\ \A f, g \in ids : f < g => NameOf(h, f) < NameOf(h, g)
             /\ \A n \in DOMAIN folder : \E f \in ids : NameOf(h, f) = n
<1> DEFINE path == DirName(h, id)
           folder == input[path]
           d == h.dirs[id + 1]
           ids == DirFiles(h, id)
<1>1. HoldsDirs(h, input) /\ files \in Seq(FilesOf(input))
  BY DEF Lays
<1>2. path \in DOMAIN input
  BY <1>1 DEF HoldsDirs
<1>3. /\ d.fileBegin < Base /\ d.fileEnd < Base /\ d.fileEnd <= Len(files)
      /\ \A f \in ids : files[f + 1] = << path, NameOf(h, f) >> /\ NameOf(h, f) \in DOMAIN folder
      /\ \A f, g \in ids : f < g => NameOf(h, f) < NameOf(h, g)
      /\ \A n \in DOMAIN folder : \E f \in ids : NameOf(h, f) = n
  BY DEF Lays, Lists
<1>4. \A f \in ids : f + 1 \in 1 .. Len(files)
  <2>1. d \in DirInfo
    BY <1>1 DEF HoldsDirs
  <2>2. d.fileBegin \in Nat /\ d.fileEnd \in Nat /\ Len(files) \in Nat
    BY <1>1, <2>1 DEF DirInfo
  <2>3. ids = d.fileBegin .. d.fileEnd - 1
    BY DEF DirFiles
  <2> HIDE DEF d, ids
  <2>4. QED
    BY <1>3, <2>2, <2>3
<1>5. QED
  BY <1>2, <1>3, <1>4

\* A laid out header makes a complete archive.
LEMMA LaidIsComplete ==
  ASSUME NEW input, NEW files, NEW file, file.version = 4, Lays(file.header, input, files)
  PROVE  Complete(file, input)
<1> DEFINE h == file.header
<1>1. HoldsDirs(h, input)
  BY DEF Lays
<1>2. \A f : FileName(file, f) = NameOf(h, f)
  BY DEF FileName, FileInfo, FileInfo4, NameOf
<1>3. ASSUME NEW id \in 0 .. h.dirCount - 1 PROVE HoldsFiles(file, id, input[DirName(h, id)])
  BY <1>2, LaidFiles DEF HoldsFiles
<1>4. QED
  BY <1>1, <1>3 DEF Complete

\* If its records all lead to the contents, and double words count what it takes, it is sound.
LEMMA StoredIsSound ==
  ASSUME NEW input, Tree(input), NEW files, NEW file, file.version = 4, file.data \in Seq(Blob),
         Lays(file.header, input, files), Addressable(file),
         \A i \in 1 .. Len(files) : Stored(file.header.files[i], file.data, input[files[i][1]][files[i][2]])
  PROVE  Sound(file, input)
<1> DEFINE h == file.header
<1>1. DataOffset(h) \in Nat /\ DataOffset(h) > 2
  <2>1. Len(h.names) \in Nat
    BY DEF Lays
  <2>2. QED
    BY <2>1, SgaAssumption DEF DataOffset
<1>2. \A f : FileName(file, f) = NameOf(h, f)
  BY DEF FileName, FileInfo, FileInfo4, NameOf
<1>3. SUFFICES ASSUME NEW id \in 0 .. h.dirCount - 1, NEW f \in DirFiles(h, id)
               PROVE  ReadData(file, f) \in Readings(file, input[DirName(h, id)][NameOf(h, f)])
  BY <1>2 DEF Sound
<1> DEFINE path == DirName(h, id)
           c == input[path][NameOf(h, f)]
<1>4. /\ path \in DOMAIN input /\ f + 1 \in 1 .. Len(files)
      /\ files[f + 1] = << path, NameOf(h, f) >> /\ NameOf(h, f) \in DOMAIN input[path]
  BY LaidFiles
<1>5. c \in Contents
  BY <1>4 DEF Tree
<1>6. Stored(h.files[f + 1], file.data, c)
  <2>1. files[f + 1][1] = path /\ files[f + 1][2] = NameOf(h, f)
    BY <1>4
  <2> HIDE DEF path
  <2>2. QED
    BY <1>4, <2>1
<1> HIDE DEF c
<1>7. ReadData(file, f) \in Readings(file, c)
  BY <1>1, <1>5, <1>6, StoredIsRead
<1>8. QED
  BY <1>7 DEF c

-----------------------------------------------------------------------------
\* The file that is being written.

\* The stages at which the output file is open, or done.
Making == {"dirs", "names", "flush", "submit", "collect", "md5", "size", "header", "datamd5", "done", "spin"}

\* The file that is being written, for what it was opened, and, if nothing of it was lost, how
\* far its head has come.
Opened ==
  /\ pc \notin {"idle", "failed"} => version = 4
  /\ pc \in Making =>
       /\ packed = pInput /\ pInput \in Scanned
       /\ DOMAIN fOut = FileFields /\ fOut.data \in Seq(Blob)
       /\ fOut.version = 4 /\ fOut.platform = 1
       /\ ~lost => fOut.magic = TRUE
  /\ pc \in {"header", "datamd5", "done", "spin"} /\ ~lost => fOut.sized = TRUE /\ fOut.md5 = Md5(dataHeader)
  /\ pc \in {"datamd5", "done", "spin"} /\ ~lost => fOut.header = dataHeader

\* Collecting a file appends its data and leaves the head of the output file.
LEMMA CollectAppends ==
  ASSUME TypeOK, Opened, Collect
  PROVE  /\ future[<< attempt, iFileIdx >>] \in Contents
         /\ DOMAIN fOut' = FileFields
         /\ fOut'.data = fOut.data \o PreData(version) \o Compressed(future[<< attempt, iFileIdx >>]).data
         /\ fOut'.data \in Seq(Blob)
         /\ fOut'.magic = fOut.magic /\ fOut'.version = fOut.version /\ fOut'.platform = fOut.platform
         /\ lost' = lost
<1> DEFINE c == future[<< attempt, iFileIdx >>]
<1>1. c \in Contents
  BY CreateAssumption DEF Collect, Ready
<1>2. pc = "collect" /\ version = 4 /\ DOMAIN fOut = FileFields /\ fOut.data \in Seq(Blob)
  BY DEF Collect, Opened, Making
<1>3. fOut' = [fOut EXCEPT !.data = @ \o PreData(version) \o Compressed(c).data] /\ lost' = lost
  BY DEF Collect
<1> HIDE DEF c
<1>4. Compressed(c).data \in Seq(Blob)
  BY <1>1, CompressedType, BlobHolds
<1>5. PreData(version) \in Seq(Blob)
  BY <1>2 DEF PreData, Blob
<1>6. fOut.data \o PreData(version) \o Compressed(c).data \in Seq(Blob)
  BY <1>2, <1>4, <1>5, ConcatProperties
<1>7. QED
  BY <1>1, <1>2, <1>3, <1>6 DEF FileFields, c

\* The beginning of a sequence.
LEMMA Beginning ==
  ASSUME NEW S, NEW s \in Seq(S)
  PROVE  <<>> \in Seq(S) /\ \A n \in 0 .. Len(s) : SubSeq(s, 1, n) \in Seq(S)
<1>1. \A n \in 0 .. Len(s) : \A i \in 1 .. n : s[i] \in S
  OBVIOUS
<1>2. \A n \in 0 .. Len(s) : SubSeq(s, 1, n) \in Seq(S)
  BY <1>1, SubSeqProperties
<1>3. QED
  BY <1>2

LEMMA OpenedInvariant ==
  ASSUME 2 \notin Versions
  PROVE  Spec => []Opened
<1>1. Init => Opened
  BY DEF Init, Opened, Making
<1>2. TypeOK /\ Queued /\ Progress /\ Checked /\ Opened /\ [Next]_vars => Opened'
  <2> SUFFICES ASSUME TypeOK, Queued, Progress, Checked, Opened, [Next]_vars PROVE Opened'
    OBVIOUS
  <2> USE DEF Making
  <2>1. ASSUME NEW v \in Versions, CreateSga(v) PROVE Opened'
    <3>1. v # 2 /\ version' = v /\ pc' = IF v \in {2, 4} THEN "scan" ELSE "failed"
      BY <2>1 DEF CreateSga
    <3>2. QED
      BY <3>1 DEF Opened
  <2>2. ASSUME NEW t \in Trees, NEW toc \in ToCs, Scan(t, toc) PROVE Opened'
    BY <2>2 DEF Scan, Opened
  <2>3. CASE OpenOutput
    <3>1. <<>> \in Seq(Blob)
      OBVIOUS
    <3>2. pc = "head" /\ pc' = "dirs" /\ version' = version /\ pInput' = pInput /\ packed' = pInput
          /\ fOut' = [magic |-> TRUE, version |-> version, platform |-> 1, md5 |-> NoMd5,
                      sized |-> FALSE, header |-> NoHeader, data |-> <<>>]
      BY <2>3 DEF OpenOutput
    <3>3. version = 4 /\ pInput \in Scanned
      BY <3>2 DEF Opened, Queued
    <3>4. QED
      BY <3>1, <3>2, <3>3 DEF Opened, FileFields
  <2>4. CASE LayOutDirectory
    <3>1. /\ pc = "dirs" /\ pc' \in {"dirs", "names"}
          /\ UNCHANGED <<version, pInput, fOut, lost, packed>>
      BY <2>4 DEF LayOutDirectory
    <3>2. QED
      BY <3>1 DEF Opened
  <2>5. CASE LayOutFileNames
    BY <2>5 DEF LayOutFileNames, Opened
  <2>6. CASE FlushHeader
    BY <2>6 DEF FlushHeader, Opened, FileFields
  <2>7. CASE SubmitCompression
    BY <2>7 DEF SubmitCompression, Opened
  <2>8. CASE Collect
    <3>1. pc = "collect" /\ pc' = "collect" /\ UNCHANGED <<version, pInput, packed>>
      BY <2>8 DEF Collect
    <3>2. QED
      BY <2>8, <3>1, CollectAppends DEF Opened
  <2>9. CASE Collected
    BY <2>9 DEF Collected, Opened
  <2>10. CASE ScanFails \/ CollectFails \/ OpenFails \/ WriteFails
    BY <2>10 DEF ScanFails, CollectFails, OpenFails, WriteFails, Opened
  <2>11. CASE WriteMd5
    <3>1. pc = "md5" /\ DOMAIN fOut = FileFields /\ fOut.data \in Seq(Blob)
      BY <2>11 DEF WriteMd5, Finalise, Opened
    <3>2. <<>> \in Seq(Blob) /\ \A n \in 0 .. Len(fOut.data) : SubSeq(fOut.data, 1, n) \in Seq(Blob)
      BY <3>1, Beginning
    <3>3. QED
      BY <2>11, <3>1, <3>2, Md5Written DEF Opened
  <2>12. CASE WriteSize
    <3>1. pc = "size" /\ DOMAIN fOut = FileFields /\ fOut.md5 = Md5(dataHeader)
      BY <2>12 DEF WriteSize, Finalise, Checked
    <3>2. QED
      BY <2>12, <3>1, SizeWritten DEF Opened
  <2>13. CASE WriteHeader
    <3>1. pc = "header" /\ DOMAIN fOut = FileFields
      BY <2>13 DEF WriteHeader, Finalise, Opened
    <3>2. QED
      BY <2>13, <3>1, HeaderWritten DEF Opened
  <2>14. CASE WriteDataMd5 \/ ReadFails
    BY <2>14, DataMd5Written DEF Opened
  <2>15. CASE WorkerStarts \/ \E t \in Tasks, o \in Outcomes : Compress(t, o)
    BY <2>15 DEF WorkerStarts, Compress, createVars, Opened
  <2>16. CASE UNCHANGED vars
    BY <2>16 DEF vars, createVars, Opened
  <2>17. QED
    BY <2>1, <2>2, <2>3, <2>4, <2>5, <2>6, <2>7, <2>8, <2>9, <2>10, <2>11, <2>12, <2>13, <2>14, <2>15, <2>16
       DEF Next, Creator
<1>3. QED
  BY <1>1, <1>2, TypeInvariant, ProgressInvariant, CheckedInvariant, PTL DEF Spec

-----------------------------------------------------------------------------
\* The directories met: those laid out and those still to do.
AllDirs == dataHeader.names \o qDirsTodo

\* The header in memory lays out what has been met of the input.
Layout ==
  pc \in {"head", "dirs", "names"} =>
    /\ pInput \in Scanned /\ DOMAIN dataHeader = HeaderFields
    /\ dataHeader.dirCount = Word(Count(pInput).dirs)
    /\ dataHeader.toc.startDir = 0 /\ dataHeader.toc.endDir = Word(Count(pInput).dirs)
    /\ dataHeader.names \in Seq(DOMAIN pInput) /\ qDirsTodo \in Seq(DOMAIN pInput)
    /\ pc = "names" => qDirsTodo = <<>>
    /\ iDirC = Len(AllDirs)
    /\ Countable(pInput) =>
         /\ Spread(pInput, AllDirs, dataHeader.dirs, vFilesList)
         /\ Len(dataHeader.names) = Len(dataHeader.dirs)

\* Laying out the head of the queue moves it behind the names, its children behind the rest.
LEMMA QueueMoves ==
  ASSUME NEW S, NEW s \in Seq(S), NEW t \in Seq(S), NEW k \in Seq(S), t # <<>>
  PROVE  Append(s, Head(t)) \o (Tail(t) \o k) = (s \o t) \o k
<1> DEFINE x == Head(t)
           u == Tail(t)
<1>1. x \in S /\ u \in Seq(S) /\ t = << x >> \o u /\ Len(t) \in Nat /\ Len(t) > 0 /\ t[1] = x
  <2>1. x \in S /\ u \in Seq(S) /\ Len(t) \in Nat /\ Len(t) > 0 /\ t[1] = x
    BY HeadTailProperties
  <2>2. /\ << x >> \in Seq(S) /\ Len(<< x >>) = 1 /\ Len(u) = Len(t) - 1 /\ Len(u) \in Nat
        /\ \A i \in 1 .. Len(u) : u[i] = t[i + 1]
    BY <2>1, HeadTailProperties
  <2> HIDE DEF x, u
  <2>3. << x >> \o u \in Seq(S) /\ Len(<< x >> \o u) = Len(t)
        /\ \A i \in 1 .. Len(t) : (<< x >> \o u)[i] = IF i <= 1 THEN << x >>[i] ELSE u[i - 1]
    BY <2>1, <2>2, ConcatProperties
  <2>4. \A i \in 1 .. Len(t) : (<< x >> \o u)[i] = t[i]
    <3> TAKE i \in 1 .. Len(t)
    <3>1. CASE i = 1
      BY <2>1, <2>3, <3>1
    <3>2. CASE i # 1
      <4>1. i - 1 \in 1 .. Len(u) /\ (i - 1) + 1 = i /\ ~(i <= 1)
        BY <2>1, <2>2, <3>2
      <4>2. QED
        BY <2>2, <2>3, <4>1
    <3>3. QED
      BY <3>1, <3>2
  <2>5. << x >> \o u = t
    BY <2>3, <2>4, SeqEqual
  <2>6. QED
    BY <2>1, <2>5
<1> HIDE DEF x, u
<1>2. << x >> \in Seq(S)
  BY <1>1
<1>3. Append(s, x) = s \o << x >>
  BY <1>1, AppendIsConcat
<1>4. (s \o << x >>) \o (u \o k) = s \o (<< x >> \o (u \o k))
  <2>1. u \o k \in Seq(S)
    BY <1>1, ConcatProperties
  <2>2. QED
    BY <1>2, <2>1, ConcatAssociative
<1>5. << x >> \o (u \o k) = t \o k
  BY <1>1, <1>2, ConcatAssociative, SMTT(30)
<1>6. s \o (t \o k) = (s \o t) \o k
  BY ConcatAssociative
<1>7. QED
  BY <1>3, <1>4, <1>5, <1>6 DEF x, u

LEMMA QueueHead ==
  ASSUME NEW S, NEW s \in Seq(S), NEW t \in Seq(S), NEW k \in Seq(S), t # <<>>
  PROVE  /\ (s \o t)[Len(s) + 1] = Head(t) /\ Len(s) < Len(s \o t)
         /\ Len((s \o t) \o k) = Len(s \o t) + Len(k)
<1>1. Len(t) \in Nat /\ Len(t) > 0 /\ Head(t) = t[1]
  OBVIOUS
<1>2. /\ Len(s \o t) = Len(s) + Len(t) /\ Len(s) \in Nat /\ s \o t \in Seq(S)
      /\ (s \o t)[Len(s) + 1] = t[1]
  BY <1>1, Concatenated
<1>3. Len((s \o t) \o k) = Len(s \o t) + Len(k)
  BY <1>2, ConcatProperties
<1>4. QED
  BY <1>1, <1>2, <1>3

\* The children of a directory are directories of the input.
LEMMA KidsType ==
  ASSUME NEW input \in Scanned, NEW dir \in DOMAIN input, NEW subs \in Ascending(SubNames(input, dir))
  PROVE  /\ Kids(dir, subs) \in Seq(DOMAIN input)
         /\ Len(Kids(dir, subs)) = Len(subs) /\ Len(subs) \in Nat
<1>1. dir \in Seq(Names)
  BY ScannedType
<1>2. SubNames(input, dir) \subseteq Names
  BY <1>1, SubNamesType
<1>3. DOMAIN subs = 1 .. Len(subs) /\ Len(subs) \in Nat
  BY <1>2, AscendingType
<1>4. \A i \in 1 .. Len(subs) : Append(dir, subs[i]) \in DOMAIN input
  <2>1. \A i \in DOMAIN subs : subs[i] \in SubNames(input, dir)
    BY DEF Ascending
  <2>2. QED
    BY <1>1, <1>3, <2>1, ChildPath
<1>5. Kids(dir, subs) = [i \in 1 .. Len(subs) |-> Append(dir, subs[i])]
  BY <1>3 DEF Kids
<1>6. QED
  BY <1>3, <1>4, <1>5

\* Only the root is met and nothing laid out when the layout begins.
LEMMA RootSpread ==
  ASSUME NEW input \in Scanned
  PROVE  /\ Spread(input, << <<>> >>, <<>>, <<>>)
         /\ << <<>> >> \in Seq(DOMAIN input) /\ <<>> \in Seq(DOMAIN input)
<1>1. <<>> \in DOMAIN input
  BY ScannedTree DEF Tree
<1>2. << <<>> >> \in Seq(DOMAIN input) /\ <<>> \in Seq(DOMAIN input)
  BY <1>1
<1>3. Listing(input, << <<>> >>)
  BY <1>2 DEF Listing
<1>4. <<>> \in Seq(FilesOf(input)) /\ <<>> \in Seq(DirInfo)
  OBVIOUS
<1>5. QED
  BY <1>2, <1>3, <1>4 DEF Spread

LEMMA ScanSpreads ==
  ASSUME NEW t \in Trees, NEW toc \in ToCs, Scan(t, toc)
  PROVE  Layout'
<1> DEFINE input == ScanDirectory(t)
<1>1. input \in Scanned
  BY DEF Scanned
<1>2. /\ pInput' = input /\ dataHeader' = EmptyHeader(input, toc) /\ qDirsTodo' = << <<>> >>
      /\ iDirC' = 1 /\ vFilesList' = <<>> /\ pc' = "head"
  BY DEF Scan
<1> HIDE DEF input
<1>3. /\ DOMAIN dataHeader' = HeaderFields
      /\ dataHeader'.names = <<>> /\ dataHeader'.dirs = <<>>
      /\ dataHeader'.dirCount = Word(Count(input).dirs)
      /\ dataHeader'.toc.startDir = 0 /\ dataHeader'.toc.endDir = Word(Count(input).dirs)
  BY <1>2 DEF EmptyHeader, HeaderFields
<1>4. AllDirs' = << <<>> >> /\ Len(<< <<>> >>) = 1 /\ <<>> \o << <<>> >> = << <<>> >>
  BY <1>2, <1>3 DEF AllDirs
<1>5. Spread(input, << <<>> >>, <<>>, <<>>) /\ << <<>> >> \in Seq(DOMAIN input) /\ <<>> \in Seq(DOMAIN input)
  BY <1>1, RootSpread
<1>6. Spread(pInput', AllDirs', dataHeader'.dirs, vFilesList')
  BY <1>2, <1>3, <1>4, <1>5
<1>7. QED
  BY <1>1, <1>2, <1>3, <1>4, <1>5, <1>6 DEF Layout

\* Laying out a directory goes on with the layout.
LEMMA LayOutGoesOn ==
  ASSUME TypeOK, Queued, Layout, LayOutDirectory
  PROVE  Layout'
<1> DEFINE s == dataHeader.names
           dirs == dataHeader.dirs
           all == AllDirs
           dir == Head(qDirsTodo)
<1>1. /\ pc = "dirs" /\ pInput \in Scanned /\ DOMAIN dataHeader = HeaderFields
      /\ dataHeader.dirCount = Word(Count(pInput).dirs)
      /\ dataHeader.toc.startDir = 0 /\ dataHeader.toc.endDir = Word(Count(pInput).dirs)
      /\ s \in Seq(DOMAIN pInput) /\ qDirsTodo \in Seq(DOMAIN pInput) /\ qDirsTodo # <<>>
      /\ iDirC = Len(all)
      /\ Countable(pInput) => Spread(pInput, all, dirs, vFilesList) /\ Len(s) = Len(dirs)
  BY DEF Layout, Queued, LayOutDirectory
<1>2. dir \in DOMAIN pInput /\ Tail(qDirsTodo) \in Seq(DOMAIN pInput)
  BY <1>1, HeadTailProperties
<1>3. PICK subs \in Ascending(SubNames(pInput, dir)), names \in Ascending(DOMAIN pInput[dir]) :
        /\ dataHeader' = [dataHeader EXCEPT !.names = Append(@, dir), !.dirs = Append(@,
             [name |-> Len(dataHeader.names),
              subBegin |-> Word(iDirC), subEnd |-> Word(iDirC + Len(subs)),
              fileBegin |-> Word(Len(vFilesList)), fileEnd |-> Word(Len(vFilesList) + Len(names))])]
        /\ qDirsTodo' = Tail(qDirsTodo) \o [i \in DOMAIN subs |-> Append(dir, subs[i])]
        /\ iDirC' = iDirC + Len(subs)
        /\ vFilesList' = vFilesList \o [i \in DOMAIN names |-> << dir, names[i] >>]
  BY Zenon DEF LayOutDirectory
<1> DEFINE kids == Kids(dir, subs)
           entry == NewEntry(all, dirs, vFilesList, subs, names)
<1>4. /\ qDirsTodo' = Tail(qDirsTodo) \o kids /\ iDirC' = iDirC + Len(subs)
      /\ vFilesList' = vFilesList \o Added(dir, names)
  BY <1>3 DEF Kids, Added
<1>5. /\ DOMAIN dataHeader' = HeaderFields
      /\ dataHeader'.names = Append(s, dir)
      /\ dataHeader'.dirCount = dataHeader.dirCount /\ dataHeader'.toc = dataHeader.toc
  BY <1>1, <1>3 DEF HeaderFields
<1>6. Len(s) = Len(dirs) => dataHeader'.dirs = Append(dirs, entry)
  BY <1>1, <1>3 DEF HeaderFields, NewEntry
<1>7. /\ UNCHANGED pInput
      /\ pc' \in {"dirs", "names"} /\ (pc' = "names" => qDirsTodo' = <<>>)
  BY DEF LayOutDirectory
<1>8. kids \in Seq(DOMAIN pInput) /\ Len(kids) = Len(subs) /\ Len(subs) \in Nat
  <2> HIDE DEF dir
  <2>1. QED
    BY <1>1, <1>2, KidsType
<1> HIDE DEF kids, entry
<1>9. /\ Append(s, dir) \o (Tail(qDirsTodo) \o kids) = all \o kids
      /\ all[Len(s) + 1] = dir /\ Len(s) < Len(all)
      /\ Len(all \o kids) = Len(all) + Len(kids)
  <2> DEFINE S == DOMAIN pInput
             t == qDirsTodo
  <2>1. s \in Seq(S) /\ t \in Seq(S) /\ kids \in Seq(S) /\ t # <<>>
    BY <1>1, <1>8
  <2> HIDE DEF S, t, s
  <2>4. Append(s, Head(t)) \o (Tail(t) \o kids) = (s \o t) \o kids
    BY <2>1, QueueMoves, SMTT(30)
  <2>5. (s \o t)[Len(s) + 1] = Head(t)
    BY <2>1, QueueHead
  <2>6. Len(s) < Len(s \o t)
    BY <2>1, QueueHead
  <2>7. Len((s \o t) \o kids) = Len(s \o t) + Len(kids)
    BY <2>1, QueueHead
  <2>3. QED
    BY <2>4, <2>5, <2>6, <2>7 DEF t, s, AllDirs
<1>10. AllDirs' = all \o kids
  BY <1>4, <1>5, <1>9 DEF AllDirs
<1>11. iDirC' = Len(AllDirs')
  BY <1>1, <1>4, <1>8, <1>9, <1>10
<1>12. dataHeader'.names \in Seq(DOMAIN pInput) /\ qDirsTodo' \in Seq(DOMAIN pInput)
  <2>1. Append(s, dir) \in Seq(DOMAIN pInput)
    BY <1>1, <1>2
  <2>2. QED
    BY <1>5, <2>1, LayOutTypes
<1>13. ASSUME Countable(pInput)
       PROVE  /\ Spread(pInput, AllDirs', dataHeader'.dirs, vFilesList')
              /\ Len(dataHeader'.names) = Len(dataHeader'.dirs)
  <2>1. Spread(pInput, all, dirs, vFilesList) /\ Len(s) = Len(dirs)
    BY <1>1, <1>13
  <2>2. ToDo(all, dirs) = dir /\ Len(dirs) < Len(all)
    BY <1>9, <2>1 DEF ToDo
  <2> DEFINE more == Added(dir, names)
  <2>3. Spread(pInput, all \o kids, Append(dirs, entry), vFilesList \o more)
    <3>1. /\ subs \in Ascending(SubNames(pInput, ToDo(all, dirs)))
          /\ names \in Ascending(DOMAIN pInput[ToDo(all, dirs)])
      BY <1>3, <2>2
    <3> HIDE DEF all, dirs, dir
    <3>2. Spread(pInput, all \o Kids(ToDo(all, dirs), subs),
                 Append(dirs, NewEntry(all, dirs, vFilesList, subs, names)),
                 vFilesList \o Added(ToDo(all, dirs), names))
      BY <1>1, <1>13, <2>1, <2>2, <3>1, SpreadStep
    <3>3. QED
      BY <2>2, <3>2 DEF kids, entry
  <2>4. dirs \in Seq(DirInfo) /\ Append(dirs, entry) \in Seq(DirInfo)
    BY <2>1, <2>3 DEF Spread
  <2>5. Len(Append(dirs, entry)) = Len(dirs) + 1 /\ Len(Append(s, dir)) = Len(s) + 1
    BY <1>1, <1>2, <2>4
  <2>6. QED
    BY <1>4, <1>5, <1>6, <1>10, <2>1, <2>3, <2>5
<1>14. QED
  BY <1>1, <1>5, <1>7, <1>11, <1>12, <1>13 DEF Layout

LEMMA LayoutInvariant == Spec => []Layout
<1>1. Init => Layout
  BY DEF Init, Layout
<1>2. TypeOK /\ Queued /\ Layout /\ [Next]_vars => Layout'
  <2> SUFFICES ASSUME TypeOK, Queued, Layout, [Next]_vars PROVE Layout'
    OBVIOUS
  <2>1. ASSUME NEW t \in Trees, NEW toc \in ToCs, Scan(t, toc) PROVE Layout'
    BY <2>1, ScanSpreads
  <2>2. CASE OpenOutput
    <3>1. /\ pc = "head" /\ pc' = "dirs"
          /\ UNCHANGED <<pInput, dataHeader, qDirsTodo, iDirC, vFilesList>>
      BY <2>2 DEF OpenOutput
    <3>2. AllDirs' = AllDirs
      BY <3>1 DEF AllDirs
    <3>3. QED
      BY <3>1, <3>2 DEF Layout
  <2>3. CASE LayOutDirectory
    BY <2>3, LayOutGoesOn
  <2>4. CASE WorkerStarts \/ (\E t \in Tasks, o \in Outcomes : Compress(t, o)) \/ UNCHANGED vars
    <3>1. UNCHANGED <<pc, pInput, dataHeader, qDirsTodo, iDirC, vFilesList>>
      BY <2>4 DEF WorkerStarts, Compress, vars, createVars
    <3>2. AllDirs' = AllDirs
      BY <3>1 DEF AllDirs
    <3>3. QED
      BY <3>1, <3>2 DEF Layout
  <2>5. CASE \/ \E v \in Versions : CreateSga(v)
             \/ Creator /\ ~OpenOutput /\ ~LayOutDirectory /\ ~(\E t \in Trees, toc \in ToCs : Scan(t, toc))
    <3>1. pc' \notin {"head", "dirs", "names"}
      BY <2>5 DEF CreateSga, Creator, ScanFails, LayOutFileNames, FlushHeader,
         SubmitCompression, Collect, CollectFails, Collected, WriteMd5, WriteSize, WriteHeader, WriteDataMd5,
         ReadFails, Finalise, OpenFails, WriteFails
    <3>2. QED
      BY <3>1 DEF Layout
  <2>6. QED
    BY <2>1, <2>2, <2>3, <2>4, <2>5 DEF Next
<1>3. QED
  BY <1>1, <1>2, TypeInvariant, PTL DEF Spec

\* Once the names are laid out the header lists the files, and goes on doing so.
Settled ==
  pc \in {"flush", "submit", "collect", "md5", "size", "header"} /\ Countable(pInput) =>
    Lays(dataHeader, pInput, vFilesList)

\* Two headers that differ in their records only behind the index of the name list the same.
LEMMA LaysKept ==
  ASSUME NEW h, NEW g, NEW input, NEW files, Lays(h, input, files),
         g.dirCount = h.dirCount, g.toc = h.toc, g.dirs = h.dirs, g.names = h.names,
         \A i \in 1 .. Len(files) : g.files[i][1] = h.files[i][1] /\ g.files[i][2] = h.files[i][2]
  PROVE  Lays(g, input, files)
<1> DEFINE ids == 0 .. h.dirCount - 1
<1>1. /\ HoldsDirs(h, input) /\ files \in Seq(FilesOf(input)) /\ Len(files) \in Nat
      /\ Len(h.names) \in Nat
      /\ h.dirCount \in Nat /\ h.dirs \in Seq(DirInfo) /\ Len(h.dirs) = h.dirCount
      /\ \A id \in ids : Lists(h, id, files, input[DirName(h, id)])
  BY DEF Lays, HoldsDirs
<1>2. \A id : DirName(g, id) = DirName(h, id) /\ SubDirs(g, id) = SubDirs(h, id) /\ DirFiles(g, id) = DirFiles(h, id)
  BY DEF DirName, SubDirs, DirFiles
<1>3. HoldsDirs(g, input)
  BY <1>1, <1>2 DEF HoldsDirs
<1>4. ASSUME NEW id \in ids PROVE Lists(g, id, files, input[DirName(g, id)])
  <2> DEFINE folder == input[DirName(h, id)]
             info == h.dirs[id + 1]
             fs == DirFiles(h, id)
  <2>1. /\ info.fileBegin < Base /\ info.fileEnd < Base /\ info.fileEnd <= Len(files)
        /\ \A f \in fs : files[f + 1] = << DirName(h, id), NameOf(h, f) >> /\ NameOf(h, f) \in DOMAIN folder
        /\ \A f1, f2 \in fs : f1 < f2 => NameOf(h, f1) < NameOf(h, f2)
        /\ \A n \in DOMAIN folder : \E f \in fs : NameOf(h, f) = n
    BY <1>1 DEF Lists
  <2>2. info \in DirInfo /\ info.fileBegin \in Nat /\ info.fileEnd \in Nat
    <3>1. id + 1 \in 1 .. Len(h.dirs)
      BY <1>1
    <3>2. info \in DirInfo
      BY <1>1, <3>1
    <3> HIDE DEF info
    <3>3. QED
      BY <3>2 DEF DirInfo
  <2>3. fs = info.fileBegin .. info.fileEnd - 1
    BY DEF DirFiles
  <2> HIDE DEF info, folder
  <2>4. \A f \in fs : f + 1 \in 1 .. Len(files)
    <3>1. info.fileEnd <= Len(files) /\ Len(files) \in Nat
      BY <1>1, <2>1
    <3>2. QED
      BY <2>2, <2>3, <3>1
  <2>5. \A f \in fs : NameOf(g, f) = NameOf(h, f)
    BY <2>4 DEF NameOf, DwordAt
  <2>6. g.dirs[id + 1] = info /\ DirFiles(g, id) = fs /\ input[DirName(g, id)] = folder /\ DirName(g, id) = DirName(h, id)
    BY <1>2 DEF info, folder
  <2> HIDE DEF fs
  <2>7. QED
    BY <2>1, <2>5, <2>6 DEF Lists
<1>5. QED
  BY <1>1, <1>3, <1>4 DEF Lays

\* With the names of the files, the header in memory lists the input.
LEMMA NamesLaidOut ==
  ASSUME TypeOK, Opened, Layout, LayOutFileNames
  PROVE  Settled'
<1> DEFINE h == dataHeader'
           all == dataHeader.names
           dirs == dataHeader.dirs
<1>1. /\ pc = "names" /\ pInput \in Scanned /\ DOMAIN dataHeader = HeaderFields /\ version = 4
      /\ dataHeader.dirCount = Word(Count(pInput).dirs)
      /\ dataHeader.toc.startDir = 0 /\ dataHeader.toc.endDir = Word(Count(pInput).dirs)
      /\ all \in Seq(DOMAIN pInput) /\ qDirsTodo = <<>>
      /\ Countable(pInput) => Spread(pInput, AllDirs, dirs, vFilesList) /\ Len(all) = Len(dirs)
  BY DEF LayOutFileNames, Layout, Opened
<1>2. AllDirs = all
  BY <1>1 DEF AllDirs
<1>3. dataHeader' = [dataHeader EXCEPT
           !.files = [i \in DOMAIN vFilesList |-> FileRecord(Len(dataHeader.names) + i - 1, version)],
           !.names = @ \o [i \in DOMAIN vFilesList |-> vFilesList[i][2]]]
      /\ UNCHANGED <<vFilesList, pInput>>
  BY DEF LayOutFileNames
<1>4. /\ h.dirCount = dataHeader.dirCount /\ h.toc = dataHeader.toc /\ h.dirs = dirs
      /\ h.files = Records(Len(all), vFilesList) /\ h.names = all \o FileNames(vFilesList)
  BY <1>1, <1>3 DEF HeaderFields, Records, FileNames
<1>5. Laying(h, pInput, all, dirs, vFilesList)
  BY <1>1, <1>4 DEF Laying
<1>6. ASSUME Countable(pInput) PROVE Lays(h, pInput, vFilesList)
  <2>1. Spread(pInput, all, dirs, vFilesList) /\ Len(dirs) = Len(all)
    BY <1>1, <1>2, <1>6
  <2> HIDE DEF h, all, dirs
  <2>2. QED
    BY <1>1, <1>5, <1>6, <2>1, LaidOut
<1>7. QED
  BY <1>3, <1>6 DEF Settled

\* Filling a record in leaves the index of the name.
LEMMA CollectSettles ==
  ASSUME TypeOK, Laid, Settled, Collect
  PROVE  Settled'
<1> DEFINE c == Compressed(future[<< attempt, iFileIdx >>])
           offset == Len(fOut.data) + Len(PreData(version))
           rec == FillRecord(dataHeader.files[iFileIdx], version, offset, c)
<1>1. /\ pc = "collect" /\ DOMAIN dataHeader = HeaderFields /\ DOMAIN dataHeader.files = DOMAIN vFilesList
      /\ UNCHANGED <<pInput, vFilesList, pc>>
  BY DEF Collect, Laid
<1>2. rec[1] = dataHeader.files[iFileIdx][1] /\ rec[2] = dataHeader.files[iFileIdx][2]
  BY DEF FillRecord
<1>3. dataHeader' = [dataHeader EXCEPT !.files[iFileIdx] = FillRecord(@, version, offset, c)]
  BY DEF Collect
<1> HIDE DEF c, offset
<1>4. /\ dataHeader'.files = [dataHeader.files EXCEPT ![iFileIdx] = rec]
      /\ dataHeader'.dirCount = dataHeader.dirCount /\ dataHeader'.toc = dataHeader.toc
      /\ dataHeader'.dirs = dataHeader.dirs /\ dataHeader'.names = dataHeader.names
  BY <1>1, <1>3 DEF HeaderFields
<1> HIDE DEF rec
<1>5. 1 .. Len(vFilesList) = DOMAIN vFilesList
  BY DEF TypeOK
<1>6. \A i \in 1 .. Len(vFilesList) : /\ dataHeader'.files[i][1] = dataHeader.files[i][1]
                                      /\ dataHeader'.files[i][2] = dataHeader.files[i][2]
  BY <1>1, <1>2, <1>4, <1>5
<1>7. ASSUME Countable(pInput) PROVE Lays(dataHeader', pInput, vFilesList)
  <2>1. Lays(dataHeader, pInput, vFilesList)
    BY <1>1, <1>7 DEF Settled
  <2> DEFINE h == dataHeader
             g == dataHeader'
  <2>2. /\ g.dirCount = h.dirCount /\ g.toc = h.toc /\ g.dirs = h.dirs /\ g.names = h.names
        /\ \A i \in 1 .. Len(vFilesList) : g.files[i][1] = h.files[i][1] /\ g.files[i][2] = h.files[i][2]
    BY <1>4, <1>6
  <2>3. Lays(h, pInput, vFilesList)
    BY <2>1
  <2> HIDE DEF h, g
  <2>4. Lays(g, pInput, vFilesList)
    BY <2>2, <2>3, LaysKept
  <2>5. QED
    BY <2>4 DEF g
<1>8. QED
  BY <1>1, <1>7 DEF Settled

LEMMA SettledInvariant ==
  ASSUME 2 \notin Versions
  PROVE  Spec => []Settled
<1>1. Init => Settled
  BY DEF Init, Settled
<1>2. TypeOK /\ Progress /\ Opened /\ Layout /\ Settled /\ [Next]_vars => Settled'
  <2> SUFFICES ASSUME TypeOK, Progress, Opened, Layout, Settled, [Next]_vars PROVE Settled'
    OBVIOUS
  <2>1. CASE LayOutFileNames
    BY <2>1, NamesLaidOut
  <2>2. CASE Collect
    BY <2>2, CollectSettles DEF Progress
  <2>3. CASE FlushHeader \/ SubmitCompression \/ Collected
    BY <2>3 DEF FlushHeader, SubmitCompression, Collected, Settled
  <2>4. CASE WriteMd5 \/ WriteSize
    BY <2>4 DEF WriteMd5, WriteSize, Finalise, Settled
  <2>5. CASE WorkerStarts \/ (\E t \in Tasks, o \in Outcomes : Compress(t, o)) \/ UNCHANGED vars
    BY <2>5 DEF WorkerStarts, Compress, vars, createVars, Settled
  <2>6. CASE \/ \E v \in Versions : CreateSga(v)
             \/ \E t \in Trees, toc \in ToCs : Scan(t, toc)
             \/ ScanFails \/ OpenOutput \/ LayOutDirectory \/ CollectFails
             \/ WriteHeader \/ WriteDataMd5 \/ ReadFails \/ OpenFails \/ WriteFails
    <3>1. pc' \notin {"flush", "submit", "collect", "md5", "size", "header"}
      BY <2>6 DEF CreateSga, Scan, ScanFails, OpenOutput, LayOutDirectory, CollectFails, WriteHeader, WriteDataMd5,
         ReadFails, Finalise, OpenFails, WriteFails
    <3>2. QED
      BY <3>1 DEF Settled
  <2>7. QED
    BY <2>1, <2>2, <2>3, <2>4, <2>5, <2>6 DEF Next, Creator
<1>3. QED
  BY <1>1, <1>2, TypeInvariant, ProgressInvariant, OpenedInvariant, LayoutInvariant, PTL DEF Spec

-----------------------------------------------------------------------------
\* The contents that are collected.

\* A future of the attempt holds the content of its file, or an error.
Answers ==
  /\ pc = "submit" => iFileIdx - 1 <= MaxFiles
  /\ pc = "collect" => Len(vFilesList) <= MaxFiles
  /\ pc \in {"submit", "collect"} =>
       \A i \in 1 .. MaxFiles : i <= Len(vFilesList) => Mine(i) \in {"none", "pending", Failed, Content(i)}

\* A compression that ends answers with the content of its file or with an error.
LEMMA CompressAnswers ==
  ASSUME TypeOK, PoolCustody, Begun, Answers, NEW t \in Tasks, NEW o \in Outcomes, Compress(t, o)
  PROVE  Answers'
<1>1. /\ future' = [future EXCEPT ![t] = o] /\ UNCHANGED createVars
      /\ (t[1] = attempt /\ pc \in {"submit", "collect"} => o \in {Content(t[2]), Failed})
  BY DEF Compress, Finish
<1>2. UNCHANGED <<pc, attempt, pInput, vFilesList, iFileIdx>>
  BY <1>1 DEF createVars
<1>3. \A i : Content(i)' = Content(i)
  BY <1>2 DEF Content
<1>4. ASSUME pc \in {"submit", "collect"}, NEW i \in 1 .. MaxFiles, i <= Len(vFilesList)
      PROVE  Mine(i)' \in {"none", "pending", Failed, Content(i)}
  <2>1. << attempt, i >> \in Tasks /\ future \in [Tasks -> {"none", "pending"} \cup Outcomes]
    BY <1>4, CreateAssumption DEF Begun, TypeOK, PoolTypeOK
  <2>2. Mine(i) \in {"none", "pending", Failed, Content(i)}
    BY <1>4 DEF Answers
  <2>3. CASE t = << attempt, i >>
    <3>1. t[1] = attempt /\ t[2] = i
      BY <2>3
    <3>2. o \in {Content(i), Failed} /\ future'[<< attempt, i >>] = o
      BY <1>1, <1>4, <2>1, <2>3, <3>1
    <3>3. QED
      BY <1>2, <3>2 DEF Mine
  <2>4. CASE t # << attempt, i >>
    BY <1>1, <1>2, <2>1, <2>2, <2>4 DEF Mine
  <2>5. QED
    BY <2>3, <2>4
<1>5. QED
  BY <1>2, <1>3, <1>4 DEF Answers

LEMMA AnswersInvariant == Spec => []Answers
<1>1. Init => Answers
  BY DEF Init, Answers
<1>2. TypeOK /\ PoolCustody /\ Begun /\ Outstanding /\ Answers /\ [Next]_vars => Answers'
  <2> SUFFICES ASSUME TypeOK, PoolCustody, Begun, Outstanding, Answers, [Next]_vars PROVE Answers'
    OBVIOUS
  <2>0. MaxFiles \in Nat /\ iFileIdx \in Nat \ {0} /\ Len(vFilesList) \in Nat
        /\ future \in [Tasks -> {"none", "pending"} \cup Outcomes]
    BY CreateAssumption DEF TypeOK, PoolTypeOK
  <2>1. CASE FlushHeader
    <3>1. pc = "flush" /\ pc' = "submit" /\ UNCHANGED <<poolVars, attempt, iFileIdx, vFilesList>>
      BY <2>1 DEF FlushHeader
    <3>2. iFileIdx = 1 /\ \A i \in 1 .. MaxFiles : Mine(i) = "none"
      BY <3>1 DEF Outstanding
    <3>3. \A i \in 1 .. MaxFiles : Mine(i)' = "none"
      BY <3>1, <3>2 DEF Mine, poolVars
    <3>4. QED
      BY <2>0, <3>1, <3>2, <3>3 DEF Answers
  <2>2. CASE SubmitCompression
    <3>1. pc = "submit" /\ UNCHANGED <<attempt, pInput, vFilesList>>
      BY <2>2 DEF SubmitCompression
    <3>2. \A i : Content(i)' = Content(i)
      BY <3>1 DEF Content
    <3>3. CASE iFileIdx <= Len(vFilesList)
      <4> DEFINE t == << attempt, iFileIdx >>
      <4>1. t \in Tasks /\ Submit(t) /\ iFileIdx' = iFileIdx + 1 /\ pc' = pc
        BY <2>2, <3>3 DEF SubmitCompression
      <4>2. future' = [future EXCEPT ![t] = "pending"]
        BY <4>1 DEF Submit
      <4>3. iFileIdx \in 1 .. MaxFiles
        BY <4>1, CreateAssumption
      <4> HIDE DEF t
      <4>4. \A i \in 1 .. MaxFiles : << attempt, i >> \in Tasks
        BY <3>1, CreateAssumption DEF Begun
      <4>5. \A i \in 1 .. MaxFiles : Mine(i)' \in {Mine(i), "pending"}
        BY <2>0, <3>1, <4>2, <4>4 DEF Mine
      <4>6. QED
        BY <2>0, <3>1, <3>2, <4>1, <4>3, <4>5 DEF Answers
    <3>4. CASE ~(iFileIdx <= Len(vFilesList))
      <4>1. UNCHANGED poolVars /\ iFileIdx' = 1 /\ pc' = "collect"
        BY <2>2, <3>4 DEF SubmitCompression
      <4>2. \A i : Mine(i)' = Mine(i)
        BY <3>1, <4>1 DEF Mine, poolVars
      <4>3. Len(vFilesList) <= MaxFiles
        BY <2>0, <3>1, <3>4 DEF Answers
      <4>4. QED
        BY <3>1, <3>2, <4>1, <4>2, <4>3 DEF Answers
    <3>5. QED
      BY <3>3, <3>4
  <2>3. CASE Collect
    <3>1. pc = "collect" /\ UNCHANGED <<poolVars, pc, attempt, pInput, vFilesList>>
      BY <2>3 DEF Collect
    <3>2. \A i : Mine(i)' = Mine(i) /\ Content(i)' = Content(i)
      BY <3>1 DEF Mine, Content, poolVars
    <3>3. QED
      BY <3>1, <3>2 DEF Answers
  <2>4. CASE WorkerStarts \/ UNCHANGED vars
    <3>1. UNCHANGED <<future, pc, attempt, pInput, vFilesList, iFileIdx>>
      BY <2>4 DEF WorkerStarts, Start, vars, createVars, poolVars
    <3>2. \A i : Mine(i)' = Mine(i) /\ Content(i)' = Content(i)
      BY <3>1 DEF Mine, Content
    <3>3. QED
      BY <3>1, <3>2 DEF Answers
  <2>5. ASSUME NEW t \in Tasks, NEW o \in Outcomes, Compress(t, o) PROVE Answers'
    BY <2>5, CompressAnswers
  <2>6. CASE \/ \E v \in Versions : CreateSga(v)
             \/ Creator /\ ~FlushHeader /\ ~SubmitCompression /\ ~Collect
    <3>1. pc' \notin {"submit", "collect"}
      BY <2>6 DEF CreateSga, Creator, Scan, ScanFails, OpenOutput, LayOutDirectory, LayOutFileNames,
         CollectFails, Collected, WriteMd5, WriteSize, WriteHeader, WriteDataMd5, ReadFails, Finalise,
         OpenFails, WriteFails
    <3>2. QED
      BY <3>1 DEF Answers
  <2>7. QED
    BY <2>1, <2>2, <2>3, <2>4, <2>5, <2>6 DEF Next
<1>3. QED
  BY <1>1, <1>2, TypeInvariant, OutstandingInvariant, PTL DEF Spec

\* What a compression answers is no longer than VTell can tell.
Measured == \A t \in Tasks : future[t] \in Contents => Len(Bytes[future[t]]) < LongEnd

LEMMA MeasuredInvariant == Spec => []Measured
<1>0. "none" \notin Contents /\ "pending" \notin Contents /\ Outcomes = Contents \cup {Failed}
  BY PoolAssumption, CreateAssumption
<1>1. Init => Measured
  BY <1>0 DEF Init, PoolInit, Measured
<1>2. TypeOK /\ Measured /\ [Next]_vars => Measured'
  <2> SUFFICES ASSUME TypeOK, Measured, [Next]_vars PROVE Measured'
    OBVIOUS
  <2>0. future \in [Tasks -> {"none", "pending"} \cup Outcomes]
    BY DEF TypeOK, PoolTypeOK
  <2>1. CASE SubmitCompression
    <3>1. future' = future \/ future' = [future EXCEPT ![<< attempt, iFileIdx >>] = "pending"]
      BY <2>1 DEF SubmitCompression, Submit, poolVars
    <3>2. QED
      BY <1>0, <2>0, <3>1 DEF Measured
  <2>2. ASSUME NEW t \in Tasks, NEW o \in Outcomes, Compress(t, o) PROVE Measured'
    <3>1. future' = [future EXCEPT ![t] = o] /\ (o # Failed => Len(Bytes[o]) < LongEnd)
      BY <2>2 DEF Compress, Finish
    <3>2. o \in Contents => Len(Bytes[o]) < LongEnd
      BY <3>1, CreateAssumption
    <3>3. QED
      BY <2>0, <3>1, <3>2 DEF Measured
  <2>3. CASE UNCHANGED future
    BY <2>3 DEF Measured
  <2>4. QED
    <3>1. SubmitCompression \/ (\E t \in Tasks, o \in Outcomes : Compress(t, o)) \/ UNCHANGED future
      BY DEF Next, Creator, CreateSga, Scan, ScanFails, OpenOutput, LayOutDirectory, LayOutFileNames, FlushHeader,
         Collect, CollectFails, Collected, WriteMd5, WriteSize, WriteHeader, WriteDataMd5, ReadFails, Finalise,
         OpenFails, WriteFails, WorkerStarts, Start, vars, poolVars
    <3>2. QED
      BY <3>1, <2>1, <2>2, <2>3
<1>3. QED
  BY <1>1, <1>2, TypeInvariant, PTL DEF Spec

-----------------------------------------------------------------------------
\* The first n - 1 files are in the output file where their records say.
Kept(n) == \A i \in 1 .. Len(vFilesList) : i < n => Stored(dataHeader.files[i], fOut.data, Content(i))

\* A double word can count the data.
Roomy(file) == Len(file.data) < Base * Base

\* What was collected is in the file, as long as the format can say where and none was lost.
Appended ==
  /\ pc = "collect" /\ Countable(pInput) /\ Roomy(fOut) => Kept(iFileIdx)
  /\ pc \in {"md5", "size", "header"} /\ ~lost /\ Countable(pInput) /\ Roomy(fOut) => Kept(Len(vFilesList) + 1)

\* The content of a file of the list is one of the tree's.
LEMMA ListedContent ==
  ASSUME NEW input \in Scanned, NEW files \in Seq(FilesOf(input)), NEW i \in 1 .. Len(files)
  PROVE  input[files[i][1]][files[i][2]] \in Contents
<1>1. files[i] \in FilesOf(input)
  OBVIOUS
<1>2. PICK d \in DOMAIN input : \E n \in DOMAIN input[d] : files[i] = << d, n >>
  BY <1>1 DEF FilesOf
<1>3. PICK n \in DOMAIN input[d] : files[i] = << d, n >>
  BY <1>2
<1>4. input[d][n] \in Contents
  BY ScannedTree DEF Tree
<1>5. input[files[i][1]][files[i][2]] = input[d][n]
  BY <1>3
<1>6. QED
  BY <1>4, <1>5

\* What is appended stays where it is when more follows, the bytes before it included.
LEMMA StoredStaysTwice ==
  ASSUME NEW r, NEW data \in Seq(Blob), NEW a \in Seq(Blob), NEW b \in Seq(Blob), NEW c \in Contents, Stored(r, data, c)
  PROVE  Stored(r, data \o a \o b, c)
<1>1. data \o a \in Seq(Blob)
  BY ConcatProperties
<1>2. Stored(r, data \o a, c)
  BY StoredStays
<1>3. QED
  BY <1>1, <1>2, StoredStays

\* Collecting a file keeps those that were collected and adds it to them.
LEMMA CollectKeeps ==
  ASSUME TypeOK, Progress, Begun, Opened, Settled, Answers, Measured, Kept(iFileIdx), Collect,
         Countable(pInput), Roomy(fOut)'
  PROVE  Kept(iFileIdx)'
<1> DEFINE t == << attempt, iFileIdx >>
           c == Content(iFileIdx)
           data == fOut.data
           kept == Compressed(c).data
           rec == FillRecord(dataHeader.files[iFileIdx], 4, Len(data) + Len(PreData(4)), Compressed(c))
<1>1. /\ pc = "collect" /\ version = 4 /\ pInput \in Scanned /\ data \in Seq(Blob)
      /\ DOMAIN dataHeader = HeaderFields /\ DOMAIN dataHeader.files = DOMAIN vFilesList
      /\ DOMAIN fOut = FileFields
      /\ UNCHANGED <<pInput, vFilesList>> /\ iFileIdx' = iFileIdx + 1
      /\ iFileIdx <= Len(vFilesList) /\ iFileIdx \in Nat \ {0} /\ Len(vFilesList) \in Nat
      /\ DOMAIN vFilesList = 1 .. Len(vFilesList)
  BY DEF Collect, Opened, Making, Progress, Laid, TypeOK
<1>2. iFileIdx \in 1 .. Len(vFilesList) /\ iFileIdx \in 1 .. MaxFiles
  BY <1>1, CreateAssumption DEF Answers
<1>3. future[t] = c
  <2>1. future[t] \in Contents
    BY CollectAppends
  <2>2. Mine(iFileIdx) \in {"none", "pending", Failed, c}
    BY <1>1, <1>2 DEF Answers
  <2>3. "none" \notin Outcomes /\ "pending" \notin Outcomes /\ Failed \notin Contents /\ Contents \subseteq Outcomes
    BY PoolAssumption, CreateAssumption
  <2>4. QED
    BY <2>1, <2>2, <2>3 DEF Mine
<1>4. Lays(dataHeader, pInput, vFilesList)
  BY <1>1 DEF Settled
<1>5. \A i \in 1 .. Len(vFilesList) : Content(i) \in Contents
  BY <1>1, <1>4, ListedContent DEF Lays, Content
<1>6. fOut'.data = data \o PreData(4) \o kept
  <2>1. fOut'.data = fOut.data \o PreData(version) \o Compressed(future[t]).data
    BY CollectAppends
  <2>2. QED
    BY <1>1, <1>3, <2>1
<1>7. dataHeader'.files = [dataHeader.files EXCEPT ![iFileIdx] = rec]
  <2>1. dataHeader' = [dataHeader EXCEPT !.files[iFileIdx] =
                        FillRecord(@, version, Len(fOut.data) + Len(PreData(version)), Compressed(future[t]))]
    BY DEF Collect
  <2>2. QED
    BY <1>1, <1>3, <2>1 DEF HeaderFields
<1>8. \A i : Content(i)' = Content(i)
  BY <1>1 DEF Content
<1>9. kept \in Seq(Blob) /\ PreData(4) \in Seq(Blob)
  <2>1. c \in Contents
    BY <1>2, <1>5
  <2>2. kept \in Seq(Octets)
    BY <2>1, CompressedType
  <2>3. QED
    BY <2>2, BlobHolds DEF PreData, Blob
<1>10. Stored(rec, fOut'.data, c)
  <2>0. c \in Contents /\ Len(Bytes[c]) < LongEnd
    <3>1. c \in Contents
      BY <1>2, <1>5
    <3>2. t \in Tasks
      BY <1>1, <1>2, CreateAssumption DEF Begun
    <3>3. QED
      BY <1>3, <3>1, <3>2 DEF Measured
  <2>1. c \in Contents /\ Len(Bytes[c]) < Base * Base
    <3> DEFINE n == Len(Bytes[c])
               square == Base * Base
    <3>1. n \in Nat /\ square \in Nat /\ n < square \div 2
      BY <2>0, CompressedType, SgaAssumption DEF LongEnd
    <3> HIDE DEF n, square
    <3>2. n < square
      BY <3>1
    <3>3. QED
      BY <2>0, <3>2 DEF n, square
  <2>2. Len(data \o PreData(4) \o kept) < Base * Base
    BY <1>6 DEF Roomy
  <2> DEFINE r == dataHeader.files[iFileIdx]
  <2> HIDE DEF c, data, r
  <2>3. Stored(FillRecord(r, 4, Len(data) + Len(PreData(4)), Compressed(c)),
               data \o PreData(4) \o Compressed(c).data, c)
    BY <1>1, <2>1, <2>2, FilledIsStored
  <2>4. QED
    BY <1>6, <2>3 DEF r
<1> HIDE DEF rec, kept, c, t, data
<1>11. ASSUME NEW i \in 1 .. Len(vFilesList), i < iFileIdx + 1
       PROVE  Stored(dataHeader'.files[i], fOut'.data, Content(i))
  <2>1. CASE i = iFileIdx
    <3>1. dataHeader'.files[i] = rec
      BY <1>1, <1>2, <1>7, <2>1
    <3>2. QED
      BY <1>10, <2>1, <3>1 DEF c
  <2>2. CASE i # iFileIdx
    <3>1. i < iFileIdx /\ dataHeader'.files[i] = dataHeader.files[i]
      BY <1>1, <1>7, <1>11, <2>2
    <3>2. Stored(dataHeader.files[i], data, Content(i))
      BY <3>1 DEF Kept, data
    <3>3. Content(i) \in Contents
      BY <1>5
    <3> DEFINE r == dataHeader.files[i]
               k == Content(i)
    <3>4. Stored(r, data, k) /\ k \in Contents
      BY <3>2, <3>3
    <3> HIDE DEF r, k
    <3>5. Stored(r, data \o PreData(4) \o kept, k)
      BY <1>1, <1>9, <3>4, StoredStaysTwice
    <3>6. QED
      BY <1>6, <3>1, <3>5 DEF r, k
  <2>3. QED
    BY <2>1, <2>2
<1>12. QED
  BY <1>1, <1>8, <1>11 DEF Kept

LEMMA AppendedInvariant ==
  ASSUME 2 \notin Versions
  PROVE  Spec => []Appended
<1>1. Init => Appended
  BY DEF Init, Appended
<1>2. TypeOK /\ Progress /\ Begun /\ Opened /\ Settled /\ Answers /\ Measured /\ Appended /\ [Next]_vars => Appended'
  <2> SUFFICES ASSUME TypeOK, Progress, Begun, Opened, Settled, Answers, Measured, Appended, [Next]_vars
               PROVE  Appended'
    OBVIOUS
  <2>0. iFileIdx \in Nat \ {0} /\ Len(vFilesList) \in Nat
    BY DEF TypeOK
  <2>1. CASE SubmitCompression
    <3>1. pc = "submit" /\ (pc' = "submit" \/ (pc' = "collect" /\ iFileIdx' = 1))
      BY <2>1 DEF SubmitCompression
    <3>2. pc' = "collect" => Kept(iFileIdx)'
      BY <3>1 DEF Kept
    <3>3. QED
      BY <3>1, <3>2 DEF Appended
  <2>2. CASE Collect
    <3>1. pc = "collect" /\ pc' = "collect" /\ UNCHANGED pInput
      BY <2>2 DEF Collect
    <3>2. ASSUME Roomy(fOut)' PROVE Roomy(fOut)
      <4> DEFINE c == Compressed(future[<< attempt, iFileIdx >>]).data
                 p == PreData(version)
      <4>1. fOut'.data = fOut.data \o p \o c /\ fOut.data \in Seq(Blob) /\ future[<< attempt, iFileIdx >>] \in Contents
            /\ version = 4
        BY <2>2, <3>1, CollectAppends DEF Opened, Making
      <4>2. c \in Seq(Blob) /\ p \in Seq(Blob)
        BY <4>1, CompressedType, BlobHolds DEF PreData, Blob
      <4> HIDE DEF c, p
      <4>3. Len(fOut.data) <= Len(fOut'.data) /\ Len(fOut.data) \in Nat /\ Len(fOut'.data) \in Nat
        BY <4>1, <4>2, ConcatProperties
      <4> DEFINE limit == Base * Base
      <4>4. limit \in Nat
        BY SgaAssumption
      <4>5. Len(fOut'.data) < limit
        BY <3>2 DEF Roomy
      <4> HIDE DEF limit
      <4>6. Len(fOut.data) < limit
        BY <4>3, <4>4, <4>5
      <4>7. QED
        BY <4>6 DEF Roomy, limit
    <3>3. QED
      BY <2>2, <3>1, <3>2, CollectKeeps DEF Appended
  <2>3. CASE Collected
    <3>1. /\ pc = "collect" /\ pc' = "md5" /\ iFileIdx > Len(vFilesList)
          /\ UNCHANGED <<pInput, vFilesList, dataHeader, fOut, lost>>
      BY <2>3 DEF Collected
    <3>2. \A i : Content(i)' = Content(i)
      BY <3>1 DEF Content
    <3>3. Kept(iFileIdx) => Kept(Len(vFilesList) + 1)'
      BY <2>0, <3>1, <3>2 DEF Kept
    <3>4. QED
      BY <3>1, <3>3 DEF Appended
  <2>4. CASE WriteMd5 \/ WriteSize
    <3>1. pc \in {"md5", "size"}
      BY <2>4 DEF WriteMd5, WriteSize, Finalise
    <3>2. DOMAIN fOut = FileFields
      BY <3>1 DEF Opened, Making
    <3>3. /\ pc' \in {"size", "header"} /\ UNCHANGED <<pInput, vFilesList, dataHeader>>
          /\ ~lost' => ~lost /\ fOut'.data = fOut.data
      BY <2>4, <3>2, Md5Written, SizeWritten
    <3>4. \A i : Content(i)' = Content(i)
      BY <3>3 DEF Content
    <3>5. ~lost' /\ Kept(Len(vFilesList) + 1) => Kept(Len(vFilesList) + 1)'
      BY <3>3, <3>4 DEF Kept
    <3>6. ~lost' /\ Roomy(fOut)' => Roomy(fOut)
      BY <3>3 DEF Roomy
    <3>7. QED
      BY <3>1, <3>3, <3>5, <3>6 DEF Appended
  <2>5. CASE WorkerStarts \/ (\E t \in Tasks, o \in Outcomes : Compress(t, o)) \/ UNCHANGED vars
    <3>1. UNCHANGED <<pc, iFileIdx, pInput, vFilesList, dataHeader, fOut, lost>>
      BY <2>5 DEF WorkerStarts, Compress, vars, createVars
    <3>2. \A i : Content(i)' = Content(i)
      BY <3>1 DEF Content
    <3>3. QED
      BY <3>1, <3>2 DEF Appended, Kept
  <2>6. CASE \/ \E v \in Versions : CreateSga(v)
             \/ Creator /\ ~SubmitCompression /\ ~Collect /\ ~Collected /\ ~WriteMd5 /\ ~WriteSize
    <3>1. pc' \notin {"collect", "md5", "size", "header"}
      BY <2>6 DEF CreateSga, Creator, Scan, ScanFails, OpenOutput, LayOutDirectory, LayOutFileNames, FlushHeader,
         CollectFails, WriteHeader, WriteDataMd5, ReadFails, Finalise, OpenFails, WriteFails
    <3>2. QED
      BY <3>1 DEF Appended
  <2>7. QED
    BY <2>1, <2>2, <2>3, <2>4, <2>5, <2>6 DEF Next
<1>3. QED
  BY <1>1, <1>2, TypeInvariant, ProgressInvariant, OutstandingInvariant, OpenedInvariant, SettledInvariant,
     AnswersInvariant, MeasuredInvariant, PTL DEF Spec

-----------------------------------------------------------------------------
\* What is accepted is complete.

\* Whatever a reader accepts, and the words of the format can count, is complete; if nothing of
\* it was lost, and double words count what it takes, it is sound.
Acceptable ==
  Loads(fOut) /\ Countable(packed) =>
    /\ Complete(fOut, packed)
    /\ ~lost /\ Addressable(fOut) => Sound(fOut, packed)

\* With the header in memory, the file that is written last is complete.
LEMMA FinalIsComplete ==
  ASSUME Opened, Settled, Appended, pc \in {"size", "header"}, Countable(pInput),
         NEW file, file.version = 4, file.data = fOut.data, file.header = dataHeader
  PROVE  Complete(file, pInput) /\ (~lost /\ Addressable(file) => Sound(file, pInput))
<1>1. pInput \in Scanned /\ fOut.data \in Seq(Blob)
  BY DEF Opened, Making
<1>2. Lays(file.header, pInput, vFilesList)
  BY DEF Settled
<1>3. Complete(file, pInput)
  BY <1>2, LaidIsComplete
<1>4. ASSUME ~lost, Addressable(file) PROVE Sound(file, pInput)
  <2>1. Len(file.header.names) \in Nat /\ vFilesList \in Seq(FilesOf(pInput)) /\ Len(vFilesList) \in Nat
    BY <1>2 DEF Lays
  <2>2. Roomy(fOut)
    <3> DEFINE limit == Base * Base
               n == Len(fOut.data)
               m == DataOffset(file.header)
    <3>0. limit \in Nat /\ n \in Nat /\ m \in Nat
      BY <1>1, <2>1, SgaAssumption DEF DataOffset
    <3>1. limit \in Nat /\ n \in Nat /\ m \in Nat /\ m + n < limit
      BY <1>4, <3>0 DEF Addressable
    <3> HIDE DEF limit, n, m
    <3>2. n < limit
      BY <3>1
    <3>3. QED
      BY <3>2 DEF Roomy, limit, n
  <2>3. Kept(Len(vFilesList) + 1)
    BY <1>4, <2>2 DEF Appended
  <2>4. \A i \in 1 .. Len(vFilesList) :
          Stored(file.header.files[i], file.data, pInput[vFilesList[i][1]][vFilesList[i][2]])
    BY <2>1, <2>3 DEF Kept, Content
  <2>5. Tree(pInput)
    BY <1>1, ScannedTree
  <2>6. QED
    BY <1>1, <1>2, <1>4, <2>4, <2>5, StoredIsSound
<1>5. QED
  BY <1>3, <1>4

\* The file becomes acceptable when its size or its header is written, and is complete then.
LEMMA AcceptableInvariant ==
  ASSUME 2 \notin Versions
  PROVE  Spec => []Acceptable
<1>1. Init => Acceptable
  BY DEF Init, Acceptable, NoFile, Loads
<1>2. TypeOK /\ Progress /\ Checked /\ Opened /\ Settled /\ Appended /\ Acceptable /\ [Next]_vars => Acceptable'
  <2> SUFFICES ASSUME TypeOK, Progress, Checked, Opened, Settled, Appended, Acceptable, [Next]_vars,
                      Loads(fOut)', Countable(packed)'
               PROVE  Complete(fOut, packed)' /\ (~lost' /\ Addressable(fOut)' => Sound(fOut, packed)')
    BY DEF Acceptable
  <2>1. CASE OpenOutput
    BY <2>1 DEF OpenOutput, Loads
  <2>2. CASE FlushHeader
    BY <2>2 DEF FlushHeader, Loads, Progress, Unsized, FileFields
  <2>3. CASE Collect
    BY <2>3 DEF Collect, Loads, Progress, Unsized, FileFields
  <2>4. CASE WriteMd5
    <3>1. DOMAIN fOut = FileFields /\ fOut.sized = FALSE
      BY <2>4 DEF WriteMd5, Finalise, Progress, Unsized
    <3>2. QED
      BY <2>4, <3>1, Md5Written DEF Loads
  <2>5. CASE WriteSize
    <3>1. /\ pc = "size" /\ fOut.md5 = Md5(dataHeader) /\ fOut.sized = FALSE
          /\ packed = pInput /\ fOut.version = 4 /\ DOMAIN fOut = FileFields
      BY <2>5 DEF WriteSize, Finalise, Checked, Opened, Making, Progress, Unsized
    <3>2. /\ UNCHANGED <<pInput, packed>> /\ fOut'.md5 = fOut.md5 /\ fOut'.header = fOut.header
          /\ fOut'.data = fOut.data /\ fOut'.version = 4 /\ (~lost' => ~lost)
      BY <2>5, <3>1, SizeWritten DEF Loads
    <3>3. fOut'.header = dataHeader
      BY <3>1, <3>2 DEF Loads, Md5
    <3> DEFINE file == fOut'
    <3>4. file.version = 4 /\ file.data = fOut.data /\ file.header = dataHeader /\ Countable(pInput)
      BY <3>1, <3>2, <3>3
    <3> HIDE DEF file
    <3>5. Complete(file, pInput) /\ (~lost /\ Addressable(file) => Sound(file, pInput))
      BY <3>1, <3>4, FinalIsComplete
    <3>6. QED
      BY <3>1, <3>2, <3>5 DEF file
  <2>6. CASE WriteHeader
    <3>1. pc = "header" /\ packed = pInput /\ fOut.version = 4 /\ DOMAIN fOut = FileFields
      BY <2>6 DEF WriteHeader, Finalise, Opened, Making
    <3>2. /\ UNCHANGED <<pInput, packed>> /\ fOut'.data = fOut.data /\ fOut'.version = 4 /\ (~lost' => ~lost)
          /\ fOut'.header = dataHeader \/ fOut' = fOut
      BY <2>6, <3>1, HeaderWritten
    <3>3. CASE fOut'.header = dataHeader
      <4> DEFINE file == fOut'
      <4>1. file.version = 4 /\ file.data = fOut.data /\ file.header = dataHeader /\ Countable(pInput)
        BY <3>1, <3>2, <3>3
      <4> HIDE DEF file
      <4>2. Complete(file, pInput) /\ (~lost /\ Addressable(file) => Sound(file, pInput))
        BY <3>1, <4>1, FinalIsComplete
      <4>3. QED
        BY <3>1, <3>2, <4>2 DEF file
    <3>4. CASE fOut' = fOut
      BY <3>2, <3>4 DEF Acceptable
    <3>5. QED
      BY <3>2, <3>3, <3>4
  <2>7. CASE UNCHANGED <<fOut, packed>> /\ (~lost' => ~lost)
    BY <2>7 DEF Acceptable
  <2>8. CASE OpenFails
    <3>1. UNCHANGED <<lost, packed>> /\ fOut' \in {fOut, NoFile}
      BY <2>8 DEF OpenFails
    <3>2. fOut' = fOut
      BY <3>1 DEF NoFile, Loads
    <3>3. QED
      BY <3>1, <3>2, <2>7
  <2>9. CASE WriteDataMd5 \/ ReadFails
    BY <2>9, <2>7, DataMd5Written
  <2>10. QED
    <3>1. \/ OpenOutput \/ FlushHeader \/ Collect \/ WriteMd5 \/ WriteSize \/ WriteHeader \/ OpenFails
          \/ WriteDataMd5 \/ ReadFails
          \/ UNCHANGED <<fOut, packed>> /\ (~lost' => ~lost)
      BY DEF Next, Creator, CreateSga, Scan, ScanFails, LayOutDirectory, LayOutFileNames, SubmitCompression,
         CollectFails, Collected, WriteFails, WorkerStarts, Compress, vars, createVars
    <3>2. QED
      BY <3>1, <2>1, <2>2, <2>3, <2>4, <2>5, <2>6, <2>7, <2>8, <2>9
<1>3. QED
  BY <1>1, <1>2, TypeInvariant, ProgressInvariant, CheckedInvariant, OpenedInvariant, SettledInvariant,
     AppendedInvariant, PTL DEF Spec

\* A complete archive is of a scanned directory: it has a root.
LEMMA CompleteIsScanned ==
  ASSUME TypeOK, Complete(fOut, packed)
  PROVE  packed \in Scanned
<1>1. <<>> \in DOMAIN packed
  <2>1. 0 \in 0 .. fOut.header.dirCount - 1 /\ DirName(fOut.header, 0) = <<>>
    BY SgaAssumption DEF Complete, HoldsDirs
  <2>2. QED
    BY <2>1 DEF Complete, HoldsDirs
<1>2. packed # <<>>
  BY <1>1
<1>3. QED
  BY <1>2 DEF TypeOK, Scanned

\* In a complete and sound archive the lookups in a directory that is told apart agree.
LEMMA LookupsFind ==
  ASSUME NEW file, NEW input, Tree(input), Complete(file, input), Sound(file, input),
         NEW toc, FindsToC(file, toc), NEW d \in DOMAIN input, ToldApart(d, input)
  PROVE  FindsPacked(file, toc, input, d)
<1>1. PICK id \in 0 .. file.header.dirCount - 1 : DirName(file.header, id) = d
  BY DEF Complete, HoldsDirs
<1>2. ASSUME NEW n \in Names
      PROVE  VOpenStream(file, toc, d, n) \subseteq
               IF Lower(n) \in DOMAIN input[d] THEN Readings(file, input[d][Lower(n)]) ELSE {Missing}
  <2>1. ToldApart(DirName(file.header, id), input)
    BY <1>1
  <2>2. VOpenStream(file, toc, DirName(file.header, id), n) \subseteq
          IF Lower(n) \in DOMAIN input[DirName(file.header, id)]
          THEN Readings(file, input[DirName(file.header, id)][Lower(n)]) ELSE {Missing}
    BY <2>1, Opens
  <2>3. QED
    BY <1>1, <2>2
<1>3. QED
  BY <1>2 DEF FindsPacked

\* At every moment, also while the next archive is being made, wherever the last one failed and
\* whatever a write lost unseen, what CSgaFile::Load accepts lists the files that were packed,
\* each under its directory, and nothing else.  If nothing was lost, each of them opens with its
\* content, where no other directory has its checksum: or, in an archive that reaches beyond
\* what a signed seek can, with an error.
THEOREM LoadableIsWhole ==
  ASSUME 2 \notin Versions
  PROVE  Spec => []LoadableIsComplete
<1>1. TypeOK /\ Acceptable => LoadableIsComplete
  <2> SUFFICES ASSUME TypeOK, Acceptable, Loads(fOut), Countable(packed)
               PROVE  /\ Walk(fOut) = UNION {{<< d, n >> : n \in DOMAIN packed[d]} : d \in DOMAIN packed}
                      /\ ~lost /\ Addressable(fOut) =>
                           \A d \in DOMAIN packed :
                             ToldApart(d, packed) => FindsPacked(fOut, ParentToC(fOut), packed, d)
    BY DEF LoadableIsComplete
  <2>1. Complete(fOut, packed)
    BY DEF Acceptable
  <2>2. Tree(packed)
    BY <2>1, CompleteIsScanned, ScannedTree
  <2>3. Walk(fOut) = UNION {Packed(packed, d) : d \in DOMAIN packed}
    BY <2>1, WalkLists
  <2>4. ASSUME ~lost, Addressable(fOut), NEW d \in DOMAIN packed, ToldApart(d, packed)
        PROVE  FindsPacked(fOut, ParentToC(fOut), packed, d)
    <3>1. Sound(fOut, packed)
      BY <2>4 DEF Acceptable
    <3>2. FindsToC(fOut, ParentToC(fOut))
      BY <2>1 DEF Complete, FindsToC, ParentToC
    <3>3. QED
      BY <2>1, <2>2, <2>4, <3>1, <3>2, LookupsFind
  <2>5. QED
    BY <2>3, <2>4 DEF Packed
<1>2. QED
  BY <1>1, TypeInvariant, AcceptableInvariant, PTL

\* An archive whose making ended well and lost nothing is one that CSgaFile::Load accepts, and
\* in a directory whose checksum no other has VOpenStream finds every file, in any spelling of
\* its name, with the content that was packed, or, beyond what a signed seek reaches, with an
\* error; what was not packed is reported as missing.
THEOREM EveryFileIsFound ==
  ASSUME 2 \notin Versions
  PROVE  Spec => []LookupsAgree
<1>1. TypeOK /\ Opened /\ Acceptable => LookupsAgree
  <2> SUFFICES ASSUME TypeOK, Opened, Acceptable, pc = "done", ~lost
               PROVE  /\ Loads(fOut)
                      /\ Countable(packed) /\ Addressable(fOut) =>
                           \A d \in DOMAIN packed :
                             ToldApart(d, packed) => FindsPacked(fOut, fOut.header.toc.alias, packed, d)
    BY DEF LookupsAgree
  <2>1. Loads(fOut)
    BY DEF Opened, Making, Loads
  <2>2. ASSUME Countable(packed), Addressable(fOut), NEW d \in DOMAIN packed, ToldApart(d, packed)
        PROVE  FindsPacked(fOut, fOut.header.toc.alias, packed, d)
    <3>1. Complete(fOut, packed) /\ Sound(fOut, packed) /\ Tree(packed)
      BY <2>1, <2>2, CompleteIsScanned, ScannedTree DEF Acceptable
    <3> DEFINE toc == fOut.header.toc.alias
    <3>2. FindsToC(fOut, toc)
      BY DEF FindsToC
    <3> HIDE DEF toc
    <3>3. FindsPacked(fOut, toc, packed, d)
      BY <2>2, <3>1, <3>2, LookupsFind
    <3>4. QED
      BY <3>3 DEF toc
  <2>3. QED
    BY <2>1, <2>2
<1>2. QED
  BY <1>1, TypeInvariant, OpenedInvariant, AcceptableInvariant, PTL
=============================================================================
