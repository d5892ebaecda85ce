------------------------------- MODULE SgaFile -------------------------------
(***************************************************************************)
(* rainman/archive/CSgaFile: how a Relic SGA archive is read.  An archive  *)
(* is a file head (magic, version, checksum and size of the data header),  *)
(* a data header (counts, one table of contents, directories, file records *)
(* and names) and the data of the files.  All indices and counts are words *)
(* of 16 bits, all offsets and lengths double words; the width is a        *)
(* parameter.  A file record is kept as its words, because the reader and  *)
(* the writer lay their own structures over them.                          *)
(*                                                                         *)
(* A name is a number: 1 .. MaxLetter in upper case, the same plus         *)
(* MaxLetter in lower case, ordered as strcmp orders them.  A path is a    *)
(* sequence of names.  Indices are those of the code, from 0.              *)
(***************************************************************************)
EXTENDS Naturals, Sequences, SequencesExt

CONSTANTS
  Base,       \* how many values a word has: 2^16 in the file format
  MaxLetter,
  HeadSize,   \* what precedes the tables of the data header, in octets
  Paths,      \* the directories an archive may hold
  Crc,        \* crc32_case_idt of such a directory: not every two are told apart by it
  Contents,   \* what a file may hold
  Octets,
  Bytes,      \* the bytes of it
  Deflated    \* and what zlib's compress2 makes of them, which uncompress undoes

Names == 1 .. 2 * MaxLetter

ASSUME SgaAssumption ==
  /\ Base \in Nat /\ Base > 3
  /\ MaxLetter \in Nat
  /\ Paths \subseteq Seq(Names)
  /\ Crc \in [Paths -> Nat]
  /\ HeadSize \in Nat /\ HeadSize > 2
  /\ Bytes \in [Contents -> Seq(Octets)] /\ Deflated \in [Contents -> Seq(Octets)]
  /\ \A c, d \in Contents : Deflated[c] = Deflated[d] => Bytes[c] = Bytes[d]

Lower(name) == IF name <= MaxLetter THEN name + MaxLetter ELSE name
LowerPath(path) == [i \in DOMAIN path |-> Lower(path[i])]

\* A word; a double word is its lower and its higher word.
Word(n) == n % Base
High(n) == Word(n \div Base)
DwordAt(words, i) == words[i] + Base * words[i + 1]

Md5(header) == << "md5", header >>
NoMd5 == << "-BUFFER FOR MD5-" >>
NoFile == [magic |-> FALSE]

\* m_SgaHeader.iDataOffset: where the data of the files begin.  The entry and the name of a
\* directory or file count as one octet each.
DataOffset(h) == HeadSize + 2 * Len(h.names)

\* The first number a signed long of 32 bits cannot hold; fseek and ftell take and give such.
LongEnd == (Base * Base) \div 2

-----------------------------------------------------------------------------
\* CSgaFile::Load.  A data header of the wrong size has another checksum.

Loads(file) ==
  /\ file.magic
  /\ file.version \in {2, 4}
  /\ file.version = 4 => file.platform = 1
  /\ file.sized
  /\ file.md5 = Md5(file.header)

\* The records of files, as version 2 (_SgaFileInfo) and 4 (_SgaFileInfo4) lay them out.
FileInfo2(w) ==
  [name |-> DwordAt(w, 1), offset |-> DwordAt(w, 5), compressed |-> DwordAt(w, 7), length |-> DwordAt(w, 9)]

FileInfo4(w) ==
  [name |-> DwordAt(w, 1), offset |-> DwordAt(w, 3), compressed |-> DwordAt(w, 5), length |-> DwordAt(w, 7)]

FileInfo(file, id) ==
  IF file.version = 2 THEN FileInfo2(file.header.files[id + 1]) ELSE FileInfo4(file.header.files[id + 1])

FileName(file, id) == file.header.names[FileInfo(file, id).name + 1]
DirName(h, id) == h.names[h.dirs[id + 1].name + 1]

\* m_pSgaDirHashMap: the directories in the order of their checksums.  std::sort leaves those
\* of equal checksum in any order, here that of the table.
DirHashMap(h) ==
  LET ids == 0 .. h.dirCount - 1
      crc(id) == Crc[DirName(h, id)]
      before(a, b) == crc(a) < crc(b) \/ (crc(a) = crc(b) /\ a < b)
      rank(id) == Cardinality({other \in ids : before(other, id)})
  IN  [i \in ids |-> CHOOSE id \in ids : rank(id) = i]

-----------------------------------------------------------------------------
\* CSgaFile::VOpenStream

Missing == << "File could not be found" >>
Unreadable == << "Cannot read" >>
Undefined == << "index out of range" >>
Foreign == << "bytes of the header" >>
NotFound == Base   \* no index of 16 bits

\* A version 4 archive answers to any table of four letters, such as Data.
FindsToC(file, toc) == file.header.toc.alias = toc \/ (file.version = 4 /\ toc = "data")

\* Both binary searches: for the key among the rising at[first] .. at[last - 1].
Bisect(key, at, first, last) ==
  LET search[range \in (0 .. Base) \X (0 .. Base)] ==
        LET lo == range[1]
            hi == range[2]
            mid == (lo + hi) \div 2
        IN  IF hi <= lo THEN NotFound
            ELSE IF key < at[mid] THEN search[<< lo, mid >>]
            ELSE IF key > at[mid] THEN search[<< mid + 1, hi >>]
            ELSE mid
  IN  search[<< first, last >>]

\* The directories the search by checksum may come to: any of those that have it.  A failure is
\* not noticed (iDirID is unsigned and never -1): the caller goes on with an index outside the
\* table.
FindDir(h, path) ==
  LET map == DirHashMap(h)
      key == Crc[LowerPath(path)]
      crcs == [i \in DOMAIN map |-> Crc[DirName(h, map[i])]]
  IN  IF path = <<>> THEN {h.toc.startDir}
      ELSE IF Bisect(key, crcs, h.toc.startDir, h.toc.endDir) = NotFound THEN {Base - 1}
      ELSE {id \in DOMAIN map : Crc[DirName(h, id)] = key}

\* The file among those of the directory, with stricmp.
FindFile(file, dir, name) ==
  LET d == file.header.dirs[dir + 1]
      names == [id \in d.fileBegin .. d.fileEnd - 1 |-> Lower(FileName(file, id))]
  IN  Bisect(Lower(name), names, d.fileBegin, d.fileEnd)

\* zlib's uncompress, into a buffer of the given length.
Inflate(raw, length) ==
  LET whole == {c \in Contents : Deflated[c] = raw /\ Len(Bytes[c]) <= length}
  IN  IF whole = {} THEN Unreadable ELSE Bytes[CHOOSE c \in whole : TRUE]

\* Name and checksum precede the data of a file, in version 2 a date as well.
PreDataSize(v) == IF v = 2 THEN 3 ELSE 2

\* The place of what precedes the data, as a double word and then a signed long: from LongEnd
\* on VSeek fails, past the end VRead does.  Offsets that do not fit lead into the header.
ReadData(file, id) ==
  LET info == FileInfo(file, id)
      pre == PreDataSize(file.version)
      start == DataOffset(file.header)
      at == (start + info.offset - pre) % (Base * Base)
      first == at + pre - start
      raw == SubSeq(file.data, first + 1, first + info.compressed)
  IN  IF at >= LongEnd \/ at + pre + info.compressed > start + Len(file.data) THEN Unreadable
      ELSE IF at + pre < start THEN Foreign
      ELSE IF info.compressed # info.length THEN Inflate(raw, info.length)
      ELSE raw

\* Whatever opening a file may give: the directories of equal checksum leave a choice.
VOpenStream(file, toc, path, name) ==
  LET open(dir) ==
        IF dir + 1 \notin DOMAIN file.header.dirs THEN Undefined
        ELSE IF FindFile(file, dir, name) = NotFound THEN Missing
        ELSE ReadData(file, FindFile(file, dir, name))
  IN  IF ~FindsToC(file, toc) THEN {Missing} ELSE {open(dir) : dir \in FindDir(file.header, path)}

-----------------------------------------------------------------------------
\* CSgaFile::CIterator, from the directory VIterate finds: directories first, then files.

SubDirs(h, dir) == h.dirs[dir + 1].subBegin .. (h.dirs[dir + 1].subEnd - 1)
DirFiles(h, dir) == h.dirs[dir + 1].fileBegin .. (h.dirs[dir + 1].fileEnd - 1)

\* The paths of version 4 archives begin with Data, whatever their table is called.
ParentToC(file) == IF file.version = 4 THEN "data" ELSE file.header.toc.alias

\* What a walk of the archive lists.
Walk(file) ==
  LET walk[dir \in 0 .. Len(file.header.dirs) - 1] ==
        {<< DirName(file.header, dir), FileName(file, f) >> : f \in DirFiles(file.header, dir)}
        \cup UNION {walk[sub] : sub \in SubDirs(file.header, dir)}
  IN  walk[file.header.toc.startDir]
=============================================================================
