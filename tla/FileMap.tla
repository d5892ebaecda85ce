------------------------------- MODULE FileMap --------------------------------
(***************************************************************************)
(* rainman/module/CFileMap: the virtual file system of a mod, overlaid     *)
(* from data folders and archives ("sources").  CResourceLoader maps the   *)
(* folders and the archives of a module from two concurrent phases; then   *)
(* the GUI opens and saves files through the map; and frmMassExtract, on   *)
(* an archive that was opened as a mod, registers the directory it         *)
(* extracts to as one more source.                                         *)
(*                                                                         *)
(* A file is known by its folder; there is the root of a table of contents *)
(* ("top") and one folder in it ("sub").  The contents of a file in a      *)
(* source are a version number, 0 where the source does not have it.       *)
(***************************************************************************)
EXTENDS Naturals, Sequences, FiniteSets

CONSTANTS
  Files,
  Home,       \* the folder of each file
  Plans,      \* what a load registers: for each module, folders and archives
  Faux,       \* the sources mass extraction may register, in that order
  MaxSaves    \* bound: writes after the load

Folders == {"top", "sub"}

SourcesOf(p) == UNION {{m.folders[i] : i \in DOMAIN m.folders} \cup
                       {m.archives[i] : i \in DOMAIN m.archives} : m \in {p[i] : i \in DOMAIN p}}

Sources == (UNION {SourcesOf(p) : p \in Plans}) \cup {Faux[i] : i \in DOMAIN Faux}

\* _DataSource; "id" is its address.
SourceRecords ==
  [id : STRING, mod : Nat, sga : BOOLEAN, num : Nat, output : BOOLEAN, pure : BOOLEAN]

OfLoad(sga) == {s \in SourceRecords : s.sga = sga /\ ~s.pure}

\* Every source has an address of its own, and only mass extraction registers
\* pure outputs.
ASSUME FileMapAssumption ==
  /\ Home \in [Files -> Folders]
  /\ Plans \subseteq Seq([folders : Seq(OfLoad(FALSE)), archives : Seq(OfLoad(TRUE))])
  /\ Faux \in Seq(SourceRecords)
  /\ \A i, j \in DOMAIN Faux : Faux[i] = Faux[j] => i = j
  /\ \A i \in DOMAIN Faux : Faux[i].pure /\ Faux[i].output /\ Faux[i].mod = 0 /\ ~Faux[i].sga
  /\ \A s, t \in Sources : s.id = t.id => s = t
  /\ MaxSaves \in Nat

VARIABLES
  plan,        \* the load
  stage,       \* the module whose phases are running; Len(plan) + 1 when loaded
  done,        \* per phase, how many of its sources are mapped
  sources,     \* m_vDataSources
  map,         \* mapSources of each file
  names,       \* the sources each folder has a name in (mapSourceNames)
  folders,     \* the folders of the tree
  origin,      \* the files each source had before the load
  store,       \* the versions each source has now
  version,     \* the latest version written
  saved,       \* history: the version the last save of a file left; 0 if none
  extraction,  \* the sources extractions registered, and whether one runs
  misplaced    \* history: an extraction wrote to a place it was not given

loadVars == <<plan, stage, done, origin>>
vars == <<loadVars, sources, map, names, folders, store, version, saved, extraction, misplaced>>

Phases == {"folders", "archives"}

TypeOK ==
  /\ plan \in Plans /\ stage \in 1 .. Len(plan) + 1
  /\ done \in [Phases -> Nat]
  /\ sources \subseteq Sources
  /\ map \in [Files -> SUBSET Sources]
  /\ names \in [Folders -> SUBSET Sources]
  /\ folders \subseteq Folders
  /\ origin \in [Sources -> SUBSET Files]
  /\ store \in [Sources -> [Files -> Nat]] /\ version \in Nat
  /\ saved \in [Files -> Nat]
  /\ extraction \in [count : 0 .. Len(Faux), running : BOOLEAN]
  /\ misplaced \in BOOLEAN

Init ==
  /\ plan \in Plans /\ stage = 1 /\ done = [p \in Phases |-> 0]
  /\ sources = {} /\ folders = {}
  /\ map = [f \in Files |-> {}] /\ names = [d \in Folders |-> {}]
  /\ origin \in [Sources -> SUBSET Files]
  /\ \A s \in Sources \ SourcesOf(plan) : origin[s] = {}
  /\ store = [s \in Sources |-> [f \in Files |-> IF f \in origin[s] THEN 1 ELSE 0]]
  /\ version = 1
  /\ saved = [f \in Files |-> 0]
  /\ extraction = [count |-> 0, running |-> FALSE]
  /\ misplaced = FALSE

-----------------------------------------------------------------------------
\* iSortNumber: the mod, then folder before archive, then the number; the
\* lower the value, the higher the priority.  Sources may share a number (all
\* archives of an early Company of Heroes mod have number 15000).

SameKey(s, t) == s.mod = t.mod /\ s.sga = t.sga /\ s.num = t.num

Precedes(s, t) ==
  \/ s.mod < t.mod
  \/ s.mod = t.mod /\ ~s.sga /\ t.sga
  \/ s.mod = t.mod /\ s.sga = t.sga /\ s.num < t.num

Best(m) == CHOOSE s \in m : \A t \in m : ~Precedes(t, s)

\* Mutant: the later of two sources with one number replaces the earlier.
PutLast(m, s) == {t \in m : ~SameKey(s, t)} \cup {s}

\* mapSources is a std::map ordered by iSortNumber: a second source with the
\* same number finds the entry of the first and leaves its key.
Put(m, s) == IF \E t \in m : SameKey(s, t) THEN m ELSE m \cup {s}

\* VOpenStream reads from the best source.
Read(f) == store[Best(map[f])][f]

-----------------------------------------------------------------------------
\* The load: RegisterSource and MapSnapshot / MapSga under m_mtxMap, in order
\* within a phase, the phases interleaved.

Upcoming(p) == plan[stage][p][done[p] + 1]
HasNext(p) == stage <= Len(plan) /\ done[p] < Len(plan[stage][p])

Register(p) ==
  /\ HasNext(p)
  /\ Upcoming(p) \notin sources
  /\ sources' = sources \cup {Upcoming(p)}
  /\ UNCHANGED <<loadVars, map, names, folders, store, version, saved, extraction, misplaced>>

\* _RawMap, _RawMapFromSnapshot: the folders and the files the source has.
MapSource(p) ==
  /\ HasNext(p)
  /\ LET s == Upcoming(p)
         has == {d \in Folders : d = "top" \/ \E f \in origin[s] : Home[f] = d}
     IN  /\ s \in sources
         /\ map' = [f \in Files |-> IF f \in origin[s] THEN Put(map[f], s) ELSE map[f]]
         /\ names' = [d \in Folders |-> IF d \in has THEN names[d] \cup {s} ELSE names[d]]
         /\ folders' = folders \cup has
  /\ done' = [done EXCEPT ![p] = @ + 1]
  /\ UNCHANGED <<plan, stage, origin, sources, store, version, saved, extraction, misplaced>>

\* A folder that is missing on disk, or an archive that does not load, is never
\* registered.
Skip(p) ==
  /\ HasNext(p)
  /\ Upcoming(p) \notin sources
  /\ origin[Upcoming(p)] = {} /\ ~Upcoming(p).output
  /\ done' = [done EXCEPT ![p] = @ + 1]
  /\ UNCHANGED <<plan, stage, origin, sources, map, names, folders, store, version, saved, extraction, misplaced>>

\* Mutant: after the last module, the load goes on.
NextModuleForever ==
  /\ \A p \in Phases : ~HasNext(p)
  /\ stage' = stage + 1
  /\ done' = [p \in Phases |-> 0]
  /\ UNCHANGED <<plan, origin, sources, map, names, folders, store, version, saved, extraction, misplaced>>

\* The phases of the module have ended; on to the next module.
NextModule ==
  /\ stage <= Len(plan)
  /\ \A p \in Phases : ~HasNext(p)
  /\ stage' = stage + 1
  /\ done' = [p \in Phases |-> 0]
  /\ UNCHANGED <<plan, origin, sources, map, names, folders, store, version, saved, extraction, misplaced>>

Loaded == stage > Len(plan)

-----------------------------------------------------------------------------
\* Opening and saving

\* _FindFile creates the folders of the path it looks for.
Find(f) == folders' = folders \cup {Home[f]}

Open(f) ==
  /\ Loaded /\ ~extraction.running
  /\ folders # {}
  /\ Find(f)
  /\ UNCHANGED <<loadVars, sources, map, names, store, version, saved, extraction, misplaced>>

\* Mutant: any output will do that is not behind the source of the file.
SuitableAnywhere(s, f) == map[f] # {} => ~Precedes(Best(map[f]), s)

\* _MakeFolderWritable: not above 0x0000ffff (a folder of this mod), and not
\* behind the source the file comes from now.
Suitable(s, f) ==
  /\ s.mod = 0 /\ ~s.sga
  /\ map[f] # {} => ~Precedes(Best(map[f]), s)

Writable(s) == s.mod = 0 /\ ~s.sga

OutputsIn(d, f) == {s \in names[d] : s.output /\ Suitable(s, f)}

\* The source a file is saved to: where it is, else an output of its folder
\* (mapSourceNames is ordered by address: any of them), else one of the parent.
Targets(f) ==
  IF map[f] # {} /\ Suitable(Best(map[f]), f) /\ (Writable(Best(map[f])) \/ Best(map[f]).output)
    THEN {Best(map[f])}
  ELSE IF OutputsIn(Home[f], f) # {} \/ Home[f] = "top" THEN OutputsIn(Home[f], f)
  ELSE OutputsIn("top", f)

\* Mutant: what is written is not mapped.
WriteUnmapped(t, f) ==
  /\ names' = [names EXCEPT ![Home[f]] = @ \cup {t}]
  /\ store' = [store EXCEPT ![t][f] = version + 1]
  /\ version' = version + 1
  /\ UNCHANGED map

\* VOpenOutputStream with a target: the folder is created and named in the
\* target, the file opened, and mapped unless the source is a pure output.
WriteTo(t, f) ==
  /\ names' = [names EXCEPT ![Home[f]] = @ \cup {t}]
  /\ store' = [store EXCEPT ![t][f] = version + 1]
  /\ version' = version + 1
  /\ map' = IF t.pure THEN map ELSE [map EXCEPT ![f] = Put(@, t)]

CanWrite(f) == Loaded /\ folders # {} /\ version <= MaxSaves

Save(f) ==
  /\ CanWrite(f) /\ ~extraction.running
  /\ Find(f)
  /\ \E t \in Targets(f) : WriteTo(t, f)
  /\ saved' = [saved EXCEPT ![f] = version + 1]
  /\ UNCHANGED <<loadVars, sources, extraction, misplaced>>

\* The store does not open the file (in a folder that may just have been
\* created), or there is no target: an error, or a file dialog.
SaveFails(f) ==
  /\ CanWrite(f) /\ ~extraction.running
  /\ Find(f)
  /\ \/ UNCHANGED names
     \/ \E t \in Targets(f) : names' = [names EXCEPT ![Home[f]] = @ \cup {t}]
  /\ UNCHANGED <<loadVars, sources, map, store, version, saved, extraction, misplaced>>

-----------------------------------------------------------------------------
\* Mass extraction from an archive that was opened as a mod

Current == Faux[extraction.count]

\* OnGoClick: RegisterSource(0, false, 0, ..., true, true, true), then
\* MapIteratorDeep on the folder to extract; the directory may have a "sub".
BeginExtraction ==
  /\ Loaded /\ ~extraction.running
  /\ \A s \in SourcesOf(plan) : s.sga
  /\ extraction.count < Len(Faux)
  /\ LET x == Faux[extraction.count + 1]
     IN  /\ sources' = sources \cup {x}
         /\ \E has \in (SUBSET folders) \ {{}} :
              names' = [d \in Folders |-> IF d \in has THEN names[d] \cup {x} ELSE names[d]]
  /\ extraction' = [count |-> extraction.count + 1, running |-> TRUE]
  /\ UNCHANGED <<loadVars, map, folders, store, version, saved, misplaced>>

\* DoExtract reads a file through the map and writes it through the map.
Extract(f) ==
  /\ CanWrite(f) /\ extraction.running
  /\ map[f] # {}
  /\ \E t \in Targets(f) :
       /\ WriteTo(t, f)
       /\ misplaced' = (misplaced \/ t # Current)
  /\ UNCHANGED <<loadVars, sources, folders, saved, extraction>>

\* Mutant: the folders keep the name of an erased source.
EraseFromFilesOnly(s) ==
  /\ sources' = sources \ {s}
  /\ map' = [f \in Files |-> {t \in map[f] : ~SameKey(s, t)}]
  /\ UNCHANGED names

\* EraseSource.  Files look their source up by sort number, folders by address.
Erase(s) ==
  /\ sources' = sources \ {s}
  /\ map' = [f \in Files |-> {t \in map[f] : ~SameKey(s, t)}]
  /\ names' = [d \in Folders |-> names[d] \ {s}]

CompleteExtraction ==
  /\ extraction.running
  /\ Erase(Current)
  /\ extraction' = [extraction EXCEPT !.running = FALSE]
  /\ UNCHANGED <<loadVars, folders, store, version, saved, misplaced>>

\* Cancel ends the dialog and drops the callback that would erase the source.
CancelExtraction ==
  /\ extraction.running
  /\ extraction' = [extraction EXCEPT !.running = FALSE]
  /\ UNCHANGED <<loadVars, sources, map, names, folders, store, version, saved, misplaced>>

-----------------------------------------------------------------------------
Loading == NextModule \/ \E p \in Phases : Register(p) \/ MapSource(p) \/ Skip(p)
Using == \E f \in Files : Open(f) \/ Save(f) \/ SaveFails(f) \/ Extract(f)
Extraction == BeginExtraction \/ CompleteExtraction \/ CancelExtraction

Next == Loading \/ Using \/ Extraction

Spec == Init /\ [][Next]_vars

-----------------------------------------------------------------------------
\* Properties

\* The places in the load, in the order in which a load without threads comes to
\* them: module by module, the folders before the archives.
PlacesIn(p) == UNION {{k} \X {p} \X DOMAIN plan[k][p] : k \in DOMAIN plan}

Places == UNION {PlacesIn(p) : p \in Phases}

At(a) == plan[a[1]][a[2]][a[3]]

Earlier(a, b) ==
  \/ a[1] < b[1]
  \/ a[1] = b[1] /\ a[2] = "folders" /\ b[2] = "archives"
  \/ a[1] = b[1] /\ a[2] = b[2] /\ a[3] < b[3]

\* "Parallel loading produces identical results to sequential": whatever the
\* order in which the two phases map their sources, a file comes from the best
\* source that has it, the first registered one among equal sort numbers.
ParallelIsSequential ==
  Loaded =>
    \A f \in Files : saved[f] = 0 =>
      LET having == {a \in Places : f \in origin[At(a)]}
          first == CHOOSE a \in having :
                     \A b \in having : \/ Precedes(At(a), At(b))
                                       \/ SameKey(At(a), At(b)) /\ (a = b \/ Earlier(a, b))
      IN  IF having = {} THEN map[f] = {} ELSE Best(map[f]) = At(first)

\* Extractions that were cancelled left their source behind.
Leftovers == {s \in sources : s.pure} \ (IF extraction.running THEN {Current} ELSE {})

\* After a save, the map shows what was saved, from whichever source it came
\* before; while no cancelled extraction has left its source in the map.
ReadYourWrites ==
  Leftovers = {} => \A f \in Files : saved[f] # 0 => map[f] # {} /\ Read(f) = saved[f]

\* Whatever is mapped can be opened: every source of a file is registered and
\* has a name for the folder (_OpenFile throws otherwise).
MappedFilesOpen ==
  /\ \A f \in Files : map[f] \subseteq names[Home[f]]
  /\ \A d \in Folders : names[d] \subseteq sources

\* Nothing is ever written into an archive, a required mod or the engine,
\* although the data folder of a required mod is registered as an output too.
WritesStayInThisMod ==
  [][\A s \in Sources : store'[s] # store[s] => s.mod = 0 /\ ~s.sga]_vars

\* A folder is extracted to the directory that was chosen for it.  It is not after a
\* cancelled extraction (OnCancelClick); no configuration checks it.
ExtractsWhereAsked == ~misplaced
=============================================================================
