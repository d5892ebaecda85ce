---------------------------- MODULE FileMap_proofs -----------------------------
(***************************************************************************)
(* Proofs about FileMap, for any files, plans and sort numbers: where      *)
(* saving and extracting may write, that what is mapped can be opened, and *)
(* that a file which was saved is read as it was saved.                    *)
(***************************************************************************)
EXTENDS FileMap, TLAPS

-----------------------------------------------------------------------------
\* The order of the sources

\* No two sources of a file have the same sort number, and one of them is the best.
Sorted(m) ==
  /\ \A s, t \in m : SameKey(s, t) => s = t
  /\ m # {} => \E s \in m : \A t \in m : ~Precedes(t, s)

LEMMA TotalOrder ==
  ASSUME NEW s \in SourceRecords, NEW t \in SourceRecords
  PROVE  /\ ~Precedes(s, s)
         /\ Precedes(s, t) => ~Precedes(t, s)
         /\ Precedes(s, t) \/ SameKey(s, t) \/ Precedes(t, s)
<1>1. s.mod \in Nat /\ t.mod \in Nat /\ s.num \in Nat /\ t.num \in Nat
      /\ s.sga \in BOOLEAN /\ t.sga \in BOOLEAN
  BY DEF SourceRecords
<1>2. QED
  BY <1>1 DEF Precedes, SameKey

LEMMA Transitive ==
  ASSUME NEW r \in SourceRecords, NEW s \in SourceRecords, NEW t \in SourceRecords,
         Precedes(r, s), ~Precedes(t, s)
  PROVE  Precedes(r, t)
<1>1. /\ r.mod \in Nat /\ s.mod \in Nat /\ t.mod \in Nat
      /\ r.num \in Nat /\ s.num \in Nat /\ t.num \in Nat
      /\ r.sga \in BOOLEAN /\ s.sga \in BOOLEAN /\ t.sga \in BOOLEAN
  BY DEF SourceRecords
<1>2. QED
  BY <1>1 DEF Precedes

LEMMA BestIsFirst ==
  ASSUME NEW m, Sorted(m), m # {}
  PROVE  Best(m) \in m /\ \A t \in m : ~Precedes(t, Best(m))
BY DEF Sorted, Best

LEMMA BestIsUnique ==
  ASSUME NEW m \in SUBSET SourceRecords, Sorted(m), NEW s \in m, \A t \in m : ~Precedes(t, s)
  PROVE  Best(m) = s
<1>1. Best(m) \in m /\ ~Precedes(s, Best(m)) /\ ~Precedes(Best(m), s)
  BY BestIsFirst
<1>2. SameKey(Best(m), s)
  BY <1>1, TotalOrder
<1>3. QED
  BY <1>1, <1>2 DEF Sorted

LEMMA PutSorts ==
  ASSUME NEW m \in SUBSET SourceRecords, Sorted(m), NEW s \in SourceRecords
  PROVE  Sorted(Put(m, s))
<1>1. CASE \E t \in m : SameKey(s, t)
  BY <1>1 DEF Put
<1>2. CASE ~\E t \in m : SameKey(s, t)
  <2>1. Put(m, s) = m \cup {s}
    BY <1>2 DEF Put
  <2>2. \A t \in m : ~SameKey(s, t) /\ ~SameKey(t, s)
    BY <1>2 DEF SameKey
  <2>3. \A t, u \in m \cup {s} : SameKey(t, u) => t = u
    BY <2>2 DEF Sorted
  <2>4. \E t \in m \cup {s} : \A u \in m \cup {s} : ~Precedes(u, t)
    <3>1. CASE m = {}
      BY <3>1, TotalOrder
    <3>2. CASE m # {}
      <4>1. PICK b \in m : \A u \in m : ~Precedes(u, b)
        BY <3>2 DEF Sorted
      <4>2. CASE Precedes(s, b)
        <5>1. \A u \in m : Precedes(s, u)
          BY <4>1, <4>2, Transitive
        <5>2. \A u \in m \cup {s} : ~Precedes(u, s)
          BY <5>1, TotalOrder
        <5>3. QED
          BY <5>2
      <4>3. CASE ~Precedes(s, b)
        BY <4>1, <4>3
      <4>4. QED
        BY <4>2, <4>3
    <3>3. QED
      BY <3>1, <3>2
  <2>5. QED
    BY <2>1, <2>3, <2>4 DEF Sorted
<1>3. QED
  BY <1>1, <1>2

\* What is saved becomes the best source of its file.
LEMMA TargetIsBest ==
  ASSUME NEW f, map[f] \in SUBSET SourceRecords, Sorted(map[f]),
         NEW t \in Targets(f), t \in SourceRecords
  PROVE  Best(Put(map[f], t)) = t /\ t \in Put(map[f], t)
<1>1. t.mod = 0 /\ ~t.sga /\ (map[f] # {} => ~Precedes(Best(map[f]), t))
  BY DEF Targets, OutputsIn, Suitable, Writable
<1>2. CASE map[f] = {}
  <2>1. Put(map[f], t) = {t}
    BY <1>2 DEF Put
  <2>2. Best({t}) = t
    BY TotalOrder DEF Best
  <2>3. QED
    BY <2>1, <2>2
<1>3. CASE map[f] # {}
  <2>1. PICK b : b = Best(map[f])
    OBVIOUS
  <2>2. /\ b \in map[f] /\ b \in SourceRecords /\ ~Precedes(b, t)
        /\ \A u \in map[f] : ~Precedes(u, b)
    BY <1>1, <1>3, <2>1, BestIsFirst
  <2>3. CASE SameKey(b, t)
    <3>1. b.mod = 0 /\ ~b.sga
      BY <1>1, <2>3 DEF SameKey
    <3>2. Suitable(b, f) /\ Writable(b)
      BY <2>1, <2>2, <3>1, TotalOrder DEF Suitable, Writable
    <3>3. t = b
      BY <1>3, <2>1, <3>2 DEF Targets
    <3>4. Put(map[f], t) = map[f]
      BY <2>2, <3>3 DEF Put, SameKey
    <3>5. QED
      BY <2>1, <2>2, <3>3, <3>4
  <2>4. CASE ~SameKey(b, t)
    <3>1. Precedes(t, b)
      BY <2>2, <2>4, TotalOrder
    <3>2. \A u \in map[f] : Precedes(t, u)
      BY <2>2, <3>1, Transitive
    <3>3. \A u \in map[f] : ~SameKey(t, u)
      <4>1. ASSUME NEW u \in map[f], SameKey(t, u) PROVE FALSE
        <5>1. /\ t.mod \in Nat /\ t.num \in Nat /\ t.mod = u.mod /\ t.sga = u.sga /\ t.num = u.num
          BY <4>1 DEF SourceRecords, SameKey
        <5>2. QED
          BY <3>2, <4>1, <5>1 DEF Precedes
      <4>2. QED
        BY <4>1
    <3>4. Put(map[f], t) = map[f] \cup {t}
      BY <3>3 DEF Put
    <3>5. Sorted(Put(map[f], t))
      BY PutSorts
    <3>6. \A u \in map[f] \cup {t} : ~Precedes(u, t)
      BY <3>2, TotalOrder
    <3>7. QED
      BY <3>4, <3>5, <3>6, BestIsUnique
  <2>5. QED
    BY <2>3, <2>4
<1>4. QED
  BY <1>2, <1>3

-----------------------------------------------------------------------------
\* Where the sources are

\* Files are mapped to registered sources of the load, which have a name in the folder.
Placement ==
  /\ sources \subseteq SourcesOf(plan) \cup {Faux[i] : i \in 1 .. extraction.count}
  /\ \A f \in Files : map[f] \subseteq SourcesOf(plan) /\ map[f] \subseteq names[Home[f]]
                      /\ Sorted(map[f])
  /\ \A d \in Folders : names[d] \subseteq sources
  /\ extraction.count > 0 => \A s \in SourcesOf(plan) : s.sga
  /\ extraction.running => extraction.count > 0

MapInv == TypeOK /\ Placement

LEMMA ElementOfSeq ==
  ASSUME NEW S, NEW q \in Seq(S), NEW i \in DOMAIN q
  PROVE  q[i] \in S /\ DOMAIN q = 1 .. Len(q) /\ Len(q) \in Nat
OBVIOUS

LEMMA PlanFields ==
  ASSUME NEW p \in Plans, NEW i \in DOMAIN p
  PROVE  /\ p[i].folders \in Seq(OfLoad(FALSE)) /\ p[i].archives \in Seq(OfLoad(TRUE))
         /\ \A j \in DOMAIN p[i].folders :
              p[i].folders[j] \in SourcesOf(p) /\ p[i].folders[j] \in OfLoad(FALSE)
         /\ \A j \in DOMAIN p[i].archives :
              p[i].archives[j] \in SourcesOf(p) /\ p[i].archives[j] \in OfLoad(TRUE)
<1>1. PICK M : M = [folders : Seq(OfLoad(FALSE)), archives : Seq(OfLoad(TRUE))]
  OBVIOUS
<1>2. p \in Seq(M)
  BY <1>1, FileMapAssumption
<1>3. p[i] \in M
  BY <1>2, ElementOfSeq
<1>4. p[i].folders \in Seq(OfLoad(FALSE)) /\ p[i].archives \in Seq(OfLoad(TRUE))
  BY <1>1, <1>3
<1>5. PICK m : m = p[i]
  OBVIOUS
<1>6. ASSUME NEW x, \/ \E j \in DOMAIN m.folders : x = m.folders[j]
                   \/ \E j \in DOMAIN m.archives : x = m.archives[j]
      PROVE  x \in SourcesOf(p)
  BY <1>5, <1>6 DEF SourcesOf
<1>7. QED
  BY <1>4, <1>5, <1>6, ElementOfSeq

LEMMA SourcesTyped ==
  /\ Sources \subseteq SourceRecords
  /\ \A i \in DOMAIN Faux : Faux[i] \in Sources
  /\ \A p \in Plans : SourcesOf(p) \subseteq Sources /\ \A s \in SourcesOf(p) : ~s.pure
  /\ Len(Faux) \in Nat /\ DOMAIN Faux = 1 .. Len(Faux)
<1>1. \A i \in DOMAIN Faux : Faux[i] \in SourceRecords
  BY FileMapAssumption
<1>2. ASSUME NEW p \in Plans, NEW s \in SourcesOf(p) PROVE s \in SourceRecords /\ ~s.pure
  <2>1. PICK i \in DOMAIN p : \/ \E j \in DOMAIN p[i].folders : s = p[i].folders[j]
                             \/ \E j \in DOMAIN p[i].archives : s = p[i].archives[j]
    BY DEF SourcesOf
  <2>2. s \in OfLoad(FALSE) \cup OfLoad(TRUE)
    BY <2>1, PlanFields
  <2>3. QED
    BY <2>2 DEF OfLoad
<1>3. ASSUME NEW s \in Sources PROVE s \in SourceRecords
  <2>1. (\E p \in Plans : s \in SourcesOf(p)) \/ \E i \in DOMAIN Faux : s = Faux[i]
    BY Zenon DEF Sources
  <2>2. QED
    BY <1>1, <1>2, <2>1
<1>4. /\ \A i \in DOMAIN Faux : Faux[i] \in Sources
      /\ \A p \in Plans : SourcesOf(p) \subseteq Sources
  <2>1. \A i \in DOMAIN Faux : Faux[i] \in Sources
    BY Zenon DEF Sources
  <2>2. \A p \in Plans : SourcesOf(p) \subseteq Sources
    BY Zenon DEF Sources
  <2>3. QED
    BY <2>1, <2>2
<1>5. Len(Faux) \in Nat /\ DOMAIN Faux = 1 .. Len(Faux)
  BY FileMapAssumption
<1>6. QED
  BY <1>2, <1>3, <1>4, <1>5

LEMMA UpcomingIsOfPlan ==
  ASSUME TypeOK, NEW p \in Phases, HasNext(p)
  PROVE  /\ Upcoming(p) \in SourcesOf(plan) /\ Upcoming(p) \in Sources
         /\ done[p] \in Nat
<1>1. plan \in Plans /\ done[p] \in Nat /\ stage \in DOMAIN plan
  <2>1. PICK M : plan \in Seq(M)
    BY FileMapAssumption DEF TypeOK
  <2>2. QED
    BY <2>1 DEF TypeOK, HasNext
<1>2. PICK A, B : plan[stage].folders \in Seq(A) /\ plan[stage].archives \in Seq(B)
  BY <1>1, PlanFields
<1>3. Upcoming(p) \in SourcesOf(plan)
  <2>1. CASE p = "folders"
    <3>1. /\ done[p] + 1 \in DOMAIN plan[stage].folders
          /\ Upcoming(p) = plan[stage].folders[done[p] + 1]
      BY <1>1, <1>2, <2>1 DEF HasNext, Upcoming
    <3>2. QED
      BY <1>1, <3>1, PlanFields
  <2>2. CASE p = "archives"
    <3>1. /\ done[p] + 1 \in DOMAIN plan[stage].archives
          /\ Upcoming(p) = plan[stage].archives[done[p] + 1]
      BY <1>1, <1>2, <2>2 DEF HasNext, Upcoming
    <3>2. QED
      BY <1>1, <3>1, PlanFields
  <2>3. QED
    BY <2>1, <2>2 DEF Phases
<1>4. QED
  BY <1>1, <1>3, SourcesTyped

\* A target is registered, and one of the load unless it is a pure output.
LEMMA TargetsAreSources ==
  ASSUME MapInv, NEW f \in Files, NEW t \in Targets(f)
  PROVE  /\ t \in sources /\ t \in Sources /\ t \in SourceRecords
         /\ t.pure \/ t \in SourcesOf(plan)
         /\ ~t.pure => \E s \in SourcesOf(plan) : ~s.sga
<1>1. Home[f] \in Folders /\ "top" \in Folders
  BY FileMapAssumption DEF Folders
<1>2. map[f] # {} => Best(map[f]) \in map[f]
  BY BestIsFirst DEF MapInv, Placement
<1>3. t \in map[f] \/ \E d \in Folders : t \in names[d]
  BY <1>1, <1>2 DEF Targets, OutputsIn
<1>4. t \in sources
  BY <1>1, <1>3 DEF MapInv, Placement
<1>5. t \in Sources /\ t \in SourceRecords
  BY <1>4, SourcesTyped DEF MapInv, TypeOK
<1>6. t.pure \/ t \in SourcesOf(plan)
  <2>1. CASE t \in SourcesOf(plan)
    BY <2>1
  <2>2. CASE \E i \in 1 .. extraction.count : t = Faux[i]
    <3>1. extraction.count \in 0 .. Len(Faux)
      BY DEF MapInv, TypeOK
    <3>2. PICK i \in DOMAIN Faux : t = Faux[i]
      BY <2>2, <3>1, SourcesTyped
    <3>3. QED
      BY <3>2, FileMapAssumption
  <2>3. QED
    BY <1>4, <2>1, <2>2 DEF MapInv, Placement
<1>7. ~t.sga
  BY DEF Targets, OutputsIn, Suitable, Writable
<1>8. QED
  BY <1>4, <1>5, <1>6, <1>7

LEMMA WriteKeepsMap ==
  ASSUME MapInv, NEW f \in Files, NEW t \in Targets(f), WriteTo(t, f),
         UNCHANGED <<loadVars, sources, extraction>>,
         folders' \subseteq Folders, saved' \in [Files -> Nat], misplaced' \in BOOLEAN
  PROVE  MapInv'
<1>1. /\ t \in sources /\ t \in Sources /\ t \in SourceRecords /\ (t.pure \/ t \in SourcesOf(plan))
      /\ TypeOK /\ Placement /\ Home[f] \in Folders
  BY TargetsAreSources, FileMapAssumption DEF MapInv
<1>2. /\ names' = [names EXCEPT ![Home[f]] = names[Home[f]] \cup {t}]
      /\ store' = [store EXCEPT ![t] = [store[t] EXCEPT ![f] = version + 1]]
      /\ version' = version + 1
      /\ map' = IF t.pure THEN map ELSE [map EXCEPT ![f] = Put(map[f], t)]
  BY DEF WriteTo
<1>3. names' \in [Folders -> SUBSET Sources] /\ version' \in Nat
  BY <1>1, <1>2 DEF TypeOK
<1>4. store' \in [Sources -> [Files -> Nat]]
  <2>1. [store[t] EXCEPT ![f] = version + 1] \in [Files -> Nat]
    BY <1>1 DEF TypeOK
  <2>2. QED
    BY <1>1, <1>2, <2>1 DEF TypeOK
<1>5. Put(map[f], t) \subseteq map[f] \cup {t} /\ map[f] \subseteq Sources
  BY <1>1 DEF Put, TypeOK
<1>6. map' \in [Files -> SUBSET Sources]
  BY <1>1, <1>2, <1>5 DEF TypeOK
<1>7. TypeOK'
  BY <1>1, <1>3, <1>4, <1>6 DEF TypeOK, loadVars
<1>8. ASSUME NEW g \in Files
      PROVE  map'[g] \subseteq SourcesOf(plan) /\ map'[g] \subseteq names'[Home[g]] /\ Sorted(map'[g])
  <2>1. Home[g] \in Folders /\ names[Home[g]] \subseteq names'[Home[g]]
        /\ (Home[g] = Home[f] => t \in names'[Home[g]])
    BY <1>1, <1>2, FileMapAssumption DEF TypeOK
  <2>2. CASE map'[g] = map[g]
    BY <1>1, <2>1, <2>2 DEF Placement
  <2>3. CASE map'[g] # map[g]
    <3>1. g = f /\ map'[f] = Put(map[f], t) /\ t \in SourcesOf(plan)
      BY <1>1, <1>2, <2>3 DEF TypeOK
    <3>2. map[f] \in SUBSET SourceRecords /\ Sorted(map[f])
      BY <1>1, <1>5, SourcesTyped DEF Placement
    <3>3. Sorted(Put(map[f], t))
      BY <1>1, <3>2, PutSorts
    <3>4. QED
      BY <1>1, <1>5, <2>1, <3>1, <3>3 DEF Placement
  <2>4. QED
    BY <2>2, <2>3
<1>9. \A d \in Folders : names'[d] \subseteq sources'
  BY <1>1, <1>2 DEF Placement, TypeOK
<1>10. Placement'
  BY <1>1, <1>8, <1>9 DEF Placement, loadVars
<1>11. QED
  BY <1>7, <1>10 DEF MapInv

LEMMA InitIsPlaced == Init => MapInv
<1> SUFFICES ASSUME Init PROVE MapInv
  OBVIOUS
<1>1. plan \in Plans /\ Len(plan) \in Nat
  BY FileMapAssumption DEF Init
<1>2. extraction \in [count : 0 .. Len(Faux), running : BOOLEAN]
      /\ extraction.count = 0 /\ extraction.running = FALSE
  BY SourcesTyped DEF Init
<1>3. store \in [Sources -> [Files -> Nat]] /\ saved \in [Files -> Nat]
  BY DEF Init
<1>4. TypeOK
  <2>1. stage \in 1 .. Len(plan) + 1 /\ done \in [Phases -> Nat]
    BY <1>1 DEF Init
  <2>2. /\ sources \subseteq Sources /\ map \in [Files -> SUBSET Sources]
        /\ names \in [Folders -> SUBSET Sources] /\ folders \subseteq Folders
    BY DEF Init
  <2>3. origin \in [Sources -> SUBSET Files] /\ version \in Nat /\ misplaced \in BOOLEAN
    BY DEF Init
  <2>4. QED
    BY <1>1, <1>2, <1>3, <2>1, <2>2, <2>3 DEF TypeOK
<1>5. Placement
  BY <1>2, FileMapAssumption DEF Init, Placement, Sorted
<1>6. QED
  BY <1>4, <1>5 DEF MapInv

LEMMA LoadingKeepsMap ==
  ASSUME MapInv, Loading
  PROVE  MapInv'
<1>1. TypeOK /\ Placement /\ Len(plan) \in Nat
  BY FileMapAssumption DEF MapInv, TypeOK
<1>2. CASE NextModule
  <2>1. stage' \in 1 .. Len(plan) + 1 /\ done' \in [Phases -> Nat]
    BY <1>1, <1>2 DEF NextModule, TypeOK
  <2>2. UNCHANGED <<plan, origin, sources, map, names, folders, store, version, saved, extraction, misplaced>>
    BY <1>2 DEF NextModule
  <2>3. QED
    BY <1>1, <2>1, <2>2 DEF TypeOK, Placement, MapInv
<1>3. ASSUME NEW p \in Phases, Register(p) PROVE MapInv'
  <2>1. Upcoming(p) \in SourcesOf(plan) /\ Upcoming(p) \in Sources
    BY <1>1, <1>3, UpcomingIsOfPlan DEF Register
  <2>2. /\ sources' = sources \cup {Upcoming(p)}
        /\ UNCHANGED <<loadVars, map, names, folders, store, version, saved, extraction, misplaced>>
    BY <1>3 DEF Register
  <2>3. TypeOK'
    BY <1>1, <2>1, <2>2 DEF TypeOK, loadVars
  <2>4. Placement'
    BY <1>1, <2>1, <2>2 DEF Placement, loadVars
  <2>5. QED
    BY <2>3, <2>4 DEF MapInv
<1>4. ASSUME NEW p \in Phases, Skip(p) PROVE MapInv'
  <2>1. /\ done' = [done EXCEPT ![p] = done[p] + 1] /\ done[p] \in Nat
        /\ UNCHANGED <<plan, stage, origin, sources, map, names, folders, store, version, saved, extraction, misplaced>>
    BY <1>1, <1>4 DEF Skip, TypeOK
  <2>2. TypeOK'
    BY <1>1, <2>1 DEF TypeOK
  <2>3. Placement'
    BY <1>1, <2>1 DEF Placement
  <2>4. QED
    BY <2>2, <2>3 DEF MapInv
<1>5. ASSUME NEW p \in Phases, MapSource(p) PROVE MapInv'
  <2>1. PICK s, has : /\ s = Upcoming(p)
                      /\ has = {d \in Folders : d = "top" \/ \E f \in origin[s] : Home[f] = d}
    OBVIOUS
  <2>2. /\ s \in SourcesOf(plan) /\ s \in Sources /\ s \in SourceRecords /\ s \in sources
    BY <1>1, <1>5, <2>1, UpcomingIsOfPlan, SourcesTyped DEF MapSource
  <2>3. /\ map' = [f \in Files |-> IF f \in origin[s] THEN Put(map[f], s) ELSE map[f]]
        /\ names' = [d \in Folders |-> IF d \in has THEN names[d] \cup {s} ELSE names[d]]
        /\ folders' = folders \cup has
        /\ done' = [done EXCEPT ![p] = done[p] + 1] /\ done[p] \in Nat
        /\ UNCHANGED <<plan, stage, origin, sources, store, version, saved, extraction, misplaced>>
    BY <1>1, <1>5, <2>1 DEF MapSource, TypeOK
  <2>4. \A f \in Files : Put(map[f], s) \subseteq map[f] \cup {s} /\ map[f] \subseteq Sources
    BY <1>1 DEF Put, TypeOK
  <2>5. map' \in [Files -> SUBSET Sources] /\ names' \in [Folders -> SUBSET Sources]
    BY <1>1, <2>2, <2>3, <2>4 DEF TypeOK
  <2>6. TypeOK'
    <3>1. folders' \subseteq Folders /\ done' \in [Phases -> Nat]
      BY <1>1, <2>1, <2>3 DEF TypeOK
    <3>2. QED
      BY <1>1, <2>3, <2>5, <3>1 DEF TypeOK
  <2>7. ASSUME NEW f \in Files
        PROVE  map'[f] \subseteq SourcesOf(plan) /\ map'[f] \subseteq names'[Home[f]] /\ Sorted(map'[f])
    <3>1. Home[f] \in Folders /\ names[Home[f]] \subseteq names'[Home[f]]
          /\ (f \in origin[s] => s \in names'[Home[f]])
      BY <2>1, <2>3, FileMapAssumption
    <3>2. CASE map'[f] = map[f]
      BY <1>1, <3>1, <3>2 DEF Placement
    <3>3. CASE map'[f] # map[f]
      <4>1. f \in origin[s] /\ map'[f] = Put(map[f], s)
        BY <2>3, <3>3
      <4>2. map[f] \in SUBSET SourceRecords /\ Sorted(map[f])
        BY <1>1, <2>4, SourcesTyped DEF Placement
      <4>3. Sorted(Put(map[f], s))
        BY <2>2, <4>2, PutSorts
      <4>4. QED
        BY <1>1, <2>2, <2>4, <3>1, <4>1, <4>3 DEF Placement
    <3>4. QED
      BY <3>2, <3>3
  <2>8. \A d \in Folders : names'[d] \subseteq sources'
    BY <1>1, <2>2, <2>3 DEF Placement
  <2>9. Placement'
    BY <1>1, <2>3, <2>7, <2>8 DEF Placement
  <2>10. QED
    BY <2>6, <2>9 DEF MapInv
<1>6. QED
  BY <1>2, <1>3, <1>4, <1>5 DEF Loading

LEMMA UsingKeepsMap ==
  ASSUME MapInv, Using
  PROVE  MapInv'
<1>0. TypeOK /\ Placement
  BY DEF MapInv
<1>1. PICK f \in Files : Open(f) \/ Save(f) \/ SaveFails(f) \/ Extract(f)
  BY DEF Using
<1>2. Home[f] \in Folders /\ folders \cup {Home[f]} \subseteq Folders
  BY <1>0, FileMapAssumption DEF TypeOK
<1>3. CASE Open(f)
  <2>1. folders' \subseteq Folders
        /\ UNCHANGED <<loadVars, sources, map, names, store, version, saved, extraction, misplaced>>
    BY <1>2, <1>3 DEF Open, Find
  <2>2. QED
    BY <1>0, <2>1 DEF TypeOK, Placement, MapInv, loadVars
<1>4. CASE Save(f)
  <2>1. PICK t \in Targets(f) : WriteTo(t, f)
    BY <1>4 DEF Save
  <2>2. /\ folders' \subseteq Folders /\ saved' \in [Files -> Nat] /\ misplaced' \in BOOLEAN
        /\ UNCHANGED <<loadVars, sources, extraction>>
    BY <1>0, <1>2, <1>4 DEF Save, Find, TypeOK
  <2>3. QED
    BY <2>1, <2>2, WriteKeepsMap
<1>5. CASE SaveFails(f)
  <2>1. /\ folders' \subseteq Folders
        /\ UNCHANGED <<loadVars, sources, map, store, version, saved, extraction, misplaced>>
    BY <1>2, <1>5 DEF SaveFails, Find
  <2>2. CASE UNCHANGED names
    BY <1>0, <2>1, <2>2 DEF TypeOK, Placement, MapInv, loadVars
  <2>3. ASSUME NEW t \in Targets(f), names' = [names EXCEPT ![Home[f]] = names[Home[f]] \cup {t}]
        PROVE  MapInv'
    <3>1. t \in sources /\ t \in Sources
      BY TargetsAreSources
    <3>2. /\ names' \in [Folders -> SUBSET Sources]
          /\ \A d \in Folders : names[d] \subseteq names'[d] /\ names'[d] \subseteq names[d] \cup {t}
      BY <1>0, <1>2, <2>3, <3>1 DEF TypeOK
    <3>3. \A g \in Files : Home[g] \in Folders
      BY FileMapAssumption
    <3>4. TypeOK'
      BY <1>0, <2>1, <3>2 DEF TypeOK, loadVars
    <3>5. Placement'
      BY <1>0, <2>1, <3>1, <3>2, <3>3 DEF Placement, loadVars
    <3>6. QED
      BY <3>4, <3>5 DEF MapInv
  <2>4. QED
    BY <1>5, <2>2, <2>3 DEF SaveFails
<1>6. CASE Extract(f)
  <2>1. PICK t \in Targets(f) : WriteTo(t, f) /\ misplaced' = (misplaced \/ t # Current)
    BY <1>6 DEF Extract
  <2>2. /\ folders' \subseteq Folders /\ saved' \in [Files -> Nat] /\ misplaced' \in BOOLEAN
        /\ UNCHANGED <<loadVars, sources, extraction>>
    BY <1>0, <1>6, <2>1 DEF Extract, TypeOK
  <2>3. QED
    BY <2>1, <2>2, WriteKeepsMap
<1>7. QED
  BY <1>1, <1>3, <1>4, <1>5, <1>6

\* The source of an extraction has the sort number of no source of the load.
LEMMA CurrentIsApart ==
  ASSUME MapInv, extraction.running
  PROVE  /\ Current \in Sources /\ Current.pure /\ ~Current.sga
         /\ extraction.count \in 1 .. Len(Faux)
         /\ \A s \in SourcesOf(plan) : s.sga /\ ~s.pure /\ ~SameKey(Current, s)
<1>1. extraction.count \in 1 .. Len(Faux)
  BY SourcesTyped DEF MapInv, TypeOK, Placement
<1>2. Current \in Sources /\ Current.pure /\ ~Current.sga
  BY <1>1, SourcesTyped, FileMapAssumption DEF Current
<1>3. \A s \in SourcesOf(plan) : s.sga /\ ~s.pure
  BY SourcesTyped DEF MapInv, TypeOK, Placement
<1>4. QED
  BY <1>1, <1>2, <1>3 DEF SameKey

LEMMA ExtractionKeepsMap ==
  ASSUME MapInv, Extraction
  PROVE  MapInv'
<1>0. TypeOK /\ Placement /\ extraction.count \in Nat
  BY SourcesTyped DEF MapInv, TypeOK
<1>1. CASE BeginExtraction
  <2>x. PICK x : x = Faux[extraction.count + 1]
    OBVIOUS
  <2>1. PICK has : names' = [d \in Folders |-> IF d \in has THEN names[d] \cup {x} ELSE names[d]]
    BY <1>1, <2>x DEF BeginExtraction
  <2>2. /\ sources' = sources \cup {x}
        /\ extraction' = [count |-> extraction.count + 1, running |-> TRUE]
        /\ extraction.count < Len(Faux) /\ \A s \in SourcesOf(plan) : s.sga
        /\ UNCHANGED <<loadVars, map, folders, store, version, saved, misplaced>>
    BY <1>1, <2>x DEF BeginExtraction
  <2>3. extraction.count + 1 \in 1 .. Len(Faux) /\ x \in Sources
    BY <1>0, <2>x, <2>2, SourcesTyped
  <2>4. /\ extraction' \in [count : 0 .. Len(Faux), running : BOOLEAN]
        /\ extraction'.count = extraction.count + 1
    BY <2>2, <2>3
  <2>5. names' \in [Folders -> SUBSET Sources] /\ \A d \in Folders : names[d] \subseteq names'[d]
    BY <1>0, <2>1, <2>3 DEF TypeOK
  <2>6. TypeOK'
    BY <1>0, <2>2, <2>3, <2>4, <2>5 DEF TypeOK, loadVars
  <2>7. sources' \subseteq SourcesOf(plan) \cup {Faux[i] : i \in 1 .. extraction'.count}
    <3>1. 1 .. extraction.count \subseteq 1 .. extraction'.count /\ extraction'.count \in 1 .. extraction'.count
      BY <1>0, <2>4
    <3>2. x \in {Faux[i] : i \in 1 .. extraction'.count}
      BY <2>x, <2>4, <3>1
    <3>3. QED
      BY <1>0, <2>2, <3>1, <3>2 DEF Placement
  <2>8. /\ \A f \in Files : Home[f] \in Folders
        /\ \A d \in Folders : names'[d] \subseteq sources'
    BY <1>0, <2>1, <2>2, FileMapAssumption DEF Placement
  <2>9. Placement'
    BY <1>0, <2>2, <2>4, <2>5, <2>7, <2>8 DEF Placement, loadVars
  <2>10. QED
    BY <2>6, <2>9 DEF MapInv
<1>2. CASE CompleteExtraction
  <2>1. /\ extraction.running /\ sources' = sources \ {Current}
        /\ map' = [f \in Files |-> {t \in map[f] : ~SameKey(Current, t)}]
        /\ names' = [d \in Folders |-> names[d] \ {Current}]
        /\ extraction' = [extraction EXCEPT !.running = FALSE]
        /\ UNCHANGED <<loadVars, folders, store, version, saved, misplaced>>
    BY <1>2 DEF CompleteExtraction, Erase
  <2>2. Current.pure /\ \A s \in SourcesOf(plan) : ~s.pure /\ ~SameKey(Current, s)
    BY <2>1, CurrentIsApart
  <2>3. map' = map
    <3>1. \A f \in Files : map'[f] = map[f]
      BY <1>0, <2>1, <2>2 DEF Placement
    <3>2. QED
      BY <1>0, <2>1, <3>1 DEF TypeOK
  <2>4. /\ extraction' \in [count : 0 .. Len(Faux), running : BOOLEAN]
        /\ extraction'.count = extraction.count /\ extraction'.running = FALSE
    BY <1>0, <2>1 DEF TypeOK
  <2>5. names' \in [Folders -> SUBSET Sources] /\ sources' \subseteq Sources
    BY <1>0, <2>1 DEF TypeOK
  <2>6. TypeOK'
    BY <1>0, <2>1, <2>3, <2>4, <2>5 DEF TypeOK, loadVars
  <2>7. ASSUME NEW f \in Files PROVE map[f] \subseteq names'[Home[f]]
    <3>1. Home[f] \in Folders /\ Current \notin map[f]
      BY <1>0, <2>2, FileMapAssumption DEF Placement
    <3>2. QED
      BY <1>0, <2>1, <3>1 DEF Placement
  <2>8. sources' \subseteq SourcesOf(plan) \cup {Faux[i] : i \in 1 .. extraction.count}
        /\ \A d \in Folders : names'[d] \subseteq sources'
    BY <1>0, <2>1 DEF Placement
  <2>9. Placement'
    BY <1>0, <2>1, <2>3, <2>4, <2>7, <2>8 DEF Placement, loadVars
  <2>10. QED
    BY <2>6, <2>9 DEF MapInv
<1>3. CASE CancelExtraction
  <2>1. /\ extraction' = [extraction EXCEPT !.running = FALSE]
        /\ UNCHANGED <<loadVars, sources, map, names, folders, store, version, saved, misplaced>>
    BY <1>3 DEF CancelExtraction
  <2>2. /\ extraction' \in [count : 0 .. Len(Faux), running : BOOLEAN]
        /\ extraction'.count = extraction.count /\ extraction'.running = FALSE
    BY <1>0, <2>1 DEF TypeOK
  <2>3. TypeOK' /\ Placement'
    BY <1>0, <2>1, <2>2 DEF TypeOK, Placement, loadVars
  <2>4. QED
    BY <2>3 DEF MapInv
<1>4. QED
  BY <1>1, <1>2, <1>3 DEF Extraction

LEMMA StepKeepsMap == MapInv /\ [Next]_vars => MapInv'
<1> SUFFICES ASSUME MapInv, [Next]_vars PROVE MapInv'
  OBVIOUS
<1>1. CASE Next
  BY <1>1, LoadingKeepsMap, UsingKeepsMap, ExtractionKeepsMap DEF Next
<1>2. CASE UNCHANGED vars
  BY <1>2 DEF MapInv, TypeOK, Placement, vars, loadVars
<1>3. QED
  BY <1>1, <1>2

LEMMA MapInvariant == Spec => []MapInv
BY InitIsPlaced, StepKeepsMap, PTL DEF Spec

\* The tree of a mod, its sources and their stores are what the code declares them to be,
\* for any files, loads and extractions.
THEOREM TypeCorrect == Spec => []TypeOK
BY MapInvariant, PTL DEF MapInv

\* Every source a file is mapped to is registered and has a name in the folder of the
\* file, whatever was saved, extracted, erased or cancelled before (_OpenFile throws
\* otherwise).
THEOREM MappedOpens == Spec => []MappedFilesOpen
<1>1. MapInv => MappedFilesOpen
  BY DEF MapInv, Placement, MappedFilesOpen
<1>2. QED
  BY <1>1, MapInvariant, PTL

-----------------------------------------------------------------------------
\* What is read

\* An archive that was opened as a mod has nothing to save to but what an extraction left
\* behind; in any other mod nothing is extracted, and what was saved is the best source.
Latest ==
  \A f \in Files : saved[f] # 0 =>
    /\ Loaded
    /\ (\A s \in SourcesOf(plan) : s.sga) => Leftovers # {}
    /\ Leftovers = {} => map[f] # {} /\ Read(f) = saved[f]

LEMMA SaveKeepsLatest ==
  ASSUME MapInv, Latest, NEW f \in Files, Save(f)
  PROVE  Latest'
<1>1. PICK t \in Targets(f) : WriteTo(t, f)
  BY DEF Save
<1>2. /\ UNCHANGED <<plan, stage, sources, extraction>> /\ Loaded /\ ~extraction.running
      /\ saved' = [saved EXCEPT ![f] = version + 1]
      /\ store' = [store EXCEPT ![t] = [store[t] EXCEPT ![f] = version + 1]]
      /\ map' = IF t.pure THEN map ELSE [map EXCEPT ![f] = Put(map[f], t)]
      /\ TypeOK /\ Placement
  BY <1>1 DEF Save, CanWrite, WriteTo, loadVars, MapInv
<1>3. /\ t \in sources /\ t \in Sources /\ t \in SourceRecords
      /\ ~t.pure => \E s \in SourcesOf(plan) : ~s.sga
  BY TargetsAreSources
<1>4. Leftovers' = Leftovers /\ Loaded' /\ Leftovers = {s \in sources : s.pure}
  BY <1>2 DEF Leftovers, Current, Loaded
<1>5. t.pure => Leftovers # {}
  BY <1>3, <1>4
<1>6. ASSUME NEW g \in Files, saved'[g] # 0
      PROVE  (\A s \in SourcesOf(plan) : s.sga) => Leftovers # {}
  BY <1>3, <1>5
<1>7. ASSUME NEW g \in Files, saved'[g] # 0, Leftovers = {}
      PROVE  map'[g] # {} /\ Read(g)' = saved'[g]
  <2>1. ~t.pure /\ map' = [map EXCEPT ![f] = Put(map[f], t)]
    BY <1>2, <1>5, <1>7
  <2>2. CASE g = f
    <3>1. map[f] \in SUBSET SourceRecords /\ Sorted(map[f])
      BY <1>2, SourcesTyped DEF TypeOK, Placement
    <3>2. Best(Put(map[f], t)) = t /\ t \in Put(map[f], t)
      BY <1>3, <3>1, TargetIsBest
    <3>3. map'[f] = Put(map[f], t) /\ store'[t][f] = version + 1 /\ saved'[f] = version + 1
      BY <1>2, <1>3, <2>1 DEF TypeOK
    <3>4. Read(f)' = store'[Best(map'[f])][f]
      BY DEF Read
    <3>5. QED
      BY <2>2, <3>2, <3>3, <3>4
  <2>3. CASE g # f
    <3>1. map'[g] = map[g] /\ saved'[g] = saved[g]
      BY <1>2, <2>1, <2>3 DEF TypeOK
    <3>2. map[g] # {} /\ Read(g) = saved[g]
      BY <1>7, <3>1 DEF Latest
    <3>3. Best(map[g]) \in Sources
      BY <1>2, <3>2, BestIsFirst DEF TypeOK, Placement
    <3>4. store'[Best(map[g])][g] = store[Best(map[g])][g]
      BY <1>2, <1>3, <2>3, <3>3 DEF TypeOK
    <3>5. Read(g)' = store'[Best(map'[g])][g]
      BY DEF Read
    <3>6. QED
      BY <3>1, <3>2, <3>4, <3>5 DEF Read
  <2>4. QED
    BY <2>2, <2>3
<1>8. plan' = plan
  BY <1>2
<1>9. QED
  BY <1>4, <1>6, <1>7, <1>8 DEF Latest

LEMMA ExtractionsKeepLatest ==
  ASSUME MapInv, Latest, Extraction \/ \E f \in Files : Extract(f)
  PROVE  Latest'
<1>0. TypeOK /\ Placement /\ extraction.count \in Nat
  BY SourcesTyped DEF MapInv, TypeOK
<1>1. UNCHANGED <<plan, stage, saved>>
  BY DEF Extraction, BeginExtraction, CompleteExtraction, CancelExtraction, Extract, loadVars
<1>2. \A s \in SourcesOf(plan) : s.sga
  BY <1>0, CurrentIsApart DEF MapInv, Extraction, BeginExtraction, CompleteExtraction,
       CancelExtraction, Extract
<1>3. Leftovers \subseteq Leftovers'
  <2>1. CASE BeginExtraction
    <3>1. /\ ~extraction.running /\ extraction.count < Len(Faux)
          /\ sources' = sources \cup {Faux[extraction.count + 1]}
          /\ extraction' = [count |-> extraction.count + 1, running |-> TRUE]
      BY <2>1 DEF BeginExtraction
    <3>2. extraction'.count = extraction.count + 1 /\ extraction'.running = TRUE
      BY <3>1
    <3>3. Current' = Faux[extraction.count + 1]
      BY <3>2 DEF Current
    <3>4. extraction.count + 1 \in DOMAIN Faux /\ 1 .. extraction.count \subseteq DOMAIN Faux
          /\ extraction.count + 1 \notin 1 .. extraction.count
      BY <1>0, <3>1, SourcesTyped
    <3>5. Faux[extraction.count + 1] \notin sources
      <4>1. Faux[extraction.count + 1] \notin {Faux[i] : i \in 1 .. extraction.count}
        BY <3>4, FileMapAssumption
      <4>2. Faux[extraction.count + 1] \notin SourcesOf(plan)
        BY <1>0, <3>4, SourcesTyped, FileMapAssumption DEF TypeOK
      <4>3. QED
        BY <1>0, <4>1, <4>2 DEF Placement
    <3>6. Leftovers = {s \in sources : s.pure}
      BY <3>1 DEF Leftovers
    <3>7. Leftovers' = {s \in sources' : s.pure} \ {Current'}
      BY <3>2 DEF Leftovers
    <3>8. QED
      BY <3>1, <3>3, <3>5, <3>6, <3>7
  <2>2. CASE CompleteExtraction
    <3>1. extraction.running /\ sources' = sources \ {Current}
          /\ extraction' = [extraction EXCEPT !.running = FALSE]
      BY <2>2 DEF CompleteExtraction, Erase
    <3>2. extraction'.running = FALSE
      BY <1>0, <3>1 DEF TypeOK
    <3>3. Leftovers = {s \in sources : s.pure} \ {Current}
      BY <3>1 DEF Leftovers
    <3>4. Leftovers' = {s \in sources' : s.pure}
      BY <3>2 DEF Leftovers
    <3>5. QED
      BY <3>1, <3>3, <3>4
  <2>3. CASE CancelExtraction
    <3>1. sources' = sources /\ extraction' = [extraction EXCEPT !.running = FALSE]
      BY <2>3 DEF CancelExtraction
    <3>2. extraction'.running = FALSE
      BY <1>0, <3>1 DEF TypeOK
    <3>3. Leftovers \subseteq {s \in sources : s.pure}
      BY DEF Leftovers
    <3>4. Leftovers' = {s \in sources' : s.pure}
      BY <3>2 DEF Leftovers
    <3>5. QED
      BY <3>1, <3>3, <3>4
  <2>4. CASE \E f \in Files : Extract(f)
    BY <2>4 DEF Extract, Leftovers, Current
  <2>5. QED
    BY <2>1, <2>2, <2>3, <2>4 DEF Extraction
<1>4. ASSUME NEW f \in Files, saved'[f] # 0 PROVE Loaded' /\ Leftovers' # {}
  BY <1>1, <1>2, <1>3, <1>4 DEF Latest, Loaded
<1>5. QED
  BY <1>4 DEF Latest

LEMMA StepKeepsLatest == MapInv /\ Latest /\ [Next]_vars => Latest'
<1> SUFFICES ASSUME MapInv, Latest, [Next]_vars PROVE Latest'
  OBVIOUS
<1>1. CASE Loading
  <2>1. Len(plan) \in Nat /\ stage \in Nat
    BY FileMapAssumption DEF MapInv, TypeOK
  <2>2. ~Loaded /\ saved' = saved
    BY <1>1, <2>1 DEF Loading, NextModule, Register, MapSource, Skip, HasNext, Loaded
  <2>3. \A f \in Files : saved'[f] = 0
    BY <2>2 DEF Latest
  <2>4. QED
    BY <2>3 DEF Latest
<1>2. CASE UNCHANGED <<loadVars, sources, map, store, saved, extraction>>
  BY <1>2 DEF Latest, Loaded, Leftovers, Current, Read, loadVars
<1>3. ASSUME NEW f \in Files, Open(f) \/ SaveFails(f) PROVE Latest'
  BY <1>2, <1>3 DEF Open, SaveFails
<1>4. CASE UNCHANGED vars
  BY <1>2, <1>4 DEF vars
<1>5. QED
  BY <1>1, <1>3, <1>4, SaveKeepsLatest, ExtractionsKeepLatest DEF Next, Using

\* As long as no cancelled extraction has left its source behind, a file that was saved is
\* read as it was saved last, whichever source it came from before, and however the sort
\* numbers order the sources.
THEOREM SavedIsRead == Spec => []ReadYourWrites
<1>1. Init => Latest
  BY DEF Init, Latest
<1>2. Latest => ReadYourWrites
  BY DEF Latest, ReadYourWrites
<1>3. QED
  BY <1>1, <1>2, MapInvariant, StepKeepsLatest, PTL DEF Spec

-----------------------------------------------------------------------------
\* What the load maps

\* The phases have been at the place a.
IsDone(a) ==
  \/ a[1] < stage
  \/ a[1] = stage /\ a[3] <= done[a[2]]

Offers(a, f) == IsDone(a) /\ f \in origin[At(a)]

\* Of the sources that have the file, the first of each sort number.
Mapped(f) ==
  /\ \A a \in Places : Offers(a, f) => \E s \in map[f] : SameKey(At(a), s)
  /\ \A s \in map[f] : \E a \in Places :
       /\ Offers(a, f) /\ At(a) = s
       /\ \A b \in Places : Offers(b, f) /\ SameKey(At(b), s) => a = b \/ Earlier(a, b)

Progress == \A f \in Files : saved[f] = 0 => Mapped(f)

LEMMA PlaceFields ==
  ASSUME TypeOK, NEW a \in Places
  PROVE  /\ a[1] \in DOMAIN plan /\ a[1] \in Nat /\ a[1] <= Len(plan)
         /\ a[2] \in Phases
         /\ a[3] \in Nat \ {0} /\ a[3] <= Len(plan[a[1]][a[2]])
         /\ a = <<a[1], a[2], a[3]>>
         /\ At(a) \in SourceRecords /\ (At(a).sga <=> a[2] = "archives")
<1>1. PICK k \in DOMAIN plan, p \in Phases : \E i \in DOMAIN plan[k][p] : a = <<k, p, i>>
  BY DEF Places, PlacesIn
<1>2. PICK i \in DOMAIN plan[k][p] : a = <<k, p, i>>
  BY <1>1
<1>3. plan \in Plans
  BY DEF TypeOK
<1>4. k \in 1 .. Len(plan) /\ Len(plan) \in Nat
  <2>1. PICK M : plan \in Seq(M)
    BY <1>3, FileMapAssumption
  <2>2. QED
    BY <2>1
<1>5. CASE p = "folders"
  <2>1. plan[k].folders \in Seq(OfLoad(FALSE)) /\ plan[k].folders[i] \in OfLoad(FALSE)
    BY <1>2, <1>3, <1>5, PlanFields
  <2>2. i \in 1 .. Len(plan[k].folders) /\ Len(plan[k].folders) \in Nat
    BY <1>2, <1>5, <2>1, ElementOfSeq
  <2>3. At(a) \in SourceRecords /\ ~At(a).sga
    BY <1>2, <1>5, <2>1 DEF At, OfLoad
  <2>4. QED
    BY <1>2, <1>4, <1>5, <2>2, <2>3
<1>6. CASE p = "archives"
  <2>1. plan[k].archives \in Seq(OfLoad(TRUE)) /\ plan[k].archives[i] \in OfLoad(TRUE)
    BY <1>2, <1>3, <1>6, PlanFields
  <2>2. i \in 1 .. Len(plan[k].archives) /\ Len(plan[k].archives) \in Nat
    BY <1>2, <1>6, <2>1, ElementOfSeq
  <2>3. At(a) \in SourceRecords /\ At(a).sga
    BY <1>2, <1>6, <2>1 DEF At, OfLoad
  <2>4. QED
    BY <1>2, <1>4, <1>6, <2>2, <2>3
<1>7. QED
  BY <1>5, <1>6 DEF Phases

LEMMA UpcomingPlace ==
  ASSUME TypeOK, NEW p \in Phases, HasNext(p), NEW c, c = <<stage, p, done[p] + 1>>
  PROVE  c \in Places /\ At(c) = Upcoming(p)
<1>1. plan \in Plans /\ done[p] \in Nat /\ stage \in DOMAIN plan
  <2>1. PICK M : plan \in Seq(M)
    BY FileMapAssumption DEF TypeOK
  <2>2. QED
    BY <2>1 DEF TypeOK, HasNext
<1>2. PICK A, B : plan[stage].folders \in Seq(A) /\ plan[stage].archives \in Seq(B)
  BY <1>1, PlanFields
<1>3. done[p] + 1 \in DOMAIN plan[stage][p]
  <2>1. CASE p = "folders"
    BY <1>1, <1>2, <2>1 DEF HasNext
  <2>2. CASE p = "archives"
    BY <1>1, <1>2, <2>2 DEF HasNext
  <2>3. QED
    BY <2>1, <2>2 DEF Phases
<1>4. c \in Places
  <2>1. c \in {stage} \X {p} \X DOMAIN plan[stage][p]
    BY <1>3
  <2>2. c \in PlacesIn(p)
    BY <1>1, <2>1 DEF PlacesIn
  <2>3. QED
    BY <2>2 DEF Places
<1>5. QED
  BY <1>4 DEF At, Upcoming

\* Mapping the next source of a phase, or skipping it because it has nothing.
LEMMA MapsNext ==
  ASSUME MapInv, Progress, NEW p \in Phases, MapSource(p)
  PROVE  Progress'
<1>0. TypeOK /\ HasNext(p) /\ done[p] \in Nat /\ stage \in Nat
      /\ UNCHANGED <<plan, stage, origin, saved>> /\ done' = [done EXCEPT ![p] = done[p] + 1]
  BY FileMapAssumption DEF MapSource, MapInv, TypeOK
<1>1. PICK c, s : c = <<stage, p, done[p] + 1>> /\ s = Upcoming(p)
  OBVIOUS
<1>2. c \in Places /\ At(c) = s /\ c[1] = stage /\ c[2] = p /\ c[3] = done[p] + 1
  BY <1>0, <1>1, UpcomingPlace
<1>3. \A b \in Places : IsDone(b)' <=> IsDone(b) \/ b = c
  <2>1. SUFFICES ASSUME NEW b \in Places PROVE IsDone(b)' <=> IsDone(b) \/ b = c
    OBVIOUS
  <2>2. b[1] \in Nat /\ b[2] \in Phases /\ b[3] \in Nat /\ b = <<b[1], b[2], b[3]>>
    BY <1>0, PlaceFields
  <2>3. b = c <=> b[1] = stage /\ b[2] = p /\ b[3] = done[p] + 1
    BY <1>1, <1>2, <2>2
  <2>4. done'[b[2]] = IF b[2] = p THEN done[p] + 1 ELSE done[b[2]]
    BY <1>0, <2>2 DEF TypeOK
  <2>5. IsDone(b)' <=> b[1] < stage \/ (b[1] = stage /\ b[3] <= done'[b[2]])
    BY <1>0 DEF IsDone
  <2>6. done[b[2]] \in Nat
    BY <1>0, <2>2 DEF TypeOK
  <2>7. QED
    BY <1>0, <2>2, <2>3, <2>4, <2>5, <2>6 DEF IsDone
<1>4. ~IsDone(c)
  BY <1>0, <1>2 DEF IsDone
<1>5. Places' = Places /\ \A b : At(b)' = At(b)
  BY <1>0 DEF Places, PlacesIn, At
<1>6. \A a \in Places, f \in Files :
        Offers(a, f)' <=> Offers(a, f) \/ (a = c /\ f \in origin[s])
  BY <1>0, <1>2, <1>3, <1>5 DEF Offers
<1>7. \A b \in Places : IsDone(b) /\ SameKey(At(b), s) => Earlier(b, c)
  <2>1. SUFFICES ASSUME NEW b \in Places, IsDone(b), SameKey(At(b), At(c)) PROVE Earlier(b, c)
    BY <1>2
  <2>2. /\ b[1] \in Nat /\ b[2] \in Phases /\ b[3] \in Nat /\ (At(b).sga <=> b[2] = "archives")
        /\ (At(c).sga <=> c[2] = "archives")
    BY <1>0, <1>2, PlaceFields
  <2>3. b[2] = p
    BY <1>2, <2>1, <2>2 DEF SameKey, Phases
  <2>4. b[1] < stage \/ (b[1] = stage /\ b[3] <= done[p])
    BY <2>1, <2>3 DEF IsDone
  <2>5. QED
    BY <1>0, <1>2, <2>2, <2>3, <2>4 DEF Earlier
<1>8. SUFFICES ASSUME NEW f \in Files, saved[f] = 0 PROVE Mapped(f)'
  BY <1>0 DEF Progress
<1>9. Mapped(f)
  BY <1>8 DEF Progress
<1>10. map'[f] = IF f \in origin[s] THEN Put(map[f], s) ELSE map[f]
  BY <1>1 DEF MapSource
<1>11. map[f] \subseteq map'[f]
  BY <1>10 DEF Put
<1>12. \A a \in Places : Offers(a, f)' => \E t \in map'[f] : SameKey(At(a), t)
  <2>1. f \in origin[s] => \E t \in map'[f] : SameKey(s, t)
    BY <1>10 DEF Put, SameKey
  <2>2. QED
    BY <1>2, <1>6, <1>9, <1>11, <2>1 DEF Mapped
<1>13. ASSUME NEW t \in map'[f]
       PROVE  \E a \in Places : /\ Offers(a, f)' /\ At(a) = t
                                /\ \A b \in Places : Offers(b, f)' /\ SameKey(At(b), t) =>
                                     a = b \/ Earlier(a, b)
  <2>1. CASE t \in map[f]
    <3>1. PICK a \in Places :
            /\ Offers(a, f) /\ At(a) = t
            /\ \A b \in Places : Offers(b, f) /\ SameKey(At(b), t) => a = b \/ Earlier(a, b)
      BY <1>9, <2>1 DEF Mapped
    <3>2. SameKey(At(c), t) => Earlier(a, c)
      BY <1>2, <1>7, <3>1 DEF SameKey, Offers
    <3>3. QED
      BY <1>6, <3>1, <3>2
  <2>2. CASE t \notin map[f]
    <3>1. t = s /\ f \in origin[s] /\ \A u \in map[f] : ~SameKey(s, u)
      BY <1>10, <2>2 DEF Put
    <3>2. \A b \in Places : Offers(b, f) => ~SameKey(At(b), s)
      BY <1>9, <3>1 DEF Mapped, SameKey
    <3>3. QED
      BY <1>2, <1>6, <3>1, <3>2
  <2>3. QED
    BY <2>1, <2>2
<1>14. QED
  BY <1>5, <1>12, <1>13 DEF Mapped

LEMMA SkipsNext ==
  ASSUME MapInv, Progress, NEW p \in Phases, Skip(p)
  PROVE  Progress'
<1>0. TypeOK /\ HasNext(p) /\ done[p] \in Nat /\ stage \in Nat /\ origin[Upcoming(p)] = {}
      /\ UNCHANGED <<plan, stage, origin, saved, map>> /\ done' = [done EXCEPT ![p] = done[p] + 1]
  BY FileMapAssumption DEF Skip, MapInv, TypeOK
<1>1. PICK c : c = <<stage, p, done[p] + 1>>
  OBVIOUS
<1>2. c \in Places /\ At(c) = Upcoming(p)
  BY <1>0, <1>1, UpcomingPlace
<1>3. \A b \in Places : b # c => (IsDone(b)' <=> IsDone(b))
  <2>1. SUFFICES ASSUME NEW b \in Places, b # c PROVE IsDone(b)' <=> IsDone(b)
    OBVIOUS
  <2>2. b[1] \in Nat /\ b[2] \in Phases /\ b[3] \in Nat /\ b = <<b[1], b[2], b[3]>>
    BY <1>0, PlaceFields
  <2>3. ~(b[1] = stage /\ b[2] = p /\ b[3] = done[p] + 1)
    BY <1>1, <2>1, <2>2
  <2>4. done'[b[2]] = IF b[2] = p THEN done[p] + 1 ELSE done[b[2]]
    BY <1>0, <2>2 DEF TypeOK
  <2>5. IsDone(b)' <=> b[1] < stage \/ (b[1] = stage /\ b[3] <= done'[b[2]])
    BY <1>0 DEF IsDone
  <2>6. done[b[2]] \in Nat
    BY <1>0, <2>2 DEF TypeOK
  <2>7. QED
    BY <1>0, <2>2, <2>3, <2>4, <2>5, <2>6 DEF IsDone
<1>4. Places' = Places /\ \A b : At(b)' = At(b)
  BY <1>0 DEF Places, PlacesIn, At
<1>5. \A a \in Places, f \in Files : Offers(a, f)' <=> Offers(a, f)
  BY <1>0, <1>2, <1>3, <1>4 DEF Offers
<1>6. QED
  BY <1>0, <1>4, <1>5 DEF Progress, Mapped

LEMMA GoesOn ==
  ASSUME MapInv, Progress, NextModule
  PROVE  Progress'
<1>0. TypeOK /\ stage \in Nat /\ stage <= Len(plan) /\ stage' = stage + 1
      /\ done' = [q \in Phases |-> 0] /\ UNCHANGED <<plan, origin, saved, map>>
      /\ \A q \in Phases : ~HasNext(q)
  BY FileMapAssumption DEF NextModule, MapInv, TypeOK
<1>1. \A b \in Places : IsDone(b)' <=> IsDone(b)
  <2>1. SUFFICES ASSUME NEW b \in Places PROVE IsDone(b)' <=> IsDone(b)
    OBVIOUS
  <2>2. /\ b[1] \in Nat /\ b[2] \in Phases /\ b[3] \in Nat \ {0}
        /\ b[3] <= Len(plan[b[1]][b[2]]) /\ done[b[2]] \in Nat
    BY <1>0, PlaceFields DEF TypeOK
  <2>3. IsDone(b)' <=> b[1] < stage + 1
    <3>1. IsDone(b)' <=> b[1] < stage + 1 \/ (b[1] = stage + 1 /\ b[3] <= 0)
      BY <1>0, <2>2 DEF IsDone
    <3>2. QED
      BY <1>0, <2>2, <3>1
  <2>4. ASSUME b[1] = stage PROVE b[3] <= done[b[2]]
    <3>1. PICK n \in Nat : n = Len(plan[stage][b[2]])
      <4>1. plan \in Plans /\ stage \in DOMAIN plan
        BY <1>0, <2>1, <2>4, PlaceFields DEF TypeOK
      <4>2. PICK A, B : plan[stage].folders \in Seq(A) /\ plan[stage].archives \in Seq(B)
        BY <4>1, PlanFields
      <4>3. Len(plan[stage].folders) \in Nat /\ Len(plan[stage].archives) \in Nat
        BY <4>2
      <4>4. QED
        BY <2>2, <4>3 DEF Phases
    <3>2. ~(done[b[2]] < n)
      BY <1>0, <2>2, <3>1 DEF HasNext
    <3>3. QED
      BY <2>2, <2>4, <3>1, <3>2
  <2>5. QED
    BY <1>0, <2>2, <2>3, <2>4 DEF IsDone
<1>2. Places' = Places /\ \A b : At(b)' = At(b)
  BY <1>0 DEF Places, PlacesIn, At
<1>3. \A a \in Places, f \in Files : Offers(a, f)' <=> Offers(a, f)
  BY <1>0, <1>1, <1>2 DEF Offers
<1>4. QED
  BY <1>0, <1>2, <1>3 DEF Progress, Mapped

\* After the load, only a save maps a file elsewhere: extractions write to pure outputs.
LEMMA StepKeepsProgress == MapInv /\ Progress /\ [Next]_vars => Progress'
<1> SUFFICES ASSUME MapInv, Progress, [Next]_vars PROVE Progress'
  OBVIOUS
<1>1. ASSUME UNCHANGED loadVars,
             \A f \in Files : saved'[f] = 0 => saved[f] = 0 /\ map'[f] = map[f]
      PROVE  Progress'
  <2>1. Places' = Places /\ (\A b : At(b)' = At(b)) /\ \A a, f : Offers(a, f)' <=> Offers(a, f)
    BY <1>1 DEF Places, PlacesIn, At, Offers, IsDone, loadVars
  <2>2. QED
    BY <1>1, <2>1 DEF Progress, Mapped
<1>2. CASE Loading
  <2>1. ASSUME NEW p \in Phases, Register(p) PROVE Progress'
    BY <1>1, <2>1 DEF Register
  <2>2. QED
    BY <1>2, <2>1, MapsNext, SkipsNext, GoesOn DEF Loading
<1>3. ASSUME NEW f \in Files, Save(f) PROVE Progress'
  <2>1. PICK t \in Targets(f) : WriteTo(t, f)
    BY <1>3 DEF Save
  <2>2. /\ UNCHANGED loadVars /\ saved' = [saved EXCEPT ![f] = version + 1]
        /\ map' = IF t.pure THEN map ELSE [map EXCEPT ![f] = Put(map[f], t)]
        /\ version \in Nat /\ saved \in [Files -> Nat] /\ map \in [Files -> SUBSET Sources]
    BY <1>3, <2>1 DEF Save, WriteTo, MapInv, TypeOK
  <2>3. \A g \in Files : saved'[g] = 0 => saved[g] = 0 /\ map'[g] = map[g]
    BY <2>2
  <2>4. QED
    BY <1>1, <2>2, <2>3
<1>4. ASSUME NEW f \in Files, Extract(f) PROVE Progress'
  <2>1. PICK t \in Targets(f) : WriteTo(t, f)
    BY <1>4 DEF Extract
  <2>2. t.pure
    BY <1>4, TargetsAreSources, CurrentIsApart DEF Extract
  <2>3. UNCHANGED <<loadVars, saved, map>>
    BY <1>4, <2>1, <2>2 DEF Extract, WriteTo
  <2>4. QED
    BY <1>1, <2>3
<1>5. CASE CompleteExtraction
  <2>1. map' = [f \in Files |-> {t \in map[f] : ~SameKey(Current, t)}] /\ extraction.running
        /\ UNCHANGED <<loadVars, saved>>
    BY <1>5 DEF CompleteExtraction, Erase
  <2>2. \A f \in Files : map'[f] = map[f]
    BY <2>1, CurrentIsApart DEF MapInv, Placement
  <2>3. QED
    BY <1>1, <2>1, <2>2
<1>6. CASE UNCHANGED <<loadVars, saved, map>>
  BY <1>1, <1>6
<1>7. ASSUME NEW f \in Files, Open(f) \/ SaveFails(f) PROVE Progress'
  BY <1>6, <1>7 DEF Open, SaveFails
<1>8. CASE BeginExtraction \/ CancelExtraction
  BY <1>6, <1>8 DEF BeginExtraction, CancelExtraction
<1>9. CASE UNCHANGED vars
  BY <1>6, <1>9 DEF vars
<1>10. QED
  BY <1>2, <1>3, <1>4, <1>5, <1>7, <1>8, <1>9 DEF Next, Using, Extraction

LEMMA ProgressIsEnough ==
  ASSUME MapInv, Progress
  PROVE  ParallelIsSequential
<1>1. SUFFICES ASSUME Loaded, NEW f \in Files, saved[f] = 0, NEW having, NEW first,
                      having = {a \in Places : f \in origin[At(a)]},
                      first = CHOOSE a \in having :
                                \A b \in having : \/ Precedes(At(a), At(b))
                                                  \/ SameKey(At(a), At(b)) /\ (a = b \/ Earlier(a, b))
               PROVE  IF having = {} THEN map[f] = {} ELSE Best(map[f]) = At(first)
  BY DEF ParallelIsSequential
<1>2. TypeOK /\ Placement /\ Mapped(f)
  BY <1>1 DEF MapInv, Progress
<1>3. \A a \in Places : IsDone(a)
  <2>1. SUFFICES ASSUME NEW a \in Places PROVE IsDone(a)
    OBVIOUS
  <2>2. a[1] \in Nat /\ a[1] <= Len(plan) /\ Len(plan) < stage /\ stage \in Nat
    BY <1>1, <1>2, PlaceFields DEF Loaded, TypeOK
  <2>3. Len(plan) \in Nat
    BY <1>2, FileMapAssumption DEF TypeOK
  <2>4. QED
    BY <2>2, <2>3 DEF IsDone
<1>4. \A a \in Places : Offers(a, f) <=> a \in having
  BY <1>1, <1>3 DEF Offers
<1>5. CASE having = {}
  BY <1>2, <1>4, <1>5 DEF Mapped
<1>6. CASE having # {}
  <2>1. map[f] # {} /\ Sorted(map[f]) /\ map[f] \subseteq SourceRecords
    BY <1>1, <1>2, <1>4, <1>6, SourcesTyped DEF Mapped, Placement, TypeOK
  <2>2. PICK s : s = Best(map[f])
    OBVIOUS
  <2>3. s \in map[f] /\ \A t \in map[f] : ~Precedes(t, s)
    BY <2>1, <2>2, BestIsFirst
  <2>4. PICK a \in Places : /\ Offers(a, f) /\ At(a) = s
                            /\ \A b \in Places : Offers(b, f) /\ SameKey(At(b), s) =>
                                 a = b \/ Earlier(a, b)
    BY <1>2, <2>3 DEF Mapped
  <2>5. a \in having /\ \A b \in having : b \in Places /\ At(b) \in SourceRecords
    BY <1>1, <1>2, <1>4, <2>4, PlaceFields
  <2>6. ASSUME NEW b \in having
        PROVE  \/ Precedes(At(a), At(b))
               \/ SameKey(At(a), At(b)) /\ (a = b \/ Earlier(a, b))
    <3>1. PICK t \in map[f] : SameKey(At(b), t)
      BY <1>2, <1>4, <2>5, <2>6 DEF Mapped
    <3>2. s \in SourceRecords /\ t \in SourceRecords /\ (Precedes(s, t) \/ SameKey(s, t))
      BY <2>1, <2>3, <3>1, TotalOrder
    <3>3. CASE Precedes(s, t)
      BY <2>4, <3>1, <3>3 DEF Precedes, SameKey
    <3>4. CASE SameKey(s, t)
      <4>1. SameKey(At(b), s) /\ SameKey(At(a), At(b))
        BY <2>4, <3>1, <3>4 DEF SameKey
      <4>2. QED
        BY <1>4, <2>4, <2>5, <4>1
    <3>5. QED
      BY <3>2, <3>3, <3>4
  <2>7. /\ first \in having
        /\ \/ Precedes(At(first), At(a))
           \/ SameKey(At(first), At(a)) /\ (first = a \/ Earlier(first, a))
    BY <1>1, <2>5, <2>6
  <2>8. \/ Precedes(At(a), At(first))
        \/ SameKey(At(a), At(first)) /\ (a = first \/ Earlier(a, first))
    BY <2>6, <2>7
  <2>9. ~(Earlier(a, first) /\ Earlier(first, a))
    <3>1. /\ a[1] \in Nat /\ first[1] \in Nat /\ a[3] \in Nat /\ first[3] \in Nat
      BY <1>2, <2>5, <2>7, PlaceFields
    <3>2. QED
      BY <3>1 DEF Earlier
  <2>10. /\ ~(Precedes(At(a), At(first)) /\ Precedes(At(first), At(a)))
         /\ ~(Precedes(At(a), At(first)) /\ SameKey(At(first), At(a)))
         /\ ~(Precedes(At(first), At(a)) /\ SameKey(At(a), At(first)))
    <3>1. At(a) \in SourceRecords /\ At(first) \in SourceRecords
      BY <2>5, <2>7
    <3>2. /\ At(a).mod \in Nat /\ At(first).mod \in Nat
          /\ At(a).num \in Nat /\ At(first).num \in Nat
      BY <3>1 DEF SourceRecords
    <3>3. QED
      BY <3>1, <3>2, TotalOrder DEF Precedes, SameKey
  <2>11. first = a
    BY <2>7, <2>8, <2>9, <2>10
  <2>12. QED
    BY <1>6, <2>2, <2>4, <2>11
<1>7. QED
  BY <1>5, <1>6

LEMMA InitProgress == Init => Progress
<1> SUFFICES ASSUME Init PROVE Progress
  OBVIOUS
<1>1. TypeOK
  BY InitIsPlaced DEF MapInv
<1>2. \A a \in Places : ~IsDone(a)
  <2>1. SUFFICES ASSUME NEW a \in Places PROVE ~IsDone(a)
    OBVIOUS
  <2>2. a[1] \in Nat \ {0} /\ a[2] \in Phases /\ a[3] \in Nat \ {0}
    <3>1. PICK M : plan \in Seq(M)
      BY <1>1, FileMapAssumption DEF TypeOK
    <3>2. QED
      BY <1>1, <3>1, PlaceFields
  <2>3. stage = 1 /\ done[a[2]] = 0
    BY <2>2 DEF Init
  <2>4. QED
    BY <2>2, <2>3 DEF IsDone
<1>3. \A f \in Files : map[f] = {}
  BY DEF Init
<1>4. QED
  BY <1>2, <1>3 DEF Progress, Mapped, Offers

\* Whatever the order in which the phases of the modules map their sources, the loaded tree
\* gives each file the source that a load without threads would give it, for any plan and
\* any sort numbers, until it is saved.
THEOREM ParallelLoad == Spec => []ParallelIsSequential
<1>1. MapInv /\ Progress => ParallelIsSequential
  BY ProgressIsEnough
<1>2. QED
  BY <1>1, InitProgress, MapInvariant, StepKeepsProgress, PTL DEF Spec

-----------------------------------------------------------------------------
\* Where is written

\* Every source has a store of its own.
StoresAreApart == store = [s \in Sources |-> store[s]]

\* Whatever target VOpenOutputStream settles on, _MakeFolderWritable has let pass
\* nothing but folders of this mod.
LEMMA TargetsAreOurs ==
  ASSUME NEW f, NEW t \in Targets(f)
  PROVE  t.mod = 0 /\ ~t.sga
BY DEF Targets, OutputsIn, Suitable, Writable

\* A write changes the store of its target only.
LEMMA OneStoreChanges ==
  ASSUME StoresAreApart, NEW f, NEW t \in Targets(f), WriteTo(t, f)
  PROVE  /\ StoresAreApart'
         /\ \A s \in Sources : store'[s] # store[s] => s.mod = 0 /\ ~s.sga
<1>1. store' = [store EXCEPT ![t][f] = version + 1]
  BY DEF WriteTo
<1>2. \A s \in Sources : s # t => store'[s] = store[s]
  BY <1>1 DEF StoresAreApart
<1>3. store' = [s \in Sources |-> store'[s]]
  BY <1>1 DEF StoresAreApart
<1>4. QED
  BY <1>2, <1>3, TargetsAreOurs DEF StoresAreApart

\* Each step leaves every store as it is or writes through a target.
LEMMA StepsWriteThroughTargets ==
  ASSUME [Next]_vars
  PROVE  UNCHANGED store \/ \E f \in Files : \E t \in Targets(f) : WriteTo(t, f)
<1>1. CASE Loading
  BY <1>1 DEF Loading, NextModule, Register, MapSource, Skip
<1>2. CASE Using
  BY <1>2 DEF Using, Open, Save, SaveFails, Extract
<1>3. CASE Extraction
  BY <1>3 DEF Extraction, BeginExtraction, CompleteExtraction, CancelExtraction
<1>4. CASE UNCHANGED vars
  BY <1>4 DEF vars
<1>5. QED
  BY <1>1, <1>2, <1>3, <1>4 DEF Next

\* Saving and extracting never write into an archive, a required mod or the
\* engine, however the sources are numbered and whichever of them are outputs.
THEOREM OnlyThisModIsWritten == Spec => WritesStayInThisMod
<1>1. Init => StoresAreApart
  BY DEF Init, StoresAreApart
<1>2. StoresAreApart /\ [Next]_vars =>
        /\ StoresAreApart'
        /\ [\A s \in Sources : store'[s] # store[s] => s.mod = 0 /\ ~s.sga]_vars
  <2> SUFFICES ASSUME StoresAreApart, [Next]_vars
               PROVE /\ StoresAreApart'
                     /\ \A s \in Sources : store'[s] # store[s] => s.mod = 0 /\ ~s.sga
    OBVIOUS
  <2>1. CASE UNCHANGED store
    BY <2>1 DEF StoresAreApart
  <2>2. CASE \E f \in Files : \E t \in Targets(f) : WriteTo(t, f)
    BY <2>2, OneStoreChanges
  <2>3. QED
    BY <2>1, <2>2, StepsWriteThroughTargets
<1>3. QED
  BY <1>1, <1>2, PTL DEF Spec, WritesStayInThisMod
=============================================================================
