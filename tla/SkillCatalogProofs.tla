-------------------------- MODULE SkillCatalogProofs --------------------------
(***************************************************************************)
(* SkillCatalog for every number of hosts, readers, collections, sources   *)
(* and loads and every pair of graces: what is served stays whole, what    *)
(* failed is kept, and no load litters the store.                          *)
(***************************************************************************)
EXTENDS SkillCatalog, TLAPS

-----------------------------------------------------------------------------
(* Types.                                                                  *)

\* Where a host works on a collection, and where it may yet publish.
Making == {"embedding", "carrying", "copying"}
Building == Making \cup {"building", "publishing"}

Places ==
  Building \cup {"idle", "reclaiming", "pruning", "scanning", "sweeping", "reading",
                 "acquiring", "discarding"}

Entry == [generation : Generations, sources : SUBSET Sources]
Entries == [Groups -> Entry \cup {None}]
Stamps == [Sources -> Nat \cup {None}]

CatalogRecord ==
  [revision : Nat, entries : Entries, retired : [Generations -> Nat \cup {None}]]

HostRecord ==
  [at : Places, registered : {None} \cup SUBSET Groups, tick : Nat,
   snap : CatalogRecord, left : SUBSET (Groups \cup Generations), attempt : Nat,
   failed : SUBSET Sources, got : [Sources -> SUBSET Groups],
   group : Groups \cup {None}, generation : Generations \cup {None}, since : Nat,
   live : Generations \cup {None}, built : SUBSET Generations, next : Entries,
   then : {None, "retry", "end"}]

QueryRecord ==
  [at : {"idle", "embedding", "searching"}, generation : Generations \cup {None},
   since : Nat, called : Nat]

SkillTypeOK ==
  /\ clock \in Nat
  /\ catalog \in CatalogRecord
  /\ points \in [Generations -> Stamps]
  /\ made \subseteq Generations
  /\ host \in [Hosts -> HostRecord]
  /\ reader \in [Readers -> QueryRecord]
  /\ loads \in Nat
  /\ written \in [Generations -> Stamps]
  /\ late \subseteq Generations
  /\ unsure \subseteq Generations

-----------------------------------------------------------------------------
(* The inductive invariant.                                                *)

Known(c) == Active(c) \cup Retired(c)

\* No vector is stored that was not reported written.
Within(n) == \A s \in Sources : points[n][s] # None => written[n][s] # None

\* A sweep that begins now or later can take n for an orphan.
Old(n) ==
  \E s \in Sources : written[n][s] # None /\ written[n][s] + OrphanGrace <= clock

\* A sweep that began at tick cannot.
Younger(n, tick) ==
  \A s \in Sources : written[n][s] # None => written[n][s] + OrphanGrace > tick

Good(n) == Within(n) /\ (points[n] = written[n] \/ Old(n))

\* The generations x builds or has built and may yet publish.
InUse(x) ==
  {n \in x.built : \/ x.at \in Making /\ n = x.generation
                   \/ \E g \in Groups : x.next[g] # None /\ x.next[g].generation = n}

Reads(r, n) == reader[r].at # "idle" /\ reader[r].generation = n

\* The grace of the catalog that query r read is over, whenever it ended.
Lapsed(r) == reader[r].since + RetiredGrace <= clock

\* Nobody serves n, builds it, or searches it within the grace: nor will anybody.
Dead(n) ==
  /\ n \in made /\ n \notin Active(catalog)
  /\ \A k \in Hosts : n \notin InUse(host[k])
  /\ \A r \in Readers : Reads(r, n) => Lapsed(r)

\* When the vectors of n go, only those are hurt that the properties leave out.
MayGo(n) ==
  /\ n \in Active(catalog) => n \in late
  /\ \A k \in Hosts : n \in InUse(host[k]) => Old(n)
  /\ \A r \in Readers : Reads(r, n) => n \in late \cup unsure \/ Lapsed(r)

\* A catalog that x read: as long as the revision is the same, so are the entries.
SnapOK(x) ==
  x.at \in Building \cup {"reclaiming", "pruning", "scanning", "acquiring"} =>
    /\ Active(x.snap) \subseteq made
    /\ x.snap.revision <= catalog.revision
    /\ Current(x.snap) => x.snap.entries = catalog.entries

\* What a sweep has still to delete may go, and what it takes for an orphan is not a
\* generation that was activated, in time, since it read the catalog.
SweepOK(x) ==
  /\ x.at \in {"reclaiming", "pruning", "scanning"} =>
       /\ x.tick <= clock
       /\ \A n \in Known(catalog) \ (Known(x.snap) \cup late) : Younger(n, x.tick)
  /\ x.at \in {"reclaiming", "pruning"} =>
       \A n \in Due(x.snap, x.tick) : Dead(n) /\ (n \notin x.left => points[n] = NoPoints)
  /\ x.at = "reclaiming" => x.left \subseteq Due(x.snap, x.tick)
  /\ x.at = "pruning" => x.left = {}
  /\ x.at = "sweeping" => \A n \in x.left : n \in made /\ MayGo(n)

\* What an attempt discards is not served, unless its publish threw.
DiscardOK(x) ==
  x.at = "discarding" =>
    /\ x.left \subseteq x.built
    /\ \A n \in x.left :
         /\ n \in Active(catalog) => n \in unsure
         /\ \A r \in Readers : Reads(r, n) => n \in unsure
    /\ \A n \in x.built \ x.left : points[n] = NoPoints \/ n \in Known(catalog)

\* What x builds is its own until it is published: nobody knows it, and what is stored
\* of it is what was written, unless a sweep could already take it for an orphan.
BuiltOK(x) ==
  /\ x.built \subseteq made
  /\ x.at \notin Building \cup {"discarding"} => x.built = {}
  /\ x.at \notin Building => x.next = NoEntries
  /\ x.at \in Building =>
       /\ x.built \cap (Known(catalog) \cup Active(x.snap)) = {}
       /\ \A r \in Readers, n \in x.built : ~Reads(r, n)
       /\ \A n \in InUse(x) :
            IF x.at = "embedding" /\ n = x.generation
            THEN points[n] = NoPoints /\ written[n] = NoPoints
            ELSE Good(n)

\* The entry of a group that is done: the prior one, or a fresh one that has what is
\* carried forward, if x can still publish it.
EntryOK(x, g) ==
  \/ x.next[g] = x.snap.entries[g]
  \/ /\ x.next[g] # None
     /\ x.next[g].generation \in x.built \ {x.generation}
     /\ x.next[g].sources = Owners(x, g)
     /\ Current(x.snap) =>
          \A s \in Carried(x, g) :
            points[x.snap.entries[g].generation][s] # None =>
              written[x.next[g].generation][s] # None

BuildOK(x) ==
  /\ x.at \in Building =>
       /\ x.left \subseteq Desired(x)
       /\ \A s \in x.failed : x.got[s] = {}
       /\ \A g \in Groups : IF g \in Desired(x) \ x.left THEN EntryOK(x, g)
                                                         ELSE x.next[g] = None
  /\ x.at = "publishing" => x.left = {}
  /\ x.at \in Making => x.group \in x.left /\ x.generation \in x.built
  /\ x.at \in {"carrying", "copying"} =>
       /\ Carried(x, x.group) # {}
       /\ \A s \in x.failed : written[x.generation][s] = None
  /\ x.at = "copying" /\ Current(x.snap) => x.live = x.snap.entries[x.group].generation

HostOK(x) == SnapOK(x) /\ SweepOK(x) /\ DiscardOK(x) /\ BuiltOK(x) /\ BuildOK(x)

\* What a query searches is served or was retired after it began, and whole.
ReaderOK(r) ==
  reader[r].at # "idle" =>
    LET n == reader[r].generation IN
    /\ n \in made /\ reader[r].since <= clock
    /\ \/ n \in Active(catalog)
       \/ n \in Retired(catalog) /\ catalog.retired[n] >= reader[r].since
       \/ Lapsed(r)
    /\ n \notin late \cup unsure /\ ~Lapsed(r) => points[n] = written[n]

StoreOK ==
  /\ \A n \in Generations \ made : points[n] = NoPoints /\ written[n] = NoPoints
  /\ Active(catalog) \cap Retired(catalog) = {}
  /\ Known(catalog) \subseteq made
  /\ \A n \in Active(catalog) : Within(n) /\ (n \notin late => points[n] = written[n])

Apart == \A h, k \in Hosts : h # k => host[h].built \cap host[k].built = {}

SkillInv ==
  /\ SkillTypeOK /\ StoreOK /\ Apart
  /\ \A r \in Readers : ReaderOK(r)
  /\ \A h \in Hosts : HostOK(host[h])

\* The publishes under way that may still commit.
Commitable(h) == host[h].at = "publishing" /\ Current(host[h].snap)

\* What such a publish retires it retires no earlier than the grace of any query counts.
Fenced ==
  \A h \in Hosts, r \in Readers :
    Commitable(h) /\ reader[r].at # "idle" => reader[r].since <= host[h].since

-----------------------------------------------------------------------------
(* What a step may do to the store.  A step owns generations W of one host *)
(* that may yet be published, or none; it writes and publishes no other.   *)

Owned(W) == W = {} \/ \E h \in Hosts : W \subseteq InUse(host[h])

CatalogMoves(W) ==
  /\ clock <= clock' /\ late \subseteq late' /\ unsure \subseteq unsure'
  /\ catalog.revision <= catalog'.revision
  /\ catalog'.revision = catalog.revision => catalog'.entries = catalog.entries
  /\ Active(catalog') \cap Retired(catalog') = {}
  /\ \A n \in Known(catalog') \ Known(catalog) :
       n \in W /\ written'[n] = written[n] /\ (n \in late' \/ Younger(n, clock))
  /\ \A n \in Active(catalog') \ Active(catalog) :
       /\ n \in W /\ points'[n] = points[n] /\ written'[n] = written[n]
       /\ Within(n) /\ (n \in late' \/ points[n] = written[n])
  /\ \A n \in Known(catalog) \ Known(catalog') : points[n] = NoPoints
  /\ \A n \in Active(catalog) :
       \/ n \in Active(catalog')
       \/ /\ n \in Retired(catalog')
          /\ \A r \in Readers : Reads(r, n)' => catalog'.retired[n] >= reader'[r].since
  /\ \A n \in Retired(catalog) :
       \/ n \in Retired(catalog') /\ catalog'.retired[n] = catalog.retired[n]
       \/ Dead(n)

StoreMoves(W) ==
  /\ made \subseteq made'
  /\ \A n \in Generations \ W :
       /\ written'[n] = written[n]
       /\ points'[n] = points[n] \/ (points'[n] = NoPoints /\ MayGo(n))
  /\ \A n \in W : Old(n) => Old(n)'
  /\ \A k \in Hosts : InUse(host'[k]) \cap made \subseteq InUse(host[k])

ReadersMove ==
  \A r \in Readers : reader'[r].at # "idle" =>
    \/ /\ reader[r].at # "idle"
       /\ reader'[r].generation = reader[r].generation
       /\ reader'[r].since = reader[r].since
    \/ reader'[r].generation \in Active(catalog) /\ reader'[r].since <= clock

Moves(W) == CatalogMoves(W) /\ StoreMoves(W) /\ ReadersMove

-----------------------------------------------------------------------------
(* Constants and types.                                                    *)

LEMMA GracesNat ==
  /\ RetiredGrace \in Nat /\ OrphanGrace \in Nat /\ RecallTimeout \in Nat
  /\ TickStep \in Nat /\ MaxClock \in Nat /\ MaxLoads \in Nat /\ MaxAttempts \in Nat
  /\ MaxAttempts > 0
  BY SkillAssumption DEF SkillAssumption

LEMMA NoneApart ==
  /\ None \notin Nat /\ None \notin Generations /\ None \notin Entry
  BY SkillAssumption DEF SkillAssumption, Entry

LEMMA CatalogFacts ==
  ASSUME NEW c \in CatalogRecord
  PROVE  /\ c.revision \in Nat /\ c.entries \in Entries
         /\ \A g \in Groups : c.entries[g] \in Entry \cup {None}
         /\ \A n \in Generations : c.retired[n] \in Nat \cup {None}
         /\ \A g \in Groups : c.entries[g] # None =>
              /\ c.entries[g].generation \in Generations
              /\ c.entries[g].sources \subseteq Sources
              /\ c.entries[g].generation \in Active(c)
         /\ Active(c) \subseteq Generations /\ Retired(c) \subseteq Generations
         /\ Known(c) \subseteq Generations
<1>1. c.revision \in Nat /\ c.entries \in Entries /\ c.retired \in [Generations -> Nat \cup {None}]
  BY DEF CatalogRecord
<1>2. \A g \in Groups : c.entries[g] \in Entry \cup {None}
  BY <1>1 DEF Entries
<1>3. \A g \in Groups : c.entries[g] # None =>
              /\ c.entries[g].generation \in Generations
              /\ c.entries[g].sources \subseteq Sources
              /\ c.entries[g].generation \in Active(c)
  BY <1>2 DEF Entry, Active, Listed
<1>4. Active(c) \subseteq Generations
  BY <1>3 DEF Active, Listed
<1>5. Retired(c) \subseteq Generations
  BY DEF Retired
<1> QED
  BY <1>1, <1>2, <1>3, <1>4, <1>5 DEF Known

LEMMA EntriesDecide ==
  ASSUME NEW c, NEW d, c.entries = d.entries
  PROVE  Active(c) = Active(d) /\ Listed(c) = Listed(d)
  BY DEF Active, Listed

\* Only a host that builds has generations in use, and they are of its own.
LEMMA InUseIsBuilt ==
  ASSUME NEW x \in HostRecord, BuiltOK(x)
  PROVE  /\ InUse(x) \subseteq x.built
         /\ \A n \in InUse(x) : x.at \in Building
<1>1. InUse(x) \subseteq x.built
  BY DEF InUse
<1>2. ASSUME NEW n \in InUse(x), x.at \notin Building
      PROVE  FALSE
  <2>1. x.next = NoEntries
    BY <1>2 DEF BuiltOK
  <2> QED
    BY <1>2, <2>1 DEF InUse, NoEntries, Building
<1> QED
  BY <1>1, <1>2

\* What is owned is nobody else's, and neither known nor searched.
LEMMA OwnedIsOwn ==
  ASSUME SkillInv, NEW W, Owned(W), NEW n \in W
  PROVE  /\ n \in made /\ n \notin Known(catalog) /\ n \in Generations
         /\ \A r \in Readers : ~Reads(r, n)
         /\ ~Dead(n)
<1>1. PICK h \in Hosts : n \in InUse(host[h])
  BY DEF Owned
<1>2. host[h] \in HostRecord /\ BuiltOK(host[h])
  BY DEF SkillInv, SkillTypeOK, HostOK
<1>3. host[h].at \in Building /\ n \in host[h].built
  BY <1>1, <1>2, InUseIsBuilt
<1> QED
  BY <1>1, <1>2, <1>3 DEF BuiltOK, Dead, SkillInv, SkillTypeOK

-----------------------------------------------------------------------------
(* What others rely on while somebody moves.                               *)

LEMMA ClockFacts ==
  ASSUME SkillInv, NEW W, Moves(W), SkillTypeOK'
  PROVE  /\ clock \in Nat /\ clock' \in Nat /\ clock <= clock'
         /\ \A n \in Generations : points[n] \in Stamps /\ written[n] \in Stamps
         /\ \A n \in Generations, s \in Sources :
              points[n][s] \in Nat \cup {None} /\ written[n][s] \in Nat \cup {None}
         /\ catalog \in CatalogRecord /\ catalog' \in CatalogRecord
         /\ \A r \in Readers : reader[r].since \in Nat /\ reader'[r].since \in Nat
  BY DEF SkillInv, SkillTypeOK, Moves, CatalogMoves, Stamps, QueryRecord

LEMMA LapsedStays ==
  ASSUME SkillInv, NEW W, Moves(W), SkillTypeOK', NEW r \in Readers, Lapsed(r),
         reader'[r].since = reader[r].since
  PROVE  Lapsed(r)'
  BY ClockFacts, GracesNat DEF Lapsed

LEMMA OldStays ==
  ASSUME SkillInv, NEW W, Owned(W), Moves(W), SkillTypeOK', NEW n \in Generations, Old(n)
  PROVE  Old(n)'
<1>1. CASE n \in W
  BY <1>1 DEF Moves, StoreMoves
<1>2. CASE n \notin W
  <2>1. written'[n] = written[n]
    BY <1>2 DEF Moves, StoreMoves
  <2> QED
    BY <2>1, ClockFacts, GracesNat DEF Old
<1> QED
  BY <1>1, <1>2

\* A query that goes on searches the same; a new one searches what is served.
LEMMA ReadsBefore ==
  ASSUME SkillInv, NEW W, Moves(W), NEW r \in Readers, NEW n, Reads(r, n)'
  PROVE  \/ Reads(r, n) /\ reader'[r].since = reader[r].since
         \/ n \in Active(catalog) /\ reader'[r].since <= clock
  BY DEF Reads, Moves, ReadersMove

LEMMA DeadStays ==
  ASSUME SkillInv, NEW W, Owned(W), Moves(W), SkillTypeOK', NEW n \in Generations, Dead(n)
  PROVE  Dead(n)'
<1>1. n \in made' /\ n \notin W
  BY OwnedIsOwn DEF Dead, Moves, StoreMoves
<1>2. n \notin Active(catalog')
  BY <1>1 DEF Dead, Moves, CatalogMoves
<1>3. \A k \in Hosts : n \notin InUse(host'[k])
  BY DEF Dead, Moves, StoreMoves
<1>4. ASSUME NEW r \in Readers, Reads(r, n)' PROVE Lapsed(r)'
  BY <1>4, ReadsBefore, LapsedStays DEF Dead
<1> QED
  BY <1>1, <1>2, <1>3, <1>4 DEF Dead

LEMMA MayGoStays ==
  ASSUME SkillInv, NEW W, Owned(W), Moves(W), SkillTypeOK', NEW n \in made, MayGo(n)
  PROVE  MayGo(n)'
<1>0. n \in Generations
  BY DEF SkillInv, SkillTypeOK
<1>1. ASSUME n \in Active(catalog') PROVE n \in late'
  <2>1. CASE n \in Active(catalog)
    BY <2>1 DEF MayGo, Moves, CatalogMoves
  <2>2. CASE n \notin Active(catalog)
    <3>1. n \in W
      BY <1>1, <2>2 DEF Moves, CatalogMoves
    <3>2. W # {} /\ n \notin Known(catalog)
      BY <3>1, OwnedIsOwn
    <3>3. PICK h \in Hosts : n \in InUse(host[h])
      BY <3>1, <3>2 DEF Owned
    <3>4. Old(n)
      BY <3>3 DEF MayGo
    <3>5. n \in late' \/ Younger(n, clock)
      BY <1>1, <3>2 DEF Moves, CatalogMoves, Known
    <3> QED
      BY <1>0, <3>4, <3>5, ClockFacts, GracesNat DEF Old, Younger
  <2> QED
    BY <2>1, <2>2
<1>2. ASSUME NEW k \in Hosts, n \in InUse(host'[k]) PROVE Old(n)'
  <2>1. n \in InUse(host[k])
    BY <1>2 DEF Moves, StoreMoves
  <2> QED
    BY <1>0, <2>1, OldStays DEF MayGo
<1>3. ASSUME NEW r \in Readers, Reads(r, n)'
      PROVE  n \in late' \cup unsure' \/ Lapsed(r)'
  <2>1. CASE Reads(r, n) /\ reader'[r].since = reader[r].since
    BY <2>1, LapsedStays DEF MayGo, Moves, CatalogMoves
  <2>2. CASE n \in Active(catalog)
    BY <2>2 DEF MayGo, Moves, CatalogMoves
  <2> QED
    BY <1>3, <2>1, <2>2, ReadsBefore
<1> QED
  BY <1>1, <1>2, <1>3 DEF MayGo

\* What is built stays good, whoever writes and deletes elsewhere.
LEMMA GoodStays ==
  ASSUME SkillInv, NEW W, Owned(W), Moves(W), SkillTypeOK', NEW h \in Hosts,
         NEW n \in InUse(host[h]), n \notin W, n \in Generations, Good(n)
  PROVE  Good(n)'
<1>1. written'[n] = written[n]
  BY DEF Moves, StoreMoves
<1>2. CASE points'[n] = points[n]
  BY <1>1, <1>2, OldStays DEF Good, Within
<1>3. CASE points'[n] = NoPoints /\ MayGo(n)
  <2>1. Old(n)'
    BY <1>3, OldStays DEF MayGo
  <2> QED
    BY <1>3, <2>1 DEF Good, Within, NoPoints
<1> QED
  BY <1>2, <1>3 DEF Moves, StoreMoves

-----------------------------------------------------------------------------
(* A host that does nothing keeps its part of the invariant.               *)

LEMMA SnapStays ==
  ASSUME SkillInv, NEW W, Moves(W), SkillTypeOK', NEW x \in HostRecord, SnapOK(x)
  PROVE  SnapOK(x)'
<1>1. x.snap \in CatalogRecord
  BY DEF HostRecord
<1>2. x.snap.revision \in Nat /\ catalog.revision \in Nat /\ catalog'.revision \in Nat
  BY <1>1, ClockFacts, CatalogFacts
<1>3. /\ made \subseteq made' /\ catalog.revision <= catalog'.revision
      /\ catalog'.revision = catalog.revision => catalog'.entries = catalog.entries
  BY DEF Moves, CatalogMoves, StoreMoves
<1> QED
  BY <1>2, <1>3 DEF SnapOK, Current

LEMMA CurrentWas ==
  ASSUME SkillInv, NEW W, Moves(W), SkillTypeOK', NEW x \in HostRecord, SnapOK(x),
         x.at \in Building, Current(x.snap)'
  PROVE  /\ Current(x.snap) /\ x.snap.entries = catalog.entries
         /\ Active(x.snap) = Active(catalog)
<1>1. x.snap.revision \in Nat /\ catalog.revision \in Nat /\ catalog'.revision \in Nat
  BY ClockFacts, CatalogFacts DEF HostRecord
<1>2. catalog.revision <= catalog'.revision
  BY DEF Moves, CatalogMoves
<1>3. Current(x.snap) /\ x.snap.entries = catalog.entries
  BY <1>1, <1>2 DEF Current, SnapOK
<1> QED
  BY <1>3, EntriesDecide

LEMMA YoungStays ==
  ASSUME SkillInv, NEW W, Owned(W), Moves(W), SkillTypeOK', NEW c, NEW tick \in Nat,
         tick <= clock,
         \A n \in Known(catalog) \ (Known(c) \cup late) : Younger(n, tick)
  PROVE  \A n \in Known(catalog') \ (Known(c) \cup late') : Younger(n, tick)'
<1> SUFFICES ASSUME NEW n \in Known(catalog') \ (Known(c) \cup late')
             PROVE  Younger(n, tick)'
  OBVIOUS
<1>0. n \in Generations /\ late \subseteq late'
  BY CatalogFacts DEF SkillTypeOK, Moves, CatalogMoves
<1>1. CASE n \in Known(catalog)
  <2>1. Younger(n, tick) /\ n \notin W
    BY <1>0, <1>1, OwnedIsOwn
  <2>2. written'[n] = written[n]
    BY <1>0, <2>1 DEF Moves, StoreMoves
  <2> QED
    BY <2>1, <2>2 DEF Younger
<1>2. CASE n \notin Known(catalog)
  <2>1. written'[n] = written[n] /\ Younger(n, clock)
    BY <1>2 DEF Moves, CatalogMoves
  <2> QED
    BY <1>0, <2>1, ClockFacts, GracesNat DEF Younger
<1> QED
  BY <1>1, <1>2

\* Vectors of dead generations do not come back.
LEMMA GoneStays ==
  ASSUME SkillInv, NEW W, Owned(W), Moves(W), NEW n \in Generations, Dead(n),
         points[n] = NoPoints
  PROVE  points'[n] = NoPoints
  BY OwnedIsOwn DEF Moves, StoreMoves

LEMMA SweepStays ==
  ASSUME SkillInv, NEW W, Owned(W), Moves(W), SkillTypeOK', NEW x \in HostRecord, SweepOK(x)
  PROVE  SweepOK(x)'
<1>0. x.tick \in Nat /\ x.snap \in CatalogRecord /\ clock \in Nat /\ clock' \in Nat
      /\ clock <= clock'
  BY ClockFacts DEF HostRecord
<1>1. ASSUME x.at \in {"reclaiming", "pruning", "scanning"}
      PROVE  /\ x.tick <= clock'
             /\ \A n \in Known(catalog') \ (Known(x.snap) \cup late') : Younger(n, x.tick)'
  BY <1>0, <1>1, YoungStays DEF SweepOK
<1>2. ASSUME x.at \in {"reclaiming", "pruning"}, NEW n \in Due(x.snap, x.tick)
      PROVE  Dead(n)' /\ (n \notin x.left => points'[n] = NoPoints)
  <2>1. n \in Generations
    BY DEF Due, Retired
  <2>2. Dead(n) /\ (n \notin x.left => points[n] = NoPoints)
    BY <1>2 DEF SweepOK
  <2> QED
    BY <2>1, <2>2, DeadStays, GoneStays
<1>3. ASSUME x.at = "sweeping", NEW n \in x.left
      PROVE  n \in made' /\ MayGo(n)'
  BY <1>3, MayGoStays DEF SweepOK, Moves, StoreMoves
<1>4. x.at = "reclaiming" => x.left \subseteq Due(x.snap, x.tick)
  BY DEF SweepOK
<1>5. x.at = "pruning" => x.left = {}
  BY DEF SweepOK
<1> QED
  BY <1>1, <1>2, <1>3, <1>4, <1>5 DEF SweepOK

LEMMA DiscardStays ==
  ASSUME SkillInv, NEW W, Owned(W), Moves(W), SkillTypeOK', NEW x \in HostRecord,
         x.built \cap W = {}, DiscardOK(x)
  PROVE  DiscardOK(x)'
<1> SUFFICES ASSUME x.at = "discarding"
             PROVE  DiscardOK(x)'
  BY DEF DiscardOK
<1>0. unsure \subseteq unsure' /\ x.built \subseteq Generations /\ x.left \subseteq x.built
  BY DEF HostRecord, Moves, CatalogMoves, DiscardOK
<1>1. ASSUME NEW n \in x.left, n \in Active(catalog')
      PROVE  n \in unsure'
  <2>1. n \notin W
    BY <1>0
  <2>2. n \in Active(catalog)
    BY <1>1, <2>1 DEF Moves, CatalogMoves
  <2> QED
    BY <1>0, <2>2 DEF DiscardOK
<1>2. ASSUME NEW n \in x.left, NEW r \in Readers, Reads(r, n)'
      PROVE  n \in unsure'
  BY <1>0, <1>2, ReadsBefore DEF DiscardOK
<1>3. ASSUME NEW n \in x.built \ x.left
      PROVE  points'[n] = NoPoints \/ n \in Known(catalog')
  <2>0. n \in Generations \ W
    BY <1>0
  <2>1. CASE points[n] = NoPoints
    BY <2>0, <2>1 DEF Moves, StoreMoves
  <2>2. CASE n \in Known(catalog)
    <3>1. n \in Known(catalog') \/ points[n] = NoPoints
      BY <2>2 DEF Moves, CatalogMoves
    <3> QED
      BY <2>0, <2>1, <3>1
  <2> QED
    BY <2>1, <2>2 DEF DiscardOK
<1> QED
  BY <1>0, <1>1, <1>2, <1>3 DEF DiscardOK

LEMMA BuiltStays ==
  ASSUME SkillInv, NEW W, Owned(W), Moves(W), SkillTypeOK', NEW h \in Hosts,
         NEW x \in HostRecord, x = host[h], x.built \cap W = {}, BuiltOK(x)
  PROVE  BuiltOK(x)'
<1>0. x.built \subseteq made /\ made \subseteq made' /\ x.built \subseteq Generations
  BY DEF BuiltOK, Moves, StoreMoves, HostRecord
<1>1. ASSUME x.at \in Building, NEW n \in x.built
      PROVE  /\ n \notin Known(catalog') /\ n \notin Active(x.snap)
             /\ \A r \in Readers : ~Reads(r, n)'
  <2>1. /\ n \notin W /\ n \notin Known(catalog) /\ n \notin Active(x.snap)
        /\ \A r \in Readers : ~Reads(r, n)
    BY <1>1 DEF BuiltOK
  <2>2. n \notin Known(catalog')
    BY <2>1 DEF Moves, CatalogMoves
  <2>3. \A r \in Readers : ~Reads(r, n)'
    BY <2>1, ReadsBefore DEF Known
  <2> QED
    BY <2>1, <2>2, <2>3
<1>2. ASSUME x.at \in Building, NEW n \in InUse(x)
      PROVE  IF x.at = "embedding" /\ n = x.generation
             THEN points'[n] = NoPoints /\ written'[n] = NoPoints
             ELSE Good(n)'
  <2>0. n \in x.built /\ n \in Generations \ W
    BY <1>0 DEF InUse
  <2>1. CASE x.at = "embedding" /\ n = x.generation
    <3>1. points[n] = NoPoints /\ written[n] = NoPoints
      BY <1>2, <2>1 DEF BuiltOK
    <3> QED
      BY <2>0, <2>1, <3>1 DEF Moves, StoreMoves
  <2>2. CASE ~(x.at = "embedding" /\ n = x.generation)
    <3>1. Good(n) /\ n \in InUse(host[h])
      BY <1>2, <2>2 DEF BuiltOK
    <3> QED
      BY <2>0, <2>2, <3>1, GoodStays
  <2> QED
    BY <2>1, <2>2
<1>3. /\ x.at \notin Building \cup {"discarding"} => x.built = {}
      /\ x.at \notin Building => x.next = NoEntries
  BY DEF BuiltOK
<1> QED
  BY <1>0, <1>1, <1>2, <1>3 DEF BuiltOK

LEMMA EntryStays ==
  ASSUME SkillInv, NEW W, Owned(W), Moves(W), SkillTypeOK', NEW x \in HostRecord,
         x.built \cap W = {}, x.at \in Building, SnapOK(x), NEW g \in Groups, EntryOK(x, g)
  PROVE  EntryOK(x, g)'
<1>1. ASSUME x.next[g] # None, x.next[g].generation \in x.built \ {x.generation},
             Current(x.snap)', NEW s \in Carried(x, g),
             points'[x.snap.entries[g].generation][s] # None,
             Current(x.snap) =>
               (points[x.snap.entries[g].generation][s] # None =>
                  written[x.next[g].generation][s] # None)
      PROVE  written'[x.next[g].generation][s] # None
  <2> DEFINE m == x.snap.entries[g].generation
             n == x.next[g].generation
  <2>1. Current(x.snap) /\ Active(x.snap) = Active(catalog)
    BY <1>1, CurrentWas
  <2>2. x.snap.entries[g] # None
    BY DEF Carried
  <2>3. m \in Active(catalog) /\ m \in Generations
    BY <2>1, <2>2, CatalogFacts DEF HostRecord
  <2>4. m \notin W
    BY <2>3, OwnedIsOwn DEF Known
  <2>5. n \in Generations \ W
    BY <1>1 DEF HostRecord
  <2>6. s \in Sources
    BY <2>2, CatalogFacts DEF Carried, HostRecord
  <2>7. points[m][s] # None
    BY <1>1, <2>3, <2>4, <2>6 DEF Moves, StoreMoves, NoPoints
  <2> QED
    BY <1>1, <2>1, <2>5, <2>7 DEF Moves, StoreMoves
<1> QED
  BY <1>1 DEF EntryOK

LEMMA BuildStays ==
  ASSUME SkillInv, NEW W, Owned(W), Moves(W), SkillTypeOK', NEW x \in HostRecord,
         x.built \cap W = {}, SnapOK(x), BuildOK(x)
  PROVE  BuildOK(x)'
<1>1. ASSUME x.at \in Building
      PROVE  \A g \in Groups : IF g \in Desired(x) \ x.left THEN EntryOK(x, g)'
                                                            ELSE x.next[g] = None
  BY <1>1, EntryStays DEF BuildOK
<1>2. ASSUME x.at \in {"carrying", "copying"}
      PROVE  \A s \in x.failed : written'[x.generation][s] = None
  <2>1. x.generation \in x.built /\ x.generation \in Generations \ W
    BY <1>2 DEF BuildOK, Making, HostRecord
  <2> QED
    BY <1>2, <2>1 DEF BuildOK, Moves, StoreMoves
<1>3. x.at = "copying" /\ Current(x.snap)' => x.live = x.snap.entries[x.group].generation
  BY CurrentWas DEF BuildOK, Building, Making
<1> QED
  BY <1>1, <1>2, <1>3 DEF BuildOK

LEMMA HostStays ==
  ASSUME SkillInv, NEW W, Owned(W), Moves(W), SkillTypeOK', NEW h \in Hosts,
         NEW x \in HostRecord, x = host[h], x.built \cap W = {}
  PROVE  HostOK(x)'
<1>1. HostOK(x)
  BY DEF SkillInv
<1> QED
  BY <1>1, SnapStays, SweepStays, DiscardStays, BuiltStays, BuildStays DEF HostOK

-----------------------------------------------------------------------------
(* A step keeps the invariant if the host that takes it keeps its part.    *)

LEMMA StoreStays ==
  ASSUME SkillInv, NEW W, Owned(W), Moves(W), SkillTypeOK'
  PROVE  StoreOK'
<1>0. /\ made \subseteq Generations /\ made \subseteq made' /\ late \subseteq late'
      /\ Active(catalog') \cap Retired(catalog') = {}
  BY DEF SkillInv, SkillTypeOK, Moves, CatalogMoves, StoreMoves
<1>1. ASSUME NEW n \in Generations \ made'
      PROVE  points'[n] = NoPoints /\ written'[n] = NoPoints
  <2>1. n \notin W /\ n \notin made
    BY <1>0, OwnedIsOwn
  <2> QED
    BY <2>1 DEF SkillInv, StoreOK, Moves, StoreMoves
<1>2. Known(catalog') \subseteq made'
  BY <1>0, OwnedIsOwn DEF SkillInv, StoreOK, Moves, CatalogMoves
<1>3. ASSUME NEW n \in Active(catalog')
      PROVE  Within(n)' /\ (n \notin late' => points'[n] = written'[n])
  <2>0. n \in Generations
    BY ClockFacts, CatalogFacts
  <2>1. CASE n \in Active(catalog)
    <3>1. n \notin W /\ Within(n) /\ (n \notin late => points[n] = written[n])
      BY <2>1, OwnedIsOwn DEF SkillInv, StoreOK, Known
    <3>2. /\ written'[n] = written[n]
          /\ points'[n] = points[n] \/ (points'[n] = NoPoints /\ n \in late)
      BY <2>0, <2>1, <3>1 DEF Moves, StoreMoves, MayGo
    <3> QED
      BY <1>0, <3>1, <3>2 DEF Within, NoPoints
  <2>2. CASE n \notin Active(catalog)
    BY <2>2 DEF Within, Moves, CatalogMoves
  <2> QED
    BY <2>1, <2>2
<1> QED
  BY <1>0, <1>1, <1>2, <1>3 DEF StoreOK

LEMMA ReaderStays ==
  ASSUME SkillInv, NEW W, Owned(W), Moves(W), SkillTypeOK', NEW r \in Readers
  PROVE  ReaderOK(r)'
<1> SUFFICES ASSUME NEW n, Reads(r, n)'
             PROVE  /\ n \in made' /\ reader'[r].since <= clock'
                    /\ \/ n \in Active(catalog')
                       \/ n \in Retired(catalog') /\ catalog'.retired[n] >= reader'[r].since
                       \/ Lapsed(r)'
                    /\ n \notin late' \cup unsure' /\ ~Lapsed(r)' => points'[n] = written'[n]
  BY DEF ReaderOK, Reads
<1>0. /\ made \subseteq Generations /\ made \subseteq made'
      /\ late \subseteq late' /\ unsure \subseteq unsure'
      /\ clock \in Nat /\ clock' \in Nat /\ clock <= clock'
      /\ reader[r].since \in Nat /\ reader'[r].since \in Nat
      /\ \A m \in Generations : catalog.retired[m] \in Nat \cup {None}
      /\ \A m \in Generations : catalog'.retired[m] \in Nat \cup {None}
  BY ClockFacts, CatalogFacts DEF SkillInv, SkillTypeOK, Moves, CatalogMoves, StoreMoves
<1>1. CASE n \in Active(catalog) /\ reader'[r].since <= clock
  <2>1. n \in made /\ n \in Generations /\ n \notin W
    BY <1>0, <1>1, OwnedIsOwn DEF SkillInv, StoreOK, Known
  <2>2. \/ n \in Active(catalog')
        \/ n \in Retired(catalog') /\ catalog'.retired[n] >= reader'[r].since
    BY <1>1 DEF Moves, CatalogMoves
  <2>3. n \notin late => points'[n] = written'[n]
    BY <1>1, <2>1 DEF SkillInv, StoreOK, Moves, StoreMoves, MayGo
  <2> QED
    BY <1>0, <1>1, <2>1, <2>2, <2>3
<1>2. CASE Reads(r, n) /\ reader'[r].since = reader[r].since
  <2>1. /\ n \in made /\ reader[r].since <= clock
        /\ \/ n \in Active(catalog)
           \/ n \in Retired(catalog) /\ catalog.retired[n] >= reader[r].since
           \/ Lapsed(r)
        /\ n \notin late \cup unsure /\ ~Lapsed(r) => points[n] = written[n]
    BY <1>2 DEF SkillInv, ReaderOK, Reads
  <2>2. n \in Generations /\ n \notin W
    BY <1>0, <1>2, <2>1, OwnedIsOwn
  <2>3. Lapsed(r) => Lapsed(r)'
    BY <1>2, LapsedStays
  <2>4. \/ n \in Active(catalog')
        \/ n \in Retired(catalog') /\ catalog'.retired[n] >= reader'[r].since
        \/ Lapsed(r)'
    <3>1. CASE n \in Active(catalog)
      BY <3>1 DEF Moves, CatalogMoves
    <3>2. CASE n \in Retired(catalog) /\ catalog.retired[n] >= reader[r].since
      <4>1. \/ n \in Retired(catalog') /\ catalog'.retired[n] = catalog.retired[n]
            \/ Dead(n)
        BY <3>2 DEF Moves, CatalogMoves
      <4>2. Dead(n) => Lapsed(r)
        BY <1>2 DEF Dead
      <4> QED
        BY <1>2, <2>3, <3>2, <4>1, <4>2
    <3> QED
      BY <2>1, <2>3, <3>1, <3>2
  <2>5. ASSUME n \notin late' \cup unsure', ~Lapsed(r)'
        PROVE  points'[n] = written'[n]
    <3>1. points[n] = written[n] /\ ~MayGo(n)
      BY <1>0, <1>2, <2>1, <2>3, <2>5 DEF MayGo
    <3> QED
      BY <2>2, <3>1 DEF Moves, StoreMoves
  <2> QED
    BY <1>0, <1>2, <2>1, <2>4, <2>5
<1> QED
  BY <1>1, <1>2, ReadsBefore

LEMMA MoveKeeps ==
  ASSUME SkillInv, NEW W, Owned(W), Moves(W), SkillTypeOK', NEW h \in Hosts,
         NEW y \in HostRecord, host' = [host EXCEPT ![h] = y],
         W \subseteq host[h].built,
         y.built \subseteq host[h].built \cup (Generations \ made), HostOK(y)'
  PROVE  SkillInv'
<1>0. host \in [Hosts -> HostRecord]
  BY DEF SkillInv, SkillTypeOK
<1>1. \A k \in Hosts : host[k].built \subseteq made
  BY DEF SkillInv, HostOK, BuiltOK
<1>2. \A k \in Hosts : host'[k] = IF k = h THEN y ELSE host[k]
  BY <1>0
<1>3. Apart'
  <2>1. \A k \in Hosts \ {h} : y.built \cap host[k].built = {}
    BY <1>1 DEF SkillInv, Apart
  <2> QED
    BY <1>2, <2>1 DEF SkillInv, Apart
<1>4. ASSUME NEW k \in Hosts
      PROVE  HostOK(host[k])'
  <2>1. CASE k = h
    BY <1>2, <2>1
  <2>2. CASE k # h
    <3>1. PICK x \in HostRecord : x = host[k]
      BY <1>0
    <3>2. x.built \cap W = {}
      BY <2>2, <3>1 DEF SkillInv, Apart
    <3>3. HostOK(x)'
      BY <3>1, <3>2, HostStays
    <3> QED
      BY <1>2, <2>2, <3>1, <3>3
  <2> QED
    BY <2>1, <2>2
<1> QED
  BY <1>3, <1>4, StoreStays, ReaderStays DEF SkillInv

LEMMA ElseKeeps ==
  ASSUME SkillInv, Moves({}), SkillTypeOK', host' = host
  PROVE  SkillInv'
<1>0. Owned({}) /\ host \in [Hosts -> HostRecord]
  BY DEF Owned, SkillInv, SkillTypeOK
<1>1. ASSUME NEW k \in Hosts
      PROVE  HostOK(host[k])'
  <2>1. PICK x \in HostRecord : x = host[k]
    BY <1>0
  <2>2. HostOK(x)'
    BY <1>0, <2>1, HostStays
  <2> QED
    BY <2>1, <2>2
<1>2. Apart'
  BY DEF SkillInv, Apart
<1> QED
  BY <1>0, <1>1, <1>2, StoreStays, ReaderStays DEF SkillInv

-----------------------------------------------------------------------------
(* The records of hosts.                                                   *)

LEMMA NothingTyped ==
  /\ NoEntries \in Entries /\ NoPoints \in Stamps /\ NoCatalog \in CatalogRecord
  /\ NoCatalog.retired \in [Generations -> Nat \cup {None}]
<1>1. NoEntries \in Entries /\ NoPoints \in Stamps
  BY DEF NoEntries, Entries, NoPoints, Stamps
<1>2. [n \in Generations |-> None] \in [Generations -> Nat \cup {None}]
  OBVIOUS
<1>3. NoCatalog \in CatalogRecord
  BY <1>1, <1>2 DEF NoCatalog, CatalogRecord
<1> QED
  BY <1>1, <1>2, <1>3 DEF NoCatalog

LEMMA NoHostTyped ==
  /\ NoHost \in HostRecord /\ NoHost.at = "idle" /\ NoHost.built = {}
  /\ NoHost.next = NoEntries /\ NoHost.left = {} /\ NoHost.attempt = 0
  /\ NoHost.generation = None
<1>1. /\ "idle" \in Places /\ 0 \in Nat /\ {} \in SUBSET (Groups \cup Generations)
      /\ {} \in SUBSET Sources /\ {} \in SUBSET Generations
      /\ None \in Groups \cup {None} /\ None \in Generations \cup {None}
      /\ None \in {None, "retry", "end"} /\ None \in {None} \cup SUBSET Groups
  BY DEF Places
<1>2. [s \in Sources |-> {}] \in [Sources -> SUBSET Groups]
  OBVIOUS
<1>3. NoHost \in HostRecord
  BY <1>1, <1>2, NothingTyped, Zenon DEF NoHost, HostRecord
<1> QED
  BY <1>3 DEF NoHost

LEMMA HostFacts ==
  ASSUME SkillInv, NEW h \in Hosts
  PROVE  /\ host[h] \in HostRecord /\ HostOK(host[h])
         /\ host[h].snap \in CatalogRecord /\ catalog \in CatalogRecord
         /\ clock \in Nat /\ host[h].tick \in Nat
         /\ host[h].attempt \in Nat /\ host[h].since \in Nat
         /\ host[h].built \subseteq Generations /\ host[h].next \in Entries
  BY DEF SkillInv, SkillTypeOK, HostRecord

LEMMA AtMoves ==
  ASSUME NEW x \in HostRecord, NEW a \in Places
  PROVE  [x EXCEPT !.at = a] \in HostRecord
  BY Zenon DEF HostRecord

LEMMA LeftMoves ==
  ASSUME NEW x \in HostRecord, NEW a \in Places, NEW l \in SUBSET (Groups \cup Generations)
  PROVE  [x EXCEPT !.left = l, !.at = a] \in HostRecord
  BY Zenon DEF HostRecord

LEMMA SnapMoves ==
  ASSUME NEW x \in HostRecord, NEW a \in Places, NEW c \in CatalogRecord
  PROVE  [x EXCEPT !.snap = c, !.at = a] \in HostRecord
  BY Zenon DEF HostRecord

LEMMA LoadMoves ==
  ASSUME NEW x \in HostRecord, NEW a \in Places, NEW l \in SUBSET (Groups \cup Generations),
         NEW c \in CatalogRecord, NEW t \in Nat
  PROVE  [x EXCEPT !.at = a, !.tick = t, !.snap = c, !.left = l] \in HostRecord
  BY Zenon DEF HostRecord

LEMMA ScanMoves ==
  ASSUME NEW x \in HostRecord, NEW a \in Places, NEW l \in SUBSET (Groups \cup Generations),
         NEW t \in Nat
  PROVE  [x EXCEPT !.left = l, !.attempt = t, !.at = a] \in HostRecord
  BY Zenon DEF HostRecord

LEMMA RegisteredStays ==
  ASSUME NEW x \in HostRecord, NEW s \in {None} \cup SUBSET Groups
  PROVE  [x EXCEPT !.registered = s] \in HostRecord
  BY Zenon DEF HostRecord

\* What a host is whose load has ended.
LEMMA EndedFields ==
  ASSUME NEW x \in HostRecord
  PROVE  /\ Ended(x) \in HostRecord /\ Ended(x).at = "idle" /\ Ended(x).built = {}
         /\ Ended(x).next = NoEntries /\ Ended(x).left = {}
         /\ Ended(x).generation = None
<1>1. x.registered \in {None} \cup SUBSET Groups
  BY DEF HostRecord
<1>2. Ended(x) \in HostRecord
  BY <1>1, NoHostTyped, RegisteredStays DEF Ended
<1>3. /\ Ended(x).at = NoHost.at /\ Ended(x).built = NoHost.built
      /\ Ended(x).next = NoHost.next /\ Ended(x).left = NoHost.left
      /\ Ended(x).generation = NoHost.generation
  BY NoHostTyped DEF Ended, HostRecord
<1> QED
  BY <1>2, <1>3, NoHostTyped

\* A host that builds nothing uses nothing.
LEMMA NothingInUse ==
  ASSUME NEW y \in HostRecord, y.built = {} \/ (y.at \notin Building /\ y.next = NoEntries)
  PROVE  InUse(y) = {}
  BY DEF InUse, NoEntries, Building

-----------------------------------------------------------------------------
(* Steps that change the record of a host alone.                           *)

LEMMA QuietMoves ==
  ASSUME SkillInv, NEW h \in Hosts, NEW y \in HostRecord,
         host' = [host EXCEPT ![h] = y], InUse(y) \subseteq InUse(host[h]),
         UNCHANGED <<clock, catalog, points, made, reader, written, late, unsure>>
  PROVE  Moves({})
<1>1. CatalogMoves({})
  <2>1. clock \in Nat /\ catalog.revision \in Nat
    BY CatalogFacts DEF SkillInv, SkillTypeOK
  <2> QED
    BY <2>1 DEF CatalogMoves, SkillInv, StoreOK
<1>2. StoreMoves({})
  BY DEF StoreMoves, SkillInv, SkillTypeOK
<1>3. ReadersMove
  BY DEF ReadersMove
<1> QED
  BY <1>1, <1>2, <1>3 DEF Moves

LEMMA QuietKeeps ==
  ASSUME SkillInv, NEW h \in Hosts, NEW y \in HostRecord,
         host' = [host EXCEPT ![h] = y], InUse(y) \subseteq InUse(host[h]),
         y.built \subseteq host[h].built, loads' \in Nat,
         UNCHANGED <<clock, catalog, points, made, reader, written, late, unsure>>,
         HostOK(y)'
  PROVE  SkillInv'
<1>1. Moves({}) /\ Owned({})
  BY QuietMoves DEF Owned
<1>2. SkillTypeOK'
  BY DEF SkillInv, SkillTypeOK
<1>3. y.built \subseteq host[h].built \cup (Generations \ made)
  OBVIOUS
<1>4. PICK W : W = {}
  OBVIOUS
<1>5. Moves(W) /\ Owned(W) /\ W \subseteq host[h].built
  BY <1>1, <1>4
<1> QED
  BY <1>2, <1>3, <1>5, MoveKeeps

\* A host at rest, or about to read the catalog, owes nothing.
LEMMA RestOK ==
  ASSUME NEW y \in HostRecord, y.at \in {"idle", "reading"}, y.built = {},
         y.next = NoEntries
  PROVE  HostOK(y)'
  BY DEF HostOK, SnapOK, SweepOK, DiscardOK, BuiltOK, BuildOK, Building, Making

LEMMA RestKeeps ==
  ASSUME SkillInv, NEW h \in Hosts, NEW y \in HostRecord,
         y.at \in {"idle", "reading"}, y.built = {}, y.next = NoEntries,
         host' = [host EXCEPT ![h] = y],
         UNCHANGED <<clock, catalog, points, made, reader, loads, written, late, unsure>>
  PROVE  SkillInv'
<1>1. InUse(y) = {}
  BY NothingInUse
<1>2. loads' \in Nat
  BY DEF SkillInv, SkillTypeOK
<1> QED
  BY <1>1, <1>2, RestOK, QuietKeeps

LEMMA EndedKeeps ==
  ASSUME SkillInv, NEW h \in Hosts, host' = [host EXCEPT ![h] = Ended(host[h])],
         UNCHANGED <<clock, catalog, points, made, reader, loads, written, late, unsure>>
  PROVE  SkillInv'
<1>1. PICK y : y = Ended(host[h])
  OBVIOUS
<1> QED
  BY <1>1, HostFacts, EndedFields, RestKeeps

LEMMA ThrowsKeeps ==
  ASSUME SkillInv, NEW h \in Hosts, Throws(h)
  PROVE  SkillInv'
<1>1. host' = [host EXCEPT ![h] = Ended(host[h])]
  BY DEF Throws
<1> QED
  BY <1>1, EndedKeeps DEF Throws, history

LEMMA CrashKeeps ==
  ASSUME SkillInv, NEW h \in Hosts, Crash(h)
  PROVE  SkillInv'
  BY NoHostTyped, RestKeeps DEF Crash, history

LEMMA LoadBeginsKeeps ==
  ASSUME SkillInv, NEW h \in Hosts, LoadBegins(h)
  PROVE  SkillInv'
<1> DEFINE due == Due(catalog, clock)
           e == Ended(host[h])
           a == IF due = {} THEN "scanning" ELSE "reclaiming"
<1>1. PICK y : y = [e EXCEPT !.at = a, !.tick = clock, !.snap = catalog, !.left = due]
  OBVIOUS
<1>2. host' = [host EXCEPT ![h] = y]
  BY <1>1 DEF LoadBegins
<1>3. e \in HostRecord /\ e.built = {} /\ e.next = NoEntries
  BY HostFacts, EndedFields
<1>4. a \in Places /\ due \in SUBSET (Groups \cup Generations)
  BY DEF Places, Due, Retired
<1> HIDE DEF e
<1>5. /\ y \in HostRecord /\ y.built = {} /\ y.next = NoEntries
      /\ y.at = a /\ y.tick = clock /\ y.snap = catalog /\ y.left = due
  <2>1. y \in HostRecord
    BY <1>1, <1>3, <1>4, HostFacts, LoadMoves
  <2> QED
    BY <1>1, <1>3, <2>1 DEF HostRecord
<1>6. InUse(y) = {}
  BY <1>5, NothingInUse
<1>7. UNCHANGED <<clock, catalog, points, made, reader, written, late, unsure>>
  BY DEF LoadBegins
<1>8. Moves({}) /\ Owned({}) /\ loads' \in Nat
  <2>1. loads' \in Nat
    BY DEF LoadBegins, SkillInv, SkillTypeOK
  <2>2. InUse(y) \subseteq InUse(host[h])
    BY <1>6
  <2>3. Moves({})
    BY <1>2, <1>5, <1>7, <2>2, QuietMoves
  <2> QED
    BY <2>1, <2>3 DEF Owned
<1>9. SkillTypeOK'
  BY <1>2, <1>5, <1>7, <1>8 DEF SkillInv, SkillTypeOK
<1>10. ASSUME NEW n \in due PROVE Dead(n)'
  <2>1. n \in Generations /\ n \in Retired(catalog) /\ catalog.retired[n] + RetiredGrace <= clock
    BY DEF Due, Retired
  <2>2. n \in made /\ n \notin Active(catalog) /\ n \in Known(catalog)
    BY <2>1 DEF SkillInv, StoreOK, Known
  <2>3. \A k \in Hosts : n \notin InUse(host[k])
    BY <2>2, HostFacts, InUseIsBuilt DEF HostOK, BuiltOK
  <2>4. ASSUME NEW r \in Readers, Reads(r, n) PROVE Lapsed(r)
    <3>1. \/ catalog.retired[n] >= reader[r].since
          \/ Lapsed(r)
      BY <2>2, <2>4 DEF SkillInv, ReaderOK, Reads
    <3>2. catalog.retired[n] \in Nat /\ reader[r].since \in Nat /\ clock \in Nat
      BY <2>1, CatalogFacts DEF SkillInv, SkillTypeOK, QueryRecord, Retired
    <3> QED
      BY <2>1, <3>1, <3>2, GracesNat DEF Lapsed
  <2>5. Dead(n)
    BY <2>2, <2>3, <2>4 DEF Dead
  <2> QED
    BY <1>8, <1>9, <2>1, <2>5, DeadStays
<1>11. HostOK(y)'
  <2>1. SnapOK(y)'
    <3>1. catalog.revision \in Nat /\ Active(catalog) \subseteq made
      BY CatalogFacts, HostFacts DEF SkillInv, StoreOK, Known
    <3> QED
      BY <1>5, <1>7, <3>1 DEF SnapOK
  <2>2. SweepOK(y)'
    <3>1. clock \in Nat
      BY HostFacts
    <3> QED
      BY <1>5, <1>7, <1>10, <3>1 DEF SweepOK
  <2>3. DiscardOK(y)' /\ BuiltOK(y)' /\ BuildOK(y)'
    BY <1>5 DEF DiscardOK, BuiltOK, BuildOK, Building, Making
  <2> QED
    BY <2>1, <2>2, <2>3 DEF HostOK
<1> QED
  BY <1>2, <1>5, <1>6, <1>7, <1>8, <1>11, QuietKeeps

\* The catalog is read anew for an attempt.
LEMMA ReadPriorKeeps ==
  ASSUME SkillInv, NEW h \in Hosts, ReadPrior(h)
  PROVE  SkillInv'
<1> DEFINE c == [catalog EXCEPT !.retired = NoCatalog.retired]
<1>1. PICK x : x = host[h]
  OBVIOUS
<1>2. x \in HostRecord /\ HostOK(x) /\ x.at = "reading" /\ catalog \in CatalogRecord
  BY <1>1, HostFacts DEF ReadPrior
<1>3. /\ c \in CatalogRecord /\ c.revision = catalog.revision /\ c.entries = catalog.entries
  <2>1. c \in CatalogRecord
    BY <1>2, NothingTyped, Zenon DEF CatalogRecord
  <2> QED
    BY <1>2, <2>1 DEF CatalogRecord
<1> HIDE DEF c
<1>4. PICK y : y = [x EXCEPT !.snap = c, !.at = "acquiring"]
  OBVIOUS
<1>5. host' = [host EXCEPT ![h] = y]
  BY <1>1, <1>2, <1>4 DEF ReadPrior, c, SkillInv, SkillTypeOK, HostRecord
<1>6. y \in HostRecord
  <2>1. "acquiring" \in Places
    BY DEF Places
  <2> QED
    BY <1>2, <1>3, <1>4, <2>1, SnapMoves
<1>7. y.built = {} /\ y.next = NoEntries /\ y.at = "acquiring" /\ y.snap = c
  BY <1>2, <1>4 DEF HostRecord, HostOK, BuiltOK, Building, Making
<1>8. UNCHANGED <<clock, catalog, points, made, reader, written, late, unsure>> /\ loads' \in Nat
  BY DEF ReadPrior, history, SkillInv, SkillTypeOK
<1>9. InUse(y) = {}
  BY <1>6, <1>7, NothingInUse
<1>10. HostOK(y)'
  <2>1. SnapOK(y)'
    <3>1. catalog.revision \in Nat /\ Active(c) \subseteq made
      BY <1>2, <1>3, CatalogFacts, EntriesDecide DEF SkillInv, StoreOK, Known
    <3> QED
      BY <1>3, <1>7, <1>8, <3>1 DEF SnapOK
  <2> QED
    BY <1>7, <2>1
    DEF HostOK, SweepOK, DiscardOK, BuiltOK, BuildOK, Building, Making
<1> QED
  BY <1>5, <1>6, <1>7, <1>8, <1>9, <1>10, QuietKeeps

\* What the scroll takes for an orphan hurts nobody the properties speak of.
LEMMA OrphansMayGo ==
  ASSUME SkillInv, NEW x \in HostRecord, SweepOK(x), x.at = "scanning",
         NEW n \in Generations \ (Active(x.snap) \cup Retired(x.snap)),
         points[n] # NoPoints, Expired(n, x.tick)
  PROVE  n \in made /\ MayGo(n)
<1>0. /\ x.tick \in Nat /\ clock \in Nat /\ x.tick <= clock
      /\ points[n] \in Stamps /\ written[n] \in Stamps
  BY DEF SkillInv, SkillTypeOK, HostRecord, SweepOK
<1>1. n \in made
  BY DEF SkillInv, StoreOK
<1>2. PICK s \in Sources : points[n][s] # None
  BY <1>0 DEF NoPoints, Stamps
<1>3. points[n][s] + OrphanGrace <= x.tick /\ points[n][s] \in Nat
  BY <1>0, <1>2 DEF Expired, Stamps
<1>4. ASSUME points[n] = written[n], n \in Known(catalog) PROVE n \in late
  <2>1. n \notin late => Younger(n, x.tick)
    BY <1>4 DEF SweepOK, Known
  <2> QED
    BY <1>0, <1>2, <1>3, <1>4, <2>1, GracesNat DEF Younger
<1>5. n \in Active(catalog) => n \in late
  BY <1>4 DEF SkillInv, StoreOK, Known
<1>6. ASSUME NEW k \in Hosts, n \in InUse(host[k]) PROVE Old(n)
  <2>1. Good(n)
    <3>1. host[k].at \in Building
      BY <1>6, HostFacts, InUseIsBuilt DEF HostOK
    <3> QED
      BY <1>6, <3>1, HostFacts DEF HostOK, BuiltOK
  <2> QED
    BY <1>0, <1>2, <1>3, <2>1, GracesNat DEF Good, Old
<1>7. ASSUME NEW r \in Readers, Reads(r, n) PROVE n \in late \cup unsure \/ Lapsed(r)
  <2>1. /\ n \in Known(catalog) \/ Lapsed(r)
        /\ n \notin late \cup unsure /\ ~Lapsed(r) => points[n] = written[n]
    BY <1>7 DEF SkillInv, ReaderOK, Reads, Known
  <2> QED
    BY <1>4, <2>1
<1> QED
  BY <1>1, <1>5, <1>6, <1>7 DEF MayGo

LEMMA ScanKeeps ==
  ASSUME SkillInv, NEW h \in Hosts, Scan(h)
  PROVE  SkillInv'
<1>1. PICK x : x = host[h]
  OBVIOUS
<1>2. x \in HostRecord /\ HostOK(x) /\ x.at = "scanning"
  BY <1>1, HostFacts DEF Scan
<1>3. PICK orphans : orphans =
        {n \in Generations \ (Active(x.snap) \cup Retired(x.snap)) :
           points[n] # NoPoints /\ Expired(n, x.tick)}
  OBVIOUS
<1> DEFINE a == IF orphans = {} THEN "reading" ELSE "sweeping"
           e == Ended(x)
<1>4. PICK y : y = [e EXCEPT !.left = orphans, !.attempt = 1, !.at = a]
  OBVIOUS
<1>5. host' = [host EXCEPT ![h] = y]
  BY <1>1, <1>3, <1>4 DEF Scan
<1>6. e \in HostRecord /\ e.built = {} /\ e.next = NoEntries
  BY <1>2, EndedFields
<1>7. a \in Places /\ orphans \in SUBSET (Groups \cup Generations) /\ 1 \in Nat
  BY <1>3 DEF Places
<1> HIDE DEF e
<1>8. /\ y \in HostRecord /\ y.built = {} /\ y.next = NoEntries
      /\ y.at = a /\ y.left = orphans
  <2>1. y \in HostRecord
    BY <1>4, <1>6, <1>7, ScanMoves
  <2> QED
    BY <1>4, <1>6, <2>1 DEF HostRecord
<1>9. InUse(y) = {}
  BY <1>8, NothingInUse
<1>10. UNCHANGED <<clock, catalog, points, made, reader, written, late, unsure>> /\ loads' \in Nat
  BY DEF Scan, history, SkillInv, SkillTypeOK
<1>11. PICK W : W = {}
  OBVIOUS
<1>12. Moves(W) /\ Owned(W)
  <2>1. InUse(y) \subseteq InUse(host[h])
    BY <1>9
  <2>2. Moves({})
    BY <1>5, <1>8, <1>10, <2>1, QuietMoves
  <2> QED
    BY <1>11, <2>2 DEF Owned
<1>13. SkillTypeOK'
  BY <1>5, <1>8, <1>10 DEF SkillInv, SkillTypeOK
<1>14. ASSUME NEW n \in orphans PROVE n \in made' /\ MayGo(n)'
  BY <1>2, <1>3, <1>10, <1>12, <1>13, OrphansMayGo, MayGoStays DEF HostOK
<1>15. HostOK(y)'
  BY <1>8, <1>14
  DEF HostOK, SnapOK, SweepOK, DiscardOK, BuiltOK, BuildOK, Building, Making
<1> QED
  BY <1>5, <1>8, <1>9, <1>10, <1>15, QuietKeeps

LEMMA PlanFields ==
  ASSUME NEW x, NEW y, x.snap = y.snap, x.failed = y.failed, x.got = y.got
  PROVE  /\ Desired(y) = Desired(x)
         /\ \A g \in Groups : Carried(y, g) = Carried(x, g) /\ Owners(y, g) = Owners(x, g)
<1>1. \A g \in Groups : Carried(y, g) = Carried(x, g)
  BY DEF Carried
<1> QED
  BY <1>1 DEF Desired, Owners

LEMMA StampTyped ==
  ASSUME SkillInv, NEW b
  PROVE  StampIf(b) \in Nat
  BY DEF StampIf, SkillInv, SkillTypeOK

LEMMA PlanMoves ==
  ASSUME NEW x \in HostRecord, NEW a \in Places, NEW l \in SUBSET (Groups \cup Generations),
         NEW t \in Nat
  PROVE  [x EXCEPT !.left = l, !.since = t, !.at = a] \in HostRecord
  BY Zenon DEF HostRecord

LEMMA AcquiredKeeps ==
  ASSUME SkillInv, NEW h \in Hosts, Acquired(h)
  PROVE  SkillInv'
<1>1. PICK x : x = host[h]
  OBVIOUS
<1>2. x \in HostRecord /\ HostOK(x) /\ x.at = "acquiring"
  BY <1>1, HostFacts DEF Acquired
<1>3. PICK failed \in SUBSET Sources, got \in [Sources -> SUBSET Groups] :
        LET z == [host[h] EXCEPT !.failed = failed, !.got = got, !.built = {},
                                 !.next = NoEntries] IN
        /\ \A s \in failed : got[s] = {}
        /\ host' = [host EXCEPT ![h] =
             IF (h \in Strict /\ failed # {}) \/ ~Guarded(h, z) THEN Ended(z)
             ELSE [z EXCEPT !.left = Desired(z), !.since = StampIf(Desired(z) = {}),
                    !.at = IF Desired(z) = {} THEN "publishing" ELSE "building"]]
  BY DEF Acquired
<1>4. PICK z : z = [x EXCEPT !.failed = failed, !.got = got, !.built = {},
                             !.next = NoEntries]
  OBVIOUS
<1>5. z \in HostRecord
  BY <1>2, <1>4, NothingTyped, Zenon DEF HostRecord
<1>6. /\ z.failed = failed /\ z.got = got /\ z.built = {} /\ z.next = NoEntries
      /\ z.snap = x.snap
  BY <1>2, <1>4, <1>5 DEF HostRecord
<1>7. UNCHANGED <<clock, catalog, points, made, reader, loads, written, late, unsure>>
      /\ loads' \in Nat
  BY DEF Acquired, history, SkillInv, SkillTypeOK
<1> DEFINE a == IF Desired(z) = {} THEN "publishing" ELSE "building"
<1>8. PICK y : y = [z EXCEPT !.left = Desired(z), !.since = StampIf(Desired(z) = {}),
                             !.at = a]
  OBVIOUS
<1>9. host' = [host EXCEPT ![h] = Ended(z)] \/ host' = [host EXCEPT ![h] = y]
  BY <1>1, <1>3, <1>4, <1>8
<1>10. CASE host' = [host EXCEPT ![h] = Ended(z)]
  <2>1. PICK e : e = Ended(z)
    OBVIOUS
  <2> QED
    BY <1>5, <1>7, <1>10, <2>1, EndedFields, RestKeeps
<1>11. CASE host' = [host EXCEPT ![h] = y]
  <2>1. y \in HostRecord
    <3>1. a \in Places /\ Desired(z) \in SUBSET (Groups \cup Generations)
      BY DEF Places, Desired, Building
    <3>2. StampIf(Desired(z) = {}) \in Nat
      BY StampTyped
    <3> QED
      BY <1>5, <1>8, <3>1, <3>2, PlanMoves
  <2>2. /\ y.at = a /\ y.left = Desired(z) /\ y.failed = failed /\ y.got = got
        /\ y.built = {} /\ y.next = NoEntries /\ y.snap = x.snap
    BY <1>5, <1>6, <1>8, <2>1 DEF HostRecord
  <2>3. Desired(y) = Desired(z)
    BY <1>6, <2>2, PlanFields
  <2>4. InUse(y) = {}
    BY <2>1, <2>2, NothingInUse
  <2>5. HostOK(y)'
    <3>1. SnapOK(y)'
      BY <1>2, <1>7, <2>2 DEF HostOK, SnapOK, Current, Building
    <3>2. SweepOK(y)' /\ DiscardOK(y)'
      BY <2>2 DEF SweepOK, DiscardOK
    <3>3. BuiltOK(y)'
      BY <2>2, <2>4 DEF BuiltOK, Building
    <3>4. BuildOK(y)'
      BY <1>3, <2>2, <2>3 DEF BuildOK, Making, NoEntries
    <3> QED
      BY <3>1, <3>2, <3>3, <3>4 DEF HostOK
  <2> QED
    BY <1>7, <1>11, <2>1, <2>2, <2>4, <2>5, QuietKeeps
<1> QED
  BY <1>9, <1>10, <1>11

-----------------------------------------------------------------------------
(* Deletions.                                                              *)

LEMMA DeleteMoves ==
  ASSUME SkillInv, NEW h \in Hosts, NEW y \in HostRecord,
         host' = [host EXCEPT ![h] = y], InUse(y) \subseteq InUse(host[h]),
         NEW n \in Generations, MayGo(n), Deleted(n),
         UNCHANGED <<clock, catalog, made, reader, loads, written, late, unsure>>
  PROVE  Moves({}) /\ SkillTypeOK'
<1>0. points' = [points EXCEPT ![n] = NoPoints]
  BY DEF Deleted
<1>1. CatalogMoves({})
  <2>1. clock \in Nat /\ catalog.revision \in Nat
    BY CatalogFacts DEF SkillInv, SkillTypeOK
  <2> QED
    BY <2>1 DEF CatalogMoves, SkillInv, StoreOK
<1>2. StoreMoves({})
  BY <1>0 DEF StoreMoves, SkillInv, SkillTypeOK
<1>3. ReadersMove
  BY DEF ReadersMove
<1>4. SkillTypeOK'
  BY <1>0, NothingTyped DEF SkillInv, SkillTypeOK
<1> QED
  BY <1>1, <1>2, <1>3, <1>4 DEF Moves

\* The host of a deletion, before its own record moves on.
LEMMA DeleteFacts ==
  ASSUME SkillInv, NEW h \in Hosts, NEW x, x = host[h], NEW y \in HostRecord,
         host' = [host EXCEPT ![h] = y], InUse(y) \subseteq InUse(host[h]),
         NEW n \in Generations, MayGo(n), Deleted(n),
         UNCHANGED <<clock, catalog, made, reader, loads, written, late, unsure>>
  PROVE  HostOK(x)' /\ points'[n] = NoPoints
<1>1. PICK W : W = {}
  OBVIOUS
<1>2. Moves(W) /\ SkillTypeOK' /\ Owned(W) /\ x.built \cap W = {}
  BY <1>1, DeleteMoves DEF Owned
<1>3. x \in HostRecord
  BY HostFacts
<1>4. HostOK(x)'
  BY <1>2, <1>3, HostStays
<1>5. points'[n] = NoPoints
  BY DEF Deleted, SkillInv, SkillTypeOK
<1> QED
  BY <1>4, <1>5

LEMMA DeleteKeeps ==
  ASSUME SkillInv, NEW h \in Hosts, NEW y \in HostRecord,
         host' = [host EXCEPT ![h] = y], InUse(y) \subseteq InUse(host[h]),
         y.built \subseteq host[h].built,
         NEW n \in Generations, MayGo(n), Deleted(n),
         UNCHANGED <<clock, catalog, made, reader, loads, written, late, unsure>>,
         HostOK(y)'
  PROVE  SkillInv'
<1>1. PICK W : W = {}
  OBVIOUS
<1>2. Moves(W) /\ SkillTypeOK' /\ Owned(W)
  BY <1>1, DeleteMoves DEF Owned
<1>3. /\ W \subseteq host[h].built
      /\ y.built \subseteq host[h].built \cup (Generations \ made)
  BY <1>1
<1> QED
  BY <1>2, <1>3, MoveKeeps

LEMMA DeadMayGo ==
  ASSUME NEW n, Dead(n)
  PROVE  MayGo(n)
  BY DEF Dead, MayGo

LEMMA DeleteRetiredKeeps ==
  ASSUME SkillInv, NEW h \in Hosts, DeleteRetired(h)
  PROVE  SkillInv'
<1>1. PICK x : x = host[h]
  OBVIOUS
<1>2. x \in HostRecord /\ HostOK(x) /\ x.at = "reclaiming"
  BY <1>1, HostFacts DEF DeleteRetired
<1>3. PICK n \in x.left :
        /\ Deleted(n)
        /\ host' = [host EXCEPT ![h].left = @ \ {n},
             ![h].at = IF host[h].left = {n} THEN "pruning" ELSE "reclaiming"]
  BY <1>1 DEF DeleteRetired
<1> DEFINE a == IF x.left = {n} THEN "pruning" ELSE "reclaiming"
<1>4. PICK y : y = [x EXCEPT !.left = x.left \ {n}, !.at = a]
  OBVIOUS
<1>5. host' = [host EXCEPT ![h] = y]
  BY <1>1, <1>2, <1>3, <1>4 DEF SkillInv, SkillTypeOK, HostRecord
<1>6. y \in HostRecord
  <2>1. a \in Places /\ x.left \ {n} \in SUBSET (Groups \cup Generations)
    BY <1>2 DEF Places, HostRecord
  <2> QED
    BY <1>2, <1>4, <2>1, LeftMoves
<1>7. /\ y.at = a /\ y.left = x.left \ {n} /\ y.built = x.built /\ y.next = x.next
      /\ y.snap = x.snap /\ y.tick = x.tick
  BY <1>2, <1>4 DEF HostRecord
<1>8. x.built = {} /\ x.next = NoEntries
  BY <1>2 DEF HostOK, BuiltOK, Building, Making
<1>9. InUse(y) = {}
  BY <1>6, <1>7, <1>8, NothingInUse
<1>10. n \in Generations /\ Dead(n) /\ MayGo(n) /\ x.left \subseteq Due(x.snap, x.tick)
  BY <1>2, DeadMayGo DEF HostOK, SweepOK, Due, Retired
<1>11. UNCHANGED <<clock, catalog, made, reader, loads, written, late, unsure>>
  BY DEF DeleteRetired, history
<1>12. HostOK(x)' /\ points'[n] = NoPoints
  <2>1. InUse(y) \subseteq InUse(host[h])
    BY <1>9
  <2> QED
    BY <1>1, <1>3, <1>5, <1>6, <1>10, <1>11, <2>1, DeleteFacts
<1>13. HostOK(y)'
  <2>1. SnapOK(y)'
    BY <1>2, <1>7, <1>12 DEF HostOK, SnapOK
  <2>2. SweepOK(y)'
    BY <1>2, <1>7, <1>10, <1>12 DEF HostOK, SweepOK
  <2>3. DiscardOK(y)' /\ BuiltOK(y)' /\ BuildOK(y)'
    BY <1>7, <1>8 DEF DiscardOK, BuiltOK, BuildOK, Building, Making
  <2> QED
    BY <2>1, <2>2, <2>3 DEF HostOK
<1>14. y.built \subseteq host[h].built /\ InUse(y) \subseteq InUse(host[h])
  BY <1>7, <1>8, <1>9
<1> QED
  BY <1>3, <1>5, <1>6, <1>10, <1>11, <1>13, <1>14, DeleteKeeps

LEMMA DeleteOrphanKeeps ==
  ASSUME SkillInv, NEW h \in Hosts, DeleteOrphan(h)
  PROVE  SkillInv'
<1>1. PICK x : x = host[h]
  OBVIOUS
<1>2. x \in HostRecord /\ HostOK(x) /\ x.at = "sweeping"
  BY <1>1, HostFacts DEF DeleteOrphan
<1>3. PICK n \in x.left :
        /\ Deleted(n)
        /\ host' = [host EXCEPT ![h].left = @ \ {n},
             ![h].at = IF host[h].left = {n} THEN "reading" ELSE "sweeping"]
  BY <1>1 DEF DeleteOrphan
<1> DEFINE a == IF x.left = {n} THEN "reading" ELSE "sweeping"
<1>4. PICK y : y = [x EXCEPT !.left = x.left \ {n}, !.at = a]
  OBVIOUS
<1>5. host' = [host EXCEPT ![h] = y]
  BY <1>1, <1>2, <1>3, <1>4 DEF SkillInv, SkillTypeOK, HostRecord
<1>6. y \in HostRecord
  <2>1. a \in Places /\ x.left \ {n} \in SUBSET (Groups \cup Generations)
    BY <1>2 DEF Places, HostRecord
  <2> QED
    BY <1>2, <1>4, <2>1, LeftMoves
<1>7. /\ y.at = a /\ y.left = x.left \ {n} /\ y.built = x.built /\ y.next = x.next
  BY <1>2, <1>4 DEF HostRecord
<1>8. x.built = {} /\ x.next = NoEntries
  BY <1>2 DEF HostOK, BuiltOK, Building, Making
<1>9. InUse(y) = {}
  BY <1>6, <1>7, <1>8, NothingInUse
<1>10. n \in Generations /\ MayGo(n)
  BY <1>2 DEF HostOK, SweepOK, SkillInv, SkillTypeOK
<1>11. UNCHANGED <<clock, catalog, made, reader, loads, written, late, unsure>>
  BY DEF DeleteOrphan, history
<1>12. HostOK(x)'
  <2>1. InUse(y) \subseteq InUse(host[h])
    BY <1>9
  <2> QED
    BY <1>1, <1>3, <1>5, <1>6, <1>10, <1>11, <2>1, DeleteFacts
<1>13. HostOK(y)'
  <2>1. SweepOK(y)'
    BY <1>2, <1>7, <1>12 DEF HostOK, SweepOK
  <2>2. SnapOK(y)' /\ DiscardOK(y)' /\ BuiltOK(y)' /\ BuildOK(y)'
    BY <1>7, <1>8 DEF SnapOK, DiscardOK, BuiltOK, BuildOK, Building, Making
  <2> QED
    BY <2>1, <2>2 DEF HostOK
<1>14. y.built \subseteq host[h].built /\ InUse(y) \subseteq InUse(host[h])
  BY <1>7, <1>8, <1>9
<1> QED
  BY <1>3, <1>5, <1>6, <1>10, <1>11, <1>13, <1>14, DeleteKeeps

\* The due generations are forgotten: they are dead and their vectors are gone.
LEMMA PruneRetiredKeeps ==
  ASSUME SkillInv, NEW h \in Hosts, PruneRetired(h)
  PROVE  SkillInv'
<1>1. PICK x : x = host[h]
  OBVIOUS
<1>2. /\ x \in HostRecord /\ HostOK(x) /\ x.at = "pruning" /\ catalog \in CatalogRecord
      /\ x.built = {} /\ x.next = NoEntries
  BY <1>1, HostFacts DEF PruneRetired, HostOK, BuiltOK, Building, Making
<1>3. UNCHANGED <<clock, points, made, reader, loads, written, late, unsure>>
  BY DEF PruneRetired, history
<1>4. CASE ~Current(x.snap)
  BY <1>1, <1>3, <1>4, EndedKeeps DEF PruneRetired
<1>5. CASE Current(x.snap)
  <2> DEFINE due == Due(x.snap, x.tick)
             kept == [n \in Generations |-> IF n \in due THEN None ELSE catalog.retired[n]]
  <2>1. PICK c : c = [catalog EXCEPT !.revision = @ + 1, !.retired = kept]
    OBVIOUS
  <2>2. /\ c \in CatalogRecord /\ c.revision = catalog.revision + 1
        /\ c.entries = catalog.entries /\ c.retired = kept
    <3>1. kept \in [Generations -> Nat \cup {None}] /\ catalog.revision + 1 \in Nat
      BY <1>2 DEF CatalogRecord
    <3> HIDE DEF kept
    <3>2. c \in CatalogRecord
      BY <1>2, <2>1, <3>1, Zenon DEF CatalogRecord
    <3> QED
      BY <1>2, <2>1, <3>2 DEF CatalogRecord
  <2>3. PICK y : y = [x EXCEPT !.snap = c, !.at = "scanning"]
    OBVIOUS
  <2>4. catalog' = c /\ host' = [host EXCEPT ![h] = y]
    <3>1. /\ catalog' = [catalog EXCEPT !.revision = @ + 1, !.retired =
                          [n \in Generations |-> IF n \in due THEN None ELSE @[n]]]
          /\ host' = [host EXCEPT ![h].snap = catalog', ![h].at = "scanning"]
      BY <1>1, <1>5 DEF PruneRetired
    <3>2. catalog' = c
      BY <1>2, <2>1, <3>1 DEF CatalogRecord
    <3> QED
      BY <1>1, <1>2, <2>3, <3>1, <3>2 DEF SkillInv, SkillTypeOK, HostRecord
  <2>5. /\ y \in HostRecord /\ y.at = "scanning" /\ y.snap = c /\ y.built = {}
        /\ y.next = NoEntries /\ y.tick = x.tick
    <3>1. "scanning" \in Places
      BY DEF Places
    <3>2. y \in HostRecord
      BY <1>2, <2>2, <2>3, <3>1, SnapMoves
    <3> QED
      BY <1>2, <2>3, <3>2 DEF HostRecord
  <2>6. InUse(y) = {}
    BY <2>5, NothingInUse
  <2>7. Active(c) = Active(catalog) /\ Retired(c) = Retired(catalog) \ due
    <3>1. Retired(c) = Retired(catalog) \ due
      BY <2>2 DEF Retired
    <3> QED
      BY <2>2, <3>1, EntriesDecide
  <2>8. \A n \in due : Dead(n) /\ points[n] = NoPoints
    BY <1>2 DEF HostOK, SweepOK
  <2>9. catalog.revision \in Nat /\ clock \in Nat /\ Active(catalog) \subseteq made
    BY <1>2, CatalogFacts DEF SkillInv, SkillTypeOK, StoreOK, Known
  <2>10. CatalogMoves({})
    <3>1. \A n \in Known(catalog) \ Known(c) : n \in due
      BY <2>7 DEF Known
    <3>2. Active(c) \cap Retired(c) = {} /\ Known(c) \subseteq Known(catalog)
      BY <2>7 DEF SkillInv, StoreOK, Known
    <3>3. \A n \in Retired(catalog) :
            (n \in Retired(c) /\ c.retired[n] = catalog.retired[n]) \/ Dead(n)
      BY <2>2, <2>7, <2>8 DEF Retired
    <3>4. /\ clock' = clock /\ late' = late /\ unsure' = unsure
          /\ catalog'.revision = catalog.revision + 1
      BY <1>3, <2>2, <2>4
    <3> QED
      BY <2>4, <2>7, <2>8, <2>9, <3>1, <3>2, <3>3, <3>4 DEF CatalogMoves
  <2>11. StoreMoves({}) /\ ReadersMove
    BY <1>3, <2>4, <2>5, <2>6 DEF StoreMoves, ReadersMove, SkillInv, SkillTypeOK
  <2>12. SkillTypeOK'
    BY <1>3, <2>2, <2>4, <2>5 DEF SkillInv, SkillTypeOK
  <2>13. PICK W : W = {}
    OBVIOUS
  <2>14. /\ Moves(W) /\ Owned(W) /\ W \subseteq host[h].built
         /\ y.built \subseteq host[h].built \cup (Generations \ made)
    BY <2>5, <2>10, <2>11, <2>13 DEF Moves, Owned
  <2>15. HostOK(y)'
    <3>1. SnapOK(y)'
      BY <1>3, <2>2, <2>4, <2>5, <2>7, <2>9 DEF SnapOK
    <3>2. SweepOK(y)'
      BY <1>2, <1>3, <2>4, <2>5 DEF HostOK, SweepOK
    <3>3. DiscardOK(y)' /\ BuiltOK(y)' /\ BuildOK(y)'
      BY <2>5 DEF DiscardOK, BuiltOK, BuildOK, Building, Making
    <3> QED
      BY <3>1, <3>2, <3>3 DEF HostOK
  <2> QED
    BY <2>4, <2>5, <2>12, <2>14, <2>15, MoveKeeps
<1> QED
  BY <1>4, <1>5

-----------------------------------------------------------------------------
(* Queries and the clock.                                                  *)

LEMMA NoQueryTyped == NoQuery \in QueryRecord /\ NoQuery.at = "idle"
  BY DEF NoQuery, QueryRecord

LEMMA RecallKeeps ==
  ASSUME SkillInv, NEW r \in Readers, Recall(r)
  PROVE  SkillInv'
<1>1. UNCHANGED <<clock, catalog, points, made, host, loads, written, late, unsure>>
  BY DEF Recall, Query, QueryEmbedded, QueryEnds, history
<1>2. /\ reader \in [Readers -> QueryRecord] /\ catalog \in CatalogRecord /\ clock \in Nat
      /\ reader[r] \in QueryRecord
  BY DEF SkillInv, SkillTypeOK
<1>3. PICK q \in QueryRecord :
        /\ reader' = [reader EXCEPT ![r] = q]
        /\ q.at # "idle" =>
             \/ /\ reader[r].at # "idle" /\ q.generation = reader[r].generation
                /\ q.since = reader[r].since
             \/ q.generation \in Active(catalog) /\ q.since <= clock
  <2>1. CASE Query(r)
    <3>1. PICK g \in Listed(catalog), t \in Stamped \cup {clock} :
            /\ \A u \in Stamped \cup {clock} : t <= u
            /\ reader' = [reader EXCEPT ![r] = [NoQuery EXCEPT
                 !.at = "embedding", !.since = t,
                 !.generation = catalog.entries[g].generation]]
      BY <2>1 DEF Query
    <3>0. t \in Nat /\ t <= clock
      BY <1>2, <3>1, HostFacts DEF Stamped
    <3>2. PICK q : q = [NoQuery EXCEPT !.at = "embedding", !.since = t,
                          !.generation = catalog.entries[g].generation]
      OBVIOUS
    <3>3. catalog.entries[g].generation \in Active(catalog) \cap Generations
      BY <1>2, CatalogFacts DEF Listed
    <3>4. q \in QueryRecord /\ q.generation \in Active(catalog) /\ q.since = t
      BY <3>0, <3>2, <3>3, NoQueryTyped DEF QueryRecord
    <3> QED
      BY <3>0, <3>1, <3>2, <3>4
  <2>2. CASE QueryEmbedded(r)
    <3>1. PICK q : q = [reader[r] EXCEPT !.at = "searching", !.called = clock]
      OBVIOUS
    <3>2. /\ q \in QueryRecord /\ q.generation = reader[r].generation
          /\ q.since = reader[r].since
      BY <1>2, <3>1 DEF QueryRecord
    <3>3. reader' = [reader EXCEPT ![r] = q] /\ reader[r].at # "idle"
      BY <1>2, <2>2, <3>1 DEF QueryEmbedded, QueryRecord
    <3> QED
      BY <3>2, <3>3
  <2>3. CASE QueryEnds(r)
    BY <2>3, NoQueryTyped DEF QueryEnds
  <2> QED
    BY <2>1, <2>2, <2>3 DEF Recall
<1>4. ReadersMove
  BY <1>2, <1>3 DEF ReadersMove
<1>5. CatalogMoves({}) /\ StoreMoves({})
  <2>1. catalog.revision \in Nat
    BY <1>2, CatalogFacts
  <2> QED
    BY <1>1, <1>2, <2>1 DEF CatalogMoves, StoreMoves, SkillInv, SkillTypeOK, StoreOK
<1>6. SkillTypeOK'
  BY <1>1, <1>2, <1>3 DEF SkillInv, SkillTypeOK
<1> QED
  BY <1>1, <1>4, <1>5, <1>6, ElseKeeps DEF Moves

LEMMA TickKeeps ==
  ASSUME SkillInv, Tick
  PROVE  SkillInv'
<1>1. UNCHANGED <<catalog, points, made, host, reader, loads, written, late, unsure>>
  BY DEF Tick, history
<1>2. /\ catalog \in CatalogRecord /\ clock \in Nat /\ clock' \in Nat /\ clock <= clock'
      /\ catalog.revision \in Nat
  BY GracesNat, CatalogFacts DEF Tick, SkillInv, SkillTypeOK
<1>3. \A n \in Active(catalog) : n \in Active(catalog')
  BY <1>1
<1>4. CatalogMoves({})
  BY <1>1, <1>2, <1>3 DEF CatalogMoves, SkillInv, StoreOK
<1>5. StoreMoves({}) /\ ReadersMove
  BY <1>1 DEF StoreMoves, ReadersMove, SkillInv, SkillTypeOK
<1>6. SkillTypeOK'
  BY <1>1, <1>2 DEF SkillInv, SkillTypeOK
<1> QED
  BY <1>1, <1>4, <1>5, <1>6, ElseKeeps DEF Moves

LEMMA StutterKeeps ==
  ASSUME SkillInv, UNCHANGED vars
  PROVE  SkillInv'
<1>1. UNCHANGED <<clock, catalog, points, made, host, reader, loads, written, late, unsure>>
  BY DEF vars
<1>2. clock \in Nat /\ catalog.revision \in Nat
  BY CatalogFacts DEF SkillInv, SkillTypeOK
<1>3. CatalogMoves({}) /\ StoreMoves({}) /\ ReadersMove
  BY <1>1, <1>2 DEF CatalogMoves, StoreMoves, ReadersMove, SkillInv, SkillTypeOK, StoreOK
<1>4. SkillTypeOK'
  BY <1>1 DEF SkillInv, SkillTypeOK
<1> QED
  BY <1>1, <1>3, <1>4, ElseKeeps DEF Moves

-----------------------------------------------------------------------------
(* The end of an attempt.                                                  *)

LEMMA SettlesFields ==
  ASSUME NEW x \in HostRecord, NEW t \in {None, "retry", "end"}, x.left \subseteq x.built
  PROVE  /\ Settles(x, t) \in HostRecord /\ Settles(x, t).next = NoEntries
         /\ x.left = {} => /\ Settles(x, t).at \in {"idle", "reading"}
                           /\ Settles(x, t).built = {}
         /\ x.left # {} => /\ Settles(x, t).at = "discarding"
                           /\ Settles(x, t).left = x.left
                           /\ Settles(x, t).built = x.built
<1>1. PICK e : e = Ended(x)
  OBVIOUS
<1>2. e \in HostRecord /\ e.at = "idle" /\ e.built = {} /\ e.next = NoEntries
  BY <1>1, EndedFields
<1>3. /\ x.left \in SUBSET (Groups \cup Generations) /\ x.attempt \in Nat
      /\ x.built \in SUBSET Generations /\ x.attempt + 1 \in Nat
      /\ "discarding" \in Places /\ "reading" \in Places
  BY DEF HostRecord, Places
<1>4. CASE x.left # {}
  <2>1. PICK y : y = [e EXCEPT !.at = "discarding", !.then = t, !.left = x.left,
                             !.attempt = x.attempt, !.built = x.built]
    OBVIOUS
  <2>2. y \in HostRecord
    BY <1>2, <1>3, <2>1, Zenon DEF HostRecord
  <2>3. /\ y.at = "discarding" /\ y.left = x.left /\ y.built = x.built
        /\ y.next = NoEntries
    BY <1>2, <2>1, <2>2 DEF HostRecord
  <2>4. Settles(x, t) = y
    <3>1. Settles(x, t) = [Ended(x) EXCEPT !.at = "discarding", !.then = t,
                             !.left = x.left, !.attempt = x.attempt, !.built = x.built]
      BY <1>4 DEF Settles
    <3> QED
      BY <1>1, <2>1, <3>1
  <2> QED
    BY <1>4, <2>2, <2>3, <2>4
<1>5. CASE x.left = {} /\ t = "retry"
  <2>1. PICK y : y = [e EXCEPT !.at = "reading", !.attempt = x.attempt + 1]
    OBVIOUS
  <2>2. y \in HostRecord
    BY <1>2, <1>3, <2>1, Zenon DEF HostRecord
  <2>3. y.at = "reading" /\ y.built = {} /\ y.next = NoEntries
    BY <1>2, <2>1, <2>2 DEF HostRecord
  <2>4. Settles(x, t) = y
    BY <1>1, <1>5, <2>1 DEF Settles
  <2> QED
    BY <1>5, <2>2, <2>3, <2>4
<1>6. CASE x.left = {} /\ t # "retry"
  <2>1. Settles(x, t) = e
    BY <1>1, <1>6 DEF Settles
  <2> QED
    BY <1>2, <1>6, <2>1
<1> QED
  BY <1>4, <1>5, <1>6

\* What x has still to discard is harmless, and the rest is gone or known.
Discards(x) ==
  /\ x.left \subseteq x.built /\ x.built \subseteq made
  /\ \A n \in x.left :
       /\ n \in Active(catalog) => n \in unsure
       /\ \A r \in Readers : Reads(r, n) => n \in unsure
  /\ \A n \in x.built \ x.left : points[n] = NoPoints \/ n \in Known(catalog)

LEMMA SettledOK ==
  ASSUME NEW x \in HostRecord, NEW t \in {None, "retry", "end"},
         NEW y \in HostRecord, y = Settles(x, t), Discards(x)'
  PROVE  /\ HostOK(y)' /\ y.next = NoEntries /\ y.at \notin Building
         /\ y.built \subseteq x.built /\ InUse(y) = {}
<1>0. x.left \subseteq x.built
  BY DEF Discards
<1>1. /\ y.next = NoEntries
      /\ x.left = {} => y.at \in {"idle", "reading"} /\ y.built = {}
      /\ x.left # {} => y.at = "discarding" /\ y.left = x.left /\ y.built = x.built
  BY <1>0, SettlesFields
<1>2. y.at \notin Building /\ y.built \subseteq x.built
  BY <1>1 DEF Building, Making
<1>3. InUse(y) = {}
  BY <1>1, <1>2, NothingInUse
<1>4. CASE x.left = {}
  BY <1>1, <1>2, <1>3, <1>4, RestOK
<1>5. CASE x.left # {}
  <2>1. /\ y.at = "discarding" /\ y.left = x.left /\ y.built = x.built /\ y.next = NoEntries
    BY <1>1, <1>5
  <2>2. DiscardOK(y)' /\ BuiltOK(y)'
    BY <2>1 DEF Discards, DiscardOK, BuiltOK, Building, Making
  <2>3. SnapOK(y)' /\ SweepOK(y)' /\ BuildOK(y)'
    BY <2>1 DEF SnapOK, SweepOK, BuildOK, Building, Making
  <2> QED
    BY <1>1, <1>2, <1>3, <2>2, <2>3 DEF HostOK
<1> QED
  BY <1>4, <1>5

LEMMA DiscardKeeps ==
  ASSUME SkillInv, NEW h \in Hosts, Discard(h)
  PROVE  SkillInv'
<1>1. PICK x : x = host[h]
  OBVIOUS
<1>2. x \in HostRecord /\ HostOK(x) /\ x.at = "discarding"
  BY <1>1, HostFacts DEF Discard
<1>3. PICK n \in x.left :
        /\ IF Served(n) THEN UNCHANGED points ELSE Deleted(n)
        /\ host' = [host EXCEPT ![h] =
             Settles([host[h] EXCEPT !.left = host[h].left \ {n}], host[h].then)]
  BY <1>1 DEF Discard
<1>4. PICK z : z = [x EXCEPT !.left = x.left \ {n}]
  OBVIOUS
<1>5. z \in HostRecord /\ z.left = x.left \ {n} /\ z.built = x.built
  <2>1. x.left \ {n} \in SUBSET (Groups \cup Generations)
    BY <1>2 DEF HostRecord
  <2>2. z \in HostRecord
    BY <1>2, <1>4, <2>1, Zenon DEF HostRecord
  <2> QED
    BY <1>2, <1>4, <2>2 DEF HostRecord
<1>6. PICK t \in {None, "retry", "end"} : t = x.then
  BY <1>2 DEF HostRecord
<1>7. PICK y : y = Settles(z, t)
  OBVIOUS
<1>8. host' = [host EXCEPT ![h] = y]
  <2>1. host' = [host EXCEPT ![h] = Settles([x EXCEPT !.left = x.left \ {n}], x.then)]
    BY <1>1, <1>3
  <2> QED
    BY <1>4, <1>6, <1>7, <2>1
<1>9. x.left \subseteq x.built /\ z.left \subseteq z.built
  BY <1>2, <1>5 DEF HostOK, DiscardOK
<1>10. y \in HostRecord
  BY <1>5, <1>7, <1>9, SettlesFields
<1>11. y.built \subseteq x.built /\ InUse(y) = {}
  <2>1. y.next = NoEntries /\ y.at \notin Building /\ y.built \subseteq x.built
    BY <1>5, <1>7, <1>9, SettlesFields DEF Building, Making
  <2> QED
    BY <1>10, <2>1, NothingInUse
<1>12. UNCHANGED <<clock, catalog, made, reader, loads, written, late, unsure>>
       /\ loads' \in Nat
  BY DEF Discard, history, SkillInv, SkillTypeOK
<1>13. InUse(y) \subseteq InUse(host[h]) /\ y.built \subseteq host[h].built
  BY <1>1, <1>11
<1>14. n \in Generations
  BY <1>2, <1>9 DEF HostRecord
<1>15. CASE Served(n)
  <2>1. UNCHANGED points
    BY <1>3, <1>15
  <2>2. Discards(z)'
    <3>1. n \in Known(catalog)
      BY <1>15 DEF Served, Known
    <3> QED
      BY <1>2, <1>5, <1>9, <1>12, <2>1, <3>1
      DEF Discards, HostOK, DiscardOK, BuiltOK, Reads
  <2>3. HostOK(y)'
    BY <1>5, <1>7, <1>10, <2>2, SettledOK
  <2> QED
    BY <1>8, <1>10, <1>12, <1>13, <2>1, <2>3, QuietKeeps
<1>16. CASE ~Served(n)
  <2>1. Deleted(n)
    BY <1>3, <1>16
  <2>2. MayGo(n)
    <3>1. n \notin Active(catalog)
      BY <1>16 DEF Served
    <3>2. ASSUME NEW k \in Hosts, n \in InUse(host[k]) PROVE FALSE
      <4>1. host[k].at \in Building /\ n \in host[k].built
        BY <3>2, HostFacts, InUseIsBuilt DEF HostOK
      <4>2. k # h
        BY <1>1, <1>2, <4>1 DEF Building, Making
      <4> QED
        BY <1>1, <1>9, <4>1, <4>2 DEF SkillInv, Apart
    <3> QED
      BY <1>2, <3>1, <3>2 DEF MayGo, HostOK, DiscardOK
  <2>3. HostOK(x)' /\ points'[n] = NoPoints
    BY <1>1, <1>8, <1>10, <1>12, <1>13, <1>14, <2>1, <2>2, DeleteFacts
  <2>4. Discards(z)'
    BY <1>2, <1>5, <1>9, <2>3 DEF Discards, HostOK, DiscardOK, BuiltOK
  <2>5. HostOK(y)'
    BY <1>5, <1>7, <1>10, <2>4, SettledOK
  <2> QED
    BY <1>8, <1>10, <1>12, <1>13, <1>14, <2>1, <2>2, <2>5, DeleteKeeps
<1> QED
  BY <1>15, <1>16

-----------------------------------------------------------------------------
(* The build of a generation.                                              *)

LEMMA StampsTyped ==
  ASSUME NEW x \in HostRecord
  PROVE  /\ Embedded(x) \in Stamps /\ Copied(x) \in Stamps
         /\ \A p \in Stamps : With(p, Copied(x)) \in Stamps
<1>1. x.since \in Nat
  BY DEF HostRecord
<1>2. Embedded(x) \in Stamps /\ Copied(x) \in Stamps
  BY <1>1 DEF Embedded, Copied, Stamps
<1> QED
  BY <1>2 DEF With, Stamps

\* The generation that is made is in use.
LEMMA MadeInUse ==
  ASSUME SkillInv, NEW h \in Hosts, NEW x \in HostRecord, x = host[h], x.at \in Making
  PROVE  /\ x.generation \in InUse(x) /\ x.generation \in Generations
         /\ x.generation \in x.built
         /\ x.group \in x.left /\ x.group \in Groups /\ x.group \in Desired(x)
<1>1. x.group \in x.left /\ x.generation \in x.built /\ x.left \subseteq Desired(x)
  BY HostFacts DEF HostOK, BuildOK, Building
<1> QED
  BY <1>1 DEF InUse, HostRecord, Desired

\* A host writes a generation it uses.
LEMMA WriteKeeps ==
  ASSUME SkillInv, NEW h \in Hosts, NEW y \in HostRecord,
         host' = [host EXCEPT ![h] = y], InUse(y) \subseteq InUse(host[h]),
         y.built \subseteq host[h].built,
         NEW g \in InUse(host[h]), g \in Generations, NEW p \in Stamps, NEW w \in Stamps,
         points' = [points EXCEPT ![g] = p], written' = [written EXCEPT ![g] = w],
         Old(g) => Old(g)',
         UNCHANGED <<clock, catalog, made, reader, loads, late, unsure>>,
         HostOK(y)'
  PROVE  SkillInv'
<1>1. PICK W : W = {g}
  OBVIOUS
<1>2. /\ points \in [Generations -> Stamps] /\ written \in [Generations -> Stamps]
      /\ host \in [Hosts -> HostRecord] /\ clock \in Nat /\ catalog.revision \in Nat
  BY CatalogFacts DEF SkillInv, SkillTypeOK
<1>3. SkillTypeOK'
  BY <1>2 DEF SkillInv, SkillTypeOK
<1>4. Owned(W) /\ W \subseteq host[h].built
  BY <1>1, HostFacts, InUseIsBuilt DEF Owned, HostOK
<1>5. CatalogMoves(W)
  BY <1>2 DEF CatalogMoves, SkillInv, StoreOK
<1>6. StoreMoves(W)
  <2>1. \A n \in Generations \ W : written'[n] = written[n] /\ points'[n] = points[n]
    BY <1>1, <1>2
  <2>2. \A n \in W : Old(n) => Old(n)'
    BY <1>1
  <2>3. \A k \in Hosts : InUse(host'[k]) \cap made \subseteq InUse(host[k])
    BY <1>2
  <2> QED
    BY <2>1, <2>2, <2>3 DEF StoreMoves
<1>7. Moves(W)
  BY <1>5, <1>6 DEF Moves, ReadersMove
<1>8. y.built \subseteq host[h].built \cup (Generations \ made)
  OBVIOUS
<1> QED
  BY <1>3, <1>4, <1>7, <1>8, MoveKeeps

LEMMA EnteredFields ==
  ASSUME SkillInv, NEW x \in HostRecord, x.group \in Groups, NEW e \in Entry \cup {None},
         NEW y, y = Entered(x, e)
  PROVE  /\ y \in HostRecord /\ y.snap = x.snap /\ y.failed = x.failed /\ y.got = x.got
         /\ y.built = x.built /\ y.left = x.left \ {x.group} /\ y.generation = None
         /\ y.at = IF x.left = {x.group} THEN "publishing" ELSE "building"
         /\ \A g \in Groups : y.next[g] = IF g = x.group THEN e ELSE x.next[g]
<1> DEFINE a == IF x.left = {x.group} THEN "publishing" ELSE "building"
           N == [x.next EXCEPT ![x.group] = e]
           s == StampIf(x.left = {x.group})
<1>1. PICK z : z = [x EXCEPT !.next = N, !.left = x.left \ {x.group}, !.live = None,
                    !.group = None, !.generation = None, !.since = s, !.at = a]
  OBVIOUS
<1>2. y = z
  BY <1>1 DEF Entered, HostRecord
<1>3. /\ N \in Entries /\ a \in Places
      /\ x.left \ {x.group} \in SUBSET (Groups \cup Generations)
      /\ \A g \in Groups : N[g] = IF g = x.group THEN e ELSE x.next[g]
  BY DEF HostRecord, Entries, Places, Building
<1>0. s \in Nat
  BY StampTyped
<1> HIDE DEF N, a, s
<1>4. z \in HostRecord
  BY <1>0, <1>1, <1>3, Zenon DEF HostRecord
<1>5. /\ z.snap = x.snap /\ z.failed = x.failed /\ z.got = x.got /\ z.built = x.built
      /\ z.left = x.left \ {x.group} /\ z.generation = None /\ z.at = a /\ z.next = N
  BY <1>1, <1>4 DEF HostRecord
<1> QED
  BY <1>2, <1>3, <1>4, <1>5 DEF a

\* Entries that are done stay so while another generation is written.
LEMMA EntryMoves ==
  ASSUME SkillInv, NEW h \in Hosts, NEW x \in HostRecord, x = host[h], x.at \in Building,
         NEW y, y.snap = x.snap, y.failed = x.failed, y.got = x.got,
         x.built \subseteq y.built, y.generation \notin x.built \ {x.generation},
         NEW g \in Groups, y.next[g] = x.next[g], EntryOK(x, g),
         UNCHANGED catalog,
         \A n \in Generations \ {x.generation} :
           points'[n] = points[n] /\ written'[n] = written[n],
         x.generation \in x.built \cup {None}
  PROVE  EntryOK(y, g)'
<1>1. Carried(y, g) = Carried(x, g) /\ Owners(y, g) = Owners(x, g)
  BY PlanFields
<1>2. BuiltOK(x) /\ x.snap \in CatalogRecord /\ x.built \subseteq Generations
  BY HostFacts DEF HostOK
<1>3. CASE x.next[g] = x.snap.entries[g]
  BY <1>3 DEF EntryOK
<1>4. CASE /\ x.next[g] # None
           /\ x.next[g].generation \in x.built \ {x.generation}
           /\ x.next[g].sources = Owners(x, g)
           /\ Current(x.snap) =>
                \A s \in Carried(x, g) :
                  points[x.snap.entries[g].generation][s] # None =>
                    written[x.next[g].generation][s] # None
  <2>1. y.next[g].generation \in y.built \ {y.generation}
    BY <1>4
  <2>2. written'[x.next[g].generation] = written[x.next[g].generation]
    BY <1>2, <1>4
  <2>3. ASSUME NEW s \in Carried(x, g)
        PROVE  points'[x.snap.entries[g].generation] = points[x.snap.entries[g].generation]
    <3>1. x.snap.entries[g] # None
      BY <2>3 DEF Carried
    <3>2. /\ x.snap.entries[g].generation \in Active(x.snap)
          /\ x.snap.entries[g].generation \in Generations
      BY <1>2, <3>1, CatalogFacts
    <3>3. x.snap.entries[g].generation # x.generation
      BY <1>2, <3>2, NoneApart DEF BuiltOK
    <3> QED
      BY <3>2, <3>3
  <2>4. Current(x.snap)' => Current(x.snap)
    BY DEF Current
  <2>5. ASSUME Current(x.snap)', NEW s \in Carried(y, g),
               points'[x.snap.entries[g].generation][s] # None
        PROVE  written'[x.next[g].generation][s] # None
    BY <1>1, <1>4, <2>2, <2>3, <2>4, <2>5
  <2> QED
    BY <1>1, <1>4, <2>1, <2>5 DEF EntryOK
<1> QED
  BY <1>3, <1>4 DEF EntryOK

\* The entry e for the group of x is the prior one, or the fresh one, that has what is
\* carried forward if w is what it was built of.
Suits(x, e, w) ==
  \/ e = x.snap.entries[x.group]
  \/ /\ e = Fresh(x)
     /\ Current(x.snap) =>
          \A s \in Carried(x, x.group) :
            points[x.snap.entries[x.group].generation][s] # None => w[s] # None

\* A group is done: with the fresh generation, that has all it should, or with the
\* prior entry, if any.
LEMMA EnteredOK ==
  ASSUME SkillInv, NEW h \in Hosts, NEW x \in HostRecord, x = host[h], x.at \in Making,
         NEW e, NEW y, y = Entered(x, e),
         NEW w, w = written'[x.generation], Suits(x, e, w),
         e = x.snap.entries[x.group] \/ Good(x.generation)',
         \A n \in Generations \ {x.generation} :
           points'[n] = points[n] /\ written'[n] = written[n],
         UNCHANGED <<clock, catalog, made, reader, late, unsure>>
  PROVE  /\ y \in HostRecord /\ HostOK(y)' /\ y.built = x.built
         /\ InUse(y) \subseteq InUse(x)
<1>1. /\ HostOK(x) /\ x.snap \in CatalogRecord /\ x.built \subseteq Generations
      /\ x.at \in Building
  BY HostFacts DEF Building
<1>2. /\ x.generation \in InUse(x) /\ x.generation \in Generations
      /\ x.generation \in x.built
      /\ x.group \in x.left /\ x.group \in Groups /\ x.group \in Desired(x)
  BY MadeInUse
<1>3. e \in Entry \cup {None} /\ (e = Fresh(x) => e \in Entry)
  <2>1. x.snap.entries[x.group] \in Entry \cup {None}
    BY <1>1, <1>2, CatalogFacts
  <2>2. Owners(x, x.group) \in SUBSET Sources
    <3>1. x.snap.entries[x.group] # None => x.snap.entries[x.group].sources \subseteq Sources
      BY <1>1, <1>2, CatalogFacts
    <3> QED
      BY <3>1 DEF Owners, Carried
  <2>3. Fresh(x) \in Entry
    BY <1>2, <2>2 DEF Fresh, Entry
  <2> QED
    BY <2>1, <2>3 DEF Suits
<1>4. /\ y \in HostRecord /\ y.snap = x.snap /\ y.failed = x.failed /\ y.got = x.got
      /\ y.built = x.built /\ y.left = x.left \ {x.group} /\ y.generation = None
      /\ y.at = IF x.left = {x.group} THEN "publishing" ELSE "building"
      /\ \A g \in Groups : y.next[g] = IF g = x.group THEN e ELSE x.next[g]
  BY <1>2, <1>3, EnteredFields
<1>5. /\ Desired(y) = Desired(x)
      /\ \A g \in Groups : Carried(y, g) = Carried(x, g) /\ Owners(y, g) = Owners(x, g)
  BY <1>4, PlanFields
<1>6. y.at \in {"publishing", "building"} /\ y.at \notin Making /\ y.at \in Building
  BY <1>4 DEF Building, Making
<1>7. \A g \in Groups : x.snap.entries[g] # None =>
        /\ x.snap.entries[g].generation \in Active(x.snap)
        /\ x.snap.entries[g].generation \notin x.built
  BY <1>1, CatalogFacts DEF HostOK, BuiltOK
<1>8. ASSUME NEW n \in InUse(y)
      PROVE  n \in InUse(x) /\ Good(n)'
  <2>1. PICK g \in Groups : y.next[g] # None /\ y.next[g].generation = n
    BY <1>6, <1>8 DEF InUse
  <2>2. n \in x.built /\ n \in Generations
    BY <1>1, <1>4, <1>8 DEF InUse
  <2>3. CASE g = x.group
    <3>1. y.next[g] = e /\ e # x.snap.entries[g]
      <4>1. y.next[g] = e
        BY <1>4, <2>3
      <4>2. e # None /\ e.generation \in x.built
        BY <2>1, <2>2, <4>1
      <4> QED
        BY <1>7, <4>1, <4>2
    <3>2. n = x.generation /\ Good(x.generation)'
      <4>1. e # x.snap.entries[x.group]
        BY <2>3, <3>1
      <4>2. e = Fresh(x) /\ Good(x.generation)'
        BY <4>1 DEF Suits
      <4>3. e.generation = x.generation
        BY <4>2 DEF Fresh
      <4> QED
        BY <2>1, <3>1, <4>2, <4>3
    <3> QED
      BY <1>2, <3>2
  <2>4. CASE g # x.group
    <3>1. y.next[g] = x.next[g]
      BY <1>4, <2>4
    <3>2. n \in InUse(x)
      BY <2>1, <2>2, <3>1 DEF InUse
    <3>3. EntryOK(x, g)
      BY <1>1, <2>1, <3>1 DEF HostOK, BuildOK
    <3>4. n # x.generation
      BY <1>7, <2>1, <2>2, <3>1, <3>3 DEF EntryOK
    <3>5. Good(n)
      BY <1>1, <3>2, <3>4 DEF HostOK, BuiltOK
    <3>6. points'[n] = points[n] /\ written'[n] = written[n] /\ clock' = clock
      BY <2>2, <3>4
    <3> QED
      BY <3>2, <3>5, <3>6 DEF Good, Within, Old
  <2> QED
    BY <2>3, <2>4
<1>9. HostOK(y)'
  <2>1. SnapOK(y)'
    BY <1>1, <1>4, <1>6 DEF HostOK, SnapOK, Current
  <2>2. SweepOK(y)' /\ DiscardOK(y)'
    BY <1>6 DEF SweepOK, DiscardOK
  <2>3. BuiltOK(y)'
    <3>1. /\ x.built \subseteq made
          /\ x.built \cap (Known(catalog) \cup Active(x.snap)) = {}
          /\ \A r \in Readers, n \in x.built : ~Reads(r, n)
      BY <1>1 DEF HostOK, BuiltOK
    <3>2. Known(catalog') = Known(catalog)
      OBVIOUS
    <3>3. \A r \in Readers, n \in x.built : ~Reads(r, n)'
      BY <3>1 DEF Reads
    <3> QED
      BY <1>4, <1>6, <1>8, <3>1, <3>2, <3>3 DEF BuiltOK
  <2>4. BuildOK(y)'
    <3>1. ASSUME NEW g \in Groups, g # x.group
          PROVE  IF g \in Desired(y) \ y.left THEN EntryOK(y, g)' ELSE y.next[g] = None
      <4>1. IF g \in Desired(x) \ x.left THEN EntryOK(x, g) ELSE x.next[g] = None
        BY <1>1 DEF HostOK, BuildOK
      <4>2. EntryOK(x, g) => EntryOK(y, g)'
        BY <1>1, <1>2, <1>4, <3>1, NoneApart, EntryMoves
      <4> QED
        BY <1>4, <1>5, <3>1, <4>1, <4>2
    <3>2. EntryOK(y, x.group)'
      <4>1. CASE e = x.snap.entries[x.group]
        <5>1. y.next[x.group] = y.snap.entries[x.group]
          BY <1>2, <1>4, <4>1
        <5> QED
          BY <5>1 DEF EntryOK
      <4>2. CASE /\ e = Fresh(x)
                 /\ Current(x.snap) =>
                      \A s \in Carried(x, x.group) :
                        points[x.snap.entries[x.group].generation][s] # None => w[s] # None
        <5>1. e.generation = x.generation /\ e.sources = Owners(x, x.group) /\ e # None
          BY <1>3, <4>2, NoneApart DEF Fresh
        <5>2. Current(x.snap)' = Current(x.snap)
          BY DEF Current
        <5>3. ASSUME NEW s \in Carried(x, x.group)
              PROVE  points'[x.snap.entries[x.group].generation]
                       = points[x.snap.entries[x.group].generation]
          <6>1. x.snap.entries[x.group] # None
            BY <5>3 DEF Carried
          <6>2. x.snap.entries[x.group].generation \in Generations \ {x.generation}
            BY <1>1, <1>2, <1>7, <6>1, CatalogFacts
          <6> QED
            BY <6>2
        <5>4. y.next[x.group] = e /\ x.generation \in y.built \ {y.generation}
          BY <1>2, <1>4, NoneApart
        <5>5. ASSUME Current(x.snap)', NEW s \in Carried(x, x.group),
                     points'[x.snap.entries[x.group].generation][s] # None
              PROVE  written'[x.generation][s] # None
          BY <4>2, <5>2, <5>3, <5>5
        <5>6. Carried(y, x.group) = Carried(x, x.group) /\ Owners(y, x.group) = Owners(x, x.group)
          BY <1>2, <1>5
        <5>7. y.snap = x.snap
          BY <1>4
        <5>8. /\ y.next[x.group] # None
              /\ y.next[x.group].generation \in y.built \ {y.generation}
              /\ y.next[x.group].sources = Owners(y, x.group)
          BY <5>1, <5>4, <5>6
        <5>9. ASSUME Current(y.snap)', NEW s \in Carried(y, x.group),
                     points'[y.snap.entries[x.group].generation][s] # None
              PROVE  written'[y.next[x.group].generation][s] # None
          <6>1. Current(x.snap)'
            BY <5>7, <5>9 DEF Current
          <6>2. points'[x.snap.entries[x.group].generation][s] # None
            BY <5>7, <5>9
          <6>3. written'[x.generation][s] # None
            BY <5>5, <5>6, <5>9, <6>1, <6>2
          <6>4. y.next[x.group].generation = x.generation
            BY <5>1, <5>4
          <6> QED
            BY <6>3, <6>4
        <5> QED
          BY <5>8, <5>9 DEF EntryOK
      <4> QED
        BY <4>1, <4>2 DEF Suits
    <3>3. y.left \subseteq Desired(y) /\ \A s \in y.failed : y.got[s] = {}
      BY <1>1, <1>4, <1>5 DEF HostOK, BuildOK
    <3>4. \A g \in Groups : IF g \in Desired(y) \ y.left THEN EntryOK(y, g)'
                                                          ELSE y.next[g] = None
      BY <1>2, <1>4, <1>5, <3>1, <3>2
    <3>5. y.at = "publishing" => y.left = {}
      BY <1>4
    <3> QED
      BY <1>6, <3>3, <3>4, <3>5 DEF BuildOK, Making
  <2> QED
    BY <2>1, <2>2, <2>3, <2>4 DEF HostOK
<1> QED
  BY <1>4, <1>8, <1>9

LEMMA BeginGenerationKeeps ==
  ASSUME SkillInv, NEW h \in Hosts, BeginGeneration(h)
  PROVE  SkillInv'
<1>1. PICK x : x = host[h]
  OBVIOUS
<1>2. /\ x \in HostRecord /\ HostOK(x) /\ x.at = "building" /\ clock \in Nat
      /\ made \subseteq Generations
  BY <1>1, HostFacts DEF BeginGeneration, SkillInv, SkillTypeOK
<1>3. PICK g \in x.left, n \in Generations \ made :
        /\ made' = made \cup {n}
        /\ host' = [host EXCEPT ![h].group = g, ![h].generation = n,
             ![h].built = @ \cup {n}, ![h].since = clock, ![h].at = "embedding"]
  BY <1>1 DEF BeginGeneration
<1>4. PICK y : y = [x EXCEPT !.group = g, !.generation = n, !.built = x.built \cup {n},
                             !.since = clock, !.at = "embedding"]
  OBVIOUS
<1>5. host' = [host EXCEPT ![h] = y]
  BY <1>1, <1>2, <1>3, <1>4 DEF SkillInv, SkillTypeOK, HostRecord
<1>6. x.left \subseteq Desired(x) /\ Desired(x) \subseteq Groups /\ x.built \subseteq made
  BY <1>2 DEF HostOK, BuildOK, BuiltOK, Building, Desired
<1>7. y \in HostRecord
  <2>1. /\ g \in Groups \cup {None} /\ n \in Generations \cup {None}
        /\ x.built \cup {n} \in SUBSET Generations /\ "embedding" \in Places
    BY <1>2, <1>3, <1>6 DEF Places, Building, Making
  <2> QED
    BY <1>2, <1>4, <2>1, Zenon DEF HostRecord
<1>8. /\ y.group = g /\ y.generation = n /\ y.built = x.built \cup {n} /\ y.at = "embedding"
      /\ y.snap = x.snap /\ y.left = x.left /\ y.failed = x.failed /\ y.got = x.got
      /\ y.next = x.next
  BY <1>2, <1>4, <1>7 DEF HostRecord
<1>9. UNCHANGED <<clock, catalog, points, reader, loads, written, late, unsure>>
  BY DEF BeginGeneration, history
<1>10. PICK W : W = {}
  OBVIOUS
<1>11. Owned(W) /\ W \subseteq host[h].built
       /\ y.built \subseteq host[h].built \cup (Generations \ made)
  <2>1. Owned(W) /\ W \subseteq host[h].built
    BY <1>10 DEF Owned
  <2>2. n \in Generations \ made
    BY <1>3
  <2> QED
    BY <1>1, <1>8, <2>1, <2>2
<1>12. SkillTypeOK'
  <2>1. made' \subseteq Generations
    BY <1>2, <1>3
  <2> QED
    BY <1>5, <1>7, <1>9, <2>1 DEF SkillInv, SkillTypeOK
<1>13. InUse(y) \cap made \subseteq InUse(x)
  BY <1>3, <1>8 DEF InUse
<1>14. Moves(W)
  <2>1. catalog.revision \in Nat /\ host \in [Hosts -> HostRecord]
    BY CatalogFacts DEF SkillInv, SkillTypeOK
  <2>2. CatalogMoves(W)
    BY <1>2, <1>9, <1>10, <2>1 DEF CatalogMoves, SkillInv, StoreOK
  <2>3. \A k \in Hosts : InUse(host'[k]) \cap made \subseteq InUse(host[k])
    BY <1>1, <1>5, <1>13, <2>1
  <2>4. StoreMoves(W)
    BY <1>3, <1>9, <1>10, <2>3 DEF StoreMoves
  <2> QED
    BY <1>9, <2>2, <2>4 DEF Moves, ReadersMove
<1>15. HostOK(y)'
  <2>1. SnapOK(y)'
    BY <1>2, <1>3, <1>8, <1>9 DEF HostOK, SnapOK, Current, Building, Making
  <2>2. SweepOK(y)' /\ DiscardOK(y)'
    BY <1>8 DEF SweepOK, DiscardOK
  <2>3. BuiltOK(y)'
    <3>1. /\ n \notin Known(catalog) /\ n \notin Active(x.snap)
          /\ \A r \in Readers : ~Reads(r, n)
      BY <1>2, <1>3 DEF HostOK, SnapOK, Building, SkillInv, StoreOK, ReaderOK, Reads
    <3>2. y.built \cap (Known(catalog') \cup Active(y.snap)) = {}
      BY <1>2, <1>8, <1>9, <3>1 DEF HostOK, BuiltOK, Building
    <3>3. \A r \in Readers, m \in y.built : ~Reads(r, m)'
      BY <1>2, <1>8, <1>9, <3>1 DEF HostOK, BuiltOK, Building, Reads
    <3>4. ASSUME NEW m \in InUse(y)
          PROVE  IF y.at = "embedding" /\ m = y.generation
                 THEN points'[m] = NoPoints /\ written'[m] = NoPoints
                 ELSE Good(m)'
      <4>1. CASE m = n
        BY <1>3, <1>8, <1>9, <4>1 DEF SkillInv, StoreOK
      <4>2. CASE m # n
        <5>1. m \in made
          BY <1>6, <1>8, <3>4, <4>2 DEF InUse
        <5>2. Good(m)
          BY <1>2, <1>13, <3>4, <5>1 DEF HostOK, BuiltOK, Building
        <5> QED
          BY <1>8, <1>9, <4>2, <5>2 DEF Good, Within, Old
      <4> QED
        BY <4>1, <4>2
    <3> QED
      BY <1>3, <1>6, <1>8, <3>2, <3>3, <3>4 DEF BuiltOK, Building, Making
  <2>4. BuildOK(y)'
    <3>1. Desired(y) = Desired(x)
      BY <1>8, PlanFields
    <3>3. ASSUME NEW i \in Groups, EntryOK(x, i)
          PROVE  EntryOK(y, i)'
      <4>1. Carried(y, i) = Carried(x, i) /\ Owners(y, i) = Owners(x, i)
        BY <1>8, PlanFields
      <4>2. n \notin x.built
        BY <1>3, <1>6
      <4>3. CASE x.next[i] = x.snap.entries[i]
        BY <1>8, <4>3 DEF EntryOK
      <4>4. CASE x.next[i] # x.snap.entries[i]
        <5>1. /\ y.next[i] # None
              /\ y.next[i].generation \in y.built \ {y.generation}
              /\ y.next[i].sources = Owners(y, i)
          BY <1>8, <3>3, <4>1, <4>2, <4>4 DEF EntryOK
        <5>2. ASSUME Current(y.snap)', NEW s \in Carried(y, i),
                     points'[y.snap.entries[i].generation][s] # None
              PROVE  written'[y.next[i].generation][s] # None
          <6>1. Current(x.snap)
            BY <1>8, <1>9, <5>2 DEF Current
          <6> QED
            BY <1>8, <1>9, <3>3, <4>1, <4>4, <5>2, <6>1 DEF EntryOK
        <5> QED
          BY <5>1, <5>2 DEF EntryOK
      <4> QED
        BY <4>3, <4>4
    <3>4. \A i \in Groups : IF i \in Desired(y) \ y.left THEN EntryOK(y, i)'
                                                          ELSE y.next[i] = None
      BY <1>2, <1>8, <3>1, <3>3 DEF HostOK, BuildOK, Building
    <3>5. /\ y.left \subseteq Desired(y)
          /\ \A s \in y.failed : y.got[s] = {}
      BY <1>2, <1>8, <3>1 DEF HostOK, BuildOK, Building
    <3> QED
      BY <1>3, <1>8, <3>4, <3>5 DEF BuildOK, Making
  <2> QED
    BY <2>1, <2>2, <2>3, <2>4 DEF HostOK
<1> QED
  BY <1>1, <1>5, <1>7, <1>11, <1>12, <1>14, <1>15, MoveKeeps

\* The write that ends the build of a group.
LEMMA EnteredKeeps ==
  ASSUME SkillInv, NEW h \in Hosts, NEW x \in HostRecord, x = host[h], x.at \in Making,
         NEW e, host' = [host EXCEPT ![h] = Entered(x, e)],
         NEW p \in Stamps, NEW w \in Stamps, Suits(x, e, w),
         points' = [points EXCEPT ![x.generation] = p],
         written' = [written EXCEPT ![x.generation] = w],
         e = x.snap.entries[x.group] \/ Good(x.generation)',
         Old(x.generation) => Old(x.generation)',
         UNCHANGED <<clock, catalog, made, reader, loads, late, unsure>>
  PROVE  SkillInv'
<1>1. PICK y : y = Entered(x, e)
  OBVIOUS
<1>2. PICK n : n = x.generation
  OBVIOUS
<1>3. n \in InUse(x) /\ n \in Generations
  BY <1>2, MadeInUse
<1>4. points \in [Generations -> Stamps] /\ written \in [Generations -> Stamps]
  BY DEF SkillInv, SkillTypeOK
<1>5. /\ w = written'[x.generation]
      /\ \A m \in Generations \ {x.generation} :
           points'[m] = points[m] /\ written'[m] = written[m]
  BY <1>2, <1>3, <1>4
<1>6. /\ y \in HostRecord /\ HostOK(y)' /\ y.built = x.built
      /\ InUse(y) \subseteq InUse(x)
  BY <1>1, <1>5, EnteredOK, ZenonT(60)
<1>7. Old(n) => Old(n)'
  BY <1>2 DEF Old
<1>8. points' = [points EXCEPT ![n] = p] /\ written' = [written EXCEPT ![n] = w]
  BY <1>2
<1>9. host' = [host EXCEPT ![h] = y] /\ n \in InUse(host[h]) /\ InUse(y) \subseteq InUse(host[h])
      /\ y.built \subseteq host[h].built
  BY <1>1, <1>3, <1>6
<1> QED
  BY <1>3, <1>6, <1>7, <1>8, <1>9, WriteKeeps

\* What was written before the step at hand is not touched by it.
LEMMA NothingWritten ==
  ASSUME NEW n, written[n] = NoPoints
  PROVE  ~Old(n)
  BY DEF Old, NoPoints

LEMMA UpsertedKeeps ==
  ASSUME SkillInv, NEW h \in Hosts, Upserted(h)
  PROVE  SkillInv'
<1>1. PICK x : x = host[h]
  OBVIOUS
<1>2. x \in HostRecord /\ HostOK(x) /\ x.at = "embedding" /\ x.at \in Making /\ x.at \in Building
  BY <1>1, HostFacts DEF Upserted, Building, Making
<1>3. PICK p \in Stamps : p = Embedded(x)
  BY <1>2, StampsTyped
<1>4. /\ points' = [points EXCEPT ![x.generation] = p]
      /\ written' = [written EXCEPT ![x.generation] = p]
      /\ host' = [host EXCEPT ![h] = IF Carried(x, x.group) = {}
                                     THEN Entered(x, Fresh(x))
                                     ELSE [x EXCEPT !.at = "carrying"]]
      /\ UNCHANGED <<clock, catalog, made, reader, loads, late, unsure>>
  BY <1>1, <1>3 DEF Upserted
<1>5. /\ x.generation \in InUse(x) /\ x.generation \in Generations
      /\ x.generation \in x.built
      /\ x.group \in x.left /\ x.group \in Groups /\ x.group \in Desired(x)
  BY <1>1, <1>2, MadeInUse
<1>6. /\ points'[x.generation] = p /\ written'[x.generation] = p
      /\ \A m \in Generations \ {x.generation} :
           points'[m] = points[m] /\ written'[m] = written[m]
  BY <1>4, <1>5 DEF SkillInv, SkillTypeOK
<1>7. Good(x.generation)'
  BY <1>6 DEF Good, Within
<1>8. ~Old(x.generation)
  BY <1>2, <1>5, NothingWritten DEF HostOK, BuiltOK
<1>9. CASE Carried(x, x.group) = {}
  <2>1. PICK e : e = Fresh(x)
    OBVIOUS
  <2>2. Suits(x, e, p)
    BY <1>9, <2>1 DEF Suits
  <2>3. host' = [host EXCEPT ![h] = Entered(x, e)]
    BY <1>4, <1>9, <2>1
  <2> QED
    BY <1>1, <1>2, <1>4, <1>7, <1>8, <2>2, <2>3, EnteredKeeps
<1>10. CASE Carried(x, x.group) # {}
  <2>1. PICK y : y = [x EXCEPT !.at = "carrying"]
    OBVIOUS
  <2>2. y \in HostRecord
    <3>1. "carrying" \in Places
      BY DEF Places, Building, Making
    <3> QED
      BY <1>2, <2>1, <3>1, AtMoves
  <2>3. /\ y.at = "carrying" /\ y.group = x.group /\ y.generation = x.generation
        /\ y.built = x.built /\ y.next = x.next /\ y.snap = x.snap /\ y.left = x.left
        /\ y.failed = x.failed /\ y.got = x.got
    BY <1>2, <2>1, <2>2 DEF HostRecord
  <2>4. InUse(y) = InUse(x)
    BY <1>2, <2>3 DEF InUse, Making
  <2>5. /\ Desired(y) = Desired(x)
        /\ \A g \in Groups : Carried(y, g) = Carried(x, g)
    BY <2>3, PlanFields
  <2>6. host' = [host EXCEPT ![h] = y]
    BY <1>4, <1>10, <2>1
  <2>7. BuiltOK(y)'
    <3>1. ASSUME NEW m \in InUse(x)
          PROVE  Good(m)'
      <4>1. CASE m = x.generation
        BY <1>7, <4>1 DEF Good, Within, Old
      <4>2. CASE m # x.generation
        <5>1. Good(m) /\ m \in Generations
          BY <1>2, <3>1, <4>2 DEF HostOK, BuiltOK, InUse, HostRecord
        <5> QED
          BY <1>4, <1>6, <4>2, <5>1 DEF Good, Within, Old
      <4> QED
        BY <4>1, <4>2
    <3>2. /\ y.built \subseteq made'
          /\ y.built \cap (Known(catalog') \cup Active(y.snap)) = {}
          /\ \A r \in Readers, n \in y.built : ~Reads(r, n)'
      BY <1>2, <1>4, <2>3 DEF HostOK, BuiltOK, Reads
    <3> QED
      BY <2>3, <2>4, <3>1, <3>2 DEF BuiltOK, Building, Making
  <2>8. BuildOK(y)'
    <3>1. ASSUME NEW g \in Groups, EntryOK(x, g)
          PROVE  EntryOK(y, g)'
      BY <1>1, <1>2, <1>4, <1>5, <1>6, <2>3, <3>1, EntryMoves
    <3>2. \A g \in Groups : IF g \in Desired(y) \ y.left THEN EntryOK(y, g)'
                                                          ELSE y.next[g] = None
      BY <1>2, <2>3, <2>5, <3>1 DEF HostOK, BuildOK
    <3>3. y.left \subseteq Desired(y) /\ \A s \in y.failed : y.got[s] = {}
      BY <1>2, <2>3, <2>5 DEF HostOK, BuildOK
    <3>4. Carried(y, y.group) # {}
      BY <1>5, <1>10, <2>3, <2>5
    <3>5. ASSUME NEW s \in y.failed
          PROVE  written'[y.generation][s] = None
      <4>1. x.got[s] = {} /\ s \in Sources
        BY <1>2, <2>3, <3>5 DEF HostOK, BuildOK, HostRecord
      <4>2. p[s] = None
        BY <1>3, <4>1 DEF Embedded
      <4> QED
        BY <1>6, <2>3, <4>2
    <3> QED
      BY <1>5, <2>3, <3>2, <3>3, <3>4, <3>5 DEF BuildOK
  <2>9. HostOK(y)'
    <3>1. SnapOK(y)'
      BY <1>2, <1>4, <2>3 DEF HostOK, SnapOK, Current
    <3>2. SweepOK(y)' /\ DiscardOK(y)'
      BY <2>3 DEF SweepOK, DiscardOK
    <3> QED
      BY <2>7, <2>8, <3>1, <3>2 DEF HostOK
  <2>10. PICK n : n = x.generation
    OBVIOUS
  <2>11. /\ n \in InUse(host[h]) /\ n \in Generations /\ InUse(y) \subseteq InUse(host[h])
         /\ y.built \subseteq host[h].built /\ (Old(n) => Old(n)')
         /\ points' = [points EXCEPT ![n] = p] /\ written' = [written EXCEPT ![n] = p]
    BY <1>1, <1>4, <1>5, <1>8, <2>3, <2>4, <2>10
  <2> QED
    BY <1>4, <2>2, <2>6, <2>9, <2>11, WriteKeeps
<1> QED
  BY <1>9, <1>10

LEMMA CarryBeginsKeeps ==
  ASSUME SkillInv, NEW h \in Hosts, CarryBegins(h)
  PROVE  SkillInv'
<1>1. PICK x : x = host[h]
  OBVIOUS
<1>2. /\ x \in HostRecord /\ HostOK(x) /\ x.at = "carrying" /\ x.at \in Making
      /\ x.at \in Building /\ x.snap \in CatalogRecord /\ catalog \in CatalogRecord
      /\ clock \in Nat
  BY <1>1, HostFacts DEF CarryBegins, Building, Making
<1>3. /\ x.generation \in InUse(x) /\ x.generation \in Generations
      /\ x.generation \in x.built
      /\ x.group \in x.left /\ x.group \in Groups /\ x.group \in Desired(x)
  BY <1>1, <1>2, MadeInUse
<1>4. UNCHANGED <<clock, catalog, points, made, reader, loads, written, late, unsure>>
      /\ loads' \in Nat
  BY DEF CarryBegins, history, SkillInv, SkillTypeOK
<1>5. Carried(x, x.group) # {}
  BY <1>2 DEF HostOK, BuildOK
<1>6. Good(x.generation)
  BY <1>2, <1>3 DEF HostOK, BuiltOK
<1>7. CASE catalog.entries[x.group] = None
  <2>1. PICK e : e = Fresh(x)
    OBVIOUS
  <2>2. PICK y : y = Entered(x, e)
    OBVIOUS
  <2>3. host' = [host EXCEPT ![h] = y]
    BY <1>1, <1>7, <2>1, <2>2 DEF CarryBegins
  <2>4. PICK w : w = written'[x.generation]
    OBVIOUS
  <2>5. Suits(x, e, w)
    <3>1. ~Current(x.snap)
      BY <1>2, <1>5, <1>7 DEF HostOK, SnapOK, Carried
    <3> QED
      BY <2>1, <3>1 DEF Suits
  <2>6. Good(x.generation)'
    BY <1>4, <1>6 DEF Good, Within, Old
  <2>7. /\ y \in HostRecord /\ HostOK(y)' /\ y.built = x.built
        /\ InUse(y) \subseteq InUse(x)
    BY <1>1, <1>2, <1>4, <2>2, <2>4, <2>5, <2>6, EnteredOK
  <2> QED
    BY <1>1, <1>4, <2>3, <2>7, QuietKeeps
<1>8. CASE catalog.entries[x.group] # None
  <2>0. PICK l \in Generations \cup {None} : l = catalog.entries[x.group].generation
    BY <1>2, <1>3, <1>8, CatalogFacts
  <2>1. PICK y : y = [x EXCEPT !.at = "copying", !.since = clock, !.live = l]
    OBVIOUS
  <2>2. y \in HostRecord
    <3>1. "copying" \in Places
      BY DEF Places, Building, Making
    <3> QED
      BY <1>2, <2>1, <3>1, Zenon DEF HostRecord
  <2>3. /\ y.at = "copying" /\ y.group = x.group /\ y.generation = x.generation
        /\ y.built = x.built /\ y.next = x.next /\ y.snap = x.snap /\ y.left = x.left
        /\ y.failed = x.failed /\ y.got = x.got /\ y.live = l
    BY <1>2, <2>1, <2>2 DEF HostRecord
  <2>4. InUse(y) = InUse(x)
    BY <1>2, <2>3 DEF InUse, Making
  <2>5. /\ Desired(y) = Desired(x)
        /\ \A g \in Groups : Carried(y, g) = Carried(x, g)
    BY <2>3, PlanFields
  <2>6. host' = [host EXCEPT ![h] = y]
    BY <1>1, <1>8, <2>0, <2>1 DEF CarryBegins
  <2>7. BuiltOK(y)'
    <3>1. ASSUME NEW m \in InUse(x)
          PROVE  Good(m)'
      <4>1. Good(m)
        BY <1>2 DEF HostOK, BuiltOK
      <4> QED
        BY <1>4, <4>1 DEF Good, Within, Old
    <3>2. /\ y.built \subseteq made'
          /\ y.built \cap (Known(catalog') \cup Active(y.snap)) = {}
          /\ \A r \in Readers, n \in y.built : ~Reads(r, n)'
      BY <1>2, <1>4, <2>3 DEF HostOK, BuiltOK, Reads
    <3> QED
      BY <2>3, <2>4, <3>1, <3>2 DEF BuiltOK, Building, Making
  <2>8. BuildOK(y)'
    <3>1. ASSUME NEW g \in Groups, EntryOK(x, g)
          PROVE  EntryOK(y, g)'
      BY <1>1, <1>2, <1>3, <1>4, <2>3, <3>1, EntryMoves
    <3>2. \A g \in Groups : IF g \in Desired(y) \ y.left THEN EntryOK(y, g)'
                                                          ELSE y.next[g] = None
      BY <1>2, <2>3, <2>5, <3>1 DEF HostOK, BuildOK
    <3>3. /\ y.left \subseteq Desired(y) /\ \A s \in y.failed : y.got[s] = {}
          /\ \A s \in y.failed : written'[y.generation][s] = None
      BY <1>2, <1>4, <2>3, <2>5 DEF HostOK, BuildOK
    <3>4. Carried(y, y.group) # {}
      BY <1>3, <1>5, <2>3, <2>5
    <3>5. Current(y.snap)' => y.live = y.snap.entries[y.group].generation
      BY <1>2, <1>4, <2>0, <2>3 DEF HostOK, SnapOK, Current
    <3> QED
      BY <1>3, <2>3, <3>2, <3>3, <3>4, <3>5 DEF BuildOK
  <2>9. HostOK(y)'
    <3>1. SnapOK(y)'
      BY <1>2, <1>4, <2>3 DEF HostOK, SnapOK, Current, Building, Making
    <3>2. SweepOK(y)' /\ DiscardOK(y)'
      BY <2>3 DEF SweepOK, DiscardOK
    <3> QED
      BY <2>7, <2>8, <3>1, <3>2 DEF HostOK
  <2> QED
    BY <1>1, <1>4, <2>2, <2>3, <2>4, <2>6, <2>9, QuietKeeps
<1> QED
  BY <1>7, <1>8

LEMMA CarryEndsKeeps ==
  ASSUME SkillInv, NEW h \in Hosts, CarryEnds(h)
  PROVE  SkillInv'
<1>1. PICK x : x = host[h]
  OBVIOUS
<1>2. /\ x \in HostRecord /\ HostOK(x) /\ x.at = "copying" /\ x.at \in Making
      /\ x.at \in Building /\ clock \in Nat /\ x.since \in Nat
  BY <1>1, HostFacts DEF CarryEnds, Building, Making
<1>3. /\ x.generation \in InUse(x) /\ x.generation \in Generations
      /\ x.group \in Groups
  BY <1>1, <1>2, MadeInUse
<1> DEFINE n == x.generation
           c == Copied(x)
<1>4. /\ points[n] \in Stamps /\ written[n] \in Stamps
      /\ points \in [Generations -> Stamps] /\ written \in [Generations -> Stamps]
  BY <1>3 DEF SkillInv, SkillTypeOK
<1>5. PICK p \in Stamps, w \in Stamps : p = With(points[n], c) /\ w = With(written[n], c)
  BY <1>2, <1>4, StampsTyped
<1>6. PICK e : e = Fresh(x)
  OBVIOUS
<1>7. /\ points' = [points EXCEPT ![n] = p] /\ written' = [written EXCEPT ![n] = w]
      /\ host' = [host EXCEPT ![h] = Entered(x, e)]
      /\ UNCHANGED <<clock, catalog, made, reader, loads, late, unsure>>
  BY <1>1, <1>4, <1>5, <1>6 DEF CarryEnds
<1>8. points'[n] = p /\ written'[n] = w
  BY <1>3, <1>4, <1>7
<1>9. \A s \in Sources : /\ p[s] = IF c[s] = None THEN points[n][s] ELSE c[s]
                         /\ w[s] = IF c[s] = None THEN written[n][s] ELSE c[s]
  BY <1>5 DEF With
<1>10. \A s \in Sources : c[s] = IF s \in Carried(x, x.group) /\ points[x.live][s] # None
                                 THEN x.since ELSE None
  BY DEF Copied
<1> HIDE DEF c
<1>11. Old(n) => Old(n)'
  <2>1. ASSUME NEW s \in Sources, written[n][s] # None
        PROVE  c[s] = None
    <3>1. s \notin x.failed
      BY <1>2, <2>1 DEF HostOK, BuildOK
    <3>2. s \notin Carried(x, x.group)
      BY <3>1 DEF Carried
    <3> QED
      BY <1>10, <3>2
  <2>2. \A s \in Sources : written[n][s] # None => w[s] = written[n][s]
    BY <1>9, <2>1
  <2> QED
    BY <1>7, <1>8, <2>2 DEF Old
<1>12. Good(n)'
  <2>1. Good(n)
    BY <1>2, <1>3 DEF HostOK, BuiltOK
  <2>2. Within(n)'
    BY <1>8, <1>9, <2>1 DEF Good, Within
  <2>3. points[n] = written[n] => p = w
    BY <1>5
  <2> QED
    BY <1>8, <1>11, <2>1, <2>2, <2>3 DEF Good
<1>13. Suits(x, e, w)
  <2>1. ASSUME Current(x.snap), NEW s \in Carried(x, x.group),
               points[x.snap.entries[x.group].generation][s] # None
        PROVE  w[s] # None
    <3>1. x.live = x.snap.entries[x.group].generation
      BY <1>2, <2>1 DEF HostOK, BuildOK
    <3>2. s \in Sources
      BY <1>2, <2>1 DEF Carried, HostRecord
    <3>3. c[s] = x.since /\ x.since # None
      BY <1>2, <1>10, <2>1, <3>1, <3>2, NoneApart
    <3> QED
      BY <1>9, <3>2, <3>3
  <2> QED
    BY <1>6, <2>1 DEF Suits
<1> QED
  BY <1>1, <1>2, <1>7, <1>11, <1>12, <1>13, EnteredKeeps

LEMMA BuildFailsKeeps ==
  ASSUME SkillInv, NEW h \in Hosts, BuildFails(h)
  PROVE  SkillInv'
<1>1. PICK x : x = host[h]
  OBVIOUS
<1>2. x \in HostRecord /\ x.at \in Making
  BY <1>1, HostFacts DEF BuildFails, Making
<1>3. x.generation \in Generations
  BY <1>1, <1>2, MadeInUse
<1>4. points \in [Generations -> Stamps] /\ written \in [Generations -> Stamps]
  BY DEF SkillInv, SkillTypeOK
<1>5. PICK e : e = x.snap.entries[x.group]
  OBVIOUS
<1>6. PICK w \in Stamps : w = written[x.generation]
  BY <1>3, <1>4
<1>7. PICK p \in Stamps : points' = [points EXCEPT ![x.generation] = p]
  <2>1. /\ points[x.generation] \in Stamps
        /\ Embedded(x) \in Stamps /\ With(points[x.generation], Copied(x)) \in Stamps
    BY <1>2, <1>3, <1>4, StampsTyped
  <2>2. \/ points' = points
        \/ points' = [points EXCEPT ![x.generation] = Embedded(x)]
        \/ points' = [points EXCEPT ![x.generation] = With(points[x.generation], Copied(x))]
    BY <1>1, <1>3, <1>4 DEF BuildFails
  <2>3. CASE points' = points
    <3>1. points' = [points EXCEPT ![x.generation] = points[x.generation]]
      BY <1>3, <1>4, <2>3
    <3> QED
      BY <2>1, <3>1
  <2> QED
    BY <2>1, <2>2, <2>3
<1>8. /\ host' = [host EXCEPT ![h] = Entered(x, e)]
      /\ UNCHANGED <<clock, catalog, made, reader, loads, written, late, unsure>>
  BY <1>1, <1>5 DEF BuildFails, history
<1>9. written' = [written EXCEPT ![x.generation] = w]
  BY <1>3, <1>4, <1>6, <1>8
<1>10. Suits(x, e, w)
  BY <1>5 DEF Suits
<1>11. Old(x.generation) => Old(x.generation)'
  BY <1>8 DEF Old
<1> QED
  BY <1>1, <1>2, <1>5, <1>7, <1>8, <1>9, <1>10, <1>11, EnteredKeeps

-----------------------------------------------------------------------------
(* The publish.                                                            *)

\* What a commit makes of the catalog.
LEMMA PublishedFacts ==
  ASSUME SkillInv, NEW h \in Hosts, NEW x \in HostRecord, x = host[h],
         x.at = "publishing", Current(x.snap), NEW c, c = Published(x.next, x.since)
  PROVE  /\ c \in CatalogRecord /\ c.revision = catalog.revision + 1 /\ c.entries = x.next
         /\ \A n \in Generations :
              c.retired[n] = IF n \in Active(catalog) \ Active(c) /\ catalog.retired[n] = None
                             THEN x.since ELSE catalog.retired[n]
         /\ Active(c) \subseteq Active(catalog) \cup InUse(x)
         /\ x.built \cap Active(c) = InUse(x)
         /\ InUse(x) \cap Known(catalog) = {}
         /\ Retired(c) = Retired(catalog) \cup (Active(catalog) \ Active(c))
         /\ Active(c) \cap Retired(c) = {}
<1>1. /\ HostOK(x) /\ x.next \in Entries /\ x.since \in Nat /\ catalog \in CatalogRecord
      /\ x.at \in Building /\ x.at \notin Making /\ x.snap \in CatalogRecord
      /\ x.built \subseteq Generations
  BY HostFacts DEF Building, Making
<1>2. PICK new : new = [catalog EXCEPT !.revision = @ + 1, !.entries = x.next]
  OBVIOUS
<1>3. new \in CatalogRecord /\ new.revision = catalog.revision + 1 /\ new.entries = x.next
      /\ new.retired = catalog.retired
  <2>1. catalog.revision + 1 \in Nat
    BY <1>1 DEF CatalogRecord
  <2>2. new = [catalog EXCEPT !.revision = catalog.revision + 1, !.entries = x.next]
    BY <1>1, <1>2 DEF CatalogRecord
  <2>3. new \in CatalogRecord
    BY <1>1, <2>1, <2>2, Zenon DEF CatalogRecord
  <2> QED
    BY <1>1, <2>1, <2>2, <2>3 DEF CatalogRecord
<1>4. PICK ret : ret = RetiredBy(new, x.since)
  OBVIOUS
<1>5. c = [new EXCEPT !.retired = ret]
  BY <1>2, <1>4 DEF Published
<1>6. ret \in [Generations -> Nat \cup {None}]
  BY <1>1, <1>4, CatalogFacts DEF RetiredBy
<1>7. /\ c \in CatalogRecord /\ c.revision = catalog.revision + 1 /\ c.entries = x.next
      /\ c.retired = ret
  BY <1>3, <1>5, <1>6 DEF CatalogRecord
<1>8. Active(new) = Active(c)
  BY <1>3, <1>7, EntriesDecide
<1>9. \A n \in Generations :
        c.retired[n] = IF n \in Active(catalog) \ Active(c) /\ catalog.retired[n] = None
                       THEN x.since ELSE catalog.retired[n]
  BY <1>4, <1>7, <1>8 DEF RetiredBy
<1>10. \A n : n \in Active(c) <=> \E g \in Groups : x.next[g] # None /\ x.next[g].generation = n
  BY <1>7 DEF Active, Listed
<1>11. x.built \cap Active(c) = InUse(x)
  BY <1>1, <1>10 DEF InUse
<1>12. Active(c) \subseteq Active(catalog) \cup InUse(x)
  <2>1. ASSUME NEW g \in Groups, x.next[g] # None
        PROVE  x.next[g].generation \in Active(catalog) \cup x.built
    <3>1. EntryOK(x, g)
      BY <1>1, <2>1 DEF HostOK, BuildOK
    <3>2. CASE x.next[g] = x.snap.entries[g]
      <4>1. x.next[g] = catalog.entries[g]
        BY <1>1, <3>2 DEF HostOK, SnapOK
      <4>2. catalog.entries[g].generation \in Active(catalog)
        BY <1>1, <2>1, <4>1, CatalogFacts
      <4> QED
        BY <4>1, <4>2
    <3>3. CASE x.next[g].generation \in x.built \ {x.generation}
      BY <3>3
    <3> QED
      BY <3>1, <3>2, <3>3 DEF EntryOK
  <2> QED
    BY <1>10, <1>11, <2>1
<1>13. InUse(x) \cap Known(catalog) = {}
  BY <1>1, <1>11 DEF HostOK, BuiltOK
<1>14. Active(catalog) \cap Retired(catalog) = {} /\ Active(catalog) \subseteq Generations
  BY <1>1, CatalogFacts DEF SkillInv, StoreOK
<1>15. Retired(c) = Retired(catalog) \cup (Active(catalog) \ Active(c))
  <2>1. x.since # None
    BY <1>1, NoneApart
  <2> QED
    BY <1>9, <1>14, <2>1 DEF Retired
<1>16. Active(c) \cap Retired(c) = {}
  BY <1>12, <1>13, <1>14, <1>15 DEF Known
<1> QED
  BY <1>7, <1>9, <1>11, <1>12, <1>13, <1>15, <1>16

LEMMA CommitMoves ==
  ASSUME SkillInv, Fenced, NEW h \in Hosts, NEW x \in HostRecord, x = host[h],
         x.at = "publishing", Current(x.snap), catalog' = Published(x.next, x.since),
         late' = late \cup LateOf(x), unsure \subseteq unsure',
         NEW y \in HostRecord, host' = [host EXCEPT ![h] = y], InUse(y) = {},
         NEW W, W = InUse(x),
         UNCHANGED <<clock, points, made, reader, loads, written>>
  PROVE  Moves(W)
<1>1. PICK c : c = Published(x.next, x.since)
  OBVIOUS
<1>2. /\ c \in CatalogRecord /\ c.revision = catalog.revision + 1 /\ c.entries = x.next
      /\ \A n \in Generations :
           c.retired[n] = IF n \in Active(catalog) \ Active(c) /\ catalog.retired[n] = None
                          THEN x.since ELSE catalog.retired[n]
      /\ Active(c) \subseteq Active(catalog) \cup W
      /\ W \cap Known(catalog) = {}
      /\ Retired(c) = Retired(catalog) \cup (Active(catalog) \ Active(c))
      /\ Active(c) \cap Retired(c) = {}
  BY <1>1, PublishedFacts
<1>3. catalog' = c
  BY <1>1
<1>4. /\ clock \in Nat /\ catalog.revision \in Nat /\ catalog \in CatalogRecord
      /\ Active(catalog) \cap Retired(catalog) = {} /\ Active(catalog) \subseteq Generations
      /\ Retired(catalog) \subseteq Generations
      /\ HostOK(x) /\ x.at \in Building /\ x.at \notin Making
      /\ host \in [Hosts -> HostRecord]
  BY HostFacts, CatalogFacts DEF SkillInv, SkillTypeOK, StoreOK, Building, Making
<1>5. W \subseteq x.built /\ \A n \in W : Good(n) /\ n \in Generations
  BY <1>4 DEF InUse, HostOK, BuiltOK, HostRecord, Making
<1>6. ASSUME NEW n \in W
      PROVE  n \in late' \/ (Younger(n, clock) /\ points[n] = written[n])
  <2>1. CASE n \in LateOf(x)
    BY <2>1
  <2>2. CASE n \notin LateOf(x)
    <3>1. \A s \in Sources : ~(written[n][s] # None /\ written[n][s] + OrphanGrace <= clock)
      BY <1>5, <2>2 DEF LateOf
    <3>2. \A s \in Sources : written[n][s] # None => written[n][s] \in Nat
      BY <1>5 DEF SkillInv, SkillTypeOK, Stamps
    <3>3. Younger(n, clock)
      BY <1>4, <3>1, <3>2, GracesNat DEF Younger
    <3>4. ~Old(n)
      BY <3>1 DEF Old
    <3> QED
      BY <1>5, <3>3, <3>4 DEF Good
  <2> QED
    BY <2>1, <2>2
<1>7. \A n \in Known(c) \ Known(catalog) : n \in W
  BY <1>2 DEF Known
<1>8. Known(catalog) \subseteq Known(c)
  BY <1>2 DEF Known
<1>9. ASSUME NEW n \in Active(catalog)
      PROVE  \/ n \in Active(c)
             \/ /\ n \in Retired(c)
                /\ \A r \in Readers : Reads(r, n)' => c.retired[n] >= reader'[r].since
  <2>1. catalog.retired[n] = None
    BY <1>4 DEF Retired
  <2>2. n \notin Active(c) => n \in Retired(c) /\ c.retired[n] = x.since
    BY <1>2, <1>4, <2>1
  <2>3. ASSUME NEW r \in Readers, Reads(r, n)'
        PROVE  x.since >= reader'[r].since
    <3>1. reader[r].at # "idle" /\ reader'[r].since = reader[r].since
      BY <2>3 DEF Reads
    <3>2. reader[r].since <= x.since
      BY <3>1 DEF Fenced, Commitable
    <3>3. reader[r].since \in Nat /\ x.since \in Nat
      BY HostFacts DEF SkillInv, SkillTypeOK, QueryRecord
    <3> QED
      BY <3>1, <3>2, <3>3
  <2> QED
    BY <2>2, <2>3
<1>10. ASSUME NEW n \in Retired(catalog)
       PROVE  n \in Retired(c) /\ c.retired[n] = catalog.retired[n]
  BY <1>2, <1>4, <1>10
<1>11. CatalogMoves(W)
  <2>1. /\ clock <= clock' /\ late \subseteq late' /\ unsure \subseteq unsure'
        /\ catalog.revision <= catalog'.revision
        /\ catalog'.revision # catalog.revision
    BY <1>2, <1>3, <1>4
  <2>2. \A n \in Known(catalog') \ Known(catalog) :
          n \in W /\ written'[n] = written[n] /\ (n \in late' \/ Younger(n, clock))
    BY <1>3, <1>6, <1>7
  <2>3. \A n \in Active(catalog') \ Active(catalog) :
          /\ n \in W /\ points'[n] = points[n] /\ written'[n] = written[n]
          /\ Within(n) /\ (n \in late' \/ points[n] = written[n])
    BY <1>2, <1>3, <1>5, <1>6 DEF Good
  <2>4. \A n \in Active(catalog) :
          \/ n \in Active(catalog')
          \/ /\ n \in Retired(catalog')
             /\ \A r \in Readers : Reads(r, n)' => catalog'.retired[n] >= reader'[r].since
    BY <1>3, <1>9
  <2>5. \A n \in Retired(catalog) :
          n \in Retired(catalog') /\ catalog'.retired[n] = catalog.retired[n]
    BY <1>3, <1>10
  <2> QED
    BY <1>2, <1>3, <1>8, <2>1, <2>2, <2>3, <2>4, <2>5 DEF CatalogMoves
<1>12. StoreMoves(W)
  <2>1. \A k \in Hosts : InUse(host'[k]) \cap made \subseteq InUse(host[k])
    BY <1>4
  <2>2. \A n \in W : Old(n) => Old(n)'
    BY DEF Old
  <2> QED
    BY <2>1, <2>2 DEF StoreMoves
<1> QED
  BY <1>11, <1>12 DEF Moves, ReadersMove

LEMMA CommitKeeps ==
  ASSUME SkillInv, Fenced, NEW h \in Hosts, NEW x \in HostRecord, x = host[h],
         x.at = "publishing", Current(x.snap), catalog' = Published(x.next, x.since),
         late' = late \cup LateOf(x), unsure \subseteq unsure', unsure' \subseteq Generations,
         NEW y \in HostRecord, host' = [host EXCEPT ![h] = y], InUse(y) = {},
         y.built \subseteq x.built, HostOK(y)',
         UNCHANGED <<clock, points, made, reader, loads, written>>
  PROVE  SkillInv'
<1>1. PICK W : W = InUse(x)
  OBVIOUS
<1>2. Moves(W)
  BY <1>1, CommitMoves
<1>3. Owned(W)
  BY <1>1 DEF Owned
<1>4. catalog' \in CatalogRecord
  BY PublishedFacts
<1>5. SkillTypeOK'
  <2>1. late' \subseteq Generations
    BY DEF LateOf, HostRecord, SkillInv, SkillTypeOK
  <2> QED
    BY <1>4, <2>1 DEF SkillInv, SkillTypeOK
<1>6. W \subseteq host[h].built /\ y.built \subseteq host[h].built \cup (Generations \ made)
  BY <1>1 DEF InUse
<1> QED
  BY <1>2, <1>3, <1>5, <1>6, MoveKeeps

\* The registered set of a host that commits.
LEMMA RegisteredMoves ==
  ASSUME NEW x \in HostRecord, NEW l \in SUBSET (Groups \cup Generations),
         NEW s \in {None} \cup SUBSET Groups
  PROVE  [x EXCEPT !.left = l, !.registered = s] \in HostRecord
  BY Zenon DEF HostRecord

\* An attempt that was not committed discards all it built.
LEMMA LosesKeeps ==
  ASSUME SkillInv, NEW h \in Hosts, NEW x \in HostRecord, x = host[h], x.at = "publishing",
         NEW t \in {None, "retry", "end"},
         host' = [host EXCEPT ![h] = Settles([x EXCEPT !.left = x.built], t)],
         UNCHANGED <<clock, catalog, points, made, reader, loads, written, late, unsure>>
  PROVE  SkillInv'
<1>1. PICK z : z = [x EXCEPT !.left = x.built]
  OBVIOUS
<1>2. HostOK(x) /\ x.at \in Building
  BY HostFacts DEF Building
<1>3. z \in HostRecord /\ z.left = x.built /\ z.built = x.built
  <2>1. x.built \in SUBSET (Groups \cup Generations)
    BY DEF HostRecord
  <2>2. z \in HostRecord
    BY <1>1, <2>1, Zenon DEF HostRecord
  <2> QED
    BY <1>1, <2>2 DEF HostRecord
<1>4. PICK y : y = Settles(z, t)
  OBVIOUS
<1>5. y \in HostRecord
  BY <1>3, <1>4, SettlesFields
<1>6. Discards(z)'
  BY <1>2, <1>3 DEF Discards, HostOK, BuiltOK, Known, Reads
<1>7. HostOK(y)' /\ y.built \subseteq x.built /\ InUse(y) = {}
  BY <1>3, <1>4, <1>5, <1>6, SettledOK
<1>8. host' = [host EXCEPT ![h] = y]
  BY <1>1, <1>4
<1>9. loads' \in Nat
  BY DEF SkillInv, SkillTypeOK
<1> QED
  BY <1>5, <1>7, <1>8, <1>9, QuietKeeps

LEMMA PublishKeeps ==
  ASSUME SkillInv, Fenced, NEW h \in Hosts, Publish(h)
  PROVE  SkillInv'
<1>1. PICK x : x = host[h]
  OBVIOUS
<1>2. x \in HostRecord /\ HostOK(x) /\ x.at = "publishing" /\ x.at \in Building
  BY <1>1, HostFacts DEF Publish, Building
<1>3. UNCHANGED <<clock, points, made, reader, loads, written, unsure>>
  BY DEF Publish
<1>4. CASE ~Current(x.snap)
  <2>1. PICK t \in {None, "retry", "end"} :
          t = IF x.attempt < MaxAttempts THEN "retry" ELSE "end"
    OBVIOUS
  <2>2. /\ host' = [host EXCEPT ![h] = Settles([x EXCEPT !.left = x.built], t)]
        /\ UNCHANGED <<catalog, late>>
    BY <1>1, <1>4, <2>1 DEF Publish
  <2> QED
    BY <1>1, <1>2, <1>3, <2>1, <2>2, LosesKeeps
<1>5. CASE Current(x.snap)
  <2>1. PICK c : c = Published(x.next, x.since)
    OBVIOUS
  <2>2. PICK s : s = IF x.registered = None THEN Listed(c) ELSE x.registered
    OBVIOUS
  <2>3. PICK z : z = [x EXCEPT !.left = Unnamed(x, c), !.registered = s]
    OBVIOUS
  <2>4. PICK y : y = Settles(z, "end")
    OBVIOUS
  <2>5. catalog' = c /\ late' = late \cup LateOf(x)
    BY <1>1, <1>5, <2>1 DEF Publish
  <2>6. host' = [host EXCEPT ![h] = y]
    <3>1. host' = [host EXCEPT ![h] = Settles([x EXCEPT !.left = Unnamed(x, c),
                     !.registered = IF @ = None THEN Listed(c) ELSE @], "end")]
      BY <1>1, <1>5, <2>1, Zenon DEF Publish
    <3>2. z = [x EXCEPT !.left = Unnamed(x, c),
                        !.registered = IF @ = None THEN Listed(c) ELSE @]
      BY <1>2, <2>2, <2>3 DEF HostRecord
    <3> QED
      BY <2>4, <3>1, <3>2
  <2>7. z \in HostRecord /\ z.left = x.built \ Active(c) /\ z.built = x.built
    <3>1. Unnamed(x, c) \in SUBSET (Groups \cup Generations)
      BY <1>2 DEF Unnamed, HostRecord
    <3>2. s \in {None} \cup SUBSET Groups
      BY <1>2, <2>2 DEF Listed, HostRecord
    <3>3. z \in HostRecord
      BY <1>2, <2>3, <3>1, <3>2, RegisteredMoves
    <3> QED
      BY <1>2, <2>3, <3>3 DEF HostRecord, Unnamed
  <2>8. y \in HostRecord
    <3>1. z.left \subseteq z.built
      BY <2>7
    <3> QED
      BY <2>4, <2>7, <3>1, SettlesFields
  <2>9. Discards(z)'
    <3>1. Known(catalog') = Known(c) /\ Active(catalog') = Active(c)
      BY <2>5
    <3> QED
      BY <1>2, <1>3, <2>7, <3>1 DEF Discards, HostOK, BuiltOK, Known, Reads
  <2>10. HostOK(y)' /\ y.built \subseteq x.built /\ InUse(y) = {}
    BY <2>4, <2>7, <2>8, <2>9, SettledOK
  <2>11. catalog' = Published(x.next, x.since)
    BY <2>1, <2>5
  <2>12. unsure \subseteq unsure' /\ unsure' \subseteq Generations
    BY <1>3 DEF SkillInv, SkillTypeOK
  <2> QED
    BY <1>1, <1>2, <1>3, <1>5, <2>5, <2>6, <2>8, <2>10, <2>11, <2>12, CommitKeeps
<1> QED
  BY <1>4, <1>5

LEMMA PublishBreaksKeeps ==
  ASSUME SkillInv, Fenced, NEW h \in Hosts, PublishBreaks(h)
  PROVE  SkillInv'
<1>1. PICK x : x = host[h]
  OBVIOUS
<1>2. x \in HostRecord /\ HostOK(x) /\ x.at = "publishing" /\ x.at \in Building
  BY <1>1, HostFacts DEF PublishBreaks, Building
<1>3. /\ host' = [host EXCEPT ![h] = Settles([x EXCEPT !.left = x.built], "end")]
      /\ UNCHANGED <<clock, points, made, reader, loads, written>>
  BY <1>1 DEF PublishBreaks
<1>4. CASE UNCHANGED <<catalog, late, unsure>>
  <2>1. PICK t \in {None, "retry", "end"} : t = "end"
    OBVIOUS
  <2> QED
    BY <1>1, <1>2, <1>3, <1>4, <2>1, LosesKeeps
<1>5. CASE /\ Current(x.snap)
           /\ catalog' = Published(x.next, x.since)
           /\ unsure' = unsure \cup x.built
           /\ late' = late \cup LateOf(x)
  <2>1. PICK z : z = [x EXCEPT !.left = x.built]
    OBVIOUS
  <2>2. z \in HostRecord /\ z.left = x.built /\ z.built = x.built
    <3>1. x.built \in SUBSET (Groups \cup Generations)
      BY <1>2 DEF HostRecord
    <3>2. z \in HostRecord
      BY <1>2, <2>1, <3>1, Zenon DEF HostRecord
    <3> QED
      BY <1>2, <2>1, <3>2 DEF HostRecord
  <2>3. PICK y : y = Settles(z, "end")
    OBVIOUS
  <2>4. y \in HostRecord
    BY <2>2, <2>3, SettlesFields
  <2>5. Discards(z)'
    BY <1>2, <1>3, <1>5, <2>2 DEF Discards, HostOK, BuiltOK, Reads
  <2>6. HostOK(y)' /\ y.built \subseteq x.built /\ InUse(y) = {}
    BY <2>2, <2>3, <2>4, <2>5, SettledOK
  <2>7. host' = [host EXCEPT ![h] = y]
    BY <1>3, <2>1, <2>3
  <2>8. unsure \subseteq unsure' /\ unsure' \subseteq Generations
    BY <1>2, <1>5 DEF SkillInv, SkillTypeOK, HostRecord
  <2> QED
    BY <1>1, <1>2, <1>3, <1>5, <2>4, <2>6, <2>7, <2>8, CommitKeeps
<1> QED
  BY <1>1, <1>4, <1>5 DEF PublishBreaks

-----------------------------------------------------------------------------
(* The invariant.                                                          *)

LEMMA InitInv ==
  ASSUME Init
  PROVE  SkillInv
<1>1. SkillTypeOK
  <2>1. reader \in [Readers -> QueryRecord]
    BY NoQueryTyped DEF Init
  <2> QED
    BY <2>1, NothingTyped, NoHostTyped DEF Init, SkillTypeOK
<1>2. Listed(catalog) = {} /\ Active(catalog) = {} /\ Retired(catalog) = {}
  BY DEF Init, NoCatalog, NoEntries, Listed, Active, Retired
<1>3. StoreOK
  BY <1>2 DEF Init, StoreOK, Known
<1>4. \A h \in Hosts : host[h] = NoHost
  BY DEF Init
<1>5. ASSUME NEW h \in Hosts PROVE HostOK(host[h])
  BY <1>4, NoHostTyped
  DEF HostOK, SnapOK, SweepOK, DiscardOK, BuiltOK, BuildOK, Building, Making
<1>6. Apart /\ \A r \in Readers : ReaderOK(r)
  BY <1>4, NoHostTyped, NoQueryTyped DEF Init, Apart, ReaderOK
<1> QED
  BY <1>1, <1>3, <1>5, <1>6 DEF SkillInv

LEMMA StepKeeps ==
  ASSUME SkillInv, Fenced, [Next]_vars
  PROVE  SkillInv'
<1>1. ASSUME NEW h \in Hosts, Sweep(h) PROVE SkillInv'
  BY <1>1, LoadBeginsKeeps, DeleteRetiredKeeps, PruneRetiredKeeps, ScanKeeps,
     DeleteOrphanKeeps DEF Sweep
<1>2. ASSUME NEW h \in Hosts, Attempt(h) PROVE SkillInv'
  BY <1>2, ReadPriorKeeps, AcquiredKeeps, BeginGenerationKeeps, UpsertedKeeps,
     CarryBeginsKeeps, CarryEndsKeeps, BuildFailsKeeps, PublishKeeps, PublishBreaksKeeps,
     DiscardKeeps DEF Attempt
<1> QED
  BY <1>1, <1>2, ThrowsKeeps, CrashKeeps, RecallKeeps, TickKeeps, StutterKeeps DEF Next

-----------------------------------------------------------------------------
(* A query that reads the catalog counts from no later than the stamps of  *)
(* the publishes under way, and a publish that begins is stamped now.      *)

LEMMA InitFenced ==
  ASSUME Init
  PROVE  Fenced
  BY NoHostTyped DEF Init, Fenced, Commitable

\* The stamp of a publish stands as long as it may commit.
LEMMA FencedStays ==
  ASSUME SkillInv, Fenced, NEW h \in Hosts, \A k \in Hosts \ {h} : host'[k] = host[k],
         host'[h].at = "publishing" => host'[h].since = clock,
         catalog' = catalog \/ catalog'.revision = catalog.revision + 1,
         UNCHANGED reader
  PROVE  Fenced'
<1> SUFFICES ASSUME NEW k \in Hosts, NEW r \in Readers, Commitable(k)',
                    reader[r].at # "idle"
             PROVE  reader[r].since <= host'[k].since
  BY DEF Fenced
<1>2. CASE k = h
  <2>1. host'[k].since = clock
    BY <1>2 DEF Commitable
  <2> QED
    BY <2>1 DEF SkillInv, ReaderOK
<1>3. CASE k # h
  <2>1. PICK x : x = host[k]
    OBVIOUS
  <2>2. host'[k] = x /\ x.at = "publishing" /\ Current(x.snap)'
    BY <1>3, <2>1 DEF Commitable
  <2>3. x.snap.revision <= catalog.revision
    BY <2>1, <2>2, HostFacts DEF HostOK, SnapOK, Building
  <2>4. x.snap.revision \in Nat /\ catalog.revision \in Nat
    BY <2>1, HostFacts, CatalogFacts
  <2>5. Current(x.snap)
    BY <2>2, <2>3, <2>4 DEF Current
  <2> QED
    BY <2>1, <2>2, <2>5 DEF Fenced, Commitable
<1> QED
  BY <1>2, <1>3

LEMMA SweepFenced ==
  ASSUME SkillInv, Fenced, NEW h \in Hosts, Sweep(h)
  PROVE  Fenced'
<1>1. UNCHANGED reader
  BY DEF Sweep, LoadBegins, DeleteRetired, PruneRetired, Scan, DeleteOrphan, history
<1>2. \A k \in Hosts \ {h} : host'[k] = host[k]
  BY DEF Sweep, LoadBegins, DeleteRetired, PruneRetired, Scan, DeleteOrphan, SkillInv,
     SkillTypeOK
<1>3. host'[h].at # "publishing"
  <2>1. host \in [Hosts -> HostRecord]
    BY DEF SkillInv, SkillTypeOK
  <2>2. CASE LoadBegins(h)
    BY <2>1, <2>2, HostFacts, EndedFields DEF LoadBegins, HostRecord
  <2>3. CASE DeleteRetired(h) \/ DeleteOrphan(h)
    <3>1. PICK n \in host[h].left, a \in {"reclaiming", "pruning", "sweeping", "reading"} :
            host' = [host EXCEPT ![h].left = @ \ {n}, ![h].at = a]
      BY <2>3 DEF DeleteRetired, DeleteOrphan
    <3>2. PICK x \in HostRecord : x = host[h]
      BY HostFacts
    <3>3. PICK y : y = [x EXCEPT !.left = x.left \ {n}, !.at = a]
      OBVIOUS
    <3>4. host'[h] = y
      BY <2>1, <3>1, <3>2, <3>3 DEF HostRecord
    <3>5. y.at = a
      BY <3>3 DEF HostRecord
    <3> QED
      BY <3>1, <3>4, <3>5
  <2>4. CASE PruneRetired(h)
    <3>1. PICK c : \/ host' = [host EXCEPT ![h] = Ended(@)]
                   \/ host' = [host EXCEPT ![h].snap = c, ![h].at = "scanning"]
      BY <2>4 DEF PruneRetired
    <3>2. PICK x \in HostRecord : x = host[h]
      BY HostFacts
    <3>3. PICK y : y = [x EXCEPT !.snap = c, !.at = "scanning"]
      OBVIOUS
    <3>4. host'[h] = Ended(x) \/ host'[h] = y
      BY <2>1, <3>1, <3>2, <3>3 DEF HostRecord
    <3>5. y.at = "scanning" /\ Ended(x).at = "idle"
      BY <3>2, <3>3, EndedFields DEF HostRecord
    <3> QED
      BY <3>4, <3>5
  <2>5. CASE Scan(h)
    BY <2>1, <2>5, HostFacts, EndedFields DEF Scan, HostRecord
  <2> QED
    BY <2>2, <2>3, <2>4, <2>5 DEF Sweep
<1>4. catalog' = catalog \/ catalog'.revision = catalog.revision + 1
  <2>1. CASE PruneRetired(h)
    BY <2>1, HostFacts DEF PruneRetired, CatalogRecord
  <2> QED
    BY <2>1 DEF Sweep, LoadBegins, DeleteRetired, Scan, DeleteOrphan
<1> QED
  BY <1>1, <1>2, <1>3, <1>4, FencedStays

LEMMA SettlesFenced ==
  ASSUME NEW x \in HostRecord, NEW t
  PROVE  Settles(x, t).at # "publishing"
<1>1. Ended(x) \in HostRecord /\ Ended(x).at = "idle"
  BY EndedFields
<1> QED
  BY <1>1 DEF Settles, HostRecord

LEMMA AttemptFenced ==
  ASSUME SkillInv, Fenced, NEW h \in Hosts, Attempt(h)
  PROVE  Fenced'
<1>1. UNCHANGED <<reader, clock>>
  BY DEF Attempt, ReadPrior, Acquired, BeginGeneration, Upserted, CarryBegins, CarryEnds,
     BuildFails, Publish, PublishBreaks, Discard, history
<1>2. /\ host \in [Hosts -> HostRecord] /\ host[h] \in HostRecord
      /\ catalog \in CatalogRecord
  BY HostFacts DEF SkillInv, SkillTypeOK
<1>3. PICK x \in HostRecord : x = host[h]
  BY <1>2
<1>4. PICK y : y = host'[h]
  OBVIOUS
<1>5. \A k \in Hosts \ {h} : host'[k] = host[k]
  BY <1>2 DEF Attempt, ReadPrior, Acquired, BeginGeneration, Upserted, CarryBegins,
     CarryEnds, BuildFails, Publish, PublishBreaks, Discard
<1>6. y.at = "publishing" => y.since = clock
  <2>0. CASE ReadPrior(h)
    BY <1>2, <1>4, <2>0 DEF ReadPrior, HostRecord
  <2>1. CASE BeginGeneration(h)
    <3>1. PICK g \in host[h].left, n \in Generations \ made :
            host' = [host EXCEPT ![h].group = g, ![h].generation = n,
               ![h].built = @ \cup {n}, ![h].since = clock, ![h].at = "embedding"]
      BY <2>1 DEF BeginGeneration
    <3>2. y = [x EXCEPT !.group = g, !.generation = n, !.built = x.built \cup {n},
                        !.since = clock, !.at = "embedding"]
      BY <1>2, <1>3, <1>4, <3>1 DEF HostRecord
    <3> QED
      BY <3>2 DEF HostRecord
  <2>2. CASE Acquired(h)
    <3>1. PICK z \in HostRecord :
            \/ y = Ended(z)
            \/ y = [z EXCEPT !.left = Desired(z), !.since = StampIf(Desired(z) = {}),
                   !.at = IF Desired(z) = {} THEN "publishing" ELSE "building"]
      <4>1. PICK failed \in SUBSET Sources, got \in [Sources -> SUBSET Groups] :
              LET z == [host[h] EXCEPT !.failed = failed, !.got = got, !.built = {},
                                       !.next = NoEntries] IN
              host' = [host EXCEPT ![h] =
                IF (h \in Strict /\ failed # {}) \/ ~Guarded(h, z) THEN Ended(z)
                ELSE [z EXCEPT !.left = Desired(z), !.since = StampIf(Desired(z) = {}),
                       !.at = IF Desired(z) = {} THEN "publishing" ELSE "building"]]
        BY <2>2 DEF Acquired
      <4>2. PICK z : z = [x EXCEPT !.failed = failed, !.got = got, !.built = {},
                                   !.next = NoEntries]
        OBVIOUS
      <4>3. z \in HostRecord
        BY <4>2, NothingTyped, Zenon DEF HostRecord
      <4> QED
        BY <1>2, <1>3, <1>4, <4>1, <4>2, <4>3
    <3>2. CASE y = Ended(z)
      BY <3>2, EndedFields
    <3>3. CASE y = [z EXCEPT !.left = Desired(z), !.since = StampIf(Desired(z) = {}),
                   !.at = IF Desired(z) = {} THEN "publishing" ELSE "building"]
      BY <3>3 DEF HostRecord, StampIf
    <3> QED
      BY <3>1, <3>2, <3>3
  <2>3. CASE Upserted(h) \/ CarryBegins(h) \/ CarryEnds(h) \/ BuildFails(h)
    <3>1. CASE y = Entered(x, Fresh(x)) \/ y = Entered(x, x.snap.entries[x.group])
      BY <3>1 DEF Entered, StampIf, HostRecord
    <3>2. CASE y = [x EXCEPT !.at = "carrying"]
      BY <3>2 DEF HostRecord
    <3>3. CASE y = [x EXCEPT !.at = "copying", !.since = clock,
                             !.live = catalog.entries[x.group].generation]
      BY <3>3 DEF HostRecord
    <3>4. CASE Upserted(h)
      BY <1>2, <1>3, <1>4, <3>1, <3>2, <3>4 DEF Upserted
    <3>5. CASE CarryBegins(h)
      BY <1>2, <1>3, <1>4, <3>1, <3>3, <3>5 DEF CarryBegins
    <3>6. CASE CarryEnds(h) \/ BuildFails(h)
      BY <1>2, <1>3, <1>4, <3>1, <3>6 DEF CarryEnds, BuildFails
    <3> QED
      BY <2>3, <3>4, <3>5, <3>6
  <2>4. CASE Publish(h) \/ PublishBreaks(h) \/ Discard(h)
    <3>1. CASE Publish(h) /\ Current(x.snap)
      <4>1. PICK c : c = Published(x.next, x.since)
        OBVIOUS
      <4>2. PICK s : s = IF x.registered = None THEN Listed(c) ELSE x.registered
        OBVIOUS
      <4>3. PICK z : z = [x EXCEPT !.left = Unnamed(x, c), !.registered = s]
        OBVIOUS
      <4>4. y = Settles(z, "end")
        <5>1. host' = [host EXCEPT ![h] = Settles([x EXCEPT !.left = Unnamed(x, c),
                         !.registered = IF @ = None THEN Listed(c) ELSE @], "end")]
          BY <1>3, <3>1, <4>1, Zenon DEF Publish
        <5>2. z = [x EXCEPT !.left = Unnamed(x, c),
                            !.registered = IF @ = None THEN Listed(c) ELSE @]
          BY <4>2, <4>3 DEF HostRecord
        <5> QED
          BY <1>2, <1>4, <5>1, <5>2
      <4>5. Unnamed(x, c) \in SUBSET (Groups \cup Generations)
        BY DEF Unnamed, HostRecord
      <4>6. s \in {None} \cup SUBSET Groups
        BY <4>2 DEF Listed, HostRecord
      <4> QED
        BY <4>3, <4>4, <4>5, <4>6, RegisteredMoves, SettlesFenced
    <3>2. CASE ~(Publish(h) /\ Current(x.snap))
      <4>1. PICK l \in SUBSET (Groups \cup Generations), t \in {None, "retry", "end"} :
              host' = [host EXCEPT ![h] = Settles([x EXCEPT !.left = l], t)]
        <5>1. /\ x.built \in SUBSET (Groups \cup Generations)
              /\ \A n : x.left \ {n} \in SUBSET (Groups \cup Generations)
              /\ x.then \in {None, "retry", "end"}
          BY DEF HostRecord
        <5> QED
          BY <1>3, <2>4, <3>2, <5>1 DEF Publish, PublishBreaks, Discard
      <4>2. PICK z : z = [x EXCEPT !.left = l]
        OBVIOUS
      <4>3. z \in HostRecord
        BY <4>1, <4>2, Zenon DEF HostRecord
      <4>4. y = Settles(z, t)
        BY <1>2, <1>4, <4>1, <4>2
      <4> QED
        BY <4>3, <4>4, SettlesFenced
    <3> QED
      BY <3>1, <3>2
  <2> QED
    BY <2>0, <2>1, <2>2, <2>3, <2>4 DEF Attempt
<1>7. catalog' = catalog \/ catalog'.revision = catalog.revision + 1
  <2>1. CASE Publish(h) \/ PublishBreaks(h)
    BY <1>2, <2>1 DEF Publish, PublishBreaks, Published, CatalogRecord
  <2> QED
    BY <2>1 DEF Attempt, ReadPrior, Acquired, BeginGeneration, Upserted, CarryBegins,
       CarryEnds, BuildFails, Discard
<1> QED
  BY <1>1, <1>4, <1>5, <1>6, <1>7, FencedStays

LEMMA StepFenced ==
  ASSUME SkillInv, Fenced, [Next]_vars
  PROVE  Fenced'
<1>0. host \in [Hosts -> HostRecord]
  BY DEF SkillInv, SkillTypeOK
<1>1. ASSUME NEW h \in Hosts, Throws(h) PROVE Fenced'
  <2>1. host' = [host EXCEPT ![h] = Ended(host[h])] /\ UNCHANGED <<catalog, reader>>
    BY <1>1 DEF Throws
  <2>2. Ended(host[h]).at # "publishing"
    BY HostFacts, EndedFields
  <2>3. host'[h].at # "publishing" /\ \A k \in Hosts \ {h} : host'[k] = host[k]
    BY <1>0, <2>1, <2>2
  <2> QED
    BY <2>1, <2>3, FencedStays
<1>2. ASSUME NEW h \in Hosts, Crash(h) PROVE Fenced'
  <2>1. host' = [host EXCEPT ![h] = NoHost] /\ UNCHANGED <<catalog, reader>>
    BY <1>2 DEF Crash
  <2>2. host'[h].at # "publishing" /\ \A k \in Hosts \ {h} : host'[k] = host[k]
    BY <1>0, <2>1, NoHostTyped
  <2> QED
    BY <2>1, <2>2, FencedStays
<1>3. ASSUME NEW r \in Readers, Recall(r) PROVE Fenced'
  <2>1. UNCHANGED <<catalog, host>>
    BY <1>3 DEF Recall, Query, QueryEmbedded, QueryEnds
  <2>2. reader \in [Readers -> QueryRecord]
    BY DEF SkillInv, SkillTypeOK
  <2>3. CASE Query(r)
    <3>1. \A q \in Readers \ {r} : reader'[q] = reader[q]
      BY <2>2, <2>3 DEF Query
    <3>2. \A u \in Stamped : reader'[r].since <= u
      BY <2>2, <2>3 DEF Query, NoQuery
    <3>3. \A h \in Hosts : Commitable(h) => host[h].since \in Stamped
      BY DEF Commitable, Stamped
    <3> QED
      BY <2>1, <3>1, <3>2, <3>3 DEF Fenced, Commitable, Current
  <2>4. CASE QueryEmbedded(r) \/ QueryEnds(r)
    <3>1. \A q \in Readers : reader'[q].at # "idle" =>
            reader[q].at # "idle" /\ reader'[q].since = reader[q].since
      BY <2>2, <2>4 DEF QueryEmbedded, QueryEnds, NoQuery, QueryRecord
    <3> QED
      BY <2>1, <3>1 DEF Fenced, Commitable, Current
  <2> QED
    BY <1>3, <2>3, <2>4 DEF Recall
<1>4. CASE UNCHANGED <<catalog, host, reader>>
  BY <1>4 DEF Fenced, Commitable, Current
<1> QED
  BY <1>1, <1>2, <1>3, <1>4, SweepFenced, AttemptFenced DEF Next, vars, Tick

-----------------------------------------------------------------------------
(* The theorems.                                                           *)

\* Whatever hosts and readers do, and whichever requests and processes fail, SkillInv
\* holds between any two requests.
THEOREM SkillInvHolds == Spec => []SkillInv
<1>1. Init => SkillInv /\ Fenced
  BY InitInv, InitFenced
<1>2. SkillInv /\ Fenced /\ [Next]_vars => SkillInv' /\ Fenced'
  BY StepKeeps, StepFenced
<1> QED
  BY <1>1, <1>2, PTL DEF Spec

\* The catalog, the vectors and every host and query keep to their types.
THEOREM SkillTypesHold == Spec => []SkillTypeOK
<1>1. SkillInv => SkillTypeOK
  BY DEF SkillInv
<1> QED
  BY <1>1, SkillInvHolds, PTL

\* What the catalog names, and what a query still searches within the grace, is whole.
THEOREM ServedIsWhole == Spec => []ServedWhole
<1>1. SkillInv => ServedWhole
  <2> SUFFICES ASSUME SkillInv, NEW n \in Generations \ late,
                      \/ n \in Active(catalog)
                      \/ n \notin unsure /\ \E r \in Readers : Searching(r, n)
               PROVE  points[n] = written[n]
    BY DEF ServedWhole
  <2>1. CASE n \in Active(catalog)
    BY <2>1 DEF SkillInv, StoreOK
  <2>2. ASSUME n \notin unsure, NEW r \in Readers, Searching(r, n)
        PROVE  points[n] = written[n]
    <3>1. reader[r].at # "idle" /\ reader[r].generation = n
      BY <2>2 DEF Searching
    <3>2. ~Lapsed(r)
      <4>1. reader[r].called \in Nat /\ reader[r].since \in Nat /\ clock \in Nat
        BY DEF SkillInv, SkillTypeOK, QueryRecord
      <4> QED
        BY <2>2, <4>1, GracesNat DEF Searching, Lapsed
    <3> QED
      BY <2>2, <3>1, <3>2 DEF SkillInv, ReaderOK
  <2> QED
    BY <2>1, <2>2
<1> QED
  BY <1>1, SkillInvHolds, PTL

-----------------------------------------------------------------------------
(* What a load keeps of what failed.                                       *)

\* Only the publish of a host changes at once the catalog and the host that publishes.
LEMMA CommitsPublish ==
  ASSUME SkillInv, [Next]_vars, NEW h \in Hosts, Commits(h)
  PROVE  Current(host[h].snap) /\ catalog' = Published(host[h].next, host[h].since)
<1>1. host[h].at = "publishing" /\ catalog' # catalog /\ host'[h] # host[h]
  BY DEF Commits
<1>2. host \in [Hosts -> HostRecord]
  BY DEF SkillInv, SkillTypeOK
<1>3. ASSUME NEW k \in Hosts, PruneRetired(k) PROVE FALSE
  <2>1. k = h
    BY <1>1, <1>2, <1>3 DEF PruneRetired
  <2> QED
    BY <1>1, <1>3, <2>1 DEF PruneRetired
<1>4. ASSUME NEW k \in Hosts, Publish(k)
      PROVE  Current(host[h].snap) /\ catalog' = Published(host[h].next, host[h].since)
  <2>1. k = h
    BY <1>1, <1>2, <1>4 DEF Publish
  <2> QED
    BY <1>1, <1>4, <2>1 DEF Publish
<1>5. ASSUME NEW k \in Hosts, PublishBreaks(k)
      PROVE  Current(host[h].snap) /\ catalog' = Published(host[h].next, host[h].since)
  <2>1. k = h
    BY <1>1, <1>2, <1>5 DEF PublishBreaks
  <2> QED
    BY <1>1, <1>5, <2>1 DEF PublishBreaks
<1>6. PICK k \in Hosts : Sweep(k) \/ Attempt(k) \/ Throws(k) \/ Crash(k)
  BY <1>1 DEF Next, vars, Recall, Query, QueryEmbedded, QueryEnds, Tick
<1>7. CASE Sweep(k)
  BY <1>1, <1>3, <1>7 DEF Sweep, LoadBegins, DeleteRetired, Scan, DeleteOrphan
<1>8. CASE Attempt(k)
  BY <1>1, <1>4, <1>5, <1>8 DEF Attempt, ReadPrior, Acquired, BeginGeneration, Upserted,
     CarryBegins, CarryEnds, BuildFails, Discard
<1>9. CASE Throws(k) \/ Crash(k)
  BY <1>1, <1>9 DEF Throws, Crash
<1> QED
  BY <1>6, <1>7, <1>8, <1>9

\* What the sources that failed own stays in the catalog with its vectors, however many
\* loads run at once, lose and retry.
THEOREM FailedSourcesStay == Spec => FailedSourcesKept
<1> DEFINE A ==
      \A h \in Hosts : Commits(h) =>
        \A g \in Listed(catalog) :
          LET old == catalog.entries[g]
              kept == old.sources \cap host[h].failed
          IN kept # {} =>
               /\ g \in Listed(catalog')
               /\ LET new == catalog'.entries[g] IN
                  /\ kept \subseteq new.sources
                  /\ \A s \in kept : points[old.generation][s] # None =>
                                       written[new.generation][s] # None
<1>1. SkillInv /\ [Next]_vars => A
  <2> SUFFICES ASSUME SkillInv, [Next]_vars, NEW h \in Hosts, Commits(h),
                      NEW g \in Listed(catalog),
                      catalog.entries[g].sources \cap host[h].failed # {}
               PROVE  LET old == catalog.entries[g]
                          kept == old.sources \cap host[h].failed
                          new == catalog'.entries[g]
                      IN /\ g \in Listed(catalog')
                         /\ kept \subseteq new.sources
                         /\ \A s \in kept : points[old.generation][s] # None =>
                                              written[new.generation][s] # None
    OBVIOUS
  <2>1. PICK x : x = host[h]
    OBVIOUS
  <2>2. /\ x \in HostRecord /\ HostOK(x) /\ x.at = "publishing" /\ x.at \in Building
        /\ catalog \in CatalogRecord
    BY <2>1, HostFacts DEF Commits, Building
  <2>3. Current(x.snap) /\ catalog' = Published(x.next, x.since)
    BY <2>1, CommitsPublish
  <2>4. catalog'.entries = x.next
    BY <2>1, <2>2, <2>3, PublishedFacts
  <2>5. x.snap.entries = catalog.entries
    BY <2>2, <2>3 DEF HostOK, SnapOK
  <2>6. g \in Groups /\ catalog.entries[g] # None
    BY DEF Listed
  <2>7. Carried(x, g) = catalog.entries[g].sources \cap x.failed /\ Carried(x, g) # {}
    BY <2>1, <2>5, <2>6 DEF Carried
  <2>8. EntryOK(x, g)
    BY <2>2, <2>6, <2>7 DEF HostOK, BuildOK, Desired
  <2>9. CASE x.next[g] = x.snap.entries[g]
    <3>1. catalog'.entries[g] = catalog.entries[g] /\ g \in Listed(catalog')
      BY <2>4, <2>5, <2>6, <2>9 DEF Listed
    <3>2. /\ catalog.entries[g].generation \in Active(catalog)
          /\ catalog.entries[g].sources \subseteq Sources
      BY <2>2, <2>6, CatalogFacts
    <3>3. Within(catalog.entries[g].generation)
      BY <3>2 DEF SkillInv, StoreOK
    <3> QED
      BY <3>1, <3>2, <3>3 DEF Within
  <2>10. CASE x.next[g] # x.snap.entries[g]
    <3>1. /\ x.next[g] # None
          /\ x.next[g].sources = Owners(x, g)
          /\ \A s \in Carried(x, g) :
               points[x.snap.entries[g].generation][s] # None =>
                 written[x.next[g].generation][s] # None
      BY <2>3, <2>8, <2>10 DEF EntryOK
    <3>2. g \in Listed(catalog')
      BY <2>4, <2>6, <3>1 DEF Listed
    <3>3. catalog.entries[g].sources \subseteq Owners(x, g)
      BY <2>5, <2>7 DEF Owners
    <3> QED
      BY <2>1, <2>4, <2>5, <2>7, <3>1, <3>2, <3>3
  <2> QED
    BY <2>9, <2>10
<1>2. A => [A]_vars
  OBVIOUS
<1>3. FailedSourcesKept <=> [][A]_vars
  BY DEF FailedSourcesKept
<1> HIDE DEF A
<1> QED
  BY <1>1, <1>2, <1>3, SkillInvHolds, PTL DEF Spec

-----------------------------------------------------------------------------
(* What a load leaves behind.                                              *)

\* No generation is stranded by the step.
Tidy == \A n \in Generations : Stranded(n)' => Stranded(n)

\* A step of a host that writes only what it builds, and gives up nothing it built but
\* what is gone or what the catalog knows.
LEMMA TidyMoves ==
  ASSUME NEW h \in Hosts, \A k \in Hosts \ {h} : host'[k] = host[k],
         \A n \in Generations :
           /\ points'[n] # NoPoints /\ points[n] = NoPoints => n \in host'[h].built
           /\ n \in Known(catalog) => n \in Known(catalog') \/ points'[n] = NoPoints
           /\ n \in host[h].built => \/ n \in host'[h].built \/ n \in Known(catalog')
                                     \/ points'[n] = NoPoints
  PROVE  Tidy
  BY DEF Tidy, Stranded, Known

\* A host that has built nothing, and deletes only.
LEMMA TidyWithout ==
  ASSUME NEW h \in Hosts, \A k \in Hosts \ {h} : host'[k] = host[k], host[h].built = {},
         \A n \in Generations : points'[n] = points[n] \/ points'[n] = NoPoints,
         \A n \in Generations :
           n \in Known(catalog) => n \in Known(catalog') \/ points'[n] = NoPoints
  PROVE  Tidy
  BY TidyMoves

LEMMA SweepTidy ==
  ASSUME SkillInv, NEW h \in Hosts, Sweep(h)
  PROVE  Tidy
<1>1. /\ host \in [Hosts -> HostRecord] /\ points \in [Generations -> Stamps]
      /\ HostOK(host[h]) /\ host[h].snap \in CatalogRecord /\ catalog \in CatalogRecord
  BY HostFacts DEF SkillInv, SkillTypeOK
<1>2. host[h].at \notin Building \cup {"discarding"}
  BY DEF Sweep, LoadBegins, DeleteRetired, PruneRetired, Scan, DeleteOrphan, Building, Making
<1>3. host[h].built = {}
  BY <1>1, <1>2 DEF HostOK, BuiltOK
<1>4. \A k \in Hosts \ {h} : host'[k] = host[k]
  BY <1>1 DEF Sweep, LoadBegins, DeleteRetired, PruneRetired, Scan, DeleteOrphan
<1>5. \A n \in Generations : points'[n] = points[n] \/ points'[n] = NoPoints
  BY <1>1 DEF Sweep, LoadBegins, DeleteRetired, PruneRetired, Scan, DeleteOrphan, Deleted
<1>6. ASSUME NEW n \in Generations, n \in Known(catalog)
      PROVE  n \in Known(catalog') \/ points'[n] = NoPoints
  <2>1. CASE catalog' = catalog
    BY <1>6, <2>1
  <2>2. CASE catalog' # catalog
    <3>1. PICK x : x = host[h]
      OBVIOUS
    <3>2. PruneRetired(h) /\ Current(x.snap)
      BY <2>2, <3>1 DEF Sweep, LoadBegins, DeleteRetired, PruneRetired, Scan, DeleteOrphan
    <3>3. PICK due : due = Due(x.snap, x.tick)
      OBVIOUS
    <3>4. PICK ret : ret = [m \in Generations |-> IF m \in due THEN None ELSE catalog.retired[m]]
      OBVIOUS
    <3>5. catalog' = [catalog EXCEPT !.revision = @ + 1, !.retired = ret]
      BY <1>1, <3>1, <3>2, <3>3, <3>4 DEF PruneRetired, CatalogRecord
    <3>6. catalog'.entries = catalog.entries /\ catalog'.retired = ret
      BY <1>1, <3>5 DEF CatalogRecord
    <3>7. Active(catalog') = Active(catalog)
      BY <3>6, EntriesDecide
    <3>8. n \notin due => (n \in Retired(catalog) => n \in Retired(catalog'))
      BY <3>4, <3>6 DEF Retired
    <3>9. n \in due => points[n] = NoPoints
      BY <1>1, <3>1, <3>2, <3>3 DEF PruneRetired, HostOK, SweepOK
    <3> QED
      BY <1>5, <1>6, <3>7, <3>8, <3>9 DEF Known
  <2> QED
    BY <2>1, <2>2
<1> QED
  BY <1>3, <1>4, <1>5, <1>6, TidyWithout

\* The end of a build keeps what is built, and what is written is of it.
LEMMA BuildTidy ==
  ASSUME SkillInv, NEW h \in Hosts,
         Upserted(h) \/ CarryBegins(h) \/ CarryEnds(h) \/ BuildFails(h)
  PROVE  Tidy
<1>1. PICK x : x = host[h]
  OBVIOUS
<1>2. /\ x \in HostRecord /\ HostOK(x) /\ x.at \in Making /\ x.snap \in CatalogRecord
      /\ host \in [Hosts -> HostRecord] /\ points \in [Generations -> Stamps]
  BY <1>1, HostFacts
  DEF Upserted, CarryBegins, CarryEnds, BuildFails, Making, SkillInv, SkillTypeOK
<1>3. /\ x.generation \in Generations /\ x.generation \in x.built /\ x.group \in Groups
  BY <1>1, <1>2, MadeInUse
<1>4. catalog' = catalog /\ \A k \in Hosts \ {h} : host'[k] = host[k]
  BY <1>2 DEF Upserted, CarryBegins, CarryEnds, BuildFails, history
<1>5. \A n \in Generations \ {x.generation} : points'[n] = points[n]
  BY <1>1, <1>2 DEF Upserted, CarryBegins, CarryEnds, BuildFails, history
<1>6. \A e : Entered(x, e).built = x.built
  BY <1>2 DEF Entered, HostRecord
<1>7. host'[h].built = x.built
  <2>1. CASE Upserted(h)
    <3>1. \/ host'[h] = Entered(x, Fresh(x))
          \/ host'[h] = [x EXCEPT !.at = "carrying"]
      BY <1>1, <1>2, <2>1 DEF Upserted
    <3> QED
      BY <1>2, <1>6, <3>1 DEF HostRecord
  <2>2. CASE CarryBegins(h)
    <3>1. \/ host'[h] = Entered(x, Fresh(x))
          \/ host'[h] = [x EXCEPT !.at = "copying", !.since = clock,
                                  !.live = catalog.entries[x.group].generation]
      BY <1>1, <1>2, <2>2 DEF CarryBegins
    <3> QED
      BY <1>2, <1>6, <3>1 DEF HostRecord
  <2>3. CASE CarryEnds(h)
    <3>1. host'[h] = Entered(x, Fresh(x))
      BY <1>1, <1>2, <2>3 DEF CarryEnds
    <3> QED
      BY <1>6, <3>1
  <2>4. CASE BuildFails(h)
    <3>1. host'[h] = Entered(x, x.snap.entries[x.group])
      BY <1>1, <1>2, <2>4 DEF BuildFails
    <3> QED
      BY <1>6, <3>1
  <2> QED
    BY <2>1, <2>2, <2>3, <2>4
<1> QED
  BY <1>1, <1>3, <1>4, <1>5, <1>7, TidyMoves

\* An attempt that settles gives up only what it has not to discard.
LEMMA SettleTidy ==
  ASSUME SkillInv, NEW h \in Hosts, NEW z \in HostRecord, NEW t \in {None, "retry", "end"},
         host' = [host EXCEPT ![h] = Settles(z, t)], z.left \subseteq z.built,
         z.built = host[h].built,
         \A n \in z.built \ z.left : n \in Known(catalog') \/ points'[n] = NoPoints,
         \A n \in Generations : points'[n] = points[n] \/ points'[n] = NoPoints,
         Known(catalog) \subseteq Known(catalog')
  PROVE  Tidy
<1>1. PICK y : y = Settles(z, t)
  OBVIOUS
<1>2. z.left # {} => y.built = z.built
  BY <1>1, SettlesFields
<1>3. host'[h] = y /\ \A k \in Hosts \ {h} : host'[k] = host[k]
  BY <1>1 DEF SkillInv, SkillTypeOK
<1>4. \A n \in z.built : n \in y.built \/ n \in Known(catalog') \/ points'[n] = NoPoints
  BY <1>2
<1> QED
  BY <1>3, <1>4, TidyMoves

LEMMA LosesTidy ==
  ASSUME SkillInv, NEW h \in Hosts, NEW x \in HostRecord, x = host[h],
         NEW t \in {None, "retry", "end"},
         host' = [host EXCEPT ![h] = Settles([x EXCEPT !.left = x.built], t)],
         UNCHANGED points, Known(catalog) \subseteq Known(catalog')
  PROVE  Tidy
<1>1. PICK z : z = [x EXCEPT !.left = x.built]
  OBVIOUS
<1>2. z \in HostRecord /\ z.left = x.built /\ z.built = x.built
  <2>1. x.built \in SUBSET (Groups \cup Generations)
    BY DEF HostRecord
  <2>2. z \in HostRecord
    BY <1>1, <2>1, Zenon DEF HostRecord
  <2> QED
    BY <1>1, <2>2 DEF HostRecord
<1>3. host' = [host EXCEPT ![h] = Settles(z, t)]
  BY <1>1
<1>4. /\ z.left \subseteq z.built /\ z.built = host[h].built
      /\ \A n \in z.built \ z.left : n \in Known(catalog') \/ points'[n] = NoPoints
      /\ \A n \in Generations : points'[n] = points[n] \/ points'[n] = NoPoints
  BY <1>2
<1> QED
  BY <1>2, <1>3, <1>4, SettleTidy

LEMMA PublishTidy ==
  ASSUME SkillInv, NEW h \in Hosts, Publish(h) \/ PublishBreaks(h)
  PROVE  Tidy
<1>1. PICK x : x = host[h]
  OBVIOUS
<1>2. x \in HostRecord /\ x.at = "publishing"
  BY <1>1, HostFacts DEF Publish, PublishBreaks
<1>3. PICK c : c = Published(x.next, x.since)
  OBVIOUS
<1>4. Current(x.snap) => Known(catalog) \subseteq Known(c)
  BY <1>1, <1>2, <1>3, PublishedFacts DEF Known
<1>5. UNCHANGED points /\ (catalog' = catalog \/ (Current(x.snap) /\ catalog' = c))
  BY <1>1, <1>3 DEF Publish, PublishBreaks
<1>6. Known(catalog) \subseteq Known(catalog')
  BY <1>4, <1>5
<1>7. CASE Publish(h) /\ Current(x.snap)
  <2>1. PICK s : s = IF x.registered = None THEN Listed(c) ELSE x.registered
    OBVIOUS
  <2>2. PICK z : z = [x EXCEPT !.left = Unnamed(x, c), !.registered = s]
    OBVIOUS
  <2>3. catalog' = c
    BY <1>1, <1>3, <1>7 DEF Publish
  <2>4. host' = [host EXCEPT ![h] = Settles(z, "end")]
    <3>1. host' = [host EXCEPT ![h] = Settles([x EXCEPT !.left = Unnamed(x, c),
                     !.registered = IF @ = None THEN Listed(c) ELSE @], "end")]
      BY <1>1, <1>3, <1>7, Zenon DEF Publish
    <3>2. z = [x EXCEPT !.left = Unnamed(x, c),
                        !.registered = IF @ = None THEN Listed(c) ELSE @]
      BY <1>2, <2>1, <2>2 DEF HostRecord
    <3> QED
      BY <3>1, <3>2
  <2>5. z \in HostRecord /\ z.left = x.built \ Active(c) /\ z.built = x.built
    <3>1. Unnamed(x, c) \in SUBSET (Groups \cup Generations)
      BY <1>2 DEF Unnamed, HostRecord
    <3>2. s \in {None} \cup SUBSET Groups
      BY <1>2, <2>1 DEF Listed, HostRecord
    <3>3. z \in HostRecord
      BY <1>2, <2>2, <3>1, <3>2, RegisteredMoves
    <3> QED
      BY <1>2, <2>2, <3>3 DEF HostRecord, Unnamed
  <2>6. \A n \in z.built \ z.left : n \in Known(catalog')
    BY <2>3, <2>5 DEF Known
  <2>7. z.left \subseteq z.built /\ z.built = host[h].built
    BY <1>1, <2>5
  <2>8. PICK t \in {None, "retry", "end"} : t = "end"
    OBVIOUS
  <2>9. host' = [host EXCEPT ![h] = Settles(z, t)]
    BY <2>4, <2>8
  <2> QED
    BY <1>5, <1>6, <2>5, <2>6, <2>7, <2>9, SettleTidy
<1>8. CASE Publish(h) /\ ~Current(x.snap)
  <2>1. PICK t \in {None, "retry", "end"} :
          t = IF x.attempt < MaxAttempts THEN "retry" ELSE "end"
    OBVIOUS
  <2>2. host' = [host EXCEPT ![h] = Settles([x EXCEPT !.left = x.built], t)]
    BY <1>1, <1>8, <2>1 DEF Publish
  <2> QED
    BY <1>1, <1>2, <1>5, <1>6, <2>1, <2>2, LosesTidy
<1>9. CASE PublishBreaks(h)
  <2>1. PICK t \in {None, "retry", "end"} : t = "end"
    OBVIOUS
  <2>2. host' = [host EXCEPT ![h] = Settles([x EXCEPT !.left = x.built], t)]
    BY <1>1, <1>9, <2>1 DEF PublishBreaks
  <2> QED
    BY <1>1, <1>2, <1>5, <1>6, <2>1, <2>2, LosesTidy
<1> QED
  BY <1>7, <1>8, <1>9

LEMMA DiscardTidy ==
  ASSUME SkillInv, NEW h \in Hosts, Discard(h)
  PROVE  Tidy
<1>1. PICK x : x = host[h]
  OBVIOUS
<1>2. x \in HostRecord /\ HostOK(x) /\ x.at = "discarding"
  BY <1>1, HostFacts DEF Discard
<1>3. PICK n \in x.left :
        /\ IF Served(n) THEN UNCHANGED points ELSE Deleted(n)
        /\ host' = [host EXCEPT ![h] =
             Settles([host[h] EXCEPT !.left = host[h].left \ {n}], host[h].then)]
  BY <1>1 DEF Discard
<1>4. PICK z : z = [x EXCEPT !.left = x.left \ {n}]
  OBVIOUS
<1>5. z \in HostRecord /\ z.left = x.left \ {n} /\ z.built = x.built
  <2>1. x.left \ {n} \in SUBSET (Groups \cup Generations)
    BY <1>2 DEF HostRecord
  <2>2. z \in HostRecord
    BY <1>2, <1>4, <2>1, Zenon DEF HostRecord
  <2> QED
    BY <1>2, <1>4, <2>2 DEF HostRecord
<1>6. PICK t \in {None, "retry", "end"} : t = x.then
  BY <1>2 DEF HostRecord
<1>7. host' = [host EXCEPT ![h] = Settles(z, t)]
  <2>1. host' = [host EXCEPT ![h] = Settles([x EXCEPT !.left = x.left \ {n}], x.then)]
    BY <1>1, <1>3
  <2> QED
    BY <1>4, <1>6, <2>1
<1>8. x.left \subseteq x.built /\ z.left \subseteq z.built /\ n \in Generations
  BY <1>2, <1>5 DEF HostOK, DiscardOK, HostRecord
<1>9. /\ \A m \in Generations : points'[m] = points[m] \/ points'[m] = NoPoints
      /\ Served(n) \/ points'[n] = NoPoints
  BY <1>3, <1>8 DEF Deleted, SkillInv, SkillTypeOK
<1>10. catalog' = catalog
  BY DEF Discard
<1>11. ASSUME NEW m \in z.built \ z.left
       PROVE  m \in Known(catalog') \/ points'[m] = NoPoints
  <2>1. CASE m = n
    BY <1>9, <1>10, <2>1 DEF Served, Known
  <2>2. CASE m # n
    <3>1. m \in Generations /\ m \in x.built \ x.left
      BY <1>2, <1>5, <1>11, <2>2 DEF HostRecord
    <3>2. points[m] = NoPoints \/ m \in Known(catalog)
      BY <1>2, <3>1 DEF HostOK, DiscardOK
    <3> QED
      BY <1>9, <1>10, <3>1, <3>2
  <2> QED
    BY <2>1, <2>2
<1> QED
  BY <1>1, <1>5, <1>7, <1>8, <1>9, <1>10, <1>11, SettleTidy

LEMMA AttemptTidy ==
  ASSUME SkillInv, NEW h \in Hosts, Attempt(h)
  PROVE  Tidy
<1>1. host \in [Hosts -> HostRecord] /\ HostOK(host[h]) /\ host[h] \in HostRecord
  BY HostFacts DEF SkillInv, SkillTypeOK
<1>2. CASE ReadPrior(h) \/ Acquired(h)
  <2>1. host[h].built = {}
    BY <1>1, <1>2 DEF ReadPrior, Acquired, HostOK, BuiltOK, Building, Making
  <2>2. (\A k \in Hosts \ {h} : host'[k] = host[k]) /\ points' = points /\ catalog' = catalog
    BY <1>1, <1>2 DEF ReadPrior, Acquired
  <2> QED
    BY <2>1, <2>2, TidyWithout
<1>3. CASE BeginGeneration(h)
  <2>1. PICK g \in host[h].left, n \in Generations \ made :
          host' = [host EXCEPT ![h].group = g, ![h].generation = n,
             ![h].built = @ \cup {n}, ![h].since = clock, ![h].at = "embedding"]
    BY <1>3 DEF BeginGeneration
  <2>2. PICK y : y = [host[h] EXCEPT !.group = g, !.generation = n,
                        !.built = @ \cup {n}, !.since = clock, !.at = "embedding"]
    OBVIOUS
  <2>3. host' = [host EXCEPT ![h] = y] /\ y.built = host[h].built \cup {n}
    BY <1>1, <2>1, <2>2 DEF HostRecord
  <2>4. /\ host[h].built \subseteq host'[h].built
        /\ \A k \in Hosts \ {h} : host'[k] = host[k]
    BY <1>1, <2>3
  <2>5. points' = points /\ catalog' = catalog
    BY <1>3 DEF BeginGeneration
  <2> QED
    BY <2>4, <2>5, TidyMoves
<1> QED
  BY <1>2, <1>3, BuildTidy, PublishTidy, DiscardTidy DEF Attempt

\* Only a crash, or a request that fails while a load cleans up, leaves vectors behind
\* that neither the catalog nor a load knows.
THEOREM NothingIsStranded == Spec => NothingStranded
<1> DEFINE A ==
      \A n \in Generations :
        Stranded(n)' /\ ~Stranded(n) => \E h \in Hosts : Throws(h) \/ Crash(h)
<1>1. SkillInv /\ [Next]_vars => A
  <2> SUFFICES ASSUME SkillInv, [Next]_vars, ~(\E h \in Hosts : Throws(h) \/ Crash(h))
               PROVE  Tidy
    BY DEF Tidy
  <2>1. CASE UNCHANGED <<catalog, points, host>>
    BY <2>1 DEF Tidy, Stranded
  <2>2. ASSUME NEW h \in Hosts, Sweep(h) \/ Attempt(h) PROVE Tidy
    BY <2>2, SweepTidy, AttemptTidy
  <2> QED
    BY <2>1, <2>2 DEF Next, vars, Recall, Query, QueryEmbedded, QueryEnds, Tick
<1>2. A => [A]_vars
  OBVIOUS
<1>3. NothingStranded <=> [][A]_vars
  BY DEF NothingStranded
<1> HIDE DEF A
<1> QED
  BY <1>1, <1>2, <1>3, SkillInvHolds, PTL DEF Spec
=============================================================================
