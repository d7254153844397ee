-------------------------- MODULE WorkerRegistryProofs -------------------------
(***************************************************************************)
(* The safety of WorkerRegistry, proved for every configuration of the     *)
(* workers and every number of builds and reloads.                         *)
(***************************************************************************)
EXTENDS WorkerRegistry, TLAPS

-----------------------------------------------------------------------------
(* The inductive invariant.                                                *)

Places == {"idle", "look", "resolve", "make", "wire", "connect", "prior", "reread",
           "done", "failed"}

EntryRecord == [clients : Nat, close : Nat]
HandleRecord == [name : Names, link : {"open", "closed", "borrowed"}, era : Nat]
BuildRecord ==
  [at : Places, sub : 1 .. Len(Subs), primary : BOOLEAN, injected : Nat,
   entry : Nat, handle : Nat, wired : [Names -> Nat], gen : Nat]

\* References are to what exists, where they are followed.
Shaped ==
  /\ cache \in [Names -> Nat]
  /\ entries \in Seq(EntryRecord)
  /\ handles \in Seq(HandleRecord)
  /\ build \in [Builds -> BuildRecord]
  /\ drains \in Nat /\ gen \in Nat /\ put \in BOOLEAN
  /\ server \in {"up", "closing", "closed"}

Referred ==
  /\ \A n \in Names : cache[n] <= Len(entries)
  /\ \A e \in 1 .. Len(entries) :
       entries[e].clients <= Len(handles) /\ entries[e].close <= Len(handles)
  /\ \A b \in Builds :
       /\ build[b].entry <= Len(entries) /\ build[b].handle <= Len(handles)
       /\ build[b].injected <= Len(handles)
       /\ build[b].at \in {"wire", "prior"} => build[b].entry # 0
       /\ build[b].gen <= gen
       /\ build[b].at = "idle" => build[b].sub = 1

\* The entry of a worker is no other worker's, nor is the handle that closes it.
EntriesApart ==
  /\ \A n, m \in Names : n # m /\ cache[n] = cache[m] => cache[n] = 0
  /\ \A b \in Builds, n \in Names :
       build[b].at = "prior" /\ cache[n] = build[b].entry => n = Name(b)

ClosersNamed ==
  /\ \A n \in Names :
       cache[n] # 0 /\ entries[cache[n]].close # 0 =>
         handles[entries[cache[n]].close].name = n
  /\ \A b \in Builds : build[b].at = "prior" =>
       build[b].handle # 0 /\ handles[build[b].handle].name = Name(b)

\* Since the last drain no builds of n have met.
Calm(n) == <<n, drains>> \notin disturbed

\* The cached entry of n has clients that are connected, and what closes them.
Full(n) ==
  /\ cache[n] # 0
  /\ LET e == entries[cache[n]] IN
     e.clients # 0 /\ e.close = e.clients /\ handles[e.clients].link = "open"

\* A session build that is with n wires what is cached.
SessionOK(b, n) ==
  /\ Full(n) /\ build[b].at \in {"resolve", "wire"}
  /\ build[b].injected = entries[cache[n]].clients
  /\ build[b].at = "wire" => build[b].entry = cache[n]

\* A primary build that is with n is alone, and n has the entry it made.
PrimaryOK(b, n) ==
  /\ \A c \in Builds : Inside(c, n) => c = b
  /\ build[b].at \in {"resolve", "make", "wire", "connect", "reread"}
  /\ build[b].at \in {"resolve", "make"} => cache[n] = 0
  /\ build[b].at \in {"wire", "connect"} =>
       /\ cache[n] # 0 /\ build[b].entry = cache[n]
       /\ entries[cache[n]].clients = 0 /\ entries[cache[n]].close = 0
  /\ build[b].at = "connect" => build[b].injected = 0
  /\ build[b].at = "reread" => Full(n)

CalmOK(n) ==
  /\ \A b \in Builds : Inside(b, n) =>
       IF build[b].primary THEN PrimaryOK(b, n) ELSE SessionOK(b, n)
  /\ cache[n] = 0 \/ Full(n) \/ \E b \in Builds : Inside(b, n) /\ build[b].primary

CalmNamesOK == \A n \in Names : Calm(n) => CalmOK(n)

\* Build b has wired n, and no drain came since it began.
Wired(b, n) ==
  /\ build[b].at = "done" \/ \E i \in 1 .. Len(Subs) : i < build[b].sub /\ Subs[i] = n
  /\ build[b].gen = gen /\ ~put /\ server # "closed"

WiredAsCached ==
  \A b \in Builds, n \in Names :
    Wired(b, n) /\ Calm(n) => Full(n) /\ build[b].wired[n] = entries[cache[n]].clients

\* A connection that is open was made since the last drain and is the one that is
\* cached, or builds of its worker met.
OpenIsCached ==
  \A h \in 1 .. Len(handles) :
    /\ handles[h].era <= drains
    /\ handles[h].link = "open" /\ <<handles[h].name, handles[h].era>> \notin disturbed =>
         /\ handles[h].era = drains
         /\ cache[handles[h].name] # 0 /\ entries[cache[handles[h].name]].close = h

WInv ==
  /\ Shaped
  /\ Referred
  /\ EntriesApart
  /\ ClosersNamed
  /\ CalmNamesOK
  /\ WiredAsCached
  /\ OpenIsCached

-----------------------------------------------------------------------------
(* What the invariant says of one entry, handle or build.                  *)

LEMMA ConstFacts == Len(Subs) \in Nat /\ Len(Subs) > 0
  BY WorkersAssumption

LEMMA EntryFacts ==
  ASSUME WInv
  PROVE  /\ Len(entries) \in Nat /\ Len(handles) \in Nat
         /\ \A e \in 1 .. Len(entries) :
              /\ entries[e] \in EntryRecord
              /\ entries[e].clients \in Nat /\ entries[e].close \in Nat
         /\ \A h \in 1 .. Len(handles) :
              /\ handles[h] \in HandleRecord
              /\ handles[h].name \in Names /\ handles[h].era \in Nat
<1>1. entries \in Seq(EntryRecord) /\ handles \in Seq(HandleRecord)
  BY DEF WInv, Shaped
<1>2. /\ Len(entries) \in Nat /\ Len(handles) \in Nat
      /\ \A e \in 1 .. Len(entries) : entries[e] \in EntryRecord
      /\ \A h \in 1 .. Len(handles) : handles[h] \in HandleRecord
  BY <1>1
<1> QED
  BY <1>2 DEF EntryRecord, HandleRecord

LEMMA CacheFacts ==
  ASSUME WInv, NEW n \in Names
  PROVE  /\ cache[n] \in Nat /\ cache[n] <= Len(entries)
         /\ cache[n] # 0 =>
              /\ cache[n] \in 1 .. Len(entries)
              /\ entries[cache[n]].clients \in 0 .. Len(handles)
              /\ entries[cache[n]].close \in 0 .. Len(handles)
<1>1. cache[n] \in Nat /\ cache[n] <= Len(entries)
  BY DEF WInv, Shaped, Referred
<1> QED
  BY <1>1, EntryFacts DEF WInv, Referred

LEMMA BuildFacts ==
  ASSUME WInv, NEW b \in Builds
  PROVE  /\ build[b] \in BuildRecord /\ Name(b) \in Names
         /\ build[b].at \in Places /\ build[b].sub \in 1 .. Len(Subs)
         /\ build[b].primary \in BOOLEAN
         /\ build[b].injected \in 0 .. Len(handles) /\ build[b].entry \in 0 .. Len(entries)
         /\ build[b].handle \in 0 .. Len(handles) /\ build[b].wired \in [Names -> Nat]
         /\ build[b].gen \in Nat
<1>1. build[b] \in BuildRecord
  BY DEF WInv, Shaped
<1>2. /\ build[b].at \in Places /\ build[b].sub \in 1 .. Len(Subs)
      /\ build[b].primary \in BOOLEAN
      /\ build[b].injected \in Nat /\ build[b].entry \in Nat
      /\ build[b].handle \in Nat /\ build[b].wired \in [Names -> Nat]
      /\ build[b].gen \in Nat
  BY <1>1 DEF BuildRecord
<1>3. Name(b) \in Names
  BY <1>2 DEF Name, Names
<1> QED
  BY <1>1, <1>2, <1>3, EntryFacts DEF WInv, Referred

LEMMA AppendFacts ==
  ASSUME NEW T, NEW q \in Seq(T), NEW t \in T
  PROVE  /\ Append(q, t) \in Seq(T) /\ Len(Append(q, t)) = Len(q) + 1
         /\ Append(q, t)[Len(q) + 1] = t
         /\ \A i \in 1 .. Len(q) : Append(q, t)[i] = q[i]
  OBVIOUS

LEMMA UnbegunTyped == Unbegun \in BuildRecord
  BY ConstFacts DEF Unbegun, BuildRecord, Places

\* A closed handle keeps its name and its age; handles are only ever closed.
LEMMA ClosingFacts ==
  ASSUME WInv, NEW hs
  PROVE  /\ Closing(hs) \in Seq(HandleRecord) /\ Len(Closing(hs)) = Len(handles)
         /\ \A h \in 1 .. Len(handles) :
              /\ Closing(hs)[h].name = handles[h].name
              /\ Closing(hs)[h].era = handles[h].era
              /\ Closing(hs)[h].link = IF h \in hs /\ handles[h].link = "open"
                                       THEN "closed" ELSE handles[h].link
<1>1. \A h \in 1 .. Len(handles) :
        /\ handles[h] \in HandleRecord
        /\ Closing(hs)[h] = IF h \in hs THEN Closed(handles[h]) ELSE handles[h]
  BY EntryFacts DEF Closing
<1>2. \A x \in HandleRecord :
        /\ Closed(x) \in HandleRecord
        /\ Closed(x).name = x.name /\ Closed(x).era = x.era
        /\ Closed(x).link = IF x.link = "open" THEN "closed" ELSE x.link
  BY DEF Closed, HandleRecord
<1>3. \A h \in 1 .. Len(handles) : Closing(hs)[h] \in HandleRecord
  BY <1>1, <1>2
<1>4. Closing(hs) \in [1 .. Len(handles) -> HandleRecord]
  BY <1>3 DEF Closing
<1>5. Closing(hs) \in Seq(HandleRecord) /\ Len(Closing(hs)) = Len(handles)
  BY <1>4, EntryFacts
<1> QED
  BY <1>1, <1>2, <1>5

-----------------------------------------------------------------------------
(* A step of one build that changes nothing but its progress.              *)

\* What such a step keeps: references, ownership and connections.
LEMMA ProgressKeeps ==
  ASSUME WInv, NEW b \in Builds, NEW y \in BuildRecord,
         build' = [build EXCEPT ![b] = y],
         UNCHANGED <<cache, entries, handles, drains, gen, put, server>>,
         disturbed \subseteq disturbed',
         y.entry <= Len(entries), y.handle <= Len(handles), y.injected <= Len(handles),
         y.at = "wire" => y.entry # 0, y.at \notin {"idle", "prior"}, y.gen <= gen,
         \A n \in Names : Calm(n)' => CalmOK(n)',
         \A n \in Names : Wired(b, n)' /\ Calm(n) =>
           Full(n) /\ y.wired[n] = entries[cache[n]].clients
  PROVE  WInv'
<1>1. build'[b] = y /\ \A c \in Builds \ {b} : build'[c] = build[c]
  BY DEF WInv, Shaped
<1>2. Shaped'
  BY DEF WInv, Shaped
<1>3. Referred'
  BY <1>1 DEF WInv, Referred
<1>4. EntriesApart'
  BY <1>1 DEF WInv, EntriesApart, Name
<1>5. ClosersNamed'
  BY <1>1 DEF WInv, ClosersNamed, Name
<1>6. CalmNamesOK'
  BY DEF CalmNamesOK
<1>7. \A n \in Names : Calm(n)' => Calm(n)
  BY DEF Calm
<1>8. WiredAsCached'
  <2> SUFFICES ASSUME NEW c \in Builds, NEW n \in Names, Wired(c, n)', Calm(n)'
               PROVE  Full(n)' /\ build'[c].wired[n] = entries'[cache'[n]].clients
    BY DEF WiredAsCached
  <2>1. CASE c = b
    BY <1>1, <1>7, <2>1 DEF Full
  <2>2. CASE c # b
    <3>1. Wired(c, n)
      BY <1>1, <2>2 DEF Wired
    <3> QED
      BY <1>1, <1>7, <2>2, <3>1 DEF WInv, WiredAsCached, Full
  <2> QED
    BY <2>1, <2>2
<1>9. OpenIsCached'
  BY DEF WInv, OpenIsCached
<1> QED
  BY <1>2, <1>3, <1>4, <1>5, <1>6, <1>8, <1>9 DEF WInv

\* ... and that b is not, or no longer, with n.
LEMMA AwayKeeps ==
  ASSUME WInv, NEW b \in Builds, NEW y \in BuildRecord,
         build' = [build EXCEPT ![b] = y],
         UNCHANGED <<cache, entries, handles>>,
         NEW n \in Names, Calm(n), ~Inside(b, n)',
         Inside(b, n) /\ build[b].primary => cache[n] = 0 \/ Full(n)
  PROVE  CalmOK(n)'
<1>1. \A c \in Builds \ {b} : build'[c] = build[c] /\ (Inside(c, n)' <=> Inside(c, n))
  BY DEF WInv, Shaped, Inside, Building, Name
<1>2. Full(n)' <=> Full(n)
  BY DEF Full
<1>3. CalmOK(n)
  BY DEF WInv, CalmNamesOK
<1>4. ASSUME NEW c \in Builds, Inside(c, n)'
      PROVE  IF build'[c].primary THEN PrimaryOK(c, n)' ELSE SessionOK(c, n)'
  <2>1. c # b /\ Inside(c, n) /\ build'[c] = build[c]
    BY <1>1, <1>4
  <2>2. IF build[c].primary THEN PrimaryOK(c, n) ELSE SessionOK(c, n)
    BY <1>3, <2>1 DEF CalmOK
  <2>3. CASE build[c].primary
    BY <1>1, <1>2, <2>1, <2>2, <2>3 DEF PrimaryOK
  <2>4. CASE ~build[c].primary
    BY <1>2, <2>1, <2>2, <2>4 DEF SessionOK
  <2> QED
    BY <2>1, <2>3, <2>4
<1>5. cache'[n] = 0 \/ Full(n)' \/ \E c \in Builds : Inside(c, n)' /\ build'[c].primary
  BY <1>1, <1>2, <1>3 DEF CalmOK
<1> QED
  BY <1>4, <1>5 DEF CalmOK

\* ... and that b is with n, and as it should be.
LEMMA WithKeeps ==
  ASSUME WInv, NEW b \in Builds, NEW y \in BuildRecord,
         build' = [build EXCEPT ![b] = y],
         UNCHANGED <<cache, entries, handles>>,
         NEW n \in Names, Calm(n), Inside(b, n)',
         IF y.primary THEN PrimaryOK(b, n)' ELSE SessionOK(b, n)',
         \/ Inside(b, n) /\ (build[b].primary => y.primary \/ Full(n))
         \/ \A c \in Builds : Inside(c, n) => ~build[c].primary
  PROVE  CalmOK(n)'
<1>1. /\ build'[b] = y
      /\ \A c \in Builds \ {b} : build'[c] = build[c] /\ (Inside(c, n)' <=> Inside(c, n))
  BY DEF WInv, Shaped, Inside, Building, Name
<1>2. Full(n)' <=> Full(n)
  BY DEF Full
<1>3. CalmOK(n)
  BY DEF WInv, CalmNamesOK
<1>4. ASSUME NEW c \in Builds \ {b}, Inside(c, n) PROVE ~build[c].primary
  BY <1>3, <1>4 DEF CalmOK, PrimaryOK
<1>5. ASSUME NEW c \in Builds \ {b}, Inside(c, n)' PROVE ~build'[c].primary /\ SessionOK(c, n)'
  <2>1. Inside(c, n) /\ build'[c] = build[c] /\ ~build[c].primary
    BY <1>1, <1>4, <1>5
  <2>2. SessionOK(c, n)
    BY <1>3, <2>1 DEF CalmOK
  <2> QED
    BY <1>2, <2>1, <2>2 DEF SessionOK
<1>6. cache'[n] = 0 \/ Full(n)' \/ \E c \in Builds : Inside(c, n)' /\ build'[c].primary
  <2>1. CASE cache[n] = 0 \/ Full(n)
    BY <1>2, <2>1
  <2>2. CASE \E c \in Builds : Inside(c, n) /\ build[c].primary
    BY <1>1, <1>2, <1>4, <2>2
  <2> QED
    BY <1>3, <2>1, <2>2 DEF CalmOK
<1> QED
  BY <1>1, <1>5, <1>6 DEF CalmOK

LEMMA BeginKeeps ==
  ASSUME WInv, NEW b \in Builds, Begin(b)
  PROVE  WInv'
<1>1. PICK x : x = build[b]
  OBVIOUS
<1>2. PICK y : y = [x EXCEPT !.at = "look", !.gen = gen]
  OBVIOUS
<1>3. x \in BuildRecord /\ gen \in Nat /\ x.at = "idle"
  BY <1>1, BuildFacts DEF Begin, WInv, Shaped
<1>4. y \in BuildRecord
  BY <1>2, <1>3 DEF BuildRecord, Places
<1>5. /\ y.at = "look" /\ y.sub = x.sub /\ y.primary = x.primary /\ y.injected = x.injected
      /\ y.entry = x.entry /\ y.handle = x.handle /\ y.wired = x.wired /\ y.gen = gen
  BY <1>2, <1>3 DEF BuildRecord
<1>6. build' = [build EXCEPT ![b] = y]
  BY <1>1, <1>2 DEF Begin
<1>7. build'[b] = y
  BY <1>6 DEF WInv, Shaped
<1>8. UNCHANGED <<cache, entries, handles, drains, gen, put, server, disturbed>>
  BY DEF Begin, serverVars
<1>9. ASSUME NEW n \in Names, Calm(n)' PROVE CalmOK(n)'
  <2>1. ~Inside(b, n)' /\ ~Inside(b, n)
    BY <1>1, <1>3, <1>5, <1>7 DEF Inside, Building
  <2> QED
    BY <1>4, <1>6, <1>8, <1>9, <2>1, AwayKeeps DEF Calm
<1>10. /\ x.sub = 1 /\ x.entry <= Len(entries) /\ x.handle <= Len(handles)
       /\ x.injected <= Len(handles)
  BY <1>1, <1>3 DEF WInv, Referred
<1>11. \A n \in Names : ~Wired(b, n)'
  <2>1. build'[b].sub = 1 /\ build'[b].at = "look"
    BY <1>5, <1>7, <1>10
  <2>2. \A i \in 1 .. Len(Subs) : ~(i < build'[b].sub)
    BY <2>1, ConstFacts
  <2> QED
    BY <2>1, <2>2 DEF Wired
<1>12. /\ y.entry <= Len(entries) /\ y.handle <= Len(handles) /\ y.injected <= Len(handles)
       /\ y.at = "look" /\ y.gen <= gen /\ disturbed \subseteq disturbed'
  BY <1>3, <1>5, <1>8, <1>10
<1> QED
  BY <1>4, <1>6, <1>8, <1>9, <1>11, <1>12, ProgressKeeps

LEMMA LookKeeps ==
  ASSUME WInv, NEW b \in Builds, Look(b)
  PROVE  WInv'
<1>0. PICK m \in Names : m = Name(b)
  BY BuildFacts
<1>1. PICK x : x = build[b]
  OBVIOUS
<1>2. PICK y : y = IF cache[m] # 0
                   THEN [x EXCEPT !.at = "resolve", !.primary = FALSE,
                                  !.injected = entries[cache[m]].clients]
                   ELSE [x EXCEPT !.at = "resolve", !.primary = TRUE]
  OBVIOUS
<1>3. x \in BuildRecord /\ x.at = "look" /\ x.entry <= Len(entries)
      /\ x.handle <= Len(handles) /\ x.injected <= Len(handles) /\ x.gen <= gen
  BY <1>1, BuildFacts DEF Look, WInv, Referred
<1>4. cache[m] # 0 => entries[cache[m]].clients \in Nat
                      /\ entries[cache[m]].clients <= Len(handles)
  BY CacheFacts, EntryFacts
<1>5. y \in BuildRecord
  BY <1>2, <1>3, <1>4 DEF BuildRecord, Places
<1>6. /\ y.at = "resolve" /\ y.sub = x.sub /\ y.entry = x.entry /\ y.handle = x.handle
      /\ y.wired = x.wired /\ y.gen = x.gen
      /\ IF cache[m] # 0 THEN ~y.primary /\ y.injected = entries[cache[m]].clients
                         ELSE y.primary /\ y.injected = x.injected
  BY <1>2, <1>3 DEF BuildRecord
<1>7. build' = [build EXCEPT ![b] = y]
  BY <1>0, <1>1, <1>2 DEF Look, Rewire
<1>8. build'[b] = y
  BY <1>7 DEF WInv, Shaped
<1>9. /\ UNCHANGED <<cache, entries, handles, drains, gen, put, server>>
      /\ disturbed' = IF \E c \in Builds : Inside(c, m) /\ build[c].primary
                      THEN disturbed \cup {<<m, drains>>} ELSE disturbed
  BY <1>0 DEF Look, serverVars
<1>10. \A n \in Names : ~Inside(b, n) /\ (Inside(b, n)' <=> n = m)
  BY <1>0, <1>1, <1>3, <1>6, <1>8 DEF Inside, Building, Name
<1>11. ASSUME NEW n \in Names, Calm(n)' PROVE CalmOK(n)'
  <2>1. Calm(n)
    BY <1>9, <1>11 DEF Calm
  <2>2. CASE n # m
    BY <1>5, <1>7, <1>9, <1>10, <2>1, <2>2, AwayKeeps
  <2>3. CASE n = m
    <3>1. \A c \in Builds : Inside(c, n) => ~build[c].primary
      BY <1>9, <1>11, <2>3 DEF Calm
    <3>2. CalmOK(n)
      BY <2>1 DEF WInv, CalmNamesOK
    <3>3. CASE cache[n] # 0
      <4>1. Full(n)
        BY <3>1, <3>2, <3>3 DEF CalmOK
      <4>2. SessionOK(b, n)'
        BY <1>6, <1>8, <1>9, <2>3, <3>3, <4>1 DEF SessionOK, Full
      <4> QED
        BY <1>5, <1>6, <1>7, <1>9, <1>10, <2>1, <2>3, <3>1, <3>3, <4>2, WithKeeps
    <3>4. CASE cache[n] = 0
      <4>1. \A c \in Builds : ~Inside(c, n)
        BY <3>1, <3>2, <3>4 DEF CalmOK, SessionOK, Full
      <4>2. \A c \in Builds \ {b} : ~Inside(c, n)'
        BY <1>7, <4>1 DEF Inside, Building, Name, WInv, Shaped
      <4>3. PrimaryOK(b, n)'
        BY <1>6, <1>8, <1>9, <2>3, <3>4, <4>2 DEF PrimaryOK
      <4> QED
        BY <1>5, <1>6, <1>7, <1>9, <1>10, <2>1, <2>3, <3>1, <3>4, <4>3, WithKeeps
    <3> QED
      BY <3>3, <3>4
  <2> QED
    BY <2>2, <2>3
<1>12. ASSUME NEW n \in Names, Wired(b, n)', Calm(n)
       PROVE  Full(n) /\ y.wired[n] = entries[cache[n]].clients
  <2>1. Wired(b, n)
    BY <1>1, <1>6, <1>8, <1>9, <1>12 DEF Wired
  <2> QED
    BY <1>1, <1>6, <1>12, <2>1 DEF WInv, WiredAsCached
<1>13. y.injected <= Len(handles) /\ disturbed \subseteq disturbed'
  BY <1>3, <1>4, <1>6, <1>9
<1> QED
  BY <1>3, <1>5, <1>6, <1>7, <1>9, <1>11, <1>12, <1>13, ProgressKeeps

LEMMA ResolveKeeps ==
  ASSUME WInv, NEW b \in Builds, Resolve(b)
  PROVE  WInv'
<1>0. PICK m \in Names : m = Name(b)
  BY BuildFacts
<1>1. PICK x : x = build[b]
  OBVIOUS
<1>2. PICK y : y = [x EXCEPT !.entry = cache[m],
                             !.at = IF cache[m] = 0 THEN "make" ELSE "wire"]
  OBVIOUS
<1>3. /\ x \in BuildRecord /\ x.at = "resolve" /\ x.primary \in BOOLEAN
      /\ x.handle <= Len(handles) /\ x.injected <= Len(handles) /\ x.gen <= gen
  BY <1>1, BuildFacts DEF Resolve, WInv, Referred
<1>4. cache[m] \in Nat /\ cache[m] <= Len(entries)
  BY CacheFacts
<1>5. y \in BuildRecord
  BY <1>2, <1>3, <1>4 DEF BuildRecord, Places
<1>6. /\ y.at = (IF cache[m] = 0 THEN "make" ELSE "wire")
      /\ y.sub = x.sub /\ y.entry = cache[m] /\ y.handle = x.handle /\ y.injected = x.injected
      /\ y.wired = x.wired /\ y.gen = x.gen /\ y.primary = x.primary
  BY <1>2, <1>3 DEF BuildRecord
<1>7. build' = [build EXCEPT ![b] = y]
  <2>1. build' = [build EXCEPT ![b] = [build[b] EXCEPT
                    !.entry = cache[Name(b)],
                    !.at = IF cache[Name(b)] = 0 THEN "make" ELSE "wire"]]
    BY Zenon DEF Resolve
  <2> QED
    BY <1>0, <1>1, <1>2, <2>1
<1>8. build'[b] = y
  BY <1>7 DEF WInv, Shaped
<1>9. UNCHANGED <<cache, entries, handles, drains, gen, put, server, disturbed>>
  BY DEF Resolve, serverVars
<1>10. \A n \in Names : (Inside(b, n) <=> n = m) /\ (Inside(b, n)' <=> n = m)
  BY <1>0, <1>1, <1>3, <1>6, <1>8 DEF Inside, Building, Name
<1>11. ASSUME NEW n \in Names, Calm(n)' PROVE CalmOK(n)'
  <2>1. Calm(n)
    BY <1>9, <1>11 DEF Calm
  <2>2. CASE n # m
    BY <1>5, <1>7, <1>9, <1>10, <2>1, <2>2, AwayKeeps
  <2>3. CASE n = m
    <3>1. IF x.primary THEN PrimaryOK(b, n) ELSE SessionOK(b, n)
      BY <1>1, <1>10, <2>1, <2>3 DEF WInv, CalmNamesOK, CalmOK
    <3>2. CASE x.primary
      <4>1. cache[n] = 0 /\ \A c \in Builds : Inside(c, n) => c = b
        BY <1>1, <1>3, <3>1, <3>2 DEF PrimaryOK
      <4>2. \A c \in Builds \ {b} : ~Inside(c, n)'
        BY <1>7, <4>1 DEF Inside, Building, Name, WInv, Shaped
      <4>3. PrimaryOK(b, n)'
        BY <1>6, <1>8, <1>9, <2>3, <4>1, <4>2 DEF PrimaryOK
      <4> QED
        BY <1>1, <1>5, <1>6, <1>7, <1>9, <1>10, <2>1, <2>3, <3>2, <4>3, WithKeeps
    <3>3. CASE ~x.primary
      <4>1. SessionOK(b, n)'
        BY <1>1, <1>6, <1>8, <1>9, <2>3, <3>1, <3>3 DEF SessionOK, Full
      <4> QED
        BY <1>1, <1>5, <1>6, <1>7, <1>9, <1>10, <2>1, <2>3, <3>3, <4>1, WithKeeps
    <3> QED
      BY <3>2, <3>3
  <2> QED
    BY <2>2, <2>3
<1>12. ASSUME NEW n \in Names, Wired(b, n)', Calm(n)
       PROVE  Full(n) /\ y.wired[n] = entries[cache[n]].clients
  <2>1. Wired(b, n)
    BY <1>1, <1>6, <1>8, <1>9, <1>12 DEF Wired
  <2> QED
    BY <1>1, <1>6, <1>12, <2>1 DEF WInv, WiredAsCached
<1> QED
  BY <1>3, <1>4, <1>5, <1>6, <1>7, <1>9, <1>11, <1>12, ProgressKeeps

LEMMA WireSessionKeeps ==
  ASSUME WInv, NEW b \in Builds, WireSession(b)
  PROVE  WInv'
<1>0. PICK m \in Names : m = Name(b)
  BY BuildFacts
<1>1. PICK x : x = build[b]
  OBVIOUS
<1>2. PICK k : k = Chosen(b)
  OBVIOUS
<1>3. PICK y : y = [x EXCEPT !.wired = [x.wired EXCEPT ![m] = k], !.injected = 0,
                             !.entry = 0, !.handle = 0,
                             !.sub = IF x.sub = Len(Subs) THEN x.sub ELSE x.sub + 1,
                             !.at = IF x.sub = Len(Subs) THEN "done" ELSE "look"]
  OBVIOUS
<1>4. /\ x \in BuildRecord /\ x.at = "wire" /\ ~x.primary /\ x.gen <= gen
      /\ x.sub \in 1 .. Len(Subs) /\ x.entry \in 1 .. Len(entries) /\ x.injected \in Nat
      /\ x.wired \in [Names -> Nat] /\ m = Subs[x.sub]
  BY <1>0, <1>1, BuildFacts DEF WireSession, WInv, Referred, Name
<1>5. k = (IF entries[x.entry].clients # 0 THEN entries[x.entry].clients ELSE x.injected)
      /\ k \in Nat
  BY <1>1, <1>2, <1>4, EntryFacts DEF Chosen
<1>6. [x.wired EXCEPT ![m] = k] \in [Names -> Nat]
  BY <1>4, <1>5
<1>7. (IF x.sub = Len(Subs) THEN x.sub ELSE x.sub + 1) \in 1 .. Len(Subs)
  BY <1>4, ConstFacts
<1>8. y \in BuildRecord
  BY <1>3, <1>4, <1>6, <1>7 DEF BuildRecord, Places
<1>9. /\ y.wired = [x.wired EXCEPT ![m] = k] /\ y.injected = 0 /\ y.entry = 0 /\ y.handle = 0
      /\ y.gen = x.gen
      /\ \/ x.sub = Len(Subs) /\ y.sub = x.sub /\ y.at = "done"
         \/ x.sub # Len(Subs) /\ y.sub = x.sub + 1 /\ y.at = "look"
  BY <1>3, <1>4 DEF BuildRecord
<1>10. build' = [build EXCEPT ![b] = y]
  <2>1. build' = [build EXCEPT ![b] = [build[b] EXCEPT
                    !.wired = [build[b].wired EXCEPT ![Name(b)] = Chosen(b)], !.injected = 0,
                    !.entry = 0, !.handle = 0,
                    !.sub = IF build[b].sub = Len(Subs) THEN build[b].sub ELSE build[b].sub + 1,
                    !.at = IF build[b].sub = Len(Subs) THEN "done" ELSE "look"]]
    BY DEF WireSession
  <2> QED
    BY <1>0, <1>1, <1>2, <1>3, <2>1
<1>11. build'[b] = y
  BY <1>10 DEF WInv, Shaped
<1>12. UNCHANGED <<cache, entries, handles, drains, gen, put, server, disturbed>>
  BY DEF WireSession, serverVars
<1>13. ASSUME NEW n \in Names, Calm(n)' PROVE CalmOK(n)'
  <2>1. ~Inside(b, n)' /\ Calm(n) /\ ~build[b].primary
    BY <1>1, <1>4, <1>9, <1>11, <1>12, <1>13 DEF Inside, Building, Calm
  <2> QED
    BY <1>8, <1>10, <1>12, <2>1, AwayKeeps
<1>14. ASSUME NEW n \in Names, Wired(b, n)', Calm(n)
       PROVE  Full(n) /\ y.wired[n] = entries[cache[n]].clients
  <2>1. CASE n = m
    <3>1. Inside(b, n) /\ ~build[b].primary
      BY <1>0, <1>1, <1>4, <2>1 DEF Inside, Building
    <3>2. SessionOK(b, n)
      BY <1>14, <3>1 DEF WInv, CalmNamesOK, CalmOK
    <3>3. Full(n) /\ x.entry = cache[n] /\ entries[x.entry].clients # 0
      BY <1>1, <1>4, <3>2 DEF SessionOK, Full
    <3> QED
      BY <1>4, <1>5, <1>9, <2>1, <3>3
  <2>2. CASE n # m
    <3>1. PICK j \in 1 .. Len(Subs) : Subs[j] = n
      BY DEF Names
    <3>2. \E i \in 1 .. Len(Subs) : i < x.sub /\ Subs[i] = n
      <4>1. CASE x.sub = Len(Subs)
        BY <1>4, <2>2, <3>1, <4>1, ConstFacts
      <4>2. CASE x.sub # Len(Subs)
        <5>1. PICK i \in 1 .. Len(Subs) : i < x.sub + 1 /\ Subs[i] = n
          BY <1>9, <1>11, <1>14, <4>2 DEF Wired
        <5> QED
          BY <1>4, <2>2, <5>1, ConstFacts
      <4> QED
        BY <4>1, <4>2
    <3>3. Wired(b, n)
      BY <1>1, <1>9, <1>11, <1>12, <1>14, <3>2 DEF Wired
    <3> QED
      BY <1>1, <1>4, <1>9, <1>14, <2>2, <3>3 DEF WInv, WiredAsCached
  <2> QED
    BY <2>1, <2>2
<1>15. /\ y.entry <= Len(entries) /\ y.handle <= Len(handles) /\ y.injected <= Len(handles)
       /\ y.at \notin {"idle", "prior", "wire"} /\ y.gen <= gen
       /\ disturbed \subseteq disturbed'
  BY <1>4, <1>9, <1>12, EntryFacts
<1> QED
  BY <1>8, <1>10, <1>12, <1>13, <1>14, <1>15, ProgressKeeps

LEMMA WirePrimaryKeeps ==
  ASSUME WInv, NEW b \in Builds, WirePrimary(b)
  PROVE  WInv'
<1>0. PICK m \in Names : m = Name(b)
  BY BuildFacts
<1>1. PICK x : x = build[b]
  OBVIOUS
<1>2. PICK y : y = [x EXCEPT !.at = "connect", !.injected = entries[x.entry].clients]
  OBVIOUS
<1>3. /\ x \in BuildRecord /\ x.at = "wire" /\ x.primary /\ x.entry \in 1 .. Len(entries)
      /\ x.handle <= Len(handles) /\ x.gen <= gen
  BY <1>1, BuildFacts DEF WirePrimary, WInv, Referred
<1>4. entries[x.entry].clients \in Nat /\ entries[x.entry].clients <= Len(handles)
  BY <1>3, EntryFacts DEF WInv, Referred
<1>5. y \in BuildRecord
  BY <1>2, <1>3, <1>4 DEF BuildRecord, Places
<1>6. /\ y.at = "connect" /\ y.injected = entries[x.entry].clients
      /\ y.sub = x.sub /\ y.entry = x.entry /\ y.handle = x.handle
      /\ y.wired = x.wired /\ y.gen = x.gen /\ y.primary = x.primary
  BY <1>2, <1>3 DEF BuildRecord
<1>7. build' = [build EXCEPT ![b] = y]
  BY <1>1, <1>2 DEF WirePrimary
<1>8. build'[b] = y
  BY <1>7 DEF WInv, Shaped
<1>9. UNCHANGED <<cache, entries, handles, drains, gen, put, server, disturbed>>
  BY DEF WirePrimary, serverVars
<1>10. \A n \in Names : (Inside(b, n) <=> n = m) /\ (Inside(b, n)' <=> n = m)
  BY <1>0, <1>1, <1>3, <1>6, <1>8 DEF Inside, Building, Name
<1>11. ASSUME NEW n \in Names, Calm(n)' PROVE CalmOK(n)'
  <2>1. Calm(n)
    BY <1>9, <1>11 DEF Calm
  <2>2. CASE n # m
    BY <1>5, <1>7, <1>9, <1>10, <2>1, <2>2, AwayKeeps
  <2>3. CASE n = m
    <3>1. PrimaryOK(b, n)
      BY <1>1, <1>3, <1>10, <2>1, <2>3 DEF WInv, CalmNamesOK, CalmOK
    <3>2. \A c \in Builds \ {b} : ~Inside(c, n)'
      BY <1>7, <3>1 DEF PrimaryOK, Inside, Building, Name, WInv, Shaped
    <3>3. PrimaryOK(b, n)'
      BY <1>1, <1>3, <1>6, <1>8, <1>9, <3>1, <3>2 DEF PrimaryOK
    <3> QED
      BY <1>1, <1>3, <1>5, <1>6, <1>7, <1>9, <1>10, <2>1, <2>3, <3>3, WithKeeps
  <2> QED
    BY <2>2, <2>3
<1>12. ASSUME NEW n \in Names, Wired(b, n)', Calm(n)
       PROVE  Full(n) /\ y.wired[n] = entries[cache[n]].clients
  <2>1. Wired(b, n)
    BY <1>1, <1>6, <1>8, <1>9, <1>12 DEF Wired
  <2> QED
    BY <1>1, <1>6, <1>12, <2>1 DEF WInv, WiredAsCached
<1>13. /\ y.entry <= Len(entries) /\ y.handle <= Len(handles) /\ y.injected <= Len(handles)
       /\ y.at = "connect" /\ y.gen <= gen /\ disturbed \subseteq disturbed'
  BY <1>3, <1>4, <1>6, <1>9, EntryFacts
<1> QED
  BY <1>5, <1>7, <1>9, <1>11, <1>12, <1>13, ProgressKeeps

LEMMA RereadKeeps ==
  ASSUME WInv, NEW b \in Builds, Reread(b)
  PROVE  WInv'
<1>0. PICK m \in Names : m = Name(b)
  BY BuildFacts
<1>1. PICK x : x = build[b]
  OBVIOUS
<1>2. PICK y : y = IF cache[m] = 0 THEN [Unbegun EXCEPT !.at = "failed"]
                   ELSE [x EXCEPT !.at = "resolve", !.primary = FALSE,
                                  !.injected = entries[cache[m]].clients]
  OBVIOUS
<1>3. /\ x \in BuildRecord /\ x.at = "reread" /\ x.primary \in BOOLEAN
      /\ x.entry <= Len(entries) /\ x.handle <= Len(handles) /\ x.gen <= gen
  BY <1>1, BuildFacts DEF Reread, WInv, Referred
<1>4. cache[m] # 0 => entries[cache[m]].clients \in Nat
                      /\ entries[cache[m]].clients <= Len(handles)
  BY CacheFacts, EntryFacts
<1>5. y \in BuildRecord
  BY <1>2, <1>3, <1>4, UnbegunTyped DEF BuildRecord, Places
<1>6. \/ /\ cache[m] = 0 /\ y.at = "failed" /\ y.sub = 1 /\ y.entry = 0 /\ y.handle = 0
         /\ y.injected = 0 /\ y.gen = 0
      \/ /\ cache[m] # 0 /\ y.at = "resolve" /\ ~y.primary
         /\ y.injected = entries[cache[m]].clients
         /\ y.sub = x.sub /\ y.entry = x.entry /\ y.handle = x.handle
         /\ y.wired = x.wired /\ y.gen = x.gen
  BY <1>2, <1>3 DEF BuildRecord, Unbegun
<1>7. build' = [build EXCEPT ![b] = y]
  BY <1>0, <1>1, <1>2 DEF Reread, Rewire
<1>8. build'[b] = y
  BY <1>7 DEF WInv, Shaped
<1>9. UNCHANGED <<cache, entries, handles, drains, gen, put, server, disturbed>>
  BY DEF Reread, serverVars
<1>10. /\ \A n \in Names : Inside(b, n) <=> n = m
       /\ \A n \in Names : Inside(b, n)' <=> n = m /\ cache[m] # 0
  BY <1>0, <1>1, <1>3, <1>6, <1>8 DEF Inside, Building, Name
<1>11. ASSUME NEW n \in Names, Calm(n)' PROVE CalmOK(n)'
  <2>1. Calm(n)
    BY <1>9, <1>11 DEF Calm
  <2>2. CASE n # m
    BY <1>5, <1>7, <1>9, <1>10, <2>1, <2>2, AwayKeeps
  <2>3. CASE n = m
    <3>1. IF x.primary THEN PrimaryOK(b, n) ELSE SessionOK(b, n)
      BY <1>1, <1>10, <2>1, <2>3 DEF WInv, CalmNamesOK, CalmOK
    <3>2. Full(n)
      BY <1>1, <1>3, <3>1 DEF PrimaryOK, SessionOK
    <3>3. cache[m] # 0 /\ SessionOK(b, n)'
      BY <1>6, <1>8, <1>9, <2>3, <3>2 DEF SessionOK, Full
    <3> QED
      BY <1>5, <1>6, <1>7, <1>9, <1>10, <2>1, <2>3, <3>2, <3>3, WithKeeps
  <2> QED
    BY <2>2, <2>3
<1>12. ASSUME NEW n \in Names, Wired(b, n)', Calm(n)
       PROVE  Full(n) /\ y.wired[n] = entries[cache[n]].clients
  <2>1. y.at # "failed"
    <3>1. \A i \in 1 .. Len(Subs) : ~(i < 1)
      BY ConstFacts
    <3>2. y.sub # 1 \/ y.at # "failed"
      BY <1>8, <1>12, <3>1 DEF Wired
    <3> QED
      BY <1>6, <3>2
  <2>2. Wired(b, n)
    BY <1>1, <1>6, <1>8, <1>9, <1>12, <2>1 DEF Wired
  <2> QED
    BY <1>1, <1>6, <1>12, <2>1, <2>2 DEF WInv, WiredAsCached
<1>13. /\ y.entry <= Len(entries) /\ y.handle <= Len(handles) /\ y.injected <= Len(handles)
       /\ y.at \notin {"idle", "prior", "wire"} /\ y.gen <= gen
       /\ disturbed \subseteq disturbed'
  BY <1>3, <1>4, <1>6, <1>9, EntryFacts DEF WInv, Shaped
<1> QED
  BY <1>5, <1>7, <1>9, <1>11, <1>12, <1>13, ProgressKeeps

LEMMA BuildThrowsKeeps ==
  ASSUME WInv, NEW b \in Builds, BuildThrows(b)
  PROVE  WInv'
<1>0. PICK m \in Names : m = Name(b)
  BY BuildFacts
<1>1. PICK y : y = [Unbegun EXCEPT !.at = "failed"]
  OBVIOUS
<1>2. /\ build[b].at \in {"resolve", "make", "connect"} /\ build[b].primary \in BOOLEAN
  BY BuildFacts DEF BuildThrows
<1>3. y \in BuildRecord
  BY <1>1, UnbegunTyped DEF BuildRecord, Places
<1>4. /\ y.at = "failed" /\ y.sub = 1 /\ y.entry = 0 /\ y.handle = 0 /\ y.injected = 0
      /\ y.gen = 0
  BY <1>1 DEF Unbegun
<1>5. build' = [build EXCEPT ![b] = y]
  BY <1>1 DEF BuildThrows
<1>6. build'[b] = y
  BY <1>5 DEF WInv, Shaped
<1>7. /\ UNCHANGED <<cache, entries, handles, drains, gen, put, server>>
      /\ disturbed \subseteq disturbed'
      /\ build[b].at = "connect" => <<m, drains>> \in disturbed'
  BY <1>0 DEF BuildThrows, serverVars
<1>8. ASSUME NEW n \in Names, Calm(n)' PROVE CalmOK(n)'
  <2>1. Calm(n) /\ (n = m => build[b].at # "connect")
    BY <1>7, <1>8 DEF Calm
  <2>2. ~Inside(b, n)'
    BY <1>4, <1>6 DEF Inside, Building
  <2>3. Inside(b, n) /\ build[b].primary => cache[n] = 0
    <3> SUFFICES ASSUME Inside(b, n), build[b].primary PROVE cache[n] = 0
      OBVIOUS
    <3>1. n = m /\ PrimaryOK(b, n)
      BY <1>0, <2>1 DEF Inside, WInv, CalmNamesOK, CalmOK
    <3> QED
      BY <1>2, <2>1, <3>1 DEF PrimaryOK
  <2> QED
    BY <1>3, <1>5, <1>7, <2>1, <2>2, <2>3, AwayKeeps
<1>9. \A n \in Names : ~Wired(b, n)'
  <2>1. \A i \in 1 .. Len(Subs) : ~(i < 1)
    BY ConstFacts
  <2> QED
    BY <1>4, <1>6, <2>1 DEF Wired
<1>10. /\ y.entry <= Len(entries) /\ y.handle <= Len(handles) /\ y.injected <= Len(handles)
       /\ y.gen <= gen
  BY <1>4, EntryFacts DEF WInv, Shaped
<1> QED
  BY <1>3, <1>4, <1>5, <1>7, <1>8, <1>9, <1>10, ProgressKeeps

-----------------------------------------------------------------------------
(* Steps that make or fill an entry.                                       *)

LEMMA MakeEntryKeeps ==
  ASSUME WInv, NEW b \in Builds, MakeEntry(b)
  PROVE  WInv'
<1>0. PICK m \in Names : m = Name(b)
  BY BuildFacts
<1>1. PICK x : x = build[b]
  OBVIOUS
<1>2. PICK e : e = Len(entries) + 1
  OBVIOUS
<1>3. PICK y : y = [x EXCEPT !.entry = e, !.at = "wire"]
  OBVIOUS
<1>4. /\ x \in BuildRecord /\ x.at = "make" /\ x.primary \in BOOLEAN
      /\ e \in Nat /\ e # 0 /\ ~(e <= Len(entries)) /\ Len(entries) \in Nat
  BY <1>1, <1>2, BuildFacts, EntryFacts DEF MakeEntry
<1>5. y \in BuildRecord
  BY <1>3, <1>4 DEF BuildRecord, Places
<1>6. /\ y.at = "wire" /\ y.entry = e /\ y.sub = x.sub /\ y.handle = x.handle
      /\ y.injected = x.injected /\ y.wired = x.wired /\ y.gen = x.gen /\ y.primary = x.primary
  BY <1>3, <1>4 DEF BuildRecord
<1>7. build' = [build EXCEPT ![b] = y]
  BY <1>1, <1>2, <1>3 DEF MakeEntry
<1>8. build'[b] = y /\ \A c \in Builds \ {b} : build'[c] = build[c]
  BY <1>7 DEF WInv, Shaped
<1>9. UNCHANGED <<handles, drains, gen, put, server, disturbed>>
  BY DEF MakeEntry, serverVars
<1>10. /\ cache'[m] = e /\ \A n \in Names \ {m} : cache'[n] = cache[n]
       /\ cache' \in [Names -> Nat]
  BY <1>0, <1>2, <1>4 DEF MakeEntry, WInv, Shaped
<1>11. /\ entries' \in Seq(EntryRecord) /\ Len(entries') = e
       /\ entries'[e] = Entry /\ \A i \in 1 .. Len(entries) : entries'[i] = entries[i]
  <2>1. Entry \in EntryRecord
    BY DEF Entry, EntryRecord
  <2> QED
    BY <1>2, <2>1 DEF MakeEntry, WInv, Shaped
<1>12. Entry.clients = 0 /\ Entry.close = 0
  BY DEF Entry
<1>13. \A n \in Names \ {m} : /\ Full(n)' <=> Full(n)
                              /\ cache[n] # 0 => entries'[cache[n]] = entries[cache[n]]
  BY <1>9, <1>10, <1>11, CacheFacts DEF Full
<1>14. \A n \in Names : /\ Calm(n)' <=> Calm(n)
                        /\ \A c \in Builds : Inside(c, n)' <=> Inside(c, n)
  BY <1>1, <1>4, <1>6, <1>8, <1>9 DEF Calm, Inside, Building, Name
<1>15. Calm(m) => x.primary /\ cache[m] = 0 /\ PrimaryOK(b, m)
  <2> SUFFICES ASSUME Calm(m) PROVE x.primary /\ cache[m] = 0 /\ PrimaryOK(b, m)
    OBVIOUS
  <2>1. Inside(b, m)
    BY <1>0, <1>1, <1>4 DEF Inside, Building
  <2>2. IF x.primary THEN PrimaryOK(b, m) ELSE SessionOK(b, m)
    BY <1>1, <2>1 DEF WInv, CalmNamesOK, CalmOK
  <2> QED
    BY <1>1, <1>4, <2>2 DEF PrimaryOK, SessionOK
<1>16. Shaped'
  BY <1>5, <1>7, <1>9, <1>10, <1>11 DEF WInv, Shaped
<1>17. Referred'
  <2>1. \A n \in Names : cache'[n] <= Len(entries')
    BY <1>2, <1>4, <1>10, <1>11, CacheFacts
  <2>2. \A i \in 1 .. Len(entries') :
          entries'[i].clients <= Len(handles) /\ entries'[i].close <= Len(handles)
    <3> SUFFICES ASSUME NEW i \in 1 .. Len(entries')
                 PROVE  entries'[i].clients <= Len(handles) /\ entries'[i].close <= Len(handles)
      OBVIOUS
    <3>1. CASE i = e
      BY <1>11, <1>12, <3>1, EntryFacts
    <3>2. CASE i # e
      BY <1>2, <1>4, <1>11, <3>2 DEF WInv, Referred
    <3> QED
      BY <3>1, <3>2
  <2>3. ASSUME NEW c \in Builds
        PROVE  /\ build'[c].entry <= Len(entries') /\ build'[c].handle <= Len(handles)
               /\ build'[c].injected <= Len(handles)
               /\ build'[c].at \in {"wire", "prior"} => build'[c].entry # 0
               /\ build'[c].gen <= gen
               /\ build'[c].at = "idle" => build'[c].sub = 1
    <3>1. CASE c = b
      BY <1>1, <1>4, <1>6, <1>8, <1>11, <3>1, BuildFacts DEF WInv, Referred
    <3>2. CASE c # b
      BY <1>2, <1>4, <1>8, <1>11, <3>2, BuildFacts DEF WInv, Referred
    <3> QED
      BY <3>1, <3>2
  <2> QED
    BY <1>9, <2>1, <2>2, <2>3 DEF Referred
<1>18. EntriesApart'
  <2>1. ASSUME NEW n \in Names, NEW k \in Names, n # k, cache'[n] = cache'[k]
        PROVE  cache'[n] = 0
    BY <1>4, <1>10, <2>1, CacheFacts DEF WInv, EntriesApart
  <2>2. ASSUME NEW c \in Builds, NEW n \in Names, build'[c].at = "prior",
               cache'[n] = build'[c].entry
        PROVE  n = Name(c)'
    <3>1. c # b /\ build'[c] = build[c]
      BY <1>6, <1>8, <2>2
    <3>2. n # m
      BY <1>4, <1>10, <2>2, <3>1, BuildFacts
    <3> QED
      BY <1>10, <2>2, <3>1, <3>2 DEF WInv, EntriesApart, Name
  <2> QED
    BY <2>1, <2>2 DEF EntriesApart
<1>19. ClosersNamed'
  <2>1. ASSUME NEW n \in Names, cache'[n] # 0, entries'[cache'[n]].close # 0
        PROVE  handles[entries'[cache'[n]].close].name = n
    BY <1>10, <1>11, <1>12, <1>13, <2>1 DEF WInv, ClosersNamed
  <2>2. ASSUME NEW c \in Builds, build'[c].at = "prior"
        PROVE  build'[c].handle # 0 /\ handles[build'[c].handle].name = Name(c)'
    BY <1>6, <1>8, <2>2 DEF WInv, ClosersNamed, Name
  <2> QED
    BY <1>9, <2>1, <2>2 DEF ClosersNamed
<1>20. CalmNamesOK'
  <2> SUFFICES ASSUME NEW n \in Names, Calm(n)' PROVE CalmOK(n)'
    BY DEF CalmNamesOK
  <2>0. Calm(n) /\ CalmOK(n)
    BY <1>14 DEF WInv, CalmNamesOK
  <2>1. CASE n = m
    <3>1. x.primary /\ PrimaryOK(b, n)
      BY <1>15, <2>0, <2>1
    <3>2. PrimaryOK(b, n)'
      BY <1>4, <1>6, <1>8, <1>10, <1>11, <1>12, <1>14, <2>1, <3>1 DEF PrimaryOK
    <3>3. Inside(b, n)' /\ build'[b].primary /\ \A c \in Builds : Inside(c, n)' => c = b
      BY <1>0, <1>1, <1>4, <1>6, <1>8, <1>14, <2>1, <3>1 DEF Inside, Building, PrimaryOK
    <3> QED
      BY <3>2, <3>3 DEF CalmOK
  <2>2. CASE n # m
    <3>1. ASSUME NEW c \in Builds, Inside(c, n)'
          PROVE  IF build'[c].primary THEN PrimaryOK(c, n)' ELSE SessionOK(c, n)'
      <4>1. Inside(c, n) /\ c # b /\ build'[c] = build[c]
        BY <1>0, <1>8, <1>14, <2>2, <3>1 DEF Inside
      <4>2. IF build[c].primary THEN PrimaryOK(c, n) ELSE SessionOK(c, n)
        BY <2>0, <4>1 DEF CalmOK
      <4>3. CASE build[c].primary
        BY <1>10, <1>13, <1>14, <2>2, <4>1, <4>2, <4>3 DEF PrimaryOK
      <4>4. CASE ~build[c].primary
        BY <1>10, <1>13, <2>2, <4>1, <4>2, <4>4 DEF SessionOK, Full
      <4> QED
        BY <4>1, <4>3, <4>4
    <3>2. cache'[n] = 0 \/ Full(n)' \/ \E c \in Builds : Inside(c, n)' /\ build'[c].primary
      BY <1>6, <1>8, <1>10, <1>13, <1>14, <1>1, <2>0, <2>2 DEF CalmOK
    <3> QED
      BY <3>1, <3>2 DEF CalmOK
  <2> QED
    BY <2>1, <2>2
<1>21. WiredAsCached'
  <2> SUFFICES ASSUME NEW c \in Builds, NEW n \in Names, Wired(c, n)', Calm(n)'
               PROVE  Full(n)' /\ build'[c].wired[n] = entries'[cache'[n]].clients
    BY DEF WiredAsCached
  <2>1. Wired(c, n) /\ build'[c].wired = build[c].wired /\ Calm(n)
    <3>1. CASE c = b
      BY <1>1, <1>4, <1>6, <1>8, <1>9, <1>14, <3>1 DEF Wired
    <3>2. CASE c # b
      BY <1>8, <1>9, <1>14, <3>2 DEF Wired
    <3> QED
      BY <3>1, <3>2
  <2>2. Full(n) /\ build[c].wired[n] = entries[cache[n]].clients
    BY <2>1 DEF WInv, WiredAsCached
  <2>3. n # m
    BY <1>15, <2>1, <2>2 DEF Full
  <2> QED
    BY <1>10, <1>13, <2>1, <2>2, <2>3 DEF Full
<1>22. OpenIsCached'
  <2> SUFFICES ASSUME NEW h \in 1 .. Len(handles)
               PROVE  /\ handles[h].era <= drains
                      /\ handles[h].link = "open"
                           /\ <<handles[h].name, handles[h].era>> \notin disturbed =>
                         /\ handles[h].era = drains
                         /\ cache'[handles[h].name] # 0
                         /\ entries'[cache'[handles[h].name]].close = h
    BY <1>9 DEF OpenIsCached
  <2>1. handles[h].era <= drains
    BY DEF WInv, OpenIsCached
  <2>2. ASSUME handles[h].link = "open", <<handles[h].name, handles[h].era>> \notin disturbed
        PROVE  /\ handles[h].era = drains
               /\ cache'[handles[h].name] # 0
               /\ entries'[cache'[handles[h].name]].close = h
    <3>1. /\ handles[h].era = drains /\ cache[handles[h].name] # 0
          /\ entries[cache[handles[h].name]].close = h
      BY <2>2 DEF WInv, OpenIsCached
    <3>2. handles[h].name \in Names /\ handles[h].name # m
      BY <1>15, <2>2, <3>1, EntryFacts DEF Calm
    <3> QED
      BY <1>10, <1>13, <3>1, <3>2
  <2> QED
    BY <2>1, <2>2
<1> QED
  BY <1>16, <1>17, <1>18, <1>19, <1>20, <1>21, <1>22 DEF WInv

\* The close that a primary build waited for has settled: its worker is not calm.
LEMMA PriorClosedKeeps ==
  ASSUME WInv, NEW b \in Builds, PriorClosed(b)
  PROVE  WInv'
<1>0. PICK m \in Names : m = Name(b)
  BY BuildFacts
<1>1. PICK x : x = build[b]
  OBVIOUS
<1>2. PICK y : y = [x EXCEPT !.at = "reread"]
  OBVIOUS
<1>3. /\ x \in BuildRecord /\ x.at = "prior" /\ x.primary \in BOOLEAN
      /\ x.entry \in 1 .. Len(entries) /\ x.handle \in 0 .. Len(handles)
      /\ x.handle # 0 /\ handles[x.handle].name = m
  BY <1>0, <1>1, BuildFacts DEF PriorClosed, WInv, Referred, ClosersNamed
<1>4. y \in BuildRecord
  BY <1>2, <1>3 DEF BuildRecord, Places
<1>5. /\ y.at = "reread" /\ y.entry = x.entry /\ y.sub = x.sub /\ y.handle = x.handle
      /\ y.injected = x.injected /\ y.wired = x.wired /\ y.gen = x.gen /\ y.primary = x.primary
  BY <1>2, <1>3 DEF BuildRecord
<1>6. build' = [build EXCEPT ![b] = y]
  BY <1>1, <1>2 DEF PriorClosed
<1>7. build'[b] = y /\ \A c \in Builds \ {b} : build'[c] = build[c]
  BY <1>6 DEF WInv, Shaped
<1>8. UNCHANGED <<cache, handles, drains, gen, put, server, disturbed>>
  BY DEF PriorClosed, serverVars
<1>9. /\ entries' \in Seq(EntryRecord) /\ Len(entries') = Len(entries)
      /\ \A i \in 1 .. Len(entries) :
           /\ i # x.entry => entries'[i] = entries[i]
           /\ entries'[i].clients = entries[i].clients
           /\ entries'[i].close = IF i = x.entry THEN x.handle ELSE entries[i].close
  <2>1. entries' = [entries EXCEPT ![x.entry] = [entries[x.entry] EXCEPT !.close = x.handle]]
    BY <1>1 DEF PriorClosed
  <2>2. PICK z : z = [entries[x.entry] EXCEPT !.close = x.handle]
    OBVIOUS
  <2>3. z \in EntryRecord /\ z.clients = entries[x.entry].clients /\ z.close = x.handle
    BY <1>3, <2>2, EntryFacts DEF EntryRecord
  <2> QED
    BY <1>3, <2>1, <2>2, <2>3 DEF WInv, Shaped
<1>10. ~Calm(m)
  <2>1. Inside(b, m)
    BY <1>0, <1>1, <1>3 DEF Inside, Building
  <2> QED
    BY <1>1, <1>3, <2>1 DEF WInv, CalmNamesOK, CalmOK, PrimaryOK, SessionOK
<1>11. \A n \in Names \ {m} : cache[n] # x.entry
  BY <1>0, <1>1, <1>3 DEF WInv, EntriesApart
<1>12. \A n \in Names \ {m} : /\ Full(n)' <=> Full(n)
                              /\ cache[n] # 0 => entries'[cache[n]] = entries[cache[n]]
  BY <1>8, <1>9, <1>11, CacheFacts DEF Full
<1>13. \A n \in Names : /\ Calm(n)' <=> Calm(n)
                        /\ \A c \in Builds : Inside(c, n)' <=> Inside(c, n)
  BY <1>1, <1>3, <1>5, <1>7, <1>8 DEF Calm, Inside, Building, Name
<1>14. Shaped'
  BY <1>4, <1>6, <1>8, <1>9 DEF WInv, Shaped
<1>15. Referred'
  <2>1. \A i \in 1 .. Len(entries') :
          entries'[i].clients <= Len(handles) /\ entries'[i].close <= Len(handles)
    BY <1>3, <1>9, EntryFacts DEF WInv, Referred
  <2>2. ASSUME NEW c \in Builds
        PROVE  /\ build'[c].entry <= Len(entries) /\ build'[c].handle <= Len(handles)
               /\ build'[c].injected <= Len(handles)
               /\ build'[c].at \in {"wire", "prior"} => build'[c].entry # 0
               /\ build'[c].gen <= gen
               /\ build'[c].at = "idle" => build'[c].sub = 1
    <3>1. CASE c = b
      BY <1>1, <1>3, <1>5, <1>7, <3>1 DEF WInv, Referred
    <3>2. CASE c # b
      BY <1>7, <3>2 DEF WInv, Referred
    <3> QED
      BY <3>1, <3>2
  <2> QED
    BY <1>8, <1>9, <2>1, <2>2 DEF WInv, Referred
<1>16. EntriesApart'
  BY <1>5, <1>7, <1>8 DEF WInv, EntriesApart, Name
<1>17. ClosersNamed'
  <2>1. ASSUME NEW n \in Names, cache[n] # 0, entries'[cache[n]].close # 0
        PROVE  handles[entries'[cache[n]].close].name = n
    <3>1. CASE n = m
      BY <1>3, <1>9, <2>1, <3>1, CacheFacts DEF WInv, ClosersNamed
    <3>2. CASE n # m
      BY <1>12, <2>1, <3>2 DEF WInv, ClosersNamed
    <3> QED
      BY <3>1, <3>2
  <2>2. ASSUME NEW c \in Builds, build'[c].at = "prior"
        PROVE  build'[c].handle # 0 /\ handles[build'[c].handle].name = Name(c)'
    BY <1>5, <1>7, <2>2 DEF WInv, ClosersNamed, Name
  <2> QED
    BY <1>8, <2>1, <2>2 DEF ClosersNamed
<1>18. CalmNamesOK'
  <2> SUFFICES ASSUME NEW n \in Names, Calm(n)' PROVE CalmOK(n)'
    BY DEF CalmNamesOK
  <2>0. Calm(n) /\ CalmOK(n) /\ n # m
    BY <1>10, <1>13 DEF WInv, CalmNamesOK
  <2>1. ASSUME NEW c \in Builds, Inside(c, n)'
        PROVE  IF build'[c].primary THEN PrimaryOK(c, n)' ELSE SessionOK(c, n)'
    <3>1. Inside(c, n) /\ c # b /\ build'[c] = build[c]
      BY <1>0, <1>7, <1>13, <2>0, <2>1 DEF Inside
    <3>2. IF build[c].primary THEN PrimaryOK(c, n) ELSE SessionOK(c, n)
      BY <2>0, <3>1 DEF CalmOK
    <3>3. CASE build[c].primary
      BY <1>8, <1>12, <1>13, <2>0, <3>1, <3>2, <3>3 DEF PrimaryOK
    <3>4. CASE ~build[c].primary
      BY <1>8, <1>12, <2>0, <3>1, <3>2, <3>4 DEF SessionOK, Full
    <3> QED
      BY <3>1, <3>3, <3>4
  <2>2. cache'[n] = 0 \/ Full(n)' \/ \E c \in Builds : Inside(c, n)' /\ build'[c].primary
    BY <1>1, <1>5, <1>7, <1>8, <1>12, <1>13, <2>0 DEF CalmOK
  <2> QED
    BY <2>1, <2>2 DEF CalmOK
<1>19. WiredAsCached'
  <2> SUFFICES ASSUME NEW c \in Builds, NEW n \in Names, Wired(c, n)', Calm(n)'
               PROVE  Full(n)' /\ build'[c].wired[n] = entries'[cache'[n]].clients
    BY DEF WiredAsCached
  <2>1. Wired(c, n) /\ build'[c].wired = build[c].wired /\ Calm(n) /\ n # m
    <3>1. CASE c = b
      BY <1>1, <1>3, <1>5, <1>7, <1>8, <1>10, <1>13, <3>1 DEF Wired
    <3>2. CASE c # b
      BY <1>7, <1>8, <1>10, <1>13, <3>2 DEF Wired
    <3> QED
      BY <3>1, <3>2
  <2>2. Full(n) /\ build[c].wired[n] = entries[cache[n]].clients
    BY <2>1 DEF WInv, WiredAsCached
  <2> QED
    BY <1>8, <1>12, <2>1, <2>2 DEF Full
<1>20. OpenIsCached'
  <2>1. \A h \in 1 .. Len(handles) : handles[h].era <= drains
    BY DEF WInv, OpenIsCached
  <2>2. ASSUME NEW h \in 1 .. Len(handles), handles[h].link = "open",
               <<handles[h].name, handles[h].era>> \notin disturbed
        PROVE  /\ handles[h].era = drains /\ cache[handles[h].name] # 0
               /\ entries'[cache[handles[h].name]].close = h
    <3>1. /\ handles[h].era = drains /\ cache[handles[h].name] # 0
          /\ entries[cache[handles[h].name]].close = h
      BY <2>2 DEF WInv, OpenIsCached
    <3>2. handles[h].name \in Names /\ handles[h].name # m
      BY <1>10, <2>2, <3>1, EntryFacts DEF Calm
    <3> QED
      BY <1>12, <3>1, <3>2
  <2> QED
    BY <1>8, <2>1, <2>2 DEF OpenIsCached
<1> QED
  BY <1>14, <1>15, <1>16, <1>17, <1>18, <1>19, <1>20 DEF WInv

\* A primary build that has connected: of a calm worker it fills the entry it made, of
\* any other it may close what it finds there.
LEMMA ConnectedKeeps ==
  ASSUME WInv, NEW b \in Builds, Connected(b)
  PROVE  WInv'
<1>0. PICK m \in Names : m = Name(b)
  BY BuildFacts
<1>1. PICK x : x = build[b]
  OBVIOUS
<1>2. PICK h : h = Len(handles) + 1
  OBVIOUS
<1>3. PICK e : e = cache[m]
  OBVIOUS
<1>4. PICK prior : prior = IF e = 0 THEN 0 ELSE entries[e].close
  OBVIOUS
<1>5. PICK k : k = IF x.injected = 0 THEN h ELSE x.injected
  OBVIOUS
<1>6. PICK y : y = [x EXCEPT !.at = IF prior = 0 THEN "reread" ELSE "prior",
                             !.entry = e, !.handle = h]
  OBVIOUS
<1>7. /\ x \in BuildRecord /\ x.at = "connect" /\ x.primary \in BOOLEAN
      /\ x.injected \in 0 .. Len(handles) /\ Len(handles) \in Nat
      /\ h \in Nat /\ h # 0 /\ ~(h <= Len(handles)) /\ e \in Nat /\ e <= Len(entries)
      /\ k \in Nat /\ k <= h /\ Len(entries) \in Nat
      /\ prior \in 0 .. Len(handles)
  <2>1. /\ x \in BuildRecord /\ x.at = "connect" /\ x.primary \in BOOLEAN
        /\ x.injected \in 0 .. Len(handles)
    BY <1>1, BuildFacts DEF Connected
  <2>2. Len(handles) \in Nat /\ Len(entries) \in Nat
    BY EntryFacts
  <2>3. /\ e \in Nat /\ e <= Len(entries)
        /\ e # 0 => entries[e].close \in 0 .. Len(handles)
    BY <1>3, CacheFacts
  <2> QED
    BY <1>2, <1>4, <1>5, <2>1, <2>2, <2>3
<1>8. y \in BuildRecord
  BY <1>6, <1>7 DEF BuildRecord, Places
<1>9. /\ y.at = (IF prior = 0 THEN "reread" ELSE "prior") /\ y.entry = e /\ y.handle = h
      /\ y.sub = x.sub /\ y.injected = x.injected /\ y.wired = x.wired /\ y.gen = x.gen
      /\ y.primary = x.primary
  BY <1>6, <1>7 DEF BuildRecord
<1>10. build' = [build EXCEPT ![b] = y]
  BY <1>0, <1>1, <1>2, <1>3, <1>4, <1>6 DEF Connected
<1>11. build'[b] = y /\ \A c \in Builds \ {b} : build'[c] = build[c]
  BY <1>10 DEF WInv, Shaped
<1>12. UNCHANGED <<cache, drains, gen, put, server, disturbed>>
  BY DEF Connected, serverVars
<1>13. /\ handles' \in Seq(HandleRecord) /\ Len(handles') = h
       /\ handles'[h].name = m /\ handles'[h].era = drains
       /\ x.injected = 0 => handles'[h].link = "open"
       /\ \A i \in 1 .. Len(handles) :
            /\ handles'[i].name = handles[i].name /\ handles'[i].era = handles[i].era
            /\ handles'[i].link = IF i = prior /\ handles[i].link = "open"
                                  THEN "closed" ELSE handles[i].link
  <2>1. PICK H : H = Handle(b)
    OBVIOUS
  <2>2. /\ H \in HandleRecord /\ H.name = m /\ H.era = drains
        /\ x.injected = 0 => H.link = "open"
    BY <1>0, <1>1, <2>1 DEF Handle, HandleRecord, WInv, Shaped
  <2>3. handles' = Append(Closing({prior}), H)
    BY <1>0, <1>3, <1>4, <2>1 DEF Connected
  <2>4. PICK C : C = Closing({prior})
    OBVIOUS
  <2>5. /\ C \in Seq(HandleRecord) /\ Len(C) = Len(handles)
        /\ \A i \in 1 .. Len(handles) :
             /\ C[i].name = handles[i].name /\ C[i].era = handles[i].era
             /\ C[i].link = IF i = prior /\ handles[i].link = "open"
                            THEN "closed" ELSE handles[i].link
    BY <2>4, ClosingFacts
  <2>6. /\ handles' \in Seq(HandleRecord) /\ Len(handles') = h /\ handles'[h] = H
        /\ \A i \in 1 .. Len(handles) : handles'[i] = C[i]
    <3>1. handles' = Append(C, H)
      BY <2>3, <2>4
    <3>2. /\ Append(C, H) \in Seq(HandleRecord) /\ Len(Append(C, H)) = Len(C) + 1
          /\ Append(C, H)[Len(C) + 1] = H
          /\ \A i \in 1 .. Len(C) : Append(C, H)[i] = C[i]
      BY <2>2, <2>5, AppendFacts
    <3>3. Len(C) + 1 = h /\ Len(C) = Len(handles)
      BY <1>2, <2>5
    <3> QED
      BY Zenon, <3>1, <3>2, <3>3
  <2> QED
    BY <2>2, <2>5, <2>6
<1>14. /\ entries' \in Seq(EntryRecord) /\ Len(entries') = Len(entries)
       /\ \A i \in 1 .. Len(entries) :
            /\ i # e => entries'[i] = entries[i]
            /\ i = e =>
                 /\ entries'[i].clients =
                      IF entries[i].clients = 0 THEN k ELSE entries[i].clients
                 /\ entries'[i].close = IF entries[i].close = 0 THEN h ELSE entries[i].close
  <2>1. CASE e = 0
    <3>1. entries' = entries
      BY <1>0, <1>3, <2>1 DEF Connected
    <3> QED
      BY <2>1, <3>1 DEF WInv, Shaped
  <2>2. CASE e # 0
    <3>1. entries' = Backfilled(e, k, h)
      BY <1>0, <1>1, <1>2, <1>3, <1>5, <2>2 DEF Connected
    <3>2. PICK w : w = [entries[e] EXCEPT
                          !.clients = IF entries[e].clients = 0 THEN k ELSE entries[e].clients]
      OBVIOUS
    <3>3. PICK z : z = [w EXCEPT !.close = IF w.close = 0 THEN h ELSE w.close]
      OBVIOUS
    <3>4. entries[e] \in EntryRecord /\ entries[e].clients \in Nat /\ entries[e].close \in Nat
      BY <1>7, <2>2, EntryFacts
    <3>5. /\ w \in EntryRecord /\ w.close = entries[e].close
          /\ w.clients = IF entries[e].clients = 0 THEN k ELSE entries[e].clients
      BY <1>7, <3>2, <3>4 DEF EntryRecord
    <3>6. /\ z \in EntryRecord /\ z.clients = w.clients
          /\ z.close = IF w.close = 0 THEN h ELSE w.close
      BY <1>7, <3>3, <3>4, <3>5 DEF EntryRecord
    <3>7. entries' = [[entries EXCEPT ![e] = w] EXCEPT
                        ![e] = [[entries EXCEPT ![e] = w][e] EXCEPT
                                  !.close = IF [entries EXCEPT ![e] = w][e].close = 0
                                            THEN h ELSE [entries EXCEPT ![e] = w][e].close]]
      BY <3>1, <3>2 DEF Backfilled
    <3>8. entries \in Seq(EntryRecord) /\ e \in 1 .. Len(entries)
      BY <1>7, <2>2 DEF WInv, Shaped
    <3>9. entries' = [[entries EXCEPT ![e] = w] EXCEPT ![e] = z]
      BY <3>3, <3>7, <3>8
    <3> QED
      BY <3>5, <3>6, <3>8, <3>9
  <2> QED
    BY <2>1, <2>2
<1>15. \A n \in Names \ {m} :
         /\ Full(n) => Full(n)'
         /\ cache[n] # 0 => /\ cache[n] \in 1 .. Len(entries)
                            /\ entries'[cache[n]] = entries[cache[n]]
  <2> SUFFICES ASSUME NEW n \in Names \ {m}, cache[n] # 0
               PROVE  /\ Full(n) => Full(n)'
                      /\ cache[n] \in 1 .. Len(entries)
                      /\ entries'[cache[n]] = entries[cache[n]]
    BY DEF Full
  <2>1. cache[n] \in 1 .. Len(entries) /\ cache[n] # e
    BY <1>3, CacheFacts DEF WInv, EntriesApart
  <2>2. entries'[cache[n]] = entries[cache[n]]
    BY <1>14, <2>1
  <2>3. ASSUME Full(n) PROVE Full(n)'
    <3>1. PICK i : i = entries[cache[n]].clients
      OBVIOUS
    <3>2. i \in 1 .. Len(handles) /\ handles[i].name = n /\ handles[i].link = "open"
      BY <2>3, <3>1, CacheFacts, EntryFacts DEF Full, WInv, ClosersNamed
    <3>3. i # prior
      BY <1>3, <1>4, <3>2 DEF WInv, ClosersNamed
    <3> QED
      BY <1>12, <1>13, <2>2, <2>3, <3>1, <3>2, <3>3 DEF Full
  <2> QED
    BY <2>1, <2>2, <2>3
<1>16. \A n \in Names : /\ Calm(n)' <=> Calm(n)
                        /\ \A c \in Builds : Inside(c, n)' <=> Inside(c, n)
  BY <1>1, <1>7, <1>9, <1>11, <1>12 DEF Calm, Inside, Building, Name
<1>17. Calm(m) => /\ x.primary /\ PrimaryOK(b, m)
                  /\ e # 0 /\ entries[e].clients = 0 /\ entries[e].close = 0 /\ prior = 0
                  /\ k = h /\ handles'[h].link = "open"
  <2> SUFFICES ASSUME Calm(m)
               PROVE  /\ x.primary /\ PrimaryOK(b, m)
                      /\ e # 0 /\ entries[e].clients = 0 /\ entries[e].close = 0 /\ prior = 0
                      /\ k = h /\ handles'[h].link = "open"
    OBVIOUS
  <2>1. Inside(b, m)
    BY <1>0, <1>1, <1>7 DEF Inside, Building
  <2>2. IF x.primary THEN PrimaryOK(b, m) ELSE SessionOK(b, m)
    BY <1>1, <2>1 DEF WInv, CalmNamesOK, CalmOK
  <2>3. x.primary /\ PrimaryOK(b, m)
    BY <1>1, <1>7, <2>2 DEF SessionOK
  <2>4. /\ e # 0 /\ entries[e].clients = 0 /\ entries[e].close = 0
        /\ x.injected = 0
    BY <1>1, <1>3, <1>7, <2>3 DEF PrimaryOK
  <2> QED
    BY <1>4, <1>5, <1>13, <2>3, <2>4
<1>18. Shaped'
  BY <1>8, <1>10, <1>12, <1>13, <1>14 DEF WInv, Shaped
<1>19. Referred'
  <2>1. \A i \in 1 .. Len(entries') : entries'[i].clients <= h /\ entries'[i].close <= h
    <3> SUFFICES ASSUME NEW i \in 1 .. Len(entries)
                 PROVE  entries'[i].clients <= h /\ entries'[i].close <= h
      BY <1>14
    <3>1. /\ entries[i].clients \in Nat /\ entries[i].close \in Nat
          /\ entries[i].clients <= Len(handles) /\ entries[i].close <= Len(handles)
      BY EntryFacts DEF WInv, Referred
    <3> QED
      BY <1>2, <1>7, <1>14, <3>1
  <2>2. ASSUME NEW c \in Builds
        PROVE  /\ build'[c].entry <= Len(entries) /\ build'[c].handle <= h
               /\ build'[c].injected <= h
               /\ build'[c].at \in {"wire", "prior"} => build'[c].entry # 0
               /\ build'[c].gen <= gen
               /\ build'[c].at = "idle" => build'[c].sub = 1
    <3>1. CASE c = b
      BY <1>1, <1>2, <1>4, <1>7, <1>9, <1>11, <3>1 DEF WInv, Referred
    <3>2. CASE c # b
      <4>1. build[c].handle \in 0 .. Len(handles) /\ build[c].injected \in 0 .. Len(handles)
        BY BuildFacts
      <4> QED
        BY <1>2, <1>7, <1>11, <3>2, <4>1 DEF WInv, Referred
    <3> QED
      BY <3>1, <3>2
  <2>3. \A n \in Names : cache[n] <= Len(entries)
    BY CacheFacts
  <2> QED
    BY <1>12, <1>13, <1>14, <2>1, <2>2, <2>3 DEF Referred
<1>20. EntriesApart'
  <2>1. ASSUME NEW c \in Builds, NEW n \in Names, build'[c].at = "prior",
               cache[n] = build'[c].entry
        PROVE  n = Name(c)'
    <3>1. CASE c = b
      <4>1. e # 0 /\ cache[n] = e
        BY <1>4, <1>9, <1>11, <2>1, <3>1
      <4>2. n = m
        BY <1>3, <4>1 DEF WInv, EntriesApart
      <4> QED
        BY <1>0, <1>1, <1>9, <1>11, <3>1, <4>2 DEF Name
    <3>2. CASE c # b
      BY <1>11, <2>1, <3>2 DEF WInv, EntriesApart, Name
    <3> QED
      BY <3>1, <3>2
  <2> QED
    BY <1>12, <2>1 DEF WInv, EntriesApart
<1>21. ClosersNamed'
  <2>1. ASSUME NEW n \in Names, cache[n] # 0, entries'[cache[n]].close # 0
        PROVE  handles'[entries'[cache[n]].close].name = n
    <3>1. CASE n = m
      <4>1. e # 0 /\ entries[e].close \in 0 .. Len(handles) /\ e \in 1 .. Len(entries)
        BY <1>3, <2>1, <3>1, CacheFacts
      <4>2. CASE entries[e].close = 0
        BY <1>3, <1>13, <1>14, <3>1, <4>1, <4>2
      <4>3. CASE entries[e].close # 0
        <5>1. entries'[e].close = entries[e].close /\ entries[e].close \in 1 .. Len(handles)
          BY <1>14, <4>1, <4>3
        <5>2. handles[entries[e].close].name = m
          BY <1>3, <4>1, <4>3 DEF WInv, ClosersNamed
        <5> QED
          BY <1>3, <1>13, <3>1, <5>1, <5>2
      <4> QED
        BY <4>2, <4>3
    <3>2. CASE n # m
      <4>1. /\ entries'[cache[n]] = entries[cache[n]]
            /\ entries[cache[n]].close \in 1 .. Len(handles)
        BY <1>15, <2>1, <3>2, CacheFacts
      <4> QED
        BY <1>13, <2>1, <4>1 DEF WInv, ClosersNamed
    <3> QED
      BY <3>1, <3>2
  <2>2. ASSUME NEW c \in Builds, build'[c].at = "prior"
        PROVE  build'[c].handle # 0 /\ handles'[build'[c].handle].name = Name(c)'
    <3>1. CASE c = b
      BY <1>0, <1>1, <1>7, <1>9, <1>11, <1>13, <3>1 DEF Name
    <3>2. CASE c # b
      <4>1. build[c].at = "prior" /\ build[c].handle \in 0 .. Len(handles)
        BY <1>11, <2>2, <3>2, BuildFacts
      <4>2. build[c].handle \in 1 .. Len(handles) /\ handles[build[c].handle].name = Name(c)
        BY <4>1 DEF WInv, ClosersNamed
      <4> QED
        BY <1>11, <1>13, <3>2, <4>2 DEF Name
    <3> QED
      BY <3>1, <3>2
  <2> QED
    BY <1>12, <2>1, <2>2 DEF ClosersNamed
<1>22. CalmNamesOK'
  <2> SUFFICES ASSUME NEW n \in Names, Calm(n)' PROVE CalmOK(n)'
    BY DEF CalmNamesOK
  <2>0. Calm(n) /\ CalmOK(n)
    BY <1>16 DEF WInv, CalmNamesOK
  <2>1. CASE n = m
    <3>0. /\ x.primary /\ PrimaryOK(b, n)
          /\ e # 0 /\ entries[e].clients = 0 /\ entries[e].close = 0 /\ prior = 0
          /\ k = h /\ handles'[h].link = "open"
      BY <1>17, <2>0, <2>1
    <3>1. Full(n)'
      BY <1>3, <1>7, <1>12, <1>13, <1>14, <2>1, <3>0 DEF Full
    <3>2. \A c \in Builds : Inside(c, n)' => c = b
      BY <1>16, <3>0 DEF PrimaryOK
    <3>3. PrimaryOK(b, n)'
      BY <1>9, <1>11, <3>0, <3>1, <3>2 DEF PrimaryOK
    <3> QED
      BY <1>9, <1>11, <3>0, <3>1, <3>2, <3>3 DEF CalmOK
  <2>2. CASE n # m
    <3>1. ASSUME NEW c \in Builds, Inside(c, n)'
          PROVE  IF build'[c].primary THEN PrimaryOK(c, n)' ELSE SessionOK(c, n)'
      <4>1. Inside(c, n) /\ c # b /\ build'[c] = build[c]
        BY <1>0, <1>11, <1>16, <2>2, <3>1 DEF Inside
      <4>2. IF build[c].primary THEN PrimaryOK(c, n) ELSE SessionOK(c, n)
        BY <2>0, <4>1 DEF CalmOK
      <4>3. CASE build[c].primary
        BY <1>12, <1>15, <1>16, <2>2, <4>1, <4>2, <4>3 DEF PrimaryOK
      <4>4. CASE ~build[c].primary
        BY <1>12, <1>15, <2>2, <4>1, <4>2, <4>4 DEF SessionOK, Full
      <4> QED
        BY <4>1, <4>3, <4>4
    <3>2. cache'[n] = 0 \/ Full(n)' \/ \E c \in Builds : Inside(c, n)' /\ build'[c].primary
      BY <1>1, <1>9, <1>11, <1>12, <1>15, <1>16, <2>0, <2>2 DEF CalmOK
    <3> QED
      BY <3>1, <3>2 DEF CalmOK
  <2> QED
    BY <2>1, <2>2
<1>23. WiredAsCached'
  <2> SUFFICES ASSUME NEW c \in Builds, NEW n \in Names, Wired(c, n)', Calm(n)'
               PROVE  Full(n)' /\ build'[c].wired[n] = entries'[cache'[n]].clients
    BY DEF WiredAsCached
  <2>1. Wired(c, n) /\ build'[c].wired = build[c].wired /\ Calm(n)
    <3>1. CASE c = b
      BY <1>1, <1>7, <1>9, <1>11, <1>12, <1>16, <3>1 DEF Wired
    <3>2. CASE c # b
      BY <1>11, <1>12, <1>16, <3>2 DEF Wired
    <3> QED
      BY <3>1, <3>2
  <2>2. Full(n) /\ build[c].wired[n] = entries[cache[n]].clients
    BY <2>1 DEF WInv, WiredAsCached
  <2>3. n # m
    BY <1>3, <1>17, <2>1, <2>2 DEF Full
  <2> QED
    BY <1>12, <1>15, <2>1, <2>2, <2>3 DEF Full
<1>24. OpenIsCached'
  <2> SUFFICES ASSUME NEW i \in 1 .. h
               PROVE  /\ handles'[i].era <= drains
                      /\ handles'[i].link = "open"
                           /\ <<handles'[i].name, handles'[i].era>> \notin disturbed =>
                         /\ handles'[i].era = drains
                         /\ cache[handles'[i].name] # 0
                         /\ entries'[cache[handles'[i].name]].close = i
    BY <1>12, <1>13 DEF OpenIsCached
  <2>1. CASE i = h
    <3>1. handles'[i].era = drains /\ handles'[i].name = m /\ drains <= drains
      BY <1>13, <2>1 DEF WInv, Shaped
    <3>2. ASSUME <<m, drains>> \notin disturbed
          PROVE  cache[m] # 0 /\ entries'[cache[m]].close = h
      <4>1. e # 0 /\ entries[e].close = 0 /\ e \in 1 .. Len(entries)
        BY <1>7, <1>17, <3>2 DEF Calm
      <4> QED
        BY <1>3, <1>14, <4>1
    <3> QED
      BY <2>1, <3>1, <3>2
  <2>2. CASE i # h
    <3>1. /\ i \in 1 .. Len(handles)
          /\ handles'[i].name = handles[i].name /\ handles'[i].era = handles[i].era
          /\ handles'[i].link = "open" => handles[i].link = "open"
      BY <1>2, <1>7, <1>13, <2>2
    <3>2. handles[i].era <= drains
      BY <3>1 DEF WInv, OpenIsCached
    <3>3. ASSUME handles[i].link = "open", <<handles[i].name, handles[i].era>> \notin disturbed
          PROVE  /\ handles[i].era = drains /\ cache[handles[i].name] # 0
                 /\ entries'[cache[handles[i].name]].close = i
      <4>1. /\ handles[i].era = drains /\ cache[handles[i].name] # 0
            /\ entries[cache[handles[i].name]].close = i
        BY <3>1, <3>3 DEF WInv, OpenIsCached
      <4>2. handles[i].name \in Names /\ handles[i].name # m
        <5>1. handles[i].name \in Names /\ i # 0
          BY <3>1, EntryFacts
        <5>2. Calm(m) => entries[cache[m]].close = 0
          BY <1>3, <1>17
        <5> QED
          BY <3>3, <4>1, <5>1, <5>2 DEF Calm
      <4> QED
        BY <1>15, <4>1, <4>2
    <3> QED
      BY <3>1, <3>2, <3>3
  <2> QED
    BY <2>1, <2>2
<1> QED
  BY <1>18, <1>19, <1>20, <1>21, <1>22, <1>23, <1>24 DEF WInv

-----------------------------------------------------------------------------
(* Reloads and shutdown.                                                   *)

\* The cache is emptied and what it would close is closed.  What follows the
\* drain in the same turn sees to it that no graph of before is served as one of
\* after: its sessions are invalidated, or will be, or the server is closed.
LEMMA DrainKeeps ==
  ASSUME WInv, Drain,
         gen' \in Nat, gen <= gen', put' \in BOOLEAN,
         server' \in {"up", "closing", "closed"},
         gen < gen' \/ put' \/ server' = "closed"
  PROVE  WInv'
<1> DEFINE S == {entries[cache[n]].close : n \in {m \in Names : cache[m] # 0}}
<1>1. /\ handles' = Closing(S)
      /\ cache' = [n \in Names |-> 0]
      /\ drains' = drains + 1
      /\ UNCHANGED <<entries, build>>
  BY DEF Drain, Emptied
<1>2. /\ disturbed \subseteq disturbed'
      /\ \A n \in Names, b \in Builds : Inside(b, n) => <<n, drains + 1>> \in disturbed'
  BY DEF Drain
<1>3. drains \in Nat /\ gen \in Nat /\ Len(handles) \in Nat
  BY EntryFacts DEF WInv, Shaped
<1>4. /\ handles' \in Seq(HandleRecord) /\ Len(handles') = Len(handles)
      /\ \A h \in 1 .. Len(handles) :
           /\ handles'[h].name = handles[h].name /\ handles'[h].era = handles[h].era
           /\ handles'[h].link = IF h \in S /\ handles[h].link = "open"
                                 THEN "closed" ELSE handles[h].link
  <2> HIDE DEF S
  <2> QED
    BY <1>1, ClosingFacts
<1>5. \A n \in Names : cache'[n] = 0
  BY <1>1
<1>6. Shaped'
  BY <1>1, <1>3, <1>4 DEF WInv, Shaped
<1>7. Referred'
  <2>1. \A n \in Names : cache'[n] <= Len(entries)
    BY <1>5, EntryFacts
  <2>2. ASSUME NEW b \in Builds PROVE build[b].gen <= gen'
    BY <1>3, <2>2, BuildFacts DEF WInv, Referred
  <2> QED
    BY <1>1, <1>4, <2>1, <2>2 DEF WInv, Referred
<1>8. EntriesApart'
  BY <1>1, <1>5 DEF WInv, Referred, EntriesApart
<1>9. ClosersNamed'
  <2>1. ASSUME NEW b \in Builds, build[b].at = "prior"
        PROVE  build[b].handle # 0 /\ handles'[build[b].handle].name = Name(b)
    <3>1. build[b].handle \in 1 .. Len(handles) /\ handles[build[b].handle].name = Name(b)
      BY <2>1, BuildFacts DEF WInv, ClosersNamed
    <3> QED
      BY <1>4, <3>1
  <2> QED
    BY <1>1, <1>5, <2>1 DEF ClosersNamed, Name
<1>10. CalmNamesOK'
  <2> SUFFICES ASSUME NEW n \in Names, Calm(n)' PROVE CalmOK(n)'
    BY DEF CalmNamesOK
  <2>1. \A b \in Builds : ~Inside(b, n)
    BY <1>1, <1>2 DEF Calm
  <2>2. \A b \in Builds : ~Inside(b, n)'
    BY <1>1, <2>1 DEF Inside, Building, Name
  <2> QED
    BY <1>5, <2>2 DEF CalmOK
<1>11. WiredAsCached'
  <2>1. ASSUME NEW b \in Builds, NEW n \in Names PROVE ~Wired(b, n)'
    BY <1>1, <1>3, BuildFacts DEF Wired, WInv, Referred
  <2> QED
    BY <2>1 DEF WiredAsCached
<1>12. OpenIsCached'
  <2> SUFFICES ASSUME NEW h \in 1 .. Len(handles)
               PROVE  /\ handles'[h].era <= drains + 1
                      /\ handles'[h].link = "open" =>
                           <<handles'[h].name, handles'[h].era>> \in disturbed'
    BY <1>1, <1>4 DEF OpenIsCached
  <2>1. handles[h].era <= drains /\ handles[h].era \in Nat /\ handles[h].name \in Names
    BY EntryFacts DEF WInv, OpenIsCached
  <2>2. ASSUME handles'[h].link = "open", <<handles[h].name, handles[h].era>> \notin disturbed
        PROVE  FALSE
    <3>1. handles[h].link = "open" /\ h \notin S
      BY <1>4, <2>2
    <3>2. cache[handles[h].name] # 0 /\ entries[cache[handles[h].name]].close = h
      BY <2>2, <3>1 DEF WInv, OpenIsCached
    <3> QED
      BY <2>1, <3>1, <3>2
  <2> QED
    BY <1>2, <1>3, <1>4, <2>1, <2>2
<1> QED
  BY <1>6, <1>7, <1>8, <1>9, <1>10, <1>11, <1>12 DEF WInv

LEMMA ReloadsKeep ==
  ASSUME WInv, HotReload \/ PutDrain \/ CloseDrain
  PROVE  WInv'
<1>1. /\ gen \in Nat /\ put \in BOOLEAN /\ server \in {"up", "closing", "closed"}
  BY DEF WInv, Shaped
<1>2. CASE HotReload
  <2>1. Drain /\ gen' = gen + 1 /\ put' = put /\ server' = server
    BY <1>2 DEF HotReload
  <2> QED
    BY <1>1, <2>1, DrainKeeps
<1>3. CASE PutDrain
  <2>1. Drain /\ gen' = gen /\ put' = TRUE /\ server' = server
    BY <1>3 DEF PutDrain
  <2> QED
    BY <1>1, <2>1, DrainKeeps
<1>4. CASE CloseDrain
  <2>1. Drain /\ gen' = gen /\ put' = put /\ server' = "closed"
    BY <1>4 DEF CloseDrain
  <2> QED
    BY <1>1, <2>1, DrainKeeps
<1> QED
  BY <1>2, <1>3, <1>4

\* The invalidation, the beginning of the shutdown and stuttering touch no entry:
\* a graph is served as one of now only if it was before.
LEMMA QuietKeeps ==
  ASSUME WInv, UNCHANGED <<cache, entries, handles, build, drains, disturbed>>,
         gen' \in Nat, put' \in BOOLEAN, server' \in {"up", "closing", "closed"},
         \/ gen < gen'
         \/ gen' = gen /\ put' = put /\ (server' = server \/ server # "closed")
  PROVE  WInv'
<1>1. gen \in Nat /\ gen <= gen'
  BY DEF WInv, Shaped
<1>2. \A b \in Builds : build[b].gen \in Nat /\ build[b].gen <= gen
  BY BuildFacts DEF WInv, Referred
<1>3. Shaped'
  BY DEF WInv, Shaped
<1>4. Referred'
  BY <1>1, <1>2 DEF WInv, Referred
<1>5. EntriesApart' /\ ClosersNamed'
  BY DEF WInv, EntriesApart, ClosersNamed, Name
<1>6. CalmNamesOK'
  BY DEF WInv, CalmNamesOK, Calm, CalmOK, Full, Inside, Building, Name, PrimaryOK, SessionOK
<1>7. WiredAsCached'
  <2>1. \A b \in Builds, n \in Names : Wired(b, n)' => Wired(b, n)
    BY <1>1, <1>2 DEF Wired
  <2> QED
    BY <2>1 DEF WInv, WiredAsCached, Calm, Full
<1>8. OpenIsCached'
  BY DEF WInv, OpenIsCached
<1> QED
  BY <1>3, <1>4, <1>5, <1>6, <1>7, <1>8 DEF WInv

-----------------------------------------------------------------------------
(* The theorems.                                                           *)

LEMMA InitEstablishes == Init => WInv
<1> SUFFICES ASSUME Init PROVE WInv
  OBVIOUS
<1>1. Len(Subs) \in Nat /\ Len(Subs) > 0
  BY ConstFacts
<1>2. \A n \in Names : cache[n] \in 1 .. Len(Subs) /\ Subs[cache[n]] = n
  BY DEF Init, Names
<1>3. /\ entries \in Seq(EntryRecord) /\ Len(entries) = Len(Subs)
      /\ \A i \in 1 .. Len(Subs) : entries[i].clients = i /\ entries[i].close = i
  BY <1>1 DEF Init, EntryRecord
<1>4. \A i \in 1 .. Len(Subs) : Subs[i] \in Names
  BY DEF Names
<1>5. /\ handles \in Seq(HandleRecord) /\ Len(handles) = Len(Subs)
      /\ \A i \in 1 .. Len(Subs) :
           handles[i].name = Subs[i] /\ handles[i].link = "open" /\ handles[i].era = 0
  BY <1>1, <1>4 DEF Init, HandleRecord
<1>6. /\ build \in [Builds -> BuildRecord]
      /\ \A b \in Builds : build[b] = Unbegun
  BY UnbegunTyped DEF Init
<1>7. /\ Unbegun.at = "idle" /\ Unbegun.sub = 1 /\ Unbegun.entry = 0 /\ Unbegun.handle = 0
      /\ Unbegun.injected = 0 /\ Unbegun.gen = 0
  BY DEF Unbegun
<1>8. cache \in [Names -> Nat]
  BY <1>1, <1>2 DEF Init
<1>9. drains = 0 /\ gen = 0 /\ put = FALSE /\ server = "up" /\ disturbed = {}
  BY DEF Init
<1>10. Shaped
  BY <1>3, <1>5, <1>6, <1>8, <1>9 DEF Shaped
<1>11. Referred
  BY <1>1, <1>2, <1>3, <1>5, <1>6, <1>7, <1>9 DEF Referred
<1>12. EntriesApart
  BY <1>2, <1>6, <1>7 DEF EntriesApart
<1>13. ClosersNamed
  BY <1>2, <1>3, <1>5, <1>6, <1>7 DEF ClosersNamed
<1>14. \A n \in Names : Full(n)
  BY <1>1, <1>2, <1>3, <1>5 DEF Full
<1>15. \A b \in Builds, n \in Names : ~Inside(b, n) /\ ~Wired(b, n)
  BY <1>1, <1>6, <1>7 DEF Inside, Building, Wired
<1>16. CalmNamesOK /\ WiredAsCached
  BY <1>14, <1>15 DEF CalmNamesOK, CalmOK, WiredAsCached
<1>17. OpenIsCached
  <2> SUFFICES ASSUME NEW h \in 1 .. Len(Subs)
               PROVE  /\ handles[h].era <= drains /\ handles[h].era = drains
                      /\ cache[handles[h].name] # 0
                      /\ entries[cache[handles[h].name]].close = h
    BY <1>5 DEF OpenIsCached
  <2>1. cache[Subs[h]] \in 1 .. Len(Subs) /\ Subs[cache[Subs[h]]] = Subs[h]
    BY <1>2, <1>4
  <2>2. cache[Subs[h]] = h
    BY <2>1, WorkersAssumption
  <2> QED
    BY <1>1, <1>3, <1>5, <1>9, <2>1, <2>2
<1> QED
  BY <1>10, <1>11, <1>12, <1>13, <1>16, <1>17 DEF WInv

LEMMA StepKeeps == WInv /\ [Next]_vars => WInv'
<1> SUFFICES ASSUME WInv, [Next]_vars PROVE WInv'
  OBVIOUS
<1>0. /\ gen \in Nat /\ put \in BOOLEAN /\ server \in {"up", "closing", "closed"}
  BY DEF WInv, Shaped
<1>1. ASSUME NEW b \in Builds, Begin(b) \/ BuildStep(b) \/ BuildThrows(b)
      PROVE  WInv'
  BY <1>1, BeginKeeps, LookKeeps, ResolveKeeps, MakeEntryKeeps, WireSessionKeeps,
     WirePrimaryKeeps, ConnectedKeeps, PriorClosedKeeps, RereadKeeps, BuildThrowsKeeps
     DEF BuildStep
<1>2. CASE HotReload \/ PutDrain \/ CloseDrain
  BY <1>2, ReloadsKeep
<1>3. CASE PutInvalidate
  <2>1. UNCHANGED <<cache, entries, handles, build, drains, disturbed>>
    BY <1>3 DEF PutInvalidate
  <2>2. gen' = gen + 1 /\ put' \in BOOLEAN /\ server' = server
    BY <1>3 DEF PutInvalidate
  <2>3. gen' \in Nat /\ gen < gen'
    BY <1>0, <2>2
  <2> QED
    BY <1>0, <2>1, <2>2, <2>3, QuietKeeps
<1>4. CASE CloseBegin
  <2>1. /\ UNCHANGED <<cache, entries, handles, build, drains, gen, put, disturbed>>
        /\ server = "up" /\ server' = "closing"
    BY <1>4 DEF CloseBegin
  <2> QED
    BY <1>0, <2>1, QuietKeeps
<1>5. CASE UNCHANGED vars
  <2>1. UNCHANGED <<cache, entries, handles, build, drains, gen, put, server, disturbed>>
    BY <1>5 DEF vars, serverVars
  <2> QED
    BY <1>0, <2>1, QuietKeeps
<1> QED
  BY <1>1, <1>2, <1>3, <1>4, <1>5 DEF Next

\* WInv holds in every state the server reaches, whatever its workers, and however
\* many builds, reloads and shutdown meet.
THEOREM WorkersInvariant == Spec => []WInv
  BY InitEstablishes, StepKeeps, PTL DEF Spec

\* References between cache entries and handles are never dangling: what a cached
\* WorkerLlmSet names as its clients and its close function was made by some build.
THEOREM WorkersTypeCorrect == Spec => []WorkersTypeOK
<1>1. WInv => WorkersTypeOK
  <2> SUFFICES ASSUME WInv PROVE WorkersTypeOK
    OBVIOUS
  <2>1. cache \in [Names -> 0 .. Len(entries)]
    <3>1. \A n \in Names : cache[n] \in 0 .. Len(entries)
      BY CacheFacts, EntryFacts
    <3> QED
      BY <3>1 DEF WInv, Shaped
  <2>2. ASSUME NEW e \in 1 .. Len(entries)
        PROVE  entries[e] \in [clients : 0 .. Len(handles), close : 0 .. Len(handles)]
    <3>1. PICK x : x = entries[e]
      OBVIOUS
    <3>2. /\ x \in EntryRecord
          /\ x.clients \in 0 .. Len(handles) /\ x.close \in 0 .. Len(handles)
      BY <3>1, EntryFacts DEF WInv, Referred
    <3>3. x \in [clients : 0 .. Len(handles), close : 0 .. Len(handles)]
      BY <3>2 DEF EntryRecord
    <3> QED
      BY <3>1, <3>3
  <2>3. \A h \in 1 .. Len(handles) : handles[h].link \in {"open", "closed", "borrowed"}
    BY EntryFacts DEF HandleRecord
  <2> QED
    BY <2>1, <2>2, <2>3 DEF WorkersTypeOK
<1> QED
  BY <1>1, WorkersInvariant, PTL

\* In a served graph, each worker that no overlap of builds and no failed primary
\* build has disturbed since the last drain has open MCP clients of its own
\* (buildSubAgent and resolveWorkerLlmSet against drainWorkerCache).
THEOREM ServedWorkersConnected == Spec => []OnlyOverlapsHurt
<1>1. WInv => OnlyOverlapsHurt
  <2> SUFFICES ASSUME WInv, NEW b \in Builds, NEW n \in Names,
                      Live(b), ~put, <<n, drains>> \notin disturbed
               PROVE  /\ build[b].wired[n] # 0
                      /\ handles[build[b].wired[n]].link = "open"
    BY DEF OnlyOverlapsHurt
  <2>1. Wired(b, n) /\ Calm(n)
    BY DEF Live, Wired, Calm
  <2>2. Full(n) /\ build[b].wired[n] = entries[cache[n]].clients
    BY <2>1 DEF WInv, WiredAsCached
  <2> QED
    BY <2>2 DEF Full
<1> QED
  BY <1>1, WorkersInvariant, PTL

\* A connection no drain will close was made where builds of its worker met, where
\* a primary build failed, or by a superseded build after the shutdown's drain
\* (backfillWorkerCacheFromHandle against drainWorkerCache and close).
THEOREM LeaksNeedOverlaps == Spec => []OnlyOverlapsLeak
<1>1. WInv => OnlyOverlapsLeak
  <2> SUFFICES ASSUME WInv, NEW h \in 1 .. Len(handles), handles[h].link = "open",
                      server = "closed" \/ ~Closable(h),
                      <<handles[h].name, handles[h].era>> \notin disturbed
               PROVE  server = "closed" /\ handles[h].era = drains
    BY DEF OnlyOverlapsLeak
  <2>1. /\ handles[h].era = drains
        /\ cache[handles[h].name] # 0 /\ entries[cache[handles[h].name]].close = h
    BY DEF WInv, OpenIsCached
  <2>2. handles[h].name \in Names
    BY EntryFacts
  <2>3. Closable(h)
    BY <2>1, <2>2 DEF Closable
  <2> QED
    BY <2>1, <2>3
<1> QED
  BY <1>1, WorkersInvariant, PTL
=============================================================================
