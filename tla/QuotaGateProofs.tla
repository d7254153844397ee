---------------------------- MODULE QuotaGateProofs ----------------------------
(***************************************************************************)
(* QuotaGate for every set of keys and calls, every limit and every        *)
(* strategy: its leases, the bound of its registry, and that it implements *)
(* Quota.                                                                  *)
(***************************************************************************)
EXTENDS QuotaGate, FiniteSetTheorems, TLAPS

-----------------------------------------------------------------------------
(* The inductive invariant.                                                *)

\* The calls that hold gate g.
Holders(g) == {c \in Calls : Under(c) /\ call[c].gate = g}

\* A call under way names its key and its gate.
Attached ==
  \A c \in Calls : Under(c) => call[c].key \in Keys /\ call[c].gate \in Gates

QInv == QuotaTypeOK /\ Attached /\ LeasedIsRegistered /\ LeasesExact

-----------------------------------------------------------------------------
(* Counting leases.                                                        *)

\* A gate that a call holds is leased.
LEMMA HeldIsLeased ==
  ASSUME QInv, NEW c \in Calls, Under(c)
  PROVE  entry[call[c].gate].leases \in Nat \ {0}
<1>1. call[c].gate \in Gates /\ c \in Holders(call[c].gate)
  BY DEF QInv, Attached, Holders
<1>2. IsFiniteSet(Holders(call[c].gate))
  BY QuotaAssumption, FS_Subset DEF QuotaAssumption, Holders
<1>3. entry[call[c].gate].leases = Cardinality(Holders(call[c].gate))
  BY <1>1 DEF QInv, LeasesExact, Holders
<1> QED
  BY <1>1, <1>2, <1>3, FS_EmptySet, FS_CardinalityType

\* A gate without a lease is held by nobody.
LEMMA UnleasedIsFree ==
  ASSUME QInv, NEW g \in Gates, entry[g].leases = 0, NEW c \in Calls, Under(c)
  PROVE  call[c].gate # g
  BY HeldIsLeased

\* Nobody's standing changes, nor any lease.
LEMMA StayCounts ==
  ASSUME LeasesExact,
         \A d \in Calls : Under(d)' = Under(d) /\ call'[d].gate = call[d].gate,
         \A h \in Gates : entry'[h].leases = entry[h].leases
  PROVE  LeasesExact'
<1>1. \A h \in Gates : {c \in Calls : Under(c) /\ call[c].gate = h}'
                         = {c \in Calls : Under(c) /\ call[c].gate = h}
  OBVIOUS
<1> QED
  BY <1>1 DEF LeasesExact

\* A call takes a lease of g.
LEMMA JoinCounts ==
  ASSUME LeasesExact, NEW c \in Calls, NEW g \in Gates,
         ~Under(c), Under(c)', call'[c].gate = g,
         \A d \in Calls \ {c} : Under(d)' = Under(d) /\ call'[d].gate = call[d].gate,
         \A h \in Gates \ {g} : entry'[h].leases = entry[h].leases,
         entry'[g].leases = entry[g].leases + 1
  PROVE  LeasesExact'
<1>1. /\ Holders(g)' = Holders(g) \cup {c} /\ c \notin Holders(g)
      /\ \A h \in Gates \ {g} : Holders(h)' = Holders(h)
  BY DEF Holders
<1>2. IsFiniteSet(Holders(g))
  BY QuotaAssumption, FS_Subset DEF QuotaAssumption, Holders
<1>3. Cardinality(Holders(g)') = Cardinality(Holders(g)) + 1
  <2>1. Cardinality(Holders(g) \cup {c}) = Cardinality(Holders(g)) + 1
    BY <1>1, <1>2, FS_AddElement
  <2> QED
    BY <1>1, <2>1
<1>4. \A h \in Gates : entry[h].leases = Cardinality(Holders(h))
  BY DEF LeasesExact, Holders
<1>5. \A h \in Gates : entry'[h].leases = Cardinality(Holders(h)')
  BY <1>1, <1>3, <1>4
<1> QED
  BY <1>5 DEF LeasesExact, Holders

\* A call returns its lease of g.
LEMMA LeaveCounts ==
  ASSUME LeasesExact, NEW c \in Calls, NEW g \in Gates,
         Under(c), ~Under(c)', call[c].gate = g,
         \A d \in Calls \ {c} : Under(d)' = Under(d) /\ call'[d].gate = call[d].gate,
         \A h \in Gates \ {g} : entry'[h].leases = entry[h].leases,
         entry'[g].leases = entry[g].leases - 1
  PROVE  LeasesExact'
<1>1. /\ Holders(g)' = Holders(g) \ {c} /\ c \in Holders(g)
      /\ \A h \in Gates \ {g} : Holders(h)' = Holders(h)
  BY DEF Holders
<1>2. IsFiniteSet(Holders(g))
  BY QuotaAssumption, FS_Subset DEF QuotaAssumption, Holders
<1>3. Cardinality(Holders(g)') = Cardinality(Holders(g)) - 1
  <2>1. Cardinality(Holders(g) \ {c}) = Cardinality(Holders(g)) - 1
    BY <1>1, <1>2, FS_RemoveElement
  <2> QED
    BY <1>1, <2>1
<1>4. \A h \in Gates : entry[h].leases = Cardinality(Holders(h))
  BY DEF LeasesExact, Holders
<1>5. \A h \in Gates : entry'[h].leases = Cardinality(Holders(h)')
  BY <1>1, <1>3, <1>4
<1> QED
  BY <1>5 DEF LeasesExact, Holders

-----------------------------------------------------------------------------
(* Types.                                                                  *)

\* What a strategy decides names a delay.
LEMMA DecideTyped ==
  ASSUME NEW s \in {"report", "wait", "own"}, NEW n \in Nat, NEW ms \in Nat,
         NEW d \in Decide(s, n, ms)
  PROVE  d.wait \in Nat
<1>1. CASE s = "report"
  <2>1. d \in Report(ms)
    BY <1>1 DEF Decide
  <2> QED
    BY <2>1 DEF Report
<1>2. CASE s = "wait"
  <2>1. d \in WaitAsTold(n, ms)
    BY <1>2 DEF Decide
  <2> QED
    BY <2>1 DEF WaitAsTold
<1>3. CASE s = "own"
  <2>1. d \in Own
    BY <1>3 DEF Decide
  <2> QED
    BY <2>1, QuotaAssumption DEF Own, QuotaAssumption
<1> QED
  BY <1>1, <1>2, <1>3

\* A reclaim forgets only gates that nobody holds and that hold nothing.
LEMMA ReclaimedEvictable ==
  ASSUME NEW D \in Reclaimed, NEW k \in D
  PROVE  k \in Tracked /\ Evictable(gates[k])
<1> DEFINE rest == {x \in Tracked \ StaleKeys : Evictable(gates[x])}
<1>1. \A x \in StaleKeys : x \in Tracked /\ Evictable(gates[x])
  BY DEF StaleKeys, Stale
<1>2. D \subseteq StaleKeys \cup rest
  BY DEF Reclaimed
<1> QED
  BY <1>1, <1>2

LEMMA LeaseTyped ==
  ASSUME NEW e \in EntryRecord
  PROVE  /\ Lease(e) \in EntryRecord
         /\ Lease(e).leases = e.leases + 1
<1>1. e.leases + 1 \in Nat /\ 0 \in Nat
  BY DEF EntryRecord
<1>2. Lease(e) \in EntryRecord
  BY <1>1, Zenon DEF EntryRecord, Lease
<1> QED
  BY <1>2 DEF EntryRecord, Lease

LEMMA ReleaseTyped ==
  ASSUME NEW e \in EntryRecord, e.leases # 0
  PROVE  /\ Release(e) \in EntryRecord
         /\ Release(e).leases = e.leases - 1
<1>1. Returned(e.leases) \in Nat /\ 0 \in Nat
  BY DEF EntryRecord, Returned
<1>2. Release(e) \in EntryRecord
  BY <1>1, Zenon DEF EntryRecord, Release
<1> QED
  BY <1>2 DEF EntryRecord, Release, Returned

LEMMA NewEntryTyped == NewEntry \in EntryRecord /\ NewEntry.leases = 0
  BY DEF NewEntry, EntryRecord

LEMMA NoCallTyped == NoCall \in CallRecord /\ NoCall.at = "out"
  BY DEF NoCall, CallRecord

-----------------------------------------------------------------------------
(* Each action keeps the invariant.                                        *)

LEMMA InitInv == Init => QInv
<1> SUFFICES ASSUME Init PROVE QInv
  OBVIOUS
<1>1. QuotaTypeOK
  BY NewEntryTyped, NoCallTyped DEF Init, QuotaTypeOK
<1>2. \A c \in Calls : ~Under(c)
  BY NoCallTyped DEF Init, Under
<1>3. \A g \in Gates : {c \in Calls : Under(c) /\ call[c].gate = g} = {}
  BY <1>2
<1>4. LeasesExact
  BY <1>3, NewEntryTyped, FS_EmptySet DEF Init, LeasesExact
<1> QED
  BY <1>1, <1>2, <1>4 DEF QInv, Attached, LeasedIsRegistered

\* A call begins on the gate its key has.
LEMMA BeginKeeps ==
  ASSUME QInv, NEW c \in Calls, NEW k \in Keys, NEW g \in Gates,
         NEW s \in Strategies, NEW p \in {"sending", "sleeping"},
         ~Under(c), Begin(c, k, g, s, p),
         gates' \in [Keys -> Gates \cup {None}],
         \A x \in Keys : gates[x] # None /\ ~Evictable(gates[x])
                           => gates'[x] = gates[x],
         gates'[k] = g,
         entry' \in [Gates -> EntryRecord],
         entry'[g].leases = entry[g].leases + 1,
         \A h \in Gates \ {g} : entry'[h].leases = entry[h].leases
  PROVE  QInv'
<1> DEFINE new == [NoCall EXCEPT !.at = p, !.key = k, !.gate = g, !.strategy = s,
                                 !.timer = IF p = "sleeping" THEN entry[g].left
                                                             ELSE 0]
<1>1. entry[g].left \in Nat
  BY DEF QInv, QuotaTypeOK, EntryRecord
<1>2. new \in CallRecord /\ new.at = p /\ new.key = k /\ new.gate = g
  BY <1>1, QuotaAssumption DEF NoCall, CallRecord, QuotaAssumption
<1>3. call' = [call EXCEPT ![c] = new]
  BY DEF Begin
<1> HIDE DEF new
<1>4. /\ call' \in [Calls -> CallRecord] /\ call'[c] = new
      /\ \A d \in Calls \ {c} : call'[d] = call[d]
  BY <1>2, <1>3 DEF QInv, QuotaTypeOK
<1>5. QuotaTypeOK'
  BY <1>4 DEF QuotaTypeOK
<1>6. Under(c)' /\ \A d \in Calls \ {c} : Under(d)' = Under(d)
  BY <1>2, <1>4 DEF Under
<1>7. Attached'
  BY <1>2, <1>4, <1>6 DEF QInv, Attached
<1>8. LeasedIsRegistered'
  <2> SUFFICES ASSUME NEW d \in Calls, Under(d)'
               PROVE  gates'[call'[d].key] = call'[d].gate
    BY DEF LeasedIsRegistered
  <2>1. CASE d = c
    BY <1>2, <1>4, <2>1
  <2>2. CASE d # c
    <3>1. /\ Under(d) /\ call[d].key \in Keys /\ call[d].gate \in Gates
          /\ gates[call[d].key] = call[d].gate
      BY <1>6, <2>2 DEF QInv, Attached, LeasedIsRegistered
    <3>2. entry[call[d].gate].leases # 0
      BY <3>1, HeldIsLeased
    <3>3. ~Evictable(gates[call[d].key]) /\ gates[call[d].key] # None
      BY <3>1, <3>2, QuotaAssumption DEF Evictable, QuotaAssumption
    <3> QED
      BY <1>4, <2>2, <3>1, <3>3
  <2> QED
    BY <2>1, <2>2
<1>9. LeasesExact'
  BY <1>2, <1>4, <1>6, JoinCounts DEF QInv
<1> QED
  BY <1>5, <1>7, <1>8, <1>9 DEF QInv

\* A call ends, and takes back its lease of an entry that may have changed else.
LEMMA LeaveKeeps ==
  ASSUME QInv, NEW c \in Calls, Under(c), NEW e \in EntryRecord,
         e.leases = entry[call[c].gate].leases,
         entry' = [entry EXCEPT ![call[c].gate] = Release(e)],
         call' = [call EXCEPT ![c] = NoCall],
         gates' = gates
  PROVE  QInv'
<1>1. PICK g \in Gates : g = call[c].gate
  BY DEF QInv, Attached
<1>2. e.leases # 0
  BY HeldIsLeased
<1>3. /\ entry' \in [Gates -> EntryRecord]
      /\ entry'[g].leases = entry[g].leases - 1
      /\ \A h \in Gates \ {g} : entry'[h].leases = entry[h].leases
  BY <1>1, <1>2, ReleaseTyped DEF QInv, QuotaTypeOK
<1>4. /\ call' \in [Calls -> CallRecord] /\ call'[c] = NoCall
      /\ \A d \in Calls \ {c} : call'[d] = call[d]
  BY NoCallTyped DEF QInv, QuotaTypeOK
<1>5. ~Under(c)' /\ \A d \in Calls \ {c} : Under(d)' = Under(d)
  BY <1>4, NoCallTyped DEF Under
<1>6. QuotaTypeOK' /\ Attached' /\ LeasedIsRegistered'
  BY <1>3, <1>4, <1>5 DEF QInv, QuotaTypeOK, Attached, LeasedIsRegistered
<1>7. LeasesExact'
  BY <1>1, <1>3, <1>4, <1>5, LeaveCounts DEF QInv
<1> QED
  BY <1>6, <1>7 DEF QInv

\* Nobody comes or goes, and what is forgotten is evictable.
LEMMA StayKeeps ==
  ASSUME QInv,
         gates' \in [Keys -> Gates \cup {None}],
         \A x \in Keys : gates[x] # None /\ ~Evictable(gates[x])
                           => gates'[x] = gates[x],
         entry' \in [Gates -> EntryRecord],
         \A h \in Gates : entry'[h].leases = entry[h].leases,
         call' \in [Calls -> CallRecord],
         \A d \in Calls : /\ Under(d)' = Under(d)
                          /\ call'[d].key = call[d].key
                          /\ call'[d].gate = call[d].gate
  PROVE  QInv'
<1>1. QuotaTypeOK'
  BY DEF QuotaTypeOK
<1>2. Attached'
  BY DEF QInv, Attached
<1>3. LeasedIsRegistered'
  <2> SUFFICES ASSUME NEW d \in Calls, Under(d)
               PROVE  gates'[call[d].key] = call[d].gate
    BY DEF LeasedIsRegistered
  <2>1. /\ call[d].key \in Keys /\ call[d].gate \in Gates
        /\ gates[call[d].key] = call[d].gate
    BY DEF QInv, Attached, LeasedIsRegistered
  <2>2. entry[call[d].gate].leases # 0
    BY HeldIsLeased
  <2>3. ~Evictable(gates[call[d].key]) /\ gates[call[d].key] # None
    BY <2>1, <2>2, QuotaAssumption DEF Evictable, QuotaAssumption
  <2> QED
    BY <2>1, <2>3
<1>4. LeasesExact'
  BY StayCounts DEF QInv
<1> QED
  BY <1>1, <1>2, <1>3, <1>4 DEF QInv

LEMMA EnterNewKeeps ==
  ASSUME QInv, NEW c \in Calls, NEW k \in Keys, NEW s \in Strategies,
         EnterNew(c, k, s)
  PROVE  QInv'
<1>1. PICK D \in Reclaimed, g \in Unused :
        /\ gates' = [x \in Keys |-> IF x = k THEN g
                                    ELSE IF x \in D THEN None ELSE gates[x]]
        /\ entry' = [entry EXCEPT ![g] = Lease(NewEntry)]
        /\ Begin(c, k, g, s, "sending")
  BY DEF EnterNew
<1>2. ~Under(c) /\ gates[k] = None
  BY DEF EnterNew
<1>3. g \in Gates /\ \A d \in Calls : call[d].gate # g
  BY DEF Unused
<1>4. {d \in Calls : Under(d) /\ call[d].gate = g} = {}
  BY <1>3
<1>5. entry[g].leases = 0
  BY <1>3, <1>4, FS_EmptySet DEF QInv, LeasesExact
<1>6. Lease(NewEntry) \in EntryRecord /\ Lease(NewEntry).leases = 1
  BY NewEntryTyped, LeaseTyped
<1>7. /\ entry' \in [Gates -> EntryRecord]
      /\ entry'[g].leases = entry[g].leases + 1
      /\ \A h \in Gates \ {g} : entry'[h].leases = entry[h].leases
  BY <1>1, <1>3, <1>5, <1>6 DEF QInv, QuotaTypeOK
<1>8. gates' \in [Keys -> Gates \cup {None}] /\ gates'[k] = g
  BY <1>1, <1>3 DEF QInv, QuotaTypeOK
<1>9. \A x \in Keys : gates[x] # None /\ ~Evictable(gates[x])
                        => gates'[x] = gates[x]
  BY <1>1, <1>2, ReclaimedEvictable
<1> QED
  BY <1>1, <1>2, <1>3, <1>7, <1>8, <1>9, BeginKeeps

LEMMA EnterOpenKeeps ==
  ASSUME QInv, NEW c \in Calls, NEW k \in Keys, NEW s \in Strategies,
         EnterOpen(c, k, s)
  PROVE  QInv'
<1>1. PICK g \in Gates : g = gates[k]
  BY DEF EnterOpen, QInv, QuotaTypeOK
<1>2. /\ ~Under(c) /\ gates' = gates
      /\ entry' = [entry EXCEPT ![g] = Lease(entry[g])]
      /\ Begin(c, k, g, s, "sending")
  BY <1>1 DEF EnterOpen
<1>3. /\ entry' \in [Gates -> EntryRecord]
      /\ entry'[g].leases = entry[g].leases + 1
      /\ \A h \in Gates \ {g} : entry'[h].leases = entry[h].leases
  BY <1>2, LeaseTyped DEF QInv, QuotaTypeOK
<1> QED
  BY <1>1, <1>2, <1>3, BeginKeeps DEF QInv, QuotaTypeOK

LEMMA EnterShutKeeps ==
  ASSUME QInv, NEW c \in Calls, NEW k \in Keys, NEW s \in Strategies,
         EnterShut(c, k, s)
  PROVE  QInv'
<1>1. PICK g \in Gates : g = gates[k]
  BY DEF EnterShut, QInv, QuotaTypeOK
<1>2. /\ ~Under(c) /\ gates' = gates
      /\ \/ /\ entry' = [entry EXCEPT ![g] = Lease(entry[g])]
            /\ Begin(c, k, g, s, "sleeping")
         \/ /\ entry' = [entry EXCEPT ![g] = Release(Lease(entry[g]))]
            /\ call' = call
  BY <1>1 DEF EnterShut
<1>3. entry \in [Gates -> EntryRecord] /\ call \in [Calls -> CallRecord]
  BY DEF QInv, QuotaTypeOK
<1>4. entry[g].leases \in Nat
  BY <1>3 DEF EntryRecord
<1>5. CASE /\ entry' = [entry EXCEPT ![g] = Lease(entry[g])]
           /\ Begin(c, k, g, s, "sleeping")
  <2>1. /\ entry' \in [Gates -> EntryRecord]
        /\ entry'[g].leases = entry[g].leases + 1
        /\ \A h \in Gates \ {g} : entry'[h].leases = entry[h].leases
    BY <1>3, <1>5, LeaseTyped
  <2> QED
    BY <1>1, <1>2, <1>5, <2>1, BeginKeeps DEF QInv, QuotaTypeOK
<1>6. CASE /\ entry' = [entry EXCEPT ![g] = Release(Lease(entry[g]))]
           /\ call' = call
  <2>1. /\ Lease(entry[g]) \in EntryRecord
        /\ Lease(entry[g]).leases = entry[g].leases + 1
    BY <1>3, LeaseTyped
  <2>2. /\ Release(Lease(entry[g])) \in EntryRecord
        /\ Release(Lease(entry[g])).leases = entry[g].leases
    BY <1>4, <2>1, ReleaseTyped
  <2>3. /\ entry' \in [Gates -> EntryRecord]
        /\ \A h \in Gates : entry'[h].leases = entry[h].leases
    BY <1>3, <1>6, <2>2
  <2> QED
    BY <1>2, <1>3, <1>6, <2>3, StayKeeps DEF QInv, QuotaTypeOK, Under
<1> QED
  BY <1>2, <1>5, <1>6

\* A call that ends by itself: answered, failed or aborted.
LEMMA LeavingKeeps ==
  ASSUME QInv, NEW c \in Calls, Under(c), Leave(c)
  PROVE  QInv'
<1>1. entry[call[c].gate] \in EntryRecord
  BY DEF QInv, QuotaTypeOK, Attached
<1>2. /\ call' = [call EXCEPT ![c] = NoCall]
      /\ entry' = [entry EXCEPT ![call[c].gate] = Release(entry[call[c].gate])]
      /\ gates' = gates
  BY DEF Leave
<1> QED
  BY <1>1, <1>2, LeaveKeeps

\* A call that goes on: only where it stands, its timer and its counts change.
Moved(x, p, t, n, m) ==
  [x EXCEPT !.at = p, !.timer = t, !.attempt = n, !.transients = m]

LEMMA MoveTyped ==
  ASSUME NEW x \in CallRecord, NEW p \in {"sending", "sleeping", "pausing"},
         NEW t \in Nat, NEW n \in Nat, NEW m \in Nat
  PROVE  Moved(x, p, t, n, m) \in CallRecord
  BY Zenon DEF Moved, CallRecord

LEMMA MoveKeeps ==
  ASSUME QInv, NEW c \in Calls, Under(c), NEW y \in CallRecord,
         y.at # "out", y.key = call[c].key, y.gate = call[c].gate,
         call' = [call EXCEPT ![c] = y], gates' = gates,
         entry' \in [Gates -> EntryRecord],
         \A h \in Gates : entry'[h].leases = entry[h].leases
  PROVE  QInv'
<1>1. /\ call' \in [Calls -> CallRecord]
      /\ \A d \in Calls : /\ Under(d)' = Under(d)
                          /\ call'[d].key = call[d].key
                          /\ call'[d].gate = call[d].gate
  BY DEF QInv, QuotaTypeOK, Under
<1> QED
  BY <1>1, StayKeeps DEF QInv, QuotaTypeOK

LEMMA RefusedKeeps ==
  ASSUME QInv, NEW c \in Calls, NEW ms \in Intervals, Refused(c, ms)
  PROVE  QInv'
<1> DEFINE g == call[c].gate
           n == call[c].attempt + 1
           m == IF n < MaxAttempts THEN n ELSE MaxAttempts
<1>1. Under(c) /\ gates' = gates
  BY DEF Refused, Under
<1>2. /\ call[c] \in CallRecord /\ g \in Gates /\ entry[g] \in EntryRecord
      /\ entry \in [Gates -> EntryRecord]
  BY <1>1 DEF QInv, QuotaTypeOK, Attached
<1>3. n \in Nat /\ m \in Nat /\ ms \in Nat
      /\ call[c].strategy \in {"report", "wait", "own"}
  BY <1>2, QuotaAssumption DEF QuotaAssumption, CallRecord
<1>4. PICK d \in Decide(call[c].strategy, n, ms) :
        LET left == Longer(entry[g].left, d.wait)
            e    == [entry[g] EXCEPT !.left = left]
        IN
        IF d.retry
        THEN /\ entry' = [entry EXCEPT ![g] = e]
             /\ call' = [call EXCEPT
                  ![c].at = IF left > 0 THEN "sleeping" ELSE "sending",
                  ![c].timer = left,
                  ![c].attempt = m]
        ELSE /\ entry' = [entry EXCEPT ![g] = Release(e)]
             /\ call' = [call EXCEPT ![c] = NoCall]
  BY DEF Refused
<1> DEFINE left == Longer(entry[g].left, d.wait)
           e    == [entry[g] EXCEPT !.left = left]
           p    == IF left > 0 THEN "sleeping" ELSE "sending"
           y    == [call[c] EXCEPT !.at = p, !.timer = left, !.attempt = m]
<1>5. left \in Nat
  BY <1>2, <1>3, DecideTyped DEF Longer, EntryRecord
<1>6. e \in EntryRecord
  BY <1>2, <1>5, Zenon DEF EntryRecord
<1>7. e.leases = entry[g].leases
  BY <1>2 DEF EntryRecord
<1>8. CASE d.retry
  <2>1. /\ entry' = [entry EXCEPT ![g] = e]
        /\ call' = [call EXCEPT ![c] = y]
    BY <1>2, <1>4, <1>8
  <2>2. p \in {"sending", "sleeping", "pausing"}
    OBVIOUS
  <2>3. call[c].transients \in Nat
        /\ y = Moved(call[c], p, left, m, call[c].transients)
    BY <1>2 DEF CallRecord, Moved
  <2>at. y.at # "out" /\ y.key = call[c].key /\ y.gate = call[c].gate
    BY <1>2 DEF CallRecord
  <2> HIDE DEF y, p, left, n, m
  <2>4. y \in CallRecord
    BY <1>2, <1>3, <1>5, <2>2, <2>3, MoveTyped
  <2>5. /\ entry' \in [Gates -> EntryRecord]
        /\ \A h \in Gates : entry'[h].leases = entry[h].leases
    BY <1>2, <1>6, <1>7, <2>1
  <2> QED
    BY <1>1, <2>1, <2>at, <2>4, <2>5, MoveKeeps
<1>9. CASE ~d.retry
  BY <1>1, <1>4, <1>6, <1>7, <1>9, LeaveKeeps
<1> QED
  BY <1>8, <1>9

\* A call on its way from one await to the next, with nothing recorded.
LEMMA MovingKeeps ==
  ASSUME QInv, NEW c \in Calls,
         TransientFailure(c) \/ RetryOpen(c) \/ Wake(c)
  PROVE  QInv'
<1> USE DEF TransientFailure, RetryOpen, Wake
<1>1. Under(c) /\ gates' = gates /\ entry' = entry
  BY DEF Under
<1>2. /\ call[c] \in CallRecord /\ call \in [Calls -> CallRecord]
      /\ entry[call[c].gate].left \in Nat
  BY <1>1 DEF QInv, QuotaTypeOK, Attached, EntryRecord
<1>3. PICK p \in {"sending", "sleeping", "pausing"}, t \in Nat, m \in Nat :
        call' = [call EXCEPT ![c].at = p, ![c].timer = t, ![c].transients = m]
  <2>1. CASE TransientFailure(c)
    <3>1. call' = [call EXCEPT ![c].at = "pausing", ![c].timer = call[c].timer,
                               ![c].transients = call[c].transients + 1]
      BY <1>2, <2>1 DEF CallRecord
    <3>2. call[c].timer \in Nat /\ call[c].transients + 1 \in Nat
      BY <1>2 DEF CallRecord
    <3> QED
      BY <3>1, <3>2
  <2>2. CASE RetryOpen(c)
    <3>1. call' = [call EXCEPT ![c].at = "sending", ![c].timer = call[c].timer,
                               ![c].transients = call[c].transients]
      BY <1>2, <2>2 DEF CallRecord
    <3>2. call[c].timer \in Nat /\ call[c].transients \in Nat
      BY <1>2 DEF CallRecord
    <3> QED
      BY <3>1, <3>2
  <2>3. CASE Wake(c)
    <3> DEFINE p == IF StillShut(call[c].gate) THEN "sleeping" ELSE "sending"
               t == IF StillShut(call[c].gate) THEN entry[call[c].gate].left ELSE 0
    <3>1. call' = [call EXCEPT ![c].at = p, ![c].timer = t,
                               ![c].transients = call[c].transients]
      BY <1>2, <2>3 DEF CallRecord
    <3>2. t \in Nat /\ call[c].transients \in Nat
      BY <1>2 DEF CallRecord
    <3> QED
      BY <3>1, <3>2
  <2> QED
    BY <2>1, <2>2, <2>3
<1> DEFINE y == [call[c] EXCEPT !.at = p, !.timer = t, !.transients = m]
<1>4. call' = [call EXCEPT ![c] = y]
  BY <1>2, <1>3
<1>5. call[c].attempt \in Nat
      /\ y = Moved(call[c], p, t, call[c].attempt, m)
  BY <1>2 DEF CallRecord, Moved
<1>at. y.at # "out" /\ y.key = call[c].key /\ y.gate = call[c].gate
  BY <1>2 DEF CallRecord
<1> HIDE DEF y
<1>6. y \in CallRecord
  BY <1>2, <1>5, MoveTyped
<1> QED
  BY <1>1, <1>4, <1>at, <1>6, MoveKeeps DEF QInv, QuotaTypeOK

LEMMA RetryShutKeeps ==
  ASSUME QInv, NEW c \in Calls, RetryShut(c)
  PROVE  QInv'
<1> DEFINE left == entry[call[c].gate].left
           y    == [call[c] EXCEPT !.at = "sleeping", !.timer = left]
<1>1. Under(c) /\ (\/ /\ call' = [call EXCEPT ![c].at = "sleeping", ![c].timer = left]
                      /\ gates' = gates /\ entry' = entry
                   \/ Leave(c))
  BY DEF RetryShut, Under
<1>2. /\ call[c] \in CallRecord /\ call \in [Calls -> CallRecord]
      /\ left \in Nat
  BY <1>1 DEF QInv, QuotaTypeOK, Attached, EntryRecord
<1>3. CASE /\ call' = [call EXCEPT ![c].at = "sleeping", ![c].timer = left]
           /\ gates' = gates /\ entry' = entry
  <2>1. call' = [call EXCEPT ![c] = y]
    BY <1>2, <1>3
  <2>2. /\ call[c].attempt \in Nat /\ call[c].transients \in Nat
        /\ y = Moved(call[c], "sleeping", left, call[c].attempt, call[c].transients)
    BY <1>2 DEF CallRecord, Moved
  <2>at. y.at # "out" /\ y.key = call[c].key /\ y.gate = call[c].gate
    BY <1>2 DEF CallRecord
  <2> HIDE DEF y, left
  <2>3. y \in CallRecord
    BY <1>2, <2>2, MoveTyped
  <2> QED
    BY <1>1, <1>3, <2>1, <2>at, <2>3, MoveKeeps DEF QInv, QuotaTypeOK
<1> QED
  BY <1>1, <1>3, LeavingKeeps

LEMMA PruneKeeps ==
  ASSUME QInv, PruneQuotaGates
  PROVE  QInv'
<1>1. /\ gates' \in [Keys -> Gates \cup {None}]
      /\ \A x \in Keys : gates[x] # None /\ ~Evictable(gates[x])
                           => gates'[x] = gates[x]
  BY DEF PruneQuotaGates, StaleKeys, Stale, QInv, QuotaTypeOK
<1>2. entry' = entry /\ call' = call
  BY DEF PruneQuotaGates
<1> QED
  BY <1>1, <1>2, StayKeeps DEF QInv, QuotaTypeOK, Under

LEMMA TickKeeps ==
  ASSUME QInv, Tick
  PROVE  QInv'
<1>1. entry \in [Gates -> EntryRecord] /\ call \in [Calls -> CallRecord]
  BY DEF QInv, QuotaTypeOK
<1>2. ASSUME NEW g \in Gates
      PROVE  entry'[g] \in EntryRecord /\ entry'[g].leases = entry[g].leases
  <2> DEFINE l == Less(entry[g].left)
             a == IF entry[g].age > IdleTtl THEN entry[g].age ELSE entry[g].age + 1
  <2>1. entry'[g] = [entry[g] EXCEPT !.left = l, !.age = a]
    BY <1>1, <1>2 DEF Tick
  <2>2. l \in Nat /\ a \in Nat
    BY <1>1, <1>2, QuotaAssumption DEF EntryRecord, Less, QuotaAssumption
  <2> HIDE DEF l, a
  <2>3. entry'[g] \in EntryRecord
    BY <1>1, <1>2, <2>1, <2>2, Zenon DEF EntryRecord
  <2> QED
    BY <1>1, <1>2, <2>1, <2>3 DEF EntryRecord
<1>3. ASSUME NEW d \in Calls
      PROVE  /\ call'[d] \in CallRecord /\ Under(d)' = Under(d)
             /\ call'[d].key = call[d].key /\ call'[d].gate = call[d].gate
  <2> DEFINE t == IF call[d].timer > 0 THEN call[d].timer - 1 ELSE 0
  <2>1. call'[d] = [call[d] EXCEPT !.timer = t]
    BY <1>1, <1>3 DEF Tick
  <2>2. t \in Nat
    BY <1>1, <1>3 DEF CallRecord
  <2> HIDE DEF t
  <2>3. call'[d] \in CallRecord
    BY <1>1, <1>3, <2>1, <2>2, Zenon DEF CallRecord
  <2> QED
    BY <1>1, <1>3, <2>1, <2>3 DEF CallRecord, Under
<1>4. entry' \in [Gates -> EntryRecord] /\ call' \in [Calls -> CallRecord]
  BY <1>2, <1>3 DEF Tick
<1>5. gates' = gates
  BY DEF Tick
<1> QED
  BY <1>2, <1>3, <1>4, <1>5, StayKeeps DEF QInv, QuotaTypeOK

LEMMA StepKeeps == QInv /\ [Next]_vars => QInv'
<1> SUFFICES ASSUME QInv, [Next]_vars PROVE QInv'
  OBVIOUS
<1>1. ASSUME NEW c \in Calls, NEW k \in Keys, NEW s \in Strategies,
             EnterNew(c, k, s) \/ EnterOpen(c, k, s) \/ EnterShut(c, k, s)
      PROVE  QInv'
  BY <1>1, EnterNewKeeps, EnterOpenKeeps, EnterShutKeeps
<1>2. ASSUME NEW c \in Calls, NEW ms \in Intervals, Refused(c, ms)
      PROVE  QInv'
  BY <1>2, RefusedKeeps
<1>3. ASSUME NEW c \in Calls, TransientFailure(c) \/ RetryOpen(c) \/ Wake(c)
      PROVE  QInv'
  BY <1>3, MovingKeeps
<1>4. ASSUME NEW c \in Calls, RetryShut(c)
      PROVE  QInv'
  BY <1>4, RetryShutKeeps
<1>5. ASSUME NEW c \in Calls, Answered(c) \/ Abort(c)
      PROVE  QInv'
  <2>1. Under(c) /\ Leave(c)
    BY <1>5 DEF Answered, Abort, Under
  <2> QED
    BY <2>1, LeavingKeeps
<1>6. CASE UNCHANGED vars
  <2>1. gates' = gates /\ entry' = entry /\ call' = call
    BY <1>6 DEF vars
  <2> QED
    BY <2>1, StayKeeps DEF QInv, QuotaTypeOK, Under
<1> QED
  BY <1>1, <1>2, <1>3, <1>4, <1>5, <1>6, PruneKeeps, TickKeeps DEF Next

-----------------------------------------------------------------------------
(* The leases.                                                             *)

LEMMA InvHolds == Spec => []QInv
  BY InitInv, StepKeeps, PTL DEF Spec

\* Whatever calls enter, fail, sleep and abort, the registry, its gates and the calls
\* stay what makeQuotaGateRegistry() and QuotaGatedLlm declare them to be.
THEOREM QuotaTypeCorrect == Spec => []QuotaTypeOK
<1>1. QInv => QuotaTypeOK
  BY DEF QInv
<1> QED
  BY <1>1, InvHolds, PTL

\* No pruning and no minting, in any order with any calls, takes a gate from under a
\* call: the gate it will penalise is the one the next caller of its key is handed.
THEOREM LeasedStaysRegistered == Spec => []LeasedIsRegistered
<1>1. QInv => LeasedIsRegistered
  BY DEF QInv
<1> QED
  BY <1>1, InvHolds, PTL

\* Every way a call can end releases its lease, and none releases it twice.
THEOREM LeasesAreExact == Spec => []LeasesExact
<1>1. QInv => LeasesExact
  BY DEF QInv
<1> QED
  BY <1>1, InvHolds, PTL
-----------------------------------------------------------------------------
(* The limit of the registry.                                              *)

\* What is left of a set after taking away a part of it.
LEMMA WhatIsLeft ==
  ASSUME NEW S, IsFiniteSet(S), NEW E \in SUBSET S
  PROVE  /\ IsFiniteSet(S \ E) /\ Cardinality(E) \in Nat /\ Cardinality(S) \in Nat
         /\ Cardinality(S \ E) = Cardinality(S) - Cardinality(E)
<1>1. S \cap E = E
  OBVIOUS
<1> QED
  BY <1>1, FS_Difference, FS_Subset, FS_CardinalityType

\* A reclaim gives up recent gates only for as long as there is no room, and
\* stops without room only when nothing it may give up is left.
LEMMA ReclaimMakesRoom ==
  ASSUME IsFiniteSet(Tracked), NEW D \in Reclaimed
  PROVE  /\ IsFiniteSet(Tracked \ D) /\ Cardinality(Tracked \ D) \in Nat
         /\ \/ Cardinality(Tracked \ D) < GateLimit
            \/ \A x \in Tracked \ D : ~Evictable(gates[x])
         /\ D \subseteq StaleKeys \/ Cardinality(Tracked \ D) >= GateLimit - 1
<1> DEFINE S    == Tracked \ StaleKeys
           rest == {k \in S : Evictable(gates[k])}
           over == Cardinality(S) - GateLimit + 1
           n    == IF over < Cardinality(rest) THEN over ELSE Cardinality(rest)
<1>0. GateLimit \in Nat \ {0}
  BY QuotaAssumption DEF QuotaAssumption
<1>1. /\ IsFiniteSet(S) /\ Cardinality(S) \in Nat
      /\ IsFiniteSet(Tracked \ D) /\ Cardinality(Tracked \ D) \in Nat
  <2>1. S \in SUBSET Tracked /\ Tracked \ D \in SUBSET Tracked
    OBVIOUS
  <2> QED
    BY <2>1, FS_Subset, FS_CardinalityType
<1>2. CASE ~Crowded(Cardinality(Tracked))
  <2>1. D = {}
    BY <1>2 DEF Reclaimed
  <2>2. Tracked \ D = Tracked /\ Cardinality(Tracked) \in Nat
    BY <2>1, FS_CardinalityType
  <2> QED
    BY <1>0, <1>1, <1>2, <2>1, <2>2 DEF Crowded
<1>3. CASE Crowded(Cardinality(Tracked)) /\ ~Crowded(Cardinality(S))
  <2>1. D = StaleKeys
    BY <1>3 DEF Reclaimed
  <2> QED
    BY <1>0, <1>1, <1>3, <2>1 DEF Crowded
<1>4. CASE Crowded(Cardinality(Tracked)) /\ Crowded(Cardinality(S))
  <2>1. PICK E \in SUBSET rest : Cardinality(E) = n /\ D = StaleKeys \cup E
    BY <1>4 DEF Reclaimed
  <2>2. E \in SUBSET S /\ rest \in SUBSET S /\ Tracked \ D = S \ E
    BY <2>1
  <2>3. /\ IsFiniteSet(rest) /\ Cardinality(rest) \in Nat /\ Cardinality(E) \in Nat
        /\ Cardinality(Tracked \ D) = Cardinality(S) - Cardinality(E)
    BY <1>1, <2>2, WhatIsLeft, FS_Subset, FS_CardinalityType
  <2>4. over \in Nat
    BY <1>0, <1>1, <1>4 DEF Crowded
  <2>5. CASE over <= Cardinality(rest)
    <3>1. Cardinality(E) = over
      BY <2>1, <2>3, <2>4, <2>5
    <3>2. Cardinality(Tracked \ D) = GateLimit - 1
      BY <1>0, <1>1, <2>3, <3>1
    <3> QED
      BY <1>0, <1>1, <3>2
  <2>6. CASE Cardinality(rest) < over
    <3>1. Cardinality(E) = Cardinality(rest)
      BY <2>1, <2>3, <2>4, <2>6
    <3>2. E = rest
      BY <2>3, <3>1, FS_Subset
    <3>3. \A x \in Tracked \ D : ~Evictable(gates[x])
      BY <2>2, <3>2
    <3>4. Cardinality(Tracked \ D) >= GateLimit - 1
      BY <1>0, <1>1, <2>3, <2>6, <3>1
    <3> QED
      BY <1>1, <3>3, <3>4
  <2> QED
    BY <2>3, <2>4, <2>5, <2>6
<1> QED
  BY <1>2, <1>3, <1>4

\* What a step does to the registry.
LEMMA RegistrySteps ==
  ASSUME [Next]_vars
  PROVE  \/ gates' = gates
         \/ PruneQuotaGates
         \/ \E c \in Calls, k \in Keys, s \in Strategies : EnterNew(c, k, s)
  BY DEF Next, vars, EnterOpen, EnterShut, Refused, Answered, TransientFailure,
         RetryOpen, RetryShut, Wake, Abort, Leave, Tick

\* A gate is minted for a key that has none, from what nobody refers to.
LEMMA Minting ==
  ASSUME QInv, NEW c \in Calls, NEW k \in Keys, NEW s \in Strategies,
         EnterNew(c, k, s)
  PROVE  \E D \in Reclaimed, g \in Gates :
           /\ gates' = [x \in Keys |-> IF x = k THEN g
                                       ELSE IF x \in D THEN None ELSE gates[x]]
           /\ entry' = [entry EXCEPT ![g] = Lease(NewEntry)]
           /\ Begin(c, k, g, s, "sending")
           /\ gates[k] = None /\ k \notin Tracked /\ ~Under(c)
           /\ \A x \in Keys : gates[x] # g
           /\ Tracked' = (Tracked \ D) \cup {k}
<1>1. PICK D \in Reclaimed, g \in Unused :
        /\ gates' = [x \in Keys |-> IF x = k THEN g
                                    ELSE IF x \in D THEN None ELSE gates[x]]
        /\ entry' = [entry EXCEPT ![g] = Lease(NewEntry)]
        /\ Begin(c, k, g, s, "sending")
  BY DEF EnterNew
<1>2. gates[k] = None /\ k \notin Tracked /\ ~Under(c)
  BY DEF EnterNew, Tracked
<1>3. g \in Gates /\ g # None
  BY QuotaAssumption DEF Unused, QuotaAssumption
<1>4. \A x \in Keys : gates[x] # g
  BY <1>3 DEF Unused, Tracked
<1>5. Tracked' = (Tracked \ D) \cup {k}
  <2>1. \A x \in Keys : gates'[x] = IF x = k THEN g
                                    ELSE IF x \in D THEN None ELSE gates[x]
    BY <1>1
  <2> QED
    BY <1>3, <2>1 DEF Tracked
<1> QED
  BY <1>1, <1>2, <1>3, <1>4, <1>5

\* The registry holds finitely many gates, however many keys there are.
LEMMA TrackedInit == Init => IsFiniteSet(Tracked)
<1>1. Init => Tracked = {}
  BY DEF Init, Tracked
<1> QED
  BY <1>1, FS_EmptySet

LEMMA TrackedStays == QInv /\ IsFiniteSet(Tracked) /\ [Next]_vars => IsFiniteSet(Tracked)'
<1> SUFFICES ASSUME QInv, IsFiniteSet(Tracked), [Next]_vars
             PROVE  IsFiniteSet(Tracked')
  OBVIOUS
<1>1. CASE gates' = gates
  BY <1>1 DEF Tracked
<1>2. CASE PruneQuotaGates
  <2>1. Tracked' \in SUBSET Tracked
    BY <1>2 DEF PruneQuotaGates, Tracked
  <2> QED
    BY <2>1, FS_Subset
<1>3. ASSUME NEW c \in Calls, NEW k \in Keys, NEW s \in Strategies, EnterNew(c, k, s)
      PROVE  IsFiniteSet(Tracked')
  <2>1. PICK D \in Reclaimed : Tracked' = (Tracked \ D) \cup {k}
    BY <1>3, Minting
  <2>2. IsFiniteSet(Tracked \ D)
    BY ReclaimMakesRoom
  <2> QED
    BY <2>1, <2>2, FS_AddElement
<1> QED
  BY <1>1, <1>2, <1>3, RegistrySteps

\* What LimitHolds says of one key.
Bounded(k) ==
  /\ gates[k] = None /\ gates'[k] # None =>
       \/ Cardinality(Tracked') <= GateLimit
       \/ \A x \in Tracked' \ {k} : ~Evictable(gates[x])
  /\ gates[k] # None /\ gates'[k] = None =>
       Stale(gates[k]) \/ Cardinality(Tracked') >= GateLimit

LEMMA StepBounded ==
  ASSUME QInv, IsFiniteSet(Tracked), [Next]_vars, NEW k \in Keys
  PROVE  Bounded(k)
<1>1. CASE gates' = gates
  BY <1>1 DEF Bounded
<1>2. CASE PruneQuotaGates
  <2>1. gates'[k] = IF k \in StaleKeys THEN None ELSE gates[k]
    BY <1>2 DEF PruneQuotaGates
  <2> QED
    BY <2>1 DEF Bounded, StaleKeys
<1>3. ASSUME NEW c \in Calls, NEW j \in Keys, NEW s \in Strategies, EnterNew(c, j, s)
      PROVE  Bounded(k)
  <2>1. PICK D \in Reclaimed, g \in Gates :
          /\ gates' = [x \in Keys |-> IF x = j THEN g
                                      ELSE IF x \in D THEN None ELSE gates[x]]
          /\ gates[j] = None /\ j \notin Tracked
          /\ Tracked' = (Tracked \ D) \cup {j}
    BY <1>3, Minting
  <2>2. /\ IsFiniteSet(Tracked \ D) /\ Cardinality(Tracked \ D) \in Nat
        /\ \/ Cardinality(Tracked \ D) < GateLimit
           \/ \A x \in Tracked \ D : ~Evictable(gates[x])
        /\ D \subseteq StaleKeys \/ Cardinality(Tracked \ D) >= GateLimit - 1
    BY ReclaimMakesRoom
  <2>3. Cardinality(Tracked') = Cardinality(Tracked \ D) + 1
    <3>1. j \notin Tracked \ D
      BY <2>1
    <3> QED
      BY <2>1, <2>2, <3>1, FS_AddElement
  <2>4. GateLimit \in Nat /\ None \notin Gates
    BY QuotaAssumption DEF QuotaAssumption
  <2>5. ASSUME gates[k] = None, gates'[k] # None
        PROVE  \/ Cardinality(Tracked') <= GateLimit
               \/ \A x \in Tracked' \ {k} : ~Evictable(gates[x])
    <3>1. k = j
      BY <2>1, <2>5
    <3>2. Tracked' \ {k} \subseteq Tracked \ D
      BY <2>1, <3>1
    <3> QED
      BY <2>2, <2>3, <2>4, <3>2
  <2>6. ASSUME gates[k] # None, gates'[k] = None
        PROVE  Stale(gates[k]) \/ Cardinality(Tracked') >= GateLimit
    <3>1. k \in D
      BY <2>1, <2>4, <2>6
    <3>2. k \in StaleKeys => Stale(gates[k])
      BY DEF StaleKeys
    <3> QED
      BY <2>2, <2>3, <2>4, <3>1, <3>2
  <2> QED
    BY <2>5, <2>6 DEF Bounded
<1> QED
  BY <1>1, <1>2, <1>3, RegistrySteps

\* Whatever keys a burst of calls mints gates for: the registry outgrows its limit only
\* by gates that are all load-bearing, and gives up a recent gate only when it is full.
THEOREM RegistryIsBounded == Spec => LimitHolds
<1>1. Init => QInv /\ IsFiniteSet(Tracked)
  BY InitInv, TrackedInit
<1>2. QInv /\ IsFiniteSet(Tracked) /\ [Next]_vars => (QInv /\ IsFiniteSet(Tracked))'
  BY StepKeeps, TrackedStays
<1>3. QInv /\ IsFiniteSet(Tracked) /\ [Next]_vars =>
        [\A k \in Keys :
          /\ gates[k] = None /\ gates'[k] # None =>
               \/ Cardinality(Tracked') <= GateLimit
               \/ \A x \in Tracked' \ {k} : ~Evictable(gates[x])
          /\ gates[k] # None /\ gates'[k] = None =>
               Stale(gates[k]) \/ Cardinality(Tracked') >= GateLimit]_vars
  BY StepBounded DEF Bounded
<1> QED
  BY <1>1, <1>2, <1>3, PTL DEF Spec, LimitHolds

-----------------------------------------------------------------------------
(* The refinement of Quota.                                                *)

\* Two quotas never share a gate.
OwnGates == \A j, k \in Keys : gates[j] # None /\ gates[j] = gates[k] => j = k

RInv == QInv /\ OwnGates

\* What Quota sees of the throttle.
Shuts == [k \in Keys |-> IF gates[k] = None THEN 0 ELSE entry[gates[k]].left]

Askings == [c \in Calls |-> IF call[c].at = "sending" THEN call[c].key ELSE None]

LEMMA OwnInit == Init => OwnGates
  BY DEF Init, OwnGates

LEMMA OwnStays == QInv /\ OwnGates /\ [Next]_vars => OwnGates'
<1> SUFFICES ASSUME QInv, OwnGates, [Next]_vars PROVE OwnGates'
  OBVIOUS
<1>1. CASE gates' = gates
  BY <1>1 DEF OwnGates
<1>2. CASE PruneQuotaGates
  <2>1. \A x \in Keys : gates'[x] = IF x \in StaleKeys THEN None ELSE gates[x]
    BY <1>2 DEF PruneQuotaGates
  <2> QED
    BY <2>1 DEF OwnGates
<1>3. ASSUME NEW c \in Calls, NEW k \in Keys, NEW s \in Strategies, EnterNew(c, k, s)
      PROVE  OwnGates'
  <2>1. PICK D \in Reclaimed, g \in Gates :
          /\ gates' = [x \in Keys |-> IF x = k THEN g
                                      ELSE IF x \in D THEN None ELSE gates[x]]
          /\ \A x \in Keys : gates[x] # g
    BY <1>3, Minting
  <2>2. \A x \in Keys : gates'[x] = IF x = k THEN g
                                    ELSE IF x \in D THEN None ELSE gates[x]
    BY <2>1
  <2>3. None \notin Gates
    BY QuotaAssumption DEF QuotaAssumption
  <2> QED
    BY <2>1, <2>2, <2>3 DEF OwnGates
<1> QED
  BY <1>1, <1>2, <1>3, RegistrySteps

LEMMA RInvInit == Init => RInv
  BY InitInv, OwnInit DEF RInv

LEMMA RInvStays == RInv /\ [Next]_vars => RInv'
  BY StepKeeps, OwnStays DEF RInv

\* The five things a step can be to Quota.
LEMMA AskGoes ==
  ASSUME NEW c \in Calls, NEW k \in Keys, Askings[c] = None, Shuts[k] = 0,
         Askings' = [Askings EXCEPT ![c] = k], Shuts' = Shuts
  PROVE  [Promise!QuotaNext]_(Promise!qvars)
<1>1. Promise!Ask(c, k)
  BY DEF Promise!Ask, Askings, Shuts
<1> QED
  BY <1>1 DEF Promise!QuotaNext

LEMMA ServeGoes ==
  ASSUME NEW c \in Calls, Askings[c] # None,
         Askings' = [Askings EXCEPT ![c] = None], Shuts' = Shuts
  PROVE  [Promise!QuotaNext]_(Promise!qvars)
<1>1. Promise!Served(c)
  BY DEF Promise!Served, Askings, Shuts
<1> QED
  BY <1>1 DEF Promise!QuotaNext

LEMMA TurnDownGoes ==
  ASSUME NEW c \in Calls, NEW d \in Intervals, Askings[c] # None,
         Askings' = [Askings EXCEPT ![c] = None],
         Shuts' = [Shuts EXCEPT ![Askings[c]] = IF @ < d THEN d ELSE @]
  PROVE  [Promise!QuotaNext]_(Promise!qvars)
<1>1. Promise!TurnedDown(c, d)
  BY DEF Promise!TurnedDown, Askings, Shuts
<1> QED
  BY <1>1 DEF Promise!QuotaNext

LEMMA TimeGoes ==
  ASSUME Shuts' = [k \in Keys |-> IF Shuts[k] = 0 THEN 0 ELSE Shuts[k] - 1],
         Askings' = Askings
  PROVE  [Promise!QuotaNext]_(Promise!qvars)
<1>1. Promise!TimePasses
  BY DEF Promise!TimePasses, Askings, Shuts
<1> QED
  BY <1>1 DEF Promise!QuotaNext

LEMMA NothingSeen ==
  ASSUME Askings' = Askings, Shuts' = Shuts
  PROVE  [Promise!QuotaNext]_(Promise!qvars)
  BY DEF Promise!qvars, Askings, Shuts

\* A call under way sees its gate as Quota sees its quota.
LEMMA GateIsQuota ==
  ASSUME QInv, NEW c \in Calls, Under(c)
  PROVE  /\ call[c].key \in Keys /\ call[c].key # None
         /\ Shuts[call[c].key] = entry[call[c].gate].left
         /\ call[c].gate \in Gates /\ gates[call[c].key] = call[c].gate
         /\ entry[call[c].gate].left \in Nat
<1>1. /\ call[c].key \in Keys /\ call[c].gate \in Gates
      /\ gates[call[c].key] = call[c].gate
  BY DEF QInv, Attached, LeasedIsRegistered
<1>2. entry[call[c].gate].left \in Nat
  BY <1>1 DEF QInv, QuotaTypeOK, EntryRecord
<1>3. None \notin Gates /\ None \notin Keys
  BY QuotaAssumption DEF QuotaAssumption
<1> QED
  BY <1>1, <1>2, <1>3 DEF Shuts

\* What is asked changes with one call only.
LEMMA OneAsks ==
  ASSUME QInv, NEW c \in Calls, NEW a, call' \in [Calls -> CallRecord],
         \A d \in Calls \ {c} : call'[d] = call[d],
         a = IF call'[c].at = "sending" THEN call'[c].key ELSE None
  PROVE  Askings' = [Askings EXCEPT ![c] = a]
  BY DEF Askings

\* Nothing is shut or opened as long as every gate stays what it was, for those
\* that are neither minted nor forgotten.
LEMMA NothingShut ==
  ASSUME QInv,
         \A x \in Keys :
           \/ gates'[x] = gates[x] /\ (gates[x] = None
                                        \/ entry'[gates[x]].left = entry[gates[x]].left)
           \/ gates[x] # None /\ Evictable(gates[x]) /\ gates'[x] = None
           \/ gates[x] = None /\ gates'[x] \in Gates /\ entry'[gates'[x]].left = 0
  PROVE  Shuts' = Shuts
<1>1. ASSUME NEW x \in Keys
      PROVE  Shuts'[x] = Shuts[x]
  <2>1. gates[x] # None => gates[x] \in Gates /\ entry[gates[x]].left \in Nat
    BY DEF QInv, QuotaTypeOK, EntryRecord
  <2>2. CASE gates'[x] = gates[x] /\ (gates[x] = None
                                        \/ entry'[gates[x]].left = entry[gates[x]].left)
    BY <2>2 DEF Shuts
  <2>3. CASE gates[x] # None /\ Evictable(gates[x]) /\ gates'[x] = None
    BY <2>1, <2>3 DEF Shuts, Evictable, IsShut
  <2>4. CASE gates[x] = None /\ gates'[x] \in Gates /\ entry'[gates'[x]].left = 0
    BY <2>4 DEF Shuts
  <2> QED
    BY <2>2, <2>3, <2>4
<1> QED
  BY <1>1 DEF Shuts

\* The registry is as it was, and so is what is left of every pause.
LEMMA NothingChanged ==
  ASSUME QInv, gates' = gates,
         \A h \in Gates : entry'[h].left = entry[h].left
  PROVE  Shuts' = Shuts
<1>1. \A x \in Keys : gates[x] = None \/ gates[x] \in Gates
  BY DEF QInv, QuotaTypeOK
<1> QED
  BY <1>1, NothingShut

LEMMA LeaseLeaves ==
  ASSUME NEW e \in EntryRecord
  PROVE  Lease(e).left = e.left /\ Release(e).left = e.left
         /\ Release(Lease(e)).left = e.left
  BY DEF EntryRecord, Lease, Release

\* What a strategy decides of a refusal is a delay Quota knows.
LEMMA DecideDelays ==
  ASSUME NEW s \in {"report", "wait", "own"}, NEW n, NEW ms \in Intervals,
         NEW d \in Decide(s, n, ms)
  PROVE  d.wait \in Intervals
<1>1. CASE s = "report"
  <2>1. d \in Report(ms)
    BY <1>1 DEF Decide
  <2> QED
    BY <2>1 DEF Report
<1>2. CASE s = "wait"
  <2>1. d \in WaitAsTold(n, ms)
    BY <1>2 DEF Decide
  <2> QED
    BY <2>1 DEF WaitAsTold
<1>3. CASE s = "own"
  <2>1. d \in Own
    BY <1>3 DEF Decide
  <2> QED
    BY <2>1 DEF Own
<1> QED
  BY <1>1, <1>2, <1>3

\* Each step, as Quota sees it.
LEMMA EnterNewSeen ==
  ASSUME QInv, NEW c \in Calls, NEW k \in Keys, NEW s \in Strategies,
         EnterNew(c, k, s)
  PROVE  [Promise!QuotaNext]_(Promise!qvars)
<1>1. PICK D \in Reclaimed, g \in Gates :
        /\ gates' = [x \in Keys |-> IF x = k THEN g
                                    ELSE IF x \in D THEN None ELSE gates[x]]
        /\ entry' = [entry EXCEPT ![g] = Lease(NewEntry)]
        /\ Begin(c, k, g, s, "sending")
        /\ gates[k] = None /\ ~Under(c)
        /\ \A x \in Keys : gates[x] # g
  BY Minting
<1>2. entry'[g].left = 0
  BY <1>1, NewEntryTyped, LeaseLeaves DEF QInv, QuotaTypeOK, NewEntry
<1>3. \A x \in Keys :
        \/ gates'[x] = gates[x] /\ (gates[x] = None
                                     \/ entry'[gates[x]].left = entry[gates[x]].left)
        \/ gates[x] # None /\ Evictable(gates[x]) /\ gates'[x] = None
        \/ gates[x] = None /\ gates'[x] \in Gates /\ entry'[gates'[x]].left = 0
  <2> SUFFICES ASSUME NEW x \in Keys
               PROVE  \/ gates'[x] = gates[x]
                           /\ (gates[x] = None
                                \/ entry'[gates[x]].left = entry[gates[x]].left)
                      \/ gates[x] # None /\ Evictable(gates[x]) /\ gates'[x] = None
                      \/ /\ gates[x] = None /\ gates'[x] \in Gates
                         /\ entry'[gates'[x]].left = 0
    OBVIOUS
  <2>1. gates'[x] = IF x = k THEN g ELSE IF x \in D THEN None ELSE gates[x]
    BY <1>1
  <2>2. gates[x] = None \/ gates[x] \in Gates \ {g}
    BY <1>1 DEF QInv, QuotaTypeOK
  <2>3. gates[x] # None => entry'[gates[x]] = entry[gates[x]]
    BY <1>1, <2>2 DEF QInv, QuotaTypeOK
  <2>4. x \in D => gates[x] # None /\ Evictable(gates[x])
    BY ReclaimedEvictable DEF Tracked
  <2> QED
    BY <1>1, <1>2, <2>1, <2>3, <2>4
<1>4. Shuts' = Shuts
  BY <1>3, NothingShut
<1>5. call' \in [Calls -> CallRecord]
  BY EnterNewKeeps DEF QInv, QuotaTypeOK
<1>6. /\ call'[c].at = "sending" /\ call'[c].key = k
      /\ \A d \in Calls \ {c} : call'[d] = call[d]
  BY <1>1 DEF Begin, NoCall, QInv, QuotaTypeOK
<1>7. Askings' = [Askings EXCEPT ![c] = k]
  BY <1>5, <1>6, OneAsks
<1>8. Askings[c] = None /\ Shuts[k] = 0
  BY <1>1 DEF Under, Askings, Shuts
<1> QED
  BY <1>4, <1>7, <1>8, AskGoes

LEMMA EnterOpenSeen ==
  ASSUME QInv, NEW c \in Calls, NEW k \in Keys, NEW s \in Strategies,
         EnterOpen(c, k, s)
  PROVE  [Promise!QuotaNext]_(Promise!qvars)
<1>1. PICK g \in Gates : g = gates[k]
  BY DEF EnterOpen, QInv, QuotaTypeOK
<1>2. /\ ~Under(c) /\ gates' = gates /\ gates[k] # None /\ ~IsShut(g)
      /\ entry' = [entry EXCEPT ![g] = Lease(entry[g])]
      /\ Begin(c, k, g, s, "sending")
  BY <1>1 DEF EnterOpen
<1>3. entry \in [Gates -> EntryRecord]
  BY DEF QInv, QuotaTypeOK
<1>4. Shuts' = Shuts
  BY <1>2, <1>3, LeaseLeaves, NothingChanged
<1>5. call' \in [Calls -> CallRecord]
  BY EnterOpenKeeps DEF QInv, QuotaTypeOK
<1>6. /\ call'[c].at = "sending" /\ call'[c].key = k
      /\ \A d \in Calls \ {c} : call'[d] = call[d]
  BY <1>2 DEF Begin, NoCall, QInv, QuotaTypeOK
<1>7. Askings' = [Askings EXCEPT ![c] = k]
  BY <1>5, <1>6, OneAsks
<1>8. entry[g].left \in Nat
  BY <1>3 DEF EntryRecord
<1>9. Askings[c] = None /\ Shuts[k] = 0
  BY <1>1, <1>2, <1>8 DEF Under, Askings, Shuts, IsShut
<1> QED
  BY <1>4, <1>7, <1>9, AskGoes

LEMMA EnterShutSeen ==
  ASSUME QInv, NEW c \in Calls, NEW k \in Keys, NEW s \in Strategies,
         EnterShut(c, k, s)
  PROVE  [Promise!QuotaNext]_(Promise!qvars)
<1>1. PICK g \in Gates : g = gates[k]
  BY DEF EnterShut, QInv, QuotaTypeOK
<1>2. /\ ~Under(c) /\ gates' = gates
      /\ \/ /\ entry' = [entry EXCEPT ![g] = Lease(entry[g])]
            /\ Begin(c, k, g, s, "sleeping")
         \/ /\ entry' = [entry EXCEPT ![g] = Release(Lease(entry[g]))]
            /\ call' = call
  BY <1>1 DEF EnterShut
<1>3. entry \in [Gates -> EntryRecord]
  BY DEF QInv, QuotaTypeOK
<1>4. Shuts' = Shuts
  BY <1>2, <1>3, LeaseLeaves, NothingChanged
<1>5. call' \in [Calls -> CallRecord]
  BY EnterShutKeeps DEF QInv, QuotaTypeOK
<1>6. call' = call \/ (call'[c].at = "sleeping"
                        /\ \A d \in Calls \ {c} : call'[d] = call[d])
  BY <1>2 DEF Begin, NoCall, QInv, QuotaTypeOK
<1>7. Askings' = Askings
  BY <1>2, <1>6 DEF Askings, Under
<1> QED
  BY <1>4, <1>7, NothingSeen

LEMMA LeavingSeen ==
  ASSUME QInv, NEW c \in Calls, Under(c), Leave(c)
  PROVE  [Promise!QuotaNext]_(Promise!qvars)
<1>1. PICK g \in Gates : g = call[c].gate
  BY GateIsQuota
<1>2. /\ call' = [call EXCEPT ![c] = NoCall] /\ gates' = gates
      /\ entry' = [entry EXCEPT ![g] = Release(entry[g])]
  BY <1>1 DEF Leave
<1>3. entry \in [Gates -> EntryRecord] /\ call \in [Calls -> CallRecord]
  BY DEF QInv, QuotaTypeOK
<1>4. Shuts' = Shuts
  BY <1>2, <1>3, LeaseLeaves, NothingChanged
<1>5. /\ call' \in [Calls -> CallRecord] /\ call'[c].at = "out"
      /\ \A d \in Calls \ {c} : call'[d] = call[d]
  BY <1>2, <1>3, NoCallTyped
<1>6. Askings' = [Askings EXCEPT ![c] = None]
  BY <1>5, OneAsks
<1>7. CASE Askings[c] = None
  <2>1. Askings' = Askings
    BY <1>6, <1>7 DEF Askings
  <2> QED
    BY <1>4, <2>1, NothingSeen
<1>8. CASE Askings[c] # None
  BY <1>4, <1>6, <1>8, ServeGoes
<1> QED
  BY <1>7, <1>8

\* A call whose request Quota does not see moves on without one.
LEMMA MoveSeen ==
  ASSUME QInv, NEW c \in Calls, Under(c), gates' = gates, entry' = entry,
         call' \in [Calls -> CallRecord],
         \A d \in Calls \ {c} : call'[d] = call[d],
         call'[c].key = call[c].key,
         \/ call[c].at = "sending"
         \/ call'[c].at # "sending"
         \/ entry[call[c].gate].left = 0
  PROVE  [Promise!QuotaNext]_(Promise!qvars)
<1>1. Shuts' = Shuts
  BY NothingChanged
<1>2. PICK k \in Keys : k = call[c].key /\ k # None
        /\ Shuts[k] = entry[call[c].gate].left
  BY GateIsQuota
<1>3. CASE call[c].at = "sending" /\ call'[c].at # "sending"
  <2>1. Askings' = [Askings EXCEPT ![c] = None] /\ Askings[c] # None
    BY <1>2, <1>3, OneAsks DEF Askings
  <2> QED
    BY <1>1, <2>1, ServeGoes
<1>4. CASE call[c].at # "sending" /\ call'[c].at = "sending"
  <2>1. Askings' = [Askings EXCEPT ![c] = k] /\ Askings[c] = None
    BY <1>2, <1>4, OneAsks DEF Askings
  <2> QED
    BY <1>1, <1>2, <1>4, <2>1, AskGoes
<1>5. CASE (call[c].at = "sending") <=> (call'[c].at = "sending")
  <2>1. Askings' = Askings
    BY <1>5 DEF Askings
  <2> QED
    BY <1>1, <2>1, NothingSeen
<1> QED
  BY <1>3, <1>4, <1>5

LEMMA MovingSeen ==
  ASSUME QInv, NEW c \in Calls,
         TransientFailure(c) \/ RetryOpen(c) \/ Wake(c)
  PROVE  [Promise!QuotaNext]_(Promise!qvars)
<1>1. Under(c) /\ gates' = gates /\ entry' = entry
  BY DEF TransientFailure, RetryOpen, Wake, Under
<1>2. call' \in [Calls -> CallRecord]
  BY MovingKeeps DEF QInv, QuotaTypeOK
<1>3. entry[call[c].gate].left \in Nat
  BY <1>1, GateIsQuota
<1>4. call \in [Calls -> CallRecord] /\ call[c] \in CallRecord
  BY DEF QInv, QuotaTypeOK
<1>5. \A d \in Calls \ {c} : call'[d] = call[d]
  BY <1>4 DEF TransientFailure, RetryOpen, Wake
<1>6. call'[c].key = call[c].key
  BY <1>4 DEF TransientFailure, RetryOpen, Wake, CallRecord
<1>7. \/ call[c].at = "sending"
      \/ call'[c].at # "sending"
      \/ entry[call[c].gate].left = 0
  <2>1. CASE TransientFailure(c)
    BY <2>1 DEF TransientFailure
  <2>2. CASE RetryOpen(c)
    BY <1>3, <2>2 DEF RetryOpen, IsShut
  <2>3. CASE Wake(c)
    BY <1>3, <1>4, <2>3 DEF Wake, StillShut, IsShut, CallRecord
  <2> QED
    BY <2>1, <2>2, <2>3
<1> QED
  BY <1>1, <1>2, <1>5, <1>6, <1>7, MoveSeen

LEMMA RetryShutSeen ==
  ASSUME QInv, NEW c \in Calls, RetryShut(c)
  PROVE  [Promise!QuotaNext]_(Promise!qvars)
<1> DEFINE left == entry[call[c].gate].left
<1>1. Under(c) /\ (\/ /\ call' = [call EXCEPT ![c].at = "sleeping", ![c].timer = left]
                      /\ gates' = gates /\ entry' = entry
                   \/ Leave(c))
  BY DEF RetryShut, Under
<1>2. CASE /\ call' = [call EXCEPT ![c].at = "sleeping", ![c].timer = left]
           /\ gates' = gates /\ entry' = entry
  <2>1. call \in [Calls -> CallRecord] /\ call[c] \in CallRecord
    BY DEF QInv, QuotaTypeOK
  <2>2. call' \in [Calls -> CallRecord]
    BY RetryShutKeeps DEF QInv, QuotaTypeOK
  <2>3. /\ \A d \in Calls \ {c} : call'[d] = call[d]
        /\ call'[c].key = call[c].key /\ call'[c].at = "sleeping"
    BY <1>2, <2>1 DEF CallRecord
  <2> QED
    BY <1>1, <1>2, <2>2, <2>3, MoveSeen
<1> QED
  BY <1>1, <1>2, LeavingSeen

\* A refusal shuts the quota of the call, and no other.
LEMMA RefusalShuts ==
  ASSUME RInv, NEW c \in Calls, Under(c), NEW d \in Intervals, NEW e \in EntryRecord,
         e.left = Longer(entry[call[c].gate].left, d),
         entry' = [entry EXCEPT ![call[c].gate] = e], gates' = gates
  PROVE  Shuts' = [Shuts EXCEPT ![call[c].key] = IF @ < d THEN d ELSE @]
<1>1. PICK k \in Keys, g \in Gates :
        /\ k = call[c].key /\ g = call[c].gate /\ gates[k] = g
        /\ Shuts[k] = entry[g].left
  BY GateIsQuota DEF RInv
<1>2. None \notin Gates
  BY QuotaAssumption DEF QuotaAssumption
<1>3. /\ entry \in [Gates -> EntryRecord]
      /\ \A x \in Keys : gates[x] = None \/ gates[x] \in Gates
  BY DEF RInv, QInv, QuotaTypeOK
<1>4. entry'[g] = e /\ \A h \in Gates \ {g} : entry'[h] = entry[h]
  BY <1>1, <1>3
<1>5. \A x \in Keys \ {k} : gates[x] # g
  BY <1>1, <1>2 DEF RInv, OwnGates
<1>6. \A x \in Keys \ {k} : Shuts'[x] = Shuts[x]
  BY <1>3, <1>4, <1>5 DEF Shuts
<1>7. Shuts'[k] = IF Shuts[k] < d THEN d ELSE Shuts[k]
  BY <1>1, <1>2, <1>4 DEF Shuts, Longer
<1> QED
  BY <1>1, <1>6, <1>7 DEF Shuts

LEMMA RefusedSeen ==
  ASSUME RInv, NEW c \in Calls, NEW ms \in Intervals, Refused(c, ms)
  PROVE  [Promise!QuotaNext]_(Promise!qvars)
<1> DEFINE n == call[c].attempt + 1
           m == IF n < MaxAttempts THEN n ELSE MaxAttempts
<1>0. QInv
  BY DEF RInv
<1>1. Under(c) /\ gates' = gates /\ call[c].at = "sending"
  BY DEF Refused, Under
<1>2. PICK k \in Keys, g \in Gates :
        /\ k = call[c].key /\ k # None /\ g = call[c].gate
        /\ Shuts[k] = entry[g].left /\ entry[g].left \in Nat
  BY <1>0, <1>1, GateIsQuota
<1>3. /\ call[c] \in CallRecord /\ entry[g] \in EntryRecord
      /\ call \in [Calls -> CallRecord] /\ entry \in [Gates -> EntryRecord]
      /\ call[c].strategy \in {"report", "wait", "own"}
  BY <1>0 DEF QInv, QuotaTypeOK, CallRecord
<1>4. PICK d \in Decide(call[c].strategy, n, ms) :
        LET left == Longer(entry[g].left, d.wait)
            e    == [entry[g] EXCEPT !.left = left]
        IN
        IF d.retry
        THEN /\ entry' = [entry EXCEPT ![g] = e]
             /\ call' = [call EXCEPT
                  ![c].at = IF left > 0 THEN "sleeping" ELSE "sending",
                  ![c].timer = left,
                  ![c].attempt = m]
        ELSE /\ entry' = [entry EXCEPT ![g] = Release(e)]
             /\ call' = [call EXCEPT ![c] = NoCall]
  BY <1>2 DEF Refused
<1> DEFINE left == Longer(entry[g].left, d.wait)
           e    == [entry[g] EXCEPT !.left = left]
<1>5. d.wait \in Intervals /\ d.wait \in Nat
  BY <1>3, DecideDelays, QuotaAssumption DEF QuotaAssumption
<1>6. left \in Nat
  BY <1>2, <1>5 DEF Longer
<1>7. e \in EntryRecord
  BY <1>3, <1>6, Zenon DEF EntryRecord
<1>8. e.left = left /\ e.leases = entry[g].leases
  BY <1>3 DEF EntryRecord
<1>9. PICK x \in EntryRecord : entry' = [entry EXCEPT ![g] = x] /\ x.left = left
  <2>1. CASE d.retry
    BY <1>4, <1>7, <1>8, <2>1
  <2>2. CASE ~d.retry
    <3>1. e.leases # 0
      BY <1>0, <1>1, <1>2, <1>8, HeldIsLeased
    <3>2. Release(e) \in EntryRecord /\ Release(e).left = left
      BY <1>7, <1>8, <3>1, ReleaseTyped, LeaseLeaves
    <3> QED
      BY <1>4, <2>2, <3>2
  <2> QED
    BY <2>1, <2>2
<1>10. Shuts' = [Shuts EXCEPT ![k] = IF @ < d.wait THEN d.wait ELSE @]
  BY <1>1, <1>2, <1>5, <1>9, RefusalShuts
<1>11. call' \in [Calls -> CallRecord]
  BY <1>0, RefusedKeeps DEF QInv, QuotaTypeOK
<1>12. \A y \in Calls \ {c} : call'[y] = call[y]
  BY <1>3, <1>4
<1>13. Askings[c] = k
  BY <1>1, <1>2 DEF Askings
<1>14. CASE call'[c].at # "sending"
  <2>1. Askings' = [Askings EXCEPT ![c] = None]
    BY <1>0, <1>11, <1>12, <1>14, OneAsks
  <2> QED
    BY <1>2, <1>5, <1>10, <1>13, <2>1, TurnDownGoes
<1>15. CASE call'[c].at = "sending"
  <2>1. d.retry
    BY <1>3, <1>4, <1>15, NoCallTyped
  <2>2. /\ call'[c].at = IF left > 0 THEN "sleeping" ELSE "sending"
        /\ call'[c].key = call[c].key
    BY <1>3, <1>4, <2>1 DEF CallRecord
  <2>3. entry[g].left = 0 /\ d.wait = 0
    BY <1>2, <1>5, <1>15, <2>2 DEF Longer
  <2>4. Shuts' = Shuts
    BY <1>2, <1>10, <2>3 DEF Shuts
  <2>5. Askings' = Askings
    BY <1>1, <1>12, <1>15, <2>2 DEF Askings
  <2> QED
    BY <2>4, <2>5, NothingSeen
<1> QED
  BY <1>14, <1>15

LEMMA PruneSeen ==
  ASSUME QInv, PruneQuotaGates
  PROVE  [Promise!QuotaNext]_(Promise!qvars)
<1>1. /\ gates' = [k \in Keys |-> IF k \in StaleKeys THEN None ELSE gates[k]]
      /\ entry' = entry /\ call' = call
  BY DEF PruneQuotaGates
<1>2. \A x \in StaleKeys : gates[x] # None /\ Evictable(gates[x])
  BY DEF StaleKeys, Stale, Tracked
<1>3. \A x \in Keys :
        \/ gates'[x] = gates[x] /\ (gates[x] = None
                                     \/ entry'[gates[x]].left = entry[gates[x]].left)
        \/ gates[x] # None /\ Evictable(gates[x]) /\ gates'[x] = None
  BY <1>1, <1>2
<1>4. Shuts' = Shuts
  BY <1>3, NothingShut
<1>5. Askings' = Askings
  BY <1>1 DEF Askings
<1> QED
  BY <1>4, <1>5, NothingSeen

LEMMA TickSeen ==
  ASSUME QInv, Tick
  PROVE  [Promise!QuotaNext]_(Promise!qvars)
<1>1. /\ entry \in [Gates -> EntryRecord] /\ call \in [Calls -> CallRecord]
      /\ \A x \in Keys : gates[x] = None \/ gates[x] \in Gates
      /\ gates' = gates
  BY DEF QInv, QuotaTypeOK, Tick
<1>2. \A g \in Gates : entry[g].left \in Nat /\ entry'[g].left = Less(entry[g].left)
  BY <1>1 DEF Tick, EntryRecord
<1>3. \A c \in Calls : call'[c].at = call[c].at /\ call'[c].key = call[c].key
  BY <1>1 DEF Tick, CallRecord
<1>4. Askings' = Askings
  BY <1>3 DEF Askings
<1>5. ASSUME NEW x \in Keys
      PROVE  Shuts'[x] = IF Shuts[x] = 0 THEN 0 ELSE Shuts[x] - 1
  BY <1>1, <1>2 DEF Shuts, Less
<1>6. Shuts' = [x \in Keys |-> IF Shuts[x] = 0 THEN 0 ELSE Shuts[x] - 1]
  BY <1>5 DEF Shuts
<1> QED
  BY <1>4, <1>6, TimeGoes

LEMMA InitGoes == Init => Promise!QuotaInit
<1> SUFFICES ASSUME Init PROVE Promise!QuotaInit
  OBVIOUS
<1>1. \A c \in Calls : call[c].at = "out"
  BY NoCallTyped DEF Init
<1> QED
  BY <1>1 DEF Init, Promise!QuotaInit

LEMMA StepGoes == RInv /\ [Next]_vars => [Promise!QuotaNext]_(Promise!qvars)
<1> SUFFICES ASSUME RInv, [Next]_vars PROVE [Promise!QuotaNext]_(Promise!qvars)
  OBVIOUS
<1>0. QInv
  BY DEF RInv
<1>1. ASSUME NEW c \in Calls, NEW k \in Keys, NEW s \in Strategies,
             EnterNew(c, k, s) \/ EnterOpen(c, k, s) \/ EnterShut(c, k, s)
      PROVE  [Promise!QuotaNext]_(Promise!qvars)
  BY <1>0, <1>1, EnterNewSeen, EnterOpenSeen, EnterShutSeen
<1>2. ASSUME NEW c \in Calls, NEW ms \in Intervals, Refused(c, ms)
      PROVE  [Promise!QuotaNext]_(Promise!qvars)
  BY <1>2, RefusedSeen
<1>3. ASSUME NEW c \in Calls, TransientFailure(c) \/ RetryOpen(c) \/ Wake(c)
      PROVE  [Promise!QuotaNext]_(Promise!qvars)
  BY <1>0, <1>3, MovingSeen
<1>4. ASSUME NEW c \in Calls, RetryShut(c)
      PROVE  [Promise!QuotaNext]_(Promise!qvars)
  BY <1>0, <1>4, RetryShutSeen
<1>5. ASSUME NEW c \in Calls, Answered(c) \/ Abort(c)
      PROVE  [Promise!QuotaNext]_(Promise!qvars)
  <2>1. Under(c) /\ Leave(c)
    BY <1>5 DEF Answered, Abort, Under
  <2> QED
    BY <1>0, <2>1, LeavingSeen
<1>6. CASE UNCHANGED vars
  <2>1. Askings' = Askings /\ Shuts' = Shuts
    BY <1>6 DEF vars, Askings, Shuts
  <2> QED
    BY <2>1, NothingSeen
<1> QED
  BY <1>0, <1>1, <1>2, <1>3, <1>4, <1>5, <1>6, PruneSeen, TickSeen DEF Next

\* For every number of quotas, callers, gates and strategies: no request is spent on a
\* quota that somebody was told is shut, whatever runWithThrottleRetry() sleeps through
\* and whatever gateFor() and pruneQuotaGates() evict and mint meanwhile.
THEOREM ThrottleImplementsQuota == Spec => ImplementsQuota
<1>1. Promise!QuotaInit /\ [][Promise!QuotaNext]_(Promise!qvars) => Promise!QuotaSpec
  BY DEF Promise!QuotaSpec
<1> QED
  BY <1>1, InitGoes, RInvInit, RInvStays, StepGoes, PTL DEF Spec, ImplementsQuota

=============================================================================
