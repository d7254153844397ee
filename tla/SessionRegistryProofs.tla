------------------------ MODULE SessionRegistryProofs ------------------------
(***************************************************************************)
(* The safety of SessionRegistry, and of what its graphs own (SessionRe-   *)
(* sources), proved for every number of sessions, requests and builds and  *)
(* every bound.                                                            *)
(***************************************************************************)
EXTENDS SessionResources, FiniteSetTheorems, TLAPS

-----------------------------------------------------------------------------
(* The inductive invariant.                                                *)

\* A request that awaits or holds a graph names one; what it holds is built.
RequestNamesGraph ==
  \A r \in Requests :
    /\ req[r].pc # "idle" => req[r].graph \in Graphs
    /\ req[r].pc = "holding" => graph[req[r].graph].phase = "ready"

\* What acquire() finds is built, its session's, current and not disposed.
ServedIsGood ==
  \A s \in Sessions : graphs[s] # None =>
    LET g == graph[graphs[s]] IN
    g.phase = "ready" /\ g.sid = s /\ g.gen = generation /\ ~g.disposed

\* What drains is marked, still pinned by the requests it drains, and not served.
DrainingIsPinned ==
  \A s \in Sessions : draining[s] # None =>
    LET g == graph[draining[s]] IN
    /\ g.phase = "ready" /\ g.sid = s /\ g.marked /\ g.active > 0
    /\ graphs[s] # draining[s]

\* Only a graph that was built has ever been pinned.
UnbuiltUnpinned ==
  \A g \in Graphs : graph[g].phase # "ready" => graph[g].active = 0

\* A build is for a session and of no later generation; one of the current generation
\* has that session's entry in pendingBuilds, ...
CurrentBuildPending ==
  \A g \in Graphs : graph[g].phase = "building" =>
    /\ graph[g].sid \in Sessions
    /\ graph[g].gen <= generation /\ ~graph[g].disposed
    /\ graph[g].gen = generation => pendingBuilds[graph[g].sid] = g

\* ... and pendingBuilds holds nothing else, for no session that has a graph.
PendingIsCurrent ==
  \A s \in Sessions : pendingBuilds[s] # None =>
    LET g == graph[pendingBuilds[s]] IN
    g.phase = "building" /\ g.sid = s /\ g.gen = generation /\ graphs[s] = None

\* disposeAll() awaits every build in flight, and leaves nothing behind.
ShutdownCovers ==
  /\ shutdown = "awaitingBuilds" => InFlight \subseteq shutdownWait
  /\ shutdown \in {"flushing", "returned"} =>
       \A s \in Sessions : /\ graphs[s] = None
                           /\ draining[s] = None
                           /\ pendingBuilds[s] = None

IInv ==
  /\ TypeOK
  /\ RequestNamesGraph
  /\ ServedIsGood
  /\ DrainingIsPinned
  /\ UnbuiltUnpinned
  /\ CurrentBuildPending
  /\ PendingIsCurrent
  /\ ShutdownCovers
  /\ NothingLost
  /\ NoDisposeWhilePinned

-----------------------------------------------------------------------------
(* Updates of the SessionGraph objects stay in their type.                 *)

LEMMA DisposeTyped ==
  ASSUME NEW x \in GraphRecord
  PROVE  [x EXCEPT !.disposed = TRUE] \in GraphRecord
  BY Zenon DEF GraphRecord

LEMMA MarkTyped ==
  ASSUME NEW x \in GraphRecord
  PROVE  [x EXCEPT !.marked = TRUE] \in GraphRecord
  BY Zenon DEF GraphRecord

LEMMA PhaseTyped ==
  ASSUME NEW x \in GraphRecord, NEW p \in Phases
  PROVE  [x EXCEPT !.phase = p] \in GraphRecord
  BY Zenon DEF GraphRecord

LEMMA ActiveTyped ==
  ASSUME NEW x \in GraphRecord, NEW n \in Nat
  PROVE  [x EXCEPT !.active = n] \in GraphRecord
  BY Zenon DEF GraphRecord

LEMMA LastUsedTyped ==
  ASSUME NEW x \in GraphRecord, NEW t \in Nat
  PROVE  [x EXCEPT !.lastUsed = t] \in GraphRecord
  BY Zenon DEF GraphRecord

LEMMA UseTyped ==
  ASSUME NEW gr \in [Graphs -> GraphRecord], NEW g \in Graphs,
         NEW n \in Nat, NEW t \in Nat
  PROVE  [gr EXCEPT ![g].active = n, ![g].lastUsed = t]
           \in [Graphs -> GraphRecord]
<1>1. [gr EXCEPT ![g].active = n] \in [Graphs -> GraphRecord]
  BY ActiveTyped
<1> QED
  BY <1>1, LastUsedTyped

LEMMA DisposeFlagsTyped ==
  ASSUME NEW gr \in [Graphs -> GraphRecord], NEW S
  PROVE  DisposeFlags(gr, S) \in [Graphs -> GraphRecord]
  BY DisposeTyped DEF DisposeFlags

LEMMA AcquireJoinKeeps ==
  ASSUME IInv, NEW r \in Requests, NEW s \in Sessions, AcquireJoin(r, s)
  PROVE  IInv'
<1> USE RegistryAssumption DEF IInv, TypeOK, SlotMap, ReqRecord,
      Stages, AcquireJoin, closed, Live, Detached, Pinned, InFlight
<1>0. graph' \in [Graphs -> GraphRecord]
  BY DEF GraphRecord, Phases
<1> USE DEF GraphRecord, Phases
<1>1. TypeOK'
  BY <1>0
<1>2. RequestNamesGraph'
  BY DEF RequestNamesGraph
<1>3. ServedIsGood'
  BY DEF ServedIsGood, RequestNamesGraph
<1>4. DrainingIsPinned'
  BY DEF DrainingIsPinned, RequestNamesGraph, ServedIsGood
<1>5. UnbuiltUnpinned'
  BY DEF UnbuiltUnpinned, ServedIsGood, RequestNamesGraph
<1>6. CurrentBuildPending'
  BY DEF CurrentBuildPending, ServedIsGood, RequestNamesGraph
<1>7. PendingIsCurrent'
  BY DEF PendingIsCurrent, ServedIsGood, CurrentBuildPending
<1>8. ShutdownCovers'
  BY DEF ShutdownCovers, PendingIsCurrent
<1>9. NothingLost'
  BY DEF NothingLost, RequestNamesGraph, ServedIsGood, DrainingIsPinned, PendingIsCurrent, CurrentBuildPending
<1>10. NoDisposeWhilePinned'
  BY DEF NoDisposeWhilePinned, UnbuiltUnpinned, RequestNamesGraph, ServedIsGood
<1> QED
  BY <1>1, <1>2, <1>3, <1>4, <1>5, <1>6, <1>7, <1>8, <1>9, <1>10

LEMMA AcquireBuildKeeps ==
  ASSUME IInv, NEW r \in Requests, NEW s \in Sessions, NEW g \in Graphs, AcquireBuild(r, s, g)
  PROVE  IInv'
<1> USE RegistryAssumption DEF IInv, TypeOK, SlotMap, ReqRecord,
      Stages, AcquireBuild, NoGraph, NoBuild, closed, Live, Detached, Pinned, InFlight
<1>0. graph' \in [Graphs -> GraphRecord]
  BY DEF GraphRecord, Phases
<1> USE DEF GraphRecord, Phases
<1>1. TypeOK'
  BY <1>0
<1>2. RequestNamesGraph'
  BY DEF RequestNamesGraph
<1>3. ServedIsGood'
  BY DEF ServedIsGood, RequestNamesGraph
<1>4. DrainingIsPinned'
  BY DEF DrainingIsPinned, RequestNamesGraph, ServedIsGood
<1>5. UnbuiltUnpinned'
  BY DEF UnbuiltUnpinned, ServedIsGood, RequestNamesGraph
<1>6. CurrentBuildPending'
  BY DEF CurrentBuildPending, ServedIsGood, RequestNamesGraph
<1>7. PendingIsCurrent'
  BY DEF PendingIsCurrent, ServedIsGood, CurrentBuildPending
<1>8. ShutdownCovers'
  BY DEF ShutdownCovers, PendingIsCurrent
<1>9. NothingLost'
  BY DEF NothingLost, RequestNamesGraph, ServedIsGood, DrainingIsPinned, PendingIsCurrent, CurrentBuildPending
<1>10. NoDisposeWhilePinned'
  BY DEF NoDisposeWhilePinned, UnbuiltUnpinned, RequestNamesGraph, ServedIsGood
<1> QED
  BY <1>1, <1>2, <1>3, <1>4, <1>5, <1>6, <1>7, <1>8, <1>9, <1>10

LEMMA BuildOrphanedKeeps ==
  ASSUME IInv, NEW g \in Graphs, BuildOrphaned(g)
  PROVE  IInv'
<1> USE RegistryAssumption DEF IInv, TypeOK, SlotMap, ReqRecord,
      Stages, BuildOrphaned, Stale, ClearIfMine, closed, Live, Detached, Pinned, InFlight
<1>0. graph' \in [Graphs -> GraphRecord]
  BY DisposeTyped, PhaseTyped DEF Phases
<1> USE DEF GraphRecord, Phases
<1>1. TypeOK'
  BY <1>0
<1>2. RequestNamesGraph'
  BY DEF RequestNamesGraph
<1>3. ServedIsGood'
  BY DEF ServedIsGood, RequestNamesGraph
<1>4. DrainingIsPinned'
  BY DEF DrainingIsPinned, RequestNamesGraph, ServedIsGood
<1>5. UnbuiltUnpinned'
  BY DEF UnbuiltUnpinned, ServedIsGood, RequestNamesGraph
<1>6. CurrentBuildPending'
  BY DEF CurrentBuildPending, ServedIsGood, RequestNamesGraph
<1>7. PendingIsCurrent'
  BY DEF PendingIsCurrent, ServedIsGood, CurrentBuildPending
<1>8. ShutdownCovers'
  BY DEF ShutdownCovers, PendingIsCurrent
<1>9. NothingLost'
  BY DEF NothingLost, RequestNamesGraph, ServedIsGood, DrainingIsPinned, PendingIsCurrent, CurrentBuildPending
<1>10. NoDisposeWhilePinned'
  BY DEF NoDisposeWhilePinned, UnbuiltUnpinned, RequestNamesGraph, ServedIsGood
<1> QED
  BY <1>1, <1>2, <1>3, <1>4, <1>5, <1>6, <1>7, <1>8, <1>9, <1>10

LEMMA BuildFailsKeeps ==
  ASSUME IInv, NEW g \in Graphs, BuildFails(g)
  PROVE  IInv'
<1> USE RegistryAssumption DEF IInv, TypeOK, SlotMap, ReqRecord,
      Stages, BuildFails, ClearIfMine, closed, Live, Detached, Pinned, InFlight
<1>0. graph' \in [Graphs -> GraphRecord]
  BY PhaseTyped DEF Phases
<1> USE DEF GraphRecord, Phases
<1>1. TypeOK'
  BY <1>0
<1>2. RequestNamesGraph'
  BY DEF RequestNamesGraph
<1>3. ServedIsGood'
  BY DEF ServedIsGood, RequestNamesGraph
<1>4. DrainingIsPinned'
  BY DEF DrainingIsPinned, RequestNamesGraph, ServedIsGood
<1>5. UnbuiltUnpinned'
  BY DEF UnbuiltUnpinned, ServedIsGood, RequestNamesGraph
<1>6. CurrentBuildPending'
  BY DEF CurrentBuildPending, ServedIsGood, RequestNamesGraph
<1>7. PendingIsCurrent'
  BY DEF PendingIsCurrent, ServedIsGood, CurrentBuildPending
<1>8. ShutdownCovers'
  BY DEF ShutdownCovers, PendingIsCurrent
<1>9. NothingLost'
  BY DEF NothingLost, RequestNamesGraph, ServedIsGood, DrainingIsPinned, PendingIsCurrent, CurrentBuildPending
<1>10. NoDisposeWhilePinned'
  BY DEF NoDisposeWhilePinned, UnbuiltUnpinned, RequestNamesGraph, ServedIsGood
<1> QED
  BY <1>1, <1>2, <1>3, <1>4, <1>5, <1>6, <1>7, <1>8, <1>9, <1>10

LEMMA EvictOneKeeps ==
  ASSUME IInv, NEW s \in Sessions, EvictOne(s)
  PROVE  IInv'
<1> USE RegistryAssumption DEF IInv, TypeOK, SlotMap, ReqRecord,
      Stages, EvictOne, EvictAndFlush, NewlyTorn, Without, closed, Live, Detached, Pinned, InFlight
<1>0. graph' \in [Graphs -> GraphRecord]
  BY DisposeFlagsTyped, MarkTyped DEF Phases
<1> USE DEF GraphRecord, Phases, DisposeFlags
<1>1. TypeOK'
  BY <1>0
<1>p. \A h \in Graphs : graph'[h].phase = graph[h].phase
  BY SMTT(30)
<1>2. RequestNamesGraph'
  BY <1>p DEF RequestNamesGraph
<1>3. ServedIsGood'
  BY DEF ServedIsGood, RequestNamesGraph
<1>4. DrainingIsPinned'
  BY DEF DrainingIsPinned, RequestNamesGraph, ServedIsGood
<1>5. UnbuiltUnpinned'
  BY DEF UnbuiltUnpinned, ServedIsGood, RequestNamesGraph
<1>6. CurrentBuildPending'
  BY DEF CurrentBuildPending, ServedIsGood, RequestNamesGraph
<1>7. PendingIsCurrent'
  <2>1. CASE graph[graphs[s]].active > 0
    BY <2>1 DEF PendingIsCurrent
  <2>2. CASE ~(graph[graphs[s]].active > 0)
    BY <2>2 DEF PendingIsCurrent
  <2> QED
    BY <2>1, <2>2
<1>8. ShutdownCovers'
  BY DEF ShutdownCovers, PendingIsCurrent
<1>9. NothingLost'
  BY DEF NothingLost, RequestNamesGraph, ServedIsGood, DrainingIsPinned, PendingIsCurrent, CurrentBuildPending
<1>10. NoDisposeWhilePinned'
  BY DEF NoDisposeWhilePinned, UnbuiltUnpinned, RequestNamesGraph, ServedIsGood
<1> QED
  BY <1>1, <1>2, <1>3, <1>4, <1>5, <1>6, <1>7, <1>8, <1>9, <1>10

LEMMA EvictIdleKeeps ==
  ASSUME IInv, EvictIdle
  PROVE  IInv'
<1> USE RegistryAssumption DEF IInv, TypeOK, SlotMap, ReqRecord,
      Stages, EvictIdle, IdleGraphs, EvictAndFlush, NewlyTorn, Without, closed, Live, Detached, Pinned, InFlight
<1>0. graph' \in [Graphs -> GraphRecord]
  BY DisposeFlagsTyped DEF Phases
<1> USE DEF GraphRecord, Phases, DisposeFlags
<1>1. TypeOK'
  BY <1>0
<1>2. RequestNamesGraph'
  BY DEF RequestNamesGraph
<1>3. ServedIsGood'
  BY DEF ServedIsGood, RequestNamesGraph
<1>4. DrainingIsPinned'
  BY DEF DrainingIsPinned, RequestNamesGraph, ServedIsGood
<1>5. UnbuiltUnpinned'
  BY DEF UnbuiltUnpinned, ServedIsGood, RequestNamesGraph
<1>6. CurrentBuildPending'
  BY DEF CurrentBuildPending, ServedIsGood, RequestNamesGraph
<1>7. PendingIsCurrent'
  BY DEF PendingIsCurrent, ServedIsGood, CurrentBuildPending
<1>8. ShutdownCovers'
  BY DEF ShutdownCovers, PendingIsCurrent
<1>9. NothingLost'
  BY DEF NothingLost, RequestNamesGraph, ServedIsGood, DrainingIsPinned, PendingIsCurrent, CurrentBuildPending
<1>10. NoDisposeWhilePinned'
  BY DEF NoDisposeWhilePinned, UnbuiltUnpinned, RequestNamesGraph, ServedIsGood
<1> QED
  BY <1>1, <1>2, <1>3, <1>4, <1>5, <1>6, <1>7, <1>8, <1>9, <1>10

\* What was served and pinned drains on, what drained still does.
LEMMA InvalidateAllDrains ==
  ASSUME IInv, InvalidateAll
  PROVE  DrainingIsPinned'
<1>0. /\ graph \in [Graphs -> GraphRecord] /\ graphs \in SlotMap /\ draining \in SlotMap
      /\ None \notin Graphs /\ ServedIsGood /\ DrainingIsPinned
  BY RegistryAssumption DEF IInv, TypeOK, RegistryAssumption
<1>1. \A h \in Graphs :
        /\ graph'[h].phase = graph[h].phase /\ graph'[h].sid = graph[h].sid
        /\ graph'[h].active = graph[h].active
        /\ graph[h].marked \/ (h \in Live /\ Pinned(h)) => graph'[h].marked
  BY <1>0 DEF InvalidateAll, DisposeFlags, GraphRecord
<1> SUFFICES ASSUME NEW s \in Sessions, draining'[s] # None
             PROVE  LET g == graph'[draining'[s]] IN
                    /\ g.phase = "ready" /\ g.sid = s /\ g.marked /\ g.active > 0
                    /\ graphs'[s] # draining'[s]
  BY DEF DrainingIsPinned
<1>2. /\ graphs'[s] = None
      /\ draining'[s] = IF graphs[s] \in {g \in Live : Pinned(g)}
                        THEN graphs[s] ELSE draining[s]
  BY DEF InvalidateAll
<1>3. CASE graphs[s] \in {g \in Live : Pinned(g)}
  <2>1. /\ draining'[s] = graphs[s] /\ graphs[s] \in Live /\ Pinned(graphs[s])
        /\ graphs[s] # None /\ graphs[s] \in Graphs
    BY <1>0, <1>2, <1>3 DEF Live, SlotMap
  <2>2. graph[graphs[s]].phase = "ready" /\ graph[graphs[s]].sid = s
    BY <1>0, <2>1 DEF ServedIsGood
  <2> QED
    BY <1>1, <1>2, <2>1, <2>2 DEF Pinned
<1>4. CASE graphs[s] \notin {g \in Live : Pinned(g)}
  <2>1. draining'[s] = draining[s] /\ draining[s] \in Graphs
    BY <1>0, <1>2, <1>4 DEF SlotMap
  <2> QED
    BY <1>0, <1>1, <1>2, <2>1 DEF DrainingIsPinned
<1> QED
  BY <1>3, <1>4

LEMMA InvalidateAllKeeps ==
  ASSUME IInv, InvalidateAll
  PROVE  IInv'
<1> USE RegistryAssumption DEF IInv, TypeOK, SlotMap, ReqRecord,
      Stages, InvalidateAll, NewlyTorn, closed, Live, Detached, Pinned, InFlight
<1>0. graph' \in [Graphs -> GraphRecord]
  BY DisposeFlagsTyped, MarkTyped DEF Phases
<1> USE DEF GraphRecord, Phases, DisposeFlags
<1>1. TypeOK'
  <2>1. draining' \in SlotMap /\ graphs' \in SlotMap /\ pendingBuilds' \in SlotMap
    OBVIOUS
  <2>2. tearing' \in SUBSET Graphs /\ generation' \in Nat
    OBVIOUS
  <2> QED
    BY <1>0, <2>1, <2>2
<1>2. RequestNamesGraph'
  BY DEF RequestNamesGraph
<1>3. ServedIsGood'
  BY DEF ServedIsGood, RequestNamesGraph
<1>4. DrainingIsPinned'
  BY InvalidateAllDrains
<1>5. UnbuiltUnpinned'
  BY DEF UnbuiltUnpinned, ServedIsGood, RequestNamesGraph
<1>6. CurrentBuildPending'
  BY DEF CurrentBuildPending, ServedIsGood, RequestNamesGraph
<1>7. PendingIsCurrent'
  BY DEF PendingIsCurrent, ServedIsGood, CurrentBuildPending
<1>8. ShutdownCovers'
  BY DEF ShutdownCovers, PendingIsCurrent
<1>9. NothingLost'
  BY DEF NothingLost, RequestNamesGraph, ServedIsGood, DrainingIsPinned, PendingIsCurrent, CurrentBuildPending
<1>10. NoDisposeWhilePinned'
  BY DEF NoDisposeWhilePinned, UnbuiltUnpinned, RequestNamesGraph, ServedIsGood
<1> QED
  BY <1>1, <1>2, <1>3, <1>4, <1>5, <1>6, <1>7, <1>8, <1>9, <1>10

LEMMA DisposeAllBeginKeeps ==
  ASSUME IInv, DisposeAllBegin
  PROVE  IInv'
<1> USE RegistryAssumption DEF IInv, TypeOK, SlotMap, ReqRecord,
      Stages, DisposeAllBegin, closed, Live, Detached, Pinned, InFlight
<1>0. graph' \in [Graphs -> GraphRecord]
  BY DEF GraphRecord, Phases
<1> USE DEF GraphRecord, Phases
<1>1. TypeOK'
  BY <1>0
<1>2. RequestNamesGraph'
  BY DEF RequestNamesGraph
<1>3. ServedIsGood'
  BY DEF ServedIsGood, RequestNamesGraph
<1>4. DrainingIsPinned'
  BY DEF DrainingIsPinned, RequestNamesGraph, ServedIsGood
<1>5. UnbuiltUnpinned'
  BY DEF UnbuiltUnpinned, ServedIsGood, RequestNamesGraph
<1>6. CurrentBuildPending'
  BY DEF CurrentBuildPending, ServedIsGood, RequestNamesGraph
<1>7. PendingIsCurrent'
  BY DEF PendingIsCurrent, ServedIsGood, CurrentBuildPending
<1>8. ShutdownCovers'
  BY DEF ShutdownCovers, PendingIsCurrent
<1>9. NothingLost'
  BY DEF NothingLost, RequestNamesGraph, ServedIsGood, DrainingIsPinned, PendingIsCurrent, CurrentBuildPending
<1>10. NoDisposeWhilePinned'
  BY DEF NoDisposeWhilePinned, UnbuiltUnpinned, RequestNamesGraph, ServedIsGood
<1> QED
  BY <1>1, <1>2, <1>3, <1>4, <1>5, <1>6, <1>7, <1>8, <1>9, <1>10

LEMMA DisposeAllSweepKeeps ==
  ASSUME IInv, DisposeAllSweep
  PROVE  IInv'
<1> USE RegistryAssumption DEF IInv, TypeOK, SlotMap, ReqRecord,
      Stages, DisposeAllSweep, BuildsSettled, NewlyTorn, closed, Live, Detached, Pinned, InFlight
<1>0. graph' \in [Graphs -> GraphRecord]
  BY DisposeFlagsTyped DEF Phases
<1> USE DEF GraphRecord, Phases, DisposeFlags
<1>1. TypeOK'
  BY <1>0
<1>2. RequestNamesGraph'
  BY DEF RequestNamesGraph
<1>3. ServedIsGood'
  BY DEF ServedIsGood, RequestNamesGraph
<1>4. DrainingIsPinned'
  BY DEF DrainingIsPinned, RequestNamesGraph, ServedIsGood
<1>5. UnbuiltUnpinned'
  BY DEF UnbuiltUnpinned, ServedIsGood, RequestNamesGraph
<1>6. CurrentBuildPending'
  <2>1. ASSUME NEW g \in Graphs, graph[g].phase = "building",
               graph[g].gen = generation
        PROVE  FALSE
    <3>1. g \in InFlight
      BY <2>1 DEF CurrentBuildPending
    <3>2. shutdown = "awaitingBuilds" /\ g \in shutdownWait
      BY <3>1 DEF ShutdownCovers
    <3> QED
      BY <2>1, <3>2
  <2>2. \A g \in Graphs : graph'[g].phase = graph[g].phase
                        /\ graph'[g].sid = graph[g].sid
                        /\ graph'[g].gen = graph[g].gen
    OBVIOUS
  <2> QED
    BY <2>1, <2>2 DEF CurrentBuildPending, ServedIsGood, DrainingIsPinned
<1>7. PendingIsCurrent'
  BY DEF PendingIsCurrent, ServedIsGood, CurrentBuildPending
<1>8. ShutdownCovers'
  BY DEF ShutdownCovers, PendingIsCurrent
<1>9. NothingLost'
  BY DEF NothingLost, RequestNamesGraph, ServedIsGood, DrainingIsPinned, PendingIsCurrent, CurrentBuildPending
<1>10. NoDisposeWhilePinned'
  BY DEF NoDisposeWhilePinned, UnbuiltUnpinned, RequestNamesGraph, ServedIsGood
<1> QED
  BY <1>1, <1>2, <1>3, <1>4, <1>5, <1>6, <1>7, <1>8, <1>9, <1>10

LEMMA DisposeAllReturnKeeps ==
  ASSUME IInv, DisposeAllReturn
  PROVE  IInv'
<1> USE RegistryAssumption DEF IInv, TypeOK, SlotMap, ReqRecord,
      Stages, DisposeAllReturn, closed, Live, Detached, Pinned, InFlight
<1>0. graph' \in [Graphs -> GraphRecord]
  BY DEF GraphRecord, Phases
<1> USE DEF GraphRecord, Phases
<1>1. TypeOK'
  BY <1>0
<1>2. RequestNamesGraph'
  BY DEF RequestNamesGraph
<1>3. ServedIsGood'
  BY DEF ServedIsGood, RequestNamesGraph
<1>4. DrainingIsPinned'
  BY DEF DrainingIsPinned, RequestNamesGraph, ServedIsGood
<1>5. UnbuiltUnpinned'
  BY DEF UnbuiltUnpinned, ServedIsGood, RequestNamesGraph
<1>6. CurrentBuildPending'
  BY DEF CurrentBuildPending, ServedIsGood, RequestNamesGraph
<1>7. PendingIsCurrent'
  BY DEF PendingIsCurrent, ServedIsGood, CurrentBuildPending
<1>8. ShutdownCovers'
  BY DEF ShutdownCovers, PendingIsCurrent
<1>9. NothingLost'
  BY DEF NothingLost, RequestNamesGraph, ServedIsGood, DrainingIsPinned, PendingIsCurrent, CurrentBuildPending
<1>10. NoDisposeWhilePinned'
  BY DEF NoDisposeWhilePinned, UnbuiltUnpinned, RequestNamesGraph, ServedIsGood
<1> QED
  BY <1>1, <1>2, <1>3, <1>4, <1>5, <1>6, <1>7, <1>8, <1>9, <1>10

LEMMA TeardownDoneKeeps ==
  ASSUME IInv, NEW g \in Graphs, TeardownDone(g)
  PROVE  IInv'
<1> USE RegistryAssumption DEF IInv, TypeOK, SlotMap, ReqRecord,
      Stages, TeardownDone, closed, Live, Detached, Pinned, InFlight
<1>0. graph' \in [Graphs -> GraphRecord]
  BY DEF GraphRecord, Phases
<1> USE DEF GraphRecord, Phases
<1>1. TypeOK'
  BY <1>0
<1>2. RequestNamesGraph'
  BY DEF RequestNamesGraph
<1>3. ServedIsGood'
  BY DEF ServedIsGood, RequestNamesGraph
<1>4. DrainingIsPinned'
  BY DEF DrainingIsPinned, RequestNamesGraph, ServedIsGood
<1>5. UnbuiltUnpinned'
  BY DEF UnbuiltUnpinned, ServedIsGood, RequestNamesGraph
<1>6. CurrentBuildPending'
  BY DEF CurrentBuildPending, ServedIsGood, RequestNamesGraph
<1>7. PendingIsCurrent'
  BY DEF PendingIsCurrent, ServedIsGood, CurrentBuildPending
<1>8. ShutdownCovers'
  BY DEF ShutdownCovers, PendingIsCurrent
<1>9. NothingLost'
  BY DEF NothingLost, RequestNamesGraph, ServedIsGood, DrainingIsPinned, PendingIsCurrent, CurrentBuildPending
<1>10. NoDisposeWhilePinned'
  BY DEF NoDisposeWhilePinned, UnbuiltUnpinned, RequestNamesGraph, ServedIsGood
<1> QED
  BY <1>1, <1>2, <1>3, <1>4, <1>5, <1>6, <1>7, <1>8, <1>9, <1>10

LEMMA TickKeeps ==
  ASSUME IInv, Tick
  PROVE  IInv'
<1> USE RegistryAssumption DEF IInv, TypeOK, SlotMap, ReqRecord,
      Stages, Tick, closed, Live, Detached, Pinned, InFlight
<1>0. graph' \in [Graphs -> GraphRecord]
  BY DEF GraphRecord, Phases
<1> USE DEF GraphRecord, Phases
<1>1. TypeOK'
  BY <1>0
<1>2. RequestNamesGraph'
  BY DEF RequestNamesGraph
<1>3. ServedIsGood'
  BY DEF ServedIsGood, RequestNamesGraph
<1>4. DrainingIsPinned'
  BY DEF DrainingIsPinned, RequestNamesGraph, ServedIsGood
<1>5. UnbuiltUnpinned'
  BY DEF UnbuiltUnpinned, ServedIsGood, RequestNamesGraph
<1>6. CurrentBuildPending'
  BY DEF CurrentBuildPending, ServedIsGood, RequestNamesGraph
<1>7. PendingIsCurrent'
  BY DEF PendingIsCurrent, ServedIsGood, CurrentBuildPending
<1>8. ShutdownCovers'
  BY DEF ShutdownCovers, PendingIsCurrent
<1>9. NothingLost'
  BY DEF NothingLost, RequestNamesGraph, ServedIsGood, DrainingIsPinned, PendingIsCurrent, CurrentBuildPending
<1>10. NoDisposeWhilePinned'
  BY DEF NoDisposeWhilePinned, UnbuiltUnpinned, RequestNamesGraph, ServedIsGood
<1> QED
  BY <1>1, <1>2, <1>3, <1>4, <1>5, <1>6, <1>7, <1>8, <1>9, <1>10

LEMMA PinKeeps ==
  ASSUME IInv, NEW r \in Requests, NEW g \in Graphs,
         graph[g].phase = "ready", Pin(r, g),
         UNCHANGED <<graphs, draining, pendingBuilds, generation, tearing,
                     pending, shutdown, shutdownWait, clock>>
  PROVE  IInv'
<1>type. graph \in [Graphs -> GraphRecord] /\ clock \in Nat /\ generation \in Nat
         /\ req \in [Requests -> ReqRecord]
  BY DEF IInv, TypeOK
<1>0. graph' \in [Graphs -> GraphRecord]
  <2>1. CASE graph[g].disposed
    BY <1>type, <2>1 DEF Pin
  <2>2. CASE ~graph[g].disposed
    <3>1. graph[g].active + 1 \in Nat
      BY <1>type DEF GraphRecord
    <3>2. graph' = [graph EXCEPT ![g].active = graph[g].active + 1,
                                 ![g].lastUsed = clock]
      BY <2>2 DEF Pin
    <3> QED
      BY <1>type, <3>1, <3>2, UseTyped
  <2> QED
    BY <2>1, <2>2
<1>req. req' \in [Requests -> ReqRecord]
  <2>1. Idle \in ReqRecord
    BY DEF Idle, ReqRecord
  <2>2. [pc |-> "holding", graph |-> g, gen |-> generation] \in ReqRecord
    BY <1>type DEF ReqRecord
  <2> QED
    BY <1>type, <2>1, <2>2 DEF Pin
<1>point. \A h \in Graphs :
            /\ graph'[h].phase = graph[h].phase /\ graph'[h].sid = graph[h].sid
            /\ graph'[h].gen = graph[h].gen /\ graph'[h].marked = graph[h].marked
            /\ graph'[h].disposed = graph[h].disposed
            /\ h # g => graph'[h].active = graph[h].active
  BY <1>type DEF Pin, GraphRecord
<1>who. \A q \in Requests :
          /\ q # r => req'[q] = req[q]
          /\ req'[r].pc = "idle" \/ (req'[r].pc = "holding" /\ req'[r].graph = g)
  BY <1>type DEF Pin, Idle
<1>fresh. graph[g].disposed => graph' = graph
  BY DEF Pin
<1>2. RequestNamesGraph'
  BY <1>point, <1>who DEF IInv, RequestNamesGraph
<1>10. NoDisposeWhilePinned'
  BY <1>type, <1>point, <1>fresh DEF IInv, NoDisposeWhilePinned, Pinned, closed
<1> USE RegistryAssumption DEF IInv, TypeOK, SlotMap, ReqRecord, Stages, Pin, Idle,
      closed, Live, Detached, Pinned, InFlight, GraphRecord, Phases
<1>1. TypeOK'
  BY <1>0, <1>req
<1>3. ServedIsGood'
  BY DEF ServedIsGood, RequestNamesGraph
<1>4. DrainingIsPinned'
  BY DEF DrainingIsPinned, RequestNamesGraph, ServedIsGood
<1>5. UnbuiltUnpinned'
  BY <1>point DEF UnbuiltUnpinned
<1>6. CurrentBuildPending'
  BY <1>point DEF CurrentBuildPending
<1>7. PendingIsCurrent'
  BY DEF PendingIsCurrent, ServedIsGood, CurrentBuildPending
<1>8. ShutdownCovers'
  BY DEF ShutdownCovers, PendingIsCurrent
<1>9. NothingLost'
  BY DEF NothingLost, RequestNamesGraph, ServedIsGood, DrainingIsPinned, PendingIsCurrent, CurrentBuildPending
<1> QED
  BY <1>1, <1>2, <1>3, <1>4, <1>5, <1>6, <1>7, <1>8, <1>9, <1>10

LEMMA AcquireHitKeeps ==
  ASSUME IInv, NEW r \in Requests, NEW s \in Sessions, AcquireHit(r, s)
  PROVE  IInv'
<1>1. graphs[s] \in Graphs /\ graph[graphs[s]].phase = "ready"
  BY DEF AcquireHit, IInv, TypeOK, SlotMap, ServedIsGood
<1> QED
  BY <1>1, PinKeeps DEF AcquireHit

LEMMA ResumeAcquireKeeps ==
  ASSUME IInv, NEW r \in Requests, ResumeAcquire(r)
  PROVE  IInv'
<1> DEFINE g == req[r].graph
<1>1. g \in Graphs
  BY DEF ResumeAcquire, IInv, RequestNamesGraph
<1>2. CASE graph[g].phase = "rejected" \/ closed \/ generation # req[r].gen
  <2>1. req' = [req EXCEPT ![r] = Idle] /\ UNCHANGED graph
    BY <1>2 DEF ResumeAcquire
  <2> USE RegistryAssumption, <2>1 DEF ResumeAcquire, IInv, TypeOK, Idle, ReqRecord
  <2>2. TypeOK'
    OBVIOUS
  <2>3. RequestNamesGraph'
    BY DEF RequestNamesGraph
  <2>4. /\ ServedIsGood' /\ DrainingIsPinned' /\ UnbuiltUnpinned'
        /\ CurrentBuildPending' /\ PendingIsCurrent' /\ ShutdownCovers'
    BY DEF ServedIsGood, DrainingIsPinned, UnbuiltUnpinned, CurrentBuildPending,
           PendingIsCurrent, ShutdownCovers, InFlight
  <2>5. NothingLost' /\ NoDisposeWhilePinned'
    BY DEF NothingLost, NoDisposeWhilePinned, Live, Detached, Pinned, closed
  <2> QED
    BY <2>2, <2>3, <2>4, <2>5
<1>3. CASE ~(graph[g].phase = "rejected" \/ closed \/ generation # req[r].gen)
  <2>1. graph[g].phase = "ready" /\ Pin(r, g)
    BY <1>3 DEF ResumeAcquire, Settled
  <2> QED
    BY <1>1, <2>1, PinKeeps DEF ResumeAcquire
<1> QED
  BY <1>2, <1>3

LEMMA ReleaseKeeps ==
  ASSUME IInv, NEW r \in Requests, Release(r)
  PROVE  IInv'
<1> DEFINE g == req[r].graph
           s == graph[g].sid
           down == [graph EXCEPT ![g].active = Unpin(graph[g].active),
                                 ![g].lastUsed = clock]
           ends == down[g].active = 0 /\ MustGo(g)
<1>1. g \in Graphs
  BY DEF Release, IInv, RequestNamesGraph
<1>ready. graph[g].phase = "ready"
  BY DEF Release, IInv, RequestNamesGraph
<1>2. /\ graph \in [Graphs -> GraphRecord] /\ clock \in Nat
      /\ req \in [Requests -> ReqRecord]
      /\ graphs \in SlotMap /\ draining \in SlotMap
  BY DEF IInv, TypeOK
<1>3. Unpin(graph[g].active) \in Nat
  BY <1>1, <1>2 DEF GraphRecord, Unpin
<1>4. down \in [Graphs -> GraphRecord]
  BY <1>1, <1>2, <1>3, UseTyped
<1>5. /\ req' = [req EXCEPT ![r] = Idle]
      /\ UNCHANGED <<pendingBuilds, generation, shutdown, shutdownWait, clock>>
  BY DEF Release
<1>6. req' \in [Requests -> ReqRecord]
  <2>1. Idle \in ReqRecord
    BY DEF Idle, ReqRecord
  <2> QED
    BY <1>2, <1>5, <2>1
<1>7. \A h \in Graphs :
        /\ down[h].phase = graph[h].phase /\ down[h].sid = graph[h].sid
        /\ down[h].gen = graph[h].gen /\ down[h].marked = graph[h].marked
        /\ down[h].disposed = graph[h].disposed
        /\ h # g => down[h].active = graph[h].active
        /\ down[g].active = Unpin(graph[g].active)
  BY <1>1, <1>2 DEF GraphRecord
<1> HIDE DEF down
<1>8. CASE ~ends
  <2>1. graph' = down /\ UNCHANGED <<graphs, draining, tearing, pending>>
    BY <1>8 DEF Release, down
  <2> USE <1>1, <1>2, <1>3, <1>4, <1>5, <1>6, <1>7, <1>8, <2>1 DEF IInv
  <2>2. TypeOK'
    BY DEF TypeOK
  <2>3. RequestNamesGraph'
    BY DEF RequestNamesGraph, Idle
  <2>4. ServedIsGood' /\ CurrentBuildPending' /\ PendingIsCurrent' /\ ShutdownCovers'
    BY DEF TypeOK, SlotMap, ServedIsGood, CurrentBuildPending, PendingIsCurrent,
           ShutdownCovers, InFlight
  <2>5. graph[g].active > 0 => down[g].active > 0 \/ ~MustGo(g)
    BY DEF Unpin, GraphRecord
  <2>6. DrainingIsPinned' /\ UnbuiltUnpinned'
    BY <2>5 DEF SlotMap, DrainingIsPinned, UnbuiltUnpinned, MustGo, Unpin
  <2>7. NothingLost' /\ NoDisposeWhilePinned'
    BY <2>5 DEF NothingLost, NoDisposeWhilePinned, UnbuiltUnpinned, Live, Detached,
                Pinned, MustGo, Unpin, closed
  <2> QED
    BY <2>2, <2>3, <2>4, <2>6, <2>7
<1>9. CASE ends
  <2>1. /\ draining' = [draining EXCEPT ![s] = IF @ = g THEN None ELSE @]
        /\ graphs' = [graphs EXCEPT ![s] = IF @ = g /\ draining[s] # g
                                           THEN None ELSE @]
        /\ graph' = DisposeFlags(down, {g})
        /\ tearing' = tearing \cup NewlyTorn({g})
        /\ pending' = pending \cup NewlyTorn({g})
    BY <1>9 DEF Release, down
  <2>2. graph' \in [Graphs -> GraphRecord]
    BY <1>4, <2>1, DisposeFlagsTyped
  <2>3. /\ \A h \in Graphs :
             /\ graph'[h].phase = graph[h].phase /\ graph'[h].sid = graph[h].sid
             /\ graph'[h].gen = graph[h].gen /\ graph'[h].marked = graph[h].marked
             /\ h # g => /\ graph'[h].disposed = graph[h].disposed
                         /\ graph'[h].active = graph[h].active
        /\ graph'[g].disposed /\ graph'[g].active = 0
    BY <1>1, <1>4, <1>7, <1>9, <2>1 DEF DisposeFlags, GraphRecord
  <2>4. /\ graphs' \in SlotMap /\ draining' \in SlotMap
        /\ \A t \in Sessions : graphs'[t] = graphs[t] \/ graphs'[t] = None
        /\ \A t \in Sessions : draining'[t] = draining[t] \/ draining'[t] = None
        /\ g \notin Live' /\ g \notin Detached'
        /\ Live \ {g} \subseteq Live' /\ Detached \ {g} \subseteq Detached'
    <3>1. /\ graphs' \in SlotMap /\ draining' \in SlotMap
          /\ \A t \in Sessions : graphs'[t] = graphs[t] \/ graphs'[t] = None
          /\ \A t \in Sessions : draining'[t] = draining[t] \/ draining'[t] = None
      BY <1>1, <1>2, <2>1 DEF SlotMap
    <3>2. \A t \in Sessions : graphs[t] = g \/ draining[t] = g => t = s
      BY <1>1, RegistryAssumption DEF IInv, ServedIsGood, DrainingIsPinned
    <3>3. \A t \in Sessions : draining'[t] # g
      BY <1>1, <1>2, <2>1, <3>2, RegistryAssumption DEF SlotMap
    <3>4. \A t \in Sessions : graphs'[t] # g
      <4>1. CASE draining[s] = g
        BY <1>1, <3>1, <3>2, <4>1, RegistryAssumption
        DEF IInv, DrainingIsPinned
      <4>2. CASE draining[s] # g
        BY <1>1, <1>2, <2>1, <3>2, <4>2, RegistryAssumption DEF SlotMap
      <4> QED
        BY <4>1, <4>2
    <3>5. \A t \in Sessions : /\ graphs[t] # g => graphs'[t] = graphs[t]
                              /\ draining[t] # g => draining'[t] = draining[t]
      BY <1>2, <2>1 DEF SlotMap
    <3> QED
      BY <3>1, <3>3, <3>4, <3>5 DEF Live, Detached
  <2>5. tearing' \in SUBSET Graphs /\ pending' \in SUBSET Graphs
    BY <1>1, <2>1 DEF IInv, TypeOK, NewlyTorn
  <2> USE <1>1, <1>2, <1>5, <1>6, <2>2, <2>3, <2>4, <2>5 DEF IInv
  <2>6. TypeOK'
    BY DEF TypeOK
  <2>7. RequestNamesGraph'
    BY DEF RequestNamesGraph, Idle
  <2>8. ServedIsGood' /\ DrainingIsPinned'
    BY DEF SlotMap, ServedIsGood, DrainingIsPinned, Live, Detached
  <2>9. UnbuiltUnpinned' /\ CurrentBuildPending' /\ ShutdownCovers'
    BY <1>ready DEF TypeOK, SlotMap, UnbuiltUnpinned, CurrentBuildPending,
                    ShutdownCovers, InFlight
  <2>10. PendingIsCurrent'
    BY DEF TypeOK, SlotMap, PendingIsCurrent
  <2>11. NothingLost' /\ NoDisposeWhilePinned'
    BY DEF NothingLost, NoDisposeWhilePinned, Pinned, closed
  <2> QED
    BY <2>6, <2>7, <2>8, <2>9, <2>10, <2>11
<1> QED
  BY <1>8, <1>9

LEMMA BuildPublishedKeeps ==
  ASSUME IInv, NEW g \in Graphs, BuildPublished(g)
  PROVE  IInv'
<1> DEFINE s == graph[g].sid
           cand == {h \in (Live \ {graphs[s]}) \cup {g} : ~graph[h].marked}
           used == [h \in Graphs |-> IF h = g THEN clock ELSE graph[h].lastUsed]
           built == [graph EXCEPT ![g].phase = "ready", ![g].lastUsed = clock]
           put == [graphs EXCEPT ![s] = g]
<1>1. /\ graph \in [Graphs -> GraphRecord] /\ clock \in Nat
      /\ graphs \in SlotMap /\ draining \in SlotMap /\ pendingBuilds \in SlotMap
      /\ g # None
  BY RegistryAssumption DEF IInv, TypeOK
<1>2. /\ s \in Sessions /\ graph[g].phase = "building"
      /\ pendingBuilds[s] = g /\ graphs[s] = None
      /\ graph[g].gen = generation
  BY <1>1 DEF BuildPublished, Stale, IInv, CurrentBuildPending, PendingIsCurrent
<1>3. built \in [Graphs -> GraphRecord]
  <2>1. [graph EXCEPT ![g].phase = "ready"] \in [Graphs -> GraphRecord]
    BY <1>1, PhaseTyped DEF Phases
  <2> QED
    BY <1>1, <2>1, LastUsedTyped
<1>4. \A h \in Graphs :
        /\ h # g => built[h].phase = graph[h].phase
        /\ built[g].phase = "ready"
        /\ built[h].sid = graph[h].sid /\ built[h].gen = graph[h].gen
        /\ built[h].active = graph[h].active /\ built[h].marked = graph[h].marked
        /\ built[h].disposed = graph[h].disposed
  BY <1>1 DEF GraphRecord
<1>5. cand \subseteq Graphs
  BY <1>1 DEF Live, SlotMap
<1>6. /\ put \in SlotMap /\ put[s] = g
      /\ \A t \in Sessions : t # s => put[t] = graphs[t]
  BY <1>1, <1>2 DEF SlotMap
<1>7. /\ pendingBuilds' \in SlotMap
      /\ \A t \in Sessions : pendingBuilds'[t] =
           IF t = s THEN None ELSE pendingBuilds[t]
  BY <1>1, <1>2 DEF BuildPublished, ClearIfMine, SlotMap
<1>8. UNCHANGED <<draining, generation, req, shutdown, shutdownWait, clock>>
  BY DEF BuildPublished
<1>9. shutdown \notin {"flushing", "returned"}
  BY <1>1, <1>2 DEF IInv, ShutdownCovers
<1>10. ~graph[g].disposed
  BY <1>2 DEF IInv, CurrentBuildPending
<1> HIDE DEF s, cand, used, built, put
<1>cases. \/ graphs' = put /\ graph' = built /\ UNCHANGED <<tearing, pending>>
          \/ \E v \in cand :
               /\ graphs' = put /\ graph' = [built EXCEPT ![v].marked = TRUE]
               /\ UNCHANGED <<tearing, pending>>
          \/ \E v \in cand :
               /\ ~Pinned(v)
               /\ graphs' = Without(put, {v})
               /\ graph' = [built EXCEPT ![v].disposed = TRUE]
               /\ tearing' = tearing \cup {v} /\ pending' = pending \cup {v}
  BY DEF BuildPublished, LeastRecent, s, cand, used, built, put
\* What the three outcomes have in common.
<1>a. /\ graph' \in [Graphs -> GraphRecord]
      /\ \A h \in Graphs :
           /\ h # g => graph'[h].phase = graph[h].phase
           /\ graph'[g].phase = "ready"
           /\ graph'[h].sid = graph[h].sid /\ graph'[h].gen = graph[h].gen
           /\ graph'[h].active = graph[h].active
           /\ graph[h].marked => graph'[h].marked
           /\ graph[h].disposed => graph'[h].disposed
  <2>1. CASE graph' = built
    BY <1>3, <1>4, <2>1
  <2>2. ASSUME NEW v \in cand, graph' = [built EXCEPT ![v].marked = TRUE]
        PROVE  <1>a!:
    <3>1. graph' \in [Graphs -> GraphRecord]
      BY <1>3, <1>5, <2>2, MarkTyped
    <3> QED
      BY <1>3, <1>4, <1>5, <2>2, <3>1 DEF GraphRecord
  <2>3. ASSUME NEW v \in cand, graph' = [built EXCEPT ![v].disposed = TRUE]
        PROVE  <1>a!:
    <3>1. graph' \in [Graphs -> GraphRecord]
      BY <1>3, <1>5, <2>3, DisposeTyped
    <3> QED
      BY <1>3, <1>4, <1>5, <2>3, <3>1 DEF GraphRecord
  <2> QED
    BY <1>cases, <2>1, <2>2, <2>3
<1>b. /\ graphs' \in SlotMap
      /\ \A t \in Sessions : graphs'[t] # None =>
           /\ graphs'[t] = IF t = s THEN g ELSE graphs[t]
           /\ graph'[graphs'[t]].disposed = graph[graphs'[t]].disposed
  <2>1. CASE graphs' = put /\ graph' = built
    BY <1>4, <1>6, <2>1, RegistryAssumption DEF SlotMap
  <2>2. ASSUME NEW v \in cand, graphs' = put,
               graph' = [built EXCEPT ![v].marked = TRUE]
        PROVE  <1>b!:
    <3>1. \A h \in Graphs : graph'[h].disposed = graph[h].disposed
      BY <1>3, <1>4, <1>5, <2>2 DEF GraphRecord
    <3> QED
      BY <1>6, <2>2, <3>1 DEF SlotMap
  <2>3. ASSUME NEW v \in cand, graphs' = Without(put, {v}),
               graph' = [built EXCEPT ![v].disposed = TRUE]
        PROVE  <1>b!:
    <3>1. \A h \in Graphs : h # v => graph'[h].disposed = graph[h].disposed
      BY <1>3, <1>4, <1>5, <2>3 DEF GraphRecord
    <3>2. /\ graphs' \in SlotMap
          /\ \A t \in Sessions : graphs'[t] = IF put[t] = v THEN None ELSE put[t]
      BY <1>6, <2>3 DEF SlotMap, Without
    <3> QED
      BY <1>6, <3>1, <3>2 DEF SlotMap
  <2> QED
    BY <1>cases, <2>1, <2>2, <2>3
<1>c. \A h \in Graphs : ~graph'[h].disposed => h \in Live' \/ (h # g /\ h \notin Live)
  <2> USE <1>1, <1>2, <1>6, RegistryAssumption DEF Live, SlotMap
  <2>1. CASE graphs' = put
    BY <2>1
  <2>2. ASSUME NEW v \in cand, graphs' = Without(put, {v}),
               graph' = [built EXCEPT ![v].disposed = TRUE]
        PROVE  <1>c!:
    <3>1. graph'[v].disposed
      BY <1>3, <1>5, <2>2 DEF GraphRecord
    <3> QED
      BY <1>5, <2>2, <3>1 DEF Without
  <2> QED
    BY <1>cases, <2>1, <2>2
<1>d. \A h \in Graphs : graph'[h].disposed =>
        graph[h].disposed \/ (h \in cand /\ graph[h].active = 0)
  <2>1. CASE graph' = built
    BY <1>4, <2>1
  <2>2. ASSUME NEW v \in cand, graph' = [built EXCEPT ![v].marked = TRUE]
        PROVE  <1>d!:
    BY <1>3, <1>4, <1>5, <2>2 DEF GraphRecord
  <2>3. ASSUME NEW v \in cand, graph' = [built EXCEPT ![v].disposed = TRUE],
               ~Pinned(v)
        PROVE  <1>d!:
    BY <1>1, <1>3, <1>4, <1>5, <2>3 DEF GraphRecord, Pinned
  <2> QED
    BY <1>cases, <2>1, <2>2, <2>3
<1>e. tearing' \in SUBSET Graphs /\ pending' \in SUBSET Graphs
  BY <1>5, <1>cases DEF IInv, TypeOK
<1> USE <1>1, <1>2, <1>7, <1>8, <1>9, <1>10, <1>a, <1>b DEF IInv
<1>11. TypeOK'
  BY <1>e DEF TypeOK
<1>12. RequestNamesGraph'
  BY DEF RequestNamesGraph
<1>13. ServedIsGood'
  BY DEF ServedIsGood, SlotMap, s
<1>14. DrainingIsPinned'
  BY DEF DrainingIsPinned, SlotMap
<1>15. UnbuiltUnpinned'
  BY DEF UnbuiltUnpinned
<1>16. CurrentBuildPending'
  <2>1. \A h \in cand : graph[h].phase = "ready" \/ h = g
    BY DEF cand, Live, ServedIsGood
  <2>2. \A h \in Graphs : graph'[h].phase = "building" =>
          graph[h].phase = "building" /\ ~graph'[h].disposed /\ h # g
    BY <1>d, <2>1 DEF CurrentBuildPending
  <2> QED
    BY <2>2 DEF CurrentBuildPending
<1>17. PendingIsCurrent'
  BY DEF PendingIsCurrent, SlotMap
<1>18. ShutdownCovers'
  BY DEF ShutdownCovers, InFlight, SlotMap
<1>19. NothingLost'
  BY <1>c DEF NothingLost, Pinned, Detached
<1>20. NoDisposeWhilePinned'
  BY <1>d DEF NoDisposeWhilePinned, UnbuiltUnpinned, Pinned, closed
<1> QED
  BY <1>11, <1>12, <1>13, <1>14, <1>15, <1>16, <1>17, <1>18, <1>19, <1>20

-----------------------------------------------------------------------------
LEMMA InitEstablishes == Init => IInv
<1> SUFFICES ASSUME Init PROVE IInv
  OBVIOUS
<1> USE RegistryAssumption DEF Init, NoGraph, Idle
<1>1. NoGraph \in GraphRecord /\ Idle \in ReqRecord
  BY DEF GraphRecord, ReqRecord, Phases
<1>2. TypeOK
  BY <1>1 DEF TypeOK, SlotMap, Stages
<1>3. /\ RequestNamesGraph /\ ServedIsGood /\ DrainingIsPinned /\ UnbuiltUnpinned
      /\ CurrentBuildPending /\ PendingIsCurrent /\ ShutdownCovers
      /\ NothingLost /\ NoDisposeWhilePinned
  BY DEF RequestNamesGraph, ServedIsGood, DrainingIsPinned, UnbuiltUnpinned,
         CurrentBuildPending, PendingIsCurrent, ShutdownCovers, NothingLost,
         NoDisposeWhilePinned
<1> QED
  BY <1>2, <1>3 DEF IInv

LEMMA StepKeeps == IInv /\ [Next]_vars => IInv'
<1> SUFFICES ASSUME IInv, [Next]_vars PROVE IInv'
  OBVIOUS
<1>1. CASE UNCHANGED vars
  BY <1>1 DEF vars, IInv, TypeOK, RequestNamesGraph, ServedIsGood, DrainingIsPinned,
              UnbuiltUnpinned, CurrentBuildPending, PendingIsCurrent, ShutdownCovers,
              NothingLost, NoDisposeWhilePinned, Live, Detached, Pinned, InFlight,
              closed
<1>2. CASE Next
  BY <1>2, AcquireHitKeeps, AcquireJoinKeeps, AcquireBuildKeeps, BuildOrphanedKeeps,
     BuildFailsKeeps, BuildPublishedKeeps, TeardownDoneKeeps, ResumeAcquireKeeps,
     ReleaseKeeps, EvictOneKeeps, EvictIdleKeeps, InvalidateAllKeeps,
     DisposeAllBeginKeeps, DisposeAllSweepKeeps, DisposeAllReturnKeeps, TickKeeps
  DEF Next, BuildSettles
<1> QED
  BY <1>1, <1>2

\* The inductive invariant holds in every state of every behaviour.
THEOREM Invariance == Spec => []IInv
  BY InitEstablishes, StepKeeps, PTL DEF Spec

\* Every variable of the registry keeps its type.
THEOREM TypeCorrect == Spec => []TypeOK
<1>1. IInv => TypeOK
  BY DEF IInv
<1> QED
  BY <1>1, Invariance, PTL

\* Outside a shutdown no eviction, cap, reload or deletion disposes a graph that
\* a request in flight holds.
THEOREM PinnedIsSafe == Spec => []NoDisposeWhilePinned
<1>1. IInv => NoDisposeWhilePinned
  BY DEF IInv
<1> QED
  BY <1>1, Invariance, PTL

\* acquire() never finds a graph built under a superseded configuration.
THEOREM ServedIsCurrent == Spec => []OnlyCurrentServed
<1>1. IInv => OnlyCurrentServed
  BY DEF IInv, ServedIsGood, OnlyCurrentServed
<1> QED
  BY <1>1, Invariance, PTL

\* Two builds of one session and generation are never in flight together.
THEOREM OneBuildAtATime == Spec => []SingleFlight
<1>1. IInv => SingleFlight
  BY DEF IInv, CurrentBuildPending, SingleFlight
<1> QED
  BY <1>1, Invariance, PTL

\* Every graph built and not disposed is served, draining, or will be disposed
\* by the release of a request that holds it.
THEOREM NoGraphLost == Spec => []NothingLost
<1>1. IInv => NothingLost
  BY DEF IInv
<1> QED
  BY <1>1, Invariance, PTL

\* After the sweep of disposeAll() only graphs that requests still hold survive.
THEOREM ShutdownLeavesNothing == Spec => []ShutdownSweepsAll
<1>1. IInv => ShutdownSweepsAll
  BY DEF IInv, ShutdownCovers, NothingLost, ShutdownSweepsAll, Live, Detached
<1> QED
  BY <1>1, Invariance, PTL

-----------------------------------------------------------------------------
(* The reference count.  It changes where the set of holders does.         *)

LEMMA HoldersFinite ==
  \A g : IsFiniteSet(Holders(g)) /\ Cardinality(Holders(g)) \in Nat
<1>1. \A g : Holders(g) \subseteq Requests
  BY DEF Holders
<1> QED
  BY <1>1, FS_Subset, FS_CardinalityType, RegistryAssumption

\* An action that moves no request into or out of "holding" and no counter.
LEMMA CountUnmoved ==
  ASSUME CountExact,
         \A g \in Graphs : graph'[g].active = graph[g].active,
         \A r \in Requests : \/ req'[r] = req[r]
                             \/ req[r].pc # "holding" /\ req'[r].pc # "holding"
  PROVE  CountExact'
<1>1. \A g \in Graphs : Holders(g)' = Holders(g)
  BY DEF Holders
<1> QED
  BY <1>1 DEF CountExact

LEMMA PinCounts ==
  ASSUME IInv, CountExact, NEW r \in Requests, NEW g \in Graphs,
         req[r].pc # "holding", Pin(r, g)
  PROVE  CountExact'
<1>1. graph \in [Graphs -> GraphRecord] /\ req \in [Requests -> ReqRecord]
  BY DEF IInv, TypeOK
<1>2. CASE graph[g].disposed
  <2>1. req' = [req EXCEPT ![r] = Idle] /\ graph' = graph
    BY <1>2 DEF Pin
  <2> QED
    BY <1>1, <2>1, CountUnmoved DEF Idle
<1>3. CASE ~graph[g].disposed
  <2>1. /\ req' = [req EXCEPT ![r] = [pc |-> "holding", graph |-> g,
                                      gen |-> generation]]
        /\ graph' = [graph EXCEPT ![g].active = @ + 1, ![g].lastUsed = clock]
    BY <1>3 DEF Pin
  <2>2. /\ graph'[g].active = graph[g].active + 1
        /\ \A h \in Graphs : h # g => graph'[h].active = graph[h].active
    BY <1>1, <2>1 DEF GraphRecord
  <2>3. /\ Holders(g)' = Holders(g) \cup {r} /\ r \notin Holders(g)
        /\ \A h \in Graphs : h # g => Holders(h)' = Holders(h)
    BY <1>1, <2>1 DEF Holders
  <2>4. Cardinality(Holders(g)') = Cardinality(Holders(g)) + 1
    BY <2>3, HoldersFinite, FS_AddElement
  <2> QED
    BY <2>2, <2>3, <2>4 DEF CountExact
<1> QED
  BY <1>2, <1>3

LEMMA ReleaseCounts ==
  ASSUME IInv, CountExact, NEW r \in Requests, Release(r)
  PROVE  CountExact'
<1>0. PICK g \in Graphs : g = req[r].graph
  BY DEF Release, IInv, RequestNamesGraph
<1> DEFINE down == [graph EXCEPT ![g].active = Unpin(graph[g].active),
                                 ![g].lastUsed = clock]
<1>1. /\ graph \in [Graphs -> GraphRecord] /\ req \in [Requests -> ReqRecord]
      /\ req[r].pc = "holding"
  BY DEF IInv, TypeOK, Release
<1>2. /\ down[g].active = Unpin(graph[g].active)
      /\ \A h \in Graphs : h # g => down[h].active = graph[h].active
  BY <1>1 DEF GraphRecord
<1>3. \A h \in Graphs : DisposeFlags(down, {g})[h].active = down[h].active
  BY <1>1 DEF DisposeFlags, GraphRecord
<1>4. req' = [req EXCEPT ![r] = Idle]
      /\ (graph' = down \/ graph' = DisposeFlags(down, {g}))
  BY <1>0 DEF Release
<1>5. \A h \in Graphs : graph'[h].active = down[h].active
  BY <1>3, <1>4
<1>6. /\ Holders(g)' = Holders(g) \ {r} /\ r \in Holders(g)
      /\ \A h \in Graphs : h # g => Holders(h)' = Holders(h)
  <2>1. \A q \in Requests : q # r => req'[q] = req[q]
    BY <1>1, <1>4
  <2>2. req'[r].pc = "idle"
    BY <1>1, <1>4 DEF Idle
  <2> QED
    BY <1>0, <1>1, <2>1, <2>2 DEF Holders
<1>7. /\ Cardinality(Holders(g)') = Cardinality(Holders(g)) - 1
      /\ Cardinality(Holders(g)) > 0
  BY <1>6, HoldersFinite, FS_RemoveElement, FS_EmptySet
<1>8. graph'[g].active = Cardinality(Holders(g)')
  BY <1>1, <1>2, <1>5, <1>7, HoldersFinite DEF CountExact, Unpin
<1>9. \A h \in Graphs : h # g => graph'[h].active = Cardinality(Holders(h)')
  BY <1>2, <1>5, <1>6 DEF CountExact
<1> QED
  BY <1>8, <1>9 DEF CountExact

LEMMA StepCounts == IInv /\ CountExact /\ [Next]_vars => CountExact'
<1> SUFFICES ASSUME IInv, CountExact, [Next]_vars PROVE CountExact'
  OBVIOUS
<1>1. /\ graph \in [Graphs -> GraphRecord] /\ req \in [Requests -> ReqRecord]
  BY DEF IInv, TypeOK
<1>2. ASSUME NEW r \in Requests, NEW s \in Sessions, AcquireHit(r, s)
      PROVE  CountExact'
  <2>1. graphs[s] \in Graphs /\ req[r].pc # "holding" /\ Pin(r, graphs[s])
    BY <1>2 DEF AcquireHit, IInv, TypeOK, SlotMap
  <2> QED
    BY <2>1, PinCounts
<1>3. ASSUME NEW r \in Requests, NEW s \in Sessions, AcquireJoin(r, s)
      PROVE  CountExact'
  BY <1>1, <1>3, CountUnmoved DEF AcquireJoin
<1>4. ASSUME NEW r \in Requests, NEW s \in Sessions, NEW g \in Graphs,
             AcquireBuild(r, s, g)
      PROVE  CountExact'
  <2>1. graph[g].active = 0
    BY <1>4 DEF AcquireBuild, IInv, UnbuiltUnpinned
  <2>2. \A h \in Graphs : graph'[h].active = graph[h].active
    BY <1>1, <1>4, <2>1 DEF AcquireBuild, NoGraph, GraphRecord
  <2>3. \A q \in Requests : \/ req'[q] = req[q]
                            \/ req[q].pc # "holding" /\ req'[q].pc # "holding"
    BY <1>1, <1>4 DEF AcquireBuild
  <2> QED
    BY <2>2, <2>3, CountUnmoved
<1>5. ASSUME NEW g \in Graphs, BuildSettles(g) \/ TeardownDone(g)
      PROVE  CountExact'
  <2>1. \A h \in Graphs : graph'[h].active = graph[h].active
    <3>1. CASE BuildOrphaned(g) \/ BuildFails(g) \/ TeardownDone(g)
      BY <1>1, <3>1 DEF BuildOrphaned, BuildFails, TeardownDone, GraphRecord
    <3>2. CASE BuildPublished(g)
      <4> DEFINE built == [graph EXCEPT ![g].phase = "ready", ![g].lastUsed = clock]
      <4>1. \/ graph' = built
            \/ \E v : graph' = [built EXCEPT ![v].marked = TRUE]
            \/ \E v : graph' = [built EXCEPT ![v].disposed = TRUE]
        BY <3>2 DEF BuildPublished
      <4>2. /\ DOMAIN built = Graphs
            /\ \A h \in Graphs : built[h].active = graph[h].active
        BY <1>1 DEF GraphRecord
      <4>3. \A h \in Graphs : "active" \in DOMAIN built[h]
        BY <1>1 DEF GraphRecord
      <4> HIDE DEF built
      <4> QED
        BY <4>1, <4>2, <4>3
    <3> QED
      BY <1>5, <3>1, <3>2 DEF BuildSettles
  <2>2. UNCHANGED req
    BY <1>5 DEF BuildSettles, BuildOrphaned, BuildFails, BuildPublished, TeardownDone
  <2> QED
    BY <2>1, <2>2, CountUnmoved
<1>6. ASSUME NEW r \in Requests, ResumeAcquire(r)
      PROVE  CountExact'
  <2>1. req[r].graph \in Graphs /\ req[r].pc # "holding"
    BY <1>6 DEF ResumeAcquire, IInv, RequestNamesGraph
  <2>2. CASE Pin(r, req[r].graph)
    BY <2>1, <2>2, PinCounts
  <2>3. CASE req' = [req EXCEPT ![r] = Idle] /\ UNCHANGED graph
    BY <1>1, <2>1, <2>3, CountUnmoved DEF Idle
  <2> QED
    BY <1>6, <2>2, <2>3 DEF ResumeAcquire
<1>7. ASSUME NEW r \in Requests, Release(r)
      PROVE  CountExact'
  BY <1>7, ReleaseCounts
<1>8. ASSUME \/ \E s \in Sessions : EvictOne(s)
             \/ EvictIdle \/ InvalidateAll \/ DisposeAllSweep
      PROVE  CountExact'
  <2>1. \A h \in Graphs : graph'[h].active = graph[h].active
    <3>1. CASE \E s \in Sessions : EvictOne(s)
      BY <1>1, <3>1 DEF EvictOne, DisposeFlags, GraphRecord
    <3>2. CASE EvictIdle \/ DisposeAllSweep
      BY <1>1, <3>2 DEF EvictIdle, DisposeAllSweep, DisposeFlags, GraphRecord
    <3>3. CASE InvalidateAll
      BY <1>1, <3>3 DEF InvalidateAll, DisposeFlags, GraphRecord
    <3> QED
      BY <1>8, <3>1, <3>2, <3>3
  <2>2. UNCHANGED req
    BY <1>8 DEF EvictOne, EvictIdle, InvalidateAll, DisposeAllSweep
  <2> QED
    BY <2>1, <2>2, CountUnmoved
<1>9. CASE DisposeAllBegin \/ DisposeAllReturn \/ Tick \/ UNCHANGED vars
  BY <1>9, CountUnmoved DEF DisposeAllBegin, DisposeAllReturn, Tick, vars
<1> QED
  BY <1>2, <1>3, <1>4, <1>5, <1>6, <1>7, <1>8, <1>9 DEF Next

\* The reference count of a graph is the number of requests that hold it.
THEOREM CountIsExact == Spec => []CountExact
<1>1. Init => CountExact
  <2> SUFFICES ASSUME Init PROVE \A g \in Graphs : Holders(g) = {} /\ graph[g].active = 0
    BY FS_EmptySet DEF CountExact
  <2> QED
    BY DEF Init, Holders, Idle, NoGraph
<1> QED
  BY <1>1, StepCounts, Invariance, PTL DEF Spec

\* A publish never replaces a graph another one published.
THEOREM PublishNeverOverwrites == Spec => NeverOverwrites
<1>1. IInv /\ [Next]_vars =>
        [\A s \in Sessions :
           graphs[s] # None /\ graphs'[s] # graphs[s] => graphs'[s] = None]_vars
  <2> SUFFICES ASSUME IInv, [Next]_vars, NEW s \in Sessions,
                      graphs[s] # None, graphs'[s] # graphs[s]
               PROVE  graphs'[s] = None
    OBVIOUS
  <2>1. graphs \in SlotMap
    BY DEF IInv, TypeOK
  <2>2. ASSUME NEW g \in Graphs, BuildPublished(g)
        PROVE  graphs'[s] = None
    <3>1. graph[g].sid \in Sessions /\ graphs[graph[g].sid] = None
      BY <2>2, RegistryAssumption
      DEF BuildPublished, Stale, IInv, CurrentBuildPending, PendingIsCurrent
    <3>2. \A t \in Sessions : [graphs EXCEPT ![graph[g].sid] = g][t] =
             IF t = graph[g].sid THEN g ELSE graphs[t]
      BY <2>1, <3>1 DEF SlotMap
    <3>3. \/ graphs' = [graphs EXCEPT ![graph[g].sid] = g]
          \/ \E v : graphs' = Without([graphs EXCEPT ![graph[g].sid] = g], {v})
      BY <2>2 DEF BuildPublished
    <3> QED
      BY <3>1, <3>2, <3>3 DEF Without
  <2>3. ASSUME NEW r \in Requests, Release(r)
        PROVE  graphs'[s] = None
    BY <2>1, <2>3 DEF Release, SlotMap
  <2>4. CASE \/ \E t \in Sessions : EvictOne(t)
             \/ EvictIdle \/ InvalidateAll \/ DisposeAllSweep
    BY <2>1, <2>4 DEF EvictOne, EvictIdle, EvictAndFlush, Without, InvalidateAll,
                      DisposeAllSweep, SlotMap
  <2>5. UNCHANGED graphs => FALSE
    OBVIOUS
  <2> QED
    BY <2>2, <2>3, <2>4, <2>5
    DEF Next, vars, AcquireHit, AcquireJoin, AcquireBuild, BuildSettles, BuildOrphaned,
        BuildFails, TeardownDone, ResumeAcquire, DisposeAllBegin, DisposeAllReturn, Tick
<1> QED
  BY <1>1, Invariance, PTL DEF Spec, NeverOverwrites

-----------------------------------------------------------------------------
(* The cap.                                                                *)

LEMMA CountedFinite ==
  ASSUME graphs \in SlotMap
  PROVE  IsFiniteSet(Live) /\ IsFiniteSet(Counted)
<1>1. IsFiniteSet({graphs[s] : s \in Sessions})
  <2>1. graphs \in Surjection(Sessions, {graphs[s] : s \in Sessions})
    BY DEF SlotMap, Surjection
  <2> QED
    BY <2>1, FS_Surjection, RegistryAssumption
<1>2. /\ Live \subseteq {graphs[s] : s \in Sessions}
      /\ Counted \subseteq Live
  BY DEF Live, Counted
<1> QED
  BY <1>1, <1>2, FS_Subset

LEMMA CountedShrinks ==
  ASSUME graphs \in SlotMap, CapRespected, Counted' \subseteq Counted
  PROVE  CapRespected'
<1>1. /\ IsFiniteSet(Counted')
      /\ Cardinality(Counted') <= Cardinality(Counted)
      /\ Cardinality(Counted') \in Nat /\ Cardinality(Counted) \in Nat
  BY CountedFinite, FS_Subset, FS_CardinalityType
<1> QED
  BY <1>1, RegistryAssumption DEF CapRespected

LEMMA PublishCaps ==
  ASSUME IInv, CapRespected, NEW g \in Graphs, BuildPublished(g)
  PROVE  CapRespected'
<1> DEFINE s == graph[g].sid
           cand == {h \in (Live \ {graphs[s]}) \cup {g} : ~graph[h].marked}
           built == [graph EXCEPT ![g].phase = "ready", ![g].lastUsed = clock]
           put == [graphs EXCEPT ![s] = g]
<1>1. /\ graph \in [Graphs -> GraphRecord] /\ clock \in Nat /\ graphs \in SlotMap
      /\ g # None
      /\ s \in Sessions /\ graphs[s] = None
  BY RegistryAssumption
  DEF IInv, TypeOK, BuildPublished, Stale, CurrentBuildPending, PendingIsCurrent
<1>2. /\ DOMAIN built = Graphs
      /\ \A h \in Graphs : /\ built[h].marked = graph[h].marked
                           /\ "marked" \in DOMAIN built[h]
  BY <1>1 DEF GraphRecord
<1>3. \A t \in Sessions : put[t] = IF t = s THEN g ELSE graphs[t]
  BY <1>1 DEF SlotMap
<1>4. /\ cand \subseteq Counted \cup {g} /\ cand \subseteq Graphs
      /\ IsFiniteSet(cand) /\ Cardinality(cand) \in Nat
      /\ Cardinality(cand) <= MaxSessions + 1
  <2>1. cand \subseteq Counted \cup {g} /\ cand \subseteq Graphs
    BY <1>1 DEF Counted, Live, SlotMap
  <2>2. /\ IsFiniteSet(Counted \cup {g})
        /\ Cardinality(Counted \cup {g}) <= Cardinality(Counted) + 1
        /\ Cardinality(Counted) \in Nat /\ Cardinality(Counted \cup {g}) \in Nat
    <3>1. IsFiniteSet(Counted) /\ Cardinality(Counted) \in Nat
      BY <1>1, CountedFinite, FS_CardinalityType
    <3>2. /\ IsFiniteSet(Counted \cup {g})
          /\ Cardinality(Counted \cup {g}) =
               IF g \in Counted THEN Cardinality(Counted) ELSE Cardinality(Counted) + 1
      BY <3>1, FS_AddElement
    <3> QED
      BY <3>1, <3>2
  <2>3. IsFiniteSet(cand) /\ Cardinality(cand) <= Cardinality(Counted \cup {g})
    BY <2>1, <2>2, FS_Subset
  <2>4. Cardinality(cand) \in Nat
    BY <2>3, FS_CardinalityType
  <2> QED
    BY <2>1, <2>2, <2>3, <2>4, RegistryAssumption DEF CapRespected
<1>5. \/ ~OverCap(Cardinality(cand)) /\ graphs' = put /\ graph' = built
      \/ \E v \in cand : graphs' = put /\ graph' = [built EXCEPT ![v].marked = TRUE]
      \/ \E v \in cand : /\ graphs' = Without(put, {v})
                         /\ graph' = [built EXCEPT ![v].disposed = TRUE]
  BY DEF BuildPublished, LeastRecent
<1> HIDE DEF built, put
<1>6. CASE ~OverCap(Cardinality(cand)) /\ graphs' = put /\ graph' = built
  <2>1. Counted' \subseteq cand
    BY <1>1, <1>2, <1>3, <1>6 DEF Counted, Live, SlotMap
  <2> HIDE DEF cand
  <2>2. Cardinality(Counted') <= Cardinality(cand) /\ Cardinality(Counted') \in Nat
    BY <1>4, <2>1, FS_Subset, FS_CardinalityType
  <2> QED
    BY <1>4, <1>6, <2>2, RegistryAssumption DEF CapRespected, OverCap
<1>7. ASSUME NEW v \in cand,
             \/ graphs' = put /\ graph' = [built EXCEPT ![v].marked = TRUE]
             \/ /\ graphs' = Without(put, {v})
                /\ graph' = [built EXCEPT ![v].disposed = TRUE]
      PROVE  CapRespected'
  <2>1. Counted' \subseteq cand \ {v}
    <3>1. CASE graphs' = put /\ graph' = [built EXCEPT ![v].marked = TRUE]
      <4>1. /\ graph'[v].marked
            /\ \A h \in Graphs : h # v => graph'[h].marked = graph[h].marked
        BY <1>2, <1>4, <3>1
      <4> QED
        BY <1>1, <1>3, <3>1, <4>1 DEF Counted, Live, SlotMap
    <3>2. CASE /\ graphs' = Without(put, {v})
               /\ graph' = [built EXCEPT ![v].disposed = TRUE]
      <4>1. \A h \in Graphs : h # v => graph'[h].marked = graph[h].marked
        BY <1>2, <1>4, <3>2
      <4>2. \A t \in Sessions : graphs'[t] = IF put[t] = v THEN None ELSE put[t]
        BY <3>2 DEF Without
      <4> QED
        BY <1>1, <1>3, <4>1, <4>2 DEF Counted, Live, SlotMap
    <3> QED
      BY <1>7, <3>1, <3>2
  <2> HIDE DEF cand
  <2>2. /\ IsFiniteSet(cand \ {v})
        /\ Cardinality(cand \ {v}) = Cardinality(cand) - 1
    BY <1>4, <1>7, FS_RemoveElement
  <2>3. /\ Cardinality(Counted') <= Cardinality(cand \ {v})
        /\ Cardinality(Counted') \in Nat
    BY <2>1, <2>2, FS_Subset, FS_CardinalityType
  <2> QED
    BY <1>4, <2>2, <2>3, RegistryAssumption DEF CapRespected
<1> QED
  BY <1>5, <1>6, <1>7

LEMMA StepCaps == IInv /\ CapRespected /\ [Next]_vars => CapRespected'
<1> SUFFICES ASSUME IInv, CapRespected, [Next]_vars PROVE CapRespected'
  OBVIOUS
<1>1. graphs \in SlotMap /\ graph \in [Graphs -> GraphRecord] /\ None \notin Graphs
  BY RegistryAssumption DEF IInv, TypeOK
<1>2. ASSUME NEW g \in Graphs, BuildPublished(g)
      PROVE  CapRespected'
  BY <1>2, PublishCaps
<1>3. \* Every other step only takes graphs away or marks them.
      ASSUME \A t \in Sessions : graphs'[t] = graphs[t] \/ graphs'[t] = None,
             \A h \in Live : graph[h].marked => graph'[h].marked
      PROVE  CapRespected'
  <2>1. Counted' \subseteq Counted
    BY <1>3 DEF Counted, Live
  <2> QED
    BY <1>1, <2>1, CountedShrinks
<1>4. ASSUME NEW r \in Requests, NEW s \in Sessions, AcquireHit(r, s)
      PROVE  CapRespected'
  <2>1. UNCHANGED graphs /\ \A h \in Graphs : graph'[h].marked = graph[h].marked
    BY <1>1, <1>4 DEF AcquireHit, Pin, GraphRecord
  <2> QED
    BY <1>1, <1>3, <2>1 DEF Live, SlotMap
<1>5. ASSUME NEW r \in Requests, NEW s \in Sessions, NEW g \in Graphs,
             AcquireBuild(r, s, g)
      PROVE  CapRespected'
  <2>1. g \notin Live
    BY <1>5 DEF AcquireBuild, IInv, ServedIsGood, Live
  <2>2. UNCHANGED graphs /\ \A h \in Graphs : h # g => graph'[h] = graph[h]
    BY <1>1, <1>5 DEF AcquireBuild
  <2> QED
    BY <1>1, <1>3, <2>1, <2>2 DEF Live, SlotMap
<1>6. ASSUME NEW g \in Graphs, BuildOrphaned(g) \/ BuildFails(g)
      PROVE  CapRespected'
  <2>1. UNCHANGED graphs /\ \A h \in Graphs : graph'[h].marked = graph[h].marked
    BY <1>1, <1>6 DEF BuildOrphaned, BuildFails, GraphRecord
  <2> QED
    BY <1>1, <1>3, <2>1 DEF Live, SlotMap
<1>7. ASSUME NEW r \in Requests, ResumeAcquire(r)
      PROVE  CapRespected'
  <2>1. UNCHANGED graphs /\ \A h \in Graphs : graph'[h].marked = graph[h].marked
    BY <1>1, <1>7 DEF ResumeAcquire, Pin, GraphRecord
  <2> QED
    BY <1>1, <1>3, <2>1 DEF Live, SlotMap
<1>8. ASSUME NEW r \in Requests, Release(r)
      PROVE  CapRespected'
  <2>1. \A h \in Graphs : graph'[h].marked = graph[h].marked
    <3> DEFINE g == req[r].graph
               down == [graph EXCEPT ![g].active = Unpin(graph[g].active),
                                     ![g].lastUsed = clock]
    <3>1. /\ \A h \in Graphs : down[h].marked = graph[h].marked
          /\ \A h \in Graphs : DisposeFlags(down, {g})[h].marked = down[h].marked
      BY <1>1 DEF DisposeFlags, GraphRecord
    <3>2. graph' = down \/ graph' = DisposeFlags(down, {g})
      BY <1>8 DEF Release
    <3> QED
      BY <3>1, <3>2
  <2>2. \A t \in Sessions : graphs'[t] = graphs[t] \/ graphs'[t] = None
    BY <1>1, <1>8 DEF Release, SlotMap
  <2> QED
    BY <1>1, <1>3, <2>1, <2>2 DEF Live, SlotMap
<1>9. CASE \/ \E s \in Sessions : EvictOne(s)
           \/ EvictIdle \/ InvalidateAll \/ DisposeAllSweep
  <2>1. \A t \in Sessions : graphs'[t] = graphs[t] \/ graphs'[t] = None
    BY <1>1, <1>9 DEF EvictOne, EvictIdle, EvictAndFlush, Without, InvalidateAll,
                      DisposeAllSweep, SlotMap
  <2>2. \A h \in Graphs : graph[h].marked => graph'[h].marked
    <3>1. CASE \E s \in Sessions : EvictOne(s)
      BY <1>1, <3>1 DEF EvictOne, DisposeFlags, GraphRecord
    <3>2. CASE EvictIdle \/ DisposeAllSweep
      BY <1>1, <3>2 DEF EvictIdle, DisposeAllSweep, DisposeFlags, GraphRecord
    <3>3. CASE InvalidateAll
      BY <1>1, <3>3 DEF InvalidateAll, DisposeFlags, GraphRecord
    <3> QED
      BY <1>9, <3>1, <3>2, <3>3
  <2> QED
    BY <1>1, <1>3, <2>1, <2>2 DEF Live, SlotMap
<1>10. CASE UNCHANGED <<graphs, graph>>
  BY <1>1, <1>3, <1>10 DEF Live, SlotMap
<1> QED
  BY <1>2, <1>4, <1>5, <1>6, <1>7, <1>8, <1>9, <1>10
  DEF Next, vars, BuildSettles, AcquireJoin, TeardownDone, DisposeAllBegin,
      DisposeAllReturn, Tick

\* The number of sessions that count toward the cap never exceeds it.
THEOREM CapIsRespected == Spec => []CapRespected
<1>1. Init => CapRespected
  <2> SUFFICES ASSUME Init PROVE Counted = {}
    BY FS_EmptySet, RegistryAssumption DEF CapRespected
  <2> QED
    BY DEF Init, Counted, Live
<1> QED
  BY <1>1, StepCaps, Invariance, PTL DEF Spec
-----------------------------------------------------------------------------
(* The leases, implemented.  Seen from SessionLease a step is told by which *)
(* graphs it disposes and which it leaves in `graphs`.                      *)

\* A request awaits a build of the generation it asked under.
AwaitedIsBuilt ==
  \A r \in Requests : req[r].pc = "awaiting" =>
    /\ graph[req[r].graph].phase # "unused"
    /\ req[r].gen <= generation
    /\ req[r].gen = generation => graph[req[r].graph].gen = generation

UnusedIsFresh == \A g \in Graphs : graph[g].phase = "unused" => ~graph[g].disposed

NoneOfTomorrow == \A g \in Graphs : graph[g].gen <= generation

\* Nobody but a reload and a shutdown takes a graph out of service alive.
CurrentIsServed ==
  shutdown \notin {"flushing", "returned"} =>
    \A g \in Graphs :
      /\ graph[g].phase = "ready" /\ ~graph[g].disposed
      /\ graph[g].gen = generation
      => g \in Live

LInv ==
  /\ IInv
  /\ CountExact
  /\ AwaitedIsBuilt
  /\ UnusedIsFresh
  /\ NoneOfTomorrow
  /\ CurrentIsServed

\* The step disposes the graphs of S, and is otherwise no step of any graph's life.
Goes(S) ==
  \A g \in Graphs :
    /\ graph'[g].phase = graph[g].phase
    /\ graph'[g].sid = graph[g].sid
    /\ graph'[g].gen = graph[g].gen
    /\ graph'[g].disposed <=> (graph[g].disposed \/ g \in S)

LEMMA Typed ==
  ASSUME IInv
  PROVE  /\ graph \in [Graphs -> GraphRecord] /\ req \in [Requests -> ReqRecord]
         /\ graphs \in SlotMap /\ draining \in SlotMap /\ pendingBuilds \in SlotMap
         /\ generation \in Nat /\ shutdown \in Stages /\ clock \in Nat
         /\ None \notin Graphs /\ None \notin Sessions
         /\ Live \subseteq Graphs /\ Detached \subseteq Graphs
  BY RegistryAssumption DEF IInv, TypeOK, SlotMap, Live, Detached

LEMMA PinGoes ==
  ASSUME IInv, NEW r \in Requests, NEW g \in Graphs, Pin(r, g)
  PROVE  Goes({})
  BY Typed DEF Pin, Goes, GraphRecord

LEMMA EvictOneGoes ==
  ASSUME IInv, NEW s \in Sessions, EvictOne(s)
  PROVE  \E S \in SUBSET Live :
           /\ Goes(S) /\ Live' = Live \ S /\ \A g \in S : ~Pinned(g)
<1>1. graphs[s] \in Live /\ graphs[s] \in Graphs
  BY Typed DEF EvictOne, Live, SlotMap
<1>2. CASE Pinned(graphs[s])
  <2>1. Goes({})
    BY <1>1, <1>2, Typed DEF EvictOne, Goes, GraphRecord
  <2>2. Live' = Live
    <3>1. \A t \in Sessions : graphs'[t] = graphs[t]
      BY <1>2 DEF EvictOne, EvictAndFlush, Without
    <3> QED
      BY <3>1 DEF Live
  <2> QED
    BY <2>1, <2>2
<1>3. CASE ~Pinned(graphs[s])
  <2>1. Goes({graphs[s]})
    BY <1>1, <1>3, Typed DEF EvictOne, DisposeFlags, Goes, GraphRecord
  <2>2. Live' = Live \ {graphs[s]}
    <3>1. \A t \in Sessions :
            graphs'[t] = IF graphs[t] = graphs[s] THEN None ELSE graphs[t]
      BY <1>3 DEF EvictOne, EvictAndFlush, Without
    <3> QED
      BY <3>1 DEF Live
  <2> QED
    BY <1>1, <1>3, <2>1, <2>2
<1> QED
  BY <1>2, <1>3

LEMMA EvictIdleGoes ==
  ASSUME IInv, EvictIdle
  PROVE  /\ IdleGraphs \subseteq Live /\ Goes(IdleGraphs) /\ Live' = Live \ IdleGraphs
         /\ \A g \in IdleGraphs : ~Pinned(g)
<1>1. Goes(IdleGraphs)
  BY Typed DEF EvictIdle, DisposeFlags, Goes, GraphRecord
<1>2. Live' = Live \ IdleGraphs
  <2>1. \A t \in Sessions :
          graphs'[t] = IF graphs[t] \in IdleGraphs THEN None ELSE graphs[t]
    BY DEF EvictIdle, EvictAndFlush, Without
  <2> QED
    BY <2>1 DEF Live
<1> QED
  BY <1>1, <1>2 DEF IdleGraphs

LEMMA InvalidateGoes ==
  ASSUME IInv, InvalidateAll
  PROVE  Goes({g \in Live : ~Pinned(g)}) /\ Live' = {}
<1>1. Live' = {}
  BY DEF InvalidateAll, Live
<1>2. \A g \in Graphs :
        graph'[g] = IF g \in {h \in Live : Pinned(h)}
                    THEN [graph[g] EXCEPT !.marked = TRUE]
                    ELSE IF g \in Live \ {h \in Live : Pinned(h)}
                    THEN [graph[g] EXCEPT !.disposed = TRUE] ELSE graph[g]
  BY DEF InvalidateAll, DisposeFlags
<1>3. Goes({g \in Live : ~Pinned(g)})
  BY <1>2, Typed DEF Goes, GraphRecord
<1> QED
  BY <1>1, <1>3

LEMMA SweepGoes ==
  ASSUME IInv, DisposeAllSweep
  PROVE  Goes(Live \cup Detached) /\ Live' = {}
<1>1. Live' = {}
  BY DEF DisposeAllSweep, Live
<1>2. Goes(Live \cup Detached)
  BY Typed DEF DisposeAllSweep, DisposeFlags, Goes, GraphRecord
<1> QED
  BY <1>1, <1>2

\* The last release of a graph that must go disposes it; no other release does.
LEMMA ReleaseGoes ==
  ASSUME IInv, NEW r \in Requests, Release(r)
  PROVE  /\ req[r].graph \in Graphs
         /\ \/ Goes({}) /\ Live' = Live
            \/ /\ Goes({req[r].graph}) /\ Live' = Live \ {req[r].graph}
               /\ graph'[req[r].graph].active = 0
<1>1. PICK g \in Graphs : g = req[r].graph
  BY DEF Release, IInv, RequestNamesGraph
<1> DEFINE s == graph[g].sid
           down == [graph EXCEPT ![g].active = Unpin(graph[g].active),
                                 ![g].lastUsed = clock]
<1>2. \A h \in Graphs : /\ down[h].phase = graph[h].phase /\ down[h].sid = graph[h].sid
                        /\ down[h].gen = graph[h].gen
                        /\ down[h].disposed = graph[h].disposed
  BY Typed DEF GraphRecord
<1>3. CASE graph' = down /\ UNCHANGED graphs
  BY <1>1, <1>2, <1>3 DEF Goes, Live
<1>4. CASE /\ graph' = DisposeFlags(down, {g}) /\ down[g].active = 0
           /\ graphs' = [graphs EXCEPT ![s] = IF @ = g /\ draining[s] # g
                                              THEN None ELSE @]
  <2>0. Unpin(graph[g].active) \in Nat
    BY Typed DEF GraphRecord, Unpin
  <2>d. down \in [Graphs -> GraphRecord]
    BY <2>0, UseTyped, Typed
  <2>1. \A h \in Graphs : down[h] \in GraphRecord /\ down[h].disposed \in BOOLEAN
    BY <2>d DEF GraphRecord
  <2> HIDE DEF down
  <2>a. \A h \in Graphs :
          graph'[h] = IF h = g THEN [down[h] EXCEPT !.disposed = TRUE] ELSE down[h]
    BY <1>4 DEF DisposeFlags
  <2>b. \A h \in Graphs :
          /\ graph'[h].phase = down[h].phase /\ graph'[h].sid = down[h].sid
          /\ graph'[h].gen = down[h].gen /\ graph'[h].active = down[h].active
          /\ graph'[h].disposed = IF h = g THEN TRUE ELSE down[h].disposed
    BY <2>1, <2>a DEF GraphRecord
  <2>2. Goes({g})
    BY <1>2, <2>1, <2>b DEF Goes
  <2>3. graph'[g].active = 0
    BY <1>4, <2>b
  <2>4. \A t \in Sessions : graphs[t] = g => t = s
    BY <1>1, Typed DEF IInv, ServedIsGood
  <2>5. \A t \in Sessions : graphs[t] = g => draining[t] # g
    BY <1>1, Typed DEF IInv, DrainingIsPinned
  <2>6. \A t \in Sessions : graphs'[t] = IF graphs[t] = g THEN None ELSE graphs[t]
    BY <1>4, <2>4, <2>5, Typed DEF SlotMap
  <2>7. Live' = Live \ {g}
    BY <2>6, <1>1, Typed DEF Live
  <2> QED
    BY <1>1, <2>2, <2>3, <2>7
<1>5. \/ graph' = down /\ UNCHANGED graphs
      \/ /\ graph' = DisposeFlags(down, {g}) /\ down[g].active = 0
         /\ graphs' = [graphs EXCEPT ![s] = IF @ = g /\ draining[s] # g
                                            THEN None ELSE @]
  BY <1>1 DEF Release
<1> QED
  BY <1>3, <1>4, <1>5

\* The step puts g in service, and takes S out.
PutInService(g, S) ==
  /\ Live' = (Live \cup {g}) \ S
  /\ \A h \in Graphs :
       /\ graph'[h].sid = graph[h].sid
       /\ graph'[h].gen = graph[h].gen
       /\ graph'[h].phase = IF h = g THEN "ready" ELSE graph[h].phase
       /\ graph'[h].disposed <=> (graph[h].disposed \/ h \in S)

\* A publish adds the graph, and takes at most one unpinned graph out for it.
LEMMA PublishGoes ==
  ASSUME IInv, NEW g \in Graphs, BuildPublished(g)
  PROVE  /\ graph[g].sid \in Sessions /\ graphs[graph[g].sid] = None
         /\ \/ PutInService(g, {})
            \/ \E v \in Live \cup {g} : ~Pinned(v) /\ PutInService(g, {v})
<1> DEFINE s == graph[g].sid
           cand == {h \in (Live \ {graphs[s]}) \cup {g} : ~graph[h].marked}
           built == [graph EXCEPT ![g].phase = "ready", ![g].lastUsed = clock]
           put == [graphs EXCEPT ![s] = g]
<1>1. s \in Sessions /\ graphs[s] = None /\ graph[g].phase = "building"
  BY Typed DEF IInv, BuildPublished, Stale, CurrentBuildPending, PendingIsCurrent
<1>2. /\ DOMAIN built = Graphs
      /\ \A h \in Graphs :
           /\ built[h] \in GraphRecord
           /\ built[h].sid = graph[h].sid /\ built[h].gen = graph[h].gen
           /\ built[h].phase = IF h = g THEN "ready" ELSE graph[h].phase
           /\ built[h].disposed = graph[h].disposed
  <2> DEFINE mid == [graph EXCEPT ![g].phase = "ready"]
  <2>1. mid \in [Graphs -> GraphRecord]
    BY Typed, PhaseTyped DEF Phases
  <2>2. built = [mid EXCEPT ![g].lastUsed = clock]
    OBVIOUS
  <2>3. \A x \in GraphRecord :
          LET y == [x EXCEPT !.phase = "ready"] IN
          y.sid = x.sid /\ y.gen = x.gen /\ y.phase = "ready" /\ y.disposed = x.disposed
    BY DEF GraphRecord
  <2>9. \A x \in GraphRecord :
          LET y == [x EXCEPT !.lastUsed = clock] IN
          y.sid = x.sid /\ y.gen = x.gen /\ y.phase = x.phase /\ y.disposed = x.disposed
    BY DEF GraphRecord
  <2>4. \A h \in Graphs : mid[h] = IF h = g THEN [graph[h] EXCEPT !.phase = "ready"]
                                   ELSE graph[h]
    BY Typed
  <2> HIDE DEF mid, built
  <2>5. \A h \in Graphs : built[h] = IF h = g THEN [mid[h] EXCEPT !.lastUsed = clock]
                                     ELSE mid[h]
    BY <2>1, <2>2
  <2>6. DOMAIN built = Graphs /\ \A h \in Graphs : built[h] \in GraphRecord
    BY <2>1, <2>2, <2>5, LastUsedTyped, Typed
  <2>7. \A h \in Graphs :
          /\ mid[h].sid = graph[h].sid /\ mid[h].gen = graph[h].gen
          /\ mid[h].phase = IF h = g THEN "ready" ELSE graph[h].phase
          /\ mid[h].disposed = graph[h].disposed
    <3> SUFFICES ASSUME NEW h \in Graphs
                 PROVE  /\ mid[h].sid = graph[h].sid /\ mid[h].gen = graph[h].gen
                        /\ mid[h].phase = IF h = g THEN "ready" ELSE graph[h].phase
                        /\ mid[h].disposed = graph[h].disposed
      OBVIOUS
    <3>1. graph[h] \in GraphRecord
      BY Typed
    <3>2. CASE h = g
      BY <2>3, <2>4, <3>1, <3>2
    <3>3. CASE h # g
      BY <2>4, <3>3
    <3> QED
      BY <3>2, <3>3
  <2>8. \A h \in Graphs :
          /\ built[h].sid = mid[h].sid /\ built[h].gen = mid[h].gen
          /\ built[h].phase = mid[h].phase /\ built[h].disposed = mid[h].disposed
    BY <2>1, <2>9, <2>5
  <2> QED
    BY <2>6, <2>7, <2>8
<1>3. \A t \in Sessions : put[t] = IF t = s THEN g ELSE graphs[t]
  BY <1>1, Typed DEF SlotMap
<1>4. \/ graphs' = put /\ graph' = built
      \/ \E v \in cand : graphs' = put /\ graph' = [built EXCEPT ![v].marked = TRUE]
      \/ \E v \in cand : /\ ~Pinned(v) /\ graphs' = Without(put, {v})
                         /\ graph' = [built EXCEPT ![v].disposed = TRUE]
  BY DEF BuildPublished, LeastRecent
<1>5. cand \subseteq Live \cup {g} /\ cand \subseteq Graphs
  <2>1. cand \subseteq Live \cup {g}
    OBVIOUS
  <2> QED
    BY <2>1, Typed
<1> HIDE DEF built, put, cand
<1>6. ASSUME graphs' = put
      PROVE  Live' = (Live \cup {g}) \ {}
  <2>1. \A t \in Sessions : graphs'[t] = IF t = s THEN g ELSE graphs[t]
    BY <1>3, <1>6
  <2> QED
    BY <1>1, <2>1, Typed DEF Live
<1>7. ASSUME graphs' = put, graph' = built
      PROVE  PutInService(g, {})
  BY <1>2, <1>6, <1>7 DEF PutInService
<1>8. ASSUME NEW v \in cand, graphs' = put, graph' = [built EXCEPT ![v].marked = TRUE]
      PROVE  PutInService(g, {})
  <2>1. \A h \in Graphs : graph'[h] = IF h = v THEN [built[h] EXCEPT !.marked = TRUE]
                                      ELSE built[h]
    BY <1>2, <1>8
  <2>2. \A x \in GraphRecord :
          LET y == [x EXCEPT !.marked = TRUE] IN
          y.sid = x.sid /\ y.gen = x.gen /\ y.phase = x.phase /\ y.disposed = x.disposed
    BY DEF GraphRecord
  <2> QED
    BY <1>2, <1>6, <1>8, <2>1, <2>2 DEF PutInService
<1>9. ASSUME NEW v \in cand, graphs' = Without(put, {v}),
             graph' = [built EXCEPT ![v].disposed = TRUE]
      PROVE  PutInService(g, {v})
  <2>1. \A h \in Graphs : graph'[h] = IF h = v THEN [built[h] EXCEPT !.disposed = TRUE]
                                      ELSE built[h]
    BY <1>2, <1>9
  <2>2. \A x \in GraphRecord :
          LET y == [x EXCEPT !.disposed = TRUE] IN
          y.sid = x.sid /\ y.gen = x.gen /\ y.phase = x.phase /\ y.disposed = TRUE
    BY DEF GraphRecord
  <2>3. \A t \in Sessions :
          graphs'[t] = LET p == IF t = s THEN g ELSE graphs[t] IN IF p = v THEN None ELSE p
    BY <1>3, <1>9 DEF Without
  <2>4. Live' = (Live \cup {g}) \ {v}
    BY <1>1, <2>3, Typed DEF Live
  <2>5. \A h \in Graphs : /\ graph'[h].sid = built[h].sid
                          /\ graph'[h].gen = built[h].gen
                          /\ graph'[h].phase = built[h].phase
                          /\ graph'[h].disposed = IF h = v THEN TRUE ELSE built[h].disposed
    <3> SUFFICES ASSUME NEW h \in Graphs
                 PROVE  /\ graph'[h].sid = built[h].sid
                        /\ graph'[h].gen = built[h].gen
                        /\ graph'[h].phase = built[h].phase
                        /\ graph'[h].disposed = IF h = v THEN TRUE ELSE built[h].disposed
      OBVIOUS
    <3>1. built[h] \in GraphRecord
      BY <1>2
    <3>2. CASE h = v
      BY <2>1, <2>2, <3>1, <3>2
    <3>3. CASE h # v
      BY <2>1, <3>3
    <3> QED
      BY <3>2, <3>3
  <2>7. \A h \in Graphs :
          graph'[h].disposed = IF h = v THEN TRUE ELSE graph[h].disposed
    BY <1>2, <2>5
  <2>8. \A h \in Graphs :
          graph'[h].disposed <=> (graph[h].disposed \/ h \in {v})
    BY <2>7
  <2> QED
    BY <1>2, <2>4, <2>5, <2>8 DEF PutInService
<1> QED
  BY <1>1, <1>4, <1>5, <1>7, <1>8, <1>9

LEMMA GoesKeeps ==
  ASSUME LInv, NEW S \in SUBSET Graphs, Goes(S),
         \A g \in S : graph[g].phase # "unused",
         \A r \in Requests : req'[r] = req[r] \/ req'[r].pc # "awaiting",
         \/ /\ generation' = generation /\ Live \ S \subseteq Live'
            /\ shutdown \in {"flushing", "returned"} => shutdown' \in {"flushing", "returned"}
         \/ generation' = generation + 1
         \/ generation' = generation /\ shutdown' \in {"flushing", "returned"}
  PROVE  AwaitedIsBuilt' /\ UnusedIsFresh' /\ NoneOfTomorrow' /\ CurrentIsServed'
<1>1. AwaitedIsBuilt'
  <2>1. \A r \in Requests : req[r].pc = "awaiting" => req[r].graph \in Graphs
    BY DEF LInv, IInv, RequestNamesGraph
  <2>2. \A r \in Requests : req[r].gen \in Nat
    BY Typed DEF LInv, ReqRecord
  <2> QED
    BY <2>1, <2>2, Typed DEF LInv, AwaitedIsBuilt, Goes
<1>2. UnusedIsFresh'
  BY DEF LInv, UnusedIsFresh, Goes
<1>3. NoneOfTomorrow' /\ (generation' = generation + 1 => \A g \in Graphs : graph'[g].gen # generation')
  <2>1. \A g \in Graphs : graph[g].gen \in Nat
    BY Typed DEF LInv, GraphRecord
  <2> QED
    BY <2>1, Typed DEF LInv, NoneOfTomorrow, Goes
<1>4. CurrentIsServed'
  BY <1>3 DEF LInv, CurrentIsServed, Goes
<1> QED
  BY <1>1, <1>2, <1>3, <1>4

\* A build that starts or ends: graph g changes, nobody's place in `graphs` does.
LEMMA BuildKeeps ==
  ASSUME LInv, NEW g \in Graphs, UNCHANGED <<graphs, generation, shutdown>>,
         \A h \in Graphs \ {g} : graph'[h] = graph[h],
         graph'[g].phase \in {"building", "rejected"}, graph'[g].gen <= generation,
         \A r \in Requests :
           \/ req'[r] = req[r] /\ (graph[g].phase = "unused" \/ graph'[g].gen = graph[g].gen)
           \/ /\ req'[r].pc = "awaiting" /\ req'[r].gen = generation
              /\ req'[r].graph \in Graphs
              /\ graph'[req'[r].graph].gen = generation
              /\ graph'[req'[r].graph].phase # "unused"
  PROVE  AwaitedIsBuilt' /\ UnusedIsFresh' /\ NoneOfTomorrow' /\ CurrentIsServed'
<1>1. UnusedIsFresh' /\ NoneOfTomorrow' /\ CurrentIsServed'
  BY DEF LInv, UnusedIsFresh, NoneOfTomorrow, CurrentIsServed, Live
<1>2. AwaitedIsBuilt'
  <2>1. \A r \in Requests : req[r].pc = "awaiting" => req[r].graph \in Graphs
    BY DEF LInv, IInv, RequestNamesGraph
  <2>2. generation \in Nat
    BY Typed DEF LInv
  <2> QED
    BY <2>1, <2>2 DEF LInv, AwaitedIsBuilt
<1> QED
  BY <1>1, <1>2

LEMMA LeasesStepKeeps == LInv /\ [Next]_vars => LInv'
<1> SUFFICES ASSUME LInv, [Next]_vars PROVE LInv'
  OBVIOUS
<1> DEFINE Rest == AwaitedIsBuilt /\ UnusedIsFresh /\ NoneOfTomorrow /\ CurrentIsServed
<1>a. IInv /\ CountExact /\ Rest
  BY DEF LInv
<1>b. IInv' /\ CountExact'
  BY <1>a, StepKeeps, StepCounts
<1>c. \A g \in Live \cup Detached : g \in Graphs /\ graph[g].phase = "ready"
  BY <1>a, Typed DEF IInv, ServedIsGood, DrainingIsPinned, Live, Detached
<1>d. ASSUME Goes({}), graphs' = graphs, generation' = generation,
             shutdown \in {"flushing", "returned"} => shutdown' \in {"flushing", "returned"},
             \A r \in Requests : req'[r] = req[r] \/ req'[r].pc # "awaiting"
      PROVE  Rest'
  <2>1. Live' = Live
    BY <1>d DEF Live
  <2> QED
    BY <1>d, <2>1, GoesKeeps
<1>1. ASSUME NEW r \in Requests, NEW s \in Sessions, AcquireHit(r, s)
      PROVE  Rest'
  <2>1. graphs[s] \in Graphs
    BY <1>1, <1>a, Typed DEF AcquireHit, SlotMap
  <2>2. Goes({})
    BY <1>1, <1>a, <2>1, PinGoes DEF AcquireHit
  <2>3. \A q \in Requests : req'[q] = req[q] \/ req'[q].pc # "awaiting"
    BY <1>1, <1>a, Typed DEF AcquireHit, Pin, Idle
  <2> QED
    BY <1>1, <1>d, <2>2, <2>3 DEF AcquireHit
<1>2. ASSUME NEW r \in Requests, NEW s \in Sessions, AcquireJoin(r, s)
      PROVE  Rest'
  <2>1. /\ pendingBuilds[s] \in Graphs /\ graph[pendingBuilds[s]].phase = "building"
        /\ graph[pendingBuilds[s]].gen = generation
    BY <1>2, <1>a, Typed DEF AcquireJoin, IInv, PendingIsCurrent, SlotMap
  <2>2. \A q \in Requests :
          \/ req'[q] = req[q]
          \/ /\ req'[q].pc = "awaiting" /\ req'[q].gen = generation
             /\ req'[q].graph = pendingBuilds[s]
    BY <1>2, <1>a, Typed DEF AcquireJoin
  <2>3. UNCHANGED <<graphs, generation, shutdown, graph>> /\ generation <= generation
    BY <1>2, <1>a, Typed DEF AcquireJoin
  <2> QED
    BY <2>1, <2>2, <2>3, BuildKeeps
<1>3. ASSUME NEW r \in Requests, NEW s \in Sessions, NEW g \in Graphs, AcquireBuild(r, s, g)
      PROVE  Rest'
  <2>1. /\ graph'[g].phase = "building" /\ graph'[g].gen = generation
        /\ \A h \in Graphs \ {g} : graph'[h] = graph[h]
    BY <1>3, <1>a, Typed DEF AcquireBuild, NoGraph
  <2>2. \A q \in Requests :
          \/ req'[q] = req[q]
          \/ /\ req'[q].pc = "awaiting" /\ req'[q].gen = generation
             /\ req'[q].graph = g
    BY <1>3, <1>a, Typed DEF AcquireBuild
  <2>3. /\ UNCHANGED <<graphs, generation, shutdown>> /\ generation <= generation
        /\ graph[g].phase = "unused"
    BY <1>3, <1>a, Typed DEF AcquireBuild
  <2> QED
    BY <2>1, <2>2, <2>3, BuildKeeps
<1>4. ASSUME NEW g \in Graphs, BuildOrphaned(g) \/ BuildFails(g)
      PROVE  Rest'
  <2>1. /\ graph'[g].phase = "rejected" /\ graph'[g].gen = graph[g].gen
        /\ graph[g].gen <= generation
        /\ \A h \in Graphs \ {g} : graph'[h] = graph[h]
    BY <1>4, <1>a, Typed DEF BuildOrphaned, BuildFails, GraphRecord, NoneOfTomorrow
  <2>2. UNCHANGED <<graphs, generation, shutdown, req>>
    BY <1>4 DEF BuildOrphaned, BuildFails
  <2> QED
    BY <2>1, <2>2, BuildKeeps
<1>5. ASSUME NEW g \in Graphs, BuildPublished(g)
      PROVE  Rest'
  <2>a. /\ {} \in SUBSET (Live \cup {g})
        /\ \A v \in Live \cup {g} : {v} \in SUBSET (Live \cup {g})
    OBVIOUS
  <2>1. PICK S \in SUBSET (Live \cup {g}) : PutInService(g, S)
    BY <1>5, <1>a, <2>a, PublishGoes
  <2>2. /\ graph[g].phase = "building"
        /\ UNCHANGED <<generation, req, shutdown>>
    BY <1>5 DEF BuildPublished
  <2>3. AwaitedIsBuilt' /\ UnusedIsFresh' /\ NoneOfTomorrow'
    <3>1. \A r \in Requests : req[r].pc = "awaiting" => req[r].graph \in Graphs
      BY <1>a DEF IInv, RequestNamesGraph
    <3> QED
      BY <1>a, <1>c, <2>1, <2>2, <3>1
      DEF PutInService, AwaitedIsBuilt, UnusedIsFresh, NoneOfTomorrow
  <2>4. CurrentIsServed'
    BY <1>a, <2>1, <2>2 DEF PutInService, CurrentIsServed
  <2> QED
    BY <2>3, <2>4
<1>6. ASSUME NEW r \in Requests, ResumeAcquire(r)
      PROVE  Rest'
  <2>1. req[r].graph \in Graphs
    BY <1>6, <1>a DEF ResumeAcquire, IInv, RequestNamesGraph
  <2>2. Goes({})
    <3>1. CASE UNCHANGED graph
      BY <3>1 DEF Goes
    <3>2. CASE Pin(r, req[r].graph)
      BY <1>a, <2>1, <3>2, PinGoes
    <3> QED
      BY <1>6, <3>1, <3>2 DEF ResumeAcquire
  <2>3. \A q \in Requests : req'[q] = req[q] \/ req'[q].pc # "awaiting"
    BY <1>6, <1>a, Typed DEF ResumeAcquire, Pin, Idle
  <2> QED
    BY <1>6, <1>d, <2>2, <2>3 DEF ResumeAcquire
<1>7. ASSUME NEW r \in Requests, Release(r)
      PROVE  Rest'
  <2>1. PICK S \in SUBSET {req[r].graph} :
          /\ Goes(S) /\ Live' = Live \ S
          /\ req[r].graph \in Graphs
    BY <1>7, <1>a, ReleaseGoes
  <2>2. graph[req[r].graph].phase = "ready"
    BY <1>7, <1>a DEF Release, IInv, RequestNamesGraph
  <2>3. /\ \A q \in Requests : req'[q] = req[q] \/ req'[q].pc # "awaiting"
        /\ UNCHANGED <<generation, shutdown>>
    BY <1>7, <1>a, Typed DEF Release, Idle
  <2>4. S \in SUBSET Graphs /\ \A g \in S : graph[g].phase # "unused"
    BY <2>1, <2>2
  <2> QED
    BY <2>1, <2>3, <2>4, GoesKeeps
<1>8. ASSUME NEW s \in Sessions, EvictOne(s)
      PROVE  Rest'
  <2>1. PICK S \in SUBSET Live : Goes(S) /\ Live' = Live \ S
    BY <1>8, <1>a, EvictOneGoes
  <2>2. UNCHANGED <<req, generation, shutdown>>
    BY <1>8 DEF EvictOne
  <2>3. S \in SUBSET Graphs /\ \A g \in S : graph[g].phase # "unused"
    BY <1>c
  <2> QED
    BY <2>1, <2>2, <2>3, GoesKeeps
<1>9. ASSUME EvictIdle
      PROVE  Rest'
  <2>1. IdleGraphs \subseteq Live /\ Goes(IdleGraphs) /\ Live' = Live \ IdleGraphs
    BY <1>9, <1>a, EvictIdleGoes
  <2>2. UNCHANGED <<req, generation, shutdown>>
    BY <1>9 DEF EvictIdle
  <2>3. IdleGraphs \in SUBSET Graphs /\ \A g \in IdleGraphs : graph[g].phase # "unused"
    BY <1>c, <2>1
  <2> QED
    BY <2>1, <2>2, <2>3, GoesKeeps
<1>10. ASSUME InvalidateAll
       PROVE  Rest'
  <2>1. Goes({g \in Live : ~Pinned(g)})
    BY <1>10, <1>a, InvalidateGoes
  <2>2. UNCHANGED req /\ generation' = generation + 1
    BY <1>10 DEF InvalidateAll
  <2>3. /\ {g \in Live : ~Pinned(g)} \in SUBSET Graphs
        /\ \A g \in {h \in Live : ~Pinned(h)} : graph[g].phase # "unused"
    BY <1>c
  <2> QED
    BY <2>1, <2>2, <2>3, GoesKeeps
<1>11. ASSUME DisposeAllSweep
       PROVE  Rest'
  <2>1. Goes(Live \cup Detached)
    BY <1>11, <1>a, SweepGoes
  <2>2. UNCHANGED <<req, generation>> /\ shutdown' = "flushing"
    BY <1>11 DEF DisposeAllSweep
  <2>3. /\ Live \cup Detached \in SUBSET Graphs
        /\ \A g \in Live \cup Detached : graph[g].phase # "unused"
    BY <1>c
  <2> QED
    BY <2>1, <2>2, <2>3, GoesKeeps
<1>12. ASSUME \/ DisposeAllBegin \/ DisposeAllReturn \/ Tick \/ UNCHANGED vars
              \/ \E g \in Graphs : TeardownDone(g)
       PROVE  Rest'
  <2>1. UNCHANGED <<graphs, graph, generation, req>>
    BY <1>12 DEF DisposeAllBegin, DisposeAllReturn, Tick, TeardownDone, vars
  <2>2. shutdown \in {"flushing", "returned"} => shutdown' \in {"flushing", "returned"}
    BY <1>12 DEF DisposeAllBegin, DisposeAllReturn, Tick, TeardownDone, vars
  <2>3. Goes({})
    BY <2>1 DEF Goes
  <2> QED
    BY <1>d, <2>1, <2>2, <2>3
<1> HIDE DEF Rest
<1>13. Rest'
  BY <1>1, <1>2, <1>3, <1>4, <1>5, <1>6, <1>7, <1>8, <1>9, <1>10, <1>11, <1>12
  DEF Next, BuildSettles
<1> QED
  BY <1>b, <1>13 DEF LInv, Rest

\* What SessionLease sees beside the status.
Owners == [g \in Graphs |-> IF LeaseStatus[g] = "absent" THEN None ELSE graph[g].sid]
Leases == [r \in Requests |-> IF req[r].pc = "holding" THEN req[r].graph ELSE None]
Serving == shutdown \notin {"flushing", "returned"}

LEMMA NothingSeen ==
  ASSUME LeaseStatus' = LeaseStatus, Owners' = Owners, Leases' = Leases, Serving' = Serving
  PROVE  UNCHANGED Promise!lvars
BY DEF Promise!lvars, Owners, Leases, Serving

\* Because the count is exact, pinned and leased is the same.
LEMMA PinnedIsLeased ==
  ASSUME LInv, NEW g \in Graphs
  PROVE  /\ Pinned(g) <=> \E r \in Requests : Leases[r] = g
         /\ Pinned(g) <=> Promise!Leased(g)
<1>1. graph[g].active = Cardinality(Holders(g)) /\ IsFiniteSet(Holders(g))
      /\ Cardinality(Holders(g)) \in Nat
  BY HoldersFinite DEF LInv, CountExact
<1>2. Pinned(g) <=> Holders(g) # {}
  BY <1>1, FS_EmptySet DEF Pinned
<1>3. g # None
  BY Typed DEF LInv
<1>4. \A r \in Requests : Leases[r] = g <=> r \in Holders(g)
  BY <1>3 DEF Leases, Holders
<1>5. Pinned(g) <=> \E r \in Requests : Leases[r] = g
  <2>1. Holders(g) \subseteq Requests
    BY DEF Holders
  <2> QED
    BY <1>2, <1>4, <2>1
<1>6. Promise!Leased(g) <=> \E r \in Requests : Leases[r] = g
  BY DEF Promise!Leased, Leases
<1> QED
  BY <1>5, <1>6

LEMMA ServingSeen ==
  ASSUME LInv
  PROVE  \A g \in Graphs : LeaseStatus[g] = "serving" <=> g \in Live
<1>1. \A g \in Live : graph[g].phase = "ready" /\ ~graph[g].disposed
  BY DEF LInv, IInv, ServedIsGood, Live
<1> QED
  BY <1>1 DEF LeaseStatus

\* Where graphs only leave service, those disposed are gone, the others retired.
LEMMA LeavingSeen ==
  ASSUME LInv, NEW S \in SUBSET Graphs, Goes(S), \A g \in S : graph[g].phase = "ready",
         Live' \subseteq Live
  PROVE  /\ \A g \in Graphs :
              LeaseStatus'[g] = IF g \in S THEN "gone"
                                ELSE IF g \in Live /\ g \notin Live' THEN "retired"
                                ELSE LeaseStatus[g]
         /\ Owners' = Owners
<1>1. \A g \in Live : graph[g].phase = "ready" /\ ~graph[g].disposed
  BY DEF LInv, IInv, ServedIsGood, Live
<1>2. \A g \in Graphs :
        LeaseStatus'[g] = IF g \in S THEN "gone"
                          ELSE IF g \in Live /\ g \notin Live' THEN "retired"
                          ELSE LeaseStatus[g]
  <2> SUFFICES ASSUME NEW g \in Graphs
               PROVE  LeaseStatus'[g] = IF g \in S THEN "gone"
                                        ELSE IF g \in Live /\ g \notin Live' THEN "retired"
                                        ELSE LeaseStatus[g]
    OBVIOUS
  <2>1. LeaseStatus'[g] = IF graph'[g].disposed THEN "gone"
                          ELSE IF graph'[g].phase # "ready" THEN "absent"
                          ELSE IF g \in Live' THEN "serving" ELSE "retired"
    BY DEF LeaseStatus
  <2>2. LeaseStatus[g] = IF graph[g].disposed THEN "gone"
                         ELSE IF graph[g].phase # "ready" THEN "absent"
                         ELSE IF g \in Live THEN "serving" ELSE "retired"
    BY DEF LeaseStatus
  <2> QED
    BY <1>1, <2>1, <2>2 DEF Goes
<1>3. \A g \in Graphs :
        /\ LeaseStatus'[g] = "absent" <=> LeaseStatus[g] = "absent"
        /\ graph'[g].sid = graph[g].sid
  <2>1. \A g \in S : LeaseStatus[g] # "absent"
    BY DEF LeaseStatus
  <2>2. \A g \in Live : LeaseStatus[g] # "absent"
    BY <1>1, Typed DEF LInv, LeaseStatus
  <2>3. \A g \in Graphs : graph'[g].sid = graph[g].sid
    BY DEF Goes
  <2> QED
    BY <1>2, <2>1, <2>2, <2>3
<1>4. Owners' = Owners
  BY <1>3 DEF Owners
<1> QED
  BY <1>2, <1>4

\* A request leases the graph it pins, or is turned away.
LEMMA PinLeases ==
  ASSUME LInv, NEW r \in Requests, NEW g \in Live, req[r].pc # "holding", Pin(r, g),
         ~closed, UNCHANGED <<graphs, shutdown>>
  PROVE  Promise!LeaseNext
<1>0. g \in Graphs /\ ~graph[g].disposed /\ LeaseStatus[g] = "serving"
  BY Typed, ServingSeen DEF LInv, IInv, ServedIsGood, Live
<1>1. Goes({}) /\ Live' = Live
  BY <1>0, PinGoes DEF LInv, Live
<1>2. LeaseStatus' = LeaseStatus /\ Owners' = Owners
  BY <1>1, LeavingSeen DEF LeaseStatus
<1>3. Leases[r] = None /\ Leases' = [Leases EXCEPT ![r] = g]
  <2>1. req' = [req EXCEPT ![r] = [pc |-> "holding", graph |-> g, gen |-> generation]]
    BY <1>0 DEF Pin
  <2>2. Leases'[r] = g /\ \A q \in Requests \ {r} : Leases'[q] = Leases[q]
    BY <2>1, Typed DEF LInv, Leases
  <2> QED
    BY <2>2 DEF Leases
<1>4. Serving /\ Serving' = Serving
  BY DEF Serving, closed
<1>5. Promise!Lease(r, g)
  BY <1>0, <1>2, <1>3, <1>4 DEF Promise!Lease, Owners, Leases, Serving
<1> QED
  BY <1>0, <1>5 DEF Promise!LeaseNext

\* A release returns the lease; the last one may take the graph away.
LEMMA ReleaseReturns ==
  ASSUME LInv, NEW r \in Requests, Release(r)
  PROVE  Promise!LeaseNext
<1>1. PICK g \in Graphs :
      /\ g = req[r].graph /\ graph[g].phase = "ready"
      /\ \/ Goes({}) /\ Live' = Live
         \/ Goes({g}) /\ Live' = Live \ {g} /\ graph'[g].active = 0
  BY ReleaseGoes DEF LInv, Release, IInv, RequestNamesGraph
<1>2. g # None /\ req[r].pc = "holding" /\ Leases[r] = g
  BY <1>1, Typed DEF LInv, Release, Leases
<1>3. Leases' = [Leases EXCEPT ![r] = None]
  <2>1. req' = [req EXCEPT ![r] = Idle]
    BY DEF Release
  <2>2. Leases'[r] = None /\ \A q \in Requests \ {r} : Leases'[q] = Leases[q]
    BY <2>1, Typed DEF LInv, Leases, Idle
  <2> QED
    BY <2>2 DEF Leases
<1>4. Serving' = Serving
  BY DEF Release, Serving
<1>5. CASE Goes({}) /\ Live' = Live
  <2>1. LeaseStatus' = LeaseStatus /\ Owners' = Owners
    BY <1>5, LeavingSeen DEF LeaseStatus
  <2>2. Promise!Return(r)
    BY <1>2, <1>3, <1>4, <2>1 DEF Promise!Return, Owners, Leases, Serving
  <2> QED
    BY <2>2 DEF Promise!LeaseNext
<1>6. CASE Goes({g}) /\ Live' = Live \ {g} /\ graph'[g].active = 0
  <2>1. \A h \in Graphs : LeaseStatus'[h] = IF h = g THEN "gone" ELSE LeaseStatus[h]
    BY <1>1, <1>6, LeavingSeen
  <2>2. LeaseStatus' = [LeaseStatus EXCEPT ![g] = "gone"]
    BY <2>1 DEF LeaseStatus
  <2>3. Owners' = Owners
    BY <1>1, <1>6, LeavingSeen
  <2>4. \A q \in Requests : Leases[q] = g => q = r
    <3>1. LInv'
      BY LeasesStepKeeps DEF Next
    <3>2. Holders(g)' = {}
      <4>1. graph'[g].active = Cardinality(Holders(g)') /\ IsFiniteSet(Holders(g)')
        <5>1. Holders(g)' \subseteq Requests
          BY DEF Holders
        <5> QED
          BY <3>1, <5>1, FS_Subset, RegistryAssumption DEF LInv, CountExact
      <4> QED
        BY <1>6, <4>1, FS_EmptySet
    <3>3. \A q \in Requests : Leases'[q] # g
      BY <1>2, <3>2 DEF Leases, Holders
    <3> QED
      BY <1>3, <3>3 DEF Leases
  <2>5. Promise!Return(r)
    BY <1>2, <1>3, <1>4, <2>2, <2>3, <2>4 DEF Promise!Return, Owners, Leases, Serving
  <2> QED
    BY <2>5 DEF Promise!LeaseNext
<1> QED
  BY <1>1, <1>5, <1>6

\* A reload, a sweep or a deletion retires what is leased and disposes the rest.
LEMMA LeavingRetires ==
  ASSUME LInv, NEW S \in SUBSET Live, Goes(S), UNCHANGED <<req, shutdown>>,
         \/ Live' = Live \ S /\ \A g \in S : ~Pinned(g)
         \/ Live' = {} /\ S = {g \in Live : ~Pinned(g)}
  PROVE  Promise!LeaseNext \/ UNCHANGED Promise!lvars
<1> DEFINE R == Live \ Live'
<1>0. S \in SUBSET Graphs /\ \A g \in S : graph[g].phase = "ready"
  BY Typed DEF LInv, IInv, ServedIsGood, Live
<1>1. /\ Owners' = Owners
      /\ \A g \in Graphs :
           LeaseStatus'[g] = IF g \in S THEN "gone"
                             ELSE IF g \in R THEN "retired" ELSE LeaseStatus[g]
  BY <1>0, LeavingSeen
<1>2. Leases' = Leases /\ Serving' = Serving
  BY DEF Leases, Serving
<1>3. R \in SUBSET Graphs /\ \A g \in R : LeaseStatus[g] = "serving"
  BY Typed, ServingSeen DEF LInv
<1>4. \A g \in R : g \in S <=> ~Promise!Leased(g)
  BY <1>3, PinnedIsLeased
<1>5. S \subseteq R
  OBVIOUS
<1>6. CASE R = {}
  <2>1. LeaseStatus' = LeaseStatus
    BY <1>1, <1>5, <1>6 DEF LeaseStatus
  <2> QED
    BY <1>1, <1>2, <2>1, NothingSeen
<1>7. CASE R # {}
  <2> HIDE DEF R
  <2>1. \A g \in Graphs :
          LeaseStatus'[g] = IF g \notin R THEN LeaseStatus[g]
                            ELSE IF Promise!Leased(g) THEN "retired" ELSE "gone"
    BY <1>1, <1>4, <1>5
  <2>2. LeaseStatus' = [g \in Graphs |->
                          IF g \notin R THEN LeaseStatus[g]
                          ELSE IF Promise!Leased(g) THEN "retired" ELSE "gone"]
    BY <2>1 DEF LeaseStatus
  <2>3. Promise!Retire(R)
    BY <1>1, <1>2, <1>3, <1>7, <2>2 DEF Promise!Retire, Owners, Leases, Serving
  <2> QED
    BY <1>3, <2>3 DEF Promise!LeaseNext
<1> QED
  BY <1>6, <1>7

\* A publish is a graph that enters service, with at most one that leaves for it.
LEMMA PublishServes ==
  ASSUME LInv, NEW g \in Graphs, BuildPublished(g)
  PROVE  Promise!LeaseNext
<1>1. PICK s \in Sessions :
      /\ s = graph[g].sid /\ graphs[s] = None
      /\ \/ PutInService(g, {})
         \/ \E v \in Live \cup {g} : ~Pinned(v) /\ PutInService(g, {v})
  BY PublishGoes DEF LInv
<1>2. /\ graph[g].phase = "building" /\ ~graph[g].disposed /\ g \notin Live
      /\ Serving /\ Serving' = Serving /\ Leases' = Leases
  <2>1. graph[g].phase = "building" /\ ~graph[g].disposed
    BY DEF BuildPublished, LInv, IInv, CurrentBuildPending
  <2>2. g \notin Live
    BY <2>1, ServingSeen DEF LeaseStatus
  <2>3. Serving
    BY Typed DEF BuildPublished, Stale, LInv, IInv, CurrentBuildPending, ShutdownCovers,
                 Serving
  <2> QED
    BY <2>1, <2>2, <2>3 DEF BuildPublished, Serving, Leases
<1>3. LeaseStatus[g] = "absent" /\ Owners[g] = None
  BY <1>2 DEF LeaseStatus, Owners
<1>4. \A h \in Graphs : LeaseStatus[h] = "serving" => Owners[h] # s
  <2>1. \A t \in Sessions : graphs[t] # None => graph[graphs[t]].sid = t
    BY DEF LInv, IInv, ServedIsGood
  <2>2. \A h \in Live : graph[h].sid # s
    BY <1>1, <2>1 DEF Live
  <2>3. \A h \in Graphs : LeaseStatus[h] = "serving" => Owners[h] = graph[h].sid
    BY DEF Owners
  <2> QED
    BY <2>2, <2>3, ServingSeen
<1>5. ASSUME NEW S \in SUBSET (Live \cup {g}), PutInService(g, S)
      PROVE  /\ \A h \in Graphs : LeaseStatus'[h] = IF h \in S THEN "gone"
                                                    ELSE IF h = g THEN "serving"
                                                    ELSE LeaseStatus[h]
             /\ Owners' = [Owners EXCEPT ![g] = s]
  <2>1. \A h \in Live : graph[h].phase = "ready" /\ ~graph[h].disposed
    BY DEF LInv, IInv, ServedIsGood, Live
  <2>2. \A h \in Graphs :
          /\ LeaseStatus'[h] = IF graph'[h].disposed THEN "gone"
                               ELSE IF graph'[h].phase # "ready" THEN "absent"
                               ELSE IF h \in Live' THEN "serving" ELSE "retired"
          /\ LeaseStatus[h] = IF graph[h].disposed THEN "gone"
                              ELSE IF graph[h].phase # "ready" THEN "absent"
                              ELSE IF h \in Live THEN "serving" ELSE "retired"
    BY DEF LeaseStatus
  <2>3. \A h \in Graphs :
          h \notin S => LeaseStatus'[h] = IF h = g THEN "serving" ELSE LeaseStatus[h]
    BY <1>2, <1>5, <2>2 DEF PutInService
  <2>4. \A h \in Graphs : h \in S => LeaseStatus'[h] = "gone"
    BY <1>5, <2>2 DEF PutInService
  <2>5. Owners' = [Owners EXCEPT ![g] = s]
    <3>1. \A h \in Graphs : graph'[h].sid = graph[h].sid
      BY <1>5 DEF PutInService
    <3>2. LeaseStatus'[g] # "absent"
      BY <2>3, <2>4
    <3>3. \A h \in Graphs \ {g} :
            LeaseStatus'[h] = "absent" <=> LeaseStatus[h] = "absent"
      BY <2>1, <2>2, <2>3, <2>4
    <3>4. Owners'[g] = s /\ \A h \in Graphs \ {g} : Owners'[h] = Owners[h]
      BY <1>1, <3>1, <3>2, <3>3 DEF Owners
    <3> QED
      BY <3>4 DEF Owners
  <2> QED
    BY <2>3, <2>4, <2>5
<1>6. CASE PutInService(g, {})
  <2>a. {} \in SUBSET (Live \cup {g})
    OBVIOUS
  <2>b. /\ Owners' = [Owners EXCEPT ![g] = s]
        /\ \A h \in Graphs : LeaseStatus'[h] = IF h = g THEN "serving" ELSE LeaseStatus[h]
    BY <1>5, <1>6, <2>a
  <2>1. LeaseStatus' = [LeaseStatus EXCEPT ![g] = "serving"]
    BY <2>b DEF LeaseStatus
  <2>2. Owners' = [Owners EXCEPT ![g] = s]
    BY <2>b
  <2>3. Promise!Serve(g, s)
    BY <1>2, <1>3, <1>4, <2>1, <2>2 DEF Promise!Serve, Owners, Leases, Serving
  <2> QED
    BY <1>1, <2>3 DEF Promise!LeaseNext
<1>7. ASSUME NEW v \in Live \cup {g}, ~Pinned(v), PutInService(g, {v})
      PROVE  Promise!LeaseNext
  <2>0. v \in Graphs
    BY Typed DEF LInv
  <2>a. {v} \in SUBSET (Live \cup {g})
    OBVIOUS
  <2>2. Owners' = [Owners EXCEPT ![g] = s]
    BY <1>5, <1>7, <2>a
  <2>1. \A h \in Graphs : LeaseStatus'[h] = IF h = v THEN "gone"
                                            ELSE IF h = g THEN "serving"
                                            ELSE LeaseStatus[h]
    BY <1>5, <1>7, <2>a
  <2>3. CASE v = g
    <3>1. LeaseStatus' = [LeaseStatus EXCEPT ![g] = "gone"]
      BY <2>1, <2>3 DEF LeaseStatus
    <3>2. Promise!Serve(g, s)
      BY <1>2, <1>3, <1>4, <2>2, <3>1 DEF Promise!Serve, Owners, Leases, Serving
    <3> QED
      BY <1>1, <3>2 DEF Promise!LeaseNext
  <2>4. CASE v # g
    <3>1. LeaseStatus' = [LeaseStatus EXCEPT ![g] = "serving", ![v] = "gone"]
      BY <2>0, <2>1, <2>4 DEF LeaseStatus
    <3>2. LeaseStatus[v] = "serving" /\ ~Promise!Leased(v)
      BY <1>7, <2>0, <2>4, ServingSeen, PinnedIsLeased
    <3>3. Promise!Serve(g, s)
      BY <1>2, <1>3, <1>4, <2>0, <2>2, <3>1, <3>2
      DEF Promise!Serve, Owners, Leases, Serving
    <3> QED
      BY <1>1, <3>3 DEF Promise!LeaseNext
  <2> QED
    BY <2>3, <2>4
<1> QED
  BY <1>1, <1>6, <1>7

\* The sweep of a shutdown closes the leases.
LEMMA SweepCloses ==
  ASSUME LInv, DisposeAllSweep
  PROVE  Promise!LeaseNext
<1> DEFINE S == Live \cup Detached
           lost == {g \in Graphs : LeaseStatus[g] = "retired" /\ g \notin S}
<1>1. Goes(S) /\ Live' = {}
  BY SweepGoes DEF LInv
<1>2. S \in SUBSET Graphs /\ \A g \in S : graph[g].phase = "ready"
  BY Typed DEF LInv, IInv, ServedIsGood, DrainingIsPinned, Live, Detached
<1>3. /\ Owners' = Owners
      /\ \A g \in Graphs :
           LeaseStatus'[g] = IF g \in S THEN "gone"
                             ELSE IF g \in Live /\ g \notin Live' THEN "retired"
                             ELSE LeaseStatus[g]
  BY <1>1, <1>2, LeavingSeen
<1>4. Leases' = Leases /\ Serving /\ ~Serving'
  BY DEF DisposeAllSweep, Leases, Serving
<1>5. \A g \in lost : Promise!Leased(g)
  <2>1. \A g \in lost : graph[g].phase = "ready" /\ ~graph[g].disposed
    BY DEF LeaseStatus
  <2>2. \A g \in lost : Pinned(g)
    BY <2>1 DEF LInv, IInv, NothingLost
  <2> QED
    BY <2>2, PinnedIsLeased
<1>6. \A g \in Graphs : LeaseStatus[g] \in {"serving", "retired"} /\ g \notin lost <=>
                          g \in S /\ LeaseStatus[g] # "gone"
  <2>1. \A g \in S : LeaseStatus[g] \in {"serving", "retired", "gone"}
    BY <1>2 DEF LeaseStatus
  <2> QED
    BY <2>1, ServingSeen
<1>7. \A g \in Graphs :
        LeaseStatus'[g] = IF LeaseStatus[g] \in {"serving", "retired"} /\ g \notin lost
                          THEN "gone" ELSE LeaseStatus[g]
  <2> HIDE DEF lost
  <2> QED
    BY <1>3, <1>6
<1>8. LeaseStatus' = [g \in Graphs |->
                        IF LeaseStatus[g] \in {"serving", "retired"} /\ g \notin lost
                        THEN "gone" ELSE LeaseStatus[g]]
  BY <1>7 DEF LeaseStatus
<1>9. lost \in SUBSET {g \in Graphs : LeaseStatus[g] = "retired" /\ Promise!Leased(g)}
  BY <1>5
<1> HIDE DEF lost
<1>10. Promise!Close
  BY <1>3, <1>4, <1>8, <1>9 DEF Promise!Close, Owners, Leases, Serving
<1> QED
  BY <1>10 DEF Promise!LeaseNext

LEMMA InitImplements == Init => LInv /\ Promise!LeaseInit
<1> SUFFICES ASSUME Init PROVE LInv /\ Promise!LeaseInit
  OBVIOUS
<1>1. IInv
  BY InitEstablishes
<1>2. \A g \in Graphs : Holders(g) = {} /\ graph[g].active = 0
  BY DEF Init, Holders, Idle, NoGraph
<1>3. CountExact
  BY <1>2, FS_EmptySet DEF CountExact
<1>4. AwaitedIsBuilt /\ UnusedIsFresh /\ NoneOfTomorrow /\ CurrentIsServed
  BY DEF Init, Idle, NoGraph, AwaitedIsBuilt, UnusedIsFresh, NoneOfTomorrow,
         CurrentIsServed
<1>5. LeaseStatus = [g \in Graphs |-> "absent"]
  BY DEF Init, NoGraph, LeaseStatus
<1>6. /\ Owners = [g \in Graphs |-> None] /\ Serving
      /\ Leases = [r \in Requests |-> None]
  BY <1>5 DEF Init, Idle, Owners, Leases, Serving
<1>7. Promise!LeaseInit
  BY <1>5, <1>6 DEF Promise!LeaseInit, Owners, Leases, Serving
<1> QED
  BY <1>1, <1>3, <1>4, <1>7 DEF LInv

LEMMA StepImplements == LInv /\ [Next]_vars => [Promise!LeaseNext]_(Promise!lvars)
<1> SUFFICES ASSUME LInv, [Next]_vars
             PROVE  Promise!LeaseNext \/ UNCHANGED Promise!lvars
  OBVIOUS
<1>1. IInv /\ \A g \in Live : graph[g].phase = "ready"
  BY DEF LInv, IInv, ServedIsGood, Live
<1>2. ASSUME Leases' = Leases, Serving' = Serving, LeaseStatus' = LeaseStatus,
             \A g \in Graphs : LeaseStatus[g] # "absent" => graph'[g].sid = graph[g].sid
      PROVE  UNCHANGED Promise!lvars
  <2>1. Owners' = Owners
    BY <1>2 DEF Owners
  <2> QED
    BY <1>2, <2>1, NothingSeen
<1>3. ASSUME NEW r \in Requests, NEW s \in Sessions, AcquireHit(r, s)
      PROVE  Promise!LeaseNext
  <2>1. graphs[s] \in Live
    BY <1>3 DEF AcquireHit, Live
  <2> QED
    BY <1>3, <2>1, PinLeases DEF AcquireHit
<1>4. ASSUME NEW r \in Requests, NEW s \in Sessions,
             AcquireJoin(r, s) \/ \E g \in Graphs : AcquireBuild(r, s, g)
      PROVE  UNCHANGED Promise!lvars
  <2>1. Leases' = Leases /\ Serving' = Serving
    BY <1>4, <1>1, Typed DEF AcquireJoin, AcquireBuild, Leases, Serving
  <2>2. Live' = Live
    BY <1>4 DEF AcquireJoin, AcquireBuild, Live
  <2>3. \A g \in Graphs : graph'[g] = graph[g] \/ LeaseStatus[g] = "absent"
    BY <1>4, <1>1, Typed
    DEF AcquireJoin, AcquireBuild, LeaseStatus, LInv, UnusedIsFresh
  <2>4. \A g \in Graphs : graph'[g] = graph[g]
                          \/ (graph'[g].phase = "building" /\ ~graph'[g].disposed)
    <3>1. CASE AcquireJoin(r, s)
      BY <3>1 DEF AcquireJoin
    <3>2. ASSUME NEW g \in Graphs, AcquireBuild(r, s, g)
          PROVE  /\ graph'[g].phase = "building" /\ ~graph'[g].disposed
                 /\ \A h \in Graphs \ {g} : graph'[h] = graph[h]
      BY <1>1, <3>2, Typed DEF AcquireBuild, NoGraph
    <3> QED
      BY <1>4, <3>1, <3>2
  <2>5. \A g \in Graphs : LeaseStatus'[g] = LeaseStatus[g]
    BY <2>2, <2>3, <2>4 DEF LeaseStatus
  <2>6. LeaseStatus' = LeaseStatus
    BY <2>5 DEF LeaseStatus
  <2>7. \A g \in Graphs : LeaseStatus[g] # "absent" => graph'[g].sid = graph[g].sid
    BY <2>3
  <2> QED
    BY <1>2, <2>1, <2>6, <2>7
<1>5. ASSUME NEW g \in Graphs, BuildFails(g)
      PROVE  UNCHANGED Promise!lvars
  <2>1. Leases' = Leases /\ Serving' = Serving /\ Live' = Live
    BY <1>5 DEF BuildFails, Leases, Serving, Live
  <2>2. /\ graph[g].phase = "building" /\ graph'[g].phase = "rejected"
        /\ graph'[g].sid = graph[g].sid
        /\ graph'[g].disposed = graph[g].disposed
        /\ \A h \in Graphs \ {g} : graph'[h] = graph[h]
    BY <1>5, <1>1, Typed DEF BuildFails, GraphRecord
  <2>3. \A h \in Graphs : LeaseStatus'[h] = LeaseStatus[h]
    BY <2>1, <2>2 DEF LeaseStatus
  <2>4. LeaseStatus' = LeaseStatus
    BY <2>3 DEF LeaseStatus
  <2> QED
    BY <1>2, <2>1, <2>2, <2>4
<1>6. ASSUME NEW g \in Graphs, BuildOrphaned(g)
      PROVE  Promise!LeaseNext
  <2>1. Leases' = Leases /\ Serving' = Serving /\ Live' = Live
    BY <1>6 DEF BuildOrphaned, Leases, Serving, Live
  <2>2. PICK s \in Sessions :
        /\ graph[g].phase = "building" /\ graph[g].sid = s /\ ~graph[g].disposed
        /\ graph'[g].phase = "rejected" /\ graph'[g].sid = s /\ graph'[g].disposed
        /\ \A h \in Graphs \ {g} : graph'[h] = graph[h]
    BY <1>6, <1>1, Typed DEF BuildOrphaned, GraphRecord, IInv, CurrentBuildPending
  <2>3. /\ LeaseStatus[g] = "absent"
        /\ \A h \in Graphs : LeaseStatus'[h] = IF h = g THEN "gone" ELSE LeaseStatus[h]
    BY <2>1, <2>2 DEF LeaseStatus
  <2>4. LeaseStatus' = [LeaseStatus EXCEPT ![g] = "gone"]
    BY <2>3 DEF LeaseStatus
  <2>5. \A h \in Graphs : Owners'[h] = IF h = g THEN s ELSE Owners[h]
    BY <2>2, <2>3 DEF Owners
  <2>6. Owners' = [Owners EXCEPT ![g] = s]
    BY <2>5 DEF Owners
  <2>7. Promise!Discard(g, s)
    BY <2>1, <2>3, <2>4, <2>6 DEF Promise!Discard, Owners, Leases, Serving
  <2> QED
    BY <2>7 DEF Promise!LeaseNext
<1>7. ASSUME NEW r \in Requests, ResumeAcquire(r)
      PROVE  Promise!LeaseNext \/ UNCHANGED Promise!lvars
  <2>1. PICK g \in Graphs : g = req[r].graph
    BY <1>1, <1>7 DEF ResumeAcquire, IInv, RequestNamesGraph
  <2>2. CASE req' = [req EXCEPT ![r] = Idle] /\ UNCHANGED graph
    <3>1. Leases' = Leases /\ Serving' = Serving
      BY <1>1, <1>7, <2>2, Typed DEF ResumeAcquire, Leases, Serving, Idle
    <3>2. LeaseStatus' = LeaseStatus
      BY <1>7, <2>2 DEF ResumeAcquire, LeaseStatus, Live
    <3> QED
      BY <1>2, <2>2, <3>1, <3>2
  <2>3. CASE /\ graph[g].phase = "ready" /\ ~closed /\ generation = req[r].gen
             /\ ~graph[g].disposed
    <3>1. graph[g].gen = generation
      BY <1>7, <2>1, <2>3 DEF ResumeAcquire, LInv, AwaitedIsBuilt
    <3>2. g \in Live
      BY <2>3, <3>1 DEF LInv, CurrentIsServed, closed
    <3>3. Pin(r, g) /\ req[r].pc # "holding" /\ UNCHANGED <<graphs, shutdown>>
      BY <1>7, <2>1, <2>3 DEF ResumeAcquire
    <3> QED
      BY <2>3, <3>2, <3>3, PinLeases
  <2> QED
    BY <1>7, <2>1, <2>2, <2>3 DEF ResumeAcquire, Settled, Pin
<1>8. ASSUME NEW s \in Sessions, EvictOne(s)
      PROVE  Promise!LeaseNext \/ UNCHANGED Promise!lvars
  <2>1. PICK S \in SUBSET Live : Goes(S) /\ Live' = Live \ S /\ \A g \in S : ~Pinned(g)
    BY <1>1, <1>8, EvictOneGoes
  <2> QED
    BY <1>8, <2>1, LeavingRetires DEF EvictOne
<1>9. ASSUME EvictIdle
      PROVE  Promise!LeaseNext \/ UNCHANGED Promise!lvars
  <2>1. /\ IdleGraphs \in SUBSET Live /\ Goes(IdleGraphs) /\ Live' = Live \ IdleGraphs
        /\ \A g \in IdleGraphs : ~Pinned(g)
    BY <1>1, <1>9, EvictIdleGoes
  <2> QED
    BY <1>9, <2>1, LeavingRetires DEF EvictIdle
<1>10. ASSUME InvalidateAll
       PROVE  Promise!LeaseNext \/ UNCHANGED Promise!lvars
  <2>1. Goes({g \in Live : ~Pinned(g)}) /\ Live' = {}
    BY <1>1, <1>10, InvalidateGoes
  <2> QED
    BY <1>10, <2>1, LeavingRetires DEF InvalidateAll
<1>11. ASSUME \/ DisposeAllBegin \/ DisposeAllReturn \/ Tick \/ UNCHANGED vars
              \/ \E g \in Graphs : TeardownDone(g)
       PROVE  UNCHANGED Promise!lvars
  <2>1. UNCHANGED <<graphs, graph, req>> /\ Serving' = Serving
    BY <1>11 DEF DisposeAllBegin, DisposeAllReturn, Tick, TeardownDone, vars, Serving
  <2>2. Leases' = Leases /\ LeaseStatus' = LeaseStatus
    BY <2>1 DEF Leases, LeaseStatus, Live
  <2> QED
    BY <1>2, <2>1, <2>2
<1> QED
  BY <1>3, <1>4, <1>5, <1>6, <1>7, <1>8, <1>9, <1>10, <1>11, PublishServes,
     ReleaseReturns, SweepCloses
  DEF Next, BuildSettles

\* The registry implements the leases it promises: for any sessions, requests, builds,
\* reloads and caps a request holds the graph that was being served when it came, and
\* the graph goes when its time has passed and the last lease has ended.
THEOREM RegistryImplementsLease == Spec => ImplementsLease
  BY InitImplements, LeasesStepKeeps, StepImplements, PTL
  DEF Spec, ImplementsLease, Promise!LeaseSpec

-----------------------------------------------------------------------------
(* What the graphs own.                                                    *)

\* Where a graph stands with its build and its teardown agrees with its phase.
StepAgrees ==
  \A g \in Graphs :
    /\ graph[g].phase = "unused" => step[g] = "hydrating" /\ graph[g].sid \notin Sessions
    /\ graph[g].phase # "unused" => graph[g].sid \in Sessions
    /\ graph[g].phase = "building" => step[g] \in BuildSteps
    /\ graph[g].phase \in {"ready", "rejected"} => step[g] \in TearSteps
    /\ graph[g].disposed => graph[g].phase \in {"ready", "rejected"}
    /\ graph[g].disposed <=> g \in tearing \/ step[g] = "torn"
    /\ step[g] \in TearSteps \ {"collections"} => graph[g].disposed
    /\ closing[g] # None => step[g] \in {"replacing", "closingMcp", "closingPipeline"}

\* What a graph has not yet opened is not open, ...
OpensInOrder ==
  \A g \in Graphs :
    /\ step[g] = "hydrating" => g \notin mcpOpen
    /\ step[g] \in {"hydrating", "assembling"} => g \notin pipeOpen
    /\ step[g] = "replacing" => g \in pipeOpen

\* ... and what is registered or being closed is open, and of the session it is filed
\* under.
RegisteredIsOpen ==
  \A s \in Sessions :
    /\ mcpClose[s] # None => mcpClose[s] \in mcpOpen /\ graph[mcpClose[s]].sid = s
    /\ pipeClose[s] # None =>
         /\ pipeClose[s] \in pipeOpen /\ graph[pipeClose[s]].sid = s
         /\ step[pipeClose[s]] # "replacing"

ClosingIsOpen ==
  \A g \in Graphs : closing[g] # None =>
    LET h == closing[g] IN
    /\ graph[h].sid = graph[g].sid
    /\ IF step[g] = "closingMcp" THEN h \in mcpOpen /\ mcpClose[graph[g].sid] # h
       ELSE /\ h \in pipeOpen /\ pipeClose[graph[g].sid] # h
            /\ step[h] # "replacing"

\* Who closes what nobody else does.
ClosersApart ==
  \A g, h \in Graphs :
    g # h /\ closing[g] # None /\ closing[g] = closing[h] =>
      (step[g] = "closingMcp") # (step[h] = "closingMcp")

\* No other graph is, or was, of the session of g.
Alone(g) == graph[g].phase # "unused" /\ \A h \in Graphs : graph[h].sid = graph[g].sid => h = g

\* The graph of a session that has no other: what it opened it has registered, or closes.
AloneIsFiled ==
  \A g \in Graphs : Alone(g) =>
    LET s == graph[g].sid IN
    /\ step[g] # "replacing"
    /\ g \in mcpOpen => \/ mcpClose[s] = g /\ step[g] \notin TearSteps \ {"collections"}
                        \/ closing[g] = g /\ step[g] = "closingMcp"
    /\ g \in pipeOpen => \/ pipeClose[s] = g /\ step[g] \notin {"closingPipeline", "torn"}
                         \/ closing[g] = g /\ step[g] = "closingPipeline"

ResourcesInv ==
  /\ ResourcesTypeOK
  /\ StepAgrees
  /\ OpensInOrder
  /\ RegisteredIsOpen
  /\ ClosingIsOpen
  /\ ClosersApart
  /\ AloneIsFiled

\* Every step is one of the registry, or none.
LEMMA StepOfRegistry == ResourcesNext => [Next]_vars
<1> SUFFICES ASSUME ResourcesNext PROVE [Next]_vars
  OBVIOUS
<1>1. CASE RegistryStep
  BY <1>1 DEF RegistryStep, Next
<1>2. ASSUME NEW g \in Graphs, BuildStep(g) PROVE [Next]_vars
  BY <1>2 DEF BuildStep, OpenClients, BuildBreaks, OpenPipeline, ReplacePipeline,
              SettleBuild, Next, BuildSettles
<1>3. ASSUME NEW g \in Graphs, TearStep(g) PROVE [Next]_vars
  BY <1>3 DEF TearStep, CloseClients, ClosePipeline, PipelineClosed, Torn, Next
<1> QED
  BY <1>1, <1>2, <1>3 DEF ResourcesNext

LEMMA StepOrStutter == [ResourcesNext]_allVars => [Next]_vars
  BY StepOfRegistry DEF allVars

-----------------------------------------------------------------------------
(* What a step of the registry means for the graphs.                       *)

\* Graphs are only ever disposed, and a teardown begins with each that is.
LivesOn ==
  /\ tearing \subseteq tearing'
  /\ \A g \in Graphs :
       /\ graph'[g].sid = graph[g].sid
       /\ graph'[g].disposed <=> graph[g].disposed \/ g \in tearing'
       /\ g \in tearing' \ tearing =>
            ~graph[g].disposed /\ graph'[g].phase \in {"ready", "rejected"}

PhasesStay == \A g \in Graphs : graph'[g].phase = graph[g].phase

\* What the Maps and the requests refer to is built.
LEMMA ReferredIsReady ==
  ASSUME IInv
  PROVE  /\ \A g \in Live \cup Detached : g \in Graphs /\ graph[g].phase = "ready"
         /\ \A r \in Requests : req[r].pc = "holding" =>
              req[r].graph \in Graphs /\ graph[req[r].graph].phase = "ready"
  BY Typed DEF IInv, Live, Detached, ServedIsGood, DrainingIsPinned, RequestNamesGraph, SlotMap

\* dispose() on the graphs of S, and nothing else that matters here.
LEMMA DisposeLivesOn ==
  ASSUME IInv, NEW gr \in [Graphs -> GraphRecord], NEW S \in SUBSET Graphs,
         \A g \in Graphs : gr[g].sid = graph[g].sid /\ gr[g].phase = graph[g].phase
                           /\ gr[g].disposed = graph[g].disposed,
         \A g \in S : graph[g].phase = "ready",
         \A g \in tearing : graph[g].disposed,
         graph' = DisposeFlags(gr, S), tearing' = tearing \cup NewlyTorn(S)
  PROVE  LivesOn /\ PhasesStay
<1>1. \A g \in Graphs :
        /\ graph'[g].sid = graph[g].sid /\ graph'[g].phase = graph[g].phase
        /\ graph'[g].disposed = (graph[g].disposed \/ g \in S)
  BY DEF DisposeFlags, GraphRecord
<1>2. graph \in [Graphs -> GraphRecord]
  BY Typed
<1> QED
  BY <1>1, <1>2 DEF LivesOn, PhasesStay, NewlyTorn, GraphRecord

\* No graph is disposed.
LEMMA NoneDisposedLivesOn ==
  ASSUME IInv, UNCHANGED tearing, \A g \in tearing : graph[g].disposed,
         \A g \in Graphs : /\ graph'[g].sid = graph[g].sid
                           /\ graph'[g].phase = graph[g].phase
                           /\ (graph'[g].disposed <=> graph[g].disposed)
  PROVE  LivesOn /\ PhasesStay
  BY Typed DEF LivesOn, PhasesStay, GraphRecord

LEMMA RegistryLivesOn ==
  ASSUME IInv, \A g \in tearing : graph[g].disposed,
         RegistryStep,
         ~\E r \in Requests, s \in Sessions, g \in Graphs : AcquireBuild(r, s, g)
  PROVE  LivesOn /\ PhasesStay
<1>0. graph \in [Graphs -> GraphRecord] /\ Live \subseteq Graphs /\ Detached \subseteq Graphs
  BY Typed
<1>1. ASSUME NEW r \in Requests, NEW g \in Graphs, Pin(r, g), UNCHANGED tearing
      PROVE  LivesOn /\ PhasesStay
  <2>1. Goes({})
    BY <1>1, PinGoes
  <2> QED
    BY <1>1, <2>1, NoneDisposedLivesOn DEF Goes
<1>2. ASSUME NEW r \in Requests, NEW s \in Sessions, AcquireHit(r, s)
      PROVE  LivesOn /\ PhasesStay
  BY <1>1, <1>2, Typed DEF AcquireHit, SlotMap
<1>3. ASSUME UNCHANGED <<graph, tearing>>
      PROVE  LivesOn /\ PhasesStay
  BY <1>3, NoneDisposedLivesOn
<1>4. ASSUME NEW r \in Requests, ResumeAcquire(r)
      PROVE  LivesOn /\ PhasesStay
  <2>1. req[r].graph \in Graphs
    BY <1>4 DEF ResumeAcquire, IInv, RequestNamesGraph
  <2> QED
    BY <1>1, <1>3, <1>4, <2>1 DEF ResumeAcquire
<1>5. ASSUME NEW r \in Requests, Release(r)
      PROVE  LivesOn /\ PhasesStay
  <2>1. PICK g \in Graphs : g = req[r].graph /\ graph[g].phase = "ready"
    BY <1>5, ReferredIsReady DEF Release
  <2> DEFINE down == [graph EXCEPT ![g].active = Unpin(graph[g].active),
                                   ![g].lastUsed = clock]
  <2>2. /\ down \in [Graphs -> GraphRecord]
        /\ \A h \in Graphs : down[h].sid = graph[h].sid /\ down[h].phase = graph[h].phase
                             /\ down[h].disposed = graph[h].disposed
    <3>1. Unpin(graph[g].active) \in Nat /\ clock \in Nat
      BY <1>0, Typed DEF Unpin, GraphRecord
    <3>2. down \in [Graphs -> GraphRecord]
      BY <3>1, <1>0, UseTyped
    <3> QED
      BY <3>2, <1>0 DEF GraphRecord
  <2>3. \/ graph' = down /\ UNCHANGED tearing
        \/ graph' = DisposeFlags(down, {g}) /\ tearing' = tearing \cup NewlyTorn({g})
    BY <1>5, <2>1 DEF Release
  <2> HIDE DEF down
  <2>4. CASE graph' = down /\ UNCHANGED tearing
    <3>1. \A h \in Graphs : /\ graph'[h].sid = graph[h].sid
                            /\ graph'[h].phase = graph[h].phase
                            /\ graph'[h].disposed <=> graph[h].disposed
      BY <2>2, <2>4
    <3> QED
      BY <2>4, <3>1, NoneDisposedLivesOn
  <2>5. CASE graph' = DisposeFlags(down, {g}) /\ tearing' = tearing \cup NewlyTorn({g})
    <3>1. PICK S \in SUBSET Graphs : S = {g}
      OBVIOUS
    <3>2. /\ \A h \in S : graph[h].phase = "ready"
          /\ graph' = DisposeFlags(down, S) /\ tearing' = tearing \cup NewlyTorn(S)
      BY <2>1, <2>5, <3>1
    <3> QED
      BY <2>2, <3>2, DisposeLivesOn
  <2> QED
    BY <2>3, <2>4, <2>5
<1>6. ASSUME NEW S \in SUBSET (Live \cup Detached), graph' = DisposeFlags(graph, S),
             tearing' = tearing \cup NewlyTorn(S)
      PROVE  LivesOn /\ PhasesStay
  BY <1>0, <1>6, ReferredIsReady, DisposeLivesOn
<1>7. ASSUME NEW s \in Sessions, EvictOne(s)
      PROVE  LivesOn /\ PhasesStay
  <2>1. graphs[s] \in Live
    BY <1>7 DEF EvictOne, Live
  <2>2. CASE Pinned(graphs[s])
    <3>1. UNCHANGED tearing
      BY <1>7, <2>2 DEF EvictOne, EvictAndFlush, NewlyTorn
    <3>2. graph' = [graph EXCEPT ![graphs[s]].marked = TRUE]
      BY <1>7, <2>2 DEF EvictOne
    <3>3. \A g \in Graphs : /\ graph'[g].sid = graph[g].sid
                            /\ graph'[g].phase = graph[g].phase
                            /\ graph'[g].disposed = graph[g].disposed
      BY <3>2, <1>0 DEF GraphRecord
    <3> QED
      BY <3>1, <3>3, NoneDisposedLivesOn
  <2>3. CASE ~Pinned(graphs[s])
    <3>1. /\ graph' = DisposeFlags(graph, {graphs[s]})
          /\ tearing' = tearing \cup NewlyTorn({graphs[s]})
      BY <1>7, <2>3 DEF EvictOne, EvictAndFlush
    <3> QED
      BY <2>1, <3>1, <1>6
  <2> QED
    BY <2>2, <2>3
<1>8. ASSUME EvictIdle PROVE LivesOn /\ PhasesStay
  <2>1. IdleGraphs \subseteq Live
    BY DEF IdleGraphs
  <2> QED
    BY <1>6, <1>8, <2>1 DEF EvictIdle, EvictAndFlush
<1>9. ASSUME InvalidateAll PROVE LivesOn /\ PhasesStay
  <2> DEFINE kept == {g \in Live : Pinned(g)}
             gone == Live \ kept
             gr == [g \in Graphs |-> IF g \in kept THEN [graph[g] EXCEPT !.marked = TRUE]
                                     ELSE graph[g]]
  <2>1. /\ gr \in [Graphs -> GraphRecord]
        /\ \A g \in Graphs : gr[g].sid = graph[g].sid /\ gr[g].phase = graph[g].phase
                             /\ gr[g].disposed = graph[g].disposed
    <3>1. gr \in [Graphs -> GraphRecord]
      BY <1>0, MarkTyped
    <3> QED
      BY <3>1, <1>0 DEF GraphRecord
  <2>2. /\ tearing' = tearing \cup NewlyTorn(gone)
        /\ graph' = [g \in Graphs |->
                       IF g \in kept THEN [graph[g] EXCEPT !.marked = TRUE]
                       ELSE DisposeFlags(graph, gone)[g]]
    BY <1>9 DEF InvalidateAll
  <2>3. graph' = DisposeFlags(gr, gone)
    BY <2>2, Zenon DEF DisposeFlags
  <2>4. gone \in SUBSET Graphs /\ \A g \in gone : graph[g].phase = "ready"
    BY <1>0, ReferredIsReady
  <2> HIDE DEF gr, gone
  <2> QED
    BY <2>1, <2>2, <2>3, <2>4, DisposeLivesOn
<1>10. ASSUME DisposeAllSweep PROVE LivesOn /\ PhasesStay
  BY <1>6, <1>10 DEF DisposeAllSweep
<1>11. CASE \/ \E r \in Requests, s \in Sessions : AcquireJoin(r, s)
            \/ DisposeAllBegin \/ DisposeAllReturn \/ Tick
  BY <1>3, <1>11 DEF AcquireJoin, DisposeAllBegin, DisposeAllReturn, Tick
<1> QED
  BY <1>2, <1>4, <1>5, <1>7, <1>8, <1>9, <1>10, <1>11 DEF RegistryStep

\* A build that settles: its graph is ready or rejected, and at most one is disposed.
LEMMA SettleLivesOn ==
  ASSUME IInv, \A g \in tearing : graph[g].disposed,
         NEW g \in Graphs, BuildPublished(g) \/ BuildOrphaned(g) \/ BuildFails(g)
  PROVE  /\ LivesOn /\ graph'[g].phase \in {"ready", "rejected"}
         /\ \A h \in Graphs \ {g} : graph'[h].phase = graph[h].phase
<1>0. graph \in [Graphs -> GraphRecord]
  BY Typed
<1>1. CASE BuildOrphaned(g) \/ BuildFails(g)
  <2>1. ~graph[g].disposed
    BY <1>1 DEF BuildOrphaned, BuildFails, IInv, CurrentBuildPending
  <2>2. CASE BuildOrphaned(g)
    BY <2>1, <2>2, <1>0 DEF BuildOrphaned, LivesOn, GraphRecord
  <2>3. CASE BuildFails(g)
    BY <2>1, <2>3, <1>0 DEF BuildFails, LivesOn, GraphRecord
  <2> QED
    BY <1>1, <2>2, <2>3
<1>2. CASE BuildPublished(g)
  <2> DEFINE built == [graph EXCEPT ![g].phase = "ready", ![g].lastUsed = clock]
  <2>1. \/ graph' = built /\ UNCHANGED tearing
        \/ \E v \in (Live \cup {g}) :
             \/ graph' = [built EXCEPT ![v].marked = TRUE] /\ UNCHANGED tearing
             \/ /\ graph' = [built EXCEPT ![v].disposed = TRUE]
                /\ tearing' = tearing \cup {v}
    BY <1>2 DEF BuildPublished, LeastRecent
  <2>2. /\ \A h \in Live \cup {g} : h \in Graphs /\ ~graph[h].disposed
        /\ \A h \in Live : graph[h].phase = "ready"
    BY <1>2, Typed DEF BuildPublished, IInv, ServedIsGood, CurrentBuildPending, Live
  <2>3. /\ built \in [Graphs -> GraphRecord]
        /\ built[g].phase = "ready"
        /\ \A h \in Graphs : built[h].sid = graph[h].sid
                             /\ (built[h].disposed <=> graph[h].disposed)
        /\ \A h \in Graphs \ {g} : built[h].phase = graph[h].phase
    <3>1. [graph EXCEPT ![g].phase = "ready"] \in [Graphs -> GraphRecord]
      BY <1>0, PhaseTyped DEF Phases
    <3>2. clock \in Nat
      BY Typed
    <3>3. [[graph EXCEPT ![g].phase = "ready"] EXCEPT ![g].lastUsed = clock]
             \in [Graphs -> GraphRecord]
      BY <3>1, <3>2, LastUsedTyped
    <3>4. built \in [Graphs -> GraphRecord]
      BY <3>3
    <3> QED
      BY <1>0, <3>4 DEF GraphRecord
  <2> HIDE DEF built
  <2>4. CASE graph' = built /\ UNCHANGED tearing
    BY <2>3, <2>4 DEF LivesOn
  <2>5. ASSUME NEW v \in Live \cup {g}, graph' = [built EXCEPT ![v].marked = TRUE],
               UNCHANGED tearing
        PROVE  /\ LivesOn /\ graph'[g].phase = "ready"
               /\ \A h \in Graphs \ {g} : graph'[h].phase = graph[h].phase
    <3>1. \A h \in Graphs : /\ graph'[h].phase = built[h].phase
                            /\ graph'[h].sid = built[h].sid
                            /\ graph'[h].disposed = built[h].disposed
      BY <2>2, <2>3, <2>5 DEF GraphRecord
    <3> QED
      BY <2>3, <2>5, <3>1 DEF LivesOn
  <2>6. ASSUME NEW v \in Live \cup {g}, graph' = [built EXCEPT ![v].disposed = TRUE],
               tearing' = tearing \cup {v}
        PROVE  /\ LivesOn /\ graph'[g].phase = "ready"
               /\ \A h \in Graphs \ {g} : graph'[h].phase = graph[h].phase
    <3>1. \A h \in Graphs : /\ graph'[h].phase = built[h].phase
                            /\ graph'[h].sid = built[h].sid
                            /\ graph'[h].disposed = IF h = v THEN TRUE ELSE built[h].disposed
      BY <2>2, <2>3, <2>6 DEF GraphRecord
    <3>2. v \in Graphs /\ ~graph[v].disposed /\ graph'[v].phase = "ready"
      BY <2>2, <2>3, <3>1
    <3> QED
      BY <2>3, <2>6, <3>1, <3>2 DEF LivesOn
  <2> QED
    BY <2>1, <2>4, <2>5, <2>6
<1> QED
  BY <1>1, <1>2

-----------------------------------------------------------------------------
(* The invariant of what the graphs own.                                   *)

LEMMA OwnTyped ==
  ASSUME IInv, ResourcesInv
  PROVE  /\ mcpClose \in [Sessions -> Graphs \cup {None}]
         /\ pipeClose \in [Sessions -> Graphs \cup {None}]
         /\ mcpOpen \subseteq Graphs /\ pipeOpen \subseteq Graphs
         /\ step \in [Graphs -> Steps] /\ closing \in [Graphs -> Graphs \cup {None}]
         /\ graph \in [Graphs -> GraphRecord]
         /\ None \notin Graphs /\ None \notin Sessions
         /\ tearing \subseteq Graphs
         /\ \A g \in tearing : graph[g].disposed
  BY Typed DEF ResourcesInv, ResourcesTypeOK, SlotMap, TypeOK, StepAgrees

\* A step that leaves the resources alone and moves no graph to another session.
LEMMA OwnStays ==
  ASSUME IInv, IInv', ResourcesInv, UNCHANGED resources,
         \A g \in Graphs : /\ graph'[g].sid = graph[g].sid
                           /\ graph'[g].phase = "unused" <=> graph[g].phase = "unused",
         StepAgrees'
  PROVE  ResourcesInv'
<1>1. ResourcesTypeOK'
  BY DEF ResourcesInv, ResourcesTypeOK, IInv, resources
<1>2. OpensInOrder' /\ ClosersApart'
  BY DEF ResourcesInv, OpensInOrder, ClosersApart, resources
<1>3. RegisteredIsOpen'
  BY OwnTyped DEF ResourcesInv, RegisteredIsOpen, resources
<1>4. ClosingIsOpen'
  BY OwnTyped DEF ResourcesInv, ClosingIsOpen, resources
<1>5. AloneIsFiled'
  BY DEF ResourcesInv, AloneIsFiled, Alone, resources
<1> QED
  BY <1>1, <1>2, <1>3, <1>4, <1>5 DEF ResourcesInv

LEMMA RegistryStepOwns ==
  ASSUME IInv, IInv', ResourcesInv, RegistryStep,
         ~\E r \in Requests, s \in Sessions, g \in Graphs : AcquireBuild(r, s, g)
  PROVE  ResourcesInv'
<1>1. LivesOn /\ PhasesStay
  BY OwnTyped, RegistryLivesOn
<1>2. UNCHANGED resources
  BY DEF RegistryStep
<1>3. StepAgrees'
  BY <1>1, <1>2, OwnTyped DEF ResourcesInv, StepAgrees, LivesOn, PhasesStay, resources
<1> QED
  BY <1>1, <1>2, <1>3, OwnStays DEF LivesOn, PhasesStay

\* A new build: of the graphs of its session, it is alone only if there was none.
LEMMA AcquireBuildOwns ==
  ASSUME IInv, IInv', ResourcesInv, UNCHANGED resources,
         NEW r \in Requests, NEW s \in Sessions, NEW g \in Graphs, AcquireBuild(r, s, g)
  PROVE  ResourcesInv'
<1>1. /\ graph[g].phase = "unused" /\ graph'[g].phase = "building" /\ graph'[g].sid = s
      /\ ~graph'[g].disposed
      /\ \A h \in Graphs \ {g} : graph'[h] = graph[h]
      /\ UNCHANGED tearing
  BY OwnTyped DEF AcquireBuild, NoGraph, GraphRecord
<1>2. /\ step[g] = "hydrating" /\ graph[g].sid \notin Sessions /\ closing[g] = None
      /\ ~graph[g].disposed /\ g \notin tearing /\ g \notin mcpOpen /\ g \notin pipeOpen
  BY <1>1 DEF ResourcesInv, StepAgrees, OpensInOrder
<1>3. ResourcesTypeOK'
  BY DEF ResourcesInv, ResourcesTypeOK, IInv, resources
<1>4. OpensInOrder' /\ ClosersApart'
  BY DEF ResourcesInv, OpensInOrder, ClosersApart, resources
<1>5. StepAgrees'
  BY <1>1, <1>2 DEF ResourcesInv, StepAgrees, BuildSteps, resources
<1>6. RegisteredIsOpen'
  BY <1>1, <1>2, OwnTyped DEF ResourcesInv, RegisteredIsOpen, resources
<1>7. ClosingIsOpen'
  BY <1>1, <1>2, OwnTyped DEF ResourcesInv, ClosingIsOpen, resources
<1>8. AloneIsFiled'
  <2>1. \A h \in Graphs \ {g} : Alone(h)' => Alone(h)
    BY <1>1, <1>2 DEF ResourcesInv, StepAgrees, Alone
  <2> QED
    BY <1>1, <1>2, <2>1 DEF ResourcesInv, AloneIsFiled, resources
<1> QED
  BY <1>3, <1>4, <1>5, <1>6, <1>7, <1>8 DEF ResourcesInv

LEMMA OpenClientsOwns ==
  ASSUME IInv, IInv', ResourcesInv, NEW g \in Graphs, OpenClients(g)
  PROVE  ResourcesInv'
<1> DEFINE s == graph[g].sid
<1>1. /\ graph[g].phase = "building" /\ step[g] = "hydrating" /\ s \in Sessions
      /\ g \notin mcpOpen /\ closing[g] = None /\ g \notin tearing
  BY DEF OpenClients, At, ResourcesInv, StepAgrees, OpensInOrder
<1>2. /\ step'[g] = "assembling" /\ \A h \in Graphs \ {g} : step'[h] = step[h]
      /\ mcpClose'[s] = g /\ \A t \in Sessions \ {s} : mcpClose'[t] = mcpClose[t]
      /\ UNCHANGED <<graph, tearing, pipeClose, pipeOpen, closing>>
      /\ mcpOpen' = mcpOpen \cup {g}
  BY <1>1, OwnTyped DEF OpenClients, To, vars
<1>3. ResourcesTypeOK'
  BY <1>1, OwnTyped DEF OpenClients, To, ResourcesTypeOK, SlotMap, IInv, Steps, BuildSteps
<1>4. StepAgrees'
  BY <1>1, <1>2 DEF ResourcesInv, StepAgrees, BuildSteps, TearSteps
<1>5. OpensInOrder'
  BY <1>1, <1>2 DEF ResourcesInv, OpensInOrder
<1>6. RegisteredIsOpen'
  BY <1>1, <1>2, OwnTyped DEF ResourcesInv, RegisteredIsOpen
<1>7. ClosingIsOpen'
  BY <1>1, <1>2, OwnTyped DEF ResourcesInv, ClosingIsOpen, StepAgrees
<1>8. ClosersApart'
  BY <1>1, <1>2 DEF ResourcesInv, ClosersApart
<1>9. AloneIsFiled'
  BY <1>1, <1>2, OwnTyped
     DEF ResourcesInv, AloneIsFiled, Alone, StepAgrees, OpensInOrder, TearSteps
<1> QED
  BY <1>3, <1>4, <1>5, <1>6, <1>7, <1>8, <1>9 DEF ResourcesInv

LEMMA BuildBreaksOwns ==
  ASSUME IInv, IInv', ResourcesInv, NEW g \in Graphs, BuildBreaks(g)
  PROVE  ResourcesInv'
<1>1. /\ graph[g].phase = "building" /\ step[g] \in {"hydrating", "assembling"}
      /\ closing[g] = None /\ g \notin tearing
  BY DEF BuildBreaks, At, ResourcesInv, StepAgrees
<1>2. /\ step'[g] = "failed" /\ \A h \in Graphs \ {g} : step'[h] = step[h]
      /\ UNCHANGED <<graph, tearing, mcpClose, mcpOpen, pipeClose, pipeOpen, closing>>
  BY <1>1, OwnTyped DEF BuildBreaks, To, vars
<1>3. ResourcesTypeOK'
  BY <1>1, OwnTyped DEF BuildBreaks, To, ResourcesTypeOK, SlotMap, IInv, Steps, BuildSteps
<1>4. StepAgrees'
  BY <1>1, <1>2 DEF ResourcesInv, StepAgrees, BuildSteps, TearSteps
<1>5. OpensInOrder'
  BY <1>1, <1>2 DEF ResourcesInv, OpensInOrder
<1>6. RegisteredIsOpen'
  BY <1>1, <1>2, OwnTyped DEF ResourcesInv, RegisteredIsOpen
<1>7. ClosingIsOpen'
  BY <1>1, <1>2, OwnTyped DEF ResourcesInv, ClosingIsOpen, StepAgrees
<1>8. ClosersApart'
  BY <1>1, <1>2 DEF ResourcesInv, ClosersApart
<1>9. AloneIsFiled'
  BY <1>1, <1>2, OwnTyped DEF ResourcesInv, AloneIsFiled, Alone, TearSteps
<1> QED
  BY <1>3, <1>4, <1>5, <1>6, <1>7, <1>8, <1>9 DEF ResourcesInv

LEMMA OpenPipelineOwns ==
  ASSUME IInv, IInv', ResourcesInv, NEW g \in Graphs, OpenPipeline(g)
  PROVE  ResourcesInv'
<1> DEFINE s == graph[g].sid
<1>1. /\ graph[g].phase = "building" /\ step[g] = "assembling" /\ s \in Sessions
      /\ g \notin pipeOpen /\ closing[g] = None /\ g \notin tearing /\ pipeClose[s] # g
  BY OwnTyped
     DEF OpenPipeline, At, ResourcesInv, StepAgrees, OpensInOrder, RegisteredIsOpen
<1>2. /\ \A h \in Graphs \ {g} : step'[h] = step[h] /\ closing'[h] = closing[h]
      /\ \A t \in Sessions \ {s} : pipeClose'[t] = pipeClose[t]
      /\ UNCHANGED <<graph, tearing, mcpClose, mcpOpen>>
      /\ pipeOpen' = pipeOpen \cup {g}
      /\ \/ /\ pipeClose[s] = None /\ pipeClose'[s] = g /\ step'[g] = "built"
            /\ closing'[g] = None
         \/ /\ pipeClose[s] # None /\ pipeClose'[s] = None /\ step'[g] = "replacing"
            /\ closing'[g] = pipeClose[s]
  BY <1>1, OwnTyped DEF OpenPipeline, To, vars
<1>3. ResourcesTypeOK'
  BY <1>1, OwnTyped
     DEF OpenPipeline, To, ResourcesTypeOK, SlotMap, IInv, Steps, BuildSteps
<1>4. StepAgrees'
  BY <1>1, <1>2 DEF ResourcesInv, StepAgrees, BuildSteps, TearSteps
<1>5. OpensInOrder'
  BY <1>1, <1>2 DEF ResourcesInv, OpensInOrder
<1>6. RegisteredIsOpen'
  BY <1>1, <1>2, OwnTyped DEF ResourcesInv, RegisteredIsOpen
<1>7. ClosingIsOpen'
  <2>1. ASSUME NEW h \in Graphs \ {g}, closing[h] # None, step[h] # "closingMcp"
        PROVE  closing[h] # g /\ closing[h] \in Graphs
    BY <1>1, <2>1, OwnTyped DEF ResourcesInv, ClosingIsOpen
  <2> SUFFICES ASSUME NEW h \in Graphs, closing'[h] # None
               PROVE  LET d == closing'[h] IN
                      /\ graph'[d].sid = graph'[h].sid
                      /\ IF step'[h] = "closingMcp"
                         THEN d \in mcpOpen' /\ mcpClose'[graph'[h].sid] # d
                         ELSE /\ d \in pipeOpen' /\ pipeClose'[graph'[h].sid] # d
                              /\ step'[d] # "replacing"
    BY DEF ClosingIsOpen
  <2>2. CASE h = g
    BY <1>1, <1>2, <2>2, OwnTyped DEF ResourcesInv, RegisteredIsOpen
  <2>3. CASE h # g /\ step[h] = "closingMcp"
    BY <1>1, <1>2, <2>3, OwnTyped DEF ResourcesInv, ClosingIsOpen
  <2>4. CASE h # g /\ step[h] # "closingMcp"
    <3>1. /\ closing'[h] = closing[h] /\ closing[h] # None /\ step'[h] = step[h]
          /\ closing[h] # g /\ closing[h] \in Graphs
      BY <1>1, <1>2, <2>1, <2>4, OwnTyped
    <3>2. /\ graph[closing[h]].sid = graph[h].sid /\ closing[h] \in pipeOpen
          /\ pipeClose[graph[h].sid] # closing[h] /\ step[closing[h]] # "replacing"
      BY <2>4, <3>1 DEF ResourcesInv, ClosingIsOpen
    <3>3. graph[h].sid \in Sessions
      BY <2>4, <3>1 DEF ResourcesInv, StepAgrees
    <3> QED
      BY <1>2, <2>1, <2>4, <3>1, <3>2, <3>3, OwnTyped
  <2> QED
    BY <2>2, <2>3, <2>4
<1>8. ClosersApart'
  <2>1. ASSUME NEW h \in Graphs \ {g}, closing[h] # None, closing[h] = pipeClose[s]
        PROVE  step[h] = "closingMcp"
    BY <1>1, <2>1, OwnTyped DEF ResourcesInv, ClosingIsOpen, RegisteredIsOpen
  <2> QED
    BY <1>1, <1>2, <2>1 DEF ResourcesInv, ClosersApart
<1>9. AloneIsFiled'
  BY <1>1, <1>2, OwnTyped
     DEF ResourcesInv, AloneIsFiled, Alone, RegisteredIsOpen, StepAgrees, TearSteps
<1> QED
  BY <1>3, <1>4, <1>5, <1>6, <1>7, <1>8, <1>9 DEF ResourcesInv

LEMMA ReplacePipelineOwns ==
  ASSUME IInv, IInv', ResourcesInv, NEW g \in Graphs, ReplacePipeline(g)
  PROVE  ResourcesInv'
<1> DEFINE s == graph[g].sid
           c == closing[g]
<1>1. /\ graph[g].phase = "building" /\ step[g] = "replacing" /\ s \in Sessions
      /\ g \notin tearing
  BY OwnTyped DEF ReplacePipeline, At, ResourcesInv, StepAgrees
<1>2. /\ \A h \in Graphs \ {g} : step'[h] = step[h] /\ closing'[h] = closing[h]
      /\ pipeClose'[s] = g /\ \A t \in Sessions \ {s} : pipeClose'[t] = pipeClose[t]
      /\ UNCHANGED <<graph, tearing, mcpClose, mcpOpen>>
      /\ pipeOpen' = pipeOpen \ {c}
      /\ step'[g] = "built" /\ closing'[g] = None
  BY <1>1, OwnTyped DEF ReplacePipeline, To, vars
<1>10. c # g /\ g \in pipeOpen
  BY <1>1, OwnTyped DEF ResourcesInv, ClosingIsOpen, OpensInOrder
<1>3. ResourcesTypeOK'
  BY <1>1, OwnTyped
     DEF ReplacePipeline, To, ResourcesTypeOK, SlotMap, IInv, Steps, BuildSteps
<1>4. StepAgrees'
  BY <1>1, <1>2 DEF ResourcesInv, StepAgrees, BuildSteps, TearSteps
<1>5. OpensInOrder'
  <2>1. c # None => c \in Graphs /\ step[c] # "replacing"
    BY <1>1, OwnTyped DEF ResourcesInv, ClosingIsOpen
  <2> QED
    BY <1>1, <1>2, <1>10, <2>1, OwnTyped DEF ResourcesInv, OpensInOrder
<1>6. RegisteredIsOpen'
  <2>1. \A t \in Sessions : pipeClose[t] # None => pipeClose[t] # c
    BY <1>1, OwnTyped DEF ResourcesInv, RegisteredIsOpen, ClosingIsOpen
  <2> QED
    BY <1>1, <1>2, <1>10, <2>1, OwnTyped DEF ResourcesInv, RegisteredIsOpen
<1>7. ClosingIsOpen'
  <2>1. ASSUME NEW h \in Graphs \ {g}, closing[h] # None, step[h] # "closingMcp"
        PROVE  closing[h] # g /\ closing[h] \in Graphs /\ closing[h] # c
    BY <1>1, <2>1, OwnTyped DEF ResourcesInv, ClosingIsOpen, ClosersApart
  <2> SUFFICES ASSUME NEW h \in Graphs, closing'[h] # None
               PROVE  LET d == closing'[h] IN
                      /\ graph'[d].sid = graph'[h].sid
                      /\ IF step'[h] = "closingMcp"
                         THEN d \in mcpOpen' /\ mcpClose'[graph'[h].sid] # d
                         ELSE /\ d \in pipeOpen' /\ pipeClose'[graph'[h].sid] # d
                              /\ step'[d] # "replacing"
    BY DEF ClosingIsOpen
  <2>2. CASE h = g
    BY <1>2, <2>2
  <2>3. CASE h # g /\ step[h] = "closingMcp"
    BY <1>1, <1>2, <2>3, OwnTyped DEF ResourcesInv, ClosingIsOpen
  <2>4. CASE h # g /\ step[h] # "closingMcp"
    <3>1. /\ closing'[h] = closing[h] /\ closing[h] # None /\ step'[h] = step[h]
          /\ closing[h] # g /\ closing[h] \in Graphs
      BY <1>1, <1>2, <2>1, <2>4, OwnTyped
    <3>2. /\ graph[closing[h]].sid = graph[h].sid /\ closing[h] \in pipeOpen
          /\ pipeClose[graph[h].sid] # closing[h] /\ step[closing[h]] # "replacing"
      BY <2>4, <3>1 DEF ResourcesInv, ClosingIsOpen
    <3>3. graph[h].sid \in Sessions
      BY <2>4, <3>1 DEF ResourcesInv, StepAgrees
    <3> QED
      BY <1>2, <2>1, <2>4, <3>1, <3>2, <3>3, OwnTyped
  <2> QED
    BY <2>2, <2>3, <2>4
<1>8. ClosersApart'
  BY <1>1, <1>2 DEF ResourcesInv, ClosersApart
<1>9. AloneIsFiled'
  <2>1. \A h \in Graphs : c = h => graph[h].sid = s
    BY <1>1, OwnTyped DEF ResourcesInv, ClosingIsOpen
  <2> QED
    BY <1>1, <1>2, <2>1, OwnTyped
       DEF ResourcesInv, AloneIsFiled, Alone, StepAgrees, TearSteps
<1> QED
  BY <1>3, <1>4, <1>5, <1>6, <1>7, <1>8, <1>9 DEF ResourcesInv

LEMMA SettleBuildOwns ==
  ASSUME IInv, IInv', ResourcesInv, NEW g \in Graphs, SettleBuild(g)
  PROVE  ResourcesInv'
<1>1. /\ graph[g].phase = "building" /\ step[g] \in {"built", "failed"}
      /\ closing[g] = None /\ g \notin tearing /\ ~graph[g].disposed
  BY DEF SettleBuild, At, ResourcesInv, StepAgrees
<1>2. /\ step'[g] = "collections" /\ \A h \in Graphs \ {g} : step'[h] = step[h]
      /\ UNCHANGED <<mcpClose, mcpOpen, pipeClose, pipeOpen, closing>>
  BY <1>1, OwnTyped DEF SettleBuild, To
<1>3. /\ LivesOn /\ graph'[g].phase \in {"ready", "rejected"}
      /\ \A h \in Graphs \ {g} : graph'[h].phase = graph[h].phase
  BY OwnTyped, SettleLivesOn DEF SettleBuild
<1>4. \A h \in Graphs : /\ graph'[h].sid = graph[h].sid
                        /\ graph'[h].phase = "unused" <=> graph[h].phase = "unused"
  BY <1>1, <1>3 DEF LivesOn
<1>5. ResourcesTypeOK'
  BY <1>1, <1>2, OwnTyped
     DEF SettleBuild, To, ResourcesTypeOK, SlotMap, IInv, Steps, TearSteps
<1>6. StepAgrees'
  <2>1. StepAgrees
    BY DEF ResourcesInv
  <2> SUFFICES ASSUME NEW h \in Graphs
               PROVE  /\ graph'[h].phase = "unused" => step'[h] = "hydrating"
                                                           /\ graph'[h].sid \notin Sessions
                      /\ graph'[h].phase # "unused" => graph'[h].sid \in Sessions
                      /\ graph'[h].phase = "building" => step'[h] \in BuildSteps
                      /\ graph'[h].phase \in {"ready", "rejected"} => step'[h] \in TearSteps
                      /\ graph'[h].disposed => graph'[h].phase \in {"ready", "rejected"}
                      /\ graph'[h].disposed <=> h \in tearing' \/ step'[h] = "torn"
                      /\ step'[h] \in TearSteps \ {"collections"} => graph'[h].disposed
                      /\ closing'[h] # None =>
                           step'[h] \in {"replacing", "closingMcp", "closingPipeline"}
    BY DEF StepAgrees
  <2>2. CASE h = g
    BY <1>1, <1>2, <1>3, <2>1, <2>2 DEF StepAgrees, LivesOn, TearSteps
  <2>3. CASE h # g
    BY <1>1, <1>2, <1>3, <2>1, <2>3 DEF StepAgrees, LivesOn
  <2> QED
    BY <2>2, <2>3
<1>7. OpensInOrder'
  BY <1>1, <1>2 DEF ResourcesInv, OpensInOrder
<1>8. RegisteredIsOpen'
  BY <1>1, <1>2, <1>4, OwnTyped DEF ResourcesInv, RegisteredIsOpen
<1>9. ClosingIsOpen'
  BY <1>1, <1>2, <1>4, OwnTyped DEF ResourcesInv, ClosingIsOpen
<1>10. ClosersApart'
  BY <1>1, <1>2 DEF ResourcesInv, ClosersApart
<1>11. AloneIsFiled'
  BY <1>1, <1>2, <1>4, OwnTyped DEF ResourcesInv, AloneIsFiled, Alone, TearSteps
<1> QED
  BY <1>5, <1>6, <1>7, <1>8, <1>9, <1>10, <1>11 DEF ResourcesInv

LEMMA CloseClientsOwns ==
  ASSUME IInv, IInv', ResourcesInv, NEW g \in Graphs, CloseClients(g)
  PROVE  ResourcesInv'
<1> DEFINE s == graph[g].sid
<1>1. /\ g \in tearing /\ step[g] = "collections" /\ graph[g].disposed
      /\ graph[g].phase \in {"ready", "rejected"} /\ s \in Sessions /\ closing[g] = None
  BY DEF CloseClients, Tearing, ResourcesInv, StepAgrees
<1>2. /\ step'[g] = "closingMcp" /\ closing'[g] = mcpClose[s] /\ mcpClose'[s] = None
      /\ \A h \in Graphs \ {g} : step'[h] = step[h] /\ closing'[h] = closing[h]
      /\ \A t \in Sessions \ {s} : mcpClose'[t] = mcpClose[t]
      /\ UNCHANGED <<graph, tearing, mcpOpen, pipeClose, pipeOpen>>
  BY <1>1, OwnTyped DEF CloseClients, Taken, To, vars
<1>3. ResourcesTypeOK'
  BY <1>1, OwnTyped
     DEF CloseClients, Taken, To, ResourcesTypeOK, SlotMap, IInv, Steps, TearSteps
<1>4. StepAgrees'
  BY <1>1, <1>2 DEF ResourcesInv, StepAgrees, BuildSteps, TearSteps
<1>5. OpensInOrder'
  BY <1>1, <1>2 DEF ResourcesInv, OpensInOrder
<1>6. RegisteredIsOpen'
  BY <1>1, <1>2, OwnTyped DEF ResourcesInv, RegisteredIsOpen
<1>7. ClosingIsOpen'
  <2> SUFFICES ASSUME NEW h \in Graphs, closing'[h] # None
               PROVE  LET d == closing'[h] IN
                      /\ graph'[d].sid = graph'[h].sid
                      /\ IF step'[h] = "closingMcp"
                         THEN d \in mcpOpen' /\ mcpClose'[graph'[h].sid] # d
                         ELSE /\ d \in pipeOpen' /\ pipeClose'[graph'[h].sid] # d
                              /\ step'[d] # "replacing"
    BY DEF ClosingIsOpen
  <2>1. CASE h = g
    BY <1>1, <1>2, <2>1, OwnTyped DEF ResourcesInv, RegisteredIsOpen
  <2>2. CASE h # g
    <3>1. graph[h].sid \in Sessions /\ closing[h] \in Graphs
      BY <1>2, <2>2, OwnTyped DEF ResourcesInv, StepAgrees
    <3> QED
      BY <1>1, <1>2, <2>2, <3>1, OwnTyped DEF ResourcesInv, ClosingIsOpen
  <2> QED
    BY <2>1, <2>2
<1>8. ClosersApart'
  <2>1. ASSUME NEW h \in Graphs \ {g}, closing[h] # None, closing[h] = mcpClose[s]
        PROVE  step[h] # "closingMcp"
    BY <1>1, <2>1, OwnTyped DEF ResourcesInv, ClosingIsOpen, RegisteredIsOpen
  <2> QED
    BY <1>1, <1>2, <2>1 DEF ResourcesInv, ClosersApart
<1>9. AloneIsFiled'
  BY <1>1, <1>2, OwnTyped
     DEF ResourcesInv, AloneIsFiled, Alone, StepAgrees, RegisteredIsOpen, TearSteps
<1> QED
  BY <1>3, <1>4, <1>5, <1>6, <1>7, <1>8, <1>9 DEF ResourcesInv

LEMMA ClosePipelineOwns ==
  ASSUME IInv, IInv', ResourcesInv, NEW g \in Graphs, ClosePipeline(g)
  PROVE  ResourcesInv'
<1> DEFINE s == graph[g].sid
           c == closing[g]
<1>1. /\ g \in tearing /\ step[g] = "closingMcp" /\ graph[g].disposed
      /\ graph[g].phase \in {"ready", "rejected"} /\ s \in Sessions
      /\ c # None => c \in mcpOpen /\ graph[c].sid = s /\ mcpClose[s] # c
  BY DEF ClosePipeline, Tearing, ResourcesInv, StepAgrees, ClosingIsOpen
<1>2. /\ step'[g] = "closingPipeline" /\ closing'[g] = pipeClose[s] /\ pipeClose'[s] = None
      /\ \A h \in Graphs \ {g} : step'[h] = step[h] /\ closing'[h] = closing[h]
      /\ \A t \in Sessions \ {s} : pipeClose'[t] = pipeClose[t]
      /\ mcpOpen' = mcpOpen \ {c}
      /\ UNCHANGED <<graph, tearing, mcpClose, pipeOpen>>
  BY <1>1, OwnTyped DEF ClosePipeline, Taken, To, vars
<1>3. ResourcesTypeOK'
  BY <1>1, OwnTyped
     DEF ClosePipeline, Taken, To, ResourcesTypeOK, SlotMap, IInv, Steps, TearSteps
<1>4. StepAgrees'
  BY <1>1, <1>2 DEF ResourcesInv, StepAgrees, BuildSteps, TearSteps
<1>5. OpensInOrder'
  BY <1>1, <1>2 DEF ResourcesInv, OpensInOrder
<1>6. RegisteredIsOpen'
  <2>1. \A t \in Sessions : mcpClose[t] # None => mcpClose[t] # c
    BY <1>1, OwnTyped DEF ResourcesInv, RegisteredIsOpen
  <2> QED
    BY <1>1, <1>2, <2>1, OwnTyped DEF ResourcesInv, RegisteredIsOpen
<1>7. ClosingIsOpen'
  <2> SUFFICES ASSUME NEW h \in Graphs, closing'[h] # None
               PROVE  LET d == closing'[h] IN
                      /\ graph'[d].sid = graph'[h].sid
                      /\ IF step'[h] = "closingMcp"
                         THEN d \in mcpOpen' /\ mcpClose'[graph'[h].sid] # d
                         ELSE /\ d \in pipeOpen' /\ pipeClose'[graph'[h].sid] # d
                              /\ step'[d] # "replacing"
    BY DEF ClosingIsOpen
  <2>1. CASE h = g
    BY <1>1, <1>2, <2>1, OwnTyped DEF ResourcesInv, RegisteredIsOpen
  <2>2. CASE h # g
    <3>1. graph[h].sid \in Sessions /\ closing[h] \in Graphs
      BY <1>2, <2>2, OwnTyped DEF ResourcesInv, StepAgrees
    <3>2. step[h] = "closingMcp" => closing[h] # c
      BY <1>1, <1>2, <2>2, <3>1 DEF ResourcesInv, ClosersApart
    <3> QED
      BY <1>1, <1>2, <2>2, <3>1, <3>2, OwnTyped DEF ResourcesInv, ClosingIsOpen
  <2> QED
    BY <2>1, <2>2
<1>8. ClosersApart'
  <2>1. ASSUME NEW h \in Graphs \ {g}, closing[h] # None, closing[h] = pipeClose[s]
        PROVE  step[h] = "closingMcp"
    BY <1>1, <2>1, OwnTyped DEF ResourcesInv, ClosingIsOpen, RegisteredIsOpen
  <2> QED
    BY <1>1, <1>2, <2>1 DEF ResourcesInv, ClosersApart
<1>9. AloneIsFiled'
  BY <1>1, <1>2, OwnTyped
     DEF ResourcesInv, AloneIsFiled, Alone, StepAgrees, RegisteredIsOpen, TearSteps
<1> QED
  BY <1>3, <1>4, <1>5, <1>6, <1>7, <1>8, <1>9 DEF ResourcesInv

LEMMA PipelineClosedOwns ==
  ASSUME IInv, IInv', ResourcesInv, NEW g \in Graphs, PipelineClosed(g)
  PROVE  ResourcesInv'
<1> DEFINE s == graph[g].sid
           c == closing[g]
<1>1. /\ g \in tearing /\ step[g] = "closingPipeline" /\ graph[g].disposed
      /\ graph[g].phase \in {"ready", "rejected"} /\ s \in Sessions
      /\ c # None => /\ c \in pipeOpen /\ graph[c].sid = s /\ pipeClose[s] # c
                     /\ step[c] # "replacing"
  BY DEF PipelineClosed, Tearing, ResourcesInv, StepAgrees, ClosingIsOpen
<1>2. /\ step'[g] = "torn" /\ closing'[g] = None
      /\ \A h \in Graphs \ {g} : step'[h] = step[h] /\ closing'[h] = closing[h]
      /\ pipeOpen' = pipeOpen \ {c}
      /\ UNCHANGED <<graph, tearing, mcpClose, mcpOpen, pipeClose>>
  BY <1>1, OwnTyped DEF PipelineClosed, To, vars
<1>3. ResourcesTypeOK'
  BY <1>1, OwnTyped
     DEF PipelineClosed, To, ResourcesTypeOK, SlotMap, IInv, Steps, TearSteps
<1>4. StepAgrees'
  BY <1>1, <1>2 DEF ResourcesInv, StepAgrees, BuildSteps, TearSteps
<1>5. OpensInOrder'
  BY <1>1, <1>2, OwnTyped DEF ResourcesInv, OpensInOrder
<1>6. RegisteredIsOpen'
  <2>1. \A t \in Sessions : pipeClose[t] # None => pipeClose[t] # c
    BY <1>1, OwnTyped DEF ResourcesInv, RegisteredIsOpen
  <2> QED
    BY <1>1, <1>2, <2>1, OwnTyped DEF ResourcesInv, RegisteredIsOpen
<1>7. ClosingIsOpen'
  <2> SUFFICES ASSUME NEW h \in Graphs \ {g}, closing[h] # None
               PROVE  LET d == closing[h] IN
                      /\ graph[d].sid = graph[h].sid
                      /\ IF step[h] = "closingMcp"
                         THEN d \in mcpOpen /\ mcpClose[graph[h].sid] # d
                         ELSE /\ d \in pipeOpen \ {c} /\ pipeClose[graph[h].sid] # d
                              /\ step'[d] # "replacing"
    BY <1>2 DEF ClosingIsOpen
  <2>1. closing[h] \in Graphs /\ (step[h] # "closingMcp" => closing[h] # c)
    BY <1>1, OwnTyped DEF ResourcesInv, ClosersApart
  <2>2. step'[closing[h]] = "replacing" => step[closing[h]] = "replacing"
    BY <1>2, <2>1
  <2> QED
    BY <2>1, <2>2 DEF ResourcesInv, ClosingIsOpen
<1>8. ClosersApart'
  BY <1>1, <1>2 DEF ResourcesInv, ClosersApart
<1>9. AloneIsFiled'
  BY <1>1, <1>2, OwnTyped
     DEF ResourcesInv, AloneIsFiled, Alone, StepAgrees, RegisteredIsOpen, TearSteps
<1> QED
  BY <1>3, <1>4, <1>5, <1>6, <1>7, <1>8, <1>9 DEF ResourcesInv

LEMMA TornOwns ==
  ASSUME IInv, IInv', ResourcesInv, NEW g \in Graphs, Torn(g)
  PROVE  ResourcesInv'
<1>1. /\ step[g] = "torn" /\ tearing' = tearing \ {g} /\ graph' = graph /\ UNCHANGED resources
  BY DEF Torn, Tearing, TeardownDone
<1>2. StepAgrees'
  BY <1>1 DEF ResourcesInv, StepAgrees, resources
<1> QED
  BY <1>1, <1>2, OwnStays

LEMMA StepOwns == IInv /\ ResourcesInv /\ [ResourcesNext]_allVars => IInv' /\ ResourcesInv'
<1> SUFFICES ASSUME IInv, ResourcesInv, [ResourcesNext]_allVars PROVE IInv' /\ ResourcesInv'
  OBVIOUS
<1>0. IInv'
  BY StepOrStutter, StepKeeps
<1>1. CASE UNCHANGED allVars
  <2>1. /\ UNCHANGED resources
        /\ graph' = graph /\ tearing' = tearing
    BY <1>1 DEF allVars, vars
  <2>2. StepAgrees'
    BY <2>1 DEF ResourcesInv, StepAgrees, resources
  <2> QED
    BY <1>0, <2>1, <2>2, OwnStays
<1>2. CASE RegistryStep
  <2>1. UNCHANGED resources
    BY <1>2 DEF RegistryStep
  <2>2. CASE \E r \in Requests, s \in Sessions, g \in Graphs : AcquireBuild(r, s, g)
    BY <1>0, <2>1, <2>2, AcquireBuildOwns
  <2> QED
    BY <1>0, <1>2, <2>2, RegistryStepOwns
<1>3. ASSUME NEW g \in Graphs, BuildStep(g) PROVE ResourcesInv'
  BY <1>0, <1>3, OpenClientsOwns, BuildBreaksOwns, OpenPipelineOwns, ReplacePipelineOwns,
     SettleBuildOwns DEF BuildStep
<1>4. ASSUME NEW g \in Graphs, TearStep(g) PROVE ResourcesInv'
  BY <1>0, <1>4, CloseClientsOwns, ClosePipelineOwns, PipelineClosedOwns, TornOwns
     DEF TearStep
<1> QED
  BY <1>0, <1>1, <1>2, <1>3, <1>4 DEF ResourcesNext

LEMMA InitOwns == ResourcesInit => ResourcesInv
<1> SUFFICES ASSUME ResourcesInit PROVE ResourcesInv
  OBVIOUS
<1>1. IInv
  BY InitEstablishes DEF ResourcesInit
<1>2. /\ \A g \in Graphs : /\ graph[g].phase = "unused" /\ graph[g].sid = None
                           /\ ~graph[g].disposed /\ step[g] = "hydrating" /\ closing[g] = None
      /\ tearing = {}
  BY DEF ResourcesInit, Init, NoGraph
<1>3. ResourcesTypeOK
  BY <1>1 DEF IInv, ResourcesInit, ResourcesTypeOK, SlotMap, Steps, BuildSteps
<1>4. StepAgrees
  BY <1>2, RegistryAssumption DEF StepAgrees, TearSteps
<1>5. OpensInOrder /\ RegisteredIsOpen /\ ClosingIsOpen /\ ClosersApart /\ AloneIsFiled
  BY <1>2 DEF ResourcesInit, OpensInOrder, RegisteredIsOpen, ClosingIsOpen, ClosersApart,
              AloneIsFiled, Alone
<1> QED
  BY <1>3, <1>4, <1>5 DEF ResourcesInv

-----------------------------------------------------------------------------
(* Theorems of what the graphs own.                                        *)

\* Cut at the awaits of its builds and teardowns the registry is still the registry: every
\* step of session-graph-factory.ts or of a dispose hook is one of its steps or none, so that
\* every theorem above holds of the registry with its resources.
THEOREM ResourcesKeepRegistry == ResourcesSpec => Spec
<1>1. ResourcesInit => Init
  BY DEF ResourcesInit
<1> QED
  BY <1>1, StepOrStutter, PTL DEF ResourcesSpec, Spec

\* Who owns what: what a Map of close functions names is open and of its session, what a
\* build or teardown has taken out of one it alone closes, and a session's only graph has
\* all it opened registered or about to be closed, in every state between two awaits.
THEOREM OwnershipHolds == ResourcesSpec => [](IInv /\ ResourcesInv)
<1>1. ResourcesInit => IInv /\ ResourcesInv
  BY InitOwns, InitEstablishes DEF ResourcesInit
<1> QED
  BY <1>1, StepOwns, PTL DEF ResourcesSpec

\* The types of the Maps of close functions, and of what the graphs of a server hold.
THEOREM ResourcesTypeCorrect == ResourcesSpec => []ResourcesTypeOK
<1>1. ResourcesInv => ResourcesTypeOK
  BY DEF ResourcesInv
<1> QED
  BY <1>1, OwnershipHolds, PTL

\* A close function is called once (closeBySession.delete() and _sessionCloseFns.delete()
\* before the await): what is registered is open, and no two builds or teardowns close the
\* same clients or the same pipeline, although the Maps are keyed by the session and any
\* number of graphs of one session may be built and torn down side by side.
THEOREM ClosedOnce == ResourcesSpec => []CloseOnce
<1>1. ResourcesInv => CloseOnce
  BY DEF ResourcesInv, CloseOnce, RegisteredIsOpen, ClosersApart
<1> QED
  BY <1>1, OwnershipHolds, PTL

\* The teardown of a session's only graph frees what the graph opened (onDispose() of
\* buildSessionLifecycle()), however the build ended and whatever disposed it.
THEOREM TeardownsFree == ResourcesSpec => []TeardownFrees
<1>1. ASSUME IInv, ResourcesInv PROVE TeardownFrees
  <2> SUFFICES ASSUME NEW g \in Graphs, graph[g].disposed, g \notin tearing,
                      \A h \in Graphs : graph[h].sid = graph[g].sid => h = g
               PROVE  g \notin mcpOpen /\ g \notin pipeOpen
    BY DEF TeardownFrees
  <2>1. step[g] = "torn" /\ Alone(g)
    BY <1>1 DEF ResourcesInv, StepAgrees, Alone
  <2> QED
    BY <1>1, <2>1 DEF ResourcesInv, AloneIsFiled, TearSteps
<1> QED
  BY <1>1, OwnershipHolds, PTL

\* Sessions are isolated: no build and no teardown closes the clients or the pipeline of
\* a graph in use of another session (or its own, except for a sibling), although
\* the close functions are found by name.
THEOREM SessionsAreIsolated == ResourcesSpec => OnlySiblingsInterfere
<1> DEFINE A == \A g \in Graphs :
                  Loses(g) /\ (~graph[g].disposed \/ (Pinned(g) /\ ~closed)) =>
                    \E h \in Graphs : Sibling(g, h)
<1>1. ASSUME IInv, ResourcesInv, [ResourcesNext]_allVars PROVE A
  <2> SUFFICES ASSUME NEW g \in Graphs, Loses(g),
                      ~graph[g].disposed \/ (Pinned(g) /\ ~closed)
               PROVE  \E h \in Graphs : Sibling(g, h)
    OBVIOUS
  <2>1. g \notin tearing
    BY <1>1 DEF IInv, NoDisposeWhilePinned, ResourcesInv, StepAgrees
  <2>2. PICK h \in Graphs : /\ closing[h] = g
                            /\ \/ At(h, "replacing")
                               \/ Tearing(h, "closingMcp")
                               \/ Tearing(h, "closingPipeline")
    <3>1. UNCHANGED <<mcpOpen, pipeOpen>> => FALSE
      BY DEF Loses
    <3>2. CASE RegistryStep \/ UNCHANGED allVars
      BY <3>1, <3>2 DEF RegistryStep, allVars, resources
    <3>3. ASSUME NEW h \in Graphs, BuildStep(h)
          PROVE  At(h, "replacing") /\ closing[h] = g
      BY <3>3
         DEF Loses, BuildStep, OpenClients, BuildBreaks, OpenPipeline, ReplacePipeline,
                  SettleBuild
    <3>4. ASSUME NEW h \in Graphs, TearStep(h)
          PROVE  /\ Tearing(h, "closingMcp") \/ Tearing(h, "closingPipeline")
                 /\ closing[h] = g
      BY <3>4
         DEF Loses, TearStep, CloseClients, ClosePipeline, PipelineClosed, Torn, resources
    <3> QED
      BY <1>1, <3>2, <3>3, <3>4 DEF ResourcesNext
  <2>3. graph[h].sid = graph[g].sid
    BY <1>1, <2>2, OwnTyped DEF ResourcesInv, ClosingIsOpen
  <2>4. h # g
    BY <1>1, <2>1, <2>2, OwnTyped DEF Tearing, At, ResourcesInv, ClosingIsOpen
  <2> QED
    BY <2>2, <2>3, <2>4 DEF Sibling, Tearing
<1>2. IInv /\ ResourcesInv /\ [ResourcesNext]_allVars => [A]_allVars
  BY <1>1
<1>3. OnlySiblingsInterfere <=> [][A]_allVars
  BY DEF OnlySiblingsInterfere
<1> HIDE DEF A
<1> QED
  BY <1>2, <1>3, OwnershipHolds, PTL DEF ResourcesSpec

=============================================================================
