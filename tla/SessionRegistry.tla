--------------------------- MODULE SessionRegistry ---------------------------
(***************************************************************************)
(* The per-session graph registry of llm-agent-libs: SessionRegistry       *)
(* (session-registry.ts) with the SessionGraph reference count it drives   *)
(* (session-graph.ts).                                                     *)
(*                                                                         *)
(* A request acquires the graph of its session (building it on first use), *)
(* runs pinned, and releases it.  Around the requests run the idle sweep,  *)
(* the LRU cap, DELETE /v1/sessions/:id, the configuration reload and the  *)
(* shutdown.  One action is one uninterrupted run of JavaScript: the code  *)
(* up to an await, or a continuation after one.  A build is named by the   *)
(* graph it is going to produce.                                           *)
(*                                                                         *)
(* A definition whose comment starts with FAULT is a slip the code could   *)
(* have, used in place of the definition after it to show that a property  *)
(* notices.                                                                *)
(***************************************************************************)
EXTENDS Naturals, FiniteSets

CONSTANTS
  Sessions,       \* session ids
  Requests,       \* concurrent callers of acquire() / release()
  Graphs,         \* identities of builds, hence of graphs (bounds the builds)
  None,           \* "no entry" in the three Maps
  MaxSessions,    \* SessionRegistryOptions.maxSessions
  IdleTtl,        \* SessionRegistryOptions.idleTtlMs, in ticks of the clock
  MaxClock,       \* bound on Date.now()
  MaxGeneration   \* bound on the number of invalidateAll() calls

ASSUME RegistryAssumption ==
  /\ None \notin Graphs
  /\ None \notin Sessions
  /\ MaxSessions \in Nat
  /\ IdleTtl \in Nat
  /\ MaxClock \in Nat
  /\ MaxGeneration \in Nat
  /\ IsFiniteSet(Requests)
  /\ IsFiniteSet(Sessions)

VARIABLES
  graphs,         \* Map sessionId -> graph served to acquire()
  draining,       \* Map sessionId -> graph detached while pinned
  pendingBuilds,  \* Map sessionId -> build in flight
  generation,     \* _generation
  graph,          \* the SessionGraph objects, and the builds that make them
  tearing,        \* graphs whose dispose() has started and not finished
  pending,        \* dispose() promises nobody has spliced yet
  req,            \* the callers
  shutdown,       \* where disposeAll() stands; closed once it has begun
  shutdownWait,   \* what disposeAll() is awaiting
  clock           \* Date.now()

vars == <<graphs, draining, pendingBuilds, generation, graph, tearing,
          pending, req, shutdown, shutdownWait, clock>>

-----------------------------------------------------------------------------
Phases   == {"unused", "building", "ready", "rejected"}
Stages   == {"open", "awaitingBuilds", "flushing", "returned"}
SlotMap  == [Sessions -> Graphs \cup {None}]

GraphRecord ==
  [phase : Phases, sid : Sessions \cup {None}, gen : Nat, active : Nat,
   lastUsed : Nat, marked : BOOLEAN, disposed : BOOLEAN]

ReqRecord ==
  [pc : {"idle", "awaiting", "holding"}, graph : Graphs \cup {None}, gen : Nat]

NoGraph == [phase |-> "unused", sid |-> None, gen |-> 0, active |-> 0,
            lastUsed |-> 0, marked |-> FALSE, disposed |-> FALSE]

Idle == [pc |-> "idle", graph |-> None, gen |-> 0]

closed == shutdown # "open"

Pinned(g) == graph[g].active > 0

\* What the two Maps of live objects hold.
Live     == {graphs[s] : s \in Sessions} \ {None}
Detached == {draining[s] : s \in Sessions} \ {None}

\* liveCount() counts these: entries of `graphs` not marked for disposal.
Counted == {g \in Live : ~graph[g].marked}

\* Map `m` without the entries that hold a member of S.
Without(m, S) == [s \in Sessions |-> IF m[s] \in S THEN None ELSE m[s]]

-----------------------------------------------------------------------------
Init ==
  /\ graphs = [s \in Sessions |-> None]
  /\ draining = [s \in Sessions |-> None]
  /\ pendingBuilds = [s \in Sessions |-> None]
  /\ generation = 0
  /\ graph = [g \in Graphs |-> NoGraph]
  /\ tearing = {}
  /\ pending = {}
  /\ req = [r \in Requests |-> Idle]
  /\ shutdown = "open"
  /\ shutdownWait = {}
  /\ clock = 0

\* graph.dispose() on every member of S.  It is idempotent: only a graph not yet
\* disposed starts a teardown, and a promise that has one to wait for.
DisposeFlags(gr, S) ==
  [g \in Graphs |-> IF g \in S THEN [gr[g] EXCEPT !.disposed = TRUE] ELSE gr[g]]
NewlyTorn(S) == {g \in S : ~graph[g].disposed}

\* SessionGraph.acquire() for request r: refused on a disposed graph.
Pin(r, g) ==
  IF graph[g].disposed
  THEN /\ req' = [req EXCEPT ![r] = Idle]
       /\ UNCHANGED graph
  ELSE /\ req' = [req EXCEPT ![r] = [pc |-> "holding", graph |-> g,
                                     gen |-> generation]]
       /\ graph' = [graph EXCEPT ![g].active = @ + 1, ![g].lastUsed = clock]

\* acquire(): the session has a graph; no await, pinned at once.
AcquireHit(r, s) ==
  /\ req[r].pc = "idle"
  /\ ~closed
  /\ graphs[s] # None
  /\ Pin(r, graphs[s])
  /\ UNCHANGED <<graphs, draining, pendingBuilds, generation, tearing,
                 pending, shutdown, shutdownWait, clock>>

\* acquire(): no graph, a build in flight; await it (single flight).
AcquireJoin(r, s) ==
  /\ req[r].pc = "idle"
  /\ ~closed
  /\ graphs[s] = None
  /\ pendingBuilds[s] # None
  /\ req' = [req EXCEPT ![r] = [pc |-> "awaiting", graph |-> pendingBuilds[s],
                                gen |-> generation]]
  /\ UNCHANGED <<graphs, draining, pendingBuilds, generation, graph, tearing,
                 pending, shutdown, shutdownWait, clock>>

NoBuild(s) == pendingBuilds[s] = None

\* acquire(): neither; start factory.build() and record it in pendingBuilds.
AcquireBuild(r, s, g) ==
  /\ req[r].pc = "idle"
  /\ ~closed
  /\ graphs[s] = None
  /\ NoBuild(s)
  /\ graph[g].phase = "unused"
  /\ graph' = [graph EXCEPT ![g] = [NoGraph EXCEPT !.phase = "building",
                                                   !.sid = s,
                                                   !.gen = generation]]
  /\ pendingBuilds' = [pendingBuilds EXCEPT ![s] = g]
  /\ req' = [req EXCEPT ![r] = [pc |-> "awaiting", graph |-> g,
                                gen |-> generation]]
  /\ UNCHANGED <<graphs, draining, generation, tearing, pending, shutdown,
                 shutdownWait, clock>>

\* clearIfMine(): free the slot only while this build is still its entry.
ClearIfMine(g) ==
  pendingBuilds' = [s \in Sessions |->
                      IF s = graph[g].sid /\ pendingBuilds[s] = g
                      THEN None ELSE pendingBuilds[s]]

\* FAULT: the generation is not looked at when a build resolves.
NeverStale(g) == FALSE

\* invalidateAll() ran since the build started.
Stale(g) == graph[g].gen # generation

\* The .then() of a build whose generation has passed: dispose, do not publish.
BuildOrphaned(g) ==
  /\ graph[g].phase = "building"
  /\ Stale(g)
  /\ graph' = [graph EXCEPT ![g].phase = "rejected", ![g].disposed = TRUE]
  /\ tearing' = tearing \cup {g}
  /\ pending' = pending \cup {g}
  /\ ClearIfMine(g)
  /\ UNCHANGED <<graphs, draining, generation, req, shutdown, shutdownWait,
                 clock>>

\* factory.build() rejected: .catch() frees the slot, every awaiter rejects.
BuildFails(g) ==
  /\ graph[g].phase = "building"
  /\ graph' = [graph EXCEPT ![g].phase = "rejected"]
  /\ ClearIfMine(g)
  /\ UNCHANGED <<graphs, draining, generation, tearing, pending, req,
                 shutdown, shutdownWait, clock>>

\* The graphs enforceCap() may pick from `cand`: least recently used.  Equal
\* timestamps are broken by Map order in the code, by any choice here.
LeastRecent(cand, used) ==
  {g \in cand : \A h \in cand : used[g] <= used[h]}

OverCap(n) == n > MaxSessions

\* The .then() of a current build: publish, then enforceCap().  Before a
\* publish at most MaxSessions entries count (CapRespected), so the loop of
\* enforceCap() runs at most once: it evicts an unpinned victim, marks a
\* pinned one and stops.
BuildPublished(g) ==
  LET s     == graph[g].sid
      cand  == {h \in (Live \ {graphs[s]}) \cup {g} : ~graph[h].marked}
      used  == [h \in Graphs |-> IF h = g THEN clock ELSE graph[h].lastUsed]
      built == [graph EXCEPT ![g].phase = "ready", ![g].lastUsed = clock]
      put   == [graphs EXCEPT ![s] = g]
  IN
  /\ graph[g].phase = "building"
  /\ ~Stale(g)
  /\ ClearIfMine(g)
  /\ \/ /\ ~OverCap(Cardinality(cand))
        /\ graphs' = put
        /\ graph' = built
        /\ UNCHANGED <<tearing, pending>>
     \/ /\ OverCap(Cardinality(cand))
        /\ \E v \in LeastRecent(cand, used) :
             IF Pinned(v)
             THEN /\ graphs' = put
                  /\ graph' = [built EXCEPT ![v].marked = TRUE]
                  /\ UNCHANGED <<tearing, pending>>
             ELSE /\ graphs' = Without(put, {v})
                  /\ graph' = [built EXCEPT ![v].disposed = TRUE]
                  /\ tearing' = tearing \cup {v}
                  /\ pending' = pending \cup {v}
  /\ UNCHANGED <<draining, generation, req, shutdown, shutdownWait, clock>>

\* FAULT: a rejected build is not passed on to those who joined it.
Resolved(g) == graph[g].phase = "ready"

Settled(g) == graph[g].phase \in {"ready", "rejected"}

\* acquire() after its await: rejected with the build, refused when the
\* registry closed or was invalidated meanwhile, else SessionGraph.acquire().
ResumeAcquire(r) ==
  LET g == req[r].graph IN
  /\ req[r].pc = "awaiting"
  /\ Settled(g)
  /\ IF graph[g].phase = "rejected" \/ closed \/ generation # req[r].gen
     THEN /\ req' = [req EXCEPT ![r] = Idle]
          /\ UNCHANGED graph
     ELSE Pin(r, g)
  /\ UNCHANGED <<graphs, draining, pendingBuilds, generation, tearing,
                 pending, shutdown, shutdownWait, clock>>

\* FAULT: the first release forgets every other pin.
UnpinAll(n) == 0

\* SessionGraph.release().
Unpin(n) == IF n > 0 THEN n - 1 ELSE n

\* FAULT: only a graph the drain Map still holds is disposed.
MustGoIfDraining(g) == draining[graph[g].sid] = g

\* FAULT: release() looks for the graph among the served ones.
MustGoIfServed(g) == graphs[graph[g].sid] = g /\ graph[g].marked

MustGo(g) == draining[graph[g].sid] = g \/ graph[g].marked

\* release(sessionId, graph): unpin; the last release of a detached or marked
\* graph takes it out of its Map and disposes it.
Release(r) ==
  LET g    == req[r].graph
      s    == graph[g].sid
      down == [graph EXCEPT ![g].active = Unpin(@),
                            ![g].lastUsed = clock]
      ends == down[g].active = 0 /\ MustGo(g)
  IN
  /\ req[r].pc = "holding"
  /\ req' = [req EXCEPT ![r] = Idle]
  /\ IF ends
     THEN /\ draining' = [draining EXCEPT ![s] = IF @ = g THEN None ELSE @]
          /\ graphs' = [graphs EXCEPT ![s] = IF @ = g /\ draining[s] # g
                                             THEN None ELSE @]
          /\ graph' = DisposeFlags(down, {g})
          /\ tearing' = tearing \cup NewlyTorn({g})
          /\ pending' = pending \cup NewlyTorn({g})
     ELSE /\ graph' = down
          /\ UNCHANGED <<graphs, draining, tearing, pending>>
  /\ UNCHANGED <<pendingBuilds, generation, shutdown, shutdownWait, clock>>

-----------------------------------------------------------------------------
\* Evict the graphs of S from `graphs` and flush: flushEvictions() splices
\* every promise out of `pending`, the ones other calls pushed included.
EvictAndFlush(S) ==
  /\ graphs' = Without(graphs, S)
  /\ tearing' = tearing \cup NewlyTorn(S)
  /\ pending' = {}

\* evictOne(sessionId), called by DELETE /v1/sessions/:id.
EvictOne(s) ==
  LET g == graphs[s] IN
  /\ g # None
  /\ IF Pinned(g)
     THEN /\ EvictAndFlush({})
          /\ graph' = [graph EXCEPT ![g].marked = TRUE]
     ELSE /\ EvictAndFlush({g})
          /\ graph' = DisposeFlags(graph, {g})
  /\ UNCHANGED <<draining, pendingBuilds, generation, req, shutdown,
                 shutdownWait, clock>>

\* A timer callback runs only when no settled promise awaits its continuation.
MicrotasksDrained ==
  \A r \in Requests :
    req[r].pc = "awaiting" => graph[req[r].graph].phase = "building"

\* FAULT: the sweep looks at the time only.
IdleGraphsPinnedToo == {g \in Live : clock - graph[g].lastUsed >= IdleTtl}

\* The unpinned graphs evictIdle() finds past the idle time.
IdleGraphs ==
  {g \in Live : ~Pinned(g) /\ clock - graph[g].lastUsed >= IdleTtl}

\* evictIdle(), from the sweep timer of the server.
EvictIdle ==
  /\ MicrotasksDrained
  /\ IdleGraphs # {}
  /\ EvictAndFlush(IdleGraphs)
  /\ graph' = DisposeFlags(graph, IdleGraphs)
  /\ UNCHANGED <<draining, pendingBuilds, generation, req, shutdown,
                 shutdownWait, clock>>

\* invalidateAll(): a new generation; pinned graphs are marked and detached,
\* the others disposed; builds in flight are forgotten.
InvalidateAll ==
  LET kept == {g \in Live : Pinned(g)}
      gone == Live \ kept
  IN
  /\ generation < MaxGeneration
  /\ generation' = generation + 1
  /\ graphs' = [s \in Sessions |-> None]
  /\ draining' = [s \in Sessions |->
                    IF graphs[s] \in kept THEN graphs[s] ELSE draining[s]]
  /\ graph' = [g \in Graphs |->
                 IF g \in kept THEN [graph[g] EXCEPT !.marked = TRUE]
                 ELSE DisposeFlags(graph, gone)[g]]
  /\ tearing' = tearing \cup NewlyTorn(gone)
  /\ pending' = {}
  /\ pendingBuilds' = [s \in Sessions |-> None]
  /\ UNCHANGED <<req, shutdown, shutdownWait, clock>>

\* The builds pendingBuilds holds.
InFlight == {pendingBuilds[s] : s \in Sessions} \ {None}

\* disposeAll() with builds in flight: closed before the first await, which
\* waits for all of them to settle.
DisposeAllBegin ==
  /\ shutdown = "open"
  /\ InFlight # {}
  /\ shutdown' = "awaitingBuilds"
  /\ shutdownWait' = InFlight
  /\ UNCHANGED <<graphs, draining, pendingBuilds, generation, graph, tearing,
                 pending, req, clock>>

\* FAULT: the sweep does not wait for the builds.
BuildsIgnored == TRUE

\* FAULT: Promise.all() in the place of Promise.allSettled().
BuildsAllResolved == \A g \in shutdownWait : graph[g].phase = "ready"

\* Promise.allSettled().
BuildsSettled == \A g \in shutdownWait : graph[g].phase # "building"

\* disposeAll() after those builds, or at once when there are none: dispose
\* every graph of both Maps, forget the builds, await what `pending` holds.
DisposeAllSweep ==
  LET gone == Live \cup Detached IN
  /\ \/ shutdown = "open" /\ InFlight = {}
     \/ shutdown = "awaitingBuilds" /\ BuildsSettled
  /\ shutdown' = "flushing"
  /\ shutdownWait' = pending \cup NewlyTorn(gone)
  /\ pending' = {}
  /\ graphs' = [s \in Sessions |-> None]
  /\ draining' = [s \in Sessions |-> None]
  /\ pendingBuilds' = [s \in Sessions |-> None]
  /\ graph' = DisposeFlags(graph, gone)
  /\ tearing' = tearing \cup NewlyTorn(gone)
  /\ UNCHANGED <<generation, req, clock>>

\* disposeAll() returns.
DisposeAllReturn ==
  /\ shutdown = "flushing"
  /\ shutdownWait \cap tearing = {}
  /\ shutdown' = "returned"
  /\ shutdownWait' = {}
  /\ UNCHANGED <<graphs, draining, pendingBuilds, generation, graph, tearing,
                 pending, req, clock>>

\* The dispose hook of g finished (it never rejects) and the logger is reset.
TeardownDone(g) ==
  /\ g \in tearing
  /\ tearing' = tearing \ {g}
  /\ UNCHANGED <<graphs, draining, pendingBuilds, generation, graph, pending,
                 req, shutdown, shutdownWait, clock>>

Tick ==
  /\ clock < MaxClock
  /\ clock' = clock + 1
  /\ UNCHANGED <<graphs, draining, pendingBuilds, generation, graph, tearing,
                 pending, req, shutdown, shutdownWait>>

-----------------------------------------------------------------------------
BuildSettles(g) == BuildOrphaned(g) \/ BuildFails(g) \/ BuildPublished(g)

Next ==
  \/ \E r \in Requests, s \in Sessions : AcquireHit(r, s) \/ AcquireJoin(r, s)
  \/ \E r \in Requests, s \in Sessions, g \in Graphs : AcquireBuild(r, s, g)
  \/ \E g \in Graphs : BuildSettles(g) \/ TeardownDone(g)
  \/ \E r \in Requests : ResumeAcquire(r) \/ Release(r)
  \/ \E s \in Sessions : EvictOne(s)
  \/ EvictIdle \/ InvalidateAll
  \/ DisposeAllBegin \/ DisposeAllSweep \/ DisposeAllReturn
  \/ Tick

Spec == Init /\ [][Next]_vars

-----------------------------------------------------------------------------
TypeOK ==
  /\ graphs \in SlotMap
  /\ draining \in SlotMap
  /\ pendingBuilds \in SlotMap
  /\ generation \in Nat
  /\ graph \in [Graphs -> GraphRecord]
  /\ tearing \in SUBSET Graphs
  /\ pending \in SUBSET Graphs
  /\ req \in [Requests -> ReqRecord]
  /\ shutdown \in Stages
  /\ shutdownWait \in SUBSET Graphs
  /\ clock \in Nat

\* Pinning protects a request: outside a shutdown no graph that an in-flight
\* request holds has been disposed, whatever eviction, cap, reload or deletion
\* ran meanwhile (session-graph.ts: "eviction cannot dispose a graph mid-run").
NoDisposeWhilePinned ==
  ~closed => \A g \in Graphs : graph[g].disposed => ~Pinned(g)

\* A reload takes effect: acquire() only ever finds graphs built under the
\* current configuration generation, however late a superseded build resolves.
OnlyCurrentServed ==
  \A s \in Sessions : graphs[s] # None => graph[graphs[s]].gen = generation

\* Single flight: two builds for one session are never in flight under the
\* same generation, even when a superseded build settles beside its successor.
SingleFlight ==
  \A g, h \in Graphs :
    /\ graph[g].phase = "building" /\ graph[h].phase = "building"
    /\ graph[g].sid = graph[h].sid
    /\ graph[g].gen = generation /\ graph[h].gen = generation
    => g = h

\* No graph is lost: one that was built and not disposed is served, or is
\* detached, or is held by a request whose release will dispose it.
NothingLost ==
  \A g \in Graphs :
    graph[g].phase = "ready" /\ ~graph[g].disposed =>
      g \in Live \cup Detached \/ (Pinned(g) /\ graph[g].marked)

\* The cap holds after every publish, also when its victim is pinned.
CapRespected == Cardinality(Counted) <= MaxSessions

\* The reference count is exact: it is the number of requests that hold the
\* graph, so it reaches zero exactly when the last of them releases.
Holders(g) == {r \in Requests : req[r].pc = "holding" /\ req[r].graph = g}

CountExact == \A g \in Graphs : graph[g].active = Cardinality(Holders(g))

\* Once disposeAll() has swept, no graph survives it in a Map or outside one,
\* a build that resolved during the wait included; the exception is a graph
\* some request still holds and will dispose itself.
ShutdownSweepsAll ==
  shutdown \in {"flushing", "returned"} =>
    \A g \in Graphs :
      graph[g].phase = "ready" => graph[g].disposed \/ Pinned(g)

\* A published graph never replaces another one, which would be lost undisposed.
NeverOverwrites ==
  [][\A s \in Sessions :
       graphs[s] # None /\ graphs'[s] # graphs[s] => graphs'[s] = None]_vars

\* Every acquire() that awaits a build settles.
AcquireSettles ==
  \A r \in Requests : req[r].pc = "awaiting" ~> req[r].pc # "awaiting"

\* A graph that a reload detached is torn down once its requests end: it is
\* never served again, so no new request can keep it alive.
DetachedTornDown ==
  \A g \in Graphs :
    (graph[g].marked /\ g \notin Live) ~> (graph[g].disposed /\ g \notin tearing)

\* A shutdown ends.
ShutdownReturns == shutdown # "open" ~> shutdown = "returned"

-----------------------------------------------------------------------------
\* The registry as SessionLease sees it: a graph is served while `graphs` holds
\* it, retired once detached, gone once disposed; a failed build made none.
LeaseStatus ==
  [g \in Graphs |->
     IF graph[g].disposed THEN "gone"
     ELSE IF graph[g].phase # "ready" THEN "absent"
     ELSE IF g \in Live THEN "serving" ELSE "retired"]

Promise == INSTANCE SessionLease WITH
  status <- LeaseStatus,
  owner  <- [g \in Graphs |-> IF LeaseStatus[g] = "absent" THEN None
                              ELSE graph[g].sid],
  lease  <- [r \in Requests |-> IF req[r].pc = "holding" THEN req[r].graph
                                ELSE None],
  open   <- shutdown \notin {"flushing", "returned"}

\* The registry implements the leases it promises its callers.
ImplementsLease == Promise!LeaseSpec
=============================================================================
