---------------------------- MODULE WorkerRegistry ----------------------------
(***************************************************************************)
(* The worker cache of the server: one entry per configured sub-agent,     *)
(* filled at startup, read by every build of a session graph, emptied by   *)
(* every reload of the configuration and by the shutdown.  The entries are *)
(* shared mutable objects and every build awaits several times between     *)
(* looking at the cache and using what it found.                           *)
(*                                                                         *)
(* A worker here is one with its own MCP server (`mcp:` in its block) and  *)
(* its own store, so that making an entry awaits; its server answers, and  *)
(* the parent agent has MCP clients.                                       *)
(* A handle stands for the SmartAgentHandle of a primary build, together   *)
(* with the MCP clients it connected; 0 is "none", and as the clients of   *)
(* a worker it means those of the parent agent.                            *)
(***************************************************************************)
EXTENDS Naturals, Sequences, FiniteSets

CONSTANTS
  Builds,      \* builds of session graphs
  Subs,        \* the `subagents:` block: names of workers in order
  MaxReloads   \* bound: reloads of the configuration

ASSUME WorkersAssumption ==
  /\ IsFiniteSet(Builds) /\ MaxReloads \in Nat
  /\ Len(Subs) \in Nat \ {0} /\ DOMAIN Subs = 1 .. Len(Subs)
  /\ \A i, j \in 1 .. Len(Subs) : Subs[i] = Subs[j] => i = j

VARIABLES
  cache,     \* [name -> entry, 0 when it has none]
  entries,   \* the WorkerLlmSet objects ever made, cached or not
  handles,   \* the handles primary builds made
  build,     \* [build -> its progress through the workers]
  drains,    \* how often the cache was emptied
  gen,       \* how often the sessions were invalidated
  put,       \* a PUT /v1/config is between its drain and its invalidation
  server,    \* "up", "closing", "closed"
  awaited,   \* the builds the shutdown waits for
  disturbed  \* history: <<name, drains>> where builds met builds or a drain,
             \* or a primary build failed after it cached its entry

serverVars == <<drains, gen, put, server, awaited>>
vars == <<cache, entries, handles, build, serverVars, disturbed>>

Names == {Subs[i] : i \in 1 .. Len(Subs)}
Name(b) == Subs[build[b].sub]

\* A build that has not begun.
Unbegun == [at |-> "idle", sub |-> 1, primary |-> FALSE, injected |-> 0,
            entry |-> 0, handle |-> 0, wired |-> [n \in Names |-> 0], gen |-> 0]

Entry == [clients |-> 0, close |-> 0]

\* The startup build has made one handle and one full entry of every worker.
Init ==
  /\ cache = [n \in Names |-> CHOOSE i \in 1 .. Len(Subs) : Subs[i] = n]
  /\ entries = [i \in 1 .. Len(Subs) |-> [clients |-> i, close |-> i]]
  /\ handles = [i \in 1 .. Len(Subs) |->
                 [name |-> Subs[i], link |-> "open", era |-> 0]]
  /\ build = [b \in Builds |-> Unbegun]
  /\ drains = 0 /\ gen = 0 /\ put = FALSE /\ server = "up"
  /\ awaited = {} /\ disturbed = {}

Building(b) == build[b].at \notin {"idle", "done", "failed"}

\* Past its look at the cache for worker n, not yet done with it.
Inside(b, n) == Building(b) /\ build[b].at # "look" /\ Name(b) = n

\* A served graph: a reload since it began would have had it dropped.
Live(b) == build[b].at = "done" /\ build[b].gen = gen /\ server # "closed"

\* close() of a handle: disconnects the clients it connected, if any.
Closed(h) == [h EXCEPT !.link = IF @ = "open" THEN "closed" ELSE @]
Closing(hs) ==
  [h \in 1 .. Len(handles) |->
    IF h \in hs THEN Closed(handles[h]) ELSE handles[h]]

-----------------------------------------------------------------------------
(* The loop over the workers of one build.                                 *)

Begin(b) ==
  /\ server = "up" /\ build[b].at = "idle"
  /\ build' = [build EXCEPT ![b].at = "look", ![b].gen = gen]
  /\ UNCHANGED <<cache, entries, handles, serverVars, disturbed>>

\* The clients of a cached entry go to the worker; the entry is then resolved
\* again by buildSubAgent(), after its wait for the models.
Rewire(b, e) ==
  build' = [build EXCEPT ![b].at = "resolve", ![b].primary = FALSE,
                         ![b].injected = entries[e].clients]

Look(b) ==
  /\ build[b].at = "look"
  /\ IF cache[Name(b)] # 0
     THEN Rewire(b, cache[Name(b)])
     ELSE build' = [build EXCEPT ![b].at = "resolve", ![b].primary = TRUE]
  /\ disturbed' = IF \E c \in Builds : Inside(c, Name(b)) /\ build[c].primary
                  THEN disturbed \cup {<<Name(b), drains>>}
                  ELSE disturbed
  /\ UNCHANGED <<cache, entries, handles, serverVars>>

\* resolveWorkerLlmSet(): a hit, or an entry to make.
Resolve(b) ==
  /\ build[b].at = "resolve"
  /\ build' = [build EXCEPT ![b].entry = cache[Name(b)],
                            ![b].at = IF cache[Name(b)] = 0 THEN "make" ELSE "wire"]
  /\ UNCHANGED <<cache, entries, handles, serverVars, disturbed>>

\* The factories have returned: the new entry is cached over any other.
MakeEntry(b) ==
  /\ build[b].at = "make"
  /\ entries' = Append(entries, Entry)
  /\ cache' = [cache EXCEPT ![Name(b)] = Len(entries) + 1]
  /\ build' = [build EXCEPT ![b].entry = Len(entries) + 1, ![b].at = "wire"]
  /\ UNCHANGED <<handles, serverVars, disturbed>>

\* The clients a build wires: those of the entry, else the injected ones.
Chosen(b) ==
  IF entries[build[b].entry].clients # 0
  THEN entries[build[b].entry].clients
  ELSE build[b].injected

\* A re-wired worker is complete with that; the build goes on to the next.
WireSession(b) ==
  /\ build[b].at = "wire" /\ ~build[b].primary
  /\ build' = [build EXCEPT
       ![b].wired[Name(b)] = Chosen(b), ![b].injected = 0,
       ![b].entry = 0, ![b].handle = 0,
       ![b].sub = IF @ = Len(Subs) THEN @ ELSE @ + 1,
       ![b].at = IF build[b].sub = Len(Subs) THEN "done" ELSE "look"]
  /\ UNCHANGED <<cache, entries, handles, serverVars, disturbed>>

\* A primary build takes the clients of the entry or connects its own.
WirePrimary(b) ==
  /\ build[b].at = "wire" /\ build[b].primary
  /\ build' = [build EXCEPT ![b].at = "connect",
                            ![b].injected = entries[build[b].entry].clients]
  /\ UNCHANGED <<cache, entries, handles, serverVars, disturbed>>

Handle(b) ==
  [name |-> Name(b), era |-> drains,
   link |-> IF build[b].injected = 0 THEN "open" ELSE "borrowed"]

\* FAULT: the close function of the handle is not captured.
BackfilledNoClose(e, clients, h) ==
  [entries EXCEPT ![e].clients = IF @ = 0 THEN clients ELSE @]

\* backfillWorkerCacheFromHandle() up to its await: an empty slot takes the
\* clients; the close function waits for that of a former handle.
Backfilled(e, clients, h) ==
  [entries EXCEPT ![e].clients = IF @ = 0 THEN clients ELSE @,
                  ![e].close = IF @ = 0 THEN h ELSE @]

\* The primary build has its handle, and fills the entry that is cached by now.
\* A close function that is there already is called.
Connected(b) ==
  LET h == Len(handles) + 1
      e == cache[Name(b)]
      prior == IF e = 0 THEN 0 ELSE entries[e].close
      clients == IF build[b].injected = 0 THEN h ELSE build[b].injected
  IN /\ build[b].at = "connect"
     /\ handles' = Append(Closing({prior}), Handle(b))
     /\ entries' = IF e = 0 THEN entries ELSE Backfilled(e, clients, h)
     /\ build' = [build EXCEPT ![b].at = IF prior = 0 THEN "reread" ELSE "prior",
                               ![b].entry = e, ![b].handle = h]
     /\ UNCHANGED <<cache, serverVars, disturbed>>

\* The prior close has settled, on an entry that may have left the cache.
PriorClosed(b) ==
  /\ build[b].at = "prior"
  /\ entries' = [entries EXCEPT ![build[b].entry].close = build[b].handle]
  /\ build' = [build EXCEPT ![b].at = "reread"]
  /\ UNCHANGED <<cache, handles, serverVars, disturbed>>

\* "worker LLM set not cached" when the entry is gone again.
Reread(b) ==
  /\ build[b].at = "reread"
  /\ IF cache[Name(b)] = 0
     THEN build' = [build EXCEPT ![b] = [Unbegun EXCEPT !.at = "failed"]]
     ELSE Rewire(b, cache[Name(b)])
  /\ UNCHANGED <<cache, entries, handles, serverVars, disturbed>>

\* A model, a store or the builder throws: the build of the session fails.  The
\* entry a primary build has cached before it connects stays as it is.
BuildThrows(b) ==
  /\ build[b].at \in {"resolve", "make", "connect"}
  /\ build' = [build EXCEPT ![b] = [Unbegun EXCEPT !.at = "failed"]]
  /\ disturbed' = IF build[b].at = "connect"
                  THEN disturbed \cup {<<Name(b), drains>>}
                  ELSE disturbed
  /\ UNCHANGED <<cache, entries, handles, serverVars>>

-----------------------------------------------------------------------------
(* Reloads and shutdown.                                                   *)

\* FAULT: the entries are closed and stay cached.
EmptiedNot == cache

Emptied == [n \in Names |-> 0]

\* drainWorkerCache() up to its await: every cached close is called.
Drain ==
  /\ handles' = Closing({entries[cache[n]].close : n \in {m \in Names : cache[m] # 0}})
  /\ cache' = Emptied
  /\ drains' = drains + 1
  /\ disturbed' = disturbed \cup
       {<<n, era>> : n \in {m \in Names : \E b \in Builds : Inside(b, m)},
                     era \in {drains, drains + 1}}
  /\ UNCHANGED <<entries, build>>

\* The file watcher starts the drain and invalidates in the same turn.
HotReload ==
  /\ server # "closed" /\ drains < MaxReloads
  /\ Drain
  /\ gen' = gen + 1
  /\ UNCHANGED <<put, server, awaited>>

\* PUT /v1/config waits for the closes before it invalidates.
PutDrain ==
  /\ server # "closed" /\ drains < MaxReloads /\ ~put
  /\ Drain
  /\ put' = TRUE
  /\ UNCHANGED <<gen, server, awaited>>

PutInvalidate ==
  /\ put
  /\ put' = FALSE /\ gen' = gen + 1
  /\ UNCHANGED <<cache, entries, handles, build, drains, server, awaited, disturbed>>

\* disposeAll() takes the builds it knows, not those a reload has superseded.
CloseBegin ==
  /\ server = "up"
  /\ server' = "closing"
  /\ awaited' = {b \in Builds : Building(b) /\ build[b].gen = gen}
  /\ UNCHANGED <<cache, entries, handles, build, drains, gen, put, disturbed>>

\* They have settled and the graphs are disposed: the workers are drained.
CloseDrain ==
  /\ server = "closing" /\ \A b \in awaited : ~Building(b)
  /\ Drain
  /\ server' = "closed"
  /\ UNCHANGED <<gen, put, awaited>>

BuildStep(b) ==
  \/ Look(b) \/ Resolve(b) \/ MakeEntry(b) \/ WireSession(b) \/ WirePrimary(b)
  \/ Connected(b) \/ PriorClosed(b) \/ Reread(b)

Next ==
  \/ \E b \in Builds : Begin(b) \/ BuildStep(b) \/ BuildThrows(b)
  \/ HotReload \/ PutDrain \/ PutInvalidate \/ CloseBegin \/ CloseDrain

Spec == Init /\ [][Next]_vars

-----------------------------------------------------------------------------
(* Properties.                                                             *)

\* Every cached entry exists, and what it holds are handles that were made.
WorkersTypeOK ==
  /\ cache \in [Names -> 0 .. Len(entries)]
  /\ \A e \in 1 .. Len(entries) :
       entries[e] \in [clients : 0 .. Len(handles), close : 0 .. Len(handles)]
  /\ \A h \in 1 .. Len(handles) : handles[h].link \in {"open", "closed", "borrowed"}

\* In a served graph, a worker with an MCP server of its own is wired to open
\* clients of its own, unless since the last reload a primary build of that
\* worker was met by another build or failed halfway, or a drain met a build of
\* it.  Sessions that build side by side on a full cache do each other no harm,
\* and a reload that meets no build heals whatever an earlier one spoilt.
OnlyOverlapsHurt ==
  \A b \in Builds, n \in Names :
    Live(b) /\ ~put /\ <<n, drains>> \notin disturbed =>
      /\ build[b].wired[n] # 0
      /\ handles[build[b].wired[n]].link = "open"

\* A close function that a later drain will call.
Closable(h) ==
  \/ \E n \in Names : cache[n] # 0 /\ entries[cache[n]].close = h
  \/ \E b \in Builds : build[b].at = "prior" /\ build[b].handle = h

\* A connection is open and nothing will ever close it only where such an
\* overlap happened while it was made, or where a build that a reload had
\* superseded, and the shutdown therefore did not wait for, made it after the
\* shutdown: lazy rebuilds by themselves do not pile up connections.
OnlyOverlapsLeak ==
  \A h \in 1 .. Len(handles) :
    /\ handles[h].link = "open"
    /\ server = "closed" \/ ~Closable(h)
    => \/ <<handles[h].name, handles[h].era>> \in disturbed
       \/ server = "closed" /\ handles[h].era = drains
=============================================================================
