----------------------------- MODULE SkillCatalog -----------------------------
(***************************************************************************)
(* The durable store of skills (llm-agent-libs/src/skills/plugin-host):    *)
(* hosts load() collections of skills into generations of vectors          *)
(* (skill-plugin-host.ts, the Qdrant provider of qdrant-store.ts), one     *)
(* compare-and-set of the catalog activates them, and readers recall from  *)
(* the generation the catalog names (compatible-skills-rag.ts).            *)
(*                                                                         *)
(* Hosts and readers are processes that share the catalog and the vectors. *)
(* Each request to either is an action; between two of them anybody else   *)
(* may act, a request may fail, a process may crash.                       *)
(***************************************************************************)
EXTENDS Integers, FiniteSets

CONSTANTS
  Hosts, Readers, Groups, Sources,
  Generations,     \* names beginGeneration() may give out, each once
  None,
  Serving,         \* the hosts with servingMode, the others only ingest
  Strict,          \* the hosts with strict
  MaxAttempts,     \* catalogCasMaxAttempts
  RetiredGrace, OrphanGrace, RecallTimeout,
  TickStep, MaxClock, MaxLoads

ASSUME SkillAssumption ==
  /\ Serving \subseteq Hosts /\ Strict \subseteq Hosts
  /\ MaxAttempts \in Nat \ {0}
  /\ {RetiredGrace, OrphanGrace, RecallTimeout, TickStep, MaxClock, MaxLoads} \subseteq Nat
  /\ RecallTimeout < RetiredGrace
  /\ None \notin Nat \cup Generations \cup [generation : Generations, sources : SUBSET Sources]

VARIABLES
  clock,
  catalog,    \* revision, entries and retired of the catalog store
  points,     \* per generation and source the createdAt of its vectors
  made,       \* the generations that were begun
  host,       \* the closure of each host and the local variables of its load()
  reader,     \* each query()
  loads,      \* history: loads begun
  written,    \* history: what a generation was built of
  late,       \* history: generations activated after OrphanGrace
  unsure      \* history: generations activated by a publish that threw

vars == <<clock, catalog, points, made, host, reader,
          loads, written, late, unsure>>

history == <<loads, written, late, unsure>>

NoPoints == [s \in Sources |-> None]
NoEntries == [g \in Groups |-> None]

\* Tombstones are never read back: an entry that gets one is gone.
NoCatalog == [revision |-> 0, entries |-> NoEntries,
              retired |-> [n \in Generations |-> None]]

\* registered survives a load; snap is the catalog as it was read, left what a loop
\* has still to do, next the entries to publish, since the stamp of the vectors that
\* are made or, once at "publishing", of the publish.
NoHost ==
  [at |-> "idle", registered |-> None, tick |-> 0,
   snap |-> NoCatalog, left |-> {}, attempt |-> 0, failed |-> {},
   got |-> [s \in Sources |-> {}], group |-> None, generation |-> None,
   since |-> 0, live |-> None, built |-> {}, next |-> NoEntries, then |-> None]

\* since is history: from when on, at the earliest, the grace of what it reads counts.
NoQuery == [at |-> "idle", generation |-> None, since |-> 0, called |-> 0]

Init ==
  /\ clock = 0
  /\ catalog = NoCatalog
  /\ points = [n \in Generations |-> NoPoints]
  /\ made = {}
  /\ host = [h \in Hosts |-> NoHost]
  /\ reader = [r \in Readers |-> NoQuery]
  /\ loads = 0
  /\ written = [n \in Generations |-> NoPoints]
  /\ late = {}
  /\ unsure = {}

-----------------------------------------------------------------------------
(* The catalog and the vectors.                                            *)

Listed(c) == {g \in Groups : c.entries[g] # None}
Active(c) == {c.entries[g].generation : g \in Listed(c)}
Retired(c) == {n \in Generations : c.retired[n] # None}

\* FAULT: the UPDATE is not conditional on the revision.
CurrentAlways(snap) == TRUE

\* casPublish() and pruneRetired(): the revision that was read is still there.
Current(snap) == snap.revision = catalog.revision

\* computeRetired(): what the new entries no longer name is retired, from stamp on.
RetiredBy(new, stamp) ==
  [n \in Generations |->
     IF n \in Active(catalog) \ Active(new) /\ catalog.retired[n] = None
     THEN stamp ELSE catalog.retired[n]]

\* What casPublish(), called at stamp, makes of the catalog.
Published(entries, stamp) ==
  LET new == [catalog EXCEPT !.revision = @ + 1, !.entries = entries] IN
  [new EXCEPT !.retired = RetiredBy(new, stamp)]

Deleted(n) == points' = [points EXCEPT ![n] = NoPoints]

-----------------------------------------------------------------------------
(* load(): the sweep of what earlier loads left behind.                    *)

\* What remains of a host once its load() has returned or thrown.
Ended(x) == [NoHost EXCEPT !.registered = x.registered]

\* FAULT: a retired generation is kept for the deadline of a search, not for the grace.
DueSoon(c, tick) == {n \in Retired(c) : c.retired[n] + RecallTimeout < tick}

Due(c, tick) == {n \in Retired(c) : c.retired[n] + RetiredGrace <= tick}

\* sweep() begins: now() and the first read of the catalog.
LoadBegins(h) ==
  /\ host[h].at = "idle"
  /\ loads < MaxLoads
  /\ loads' = loads + 1
  /\ LET due == Due(catalog, clock) IN
     host' = [host EXCEPT ![h] =
       [Ended(@) EXCEPT !.at = IF due = {} THEN "scanning" ELSE "reclaiming",
                        !.tick = clock, !.snap = catalog, !.left = due]]
  /\ UNCHANGED <<clock, catalog, points, made, reader, written, late, unsure>>

DeleteRetired(h) ==
  /\ host[h].at = "reclaiming"
  /\ \E n \in host[h].left :
       /\ Deleted(n)
       /\ host' = [host EXCEPT ![h].left = @ \ {n},
            ![h].at = IF host[h].left = {n} THEN "pruning" ELSE "reclaiming"]
  /\ UNCHANGED <<clock, catalog, made, reader, history>>

\* pruneRetired(): if the catalog moved meanwhile, load() throws.
PruneRetired(h) ==
  /\ host[h].at = "pruning"
  /\ IF Current(host[h].snap)
     THEN LET due == Due(host[h].snap, host[h].tick)
              new == [catalog EXCEPT !.revision = @ + 1, !.retired =
                       [n \in Generations |-> IF n \in due THEN None ELSE @[n]]]
          IN /\ catalog' = new
             /\ host' = [host EXCEPT ![h].snap = new, ![h].at = "scanning"]
     ELSE /\ host' = [host EXCEPT ![h] = Ended(@)]
          /\ UNCHANGED catalog
  /\ UNCHANGED <<clock, points, made, reader, history>>

\* The youngest vector is older than the grace.
Expired(n, tick) ==
  \A s \in Sources : points[n][s] # None => points[n][s] + OrphanGrace <= tick

\* The scroll over all vectors: generations the snapshot does not know.
Scan(h) ==
  LET x == host[h]
      orphans == {n \in Generations \ (Active(x.snap) \cup Retired(x.snap)) :
                    points[n] # NoPoints /\ Expired(n, x.tick)}
  IN
  /\ x.at = "scanning"
  /\ host' = [host EXCEPT ![h] =
       [Ended(x) EXCEPT !.left = orphans, !.attempt = 1,
                        !.at = IF orphans = {} THEN "reading" ELSE "sweeping"]]
  /\ UNCHANGED <<clock, catalog, points, made, reader, history>>

DeleteOrphan(h) ==
  /\ host[h].at = "sweeping"
  /\ \E n \in host[h].left :
       /\ Deleted(n)
       /\ host' = [host EXCEPT ![h].left = @ \ {n},
            ![h].at = IF host[h].left = {n} THEN "reading" ELSE "sweeping"]
  /\ UNCHANGED <<clock, catalog, made, reader, history>>

-----------------------------------------------------------------------------
(* attempt(): acquire, build, publish.                                     *)

ReadPrior(h) ==
  /\ host[h].at = "reading"
  /\ host' = [host EXCEPT ![h].at = "acquiring",
                          ![h].snap = [catalog EXCEPT !.retired = NoCatalog.retired]]
  /\ UNCHANGED <<clock, catalog, points, made, reader, history>>

\* carryForwardByGroup: the failed owners of a prior entry.
Carried(x, g) ==
  IF x.snap.entries[g] = None THEN {} ELSE x.snap.entries[g].sources \cap x.failed

Desired(x) == {g \in Groups : Carried(x, g) # {} \/ \E s \in Sources : g \in x.got[s]}

Owners(x, g) ==
  {s \in Sources : g \in x.got[s]} \cup
  (IF Carried(x, g) = {} THEN {} ELSE x.snap.entries[g].sources)

\* publishCatalog() takes now() before its two requests to the catalog, in the step
\* in which the last collection is built.
StampIf(publishes) == IF publishes THEN clock ELSE 0

\* The reload guard.
Guarded(h, x) ==
  h \in Serving /\ x.registered # None =>
    Listed(x.snap) = x.registered /\ Desired(x) = x.registered

\* Every source has answered or failed.
Acquired(h) ==
  /\ host[h].at = "acquiring"
  /\ \E failed \in SUBSET Sources, got \in [Sources -> SUBSET Groups] :
       LET x == [host[h] EXCEPT !.failed = failed, !.got = got, !.built = {},
                                !.next = NoEntries] IN
       /\ \A s \in failed : got[s] = {}
       /\ host' = [host EXCEPT ![h] =
            IF (h \in Strict /\ failed # {}) \/ ~Guarded(h, x) THEN Ended(x)
            ELSE [x EXCEPT !.left = Desired(x), !.since = StampIf(Desired(x) = {}),
                   !.at = IF Desired(x) = {} THEN "publishing" ELSE "building"]]
  /\ UNCHANGED <<clock, catalog, points, made, reader, history>>

\* beginGeneration(), and the stamp upsert() takes before it embeds.
BeginGeneration(h) ==
  /\ host[h].at = "building"
  /\ \E g \in host[h].left, n \in Generations \ made :
       /\ made' = made \cup {n}
       /\ host' = [host EXCEPT ![h].group = g, ![h].generation = n,
            ![h].built = @ \cup {n}, ![h].since = clock, ![h].at = "embedding"]
  /\ UNCHANGED <<clock, catalog, points, reader, history>>

\* The group of x is done; entry is what the catalog is to say of it.
Entered(x, entry) ==
  [x EXCEPT !.next[x.group] = entry, !.left = @ \ {x.group}, !.live = None,
            !.group = None, !.generation = None,
            !.since = StampIf(x.left = {x.group}),
            !.at = IF x.left = {x.group} THEN "publishing" ELSE "building"]

Fresh(x) ==
  [generation |-> x.generation, sources |-> Owners(x, x.group)]

\* The vectors v are added to those of a generation.
With(old, v) == [s \in Sources |-> IF v[s] = None THEN old[s] ELSE v[s]]

Embedded(x) ==
  [s \in Sources |-> IF x.group \in x.got[s] THEN x.since ELSE None]

\* upsert() returns.
Upserted(h) ==
  LET x == host[h] IN
  /\ x.at = "embedding"
  /\ points' = [points EXCEPT ![x.generation] = Embedded(x)]
  /\ written' = [written EXCEPT ![x.generation] = Embedded(x)]
  /\ host' = [host EXCEPT ![h] = IF Carried(x, x.group) = {}
                                 THEN Entered(x, Fresh(x))
                                 ELSE [x EXCEPT !.at = "carrying"]]
  /\ UNCHANGED <<clock, catalog, made, reader, loads, late, unsure>>

\* carryForward() looks up the active generation and stamps its copies.
CarryBegins(h) ==
  LET x == host[h] IN
  /\ x.at = "carrying"
  /\ host' = [host EXCEPT ![h] =
       IF catalog.entries[x.group] = None THEN Entered(x, Fresh(x))
       ELSE [x EXCEPT !.at = "copying", !.since = clock,
                      !.live = catalog.entries[x.group].generation]]
  /\ UNCHANGED <<clock, catalog, points, made, reader, history>>

Copied(x) ==
  [s \in Sources |-> IF s \in Carried(x, x.group) /\ points[x.live][s] # None
                     THEN x.since ELSE None]

CarryEnds(h) ==
  LET x == host[h] IN
  /\ x.at = "copying"
  /\ points' = [points EXCEPT ![x.generation] = With(@, Copied(x))]
  /\ written' = [written EXCEPT ![x.generation] = With(@, Copied(x))]
  /\ host' = [host EXCEPT ![h] = Entered(x, Fresh(x))]
  /\ UNCHANGED <<clock, catalog, made, reader, loads, late, unsure>>

\* The build of a group throws: its prior entry stays, or it is omitted.  An
\* upsert that failed may have stored its vectors all the same.
BuildFails(h) ==
  LET x == host[h] IN
  /\ x.at \in {"embedding", "carrying", "copying"}
  /\ host' = [host EXCEPT ![h] = Entered(x, x.snap.entries[x.group])]
  /\ \/ UNCHANGED points
     \/ /\ x.at = "embedding"
        /\ points' = [points EXCEPT ![x.generation] = Embedded(x)]
     \/ /\ x.at = "copying"
        /\ points' = [points EXCEPT ![x.generation] = With(@, Copied(x))]
  /\ UNCHANGED <<clock, catalog, made, reader, history>>

\* FAULT: after a commit nothing is discarded.
UnnamedNever(x, new) == {}

\* The generations of an attempt that the catalog it committed does not name.
Unnamed(x, new) == x.built \ Active(new)

\* The finally of attempt(): what is left is discarded, then the load goes on.
Settles(x, then) ==
  IF x.left # {}
  THEN [Ended(x) EXCEPT !.at = "discarding", !.then = then, !.left = x.left,
                        !.attempt = x.attempt, !.built = x.built]
  ELSE IF then = "retry"
  THEN [Ended(x) EXCEPT !.at = "reading", !.attempt = x.attempt + 1]
  ELSE Ended(x)

\* The generations of an attempt with a vector older than OrphanGrace.
LateOf(x) ==
  {n \in x.built : \E s \in Sources :
     written[n][s] # None /\ written[n][s] + OrphanGrace <= clock}

\* publishCatalog() commits, or loses against another commit: the row is read and
\* updated some time after the stamp.
Publish(h) ==
  LET x == host[h]
      new == Published(x.next, x.since)
      done == [x EXCEPT !.left = Unnamed(x, new),
                        !.registered = IF @ = None THEN Listed(new) ELSE @]
      losing == [x EXCEPT !.left = x.built]
  IN
  /\ x.at = "publishing"
  /\ IF Current(x.snap)
     THEN /\ catalog' = new
          /\ late' = late \cup LateOf(x)
          /\ host' = [host EXCEPT ![h] = Settles(done, "end")]
     ELSE /\ host' = [host EXCEPT ![h] =
               Settles(losing, IF x.attempt < MaxAttempts THEN "retry" ELSE "end")]
          /\ UNCHANGED <<catalog, late>>
  /\ UNCHANGED <<clock, points, made, reader, loads, written, unsure>>

\* publishCatalog() throws otherwise; its UPDATE may have been made.
PublishBreaks(h) ==
  LET x == host[h] IN
  /\ x.at = "publishing"
  /\ \/ UNCHANGED <<catalog, late, unsure>>
     \/ /\ Current(x.snap)
        /\ catalog' = Published(x.next, x.since)
        /\ unsure' = unsure \cup x.built
        /\ late' = late \cup LateOf(x)
  /\ host' = [host EXCEPT ![h] = Settles([x EXCEPT !.left = x.built], "end")]
  /\ UNCHANGED <<clock, points, made, reader, loads, written>>

Served(n) == n \in Active(catalog)

\* discardGeneration() never deletes what the catalog names.  No other attempt
\* publishes n, so nothing can name it between the look and the deletion.
Discard(h) ==
  /\ host[h].at = "discarding"
  /\ \E n \in host[h].left :
       /\ IF Served(n) THEN UNCHANGED points ELSE Deleted(n)
       /\ host' = [host EXCEPT ![h] =
            Settles([host[h] EXCEPT !.left = @ \ {n}], host[h].then)]
  /\ UNCHANGED <<clock, catalog, made, reader, history>>

\* A request of the sweep, of the reads or of the clean-up fails: load() throws.
Throws(h) ==
  /\ host[h].at \in {"reclaiming", "pruning", "scanning", "sweeping", "reading",
                     "acquiring", "discarding"}
  /\ host' = [host EXCEPT ![h] = Ended(@)]
  /\ UNCHANGED <<clock, catalog, points, made, reader, history>>

\* The process is gone, and with it the set it had registered.
Crash(h) ==
  /\ host[h] # NoHost
  /\ host' = [host EXCEPT ![h] = NoHost]
  /\ UNCHANGED <<clock, catalog, points, made, reader, history>>

-----------------------------------------------------------------------------
(* query().                                                                *)

\* The stamps of the publishes under way that may still commit.
Stamped ==
  {host[h].since :
     h \in {k \in Hosts : host[k].at = "publishing" /\ Current(host[k].snap)}}

\* activeSnapshot() finds a generation, and it is compatible().  Its grace may be
\* counted from the stamp of a publish that has not made its update yet.
Query(r) ==
  /\ reader[r].at = "idle"
  /\ \E g \in Listed(catalog), t \in Stamped \cup {clock} :
       /\ \A u \in Stamped \cup {clock} : t <= u
       /\ reader' = [reader EXCEPT ![r] = [NoQuery EXCEPT
            !.at = "embedding", !.since = t,
            !.generation = catalog.entries[g].generation]]
  /\ UNCHANGED <<clock, catalog, points, made, host, history>>

\* The query is embedded; the deadline of the search starts only now.
QueryEmbedded(r) ==
  /\ reader[r].at = "embedding"
  /\ reader' = [reader EXCEPT ![r].at = "searching", ![r].called = clock]
  /\ UNCHANGED <<clock, catalog, points, made, host, history>>

\* The hits are returned, or nothing: a deadline, an error.
QueryEnds(r) ==
  /\ reader[r].at # "idle"
  /\ reader' = [reader EXCEPT ![r] = NoQuery]
  /\ UNCHANGED <<clock, catalog, points, made, host, history>>

-----------------------------------------------------------------------------
Tick ==
  /\ clock < MaxClock
  /\ clock' = clock + TickStep
  /\ UNCHANGED <<catalog, points, made, host, reader, history>>

Sweep(h) ==
  LoadBegins(h) \/ DeleteRetired(h) \/ PruneRetired(h) \/ Scan(h) \/ DeleteOrphan(h)

Attempt(h) ==
  \/ ReadPrior(h) \/ Acquired(h) \/ BeginGeneration(h) \/ Upserted(h)
  \/ CarryBegins(h) \/ CarryEnds(h) \/ BuildFails(h)
  \/ Publish(h) \/ PublishBreaks(h) \/ Discard(h)

Recall(r) == Query(r) \/ QueryEmbedded(r) \/ QueryEnds(r)

Next ==
  \/ \E h \in Hosts : Sweep(h) \/ Attempt(h) \/ Throws(h) \/ Crash(h)
  \/ \E r \in Readers : Recall(r)
  \/ Tick

Spec == Init /\ [][Next]_vars

-----------------------------------------------------------------------------
\* The search of a query that may be served by now, although the generation was
\* retired: what came before the search, a publish that was under way when the query
\* read the catalog and the embedding, left room for the deadline in the grace.
Searching(r, n) ==
  LET q == reader[r] IN
  /\ q.at = "searching" /\ q.generation = n
  /\ clock <= q.called + RecallTimeout
  /\ q.called + RecallTimeout < q.since + RetiredGrace

\* "Recall never sees a half-built active generation" (docs/ARCHITECTURE.md): a
\* generation that the catalog names, or that a query still searches, has all its
\* vectors, whatever is published, discarded and swept meanwhile.  Not so if it was
\* activated so late that a sweep could take it for an orphan; and what a publish
\* activated that threw is discarded as soon as it is retired.
ServedWhole ==
  \A n \in Generations \ late :
    n \in Active(catalog) \/ (n \notin unsure /\ \E r \in Readers : Searching(r, n)) =>
      points[n] = written[n]

\* What the sources that failed in a load own, that load leaves in the catalog with
\* its vectors: concurrent loads, failed builds and retries lose no collection.
Commits(h) == host[h].at = "publishing" /\ catalog' # catalog /\ host'[h] # host[h]

FailedSourcesKept ==
  [][\A h \in Hosts : Commits(h) =>
       \A g \in Listed(catalog) :
         LET old == catalog.entries[g]
             kept == old.sources \cap host[h].failed
         IN kept # {} =>
              /\ g \in Listed(catalog')
              /\ LET new == catalog'.entries[g] IN
                 /\ kept \subseteq new.sources
                 /\ \A s \in kept : points[old.generation][s] # None =>
                                      written[new.generation][s] # None]_vars

\* Vectors in the store that neither the catalog nor a load under way knows of.
Stranded(n) ==
  /\ points[n] # NoPoints
  /\ n \notin Active(catalog) \cup Retired(catalog)
  /\ \A h \in Hosts : n \notin host[h].built

\* No load leaves vectors behind that the catalog does not know, whether it commits,
\* loses, or falls back on a prior generation, and no sweep forgets a generation
\* before its vectors are gone: only a crash, or a request that fails while the load
\* cleans up, leaves something to the sweep of orphans.
NothingStranded ==
  [][\A n \in Generations :
       Stranded(n)' /\ ~Stranded(n) => \E h \in Hosts : Throws(h) \/ Crash(h)]_vars
=============================================================================
