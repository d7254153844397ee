--------------------------- MODULE SessionResources ---------------------------
(***************************************************************************)
(* SessionRegistry together with what a session graph owns: the pipeline   *)
(* instance and the MCP clients opened while it is built (SessionGraphFac- *)
(* tory.build(), buildSessionLifecycle(), SmartServer.buildSessionAgent()) *)
(* and closed while it is disposed.                                        *)
(*                                                                         *)
(* The close functions live in two Maps keyed by the session id, not by    *)
(* the graph: closeBySession for the MCP clients, _sessionCloseFns for the *)
(* pipeline.  After a reload two graphs of one session coexist, one        *)
(* draining and one served; each build and each teardown then works on     *)
(* whichever entry it finds.  A build is a sequence of four steps with an  *)
(* await between them, a teardown likewise; steps of different graphs      *)
(* interleave.  The other steps are those of SessionRegistry.              *)
(***************************************************************************)
EXTENDS SessionRegistry

VARIABLES
  mcpClose,     \* closeBySession: session -> graph whose MCP clients it closes
  pipeClose,    \* _sessionCloseFns: session -> graph whose pipeline it closes
  mcpOpen,      \* graphs whose MCP clients are connected
  pipeOpen,     \* graphs whose pipeline instance is open
  step,         \* where the build, then the teardown, of a graph stands
  closing       \* what the step of a graph is awaiting the close of

resources == <<mcpClose, pipeClose, mcpOpen, pipeOpen, step, closing>>
allVars == <<vars, resources>>

BuildSteps == {"hydrating", "assembling", "replacing", "built", "failed"}
TearSteps  == {"collections", "closingMcp", "closingPipeline", "torn"}
Steps      == BuildSteps \cup TearSteps

ResourcesInit ==
  /\ Init
  /\ mcpClose = [s \in Sessions |-> None]
  /\ pipeClose = [s \in Sessions |-> None]
  /\ mcpOpen = {}
  /\ pipeOpen = {}
  /\ step = [g \in Graphs |-> "hydrating"]
  /\ closing = [g \in Graphs |-> None]

-----------------------------------------------------------------------------
At(g, p) == graph[g].phase = "building" /\ step[g] = p

To(g, p) == step' = [step EXCEPT ![g] = p]

\* The session's RAG registry is hydrated; connect its MCP clients, register
\* their close function (over whatever was registered), start on the pipeline.
OpenClients(g) ==
  /\ At(g, "hydrating")
  /\ mcpClose' = [mcpClose EXCEPT ![graph[g].sid] = g]
  /\ mcpOpen' = mcpOpen \cup {g}
  /\ To(g, "assembling")
  /\ UNCHANGED <<vars, pipeClose, pipeOpen, closing>>

\* Hydration or the pipeline's assembly rejects: nothing is closed.
BuildBreaks(g) ==
  /\ At(g, "hydrating") \/ At(g, "assembling")
  /\ To(g, "failed")
  /\ UNCHANGED <<vars, mcpClose, pipeClose, mcpOpen, pipeOpen, closing>>

\* buildSessionAgent(): the pipeline instance exists; the instance registered
\* for the session, if any, is taken out and closed first.
OpenPipeline(g) ==
  LET s == graph[g].sid IN
  /\ At(g, "assembling")
  /\ pipeOpen' = pipeOpen \cup {g}
  /\ IF pipeClose[s] = None
     THEN /\ pipeClose' = [pipeClose EXCEPT ![s] = g]
          /\ To(g, "built")
          /\ UNCHANGED closing
     ELSE /\ closing' = [closing EXCEPT ![g] = pipeClose[s]]
          /\ pipeClose' = [pipeClose EXCEPT ![s] = None]
          /\ To(g, "replacing")
  /\ UNCHANGED <<vars, mcpClose, mcpOpen>>

\* ... and the new one is registered when that close has settled, over
\* whatever was registered meanwhile.
ReplacePipeline(g) ==
  /\ At(g, "replacing")
  /\ pipeOpen' = pipeOpen \ {closing[g]}
  /\ pipeClose' = [pipeClose EXCEPT ![graph[g].sid] = g]
  /\ closing' = [closing EXCEPT ![g] = None]
  /\ To(g, "built")
  /\ UNCHANGED <<vars, mcpClose, mcpOpen>>

\* The build promise settles as the registry sees it.  A graph that is
\* disposed, now or later, starts its teardown from the top.
SettleBuild(g) ==
  /\ \/ At(g, "built") /\ (BuildPublished(g) \/ BuildOrphaned(g))
     \/ At(g, "failed") /\ BuildFails(g)
  /\ To(g, "collections")
  /\ UNCHANGED <<mcpClose, pipeClose, mcpOpen, pipeOpen, closing>>

-----------------------------------------------------------------------------
Tearing(g, p) == g \in tearing /\ step[g] = p

\* FAULT: the whole Map is cleared.
TakenAll(m, s) == [x \in Sessions |-> None]

\* The Map without the entry of s: deleted before the close is awaited.
Taken(m, s) == [m EXCEPT ![s] = None]

\* onDispose(), after closeSession(): take the session's MCP close function.
CloseClients(g) ==
  LET s == graph[g].sid IN
  /\ Tearing(g, "collections")
  /\ closing' = [closing EXCEPT ![g] = mcpClose[s]]
  /\ mcpClose' = Taken(mcpClose, s)
  /\ To(g, "closingMcp")
  /\ UNCHANGED <<vars, pipeClose, mcpOpen, pipeOpen>>

\* The clients are closed; take the session's pipeline close function.
ClosePipeline(g) ==
  LET s == graph[g].sid IN
  /\ Tearing(g, "closingMcp")
  /\ mcpOpen' = mcpOpen \ {closing[g]}
  /\ closing' = [closing EXCEPT ![g] = pipeClose[s]]
  /\ pipeClose' = Taken(pipeClose, s)
  /\ To(g, "closingPipeline")
  /\ UNCHANGED <<vars, mcpClose, pipeOpen>>

\* The pipeline is closed.
PipelineClosed(g) ==
  /\ Tearing(g, "closingPipeline")
  /\ pipeOpen' = pipeOpen \ {closing[g]}
  /\ closing' = [closing EXCEPT ![g] = None]
  /\ To(g, "torn")
  /\ UNCHANGED <<vars, mcpClose, pipeClose, mcpOpen>>

\* dispose() settles.
Torn(g) ==
  /\ Tearing(g, "torn")
  /\ TeardownDone(g)
  /\ UNCHANGED resources

-----------------------------------------------------------------------------
\* A step of the registry that touches none of these.
RegistryStep ==
  /\ \/ \E r \in Requests, s \in Sessions : AcquireHit(r, s) \/ AcquireJoin(r, s)
     \/ \E r \in Requests, s \in Sessions, g \in Graphs : AcquireBuild(r, s, g)
     \/ \E r \in Requests : ResumeAcquire(r) \/ Release(r)
     \/ \E s \in Sessions : EvictOne(s)
     \/ EvictIdle \/ InvalidateAll
     \/ DisposeAllBegin \/ DisposeAllSweep \/ DisposeAllReturn
     \/ Tick
  /\ UNCHANGED resources

BuildStep(g) == \/ OpenClients(g) \/ BuildBreaks(g) \/ OpenPipeline(g)
                \/ ReplacePipeline(g) \/ SettleBuild(g)
TearStep(g)  == CloseClients(g) \/ ClosePipeline(g) \/ PipelineClosed(g) \/ Torn(g)

ResourcesNext == RegistryStep \/ \E g \in Graphs : BuildStep(g) \/ TearStep(g)

\* Promises settle and their continuations run; a request ends (its release is
\* in a finally block); a shutdown that began goes on.  Nothing obliges a
\* client to send a request, an operator to reload, or the clock to advance.
ResourcesFairness ==
  /\ \A g \in Graphs : WF_allVars(BuildStep(g) \/ TearStep(g))
  /\ \A r \in Requests :
       WF_allVars((ResumeAcquire(r) \/ Release(r)) /\ UNCHANGED resources)
  /\ WF_allVars(((closed /\ DisposeAllSweep) \/ DisposeAllReturn) /\ UNCHANGED resources)

ResourcesSpec == ResourcesInit /\ [][ResourcesNext]_allVars /\ ResourcesFairness

-----------------------------------------------------------------------------
ResourcesTypeOK ==
  /\ TypeOK
  /\ mcpClose \in SlotMap
  /\ pipeClose \in SlotMap
  /\ mcpOpen \in SUBSET Graphs
  /\ pipeOpen \in SUBSET Graphs
  /\ step \in [Graphs -> Steps]
  /\ closing \in [Graphs -> Graphs \cup {None}]

\* Another graph of the session of g, under construction or under teardown.
Sibling(g, h) ==
  /\ h # g /\ graph[h].sid = graph[g].sid
  /\ h \in tearing \/ At(h, "replacing")

\* A close function is called once: what is registered is open, and no two
\* teardowns or builds are closing the same clients or the same pipeline.
CloseOnce ==
  /\ \A s \in Sessions : mcpClose[s] # None => mcpClose[s] \in mcpOpen
  /\ \A s \in Sessions : pipeClose[s] # None => pipeClose[s] \in pipeOpen
  /\ \A g, h \in Graphs :
       g # h /\ closing[g] # None /\ closing[g] = closing[h] =>
         (step[g] = "closingMcp") # (step[h] = "closingMcp")

\* Sessions are isolated from each other: a graph that is in use, or may yet be,
\* loses its pipeline or its MCP clients only to another graph of its session.
Loses(g) == g \in (mcpOpen \ mcpOpen') \cup (pipeOpen \ pipeOpen')

OnlySiblingsInterfere ==
  [][\A g \in Graphs :
       Loses(g) /\ (~graph[g].disposed \/ (Pinned(g) /\ ~closed)) =>
         \E h \in Graphs : Sibling(g, h)]_allVars

\* A session that never had two graphs leaks nothing: the teardown of its graph,
\* orphaned or not, frees all the graph opened.
TeardownFrees ==
  \A g \in Graphs :
    /\ graph[g].disposed /\ g \notin tearing
    /\ \A h \in Graphs : graph[h].sid = graph[g].sid => h = g
    => g \notin mcpOpen /\ g \notin pipeOpen

\* A request goes on running on its graph.
RunsOn(r, g) ==
  req[r].pc = "holding" /\ req'[r].pc = "holding" /\ req[r].graph = g /\ ~closed

\* What the registry says of a reload: "the original pinned graph keeps serving
\* its current in-flight request until its last release" (session-registry.ts).
\* It does not hold: the build of the graph that replaces it closes its pipeline.
DrainingKeepsPipeline ==
  [][\A r \in Requests, g \in Detached :
       RunsOn(r, g) /\ g \in pipeOpen => g \in pipeOpen']_allVars

\* What the graph says of eviction: it "cannot dispose a graph mid-run"
\* (session-graph.ts).  It does not hold of the MCP clients the graph is served
\* with: the teardown of the evicted graph it succeeds closes them.
HeldKeepsClients ==
  [][\A r \in Requests, g \in Live :
       RunsOn(r, g) /\ g \in mcpOpen => g \in mcpOpen']_allVars

=============================================================================
