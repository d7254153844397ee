----------------------------- MODULE SessionLease -----------------------------
(***************************************************************************)
(* What the session registry promises its callers, without Maps, builds,   *)
(* counters, marks or timers: a session is served by one graph at a time,  *)
(* a request leases the graph that is being served, and a graph whose time *)
(* has passed is torn down only when no request leases it.                 *)
(***************************************************************************)
CONSTANTS Sessions, Requests, Graphs, None

VARIABLES
  status,   \* the life of every graph
  owner,    \* the session a graph was built for
  lease,    \* the graph each request leases
  open      \* FALSE once the server has swept every graph

lvars == <<status, owner, lease, open>>

Statuses == {"absent", "serving", "retired", "gone"}

Leased(g) == \E r \in Requests : lease[r] = g

LeaseInit ==
  /\ status = [g \in Graphs |-> "absent"]
  /\ owner = [g \in Graphs |-> None]
  /\ lease = [r \in Requests |-> None]
  /\ open = TRUE

\* A graph enters service for a session that has none; the cap may let another
\* one, or this one, go at the same moment.
Serve(g, s) ==
  /\ open
  /\ status[g] = "absent"
  /\ \A h \in Graphs : status[h] = "serving" => owner[h] # s
  /\ owner' = [owner EXCEPT ![g] = s]
  /\ \/ status' = [status EXCEPT ![g] = "serving"]
     \/ status' = [status EXCEPT ![g] = "gone"]
     \/ \E v \in Graphs :
          /\ status[v] = "serving" /\ ~Leased(v)
          /\ status' = [status EXCEPT ![g] = "serving", ![v] = "gone"]
  /\ UNCHANGED <<lease, open>>

\* A request leases the graph that is being served.
Lease(r, g) ==
  /\ open
  /\ lease[r] = None
  /\ status[g] = "serving"
  /\ lease' = [lease EXCEPT ![r] = g]
  /\ UNCHANGED <<status, owner, open>>

\* A request ends; its graph may be torn down with the last lease.
Return(r) ==
  LET g == lease[r] IN
  /\ g # None
  /\ lease' = [lease EXCEPT ![r] = None]
  /\ \/ UNCHANGED status
     \/ /\ \A q \in Requests : lease[q] = g => q = r
        /\ status' = [status EXCEPT ![g] = "gone"]
  /\ UNCHANGED <<owner, open>>

\* Some graphs leave service; those that are leased live on, the others go.
Retire(S) ==
  /\ S # {}
  /\ \A g \in S : status[g] = "serving"
  /\ status' = [g \in Graphs |->
                  IF g \notin S THEN status[g]
                  ELSE IF Leased(g) THEN "retired" ELSE "gone"]
  /\ UNCHANGED <<owner, lease, open>>

\* A build nobody may be served is thrown away.
Discard(g, s) ==
  /\ status[g] = "absent"
  /\ status' = [status EXCEPT ![g] = "gone"]
  /\ owner' = [owner EXCEPT ![g] = s]
  /\ UNCHANGED <<lease, open>>

\* The server closes: no graph is spared, but for those a second reload made it
\* lose sight of, which go with their last lease.
Close ==
  /\ open
  /\ open' = FALSE
  /\ \E S \in SUBSET {g \in Graphs : status[g] = "retired" /\ Leased(g)} :
       status' = [g \in Graphs |->
                    IF status[g] \in {"serving", "retired"} /\ g \notin S
                    THEN "gone" ELSE status[g]]
  /\ UNCHANGED <<owner, lease>>

LeaseNext ==
  \/ \E g \in Graphs, s \in Sessions : Serve(g, s) \/ Discard(g, s)
  \/ \E r \in Requests, g \in Graphs : Lease(r, g)
  \/ \E r \in Requests : Return(r)
  \/ \E S \in SUBSET Graphs : Retire(S)
  \/ Close

LeaseSpec == LeaseInit /\ [][LeaseNext]_lvars
=============================================================================
