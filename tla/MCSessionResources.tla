-------------------------- MODULE MCSessionResources --------------------------
(* Small instances of SessionResources for TLC. *)
EXTENDS SessionResources, TLC

\* Sessions, requests and graphs are interchangeable until the first build, whose
\* three may then be fixed.  (TLC's SYMMETRY is not sound for liveness; a build
\* has no fairness, so that this restriction is.)
FirstBuildFixed ==
  (\A g \in Graphs : graph[g].phase = "unused") =>
    /\ \A g \in Graphs : graph'[g].phase # "unused" =>
         /\ g = CHOOSE h \in Graphs : TRUE
         /\ graph'[g].sid = CHOOSE s \in Sessions : TRUE
    /\ \A r \in Requests : req'[r].pc # "idle" => r = CHOOSE q \in Requests : TRUE
=============================================================================
