-------------------------- MODULE MCSessionRegistry --------------------------
(* Small instances of SessionRegistry for TLC. *)
EXTENDS SessionRegistry, TLC

\* Sessions, requests and graphs are interchangeable in the safety properties.
Symmetric ==
  Permutations(Sessions) \cup Permutations(Requests) \cup Permutations(Graphs)
=============================================================================
