--------------------------- MODULE MCWorkerRegistry ---------------------------
(* Small instances of WorkerRegistry for TLC. *)
EXTENDS WorkerRegistry, TLC

CONSTANTS w1, w2

TwoWorkers == <<w1, w2>>

\* Builds are interchangeable; the workers are not, they are built in order.
Symmetry == Permutations(Builds)
=============================================================================
