------------------------------ MODULE MCQuotaGate ------------------------------
(***************************************************************************)
(* Small instances of QuotaGate for TLC.  No symmetry: the run checks a    *)
(* liveness property.                                                      *)
(***************************************************************************)
EXTENDS QuotaGate, TLC
=============================================================================
