------------------------------- MODULE RunLedger -------------------------------
(***************************************************************************)
(* What the controller promises of the runs of a session, without bundles, *)
(* phases, budgets or crashes: one run is worked on at a time, its steps   *)
(* are accepted in order and each once, and its outcome is stored once and *)
(* stands until it is forgotten.                                           *)
(***************************************************************************)
EXTENDS Naturals, FiniteSets

CONSTANTS
  Runs,       \* run ids, in the order they are minted
  Attempts    \* the attempts a step may take

VARIABLES
  current,    \* the run that is worked on, 0 before the first
  accepted,   \* the accepted steps of each run: <<seq, attempt>>
  outcome     \* the stored outcome of each run

rvars == <<current, accepted, outcome>>

LedgerInit ==
  /\ current = 0
  /\ accepted = [r \in Runs |-> {}]
  /\ outcome = [r \in Runs |-> "none"]

\* A new run takes the place of the current one, for good.
Supersede ==
  /\ current + 1 \in Runs
  /\ current' = current + 1
  /\ UNCHANGED <<accepted, outcome>>

Open(r) == outcome[r] \notin {"success", "error"}

\* The next step of the current run is accepted, as the result of one attempt.
Accept(a) ==
  /\ current # 0 /\ Open(current)
  /\ accepted' = [accepted EXCEPT ![current] = @ \cup {<<Cardinality(@), a>>}]
  /\ UNCHANGED <<current, outcome>>

\* The current run gets its outcome.
Finish(o) ==
  /\ current # 0 /\ Open(current)
  /\ outcome' = [outcome EXCEPT ![current] = o]
  /\ UNCHANGED <<current, accepted>>

\* An outcome is forgotten.
Forget(r) ==
  /\ ~Open(r)
  /\ outcome' = [outcome EXCEPT ![r] = "expired"]
  /\ UNCHANGED <<current, accepted>>

LedgerNext ==
  \/ Supersede
  \/ \E a \in Attempts : Accept(a)
  \/ \E o \in {"success", "error"} : Finish(o)
  \/ \E r \in Runs : Forget(r)

LedgerSpec == LedgerInit /\ [][LedgerNext]_rvars
=============================================================================
