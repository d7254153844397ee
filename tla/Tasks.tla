-------------------------------- MODULE Tasks --------------------------------
(***************************************************************************)
(* What a task board promises of its tasks: each is queued, may run, and   *)
(* settles once, with one terminal event.  How slots, stops, the hard stop *)
(* and the write of the result decide the outcome is TaskBoard's.          *)
(***************************************************************************)
EXTENDS Integers

CONSTANT Tasks

VARIABLES
  state,    \* TaskRecord.state, "none" before the task exists
  told      \* the terminal events emitted

taskVars == <<state, told>>

Outcomes == {"done", "failed", "stopped", "interrupted"}
Active(t) == state[t] \in {"queued", "running"}

TasksTypeOK ==
  /\ state \in [Tasks -> {"none", "queued", "running"} \cup Outcomes]
  /\ told \in [Tasks -> Nat]

TasksInit ==
  /\ state = [t \in Tasks |-> "none"]
  /\ told = [t \in Tasks |-> 0]

Queue(t) ==
  /\ state[t] = "none"
  /\ state' = [state EXCEPT ![t] = "queued"]
  /\ UNCHANGED told

Run(t) ==
  /\ state[t] = "queued"
  /\ state' = [state EXCEPT ![t] = "running"]
  /\ UNCHANGED told

Settle(t, outcome) ==
  /\ \/ state[t] = "queued" /\ outcome = "stopped"
     \/ state[t] = "running"
  /\ state' = [state EXCEPT ![t] = outcome]
  /\ told' = [told EXCEPT ![t] = @ + 1]

\* stopAll(): every queued task settles in one step.
StopQueued ==
  LET Q == {t \in Tasks : state[t] = "queued"} IN
  /\ state' = [t \in Tasks |-> IF t \in Q THEN "stopped" ELSE state[t]]
  /\ told' = [t \in Tasks |-> IF t \in Q THEN told[t] + 1 ELSE told[t]]

TasksNext ==
  \/ \E t \in Tasks : Queue(t) \/ Run(t) \/ \E o \in Outcomes : Settle(t, o)
  \/ StopQueued

TasksSpec == TasksInit /\ [][TasksNext]_taskVars
=============================================================================
