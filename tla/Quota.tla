--------------------------------- MODULE Quota ---------------------------------
(***************************************************************************)
(* What the throttle promises about the quotas of a process, without a     *)
(* registry, leases, timers or strategies: a refusal shuts its quota for   *)
(* everyone, for as long as was said or longer, and no request is spent on *)
(* a quota that is known to be shut.                                       *)
(***************************************************************************)
EXTENDS Naturals

CONSTANTS
  Quotas,     \* what is metered
  Clients,    \* who calls
  Delays,     \* the delays a refusal names
  Nobody      \* no quota

VARIABLES
  shut,       \* how much longer each quota is shut
  asking      \* the quota each client has a request in flight on

qvars == <<shut, asking>>

QuotaInit ==
  /\ shut = [q \in Quotas |-> 0]
  /\ asking = [c \in Clients |-> Nobody]

Ask(c, q) ==
  /\ asking[c] = Nobody /\ shut[q] = 0
  /\ asking' = [asking EXCEPT ![c] = q]
  /\ UNCHANGED shut

Served(c) ==
  /\ asking[c] # Nobody
  /\ asking' = [asking EXCEPT ![c] = Nobody]
  /\ UNCHANGED shut

TurnedDown(c, d) ==
  /\ asking[c] # Nobody
  /\ asking' = [asking EXCEPT ![c] = Nobody]
  /\ shut' = [shut EXCEPT ![asking[c]] = IF @ < d THEN d ELSE @]

TimePasses ==
  /\ shut' = [q \in Quotas |-> IF shut[q] = 0 THEN 0 ELSE shut[q] - 1]
  /\ UNCHANGED asking

QuotaNext ==
  \/ \E c \in Clients, q \in Quotas : Ask(c, q)
  \/ \E c \in Clients : Served(c)
  \/ \E c \in Clients, d \in Delays : TurnedDown(c, d)
  \/ TimePasses

QuotaSpec == QuotaInit /\ [][QuotaNext]_qvars
=============================================================================
