------------------------------- MODULE QuotaGate -------------------------------
(***************************************************************************)
(* The throttle of the LLM providers (throttle.ts): a registry of gates,   *)
(* one per quota, the calls that lease them, and the retry loop around a   *)
(* request.                                                                *)
(*                                                                         *)
(* Time is kept as what is left: an entry holds what remains of its pause  *)
(* and how long ago it was used, where the code holds the two instants. A  *)
(* gate nobody refers to can be minted again, so nothing here is bounded   *)
(* but the number of keys and calls.  A call runs without interruption     *)
(* from one await (a sleep, a transient delay, the request) to the next;   *)
(* replies and timers come one per turn of the event loop.                 *)
(*                                                                         *)
(* A definition whose comment starts with FAULT is a slip the code could   *)
(* have, used in place of the definition after it to show that a property  *)
(* notices.                                                                *)
(***************************************************************************)
EXTENDS Integers, FiniteSets

CONSTANTS
  Keys,            \* quotas: endpoint, account, model
  Calls,           \* calls of runWithThrottleRetry() that may be under way
  Gates,           \* QuotaGate objects
  None,            \* no entry
  GateLimit,       \* GATE_LIMIT
  IdleTtl,         \* GATE_IDLE_TTL_MS
  Intervals,       \* what Retry-After may name, 0 when it names nothing
  Strategies,      \* strategies in use: "report", "wait", "own"
  MaxAttempts,     \* WaitAsTold.maxAttempts
  MaxTransient     \* opts.transient.maxRetries

ASSUME QuotaAssumption ==
  /\ None \notin Gates \cup Keys /\ IsFiniteSet(Calls)
  /\ GateLimit \in Nat \ {0} /\ IdleTtl \in Nat
  /\ Intervals \subseteq Nat /\ 0 \in Intervals
  /\ Strategies \subseteq {"report", "wait", "own"}
  /\ MaxAttempts \in Nat \ {0} /\ MaxTransient \in Nat

VARIABLES
  gates,    \* the registry: the gate of each key
  entry,    \* each gate with its registry entry: left, age, leases
  call      \* where each call stands

vars == <<gates, entry, call>>

-----------------------------------------------------------------------------
NoCall == [at |-> "out", key |-> None, gate |-> None, strategy |-> "report",
           attempt |-> 0, transients |-> 0, timer |-> 0]

NewEntry == [left |-> 0, age |-> 0, leases |-> 0]

Init ==
  /\ gates = [k \in Keys |-> None]
  /\ entry = [g \in Gates |-> NewEntry]
  /\ call = [c \in Calls |-> NoCall]

Tracked == {k \in Keys : gates[k] # None}

Under(c) == call[c].at # "out"

Longer(a, b) == IF a < b THEN b ELSE a

IsShut(g) == entry[g].left > 0

-----------------------------------------------------------------------------
\* The registry.

\* FAULT: a gate that holds a pause may be forgotten.
EvictableIfFree(g) == entry[g].leases = 0

Evictable(g) == entry[g].leases = 0 /\ ~IsShut(g)

Stale(g) == Evictable(g) /\ entry[g].age > IdleTtl

StaleKeys == {k \in Tracked : Stale(gates[k])}

PruneQuotaGates ==
  /\ StaleKeys # {}
  /\ gates' = [k \in Keys |-> IF k \in StaleKeys THEN None ELSE gates[k]]
  /\ UNCHANGED <<entry, call>>

\* FAULT: the new gate is not counted.
CrowdedLate(n) == n > GateLimit

Crowded(n) == n >= GateLimit

\* reclaimGates(): the sets of keys it may drop.  Stale ones go first, then the
\* least recently used open ones, oldest first, until there is room.
Reclaimed ==
  LET rest == {k \in Tracked \ StaleKeys : Evictable(gates[k])}
      over == Cardinality(Tracked \ StaleKeys) - GateLimit + 1
      n    == IF over < Cardinality(rest) THEN over ELSE Cardinality(rest)
  IN
  IF ~Crowded(Cardinality(Tracked)) THEN {{}}
  ELSE IF ~Crowded(Cardinality(Tracked \ StaleKeys)) THEN {StaleKeys}
  ELSE {StaleKeys \cup E : E \in
          {X \in SUBSET rest :
             /\ Cardinality(X) = n
             /\ \A x \in X, y \in rest \ X :
                  entry[gates[x]].age >= entry[gates[y]].age}}

\* Objects nobody refers to.
Unused ==
  Gates \ ({gates[k] : k \in Tracked} \cup {call[c].gate : c \in Calls})

-----------------------------------------------------------------------------
\* The strategies: what each may decide of a refusal, or of a gate found shut.
Report(ms) == {[wait |-> ms, retry |-> FALSE]}

WaitAsTold(n, ms) == {[wait |-> ms, retry |-> ms > 0 /\ n < MaxAttempts]}

Own == [wait : Intervals, retry : BOOLEAN]

Decide(s, n, ms) ==
  CASE s = "report" -> Report(ms)
    [] s = "wait"   -> WaitAsTold(n, ms)
    [] s = "own"    -> Own

-----------------------------------------------------------------------------
\* The calls.

\* FAULT: a second release() takes another lease back.
ReturnedTwice(n) == IF n > 1 THEN n - 2 ELSE 0

Returned(n) == n - 1

\* The `finally` of runWithThrottleRetry(), on the entry e.
Release(e) == [e EXCEPT !.leases = Returned(@), !.age = 0]

Leave(c) ==
  /\ call' = [call EXCEPT ![c] = NoCall]
  /\ entry' = [entry EXCEPT ![call[c].gate] = Release(@)]
  /\ UNCHANGED gates

\* leaseQuotaGate() by a call with strategy s, which then is at p.
Begin(c, k, g, s, p) ==
  call' = [call EXCEPT ![c] =
             [NoCall EXCEPT !.at = p, !.key = k, !.gate = g, !.strategy = s,
                            !.timer = IF p = "sleeping" THEN entry[g].left
                                                        ELSE 0]]

Lease(e) == [e EXCEPT !.leases = @ + 1, !.age = 0]

\* The key has no gate: one is minted, after a reclaim, and it is open.
EnterNew(c, k, s) ==
  /\ ~Under(c) /\ gates[k] = None
  /\ \E D \in Reclaimed, g \in Unused :
       /\ gates' = [x \in Keys |-> IF x = k THEN g
                                   ELSE IF x \in D THEN None ELSE gates[x]]
       /\ entry' = [entry EXCEPT ![g] = Lease(NewEntry)]
       /\ Begin(c, k, g, s, "sending")

EnterOpen(c, k, s) ==
  /\ ~Under(c) /\ gates[k] # None /\ ~IsShut(gates[k])
  /\ entry' = [entry EXCEPT ![gates[k]] = Lease(@)]
  /\ Begin(c, k, gates[k], s, "sending")
  /\ UNCHANGED gates

\* The gate is shut: the strategy says whether to sit it out; if not, the call
\* ends with the interval.
EnterShut(c, k, s) ==
  LET g == gates[k] IN
  /\ ~Under(c) /\ g # None /\ IsShut(g)
  /\ \E d \in Decide(s, 0, entry[g].left) :
       IF d.retry
       THEN /\ entry' = [entry EXCEPT ![g] = Lease(@)]
            /\ Begin(c, k, g, s, "sleeping")
       ELSE /\ entry' = [entry EXCEPT ![g] = Release(Lease(@))]
            /\ UNCHANGED call
  /\ UNCHANGED gates

\* The request is answered, or fails with an error that is not retried.
Answered(c) == call[c].at = "sending" /\ Leave(c)

\* The server refuses: the pause is recorded whether or not the call goes on.
Refused(c, ms) ==
  LET g == call[c].gate
      n == call[c].attempt + 1
  IN
  /\ call[c].at = "sending"
  /\ \E d \in Decide(call[c].strategy, n, ms) :
     LET left == Longer(entry[g].left, d.wait)
         e    == [entry[g] EXCEPT !.left = left]
     IN
     IF d.retry
     THEN /\ entry' = [entry EXCEPT ![g] = e]
          /\ call' = [call EXCEPT
               ![c].at = IF left > 0 THEN "sleeping" ELSE "sending",
               ![c].timer = left,
               ![c].attempt = IF n < MaxAttempts THEN n ELSE MaxAttempts]
     ELSE /\ entry' = [entry EXCEPT ![g] = Release(e)]
          /\ call' = [call EXCEPT ![c] = NoCall]
  /\ UNCHANGED gates

\* Another failure, retried within the same loop.
TransientFailure(c) ==
  /\ call[c].at = "sending" /\ call[c].transients < MaxTransient
  /\ call' = [call EXCEPT ![c].at = "pausing", ![c].transients = @ + 1]
  /\ UNCHANGED <<gates, entry>>

\* Its delay is over, and the loop meets the gate again.
RetryOpen(c) ==
  /\ call[c].at = "pausing" /\ ~IsShut(call[c].gate)
  /\ call' = [call EXCEPT ![c].at = "sending"]
  /\ UNCHANGED <<gates, entry>>

RetryShut(c) ==
  LET left == entry[call[c].gate].left IN
  /\ call[c].at = "pausing" /\ left > 0
  /\ \E d \in Decide(call[c].strategy, call[c].attempt, left) :
       IF d.retry
       THEN /\ call' = [call EXCEPT ![c].at = "sleeping", ![c].timer = left]
            /\ UNCHANGED <<gates, entry>>
       ELSE Leave(c)

\* FAULT: the gate is taken to be open on waking.
NeverShut(g) == FALSE

\* waitUntilOpen(): the hold is looked at again after every sleep.
StillShut(g) == IsShut(g)

Wake(c) ==
  LET g == call[c].gate IN
  /\ call[c].at = "sleeping" /\ call[c].timer = 0
  /\ call' = [call EXCEPT ![c].at = IF StillShut(g) THEN "sleeping" ELSE "sending",
                          ![c].timer = IF StillShut(g) THEN entry[g].left ELSE 0]
  /\ UNCHANGED <<gates, entry>>

\* The signal of a caller that waits is aborted.
Abort(c) == call[c].at \in {"sleeping", "pausing"} /\ Leave(c)

Less(n) == IF n > 0 THEN n - 1 ELSE 0

\* Time passes.  Ages past the TTL are all the same.
Tick ==
  /\ entry' = [g \in Gates |->
       [entry[g] EXCEPT !.left = Less(@),
                        !.age = IF @ > IdleTtl THEN @ ELSE @ + 1]]
  /\ call' = [c \in Calls |-> [call[c] EXCEPT !.timer = IF @ > 0 THEN @ - 1 ELSE 0]]
  /\ UNCHANGED gates

Next ==
  \/ \E c \in Calls, k \in Keys, s \in Strategies :
       EnterNew(c, k, s) \/ EnterOpen(c, k, s) \/ EnterShut(c, k, s)
  \/ \E c \in Calls, ms \in Intervals : Refused(c, ms)
  \/ \E c \in Calls : \/ Answered(c) \/ TransientFailure(c)
                      \/ RetryOpen(c) \/ RetryShut(c)
                      \/ Wake(c) \/ Abort(c)
  \/ PruneQuotaGates
  \/ Tick

Spec == Init /\ [][Next]_vars

\* Time passes; nobody else owes anything.
FairSpec == Spec /\ WF_vars(Tick)

-----------------------------------------------------------------------------
EntryRecord == [left : Nat, age : Nat, leases : Nat]

CallRecord ==
  [at : {"out", "sending", "sleeping", "pausing"}, key : Keys \cup {None},
   gate : Gates \cup {None}, strategy : {"report", "wait", "own"},
   attempt : Nat, transients : Nat, timer : Nat]

QuotaTypeOK ==
  /\ gates \in [Keys -> Gates \cup {None}]
  /\ entry \in [Gates -> EntryRecord]
  /\ call \in [Calls -> CallRecord]

\* However long a call takes and whatever is minted meanwhile, the gate it will
\* penalise is the one the next caller of the key is handed.
LeasedIsRegistered ==
  \A c \in Calls : Under(c) => gates[call[c].key] = call[c].gate

\* A lease is counted for as long as its call is under way, so a gate is neither
\* evicted under a call nor kept for ever after it.
LeasesExact ==
  \A g \in Gates :
    entry[g].leases = Cardinality({c \in Calls : Under(c) /\ call[c].gate = g})

\* The registry outgrows its limit only by gates that are all load-bearing, and
\* gives up a recent gate only when it has to.
LimitHolds ==
  [][\A k \in Keys :
       /\ gates[k] = None /\ gates'[k] # None =>
            \/ Cardinality(Tracked') <= GateLimit
            \/ \A x \in Tracked' \ {k} : ~Evictable(gates[x])
       /\ gates[k] # None /\ gates'[k] = None =>
            Stale(gates[k]) \/ Cardinality(Tracked') >= GateLimit]_vars

\* No request is spent on a quota that somebody was told is shut, whatever is
\* evicted, minted, slept through or extended meanwhile.
Promise == INSTANCE Quota WITH
  Quotas  <- Keys,
  Clients <- Calls,
  Delays  <- Intervals,
  Nobody  <- None,
  shut    <- [k \in Keys |-> IF gates[k] = None THEN 0 ELSE entry[gates[k]].left],
  asking  <- [c \in Calls |-> IF call[c].at = "sending" THEN call[c].key ELSE None]

ImplementsQuota == Promise!QuotaSpec

\* A quota that is shut opens: those who wait for it cannot, between them, keep
\* it shut by asking again.
HoldsEnd == \A g \in Gates : IsShut(g) ~> ~IsShut(g)

=============================================================================
