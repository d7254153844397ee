------------------------- MODULE DialogueSessionProofs -------------------------
(***************************************************************************)
(* DialogueSession for every set of tasks, every plan and every number of  *)
(* messages, corrections and calls of the host: what a plan takes for      *)
(* evidence, where outcomes and results go, and what close() leaves.       *)
(***************************************************************************)
EXTENDS DialogueSession, FiniteSetTheorems, TLAPS

-----------------------------------------------------------------------------
(* Types.                                                                  *)

PlanRecord == [status : {"active", "waiting_user", "done"}, steps : [Steps -> StepType]]

Plans == {NoPlan} \cup PlanRecord

TurnRecord ==
  [at : {"idle", "call", "saving"}, user : BOOLEAN, correction : Nat,
   first : BOOLEAN, started : BOOLEAN, read : BOOLEAN, waiting : BOOLEAN,
   given : [Tasks -> Nat], delivered : BOOLEAN]

InboxRecord ==
  [users : Nat, sent : Nat, events : SUBSET Tasks, deferred : SUBSET Tasks,
   external : BOOLEAN, active : BOOLEAN]

SlotRecord == [at : {"free", "resolving", "read"}, sources : SUBSET Tasks]

CallsRecord ==
  [step : [Steps \cup {NoStep} -> SlotRecord],
   author : [at : {"free", "asked"}, was : Plans],
   deliver : [Tasks -> Nat], host : {"no", "one", "used", "saving"},
   going : BOOLEAN]

SavedRecord == [queued : BOOLEAN, flying : BOOLEAN, row : BOOLEAN]

Typed ==
  /\ state \in [Tasks -> {"none", "queued", "running"} \cup Outcomes]
  /\ stepOf \in [Tasks -> Steps \cup {NoStep}]
  /\ plan \in Plans
  /\ turn \in TurnRecord
  /\ inbox \in InboxRecord
  /\ calls \in CallsRecord
  /\ saved \in SavedRecord
  /\ session \in {"open", "closing", "closed"}
  /\ shown \in [Tasks -> Nat]

-----------------------------------------------------------------------------
(* The records and what the code does to them.                             *)

LEMMA TurnMoves ==
  ASSUME NEW x \in TurnRecord, NEW a \in {"idle", "call", "saving"},
         NEW u \in BOOLEAN, NEW f \in BOOLEAN, NEW w \in BOOLEAN,
         NEW n \in Nat
  PROVE  /\ [x EXCEPT !.read = FALSE] \in TurnRecord
         /\ [x EXCEPT !.first = FALSE] \in TurnRecord
         /\ [x EXCEPT !.at = a] \in TurnRecord
         /\ [x EXCEPT !.at = a, !.user = u, !.first = f] \in TurnRecord
         /\ [x EXCEPT !.correction = n, !.delivered = FALSE, !.first = FALSE]
              \in TurnRecord
         /\ [x EXCEPT !.started = u] \in TurnRecord
         /\ [x EXCEPT !.waiting = w, !.read = TRUE] \in TurnRecord
  BY Zenon DEF TurnRecord

LEMMA GivenMoves ==
  ASSUME NEW x \in TurnRecord, NEW t \in Tasks, NEW n \in Nat
  PROVE  [x EXCEPT !.given[t] = n, !.delivered = TRUE] \in TurnRecord
<1>1. [x.given EXCEPT ![t] = n] \in [Tasks -> Nat]
  BY DEF TurnRecord
<1> QED
  BY <1>1, Zenon DEF TurnRecord

LEMMA NoTurnTyped ==
  NoTurn \in TurnRecord /\ NoTurn.at = "idle" /\ NoTurn.given = NoneGiven
<1>1. NoneGiven \in [Tasks -> Nat]
  BY DEF NoneGiven
<1> QED
  BY <1>1 DEF NoTurn, TurnRecord

LEMMA InboxMoves ==
  ASSUME NEW x \in InboxRecord, NEW a \in BOOLEAN, NEW n \in Nat, NEW m \in Nat,
         NEW E \in SUBSET Tasks
  PROVE  /\ [x EXCEPT !.active = a] \in InboxRecord
         /\ [x EXCEPT !.deferred = E] \in InboxRecord
         /\ [x EXCEPT !.events = E] \in InboxRecord
         /\ [x EXCEPT !.external = a] \in InboxRecord
         /\ [x EXCEPT !.users = n, !.sent = m, !.external = FALSE] \in InboxRecord
         /\ [x EXCEPT !.users = n, !.deferred = E] \in InboxRecord
         /\ [x EXCEPT !.users = n, !.events = E, !.deferred = E] \in InboxRecord
  BY Zenon DEF InboxRecord

LEMMA CallsMoves ==
  ASSUME NEW x \in CallsRecord, NEW s \in Steps \cup {NoStep}, NEW f \in SlotRecord,
         NEW a \in [at : {"free", "asked"}, was : Plans]
  PROVE  /\ [x EXCEPT !.step[s] = f] \in CallsRecord
         /\ [x EXCEPT !.author = a] \in CallsRecord
<1>1. [x.step EXCEPT ![s] = f] \in [Steps \cup {NoStep} -> SlotRecord]
  BY DEF CallsRecord
<1> QED
  BY <1>1, Zenon DEF CallsRecord

LEMMA DeliverMoves ==
  ASSUME NEW x \in CallsRecord, NEW t \in Tasks, NEW n \in Nat
  PROVE  [x EXCEPT !.deliver[t] = n] \in CallsRecord
<1>1. [x.deliver EXCEPT ![t] = n] \in [Tasks -> Nat]
  BY DEF CallsRecord
<1> QED
  BY <1>1, Zenon DEF CallsRecord

LEMMA HostMoves ==
  ASSUME NEW x \in CallsRecord, NEW g \in BOOLEAN,
         NEW h \in {"no", "one", "used", "saving"}
  PROVE  /\ [x EXCEPT !.host = h] \in CallsRecord
         /\ [x EXCEPT !.going = g] \in CallsRecord
  BY Zenon DEF CallsRecord

LEMMA SavedMoves ==
  ASSUME NEW x \in SavedRecord, NEW a \in BOOLEAN, NEW b \in BOOLEAN
  PROVE  /\ [x EXCEPT !.queued = a] \in SavedRecord
         /\ [x EXCEPT !.queued = a, !.flying = b] \in SavedRecord
         /\ [x EXCEPT !.flying = a, !.row = b] \in SavedRecord
         /\ [x EXCEPT !.row = a] \in SavedRecord
  BY Zenon DEF SavedRecord

LEMMA Scheduling ==
  ASSUME NEW i \in InboxRecord
  PROVE  /\ scheduled(i) \in InboxRecord
         /\ scheduled(i).users = i.users /\ scheduled(i).events = i.events
         /\ scheduled(i).deferred = i.deferred /\ scheduled(i).external = i.external
         /\ scheduled(i).active <=>
              \/ i.active
              \/ session = "open" /\ calls.host = "no" /\ (i.users > 0 \/ ~i.external)
<1> DEFINE b == i.active \/ (session = "open" /\ calls.host = "no"
                                /\ (i.users > 0 \/ ~i.external))
<1>1. b \in BOOLEAN
  OBVIOUS
<1>2. scheduled(i) = [i EXCEPT !.active = b]
  BY Zenon DEF scheduled
<1> HIDE DEF b
<1>3. scheduled(i) \in InboxRecord
  BY <1>1, <1>2, InboxMoves
<1>4. /\ scheduled(i).users = i.users /\ scheduled(i).events = i.events
      /\ scheduled(i).deferred = i.deferred /\ scheduled(i).external = i.external
      /\ scheduled(i).active = b
  BY <1>2 DEF InboxRecord
<1> QED
  BY <1>3, <1>4 DEF b

LEMMA Enqueuing ==
  ASSUME NEW i \in InboxRecord, NEW t \in Tasks
  PROVE  /\ Enqueued(i, t) \in InboxRecord
         /\ Enqueued(i, t).users = i.users /\ Enqueued(i, t).active = i.active
         /\ Enqueued(i, t).external = i.external
         /\ i.external => /\ Enqueued(i, t).deferred = i.deferred \cup {t}
                          /\ Enqueued(i, t).events = i.events
         /\ ~i.external => /\ Enqueued(i, t).events = i.events \cup {t}
                           /\ Enqueued(i, t).deferred = i.deferred
<1>1. i.deferred \cup {t} \in SUBSET Tasks /\ i.events \cup {t} \in SUBSET Tasks
  BY DEF InboxRecord
<1>2. Enqueued(i, t) \in InboxRecord
  BY <1>1, InboxMoves DEF Enqueued
<1> QED
  BY <1>2 DEF Enqueued, InboxRecord

LEMMA Coming ==
  ASSUME NEW i \in InboxRecord
  PROVE  /\ CameMeanwhile(i) \in InboxRecord
         /\ CameMeanwhile(i).users = i.users /\ CameMeanwhile(i).events = i.events
         /\ CameMeanwhile(i).deferred = i.deferred
         /\ CameMeanwhile(i).external = i.external
         /\ CameMeanwhile(i).active <=>
              i.active \/ (session = "open" /\ i.users > 0)
<1> DEFINE b == i.active \/ (session = "open" /\ i.users > 0)
<1>1. b \in BOOLEAN
  OBVIOUS
<1>2. CameMeanwhile(i) = [i EXCEPT !.active = b]
  BY Zenon DEF CameMeanwhile
<1> HIDE DEF b
<1>3. CameMeanwhile(i) \in InboxRecord
  BY <1>1, <1>2, InboxMoves
<1>4. /\ CameMeanwhile(i).users = i.users /\ CameMeanwhile(i).events = i.events
      /\ CameMeanwhile(i).deferred = i.deferred
      /\ CameMeanwhile(i).external = i.external
      /\ CameMeanwhile(i).active = b
  BY <1>2 DEF InboxRecord
<1> QED
  BY <1>3, <1>4 DEF b

LEMMA Persisting ==
  ASSUME NEW v \in SavedRecord
  PROVE  /\ Persist(v) \in SavedRecord
         /\ session # "open" => Persist(v) = v
<1> DEFINE b == v.queued \/ session = "open"
<1>1. b \in BOOLEAN
  OBVIOUS
<1>2. Persist(v) = [v EXCEPT !.queued = b]
  BY Zenon DEF Persist
<1>3. session # "open" => b = v.queued
  BY DEF SavedRecord
<1> HIDE DEF b
<1>4. [v EXCEPT !.queued = v.queued] = v
  BY DEF SavedRecord
<1> QED
  BY <1>1, <1>2, <1>3, <1>4, SavedMoves

\* A tool call that goes on leaves everything but `going` as it was.
LEMMA GoingOn ==
  ASSUME NEW c \in CallsRecord
  PROVE  /\ WentOn(c) \in CallsRecord
         /\ WentOn(c).step = c.step /\ WentOn(c).author = c.author
         /\ WentOn(c).deliver = c.deliver /\ WentOn(c).host = c.host
         /\ NoneInFlight(WentOn(c)) <=> NoneInFlight(c)
<1> DEFINE b == ~NoneInFlight(c)
<1>1. b \in BOOLEAN
  OBVIOUS
<1>2. WentOn(c) = [c EXCEPT !.going = b]
  BY Zenon DEF WentOn
<1> HIDE DEF b
<1>3. WentOn(c) \in CallsRecord
  BY <1>1, <1>2, HostMoves
<1>4. /\ WentOn(c).step = c.step /\ WentOn(c).author = c.author
      /\ WentOn(c).deliver = c.deliver /\ WentOn(c).host = c.host
  BY <1>2 DEF CallsRecord
<1> QED
  BY <1>3, <1>4 DEF NoneInFlight

LEMMA Calling ==
  ASSUME NEW c \in CallsRecord
  PROVE  /\ Called(c) \in CallsRecord
         /\ Called(c).step = c.step /\ Called(c).author = c.author
         /\ Called(c).deliver = c.deliver
         /\ Called(c).host = IF c.host = "one" THEN "used" ELSE c.host
         /\ NoneInFlight(Called(c)) <=> NoneInFlight(c)
<1>1. Called(c) \in CallsRecord
  BY HostMoves DEF Called
<1>2. /\ Called(c).step = c.step /\ Called(c).author = c.author
      /\ Called(c).deliver = c.deliver
      /\ Called(c).host = IF c.host = "one" THEN "used" ELSE c.host
  BY DEF Called, CallsRecord
<1> QED
  BY <1>1, <1>2 DEF NoneInFlight

-----------------------------------------------------------------------------
(* The inductive invariant.                                                *)

\* What a step of a plan is, in the states S of the tasks.
StepSound(x, S) ==
  /\ x.state = "done" => x.work # NoTask /\ x.success = x.work
  /\ x.state = "running" => x.work # NoTask
  /\ x.success # NoTask => S[x.success] = "done"
  /\ \A t \in x.ids : S[t] # "none"
  /\ \A t, u \in x.ids :
       S[t] \in {"queued", "running"} /\ S[u] \in {"queued", "running"} => t = u

CheckSound(p, s) ==
  s \in Checks /\ p.steps[s].state = "done" =>
    \A d \in DependsOn[s] :
      p.steps[d].success # NoTask => p.steps[d].success \in p.steps[s].checked

PlanSound(p, S) ==
  p # NoPlan => \A s \in Steps : StepSound(p.steps[s], S) /\ CheckSound(p, s)

Reserved ==
  \A s \in Steps : calls.step[s] # Free => HasPlan(plan) /\ NoActiveAttempt(s)

\* Where the tools run.
Placed ==
  /\ ~NoCallInFlight => turn.at = "call" \/ calls.host = "used"
  /\ turn.at # "idle" => calls.host = "no" /\ inbox.active
  /\ calls.host # "no" => ~inbox.active

Told ==
  session = "open" =>
    /\ \A t \in Tasks :
         /\ state[t] \in Outcomes => t \in inbox.events \cup inbox.deferred \cup noted
         /\ t \in inbox.events \cup inbox.deferred \cup noted => state[t] \in Outcomes
         /\ t \notin inbox.events \cap inbox.deferred
         /\ t \notin inbox.events \cap noted
         /\ t \notin inbox.deferred \cap noted
    /\ inbox.external => inbox.events = {}
    /\ ~inbox.active /\ inbox.users = 0 => inbox.events = {}
    /\ calls.host # "no" /\ inbox.users = 0 => inbox.external

Once == \A t \in Tasks : shown[t] + turn.given[t] <= 1

Shut ==
  session = "closed" =>
    /\ \A t \in Tasks : ~Active(t)
    /\ calls.host = "no" /\ turn.at = "idle" /\ ~inbox.active
    /\ ~saved.row /\ ~saved.queued /\ ~saved.flying

DInv == Typed /\ PlanSound(plan, state) /\ Reserved /\ Placed /\ Told /\ Once /\ Shut
-----------------------------------------------------------------------------
(* The plan.                                                               *)

LEMMA NoPlanIsNone == NoPlan \notin PlanRecord
  BY DEF NoPlan, PlanRecord

LEMMA StepMoves ==
  ASSUME NEW p \in PlanRecord, NEW s \in Steps, NEW x \in StepType
  PROVE  /\ [p EXCEPT !.steps[s] = x] \in PlanRecord
         /\ [p EXCEPT !.steps[s] = x].steps = [p.steps EXCEPT ![s] = x]
<1>1. [p.steps EXCEPT ![s] = x] \in [Steps -> StepType]
  BY DEF PlanRecord
<1>2. [p EXCEPT !.steps[s] = x] \in PlanRecord
  BY <1>1, Zenon DEF PlanRecord
<1> QED
  BY <1>2 DEF PlanRecord

LEMMA StepsMove ==
  ASSUME NEW p \in PlanRecord, NEW F \in [Steps -> StepType],
         NEW z \in {"active", "waiting_user", "done"}
  PROVE  /\ [p EXCEPT !.steps = F] \in PlanRecord /\ [p EXCEPT !.steps = F].steps = F
         /\ [p EXCEPT !.status = z] \in PlanRecord
         /\ [p EXCEPT !.status = z].steps = p.steps
<1>1. [p EXCEPT !.steps = F] \in PlanRecord /\ [p EXCEPT !.status = z] \in PlanRecord
  BY Zenon DEF PlanRecord
<1> QED
  BY <1>1 DEF PlanRecord

LEMMA ResetTyped ==
  ASSUME NEW x \in StepType
  PROVE  /\ resetStaleCheck(x) \in StepType
         /\ resetStaleCheck(x).ids = x.ids /\ resetStaleCheck(x).state = "pending"
         /\ resetStaleCheck(x).work = NoTask /\ resetStaleCheck(x).success = NoTask
<1>1. resetStaleCheck(x) \in StepType
  <2>1. NoTask \in Ids /\ {} \in SUBSET Tasks
    BY DEF Ids
  <2> QED
    BY <2>1, Zenon DEF StepType, resetStaleCheck
<1> QED
  BY <1>1 DEF StepType, resetStaleCheck

\* A plan some of whose steps are taken back is as sound as it was.
LEMMA ResetSound ==
  ASSUME NEW S, NEW p \in PlanRecord, PlanSound(p, S), NEW q \in PlanRecord,
         \A c \in Steps : q.steps[c] \in {p.steps[c], resetStaleCheck(p.steps[c])}
  PROVE  /\ PlanSound(q, S)
         /\ \A c \in Steps : q.steps[c].ids = p.steps[c].ids
<1>1. \A c \in Steps : p.steps[c] \in StepType /\ q.steps[c] \in StepType
  BY DEF PlanRecord
<1>2. \A c \in Steps : StepSound(p.steps[c], S) /\ CheckSound(p, c)
  BY NoPlanIsNone DEF PlanSound
<1>3. \A c \in Steps : q.steps[c].ids = p.steps[c].ids
  BY <1>1, ResetTyped
<1>4. ASSUME NEW c \in Steps
      PROVE  StepSound(q.steps[c], S)
  <2>1. CASE q.steps[c] = p.steps[c]
    BY <1>2, <2>1
  <2>2. CASE q.steps[c] = resetStaleCheck(p.steps[c])
    <3>1. /\ q.steps[c].state = "pending" /\ q.steps[c].success = NoTask
          /\ q.steps[c].ids = p.steps[c].ids
      BY <1>1, <2>2, ResetTyped
    <3> QED
      BY <1>2, <3>1 DEF StepSound
  <2> QED
    BY <2>1, <2>2
<1>5. ASSUME NEW c \in Steps
      PROVE  CheckSound(q, c)
  <2> SUFFICES ASSUME c \in Checks, q.steps[c].state = "done",
                      NEW d \in DependsOn[c], q.steps[d].success # NoTask
               PROVE  q.steps[d].success \in q.steps[c].checked
    BY DEF CheckSound
  <2>1. d \in Steps
    BY DialogueAssumption DEF DialogueAssumption
  <2>2. q.steps[c] = p.steps[c]
    BY <1>1, ResetTyped
  <2>3. q.steps[d] = p.steps[d]
    BY <1>1, <2>1, ResetTyped
  <2> QED
    BY <1>2, <2>1, <2>2, <2>3 DEF CheckSound
<1> QED
  BY <1>3, <1>4, <1>5 DEF PlanSound

\* Only the steps of a plan say whether it is sound.
LEMMA SameSteps ==
  ASSUME NEW S, NEW p \in PlanRecord, PlanSound(p, S), NEW q, q.steps = p.steps
  PROVE  PlanSound(q, S)
  BY NoPlanIsNone DEF PlanSound, CheckSound

LEMMA Recomputed ==
  ASSUME NEW p \in Plans
  PROVE  /\ recomputePlanStatus(p) \in Plans
         /\ HasPlan(recomputePlanStatus(p)) <=> HasPlan(p)
         /\ HasPlan(p) => /\ recomputePlanStatus(p) \in PlanRecord
                          /\ recomputePlanStatus(p).steps = p.steps
<1>1. CASE ~HasPlan(p)
  BY <1>1 DEF recomputePlanStatus
<1>2. CASE HasPlan(p)
  <2>1. p \in PlanRecord /\ p.steps \in [Steps -> StepType]
    BY <1>2 DEF Plans, HasPlan, PlanRecord
  <2>2. recomputePlanStatus(p) \in PlanRecord /\ recomputePlanStatus(p).steps = p.steps
    BY <2>1, StepsMove DEF recomputePlanStatus
  <2> QED
    BY <1>2, <2>2, NoPlanIsNone DEF Plans, HasPlan
<1> QED
  BY <1>1, <1>2

LEMMA ChecksResetTyped ==
  ASSUME NEW p \in PlanRecord, NEW s
  PROVE  /\ ChecksReset(p, s) \in PlanRecord
         /\ \A c \in Steps : ChecksReset(p, s).steps[c] =
              IF c \in Checks /\ s \in DependsOn[c] /\ ~checkSourcesCurrent(p, c)
              THEN resetStaleCheck(p.steps[c]) ELSE p.steps[c]
<1> DEFINE F == [c \in Steps |->
                  IF c \in Checks /\ s \in DependsOn[c] /\ ~checkSourcesCurrent(p, c)
                  THEN resetStaleCheck(p.steps[c]) ELSE p.steps[c]]
<1>1. \A c \in Steps : p.steps[c] \in StepType
  BY DEF PlanRecord
<1>2. F \in [Steps -> StepType]
  BY <1>1, ResetTyped
<1>3. ChecksReset(p, s) = [p EXCEPT !.steps = F]
  BY DEF ChecksReset, PlanRecord
<1>4. [p EXCEPT !.steps = F] \in PlanRecord /\ [p EXCEPT !.steps = F].steps = F
  BY <1>2, StepsMove
<1> QED
  BY <1>3, <1>4

\* In the states S of the tasks, t settles with the outcome, which gives T.
Settling(S, T, t, outcome) ==
  /\ S \in [Tasks -> {"none", "queued", "running"} \cup Outcomes]
  /\ S[t] \in {"queued", "running"}
  /\ T = [S EXCEPT ![t] = outcome]

\* A task that settles leaves the plan as sound as it was.
LEMMA SettlingSound ==
  ASSUME NEW S, NEW T, NEW p \in Plans, PlanSound(p, S), NEW t \in Tasks,
         NEW outcome \in Outcomes, Settling(S, T, t, outcome)
  PROVE  PlanSound(p, T)
<1> SUFFICES ASSUME p \in PlanRecord
             PROVE  PlanSound(p, T)
  BY DEF PlanSound, Plans
<1>1. ASSUME NEW s \in Steps
      PROVE  StepSound(p.steps[s], T) /\ CheckSound(p, s)
  <2>1. p.steps[s] \in StepType
    BY DEF PlanRecord
  <2>2. StepSound(p.steps[s], S) /\ CheckSound(p, s)
    BY NoPlanIsNone DEF PlanSound
  <2> QED
    BY <2>1, <2>2 DEF StepSound, StepType, Ids, Outcomes, Settling
<1> QED
  BY <1>1 DEF PlanSound

\* The plan q is p, further on, and sound in the states T of the tasks.
Follows(q, p, T) ==
  /\ q \in Plans /\ (HasPlan(q) <=> HasPlan(p))
  /\ PlanSound(q, T)
  /\ HasPlan(p) => \A c \in Steps : q.steps[c].ids = p.steps[c].ids

\* The outcome of a task that settles.
LEMMA ApplySound ==
  ASSUME NEW S, NEW T, NEW p \in Plans, PlanSound(p, S),
         NEW t \in Tasks, NEW s \in Steps \cup {NoStep},
         NEW outcome \in Outcomes, NEW good, Settling(S, T, t, outcome)
  PROVE  Follows(applyTaskEvent(p, t, s, outcome, good), p, T)
<1> DEFINE q == applyTaskEvent(p, t, s, outcome, good)
<1> SUFFICES /\ q \in Plans /\ (HasPlan(q) <=> HasPlan(p))
             /\ PlanSound(q, T)
             /\ HasPlan(p) => \A c \in Steps : q.steps[c].ids = p.steps[c].ids
  BY DEF Follows
<1>1. PlanSound(p, T)
  BY SettlingSound
<1>2. CASE ~HasPlan(p)
  <2>1. q = p
    BY <1>2 DEF applyTaskEvent
  <2> QED
    BY <1>1, <1>2, <2>1
<1>3. CASE HasPlan(p) /\ ~CurrentAttempt(p, t, s)
  <2>1. q = p
    BY <1>3 DEF applyTaskEvent
  <2> QED
    BY <1>1, <1>3, <2>1
<1>4. CASE HasPlan(p) /\ CurrentAttempt(p, t, s)
  <2>1. /\ p \in PlanRecord /\ s \in Steps /\ p.steps[s].work = t
        /\ \A c \in Steps : p.steps[c] \in StepType
    BY <1>4 DEF CurrentAttempt, HasPlan, Plans, PlanRecord
  <2>2. \A c \in Steps : StepSound(p.steps[c], T) /\ CheckSound(p, c)
    BY <1>1, <1>4 DEF PlanSound, HasPlan
  <2>3. ASSUME NEW r \in PlanRecord, r = q, PlanSound(r, T),
               \A c \in Steps : r.steps[c].ids = p.steps[c].ids
        PROVE  /\ q \in Plans /\ (HasPlan(q) <=> HasPlan(p))
               /\ PlanSound(q, T)
               /\ HasPlan(p) => \A c \in Steps : q.steps[c].ids = p.steps[c].ids
    BY <1>4, <2>3, NoPlanIsNone DEF Plans, HasPlan
  <2>4. CASE s \in Checks /\ ~checkSourcesCurrent(p, s)
    <3>1. resetStaleCheck(p.steps[s]) \in StepType
      BY <2>1, ResetTyped
    <3>2. q = [p EXCEPT !.steps[s] = resetStaleCheck(p.steps[s])]
      BY <1>4, <2>4 DEF applyTaskEvent
    <3>3. q \in PlanRecord /\ q.steps = [p.steps EXCEPT ![s] = resetStaleCheck(p.steps[s])]
      BY <2>1, <3>1, <3>2, StepMoves
    <3>4. \A c \in Steps : q.steps[c] \in {p.steps[c], resetStaleCheck(p.steps[c])}
      BY <2>1, <3>3 DEF PlanRecord
    <3> HIDE DEF q
    <3>5. PlanSound(q, T) /\ \A c \in Steps : q.steps[c].ids = p.steps[c].ids
      BY <1>1, <2>1, <3>3, <3>4, ResetSound
    <3> QED
      BY <2>3, <3>3, <3>5 DEF q
  <2>5. CASE ~(s \in Checks /\ ~checkSourcesCurrent(p, s))
    <3> DEFINE done == outcome = "done" /\ (good \/ s \in Checks)
               z == IF outcome = "done" /\ good THEN "done" ELSE "failed"
               v == IF done THEN t ELSE NoTask
               x == [p.steps[s] EXCEPT !.success = v, !.state = z]
               p1 == [p EXCEPT !.steps[s] = x]
    <3>1. v \in Ids /\ z \in {"pending", "running", "done", "failed"} /\ NoTask \notin Tasks
      BY DialogueAssumption DEF Ids, DialogueAssumption
    <3>2. p1 = [p EXCEPT !.steps[s].success = v, !.steps[s].state = z]
      BY <2>1 DEF PlanRecord
    <3>3. q = IF done THEN ChecksReset(p1, s) ELSE p1
      <4>1. q = LET r == [p EXCEPT !.steps[s].success = v, !.steps[s].state = z]
                IN IF done THEN ChecksReset(r, s) ELSE r
        BY <1>4, <2>5, Zenon DEF applyTaskEvent
      <4> HIDE DEF q, p1, v, z, x, done
      <4> QED
        BY <3>2, <4>1
    <3>4. x \in StepType
      <4> HIDE DEF v, z
      <4> QED
        BY <2>1, <3>1, Zenon DEF StepType
    <3>5. /\ x.success = v /\ x.state = z /\ x.work = t /\ x.ids = p.steps[s].ids
          /\ x.checked = p.steps[s].checked
      BY <2>1 DEF StepType
    <3>6. p1 \in PlanRecord /\ p1.steps = [p.steps EXCEPT ![s] = x]
      <4> HIDE DEF x
      <4> QED
        BY <2>1, <3>4, StepMoves
    <3> HIDE DEF x, p1
    <3>7. /\ p1.steps[s] = x
          /\ \A c \in Steps \ {s} : p1.steps[c] = p.steps[c]
      BY <2>1, <3>6 DEF PlanRecord
    <3>8. \A c \in Steps : StepSound(p1.steps[c], T)
      <4>1. v # NoTask => T[v] = "done"
        BY <3>1 DEF Settling
      <4>2. z = "done" => v = t /\ t # NoTask
        BY <3>1
      <4>3. StepSound(x, T)
        BY <2>1, <2>2, <3>1, <3>5, <4>1, <4>2 DEF StepSound
      <4> QED
        BY <2>2, <3>7, <4>3
    <3>9. CASE ~done
      <4>1. z # "done" /\ v = NoTask /\ q = p1
        BY <3>3, <3>9
      <4>2. ASSUME NEW c \in Steps
            PROVE  CheckSound(p1, c)
        BY <2>2, <3>5, <3>7, <4>1, DialogueAssumption
           DEF CheckSound, DialogueAssumption
      <4>3. PlanSound(p1, T)
        BY <3>8, <4>2 DEF PlanSound
      <4>4. \A c \in Steps : p1.steps[c].ids = p.steps[c].ids
        BY <3>5, <3>7
      <4> QED
        BY <2>3, <3>6, <4>1, <4>3, <4>4 DEF q
    <3>10. CASE done
      <4> DEFINE r == ChecksReset(p1, s)
      <4>1. q = r
        BY <3>3, <3>10
      <4>2. /\ r \in PlanRecord
            /\ \A c \in Steps : r.steps[c] =
                 IF c \in Checks /\ s \in DependsOn[c] /\ ~checkSourcesCurrent(p1, c)
                 THEN resetStaleCheck(p1.steps[c]) ELSE p1.steps[c]
        BY <3>6, ChecksResetTyped
      <4> HIDE DEF r, q
      <4>3. \A c \in Steps : p1.steps[c] \in StepType
        BY <3>6 DEF PlanRecord
      <4>4. \A c \in Steps : /\ r.steps[c].ids = p.steps[c].ids
                             /\ r.steps[c].success \in {p1.steps[c].success, NoTask}
                             /\ r.steps[c].state = "done" => r.steps[c] = p1.steps[c]
        BY <3>5, <3>7, <4>2, <4>3, ResetTyped
      <4>5. ASSUME NEW c \in Steps
            PROVE  StepSound(r.steps[c], T)
        <5>1. CASE r.steps[c] = p1.steps[c]
          BY <3>8, <5>1
        <5>2. CASE r.steps[c] = resetStaleCheck(p1.steps[c])
          <6>1. /\ r.steps[c].state = "pending" /\ r.steps[c].success = NoTask
                /\ r.steps[c].ids = p1.steps[c].ids
            BY <4>3, <5>2, ResetTyped
          <6> QED
            BY <3>8, <6>1 DEF StepSound
        <5> QED
          BY <4>2, <5>1, <5>2
      <4>6. ASSUME NEW c \in Steps
            PROVE  CheckSound(r, c)
        <5> SUFFICES ASSUME c \in Checks, r.steps[c].state = "done",
                            NEW d \in DependsOn[c], r.steps[d].success # NoTask
                     PROVE  r.steps[d].success \in r.steps[c].checked
          BY DEF CheckSound
        <5>1. d \in Steps
          BY DialogueAssumption DEF DialogueAssumption
        <5>2. r.steps[c] = p1.steps[c] /\ r.steps[d].success = p1.steps[d].success
          BY <4>4, <5>1
        <5>3. CASE s \in DependsOn[c]
          <6>1. checkSourcesCurrent(p1, c)
            BY <4>2, <4>3, <5>3, ResetTyped
          <6> QED
            BY <5>2, <6>1 DEF checkSourcesCurrent
        <5>4. CASE s \notin DependsOn[c] /\ c # s
          <6>1. p1.steps[c] = p.steps[c] /\ p1.steps[d] = p.steps[d]
            BY <3>7, <5>1, <5>4
          <6> QED
            BY <2>2, <5>2, <6>1 DEF CheckSound
        <5>5. CASE s \notin DependsOn[c] /\ c = s
          <6>1. p1.steps[d] = p.steps[d] /\ p1.steps[c].checked = p.steps[c].checked
            BY <3>5, <3>7, <5>1, <5>5
          <6>2. checkSourcesCurrent(p, c)
            BY <2>5, <5>5
          <6> QED
            BY <5>2, <6>1, <6>2 DEF checkSourcesCurrent
        <5> QED
          BY <5>3, <5>4, <5>5
      <4>7. PlanSound(r, T)
        BY <4>5, <4>6 DEF PlanSound
      <4> QED
        BY <2>3, <4>1, <4>2, <4>4, <4>7 DEF q
    <3> QED
      BY <3>9, <3>10
  <2> QED
    BY <2>4, <2>5
<1> QED
  BY <1>2, <1>3, <1>4

-----------------------------------------------------------------------------
(* What keeps the parts of the invariant.                                  *)

LEMMA ReservedStays ==
  ASSUME Reserved,
         HasPlan(plan) => /\ HasPlan(plan')
                          /\ \A s \in Steps : plan'.steps[s].ids = plan.steps[s].ids,
         Typed,
         \A t \in Tasks : Active(t)' => Active(t),
         \A s \in Steps : calls'.step[s] # Free => calls.step[s] # Free
  PROVE  Reserved'
<1>1. ASSUME NEW s \in Steps, calls'.step[s] # Free
      PROVE  HasPlan(plan') /\ NoActiveAttempt(s)'
  <2>1. HasPlan(plan) /\ NoActiveAttempt(s)
    BY <1>1 DEF Reserved
  <2>2. plan.steps[s].ids \subseteq Tasks
    BY <2>1 DEF Typed, Plans, PlanRecord, StepType, HasPlan
  <2> QED
    BY <2>1, <2>2 DEF NoActiveAttempt
<1> QED
  BY <1>1 DEF Reserved

\* The session's tasks, outcomes and messages are as they were.
LEMMA ToldStays ==
  ASSUME Told, state' = state, inbox' = inbox, noted' = noted,
         session' = session, calls'.host # "no" => calls.host # "no"
  PROVE  Told'
  BY DEF Told

LEMMA OnceStays ==
  ASSUME Once, shown' = shown, turn'.given = turn.given
  PROVE  Once'
  BY DEF Once

\* A turn that delivers nothing adds nothing.
LEMMA NoneSpent ==
  ASSUME Once, Typed, shown' = shown, turn'.given = NoneGiven
  PROVE  Once'
<1>1. turn.given \in [Tasks -> Nat] /\ shown \in [Tasks -> Nat]
  BY DEF Typed, TurnRecord
<1> QED
  BY <1>1 DEF Once, NoneGiven

\* A step of an open or closing session says nothing about a closed one.
LEMMA ShutStays ==
  ASSUME session' # "closed"
  PROVE  Shut'
  BY DEF Shut

LEMMA PlacedStays ==
  ASSUME Placed, Typed, calls'.host = calls.host, turn'.at = turn.at,
         inbox'.active = inbox.active,
         (NoCallInFlight)' <=> NoCallInFlight
  PROVE  Placed'
  BY DEF Placed

LEMMA InvInit == DialogueInit => DInv
<1> SUFFICES ASSUME DialogueInit PROVE DInv
  OBVIOUS
<1> USE DEF DialogueInit
<1>1. /\ calls = NoCalls /\ Free \in SlotRecord
      /\ NotAsked \in [at : {"free", "asked"}, was : Plans]
  BY DEF Free, SlotRecord, NotAsked, Plans
<1>2. calls \in CallsRecord /\ calls.host = "no" /\ NoCallInFlight
      /\ \A s \in Steps : calls.step[s] = Free
  <2>1. /\ [s \in Steps \cup {NoStep} |-> Free] \in [Steps \cup {NoStep} -> SlotRecord]
        /\ [t \in Tasks |-> 0] \in [Tasks -> Nat] /\ FALSE \in BOOLEAN
    BY <1>1
  <2>2. NoCalls \in CallsRecord
    BY <1>1, <2>1, Zenon DEF NoCalls, CallsRecord
  <2> QED
    BY <1>1, <2>2 DEF NoCalls, NoCallInFlight, NoneInFlight
<1>3. /\ inbox \in InboxRecord /\ saved \in SavedRecord
      /\ turn \in TurnRecord /\ turn.at = "idle" /\ turn.given = NoneGiven
  BY NoTurnTyped DEF InboxRecord, SavedRecord
<1>4. Typed
  BY <1>2, <1>3 DEF Typed, TasksInit, Plans, NoneGiven
<1>5. PlanSound(plan, state) /\ Reserved /\ Placed
  BY <1>2, <1>3 DEF PlanSound, Reserved, Placed
<1>6. Told /\ Once /\ Shut
  BY <1>2, <1>3 DEF Told, Once, Shut, TasksInit, Outcomes, NoneGiven
<1> QED
  BY <1>4, <1>5, <1>6 DEF DInv

\* The board's event, however the task comes to settle.
LEMMA EventKeeps ==
  ASSUME DInv, NEW t \in Tasks, NEW outcome \in Outcomes, NEW good,
         NEW caller \in TurnRecord, caller.at = turn.at, caller.given = turn.given,
         Settle(t, outcome), OnEvent(t, outcome, good, caller),
         calls' \in CallsRecord, calls'.step = calls.step,
         (NoCallInFlight)' <=> NoCallInFlight,
         calls'.host = "no" <=> calls.host = "no",
         calls.host = "used" => calls'.host = "used"
  PROVE  DInv'
<1>0. Typed /\ PlanSound(plan, state) /\ Reserved /\ Placed /\ Told /\ Once /\ Shut
  BY DEF DInv
<1>1. /\ state[t] \in {"queued", "running"} /\ state' = [state EXCEPT ![t] = outcome]
      /\ state \in [Tasks -> {"none", "queued", "running"} \cup Outcomes]
      /\ Active(t) /\ Settling(state, state', t, outcome)
  BY <1>0 DEF Settle, Typed, Active, Settling
<1>2. session # "closed" /\ session' = session /\ shown' = shown /\ noted' = noted
      /\ stepOf' = stepOf
  BY <1>0, <1>1 DEF Shut, OnEvent
<1>3. /\ state' \in [Tasks -> {"none", "queued", "running"} \cup Outcomes]
      /\ state'[t] = outcome /\ \A u \in Tasks \ {t} : state'[u] = state[u]
      /\ \A u \in Tasks : Active(u)' => Active(u)
  BY <1>1 DEF Active, Outcomes
<1>4. /\ plan' \in Plans /\ PlanSound(plan', state')
      /\ HasPlan(plan) => /\ HasPlan(plan')
                          /\ \A s \in Steps : plan'.steps[s].ids = plan.steps[s].ids
  <2> DEFINE p == IF t \in owned /\ request.open
                  THEN applyTaskEvent(plan, t, stepOf[t], outcome, good) ELSE plan
  <2>1. plan' = recomputePlanStatus(p)
    BY DEF OnEvent
  <2>2. plan \in Plans /\ stepOf[t] \in Steps \cup {NoStep}
    BY <1>0 DEF Typed
  <2>3. /\ p \in Plans /\ (HasPlan(p) <=> HasPlan(plan)) /\ PlanSound(p, state')
        /\ HasPlan(plan) => \A s \in Steps : p.steps[s].ids = plan.steps[s].ids
    <3>1. CASE t \in owned /\ request.open
      <4>1. p = applyTaskEvent(plan, t, stepOf[t], outcome, good)
        BY <3>1
      <4> HIDE DEF p
      <4> QED
        <5>1. Settling(state, state', t, outcome)
          BY <1>1
        <5> QED
          <6>1. Follows(applyTaskEvent(plan, t, stepOf[t], outcome, good), plan, state')
            BY <1>0, <2>2, <5>1, ApplySound
          <6>2. Follows(p, plan, state')
            BY <4>1, <6>1, Zenon
          <6> QED
            BY <6>2 DEF Follows
    <3>2. CASE ~(t \in owned /\ request.open)
      <4>1. p = plan
        BY <3>2
      <4> HIDE DEF p
      <4> QED
        <5>1. Settling(state, state', t, outcome)
          BY <1>1
        <5> QED
          BY <1>0, <2>2, <4>1, <5>1, SettlingSound
    <3> QED
      BY <3>1, <3>2
  <2> HIDE DEF p
  <2>4. /\ plan' \in Plans /\ (HasPlan(plan') <=> HasPlan(p))
        /\ HasPlan(p) => plan' \in PlanRecord /\ plan'.steps = p.steps
    BY <2>1, <2>3, Recomputed
  <2>5. PlanSound(plan', state')
    <3>1. CASE HasPlan(p)
      <4>1. p \in PlanRecord /\ plan'.steps = p.steps
        BY <2>3, <2>4, <3>1 DEF Plans, HasPlan
      <4> QED
        BY <2>3, <4>1, SameSteps
    <3>2. CASE ~HasPlan(p)
      BY <2>4, <3>2 DEF PlanSound, HasPlan
    <3> QED
      BY <3>1, <3>2
  <2> QED
    BY <2>3, <2>4, <2>5
<1>5. Reserved'
  BY <1>0, <1>3, <1>4, ReservedStays
<1>6. /\ turn' \in TurnRecord /\ turn'.at = turn.at /\ turn'.given = turn.given
  <2>1. CASE session = "open"
    <3>1. turn' = [caller EXCEPT !.read = FALSE]
      BY <2>1 DEF OnEvent
    <3>2. [caller EXCEPT !.read = FALSE] \in TurnRecord
      BY TurnMoves
    <3> QED
      BY <3>1, <3>2 DEF TurnRecord
  <2>2. CASE session # "open"
    BY <2>2 DEF OnEvent
  <2> QED
    BY <2>1, <2>2
<1>7. inbox \in InboxRecord /\ saved \in SavedRecord
  BY <1>0 DEF Typed
<1>8. CASE session = "open"
  <2> DEFINE i == Enqueued(inbox, t)
             b == saved.queued \/ inbox.external
  <2>1. inbox' = scheduled(i) /\ saved' = [saved EXCEPT !.queued = b]
    BY <1>8 DEF OnEvent
  <2>2. b \in BOOLEAN
    OBVIOUS
  <2> HIDE DEF b
  <2>3. saved' \in SavedRecord
    BY <1>7, <2>1, <2>2, SavedMoves
  <2>4. /\ i \in InboxRecord /\ i.users = inbox.users /\ i.active = inbox.active
        /\ i.external = inbox.external
        /\ inbox.external => /\ i.deferred = inbox.deferred \cup {t}
                             /\ i.events = inbox.events
        /\ ~inbox.external => /\ i.events = inbox.events \cup {t}
                              /\ i.deferred = inbox.deferred
    BY <1>7, Enqueuing
  <2> HIDE DEF i
  <2>5. /\ inbox' \in InboxRecord
        /\ inbox'.users = i.users /\ inbox'.events = i.events
        /\ inbox'.deferred = i.deferred /\ inbox'.external = i.external
        /\ inbox'.active <=>
             \/ i.active
             \/ calls.host = "no" /\ (i.users > 0 \/ ~i.external)
    BY <1>8, <2>1, <2>4, Scheduling
  <2>6. Typed'
    BY <1>0, <1>2, <1>3, <1>4, <1>6, <2>3, <2>5 DEF Typed
  <2>7. Placed'
    BY <1>0, <1>6, <2>4, <2>5 DEF Placed
  <2>8. t \notin inbox.events \cup inbox.deferred \cup noted
    BY <1>0, <1>1, <1>8 DEF Told, Outcomes
  <2>9. Told'
    <3>1. CASE inbox.external
      BY <1>0, <1>2, <1>3, <1>8, <2>4, <2>5, <2>8, <3>1 DEF Told
    <3>2. CASE ~inbox.external
      <4>1. inbox.users > 0 \/ inbox'.active
        BY <1>0, <1>7, <1>8, <2>4, <2>5, <3>2 DEF Told, InboxRecord
      <4> QED
        BY <1>0, <1>2, <1>3, <1>7, <1>8, <2>4, <2>5, <2>8, <3>2, <4>1
           DEF Told, InboxRecord
    <3> QED
      BY <3>1, <3>2
  <2> QED
    BY <1>0, <1>2, <1>4, <1>5, <1>6, <2>6, <2>7, <2>9, OnceStays, ShutStays DEF DInv
<1>9. CASE session # "open"
  <2>1. inbox' = inbox /\ saved' = saved
    BY <1>9 DEF OnEvent
  <2>2. Typed' /\ Placed' /\ Told'
    BY <1>0, <1>2, <1>3, <1>4, <1>6, <1>9, <2>1 DEF Typed, Placed, Told
  <2> QED
    BY <1>0, <1>2, <1>4, <1>5, <1>6, <2>2, OnceStays, ShutStays DEF DInv
<1> QED
  BY <1>8, <1>9

-----------------------------------------------------------------------------
(* The tools.                                                              *)

\* A step that leaves the tasks, the messages and the session as they are.
LEMMA Frame ==
  ASSUME DInv, state' = state, stepOf' = stepOf, session' = session,
         inbox' = inbox, noted' = noted, shown' = shown,
         plan' \in Plans, PlanSound(plan', state), Reserved', Once',
         turn' \in TurnRecord, turn'.at = turn.at,
         calls' \in CallsRecord, calls'.host = "no" <=> calls.host = "no",
         (NoCallInFlight)' \/ turn.at = "call" \/ calls'.host = "used",
         saved' \in SavedRecord, session = "closed" => saved' = saved
  PROVE  DInv'
<1>1. Typed /\ Placed /\ Told /\ Shut
  BY DEF DInv
<1>2. Typed'
  BY <1>1 DEF Typed
<1>3. Placed'
  BY <1>1 DEF Placed
<1>4. Told'
  BY <1>1, ToldStays
<1>5. Shut'
  BY <1>1 DEF Shut, Active
<1> QED
  BY <1>2, <1>3, <1>4, <1>5 DEF DInv

LEMMA Parts ==
  ASSUME DInv
  PROVE  /\ plan \in Plans /\ PlanSound(plan, state) /\ Reserved /\ Once
         /\ turn \in TurnRecord /\ calls \in CallsRecord /\ saved \in SavedRecord
         /\ inbox \in InboxRecord
         /\ NoCallInFlight \/ turn.at = "call" \/ calls.host = "used"
         /\ turn.at = "call" => calls.host = "no"
  BY DEF DInv, Typed, Placed

LEMMA CallerTyped ==
  ASSUME turn \in TurnRecord
  PROVE  /\ Caller \in TurnRecord /\ Caller.at = turn.at
         /\ Caller.given = turn.given
<1>1. Caller \in TurnRecord
  BY TurnMoves DEF Caller
<1> QED
  BY <1>1 DEF Caller, TurnRecord

\* No slot is taken that was not.
LEMMA SlotsStay ==
  ASSUME DInv, state' = state, plan' = plan,
         \A s \in Steps : calls'.step[s] # Free => calls.step[s] # Free
  PROVE  Reserved'
<1>1. \A t \in Tasks : Active(t)' => Active(t)
  BY DEF Active
<1> QED
  BY <1>1, ReservedStays DEF DInv

LEMMA FreeTyped == Free \in SlotRecord
  BY DEF Free, SlotRecord

LEMMA NotAskedTyped == NotAsked \in [at : {"free", "asked"}, was : Plans]
  BY DEF NotAsked, Plans

LEMMA ReserveKeeps ==
  ASSUME DInv, NEW s \in Steps \cup {NoStep}, Reserve(s)
  PROVE  DInv'
<1> DEFINE c == Called(calls)
           f == [c.step[s] EXCEPT !.at = "resolving"]
<1>1. /\ state' = state /\ stepOf' = stepOf /\ session' = session
      /\ inbox' = inbox /\ noted' = noted /\ shown' = shown
      /\ plan' = plan /\ saved' = saved /\ turn' = Caller
      /\ calls' = [c EXCEPT !.step[s].at = "resolving"]
      /\ turn.at = "call" \/ calls.host = "one"
  BY DEF Reserve, CanCall, InCall
<1>2. /\ c \in CallsRecord /\ c.step = calls.step /\ c.step[s] \in SlotRecord
      /\ c.host = IF calls.host = "one" THEN "used" ELSE calls.host
  BY Parts, Calling DEF CallsRecord
<1> HIDE DEF c
<1>3. f \in SlotRecord
  BY <1>2, Zenon DEF SlotRecord
<1>4. calls' = [c EXCEPT !.step[s] = f]
  BY <1>1, <1>2 DEF CallsRecord
<1> HIDE DEF f
<1>5. calls' \in CallsRecord
  BY <1>2, <1>3, <1>4, Parts, NotAskedTyped, CallsMoves
<1>6. calls'.step = [calls.step EXCEPT ![s] = f] /\ calls'.host = c.host
  BY <1>2, <1>4 DEF CallsRecord
<1>7. Reserved'
  <2> SUFFICES ASSUME NEW r \in Steps, calls'.step[r] # Free
               PROVE  HasPlan(plan) /\ NoActiveAttempt(r)
    BY <1>1 DEF Reserved, NoActiveAttempt, Active
  <2>1. CASE r = s
    BY <2>1, DialogueAssumption DEF Reserve, DialogueAssumption
  <2>2. CASE r # s
    <3>1. calls'.step[r] = calls.step[r]
      BY <1>6, <2>2, Parts DEF CallsRecord
    <3> QED
      BY <3>1, Parts DEF Reserved
  <2> QED
    BY <2>1, <2>2
<1>8. /\ turn' \in TurnRecord /\ turn'.at = turn.at /\ turn'.given = turn.given
  BY <1>1, Parts, CallerTyped
<1>9. Once'
  BY <1>1, <1>8, Parts, OnceStays
<1> QED
  BY <1>1, <1>2, <1>5, <1>6, <1>7, <1>8, <1>9, Parts, Frame

\* A tool call goes on: only its slot changes.
LEMMA SlotKeeps ==
  ASSUME DInv, NEW s \in Steps \cup {NoStep}, NEW f \in SlotRecord,
         calls.step[s] # Free,
         calls' = WentOn([calls EXCEPT !.step[s] = f]),
         state' = state, stepOf' = stepOf, session' = session,
         inbox' = inbox, noted' = noted, shown' = shown,
         plan' = plan, saved' = saved, turn' = turn
  PROVE  DInv'
<1> DEFINE c == [calls EXCEPT !.step[s] = f]
<1>1. c \in CallsRecord
  BY Parts, NotAskedTyped, CallsMoves
<1>2. c.step = [calls.step EXCEPT ![s] = f] /\ c.host = calls.host
  BY Parts DEF CallsRecord
<1> HIDE DEF c
<1>3. calls' \in CallsRecord /\ calls'.step = c.step /\ calls'.host = calls.host
  BY <1>1, <1>2, GoingOn DEF c
<1>4. \A r \in Steps : calls'.step[r] # Free => calls.step[r] # Free
  BY <1>2, <1>3, Parts DEF CallsRecord
<1>5. turn.at = "call" \/ calls.host = "used"
  BY Parts DEF NoCallInFlight, NoneInFlight
<1>6. Reserved' /\ Once'
  BY <1>4, SlotsStay, Parts, OnceStays
<1> QED
  BY <1>3, <1>5, <1>6, Parts, Frame

LEMMA ReserveFailsKeeps ==
  ASSUME DInv, NEW s \in Steps \cup {NoStep}, ReserveFails(s)
  PROVE  DInv'
  BY SlotKeeps, FreeTyped DEF ReserveFails

LEMMA ReadSourcesKeeps ==
  ASSUME DInv, NEW s \in Steps \cup {NoStep}, ReadSources(s)
  PROVE  DInv'
<1> DEFINE sources == IF s = NoStep THEN {}
                      ELSE {plan.steps[d].success : d \in DependsOn[s]}
           ok == \A t \in sources : t # NoTask
           f == IF ok THEN [at |-> "read", sources |-> sources] ELSE Free
<1>1. calls.step[s] # Free /\ calls' = WentOn([calls EXCEPT !.step[s] = f])
  BY DEF ReadSources, Free
<1>2. ok => sources \subseteq Tasks
  <2>1. CASE s = NoStep
    BY <2>1
  <2>2. CASE s # NoStep
    <3>1. HasPlan(plan) /\ s \in Steps
      BY <1>1, <2>2, Parts DEF Reserved
    <3>2. plan \in PlanRecord
      BY <3>1, Parts DEF Plans, HasPlan
    <3>3. \A d \in DependsOn[s] : plan.steps[d].success \in Tasks \cup {NoTask}
      BY <3>1, <3>2, DialogueAssumption DEF PlanRecord, StepType, Ids, DialogueAssumption
    <3> QED
      BY <2>2, <3>3
  <2> QED
    BY <2>1, <2>2
<1> HIDE DEF ok, sources
<1>3. f \in SlotRecord
  BY <1>2, FreeTyped DEF SlotRecord
<1> HIDE DEF f
<1> QED
  BY <1>1, <1>3, SlotKeeps DEF ReadSources

\* A tool that leaves the slots alone, with the plan p.
LEMMA PlanToolKeeps ==
  ASSUME DInv, CanCall, plan' \in Plans, PlanSound(plan', state),
         plan' = plan \/ ~ReservedStep,
         calls' = Called(calls), turn' = Caller,
         state' = state, stepOf' = stepOf, session' = session,
         inbox' = inbox, noted' = noted, shown' = shown, saved' = saved
  PROVE  DInv'
<1>1. /\ calls' \in CallsRecord /\ calls'.step = calls.step
      /\ calls'.host = IF calls.host = "one" THEN "used" ELSE calls.host
  BY Parts, Calling
<1>2. turn.at = "call" \/ calls'.host = "used"
  BY <1>1 DEF CanCall, InCall
<1>3. Reserved'
  <2>1. CASE plan' = plan
    BY <1>1, <2>1, SlotsStay
  <2>2. CASE ~ReservedStep
    BY <1>1, <2>2 DEF Reserved, ReservedStep
  <2> QED
    BY <2>1, <2>2
<1>4. /\ turn' \in TurnRecord /\ turn'.at = turn.at /\ turn'.given = turn.given
  BY Parts, CallerTyped
<1>5. Once'
  BY <1>4, Parts, OnceStays
<1> QED
  BY <1>1, <1>2, <1>3, <1>4, <1>5, Parts, Frame

LEMMA NewPlanSound ==
  ASSUME NEW S
  PROVE  NewPlan \in PlanRecord /\ PlanSound(NewPlan, S)
<1>1. NewStep \in StepType
  BY DEF NewStep, StepType, Ids
<1>2. NewPlan \in PlanRecord /\ \A s \in Steps : NewPlan.steps[s] = NewStep
  BY <1>1 DEF NewPlan, PlanRecord
<1>3. StepSound(NewStep, S) /\ NewStep.state = "pending"
  BY DEF StepSound, NewStep
<1> QED
  BY <1>2, <1>3 DEF PlanSound, CheckSound

LEMMA CreatePlanKeeps ==
  ASSUME DInv, CreatePlan
  PROVE  DInv'
  BY NewPlanSound, PlanToolKeeps DEF CreatePlan, SetPlan, Plans

LEMMA AskUserKeeps ==
  ASSUME DInv, AskUser
  PROVE  DInv'
<1>1. plan \in PlanRecord /\ plan.steps \in [Steps -> StepType] /\ PlanSound(plan, state)
  BY Parts DEF AskUser, Plans, HasPlan, PlanRecord
<1>2. plan' = [plan EXCEPT !.status = "waiting_user"]
  BY DEF AskUser, SetPlan
<1>3. plan' \in PlanRecord /\ plan'.steps = plan.steps
  BY <1>1, <1>2, StepsMove
<1>4. PlanSound(plan', state)
  BY <1>1, <1>3, SameSteps
<1> QED
  BY <1>3, <1>4, PlanToolKeeps DEF AskUser, SetPlan, Plans

LEMMA ReopenKeeps ==
  ASSUME DInv, NEW s \in Steps, Reopen(s)
  PROVE  DInv'
<1> DEFINE x == resetStaleCheck(plan.steps[s])
           r == [plan EXCEPT !.status = "active"]
           p == [r EXCEPT !.steps[s] = x]
           F == [c \in Steps |->
                  IF c \in Checks /\ p.steps[c].checked # {} /\ ~checkSourcesCurrent(p, c)
                  THEN resetStaleCheck(p.steps[c]) ELSE p.steps[c]]
<1>1. plan \in PlanRecord /\ plan.steps \in [Steps -> StepType] /\ PlanSound(plan, state)
  BY Parts DEF Reopen, Plans, HasPlan, PlanRecord
<1>2. x \in StepType
  BY <1>1, ResetTyped
<1>3. r \in PlanRecord /\ r.steps = plan.steps
  BY <1>1, StepsMove
<1>4. p = [plan EXCEPT !.status = "active", !.steps[s] = x]
  BY <1>1 DEF PlanRecord
<1> HIDE DEF x, r
<1>5. p \in PlanRecord /\ p.steps = [plan.steps EXCEPT ![s] = x]
  <2>1. [r EXCEPT !.steps[s] = x].steps = [r.steps EXCEPT ![s] = x]
    BY <1>2, <1>3, StepMoves
  <2> QED
    BY <1>2, <1>3, <2>1, StepMoves
<1>6. \A c \in Steps : p.steps[c] \in {plan.steps[c], resetStaleCheck(plan.steps[c])}
  BY <1>1, <1>5 DEF x
<1>7. plan' = [p EXCEPT !.steps = F]
  <2>1. plan' = LET y == [plan EXCEPT !.status = "active",
                                      !.steps[s] = resetStaleCheck(@)]
                IN [y EXCEPT !.steps = [c \in Steps |->
                     IF c \in Checks /\ @[c].checked # {} /\ ~checkSourcesCurrent(y, c)
                     THEN resetStaleCheck(@[c]) ELSE @[c]]]
    BY DEF Reopen, SetPlan
  <2>2. p = [plan EXCEPT !.status = "active", !.steps[s] = resetStaleCheck(@)]
    BY <1>1, <1>4 DEF x, PlanRecord
  <2> HIDE DEF p
  <2> QED
    BY <1>5, <2>1, <2>2 DEF PlanRecord
<1> HIDE DEF p
<1>8. PlanSound(p, state) /\ \A c \in Steps : p.steps[c] \in StepType
  BY <1>1, <1>5, <1>6, ResetSound DEF PlanRecord
<1>9. F \in [Steps -> StepType]
  BY <1>8, ResetTyped
<1>10. \A c \in Steps : F[c] \in {p.steps[c], resetStaleCheck(p.steps[c])}
  OBVIOUS
<1> HIDE DEF F
<1>11. plan' \in PlanRecord /\ plan'.steps = F
  BY <1>5, <1>7, <1>9, StepsMove
<1>12. PlanSound(plan', state)
  BY <1>5, <1>8, <1>10, <1>11, ResetSound
<1> QED
  BY <1>11, <1>12, PlanToolKeeps DEF Reopen, SetPlan, Plans

LEMMA AuthorBeginsKeeps ==
  ASSUME DInv, AuthorBegins
  PROVE  DInv'
<1> DEFINE c == Called(calls)
           a == [at |-> "asked", was |-> plan]
<1>1. /\ c \in CallsRecord /\ c.step = calls.step
      /\ c.host = IF calls.host = "one" THEN "used" ELSE calls.host
  BY Parts, Calling
<1>2. a \in [at : {"free", "asked"}, was : Plans]
  BY Parts
<1>3. calls' = [c EXCEPT !.author = a]
  BY DEF AuthorBegins
<1> HIDE DEF c, a
<1>4. calls' \in CallsRecord
  <2>1. NoStep \in Steps \cup {NoStep}
    OBVIOUS
  <2> QED
    BY <1>1, <1>2, <1>3, <2>1, FreeTyped, CallsMoves
<1>5. calls'.step = calls.step /\ calls'.host = c.host
  BY <1>1, <1>3 DEF CallsRecord
<1>6. turn.at = "call" \/ calls'.host = "used"
  BY <1>1, <1>5 DEF AuthorBegins, CanCall, InCall
<1>7. /\ turn' \in TurnRecord /\ turn'.at = turn.at /\ turn'.given = turn.given
  BY Parts, CallerTyped DEF AuthorBegins
<1>8. Reserved' /\ Once'
  BY <1>5, <1>7, SlotsStay, Parts, OnceStays DEF AuthorBegins
<1> QED
  BY <1>1, <1>4, <1>5, <1>6, <1>7, <1>8, Parts, Frame DEF AuthorBegins

LEMMA AuthorEndsKeeps ==
  ASSUME DInv, AuthorEnds
  PROVE  DInv'
<1> DEFINE c == [calls EXCEPT !.author = NotAsked]
<1>1. c \in CallsRecord
  <2>1. NoStep \in Steps \cup {NoStep}
    OBVIOUS
  <2> QED
    BY <2>1, Parts, NotAskedTyped, FreeTyped, CallsMoves
<1>2. c.step = calls.step /\ c.host = calls.host
  BY Parts DEF CallsRecord
<1> HIDE DEF c
<1>3. calls' \in CallsRecord /\ calls'.step = calls.step /\ calls'.host = calls.host
  BY <1>1, <1>2, GoingOn DEF AuthorEnds, c
<1>4. turn.at = "call" \/ calls.host = "used"
  BY Parts DEF AuthorEnds, NoCallInFlight, NoneInFlight
<1>5. plan' \in Plans /\ PlanSound(plan', state) /\ Reserved'
  <2>1. CASE plan' = plan
    BY <1>3, <2>1, SlotsStay, Parts DEF AuthorEnds
  <2>2. CASE Unchanged(calls.author.was) /\ plan' = NewPlan
    <3>1. \A s \in Steps : calls.step[s] = Free
      BY <2>2 DEF Unchanged, attemptReserved
    <3> QED
      BY <1>3, <2>2, <3>1, NewPlanSound DEF Reserved, Plans
  <2> QED
    BY <2>1, <2>2 DEF AuthorEnds
<1>6. Once'
  BY Parts, OnceStays DEF AuthorEnds
<1> QED
  BY <1>3, <1>4, <1>5, <1>6, Parts, Frame DEF AuthorEnds

LEMMA NewRequestKeeps ==
  ASSUME DInv, NewRequest
  PROVE  DInv'
<1>1. /\ plan' = NoPlan /\ calls' = calls /\ turn' = Caller /\ turn.at = "call"
      /\ \A s \in Steps : calls.step[s] = Free
  BY DEF NewRequest, InCall, attemptReserved
<1>2. plan' \in Plans /\ PlanSound(plan', state) /\ Reserved'
  BY <1>1 DEF Plans, PlanSound, Reserved
<1>3. /\ turn' \in TurnRecord /\ turn'.at = turn.at /\ turn'.given = turn.given
  BY <1>1, Parts, CallerTyped
<1>4. Once'
  BY <1>3, Parts, OnceStays DEF NewRequest
<1> QED
  BY <1>1, <1>2, <1>3, <1>4, Parts, Frame DEF NewRequest

LEMMA StatusReadKeeps ==
  ASSUME DInv, StatusRead
  PROVE  DInv'
<1>1. turn' = [Caller EXCEPT !.waiting = turn.read, !.read = TRUE] /\ calls' = calls
      /\ plan' = plan /\ turn.at = "call"
  BY DEF StatusRead, InCall
<1>2. Caller \in TurnRecord /\ Caller.at = turn.at /\ Caller.given = turn.given
      /\ turn.read \in BOOLEAN
  BY Parts, CallerTyped DEF TurnRecord
<1>3. turn' \in TurnRecord
  BY <1>1, <1>2, TurnMoves
<1>4. turn'.at = turn.at /\ turn'.given = turn.given
  BY <1>1, <1>2 DEF TurnRecord
<1>5. Reserved' /\ Once'
  BY <1>1, <1>4, SlotsStay, Parts, OnceStays DEF StatusRead
<1> QED
  BY <1>1, <1>3, <1>4, <1>5, Parts, Frame DEF StatusRead

LEMMA DeliverBeginsKeeps ==
  ASSUME DInv, NEW t \in Tasks, DeliverBegins(t)
  PROVE  DInv'
<1>1. /\ calls' = [calls EXCEPT !.deliver[t] = calls.deliver[t] + 1]
      /\ turn' = Caller /\ plan' = plan /\ turn.at = "call"
  BY Parts DEF DeliverBegins, InCall, CallsRecord
<1>2. calls.deliver[t] + 1 \in Nat
  BY Parts DEF CallsRecord
<1>3. calls' \in CallsRecord
  BY <1>1, <1>2, Parts, DeliverMoves
<1>4. calls'.step = calls.step /\ calls'.host = calls.host
  BY <1>1, Parts DEF CallsRecord
<1>5. /\ turn' \in TurnRecord /\ turn'.at = turn.at /\ turn'.given = turn.given
  BY <1>1, Parts, CallerTyped
<1>6. Reserved' /\ Once'
  BY <1>1, <1>4, <1>5, SlotsStay, Parts, OnceStays DEF DeliverBegins
<1> QED
  BY <1>1, <1>3, <1>4, <1>5, <1>6, Parts, Frame DEF DeliverBegins

LEMMA DeliverEndsKeeps ==
  ASSUME DInv, NEW t \in Tasks, DeliverEnds(t)
  PROVE  DInv'
<1> DEFINE c == [calls EXCEPT !.deliver[t] = calls.deliver[t] - 1]
<1>1. /\ calls' = WentOn(c) /\ plan' = plan /\ calls.deliver[t] > 0
  BY Parts DEF DeliverEnds, CallsRecord
<1>2. calls.deliver[t] - 1 \in Nat
  BY <1>1, Parts DEF CallsRecord
<1>3. c \in CallsRecord
  BY <1>2, Parts, DeliverMoves
<1>4. c.step = calls.step /\ c.host = calls.host
  BY Parts DEF CallsRecord
<1> HIDE DEF c
<1>5. calls' \in CallsRecord /\ calls'.step = calls.step /\ calls'.host = calls.host
  BY <1>1, <1>3, <1>4, GoingOn
<1>6. turn.at = "call" \/ calls.host = "used"
  BY <1>1, Parts DEF NoCallInFlight, NoneInFlight
<1>7. turn' \in TurnRecord /\ turn'.at = turn.at /\ Once'
  <2>1. CASE turn' = turn
    BY <2>1, Parts, OnceStays DEF DeliverEnds
  <2>2. CASE StillFresh(t) /\ turn' = [turn EXCEPT !.given[t] = turn.given[t] + 1,
                                                   !.delivered = TRUE]
    <3>1. turn.given \in [Tasks -> Nat] /\ turn.given[t] + 1 \in Nat
      BY Parts DEF TurnRecord
    <3>2. turn' \in TurnRecord
      BY <2>2, <3>1, Parts, GivenMoves
    <3>3. turn'.at = turn.at /\ turn'.given = [turn.given EXCEPT ![t] = turn.given[t] + 1]
      BY <2>2, Parts DEF TurnRecord
    <3>4. shown' = shown /\ shown[t] = 0 /\ turn.given[t] = 0
      BY <2>2 DEF DeliverEnds, StillFresh, Fresh
    <3>5. \A d \in Tasks : d # t => turn'.given[d] = turn.given[d]
      BY <3>1, <3>3
    <3>6. turn'.given[t] = 1
      BY <3>1, <3>3, <3>4
    <3>7. Once
      BY Parts
    <3> QED
      BY <3>2, <3>3, <3>4, <3>5, <3>6, <3>7 DEF Once
  <2> QED
    BY <2>1, <2>2, Parts DEF DeliverEnds
<1>8. Reserved'
  BY <1>1, <1>5, SlotsStay DEF DeliverEnds
<1> QED
  BY <1>1, <1>5, <1>6, <1>7, <1>8, Parts, Frame DEF DeliverEnds

-----------------------------------------------------------------------------
(* The tasks.                                                              *)

\* A task that is done stays done, one that is there stays there, and no task of
\* the plan becomes active: the plan is as sound as it was.
LEMMA RestSound ==
  ASSUME NEW S, NEW T, NEW p \in Plans, PlanSound(p, S),
         \A t \in Tasks : /\ S[t] = "done" => T[t] = "done"
                          /\ S[t] # "none" => T[t] # "none"
                          /\ T[t] \in {"queued", "running"} =>
                               S[t] \in {"queued", "running"}
  PROVE  PlanSound(p, T)
<1> SUFFICES ASSUME p \in PlanRecord
             PROVE  PlanSound(p, T)
  BY DEF PlanSound, Plans
<1>1. ASSUME NEW s \in Steps
      PROVE  StepSound(p.steps[s], T) /\ CheckSound(p, s)
  <2>1. p.steps[s].success \in Ids /\ p.steps[s].ids \subseteq Tasks
    BY DEF PlanRecord, StepType
  <2>2. StepSound(p.steps[s], S) /\ CheckSound(p, s)
    BY NoPlanIsNone DEF PlanSound
  <2> QED
    BY <2>1, <2>2 DEF StepSound, Ids
<1> QED
  BY <1>1 DEF PlanSound

LEMMA TaskBeginsKeeps ==
  ASSUME DInv, NEW t \in Tasks, TaskBegins(t)
  PROVE  DInv'
<1>1. /\ state[t] = "queued" /\ state' = [state EXCEPT ![t] = "running"]
      /\ UNCHANGED sessionVars
      /\ state \in [Tasks -> {"none", "queued", "running"} \cup Outcomes]
  BY DEF TaskBegins, Run, DInv, Typed
<1>2. /\ state' \in [Tasks -> {"none", "queued", "running"} \cup Outcomes]
      /\ state'[t] = "running" /\ \A u \in Tasks \ {t} : state'[u] = state[u]
      /\ \A u \in Tasks : Active(u)' <=> Active(u)
  BY <1>1 DEF Active
<1>3. Typed'
  BY <1>1, <1>2 DEF sessionVars, DInv, Typed
<1>4. PlanSound(plan', state')
  <2>1. \A u \in Tasks : /\ state[u] = "done" => state'[u] = "done"
                         /\ state[u] # "none" => state'[u] # "none"
                         /\ state'[u] \in {"queued", "running"} =>
                              state[u] \in {"queued", "running"}
    BY <1>1, <1>2
  <2>2. plan' = plan
    BY <1>1 DEF sessionVars
  <2> QED
    BY <2>1, <2>2, RestSound, Parts
<1>5. Reserved'
  BY <1>1, <1>2, ReservedStays DEF sessionVars, DInv
<1>6. Placed' /\ Once'
  BY <1>1 DEF sessionVars, DInv, Placed, Once, NoCallInFlight
<1>7. Told' /\ Shut'
  <2>1. Told /\ Shut
    BY DEF DInv
  <2>2. \A u \in Tasks : state'[u] \in Outcomes <=> state[u] \in Outcomes
    BY <1>1, <1>2 DEF Outcomes
  <2> QED
    BY <1>1, <1>2, <2>1, <2>2 DEF sessionVars, Told, Shut
<1> QED
  BY <1>3, <1>4, <1>5, <1>6, <1>7 DEF DInv

LEMMA TaskSettlesKeeps ==
  ASSUME DInv, NEW t \in Tasks, TaskSettles(t)
  PROVE  DInv'
<1>1. PICK outcome \in Outcomes, good \in BOOLEAN :
        Settle(t, outcome) /\ OnEvent(t, outcome, good, turn)
  BY DEF TaskSettles
<1>2. calls' = calls /\ turn \in TurnRecord /\ calls \in CallsRecord
  BY Parts DEF TaskSettles
<1>3. (NoCallInFlight)' <=> NoCallInFlight
  BY <1>2 DEF NoCallInFlight
<1> QED
  BY <1>1, <1>2, <1>3, EventKeeps

LEMMA QueuedStoppedKeeps ==
  ASSUME DInv, NEW t \in Tasks, QueuedStopped(t)
  PROVE  DInv'
<1>1. Settle(t, "stopped") /\ OnEvent(t, "stopped", TRUE, turn)
      /\ "stopped" \in Outcomes
  BY DEF QueuedStopped, Outcomes
<1>2. calls' = calls /\ turn \in TurnRecord /\ calls \in CallsRecord
  BY Parts DEF QueuedStopped
<1>3. (NoCallInFlight)' <=> NoCallInFlight
  BY <1>2 DEF NoCallInFlight
<1> QED
  BY <1>1, <1>2, <1>3, EventKeeps

LEMMA StopTaskKeeps ==
  ASSUME DInv, NEW t \in Tasks, StopTask(t)
  PROVE  DInv'
<1>1. Settle(t, "stopped") /\ OnEvent(t, "stopped", TRUE, Caller)
      /\ "stopped" \in Outcomes
  BY DEF StopTask, Outcomes
<1>2. calls' = Called(calls)
  BY DEF StopTask
<1>3. /\ calls' \in CallsRecord /\ calls'.step = calls.step
      /\ calls'.host = IF calls.host = "one" THEN "used" ELSE calls.host
  BY <1>2, Parts, Calling
<1>4. (NoCallInFlight)' <=> NoCallInFlight
  <2>1. NoneInFlight(Called(calls)) <=> NoneInFlight(calls)
    BY Parts, Calling
  <2>2. (NoCallInFlight)' <=> NoneInFlight(calls')
    BY DEF NoCallInFlight, NoneInFlight
  <2> QED
    BY <1>2, <2>1, <2>2 DEF NoCallInFlight
<1>5. Caller \in TurnRecord /\ Caller.at = turn.at /\ Caller.given = turn.given
  BY Parts, CallerTyped
<1> QED
  BY <1>1, <1>3, <1>4, <1>5, EventKeeps

\* In the states S of the tasks, t is created, which gives T.
Queueing(S, T, t) ==
  /\ S \in [Tasks -> {"none", "queued", "running"} \cup Outcomes]
  /\ S[t] = "none" /\ T = [S EXCEPT ![t] = "queued"]

\* A new task is no attempt of any step yet.
LEMMA QueueSound ==
  ASSUME NEW S, NEW T, NEW p \in Plans, PlanSound(p, S), NEW t \in Tasks,
         Queueing(S, T, t)
  PROVE  /\ PlanSound(p, T)
         /\ HasPlan(p) => \A s \in Steps : t \notin p.steps[s].ids
<1> SUFFICES ASSUME p \in PlanRecord
             PROVE  /\ PlanSound(p, T)
                    /\ \A s \in Steps : t \notin p.steps[s].ids
  BY DEF PlanSound, Plans, HasPlan
<1>1. S[t] = "none" /\ T[t] = "queued" /\ \A u \in Tasks \ {t} : T[u] = S[u]
  BY DEF Queueing
<1>2. ASSUME NEW s \in Steps
      PROVE  StepSound(p.steps[s], T) /\ CheckSound(p, s) /\ t \notin p.steps[s].ids
  <2>1. p.steps[s].success \in Ids /\ p.steps[s].ids \subseteq Tasks
    BY DEF PlanRecord, StepType
  <2>2. StepSound(p.steps[s], S) /\ CheckSound(p, s)
    BY NoPlanIsNone DEF PlanSound
  <2>3. t \notin p.steps[s].ids
    BY <1>1, <2>2 DEF StepSound
  <2> QED
    BY <1>1, <2>1, <2>2, <2>3 DEF StepSound, Ids
<1> QED
  BY <1>2 DEF PlanSound

\* The attempt t of the step s, the only active one.
LEMMA AttemptSound ==
  ASSUME NEW T, NEW p \in PlanRecord, PlanSound(p, T), NEW t \in Tasks, NEW s \in Steps,
         NEW S \in SUBSET Tasks, T[t] = "queued",
         \A u \in p.steps[s].ids : T[u] \notin {"queued", "running"},
         NEW q, q = [p EXCEPT !.steps[s] =
                      [state |-> "running", ids |-> p.steps[s].ids \cup {t},
                       work |-> t, success |-> NoTask, checked |-> S]]
  PROVE  /\ q \in PlanRecord /\ PlanSound(q, T)
         /\ \A r \in Steps \ {s} : q.steps[r] = p.steps[r]
<1> DEFINE x == [state |-> "running", ids |-> p.steps[s].ids \cup {t}, work |-> t,
                 success |-> NoTask, checked |-> S]
<1>1. p.steps[s].ids \subseteq Tasks
  BY DEF PlanRecord, StepType
<1>2. x \in StepType
  BY <1>1 DEF StepType, Ids
<1>3. /\ x.state = "running" /\ x.ids = p.steps[s].ids \cup {t} /\ x.work = t
      /\ x.success = NoTask
  OBVIOUS
<1> HIDE DEF x
<1>4. q \in PlanRecord /\ q.steps = [p.steps EXCEPT ![s] = x]
  BY <1>2, StepMoves DEF x
<1>5. q.steps[s] = x /\ \A r \in Steps \ {s} : q.steps[r] = p.steps[r]
  BY <1>4 DEF PlanRecord
<1>6. \A r \in Steps : StepSound(p.steps[r], T) /\ CheckSound(p, r)
  BY NoPlanIsNone DEF PlanSound
<1>7. StepSound(x, T)
  <2>1. StepSound(p.steps[s], T) /\ NoTask \notin Tasks
    BY <1>6, DialogueAssumption DEF DialogueAssumption
  <2> QED
    BY <1>3, <2>1 DEF StepSound
<1>8. ASSUME NEW r \in Steps
      PROVE  CheckSound(q, r)
  <2> SUFFICES ASSUME r \in Checks, q.steps[r].state = "done",
                      NEW d \in DependsOn[r], q.steps[d].success # NoTask
               PROVE  q.steps[d].success \in q.steps[r].checked
    BY DEF CheckSound
  <2>1. d \in Steps
    BY DialogueAssumption DEF DialogueAssumption
  <2>2. r # s /\ d # s
    BY <1>3, <1>5
  <2> QED
    BY <1>5, <1>6, <2>1, <2>2 DEF CheckSound
<1>9. PlanSound(q, T)
  BY <1>5, <1>6, <1>7, <1>8 DEF PlanSound
<1> QED
  BY <1>4, <1>5, <1>9

LEMMA StartAttemptKeeps ==
  ASSUME DInv, NEW s \in Steps \cup {NoStep}, NEW t \in Tasks, StartAttempt(s, t)
  PROVE  DInv'
<1> DEFINE c == [calls EXCEPT !.step[s] = Free]
           b == turn.at = "call"
<1>0. Typed /\ Reserved /\ Placed /\ Told /\ Once /\ Shut
  BY DEF DInv
<1>1. c \in CallsRecord
  BY Parts, NotAskedTyped, FreeTyped, CallsMoves
<1>2. c.step = [calls.step EXCEPT ![s] = Free] /\ c.host = calls.host
  BY Parts DEF CallsRecord
<1> HIDE DEF c
<1>3. /\ calls' \in CallsRecord /\ calls'.step = [calls.step EXCEPT ![s] = Free]
      /\ calls'.host = calls.host
  BY <1>1, <1>2, GoingOn DEF StartAttempt, c
<1>4. \A r \in Steps : calls'.step[r] # Free => r # s /\ calls.step[r] # Free
  BY <1>3, Parts DEF CallsRecord
<1>5. calls.step[s] # Free /\ calls.step[s].sources \in SUBSET Tasks
  BY Parts DEF StartAttempt, Free, CallsRecord, SlotRecord
<1>6. ~NoCallInFlight /\ session # "closed"
  BY <1>0, <1>5 DEF NoCallInFlight, NoneInFlight, Shut, Placed
<1>7. /\ Queueing(state, state', t) /\ state[t] = "none" /\ state'[t] = "queued"
      /\ state' \in [Tasks -> {"none", "queued", "running"} \cup Outcomes]
      /\ \A u \in Tasks \ {t} : state'[u] = state[u]
  BY <1>0 DEF StartAttempt, Queue, Typed, Queueing
<1>8. /\ PlanSound(plan, state')
      /\ HasPlan(plan) => \A r \in Steps : t \notin plan.steps[r].ids
  BY <1>7, Parts, QueueSound
<1>9. /\ plan' \in Plans /\ PlanSound(plan', state')
      /\ HasPlan(plan) => /\ HasPlan(plan')
                          /\ \A r \in Steps \ {s} : plan'.steps[r] = plan.steps[r]
  <2>1. CASE s = NoStep
    BY <1>8, <2>1, Parts DEF StartAttempt
  <2>2. CASE s # NoStep
    <3> DEFINE S == IF s \in Checks THEN calls.step[s].sources ELSE {}
    <3>1. s \in Steps /\ HasPlan(plan) /\ NoActiveAttempt(s)
      BY <1>0, <1>5, <2>2 DEF Reserved
    <3>2. plan \in PlanRecord /\ plan.steps[s].ids \subseteq Tasks
      BY <3>1, Parts DEF HasPlan, Plans, PlanRecord, StepType
    <3>3. \A u \in plan.steps[s].ids : state'[u] \notin {"queued", "running"}
      BY <1>7, <1>8, <3>1, <3>2 DEF NoActiveAttempt, Active
    <3>4. S \in SUBSET Tasks
      BY <1>5
    <3>5. plan' = [plan EXCEPT !.steps[s] =
                    [state |-> "running", ids |-> plan.steps[s].ids \cup {t},
                     work |-> t, success |-> NoTask, checked |-> S]]
      BY <2>2, <3>2 DEF StartAttempt, PlanRecord
    <3> HIDE DEF S
    <3>6. /\ plan' \in PlanRecord /\ PlanSound(plan', state')
          /\ \A r \in Steps \ {s} : plan'.steps[r] = plan.steps[r]
      BY <1>7, <1>8, <3>1, <3>2, <3>3, <3>4, <3>5, AttemptSound
    <3> QED
      BY <3>6, NoPlanIsNone DEF Plans, HasPlan
  <2> QED
    BY <2>1, <2>2
<1>10. Reserved'
  <2> SUFFICES ASSUME NEW r \in Steps, calls'.step[r] # Free
               PROVE  HasPlan(plan') /\ NoActiveAttempt(r)'
    BY DEF Reserved
  <2>1. r # s /\ HasPlan(plan) /\ NoActiveAttempt(r)
    BY <1>0, <1>4 DEF Reserved
  <2>2. plan'.steps[r].ids = plan.steps[r].ids /\ t \notin plan.steps[r].ids
    BY <1>8, <1>9, <2>1
  <2>3. plan.steps[r].ids \subseteq Tasks
    BY <2>1, Parts DEF HasPlan, Plans, PlanRecord, StepType
  <2> QED
    BY <1>7, <1>9, <2>1, <2>2, <2>3 DEF NoActiveAttempt, Active
<1>11. turn' \in TurnRecord /\ turn'.at = turn.at /\ turn'.given = turn.given
  <2>1. b \in BOOLEAN /\ turn' = [turn EXCEPT !.started = b]
    BY DEF StartAttempt
  <2> HIDE DEF b
  <2>2. turn' \in TurnRecord
    <3>1. 0 \in Nat /\ "idle" \in {"idle", "call", "saving"} /\ {} \in SUBSET Tasks
      OBVIOUS
    <3> QED
      BY <2>1, <3>1, Parts, TurnMoves
  <2> QED
    BY <2>1, <2>2, Parts DEF TurnRecord
<1>12. stepOf' \in [Tasks -> Steps \cup {NoStep}]
  BY <1>0 DEF StartAttempt, Typed
<1>13. Typed'
  BY <1>0, <1>3, <1>7, <1>9, <1>11, <1>12 DEF StartAttempt, Typed
<1>14. Placed'
  BY <1>0, <1>3, <1>6, <1>11 DEF StartAttempt, Placed
<1>15. Told'
  BY <1>0, <1>3, <1>7 DEF StartAttempt, Told, Outcomes
<1>16. Once' /\ Shut'
  BY <1>0, <1>6, <1>11, OnceStays, ShutStays DEF StartAttempt
<1> QED
  BY <1>9, <1>10, <1>13, <1>14, <1>15, <1>16 DEF DInv

-----------------------------------------------------------------------------
(* Messages, turns and the drain loop.                                     *)

\* A plan, slots and turn that the step leaves alone.
LEMMA PlanStays ==
  ASSUME DInv, state' = state, plan' = plan, calls'.step = calls.step
  PROVE  plan' \in Plans /\ PlanSound(plan', state') /\ Reserved'
<1>1. plan' \in Plans /\ PlanSound(plan', state')
  BY Parts
<1>2. Reserved'
  BY SlotsStay
<1> QED
  BY <1>1, <1>2

LEMMA SendKeeps ==
  ASSUME DInv, Send
  PROVE  DInv'
<1> DEFINE i == [inbox EXCEPT !.users = inbox.users + 1, !.sent = inbox.sent + 1,
                              !.external = FALSE]
<1>0. Typed /\ Reserved /\ Placed /\ Told /\ Once /\ Shut
  BY DEF DInv
<1>1. session = "open" /\ inbox' = scheduled(i)
  BY Parts DEF Send, InboxRecord
<1>2. inbox.users \in Nat /\ inbox.users + 1 \in Nat /\ inbox.sent + 1 \in Nat
  BY Parts DEF InboxRecord
<1>3. i \in InboxRecord
  <2>1. TRUE \in BOOLEAN /\ {} \in SUBSET Tasks
    OBVIOUS
  <2> QED
    BY <1>2, <2>1, Parts, InboxMoves
<1>4. /\ i.users = inbox.users + 1 /\ i.events = inbox.events
      /\ i.deferred = inbox.deferred /\ ~i.external /\ i.active = inbox.active
  BY Parts DEF InboxRecord
<1> HIDE DEF i
<1>5. /\ inbox' \in InboxRecord
      /\ inbox'.users = i.users /\ inbox'.events = i.events
      /\ inbox'.deferred = i.deferred /\ inbox'.external = i.external
      /\ inbox'.active <=>
           i.active \/ (calls.host = "no" /\ (i.users > 0 \/ ~i.external))
  BY <1>1, <1>3, Scheduling
<1>6. plan' \in Plans /\ PlanSound(plan', state') /\ Reserved'
  BY PlanStays DEF Send
<1>7. Typed'
  BY <1>0, <1>5 DEF Send, Typed
<1>8. Placed'
  BY <1>0, <1>4, <1>5 DEF Send, Placed, NoCallInFlight
<1>9. Told'
  BY <1>0, <1>1, <1>2, <1>4, <1>5 DEF Send, Told
<1>10. Once' /\ Shut'
  BY <1>0, <1>1 DEF Send, Once, Shut
<1> QED
  BY <1>6, <1>7, <1>8, <1>9, <1>10 DEF DInv

LEMMA StartTurnKeeps ==
  ASSUME DInv, StartTurn
  PROVE  DInv'
<1> DEFINE user == inbox.users > 0
           first == user /\ plan.status # "waiting_user"
           consumed == IF user THEN inbox.deferred ELSE inbox.events
           automatic == user /\ consumed = {} /\ FinishedRequest
           kept == IF automatic THEN NoPlan ELSE plan
<1>0. Typed /\ Reserved /\ Placed /\ Told /\ Once /\ Shut
  BY DEF DInv
<1>1. session = "open" /\ inbox.active /\ turn.at = "idle"
      /\ calls.host = "no" /\ NoCallInFlight
  BY <1>0 DEF StartTurn, Placed
<1>2. /\ inbox' = IF user THEN [inbox EXCEPT !.users = inbox.users - 1, !.deferred = {}]
                          ELSE [inbox EXCEPT !.events = {}]
      /\ plan' = IF user /\ HasPlan(kept) THEN [kept EXCEPT !.status = "active"]
                 ELSE kept
      /\ turn' = [NoTurn EXCEPT !.at = "call", !.user = user, !.first = first]
      /\ noted' = noted \cup consumed
  BY Parts DEF StartTurn, InboxRecord
<1>3. /\ state' = state /\ stepOf' = stepOf /\ calls' = calls /\ shown' = shown
      /\ session' = session /\ saved' = saved
  BY DEF StartTurn
<1>4. plan' \in Plans /\ PlanSound(plan', state')
  <2>1. kept \in Plans /\ PlanSound(kept, state)
    BY Parts DEF Plans, PlanSound
  <2> HIDE DEF kept
  <2>2. CASE ~(user /\ HasPlan(kept))
    BY <1>2, <1>3, <2>1, <2>2
  <2>3. CASE user /\ HasPlan(kept)
    <3>1. kept \in PlanRecord /\ kept.steps \in [Steps -> StepType]
      BY <2>1, <2>3 DEF Plans, HasPlan, PlanRecord
    <3>2. plan' = [kept EXCEPT !.status = "active"]
      BY <1>2, <2>3
    <3>3. plan' \in PlanRecord /\ plan'.steps = kept.steps
      BY <3>1, <3>2, StepsMove
    <3> QED
      BY <1>3, <2>1, <3>1, <3>3, SameSteps DEF Plans
  <2> QED
    BY <2>2, <2>3
<1>5. Reserved'
  BY <1>1, <1>3 DEF Reserved, NoCallInFlight, NoneInFlight
<1>6. turn' \in TurnRecord /\ turn'.at = "call" /\ turn'.given = NoneGiven
  <2>1. user \in BOOLEAN /\ first \in BOOLEAN
    OBVIOUS
  <2> HIDE DEF user, first
  <2>2. turn' \in TurnRecord
    <3>1. "call" \in {"idle", "call", "saving"} /\ 0 \in Nat
      OBVIOUS
    <3> QED
      BY <1>2, <2>1, <3>1, NoTurnTyped, TurnMoves
  <2> QED
    BY <1>2, <2>2 DEF NoTurn, TurnRecord
<1>7. inbox' \in InboxRecord /\ inbox'.active
      /\ inbox'.external = inbox.external
      /\ IF user THEN inbox'.deferred = {} /\ inbox'.events = inbox.events
                 ELSE inbox'.events = {} /\ inbox'.deferred = inbox.deferred
  <2>1. inbox \in InboxRecord /\ inbox.users \in Nat
    BY Parts DEF InboxRecord
  <2>2. CASE user
    <3>1. inbox.users - 1 \in Nat /\ {} \in SUBSET Tasks /\ TRUE \in BOOLEAN
      BY <2>1, <2>2
    <3>2. inbox' = [inbox EXCEPT !.users = inbox.users - 1, !.deferred = {}]
      BY <1>2, <2>2
    <3>3. inbox' \in InboxRecord
      BY <2>1, <3>1, <3>2, InboxMoves
    <3> QED
      BY <1>1, <2>1, <2>2, <3>2, <3>3 DEF InboxRecord
  <2>3. CASE ~user
    <3>1. 0 \in Nat /\ {} \in SUBSET Tasks /\ TRUE \in BOOLEAN
      OBVIOUS
    <3>2. inbox' = [inbox EXCEPT !.events = {}]
      BY <1>2, <2>3
    <3>3. inbox' \in InboxRecord
      BY <2>1, <3>1, <3>2, InboxMoves
    <3> QED
      BY <1>1, <2>1, <2>3, <3>2, <3>3 DEF InboxRecord
  <2> QED
    BY <2>2, <2>3
<1>8. Typed'
  BY <1>0, <1>3, <1>4, <1>6, <1>7 DEF Typed
<1>9. Placed'
  BY <1>1, <1>3, <1>6, <1>7 DEF Placed
<1>10. Told'
  <2> HIDE DEF user
  <2> QED
    BY <1>0, <1>1, <1>2, <1>3, <1>7 DEF Told
<1>11. Once' /\ Shut'
  BY <1>0, <1>1, <1>3, <1>6, ShutStays, NoneSpent DEF Typed
<1> QED
  BY <1>4, <1>5, <1>8, <1>9, <1>10, <1>11 DEF DInv

LEMMA SavingTyped ==
  /\ [NoTurn EXCEPT !.at = "saving"] \in TurnRecord
  /\ [NoTurn EXCEPT !.at = "saving"].at = "saving"
  /\ [NoTurn EXCEPT !.at = "saving"].given = NoneGiven
<1>1. "saving" \in {"idle", "call", "saving"}
  OBVIOUS
<1>2. [NoTurn EXCEPT !.at = "saving"] \in TurnRecord
  BY <1>1, NoTurnTyped, Zenon DEF TurnRecord
<1> QED
  BY <1>2 DEF NoTurn

LEMMA CallEndsKeeps ==
  ASSUME DInv, CallEnds
  PROVE  DInv'
<1>0. Typed /\ Reserved /\ Placed /\ Told /\ Once /\ Shut
  BY DEF DInv
<1>1. /\ turn.at = "call" /\ NoCallInFlight /\ plan' = recomputePlanStatus(plan)
      /\ state' = state /\ stepOf' = stepOf /\ calls' = calls /\ session' = session
  BY DEF CallEnds
<1>2. calls.host = "no" /\ inbox.active /\ session # "closed"
  BY <1>0, <1>1 DEF Placed, Shut
<1>3. plan' \in Plans /\ PlanSound(plan', state')
  <2>1. plan' \in Plans /\ (HasPlan(plan') <=> HasPlan(plan))
        /\ (HasPlan(plan) => plan' \in PlanRecord /\ plan'.steps = plan.steps)
    BY <1>1, Parts, Recomputed
  <2>2. CASE HasPlan(plan)
    <3>1. plan \in PlanRecord
      BY <2>2, Parts DEF Plans, HasPlan
    <3> QED
      BY <1>1, <2>1, <2>2, <3>1, Parts, SameSteps
  <2>3. CASE ~HasPlan(plan)
    BY <2>1, <2>3 DEF PlanSound, HasPlan
  <2> QED
    BY <2>1, <2>2, <2>3
<1>4. Reserved'
  BY <1>1 DEF Reserved, NoCallInFlight, NoneInFlight
<1>5. \/ /\ turn' = [turn EXCEPT !.correction = turn.correction + 1,
                                 !.delivered = FALSE, !.first = FALSE]
         /\ noted' = noted \cup inbox.events
         /\ inbox' = TakesEvents(inbox)
         /\ UNCHANGED <<shown, saved>>
      \/ TurnOver
  BY Parts DEF CallEnds, TurnRecord
<1>6. CASE /\ turn' = [turn EXCEPT !.correction = turn.correction + 1,
                                   !.delivered = FALSE, !.first = FALSE]
           /\ noted' = noted \cup inbox.events
           /\ inbox' = TakesEvents(inbox)
           /\ UNCHANGED <<shown, saved>>
  <2>1. turn.correction + 1 \in Nat
    BY Parts DEF TurnRecord
  <2>2. turn' \in TurnRecord
    <3>1. TRUE \in BOOLEAN /\ "idle" \in {"idle", "call", "saving"}
      OBVIOUS
    <3> QED
      BY <1>6, <2>1, <3>1, Parts, TurnMoves
  <2>3. turn'.at = turn.at /\ turn'.given = turn.given
    BY <1>6, Parts DEF TurnRecord
  <2>4. inbox' \in InboxRecord
    <3>1. TRUE \in BOOLEAN /\ {} \in SUBSET Tasks /\ 0 \in Nat
      OBVIOUS
    <3> QED
      BY <1>6, <3>1, Parts, InboxMoves DEF TakesEvents
  <2>5. /\ inbox'.users = inbox.users /\ inbox'.events = {}
        /\ inbox'.deferred = inbox.deferred /\ inbox'.external = inbox.external
        /\ inbox'.active = inbox.active
    BY <1>6, Parts DEF TakesEvents, InboxRecord
  <2>6. Typed'
    BY <1>0, <1>1, <1>3, <1>6, <2>2, <2>4 DEF Typed
  <2>7. Placed'
    BY <1>1, <1>2, <2>3, <2>5 DEF Placed
  <2>8. Told'
    BY <1>0, <1>1, <1>2, <1>6, <2>5 DEF Told
  <2>9. Once' /\ Shut'
    BY <1>0, <1>1, <1>2, <1>6, <2>3, OnceStays, ShutStays
  <2> QED
    BY <1>3, <1>4, <2>6, <2>7, <2>8, <2>9 DEF DInv
<1>7. CASE TurnOver
  <2>1. /\ turn' = [NoTurn EXCEPT !.at = "saving"] /\ saved' = Persist(saved)
        /\ shown' = [t \in Tasks |-> shown[t] + turn.given[t]]
        /\ inbox' = inbox /\ noted' = noted
    BY <1>7 DEF TurnOver
  <2>2. turn' \in TurnRecord /\ turn'.at = "saving" /\ turn'.given = NoneGiven
    BY <2>1, SavingTyped
  <2>3. saved' \in SavedRecord
    BY <2>1, Parts, Persisting
  <2>4. shown' \in [Tasks -> Nat] /\ Once'
    <3>1. turn.given \in [Tasks -> Nat] /\ shown \in [Tasks -> Nat]
      BY <1>0 DEF Typed, TurnRecord
    <3>2. shown' \in [Tasks -> Nat]
      BY <2>1, <3>1
    <3>3. \A t \in Tasks : shown'[t] = shown[t] + turn.given[t] /\ turn'.given[t] = 0
      BY <2>1, <2>2 DEF NoneGiven
    <3> QED
      BY <1>0, <3>1, <3>2, <3>3 DEF Once
  <2>5. Typed'
    BY <1>0, <1>1, <1>3, <2>1, <2>2, <2>3, <2>4 DEF Typed
  <2>6. Placed'
    BY <1>1, <1>2, <2>1, <2>2 DEF Placed, NoCallInFlight
  <2>7. Told' /\ Shut'
    BY <1>0, <1>1, <1>2, <2>1, ToldStays, ShutStays
  <2> QED
    BY <1>3, <1>4, <2>4, <2>5, <2>6, <2>7 DEF DInv
<1> QED
  BY <1>5, <1>6, <1>7

\* A turn that ends without an answer.
LEMMA TurnLeaves ==
  ASSUME DInv, turn.at # "idle", NoCallInFlight,
         turn' \in TurnRecord, turn'.given = NoneGiven, turn'.at \in {"idle", "saving"},
         saved' \in SavedRecord,
         UNCHANGED <<state, stepOf, plan, inbox, calls, shown, noted, session>>
  PROVE  DInv'
<1>0. Typed /\ Reserved /\ Placed /\ Told /\ Once /\ Shut
  BY DEF DInv
<1>1. calls.host = "no" /\ inbox.active /\ session # "closed"
  BY <1>0 DEF Placed, Shut
<1>2. plan' \in Plans /\ PlanSound(plan', state') /\ Reserved'
  BY PlanStays
<1>3. Typed' /\ Placed'
  BY <1>0, <1>1 DEF Typed, Placed, NoCallInFlight
<1>4. Told' /\ Once' /\ Shut'
  BY <1>0, <1>1, ToldStays, NoneSpent, ShutStays
<1> QED
  BY <1>2, <1>3, <1>4 DEF DInv

LEMMA CallFailsKeeps ==
  ASSUME DInv, CallFails
  PROVE  DInv'
<1>1. saved' \in SavedRecord
  BY Parts, Persisting DEF CallFails
<1> QED
  BY <1>1, SavingTyped, TurnLeaves DEF CallFails

LEMMA TurnSettlesKeeps ==
  ASSUME DInv, TurnSettles
  PROVE  DInv'
<1>1. NoCallInFlight
  BY DEF DInv, Placed, TurnSettles
<1> QED
  BY <1>1, Parts, NoTurnTyped, TurnLeaves DEF TurnSettles

LEMMA DrainEndsKeeps ==
  ASSUME DInv, DrainEnds
  PROVE  DInv'
<1>0. Typed /\ Reserved /\ Placed /\ Told /\ Once /\ Shut
  BY DEF DInv
<1>1. inbox' \in InboxRecord
  <2>1. FALSE \in BOOLEAN /\ {} \in SUBSET Tasks /\ 0 \in Nat
    OBVIOUS
  <2> QED
    BY <2>1, Parts, InboxMoves DEF DrainEnds
<1>2. /\ inbox'.users = inbox.users /\ inbox'.events = inbox.events
      /\ inbox'.deferred = inbox.deferred /\ inbox'.external = inbox.external
      /\ ~inbox'.active
  BY Parts DEF DrainEnds, InboxRecord
<1>3. calls.host = "no" /\ turn.at = "idle" /\ session # "closed"
  BY <1>0 DEF DrainEnds, Placed, Shut
<1>4. plan' \in Plans /\ PlanSound(plan', state') /\ Reserved'
  BY PlanStays DEF DrainEnds
<1>5. Typed'
  BY <1>0, <1>1 DEF DrainEnds, Typed
<1>6. Placed'
  BY <1>0, <1>2, <1>3 DEF DrainEnds, Placed, NoCallInFlight
<1>7. Told'
  <2>1. session = "open" => inbox.events = {}
    BY <1>0, Parts DEF DrainEnds, Waits, Told, InboxRecord
  <2> QED
    BY <1>0, <1>2, <1>3, <2>1 DEF DrainEnds, Told
<1>8. Once' /\ Shut'
  BY <1>0, <1>3, OnceStays, ShutStays DEF DrainEnds
<1> QED
  BY <1>4, <1>5, <1>6, <1>7, <1>8 DEF DInv

-----------------------------------------------------------------------------
(* The host's call, saves and close().                                     *)

LEMMA HostCallsKeeps ==
  ASSUME DInv, HostCalls
  PROVE  DInv'
<1>0. Typed /\ Reserved /\ Placed /\ Told /\ Once /\ Shut
  BY DEF DInv
<1>1. inbox' \in InboxRecord
  <2>1. TRUE \in BOOLEAN /\ {} \in SUBSET Tasks /\ 0 \in Nat
    OBVIOUS
  <2> QED
    BY <2>1, Parts, InboxMoves DEF HostCalls
<1>2. /\ inbox'.users = inbox.users /\ inbox'.events = inbox.events
      /\ inbox'.deferred = inbox.deferred /\ inbox'.external
      /\ inbox'.active = inbox.active
  BY Parts DEF HostCalls, InboxRecord
<1>3. calls' \in CallsRecord
  <2>1. TRUE \in BOOLEAN /\ "one" \in {"no", "one", "used", "saving"}
    OBVIOUS
  <2> QED
    BY <2>1, Parts, HostMoves DEF HostCalls
<1>4. /\ calls'.host = "one" /\ calls'.step = calls.step
      /\ calls'.author = calls.author /\ calls'.deliver = calls.deliver
  BY Parts DEF HostCalls, CallsRecord
<1>5. (NoCallInFlight)' <=> NoCallInFlight
  BY <1>4 DEF NoCallInFlight, NoneInFlight
<1>6. ~inbox.active /\ turn.at = "idle" /\ NoCallInFlight /\ inbox.events = {}
  BY <1>0 DEF HostCalls, Quiet, Placed, Told
<1>7. plan' \in Plans /\ PlanSound(plan', state') /\ Reserved'
  BY <1>4, PlanStays DEF HostCalls
<1>8. Typed'
  BY <1>0, <1>1, <1>3 DEF HostCalls, Typed
<1>9. Placed'
  BY <1>2, <1>5, <1>6 DEF HostCalls, Placed
<1>10. Told'
  BY <1>0, <1>2, <1>6 DEF HostCalls, Told
<1>11. Once' /\ Shut'
  BY <1>0, OnceStays, ShutStays DEF HostCalls
<1> QED
  BY <1>7, <1>8, <1>9, <1>10, <1>11 DEF DInv

LEMMA HostSavesKeeps ==
  ASSUME DInv, HostSaves
  PROVE  DInv'
<1>1. calls' \in CallsRecord
  <2>1. TRUE \in BOOLEAN /\ "saving" \in {"no", "one", "used", "saving"}
    OBVIOUS
  <2> QED
    BY <2>1, Parts, HostMoves DEF HostSaves
<1>2. /\ calls'.host = "saving" /\ calls'.step = calls.step
      /\ calls'.author = calls.author /\ calls'.deliver = calls.deliver
  BY Parts DEF HostSaves, CallsRecord
<1>3. (NoCallInFlight)'
  BY <1>2 DEF HostSaves, NoCallInFlight, NoneInFlight
<1>4. saved' \in SavedRecord /\ session # "closed"
  BY Parts, Persisting DEF HostSaves, DInv, Shut
<1>5. plan' \in Plans /\ PlanSound(plan', state') /\ Reserved'
  BY <1>2, PlanStays DEF HostSaves
<1>6. turn' \in TurnRecord /\ turn'.at = turn.at /\ Once'
  BY Parts, OnceStays DEF HostSaves
<1>7. calls.host # "no"
  BY DEF HostSaves
<1>8. plan' \in Plans /\ PlanSound(plan', state)
  BY Parts DEF HostSaves
<1>9. /\ state' = state /\ stepOf' = stepOf /\ session' = session
      /\ inbox' = inbox /\ noted' = noted /\ shown' = shown
  BY DEF HostSaves
<1> QED
  BY <1>1, <1>2, <1>3, <1>4, <1>5, <1>6, <1>7, <1>8, <1>9, Frame

LEMMA HostSettlesKeeps ==
  ASSUME DInv, HostSettles
  PROVE  DInv'
<1>0. Typed /\ Reserved /\ Placed /\ Told /\ Once /\ Shut
  BY DEF DInv
<1>1. calls' \in CallsRecord
  <2>1. TRUE \in BOOLEAN /\ "no" \in {"no", "one", "used", "saving"}
    OBVIOUS
  <2> QED
    BY <2>1, Parts, HostMoves DEF HostSettles
<1>2. /\ calls'.host = "no" /\ calls'.step = calls.step
      /\ calls'.author = calls.author /\ calls'.deliver = calls.deliver
  BY Parts DEF HostSettles, CallsRecord
<1>3. turn.at = "idle" /\ NoCallInFlight /\ session # "closed"
  BY <1>0 DEF HostSettles, Placed, Shut, Typed, TurnRecord
<1>4. (NoCallInFlight)'
  BY <1>2, <1>3 DEF NoCallInFlight, NoneInFlight
<1>5. /\ inbox' \in InboxRecord
      /\ inbox'.users = inbox.users /\ inbox'.events = inbox.events
      /\ inbox'.deferred = inbox.deferred /\ inbox'.external = inbox.external
      /\ inbox'.active <=> inbox.active \/ (session = "open" /\ inbox.users > 0)
  BY Parts, Coming DEF HostSettles
<1>6. plan' \in Plans /\ PlanSound(plan', state') /\ Reserved'
  BY <1>2, PlanStays DEF HostSettles
<1>7. Typed'
  BY <1>0, <1>1, <1>5 DEF HostSettles, Typed
<1>8. Placed'
  BY <1>2, <1>3, <1>4 DEF HostSettles, Placed
<1>9. Told'
  <2>1. session = "open" /\ inbox.users = 0 => inbox.events = {}
    BY <1>0 DEF HostSettles, Told
  <2>2. inbox.users > 0 \/ inbox.users = 0
    BY Parts DEF InboxRecord
  <2> QED
    BY <1>0, <1>2, <1>5, <2>1, <2>2 DEF HostSettles, Told
<1>10. Once' /\ Shut'
  BY <1>0, <1>3, OnceStays, ShutStays DEF HostSettles
<1> QED
  BY <1>6, <1>7, <1>8, <1>9, <1>10 DEF DInv

LEMMA SavingKeeps ==
  ASSUME DInv, SaveStarts \/ SaveLands
  PROVE  DInv'
<1>1. saved' \in SavedRecord
  <2>1. CASE SaveStarts
    <3> DEFINE b == session = "open"
    <3>1. b \in BOOLEAN /\ FALSE \in BOOLEAN
      OBVIOUS
    <3>2. saved' = [saved EXCEPT !.queued = FALSE, !.flying = b]
      BY <2>1 DEF SaveStarts
    <3> HIDE DEF b
    <3> QED
      BY <3>1, <3>2, Parts, SavedMoves
  <2>2. CASE SaveLands
    <3>1. PICK ok \in BOOLEAN :
            saved' = [saved EXCEPT !.flying = FALSE, !.row = saved.row \/ ok]
      BY <2>2, Parts DEF SaveLands, SavedRecord
    <3> DEFINE b == saved.row \/ ok
    <3>2. b \in BOOLEAN /\ FALSE \in BOOLEAN
      OBVIOUS
    <3>3. saved' = [saved EXCEPT !.flying = FALSE, !.row = b]
      BY <3>1
    <3> HIDE DEF b
    <3> QED
      BY <3>2, <3>3, Parts, SavedMoves
  <2> QED
    BY <2>1, <2>2
<1>2. session # "closed"
  BY DEF SaveStarts, SaveLands, DInv, Shut
<1>3. /\ state' = state /\ stepOf' = stepOf /\ session' = session
      /\ inbox' = inbox /\ noted' = noted /\ shown' = shown
      /\ plan' = plan /\ turn' = turn /\ calls' = calls
  BY DEF SaveStarts, SaveLands
<1>4. /\ plan' \in Plans /\ PlanSound(plan', state) /\ Reserved' /\ Once'
      /\ turn' \in TurnRecord /\ calls' \in CallsRecord
  BY <1>3, Parts, PlanStays, OnceStays
<1>5. (NoCallInFlight)' \/ turn.at = "call" \/ calls'.host = "used"
  BY <1>3, Parts DEF NoCallInFlight
<1> QED
  BY <1>1, <1>2, <1>3, <1>4, <1>5, Frame

LEMMA CloseKeeps ==
  ASSUME DInv, Close
  PROVE  DInv'
<1>0. Typed /\ Reserved /\ Placed /\ Told /\ Once /\ Shut
  BY DEF DInv
<1>1. inbox' \in InboxRecord
  <2>1. FALSE \in BOOLEAN /\ {} \in SUBSET Tasks /\ 0 \in Nat
    OBVIOUS
  <2> QED
    BY <2>1, Parts, InboxMoves DEF Close
<1>2. inbox'.active = inbox.active
  BY Parts DEF Close, InboxRecord
<1>3. plan' \in Plans /\ PlanSound(plan', state') /\ Reserved'
  BY PlanStays DEF Close
<1>4. Typed'
  BY <1>0, <1>1 DEF Close, Typed
<1>5. Placed'
  BY <1>0, <1>2 DEF Close, Placed, NoCallInFlight
<1>6. Told' /\ Shut'
  BY DEF Close, Told, Shut
<1>7. Once'
  BY <1>0, OnceStays DEF Close
<1> QED
  BY <1>3, <1>4, <1>5, <1>6, <1>7 DEF DInv

LEMMA CloseEndsKeeps ==
  ASSUME DInv, CloseEnds
  PROVE  DInv'
<1>0. Typed /\ Reserved /\ Placed /\ Told /\ Once /\ Shut
  BY DEF DInv
<1>1. saved' \in SavedRecord
  <2>1. FALSE \in BOOLEAN
    OBVIOUS
  <2> QED
    BY <2>1, Parts, SavedMoves DEF CloseEnds
<1>2. ~saved'.row /\ ~saved'.queued /\ ~saved'.flying
  BY Parts DEF CloseEnds, SavesAwaited, SavedRecord
<1>3. turn.at = "idle"
  BY <1>0 DEF CloseEnds, Placed, Typed, TurnRecord
<1>4. plan' \in Plans /\ PlanSound(plan', state') /\ Reserved'
  BY PlanStays DEF CloseEnds
<1>5. Typed'
  BY <1>0, <1>1 DEF CloseEnds, Typed
<1>6. Placed' /\ Told' /\ Once'
  BY <1>0, OnceStays DEF CloseEnds, Placed, Told, NoCallInFlight
<1>7. Shut'
  BY <1>2, <1>3 DEF CloseEnds, Shut, Busy, Active
<1> QED
  BY <1>4, <1>5, <1>6, <1>7 DEF DInv

-----------------------------------------------------------------------------
(* The invariant.                                                          *)

LEMMA ToolKeeps ==
  ASSUME DInv, Tool
  PROVE  DInv'
<1>1. ASSUME NEW s \in Steps \cup {NoStep},
             \/ Reserve(s) \/ ReadSources(s) \/ ReserveFails(s)
             \/ \E t \in Tasks : StartAttempt(s, t)
      PROVE  DInv'
  BY <1>1, ReserveKeeps, ReadSourcesKeeps, ReserveFailsKeeps, StartAttemptKeeps
<1>2. ASSUME NEW t \in Tasks, StopTask(t) \/ DeliverBegins(t) \/ DeliverEnds(t)
      PROVE  DInv'
  BY <1>2, StopTaskKeeps, DeliverBeginsKeeps, DeliverEndsKeeps
<1>3. ASSUME NEW s \in Steps, Reopen(s)
      PROVE  DInv'
  BY <1>3, ReopenKeeps
<1>4. CASE \/ CreatePlan \/ AskUser \/ AuthorBegins \/ AuthorEnds \/ NewRequest
           \/ StatusRead
  BY <1>4, CreatePlanKeeps, AskUserKeeps, AuthorBeginsKeeps, AuthorEndsKeeps,
     NewRequestKeeps, StatusReadKeeps
<1> QED
  BY <1>1, <1>2, <1>3, <1>4 DEF Tool

LEMMA StutterKeeps ==
  ASSUME DInv, UNCHANGED vars
  PROVE  DInv'
BY DEF vars, sessionVars, DInv, Typed, PlanSound, Reserved, NoActiveAttempt, Active,
       Placed, NoCallInFlight, Told, Once, Shut

LEMMA StepKeeps == DInv /\ [DialogueNext]_vars => DInv'
<1> SUFFICES ASSUME DInv, [DialogueNext]_vars
             PROVE  DInv'
  OBVIOUS
<1>1. ASSUME NEW t \in Tasks, TaskBegins(t) \/ TaskSettles(t) \/ QueuedStopped(t)
      PROVE  DInv'
  BY <1>1, TaskBeginsKeeps, TaskSettlesKeeps, QueuedStoppedKeeps
<1>2. CASE Send \/ StartTurn \/ CallEnds \/ CallFails \/ TurnSettles \/ DrainEnds
  BY <1>2, SendKeeps, StartTurnKeeps, CallEndsKeeps, CallFailsKeeps, TurnSettlesKeeps,
     DrainEndsKeeps
<1>3. CASE Tool
  BY <1>3, ToolKeeps
<1>4. CASE HostCalls \/ HostSaves \/ HostSettles
  BY <1>4, HostCallsKeeps, HostSavesKeeps, HostSettlesKeeps
<1>5. CASE SaveStarts \/ SaveLands \/ Close \/ CloseEnds
  BY <1>5, SavingKeeps, CloseKeeps, CloseEndsKeeps
<1>6. CASE UNCHANGED vars
  BY <1>6, StutterKeeps
<1> QED
  BY <1>1, <1>2, <1>3, <1>4, <1>5, <1>6 DEF DialogueNext

LEMMA InvHolds == DialogueSpec => []DInv
BY InvInit, StepKeeps, PTL DEF DialogueSpec

-----------------------------------------------------------------------------
(* What the session guarantees.                                            *)

Listed ==
  /\ told \in [Tasks -> Nat]
  /\ owned \subseteq Tasks /\ cut \subseteq Tasks /\ noted \subseteq Tasks

LEMMA ListedHolds == DialogueSpec => []Listed
<1>1. DialogueInit => Listed
  BY DEF DialogueInit, TasksInit, Listed
<1>2. DInv /\ Listed /\ [DialogueNext]_vars => Listed'
  <2> SUFFICES ASSUME DInv, Listed, [DialogueNext]_vars
               PROVE  Listed'
    OBVIOUS
  <2>1. inbox.events \subseteq Tasks /\ inbox.deferred \subseteq Tasks
    BY Parts DEF InboxRecord
  <2>2. told' \in [Tasks -> Nat]
    <3>1. told' = told \/ \E t \in Tasks : told' = [told EXCEPT ![t] = @ + 1]
      BY DEF DialogueNext, Tool, TaskBegins, Run, TaskSettles, Settle, QueuedStopped,
         Send, StartTurn, CallEnds, CallFails, TurnSettles, DrainEnds, Reserve,
         ReadSources, ReserveFails, StartAttempt, Queue, StopTask, DeliverBegins,
         DeliverEnds, Reopen, CreatePlan, AskUser, SetPlan, AuthorBegins, AuthorEnds,
         NewRequest, StatusRead, HostCalls, HostSaves, HostSettles, SaveStarts,
         SaveLands, Close, CloseEnds, vars
    <3> QED
      BY <3>1 DEF Listed
  <2>3. owned' \subseteq Tasks /\ cut' \subseteq Tasks
    BY DEF Listed, OnEvent, DialogueNext, Tool, TaskBegins, Run, TaskSettles, Settle,
       QueuedStopped, Send, StartTurn, CallEnds, CallFails, TurnSettles, DrainEnds,
       Reserve, ReadSources, ReserveFails, StartAttempt, Queue, StopTask,
       DeliverBegins, DeliverEnds, Reopen, CreatePlan, AskUser, SetPlan, AuthorBegins,
       AuthorEnds, NewRequest, StatusRead, HostCalls, HostSaves, HostSettles,
       SaveStarts, SaveLands, Close, CloseEnds, vars, sessionVars
  <2>4. noted' \subseteq Tasks
    <3>1. noted' \in {noted, noted \cup inbox.events, noted \cup inbox.deferred}
      BY DEF OnEvent, DialogueNext, Tool, TaskBegins, TaskSettles, QueuedStopped, Send,
         StartTurn, CallEnds, TurnOver, CallFails, TurnSettles, DrainEnds, Reserve,
         ReadSources, ReserveFails, StartAttempt, StopTask, DeliverBegins, DeliverEnds,
         Reopen, CreatePlan, AskUser, SetPlan, AuthorBegins, AuthorEnds, NewRequest,
         StatusRead, HostCalls, HostSaves, HostSettles, SaveStarts, SaveLands, Close,
         CloseEnds, vars, sessionVars
    <3> QED
      BY <2>1, <3>1 DEF Listed
  <2> QED
    BY <2>2, <2>3, <2>4 DEF Listed
<1> QED
  BY <1>1, <1>2, InvHolds, PTL DEF DialogueSpec

\* The session's state has its types, and tools run in a turn or in the host's call,
\* never in both (drain(), callTool()).
THEOREM SessionTypeCorrect == DialogueSpec => []DialogueTypeOK
<1>1. DInv /\ Listed => DialogueTypeOK
  <2> SUFFICES ASSUME DInv, Listed PROVE DialogueTypeOK
    OBVIOUS
  <2>1. Typed /\ Placed
    BY DEF DInv
  <2>2. \/ plan = NoPlan
        \/ /\ plan.status \in {"active", "waiting_user", "done"}
           /\ plan.steps \in [Steps -> StepType]
    BY Parts DEF Plans, PlanRecord
  <2>3. calls.host \in {"no", "one", "used", "saving"}
        /\ turn.at \in {"idle", "call", "saving"}
    BY Parts DEF CallsRecord, TurnRecord
  <2> QED
    BY <2>1, <2>2, <2>3 DEF Typed, Placed, Listed, DialogueTypeOK, TasksTypeOK
<1> QED
  BY <1>1, InvHolds, ListedHolds, PTL

\* Evidence: a step that is done rests on its latest attempt, which is done; a check
\* that stands was made of the latest successful work of its sources, although an
\* attempt may start between the reading of the sources and the start of the check;
\* and a step never has two active attempts (delegate_task, applyTaskEvent()).
THEOREM EvidenceIsCurrent == DialogueSpec => []EvidenceCurrent
<1>1. DInv => EvidenceCurrent
  <2> SUFFICES ASSUME DInv, HasPlan(plan), NEW s \in Steps
               PROVE  LET x == plan.steps[s] IN
                      /\ x.state = "done" => /\ x.work # NoTask
                                             /\ state[x.work] = "done"
                                             /\ x.success = x.work
                      /\ s \in Checks /\ x.state = "done" =>
                           \A d \in DependsOn[s] :
                             plan.steps[d].success # NoTask =>
                               plan.steps[d].success \in x.checked
                      /\ Cardinality({t \in x.ids : Active(t)}) <= 1
                      /\ x.state = "running" => x.work # NoTask
    BY DEF EvidenceCurrent
  <2>1. StepSound(plan.steps[s], state) /\ CheckSound(plan, s)
    BY Parts DEF PlanSound, HasPlan
  <2>2. Cardinality({t \in plan.steps[s].ids : Active(t)}) <= 1
    <3> DEFINE A == {t \in plan.steps[s].ids : Active(t)}
    <3>1. CASE A = {}
      BY <3>1, FS_EmptySet
    <3>2. CASE A # {}
      <4>1. PICK t : A = {t}
        BY <2>1, <3>2 DEF StepSound, Active
      <4> QED
        BY <4>1, FS_Singleton
    <3> QED
      BY <3>1, <3>2
  <2> QED
    BY <2>1, <2>2 DEF StepSound, CheckSound
<1> QED
  BY <1>1, InvHolds, PTL

\* Outcomes: while the session is open, a settled task waits in one place, for the
\* drain loop or for the user, or a planner was told of it; and once the host calls
\* tools itself nothing is left in the queue that wakes a planner (enqueueEvent(),
\* turn(), callTool()).
THEOREM OutcomesAreTold == DialogueSpec => []OutcomesReach
<1>1. DInv => OutcomesReach
  <2> SUFFICES ASSUME Told, session = "open", NEW t \in Tasks, state[t] \in Outcomes
               PROVE  Cardinality({q \in {1, 2, 3} :
                        t \in <<inbox.events, inbox.deferred, noted>>[q]}) = 1
    BY DEF DInv, Told, OutcomesReach
  <2> DEFINE Q == {q \in {1, 2, 3} : t \in <<inbox.events, inbox.deferred, noted>>[q]}
  <2>1. \/ t \in inbox.events /\ t \notin inbox.deferred /\ t \notin noted
        \/ t \notin inbox.events /\ t \in inbox.deferred /\ t \notin noted
        \/ t \notin inbox.events /\ t \notin inbox.deferred /\ t \in noted
    BY DEF Told
  <2>2. Q = {1} \/ Q = {2} \/ Q = {3}
    BY <2>1
  <2> QED
    BY <2>2, FS_Singleton
<1> QED
  BY <1>1, InvHolds, PTL

\* Deliveries: a task's result is delivered at most once, in whatever order deliver
\* calls that read it side by side, and the end of their turn, come (turn(): deliver).
THEOREM ResultsDeliveredOnce == DialogueSpec => []DeliveredOnce
<1>1. ASSUME DInv PROVE DeliveredOnce
  <2>1. turn.given \in [Tasks -> Nat] /\ shown \in [Tasks -> Nat] /\ Once
    BY <1>1 DEF DInv, Typed, TurnRecord
  <2>2. ASSUME NEW t \in Tasks PROVE shown[t] <= 1
    <3>1. turn.given[t] \in Nat /\ shown[t] \in Nat /\ shown[t] + turn.given[t] <= 1
      BY <2>1 DEF Once
    <3> QED
      BY <3>1
  <2> QED
    BY <2>2 DEF DeliveredOnce
<1> QED
  BY <1>1, InvHolds, PTL

\* Closing: a closed session has no active task, no turn, no tool call in flight, no
\* save under way and no row (finishClose()).
THEOREM ClosedLeavesNothing == DialogueSpec => []ClosedForGood
<1>1. DInv => ClosedForGood
  BY DEF DInv, Shut, Placed, ClosedForGood, Busy
<1> QED
  BY <1>1, InvHolds, PTL

================================================================================
