--------------------------- MODULE DialogueSession ---------------------------
(***************************************************************************)
(* A dialogue session (coordinator/dialogue/dialogue-session.ts): the      *)
(* user's messages and the outcomes of background tasks wake one drain     *)
(* loop, whose turns call a planner; the planner's tools                   *)
(* (planner-tools-client.ts) delegate tasks, edit a plan                   *)
(* (structured-plan.ts) and deliver results.  Of the task board the        *)
(* session sees what Tasks promises.                                       *)
(*                                                                         *)
(* An action is the code between two awaits.  The tools of one round run   *)
(* side by side, so a delegation is three steps (the profile resolved, the *)
(* sources read, the task started), a planning call and a delivery two.    *)
(***************************************************************************)
EXTENDS Tasks, FiniteSets

CONSTANTS
  NoTask,
  Steps,           \* steps of a plan
  DependsOn,       \* DependsOn[s]: the steps s depends on
  Checks,          \* the steps that check the results of the others
  NoStep,
  MaxCorrections,
  HostTools,       \* whether the host calls planner tools itself
  MayClose,        \* BOUND: whether the session may be closed
  MaxSends,        \* BOUND: user messages
  MaxEdits,        \* BOUND: plans made
  MaxTwins         \* BOUND: deliveries of one result in flight

ASSUME DialogueAssumption ==
  /\ NoTask \notin Tasks /\ NoStep \notin Steps
  /\ DependsOn \in [Steps -> SUBSET Steps] /\ Checks \subseteq Steps
  /\ MaxCorrections \in Nat /\ HostTools \in BOOLEAN /\ MayClose \in BOOLEAN
  /\ MaxSends \in Nat /\ MaxEdits \in Nat /\ MaxTwins \in Nat

VARIABLES
  cut,         \* stopped tasks with an error: the hard stop cut them off
  owned,       \* taskRequests: the tasks of the last request
  stepOf,      \* taskSteps
  plan,        \* the plan, or NoPlan
  request,     \* the open request
  inbox,       \* what waits for the drain loop
  turn,        \* the turn of the drain loop
  calls,       \* tool calls in flight
  shown,       \* how often each result was delivered
  noted,       \* outcomes a planner was told of
  session,     \* "open", "closing", "closed"
  saved,       \* the chain of saves and the stored row
  made         \* plans so far

sessionVars == <<cut, owned, stepOf, plan, request, inbox, turn, calls, shown,
                 noted, session, saved, made>>
vars == <<state, told, sessionVars>>

-----------------------------------------------------------------------------
NoPlan == [status |-> "none"]
NewStep == [state |-> "pending", ids |-> {}, work |-> NoTask, success |-> NoTask,
            checked |-> {}]
NewPlan == [status |-> "active", steps |-> [s \in Steps |-> NewStep]]
NoneGiven == [t \in Tasks |-> 0]
NoTurn == [at |-> "idle", user |-> FALSE, correction |-> 0, first |-> FALSE,
           started |-> FALSE, read |-> FALSE, waiting |-> FALSE,
           given |-> NoneGiven, delivered |-> FALSE]
Free == [at |-> "free", sources |-> {}]
NotAsked == [at |-> "free", was |-> NoPlan]
NoCalls == [step |-> [s \in Steps \cup {NoStep} |-> Free], author |-> NotAsked,
            deliver |-> [t \in Tasks |-> 0], host |-> "no",
            going |-> FALSE]

DialogueInit ==
  /\ TasksInit
  /\ cut = {} /\ noted = {}
  /\ owned = {}
  /\ stepOf = [t \in Tasks |-> NoStep]
  /\ plan = NoPlan
  /\ request = [open |-> FALSE, lastOk |-> FALSE, resolved |-> {}]
  /\ inbox = [users |-> 0, sent |-> 0, events |-> {}, deferred |-> {},
              external |-> FALSE, active |-> FALSE]
  /\ turn = NoTurn
  /\ calls = NoCalls
  /\ shown = NoneGiven
  /\ session = "open"
  /\ saved = [queued |-> FALSE, flying |-> FALSE, row |-> FALSE]
  /\ made = 0

-----------------------------------------------------------------------------
(* The plan.                                                               *)

HasPlan(p) == p # NoPlan
dependenciesDone(p, s) == \A d \in DependsOn[s] : p.steps[d].state = "done"
readySteps(p) ==
  {s \in Steps : p.steps[s].state = "pending" /\ dependenciesDone(p, s)}

\* The evidence of a check is of the latest successful work of its sources.
checkSourcesCurrent(p, s) ==
  \A d \in DependsOn[s] :
    p.steps[d].success # NoTask /\ p.steps[d].success \in p.steps[s].checked

resetStaleCheck(x) ==
  [x EXCEPT !.state = "pending", !.work = NoTask, !.success = NoTask, !.checked = {}]

recomputePlanStatus(p) ==
  IF ~HasPlan(p) \/ p.status = "waiting_user" THEN p
  ELSE IF \A s \in Steps : p.steps[s].state = "done" THEN [p EXCEPT !.status = "done"]
  ELSE IF p.status = "done" THEN [p EXCEPT !.status = "active"]
  ELSE p

\* FAULT: a success leaves the checks of the earlier result standing.
ChecksStand(p, s) == p

\* A success of s takes the checks of its earlier results back.
ChecksReset(p, s) ==
  [p EXCEPT !.steps = [c \in Steps |->
     IF c \in Checks /\ s \in DependsOn[c] /\ ~checkSourcesCurrent(p, c)
     THEN resetStaleCheck(@[c]) ELSE @[c]]]

\* Only the current attempt of a step has a say.
CurrentAttempt(p, t, s) == s # NoStep /\ p.steps[s].work = t

\* applyTaskEvent(): the outcome of t, good when it is done and its result does.
applyTaskEvent(p, t, s, outcome, good) ==
  IF ~HasPlan(p) THEN p
  ELSE IF ~CurrentAttempt(p, t, s) THEN p
  ELSE IF s \in Checks /\ ~checkSourcesCurrent(p, s)
  THEN [p EXCEPT !.steps[s] = resetStaleCheck(@)]
  ELSE LET done == outcome = "done" /\ (good \/ s \in Checks)
           q == [p EXCEPT
             !.steps[s].success = IF done THEN t ELSE NoTask,
             !.steps[s].state = IF outcome = "done" /\ good THEN "done" ELSE "failed"]
       IN IF done THEN ChecksReset(q, s) ELSE q

\* A passing check of the latest result, and no failing one.
deliveryChecksPassed(p, s) ==
  LET checks == {c \in Checks : s \in DependsOn[c]}
      latest == {c \in checks : \A n \in checks : c \notin DependsOn[n]} IN
  \/ checks = {}
  \/ /\ \E c \in latest : p.steps[c].state = "done" /\ checkSourcesCurrent(p, c)
     /\ \A c \in latest : p.steps[c].state # "failed"

-----------------------------------------------------------------------------
(* Requests.                                                               *)

Busy == \E t \in Tasks : Active(t)

\* Failures of the open request no later attempt made good.
unresolvedFailures ==
  {t \in owned : /\ t \notin request.resolved
                 /\ state[t] \in {"failed", "interrupted"} \/ t \in cut
                 /\ LET s == stepOf[t] IN
                    ~HasPlan(plan) \/ s = NoStep
                      \/ /\ plan.steps[s].state # "done"
                         /\ \/ plan.steps[s].work = NoTask
                            \/ state[plan.steps[s].work] # "done"}

\* A request that is finished is closed by the next user message.
FinishedRequest ==
  /\ request.open /\ request.lastOk
  /\ plan.status \in {"none", "done"}
  /\ unresolvedFailures = {}
  /\ inbox.events = {} /\ ~Busy

NextRequest == [open |-> TRUE, lastOk |-> FALSE, resolved |-> {}]

-----------------------------------------------------------------------------
(* Waking the drain loop.                                                  *)

Waits(i) == i.users > 0 \/ (i.events # {} /\ ~i.external)

\* schedule(): one drain loop, not while the host's tool call runs.
scheduled(i) ==
  [i EXCEPT !.active = @ \/ (session = "open" /\ calls.host = "no"
                                /\ (i.users > 0 \/ ~i.external))]

\* enqueueEvent(): outcomes a host may poll for wait for the next user.
Enqueued(i, t) ==
  IF i.external THEN [i EXCEPT !.deferred = @ \cup {t}]
                ELSE [i EXCEPT !.events = @ \cup {t}]

\* The board's event reaches the session in the step that settles the task.
OnEvent(t, outcome, good, caller) ==
  /\ plan' = recomputePlanStatus(
       IF t \in owned /\ request.open
       THEN applyTaskEvent(plan, t, stepOf[t], outcome, good) ELSE plan)
  /\ IF session = "open"
     THEN /\ inbox' = scheduled(Enqueued(inbox, t))
          /\ turn' = [caller EXCEPT !.read = FALSE]
          /\ saved' = [saved EXCEPT !.queued = @ \/ inbox.external]
     ELSE turn' = caller /\ UNCHANGED <<inbox, saved>>
  /\ UNCHANGED <<owned, stepOf, request, shown, noted, session, made>>

TaskBegins(t) == Run(t) /\ UNCHANGED sessionVars

\* A result that does not do: a failed check, a batch over its tool budget.
TaskSettles(t) ==
  /\ state[t] = "running"
  /\ \E outcome \in Outcomes, good \in BOOLEAN :
       /\ good \/ outcome \in {"done", "stopped"}
       /\ Settle(t, outcome)
       /\ OnEvent(t, outcome, good, turn)
       /\ cut' = IF outcome = "stopped" /\ ~good THEN cut \cup {t} ELSE cut
  /\ UNCHANGED calls

\* FAULT: a task delegated by the settling turn is left in the queue.
LeftQueued(t) == FALSE

\* The board stops a queued task while the session closes.
QueuedStopped(t) ==
  /\ session = "closing"
  /\ state[t] = "queued"
  /\ Settle(t, "stopped")
  /\ OnEvent(t, "stopped", TRUE, turn)
  /\ UNCHANGED <<cut, calls>>

-----------------------------------------------------------------------------
(* Turns.                                                                  *)

Send ==
  /\ session = "open" /\ inbox.sent < MaxSends
  /\ inbox' = scheduled([inbox EXCEPT !.users = @ + 1, !.sent = @ + 1,
                                      !.external = FALSE])
  /\ UNCHANGED <<state, told, cut, owned, stepOf, plan, request, turn, calls,
                 shown, noted, session, saved, made>>

\* The drain loop takes a user first, with the outcomes deferred for it; else the
\* outcomes that wait.  beginRequest() closes a finished request.
StartTurn ==
  /\ session = "open" /\ inbox.active /\ turn.at = "idle"
  /\ Waits(inbox)
  /\ LET user == inbox.users > 0
         consumed == IF user THEN inbox.deferred ELSE inbox.events
         automatic == user /\ consumed = {} /\ FinishedRequest
         kept == IF automatic THEN NoPlan ELSE plan IN
     /\ inbox' = IF user THEN [inbox EXCEPT !.users = @ - 1, !.deferred = {}]
                          ELSE [inbox EXCEPT !.events = {}]
     /\ IF automatic \/ ~request.open
        THEN request' = NextRequest /\ owned' = {}
        ELSE request' = [request EXCEPT !.lastOk = FALSE] /\ UNCHANGED owned
     /\ plan' = IF user /\ HasPlan(kept) THEN [kept EXCEPT !.status = "active"]
                 ELSE kept
     /\ turn' = [NoTurn EXCEPT !.at = "call", !.user = user,
                   !.first = user /\ plan.status # "waiting_user"]
     /\ noted' = noted \cup consumed
  /\ UNCHANGED <<state, told, cut, stepOf, calls, shown, session, saved, made>>

NoneInFlight(c) ==
  /\ \A s \in Steps \cup {NoStep} : c.step[s] = Free
  /\ c.author = NotAsked
  /\ \A t \in Tasks : c.deliver[t] = 0
NoCallInFlight == NoneInFlight(calls)

Persist(v) == [v EXCEPT !.queued = @ \/ session = "open"]

\* The planner's answer, when it is not checked again: the user gets what was
\* pushed to the deliveries, as often as it was.
TurnOver ==
  /\ turn' = [NoTurn EXCEPT !.at = "saving"]
  /\ shown' = [t \in Tasks |-> shown[t] + turn.given[t]]
  /\ request' = [request EXCEPT !.lastOk = TRUE]
  /\ saved' = Persist(saved)
  /\ UNCHANGED <<inbox, noted>>

\* FAULT: outcomes consumed by a correction are given back as well.
KeepsEvents(i) == i

TakesEvents(i) == [i EXCEPT !.events = {}]

\* Ready or stalled steps nothing works on, or outcomes that came meanwhile: the
\* planner is called again, at most MaxCorrections times.
CallEnds ==
  /\ turn.at = "call" /\ NoCallInFlight
  /\ plan' = recomputePlanStatus(plan)
  /\ LET stalled == {s \in Steps : /\ plan'.steps[s].state = "running"
                                   /\ plan'.steps[s].work = NoTask
                                        \/ ~Active(plan'.steps[s].work)}
         canCheck == plan'.status = "active" /\ ~turn.started /\ ~Busy
         idle == canCheck /\ (readySteps(plan') # {} \/ stalled # {})
         needsEvents == canCheck /\ inbox.events # {}
         again == /\ session = "open" /\ ~turn.waiting
                  /\ idle \/ needsEvents
                  /\ turn.correction < MaxCorrections IN
     IF again
     THEN /\ turn' = [turn EXCEPT !.correction = @ + 1, !.delivered = FALSE,
                                   !.first = FALSE]
          /\ noted' = noted \cup inbox.events
          /\ inbox' = TakesEvents(inbox)
          /\ UNCHANGED <<shown, request, saved>>
     ELSE TurnOver
  /\ UNCHANGED <<state, told, cut, owned, stepOf, calls, session, made>>

\* The planner fails: the message is rejected, what it delivered is dropped.
CallFails ==
  /\ turn.at = "call" /\ NoCallInFlight
  /\ turn' = [NoTurn EXCEPT !.at = "saving"]
  /\ saved' = Persist(saved)
  /\ UNCHANGED <<state, told, cut, owned, stepOf, plan, request, inbox, calls,
                 shown, noted, session, made>>

\* The turn waits for its save; then the drain loop looks for more.
TurnSettles ==
  /\ turn.at = "saving" /\ ~saved.queued /\ ~saved.flying
  /\ turn' = NoTurn
  /\ UNCHANGED <<state, told, cut, owned, stepOf, plan, request, inbox, calls,
                 shown, noted, session, saved, made>>

\* The loop ends, and starts again for what came meanwhile.
DrainEnds ==
  /\ inbox.active /\ turn.at = "idle"
  /\ ~Waits(inbox) \/ session # "open"
  /\ inbox' = [inbox EXCEPT !.active = FALSE]
  /\ UNCHANGED <<state, told, cut, owned, stepOf, plan, request, turn, calls,
                 shown, noted, session, saved, made>>

-----------------------------------------------------------------------------
(* Tools, of the planner in a turn or of the host.                         *)

\* The calls of a round begin before any of them goes on.
InCall == turn.at = "call" /\ ~calls.going
CanCall == InCall \/ calls.host = "one"
WentOn(c) == [c EXCEPT !.going = ~NoneInFlight(c)]
Caller == [turn EXCEPT !.first = FALSE]
Called(c) == IF c.host = "one" THEN [c EXCEPT !.host = "used"] ELSE c

ReservedStep == \E s \in Steps : calls.step[s] # Free
attemptReserved == \E s \in Steps \cup {NoStep} : calls.step[s] # Free

\* assertNoActiveAttempt(): no attempt of the step, current or not, is active.
NoActiveAttempt(s) == \A t \in plan.steps[s].ids : ~Active(t)

\* delegate_task: the attempt is reserved while the profile is resolved.
Reserve(s) ==
  /\ CanCall
  /\ calls.step[s] = Free
  /\ IF s = NoStep THEN ~HasPlan(plan)
     ELSE HasPlan(plan) /\ dependenciesDone(plan, s) /\ NoActiveAttempt(s)
  /\ calls' = [Called(calls) EXCEPT !.step[s].at = "resolving"]
  /\ turn' = Caller
  /\ UNCHANGED <<state, told, cut, owned, stepOf, plan, request, inbox, shown,
                 noted, session, saved, made>>

\* The successful work of the sources is read, as it is now.
ReadSources(s) ==
  /\ calls.step[s].at = "resolving"
  /\ LET sources == IF s = NoStep THEN {} ELSE {plan.steps[d].success : d \in DependsOn[s]}
         ok == \A t \in sources : t # NoTask IN
     calls' = WentOn([calls EXCEPT !.step[s] =
       IF ok THEN [at |-> "read", sources |-> sources] ELSE Free])
  /\ UNCHANGED <<state, told, cut, owned, stepOf, plan, request, inbox, turn, shown,
                 noted, session, saved, made>>

\* The task is created and becomes the step's attempt; the evidence of the
\* attempt before it goes.
StartAttempt(s, t) ==
  /\ calls.step[s].at = "read"
  /\ Queue(t)
  /\ request' = IF request.open THEN request ELSE NextRequest
  /\ owned' = {t} \cup IF request.open THEN owned ELSE {}
  /\ stepOf' = [stepOf EXCEPT ![t] = s]
  /\ plan' = IF s = NoStep THEN plan
             ELSE [plan EXCEPT !.steps[s] =
                    [state |-> "running", ids |-> @.ids \cup {t}, work |-> t,
                     success |-> NoTask,
                     checked |-> IF s \in Checks THEN calls.step[s].sources ELSE {}]]
  /\ calls' = WentOn([calls EXCEPT !.step[s] = Free])
  /\ turn' = [turn EXCEPT !.started = (turn.at = "call")]
  /\ UNCHANGED <<cut, inbox, shown, noted, session, saved, made>>

\* No such profile, the wrong kind of result, the limit of tasks.
ReserveFails(s) ==
  /\ calls.step[s] # Free
  /\ calls' = WentOn([calls EXCEPT !.step[s] = Free])
  /\ UNCHANGED <<state, told, cut, owned, stepOf, plan, request, inbox, turn, shown,
                 noted, session, saved, made>>

\* stop_task of a queued task; a running one is asked, and settles later.
StopTask(t) ==
  /\ CanCall
  /\ state[t] = "queued"
  /\ Settle(t, "stopped")
  /\ OnEvent(t, "stopped", TRUE, Caller)
  /\ calls' = Called(calls)
  /\ UNCHANGED cut

\* plan_update, with the plan p.  The edits below never set a plan that is done, so
\* none of them resolves failures.
SetPlan(p) ==
  /\ CanCall
  /\ ~ReservedStep
  /\ plan' = p
  /\ calls' = Called(calls)
  /\ turn' = Caller
  /\ UNCHANGED <<state, told, cut, owned, stepOf, request, inbox, shown, noted,
                 session, saved>>

CreatePlan ==
  /\ ~HasPlan(plan) /\ Steps # {} /\ made < MaxEdits
  /\ SetPlan(NewPlan)
  /\ made' = made + 1

\* mergePlan() with step s pending again: its evidence goes, and what rests on it.
Reopen(s) ==
  /\ HasPlan(plan)
  /\ plan.steps[s].state # "pending"
  /\ NoActiveAttempt(s)
  /\ LET p == [plan EXCEPT !.status = "active", !.steps[s] = resetStaleCheck(@)] IN
     SetPlan([p EXCEPT !.steps = [c \in Steps |->
       IF c \in Checks /\ @[c].checked # {} /\ ~checkSourcesCurrent(p, c)
       THEN resetStaleCheck(@[c]) ELSE @[c]]])
  /\ UNCHANGED made

AskUser ==
  /\ HasPlan(plan) /\ plan.status # "waiting_user"
  /\ SetPlan([plan EXCEPT !.status = "waiting_user"])
  /\ UNCHANGED made

\* plan_create: the author is asked for a plan, of what the plan is now.
AuthorBegins ==
  /\ CanCall /\ Steps # {} /\ made < MaxEdits
  /\ calls.author = NotAsked
  /\ ~attemptReserved /\ ~Busy
  /\ calls' = [Called(calls) EXCEPT !.author = [at |-> "asked", was |-> plan]]
  /\ turn' = Caller
  /\ UNCHANGED <<state, told, cut, owned, stepOf, plan, request, inbox, shown,
                 noted, session, saved, made>>

Unchanged(previous) == plan = previous /\ ~attemptReserved /\ ~Busy

\* The answer is refused if the plan changed or a task was started meanwhile.
AuthorEnds ==
  /\ calls.author # NotAsked
  /\ calls' = WentOn([calls EXCEPT !.author = NotAsked])
  /\ \/ Unchanged(calls.author.was) /\ plan' = NewPlan /\ made' = made + 1
     \/ UNCHANGED <<plan, made>>
  /\ UNCHANGED <<state, told, cut, owned, stepOf, request, inbox, turn, shown,
                 noted, session, saved>>

\* new_request: the first tool of the first call of a user's turn, and never an
\* answer to a question.
NewRequest ==
  /\ InCall /\ turn.first
  /\ ~attemptReserved
  /\ request' = NextRequest
  /\ owned' = {}
  /\ plan' = NoPlan
  /\ turn' = Caller
  /\ UNCHANGED <<state, told, cut, stepOf, inbox, calls, shown, noted,
                 session, saved, made>>

\* get_task, list_tasks: a second look with no outcome between ends the turn.
StatusRead ==
  /\ InCall /\ Busy /\ ~turn.waiting
  /\ turn' = [Caller EXCEPT !.waiting = turn.read, !.read = TRUE]
  /\ UNCHANGED <<state, told, cut, owned, stepOf, plan, request, inbox, calls, shown,
                 noted, session, saved, made>>

\* Not delivered yet, and nothing else delivered in this call.
Fresh(t) == shown[t] = 0 /\ turn.given[t] = 0 /\ ~turn.delivered

\* FAULT: after the read the result is delivered without a second look.
NoSecondLook(t) == TRUE

\* The second look, after the result was read: its twin may have come first.
StillFresh(t) == Fresh(t)

\* deliver: checked, then the stored result is read, then checked for a twin.
DeliverBegins(t) ==
  /\ InCall /\ calls.deliver[t] < MaxTwins
  /\ Fresh(t)
  /\ state[t] = "done" /\ t \in owned
  /\ stepOf[t] # NoStep =>
       /\ HasPlan(plan) /\ plan.steps[stepOf[t]].state = "done"
       /\ deliveryChecksPassed(plan, stepOf[t])
  /\ calls' = [calls EXCEPT !.deliver[t] = @ + 1]
  /\ turn' = Caller
  /\ UNCHANGED <<state, told, cut, owned, stepOf, plan, request, inbox, shown,
                 noted, session, saved, made>>

DeliverEnds(t) ==
  /\ calls.deliver[t] > 0
  /\ calls' = WentOn([calls EXCEPT !.deliver[t] = @ - 1])
  /\ \/ /\ StillFresh(t)
        /\ turn' = [turn EXCEPT !.given[t] = @ + 1, !.delivered = TRUE]
        /\ \E R \in {{}, unresolvedFailures} :
             request' = [request EXCEPT !.resolved = @ \cup R]
     \/ UNCHANGED <<turn, request>>
  /\ UNCHANGED <<state, told, cut, owned, stepOf, plan, inbox, shown, noted,
                 session, saved, made>>

Quiet(i) == ~i.active /\ i.users = 0

\* callTool(): one tool of the host, while no turn runs.
HostCalls ==
  /\ HostTools /\ session = "open" /\ calls.host = "no"
  /\ Quiet(inbox)
  /\ inbox' = [inbox EXCEPT !.external = TRUE]
  /\ calls' = [calls EXCEPT !.host = "one"]
  /\ UNCHANGED <<state, told, cut, owned, stepOf, plan, request, turn, shown, noted,
                 session, saved, made>>

HostSaves ==
  /\ calls.host \in {"one", "used"} /\ NoCallInFlight
  /\ calls' = [calls EXCEPT !.host = "saving"]
  /\ saved' = Persist(saved)
  /\ UNCHANGED <<state, told, cut, owned, stepOf, plan, request, inbox, turn, shown,
                 noted, session, made>>

\* FAULT: a message that came during the host's call is not looked for.
NobodyCame(i) == i

CameMeanwhile(i) ==
  [i EXCEPT !.active = @ \/ (session = "open" /\ i.users > 0)]

HostSettles ==
  /\ calls.host = "saving" /\ ~saved.queued /\ ~saved.flying
  /\ calls' = [calls EXCEPT !.host = "no"]
  /\ inbox' = CameMeanwhile(inbox)
  /\ UNCHANGED <<state, told, cut, owned, stepOf, plan, request, turn, shown, noted,
                 session, saved, made>>

-----------------------------------------------------------------------------
(* persist() and close().                                                  *)

SaveStarts ==
  /\ saved.queued /\ ~saved.flying
  /\ saved' = [saved EXCEPT !.queued = FALSE, !.flying = (session = "open")]
  /\ UNCHANGED <<state, told, cut, owned, stepOf, plan, request, inbox, turn, calls,
                 shown, noted, session, made>>

SaveLands ==
  /\ saved.flying
  /\ \E ok \in BOOLEAN : saved' = [saved EXCEPT !.flying = FALSE, !.row = @ \/ ok]
  /\ UNCHANGED <<state, told, cut, owned, stepOf, plan, request, inbox, turn, calls,
                 shown, noted, session, made>>

\* What waits is dropped, the users' messages rejected, every task stopped.
Close ==
  /\ MayClose /\ session = "open"
  /\ session' = "closing"
  /\ inbox' = [inbox EXCEPT !.users = 0, !.events = {}, !.deferred = {}]
  /\ UNCHANGED <<state, told, cut, owned, stepOf, plan, request, turn, calls, shown,
                 noted, saved, made>>

\* FAULT: the row is deleted while a save may be on its way.
NotAwaited == TRUE

SavesAwaited == ~saved.queued /\ ~saved.flying

\* finishClose(): tasks, the drain loop, the host's call and the saves are awaited.
CloseEnds ==
  /\ session = "closing"
  /\ ~Busy /\ ~inbox.active /\ calls.host = "no"
  /\ SavesAwaited
  /\ session' = "closed"
  /\ saved' = [saved EXCEPT !.row = FALSE]
  /\ UNCHANGED <<state, told, cut, owned, stepOf, plan, request, inbox, turn, calls,
                 shown, noted, made>>

-----------------------------------------------------------------------------
Tool ==
  \/ \E s \in Steps \cup {NoStep} :
       Reserve(s) \/ ReadSources(s) \/ ReserveFails(s)
         \/ \E t \in Tasks : StartAttempt(s, t)
  \/ \E t \in Tasks : StopTask(t) \/ DeliverBegins(t) \/ DeliverEnds(t)
  \/ \E s \in Steps : Reopen(s)
  \/ CreatePlan \/ AskUser \/ AuthorBegins \/ AuthorEnds \/ NewRequest \/ StatusRead

DialogueNext ==
  \/ \E t \in Tasks : TaskBegins(t) \/ TaskSettles(t) \/ QueuedStopped(t)
  \/ Send \/ StartTurn \/ CallEnds \/ CallFails \/ TurnSettles \/ DrainEnds
  \/ Tool
  \/ HostCalls \/ HostSaves \/ HostSettles
  \/ SaveStarts \/ SaveLands \/ Close \/ CloseEnds

\* The event loop runs what is due, tool calls and saves end.  A planner's call
\* ends although it uses tools again and again: its tool loop is bounded.  Tasks
\* are fair only once the session closes, when the board stops them all.
DialogueFairness ==
  /\ WF_vars(StartTurn) /\ WF_vars(TurnSettles) /\ WF_vars(DrainEnds)
  /\ SF_vars(CallEnds \/ CallFails)
  /\ \A s \in Steps \cup {NoStep} :
       WF_vars(ReadSources(s) \/ ReserveFails(s) \/ \E t \in Tasks : StartAttempt(s, t))
  /\ WF_vars(AuthorEnds) /\ \A t \in Tasks : WF_vars(DeliverEnds(t))
  /\ SF_vars(HostSaves) /\ WF_vars(HostSettles)
  /\ WF_vars(SaveStarts) /\ WF_vars(SaveLands) /\ WF_vars(CloseEnds)
  /\ \A t \in Tasks :
       WF_vars(session = "closing" /\ (TaskSettles(t) \/ QueuedStopped(t)))

DialogueSpec == DialogueInit /\ [][DialogueNext]_vars /\ DialogueFairness

-----------------------------------------------------------------------------
Ids == Tasks \cup {NoTask}
StepType == [state : {"pending", "running", "done", "failed"}, ids : SUBSET Tasks,
             work : Ids, success : Ids, checked : SUBSET Tasks]

\* Types of the session's state, and that a plan, a turn and a tool call in flight
\* are there together only when the code lets them: tools run in a turn or in the
\* host's call, never in both, and the host's call never beside a turn.
DialogueTypeOK ==
  /\ TasksTypeOK
  /\ plan = NoPlan \/ /\ plan.status \in {"active", "waiting_user", "done"}
                      /\ plan.steps \in [Steps -> StepType]
  /\ owned \subseteq Tasks /\ stepOf \in [Tasks -> Steps \cup {NoStep}]
  /\ cut \subseteq Tasks /\ noted \subseteq Tasks
  /\ turn.at \in {"idle", "call", "saving"}
  /\ calls.host \in {"no", "one", "used", "saving"}
  /\ session \in {"open", "closing", "closed"}
  /\ ~NoCallInFlight => turn.at = "call" \/ calls.host = "used"
  /\ turn.at # "idle" => calls.host = "no" /\ inbox.active

\* A step that is done rests on the latest attempt, which is done; a check that
\* stands was made of the latest successful work of its sources, although the work
\* may be done again while the check runs, or between the delegation of the check
\* and its start; and a step has one attempt at a time.
EvidenceCurrent ==
  HasPlan(plan) => \A s \in Steps :
    LET x == plan.steps[s] IN
    /\ x.state = "done" => /\ x.work # NoTask /\ state[x.work] = "done"
                           /\ x.success = x.work
    /\ s \in Checks /\ x.state = "done" =>
         \A d \in DependsOn[s] :
           plan.steps[d].success # NoTask => plan.steps[d].success \in x.checked
    /\ Cardinality({t \in x.ids : Active(t)}) <= 1
    /\ x.state = "running" => x.work # NoTask

\* A settled task's outcome waits in one place or the planner was told of it: none
\* is lost or told twice between turns, corrections and, with HostTools, calls of the
\* host; and once a host calls tools itself nothing is left in the queue that wakes a
\* planner.
OutcomesReach ==
  session = "open" =>
    /\ \A t \in Tasks : state[t] \in Outcomes =>
         Cardinality({q \in {1, 2, 3} :
           t \in <<inbox.events, inbox.deferred, noted>>[q]}) = 1
    /\ inbox.external => inbox.events = {}

\* A task's result is delivered at most once, although two deliver calls of it read
\* the result at the same time, a turn fails after it, or a later turn asks again.
DeliveredOnce == \A t \in Tasks : shown[t] <= 1

\* After close() no task is active, no turn runs, no call is in flight and the row
\* is gone for good, whatever was being delegated or saved when it was called.
ClosedForGood ==
  session = "closed" =>
    /\ ~Busy /\ NoCallInFlight /\ turn.at = "idle" /\ ~inbox.active
    /\ ~saved.row /\ ~saved.queued /\ ~saved.flying

\* Every user message, and every outcome that is to wake the planner, is taken up
\* or dropped by close(): no wake-up is missed between the end of a drain loop and
\* the next event, nor behind a call of the host.
InputsSettle == Waits(inbox) ~> ~Waits(inbox)

\* close() returns.
CloseReturns == (session = "closing") ~> (session = "closed")
=============================================================================
