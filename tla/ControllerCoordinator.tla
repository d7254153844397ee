------------------------- MODULE ControllerCoordinator -------------------------
(***************************************************************************)
(* One session of the controller coordinator (controller-coordinator-      *)
(* handler.ts): a run goes from a request over a plan of steps to a        *)
(* terminal outcome, in as many requests as suspensions, questions and     *)
(* crashes make it take.                                                   *)
(*                                                                         *)
(* `disk` is the persisted SessionBundle, `mem` the copy the request being *)
(* served works on.  The step-result artifacts and the terminal store are  *)
(* written apart from the bundle.  An action is what happens up to one     *)
(* durable write, that write included; Crash may come between any two.     *)
(* A call of a role (evaluator, planner, executor, reviewer, finalizer) or *)
(* of a tool is a choice over the replies the handler tells apart.         *)
(*                                                                         *)
(* A definition whose comment starts with FAULT is a slip the code could   *)
(* have, used in place of the definition after it to show that a property  *)
(* notices.                                                                *)
(***************************************************************************)
EXTENDS Naturals, FiniteSets

CONSTANTS
  Prompts,             \* texts of a request, compared by fingerprint
  Blank,               \* the empty one
  StepKinds,           \* kinds of planned steps: "work", "wait"
  HasFinalizer,        \* deps.finalizer is there
  BestEffort,          \* onFinalizeExhausted = 'best-effort'
  SharesRounds,        \* restore() takes over the rounds of the bundle as its own array
                       \* (LegacyAccumulate, Window), or not (RagRecall)
  MaxRequests,         \* bound on the requests of the session
  MaxPlan,             \* bound on the steps a (re)plan adds
  MaxSteps, MaxRetries, MaxRewinds, MaxToolCalls,         \* config.budgets
  MaxStepAttempts, MaxStepResumes, MaxPlannerResumes,
  MaxEvalResumes, MaxFinalizeRetries

Caps == <<MaxRequests, MaxPlan, MaxSteps, MaxRetries, MaxRewinds, MaxToolCalls,
          MaxStepAttempts, MaxStepResumes, MaxPlannerResumes, MaxEvalResumes,
          MaxFinalizeRetries>>

ASSUME ControllerAssumption ==
  /\ Blank \in Prompts
  /\ StepKinds \subseteq {"work", "wait"}
  /\ HasFinalizer \in BOOLEAN /\ BestEffort \in BOOLEAN /\ SharesRounds \in BOOLEAN
  /\ \A i \in DOMAIN Caps : Caps[i] \in Nat

VARIABLES
  disk,      \* the persisted bundle
  results,   \* step-result artifacts
  terminal,  \* the terminal store: outcome of each run
  minted,    \* run ids minted so far
  requests,  \* requests received so far
  at,        \* where the request being served stands
  req,       \* that request
  mem,       \* its copy of the bundle
  loc        \* its local variables

vars == <<disk, results, terminal, minted, requests, at, req, mem, loc>>

-----------------------------------------------------------------------------
NoRun  == 0
RunIds == 1..MaxRequests

NoStep ==
  [phase |-> "none", seq |-> 0, attempt |-> 0, kind |-> "work", resumes |-> 0,
   calls |-> 0, ctl |-> FALSE, slept |-> FALSE, queued |-> 0, saved |-> 0,
   answered |-> 0]

\* resetRun() with a minted run id.
FreshBundle(r, p) ==
  [run |-> r, runState |-> "active", runPhase |-> "evaluating",
   request |-> p, goal |-> FALSE, pending |-> "none",
   stepsUsed |-> 0, rewindsUsed |-> 0, nextSeq |-> 0,
   planned |-> FALSE, plan |-> 0, planCursor |-> 0,
   lastOutcome |-> "none", inFlight |-> NoStep,
   evalCall |-> FALSE, plannerCall |-> FALSE, finalizeCall |-> FALSE,
   evalResumes |-> 0, plannerResumes |-> 0, finalizeAttempt |-> 0,
   answer |-> FALSE]

\* emptyBundle(): what hydrateBundle() returns for a session never seen.
EmptyBundle == [FreshBundle(NoRun, Blank) EXCEPT !.runState = "idle"]

NoLocals == [parse |-> 0, retries |-> 0, next |-> "none", kind |-> "work",
             cont |-> FALSE, rounds |-> 0, outcome |-> "none", cut |-> FALSE]

NoRequest == [key |-> NoRun, newRun |-> FALSE, prompt |-> Blank, result |-> FALSE]

Init ==
  /\ disk = EmptyBundle
  /\ results = {}
  /\ terminal = [r \in RunIds |-> "none"]
  /\ minted = 0
  /\ requests = 0
  /\ at = "idle"
  /\ req = NoRequest
  /\ mem = EmptyBundle
  /\ loc = NoLocals

-----------------------------------------------------------------------------
\* The forms every step takes.

stores == <<results, terminal>>
served == <<minted, requests, req>>

\* execute() returns; what it held is gone.
Leave == at' = "idle" /\ req' = NoRequest /\ mem' = EmptyBundle /\ loc' = NoLocals

Return == Leave /\ UNCHANGED <<disk, stores, minted, requests>>

\* persistBundle() and on, or persistBundle() and return.
Persist(b, p) ==
  /\ disk' = b /\ mem' = b /\ at' = p
  /\ UNCHANGED <<stores, served>>

PersistAndReturn(b) ==
  /\ disk' = b /\ Leave
  /\ UNCHANGED <<stores, minted, requests>>

\* On without a write.
Goto(b, p) == mem' = b /\ at' = p /\ UNCHANGED <<disk, stores, served>>

\* escalate(): a question for the client; runState is left as it is.
Escalate(b) == PersistAndReturn([b EXCEPT !.pending = "loop"])

\* writeTerminal(), the first half of abortTerminal() and
\* commitTerminalSuccess(); Flip is the other half.
End(b, o) ==
  /\ terminal' = [terminal EXCEPT ![b.run] = o]
  /\ mem' = b /\ at' = "flip"
  /\ UNCHANGED <<disk, results, served, loc>>

Abort(b) == End(b, "error")

Flip ==
  /\ at = "flip"
  /\ PersistAndReturn([mem EXCEPT !.pending = "none", !.finalizeCall = FALSE,
                                  !.runState = "terminal", !.inFlight = NoStep])

-----------------------------------------------------------------------------
\* A request arrives; hydrateBundle().
Arrive(q) ==
  /\ at = "idle"
  /\ requests < MaxRequests
  /\ requests' = requests + 1
  /\ q.key <= minted + 1                          \* one unknown id is enough
  /\ q.newRun => q.key = NoRun /\ ~q.result       \* neither is looked at
  /\ q.result => disk.pending = "external"
  /\ at' = "classify" /\ req' = q /\ mem' = disk
  /\ UNCHANGED <<disk, stores, minted, loc>>

Ended(r) == terminal[r] \in {"success", "error"}

IsLive(b) == b.runState \in {"active", "suspended"}

\* classifyRequest().
Class(q, b) ==
  IF q.newRun THEN "fresh"
  ELSE IF q.key # NoRun
       THEN IF Ended(q.key) THEN "replay"
            ELSE IF q.key = b.run /\ IsLive(b) THEN "resume" ELSE "notFound"
       ELSE IF IsLive(b) /\ b.request = q.prompt THEN "resume" ELSE "fresh"

Classify == at = "classify" /\ Goto(mem, Class(req, mem)) /\ UNCHANGED loc

\* The stored outcome is surfaced again.
Replay == at = "replay" /\ Ended(req.key) /\ Return

\* A fresh run, also when the outcome expired since the request was classified.
StartRun ==
  /\ at = "fresh" \/ (at = "replay" /\ ~Ended(req.key))
  /\ minted' = minted + 1
  /\ mem' = FreshBundle(minted', req.prompt)
  /\ disk' = mem' /\ at' = "goal"
  /\ UNCHANGED <<stores, requests, req, loc>>

NotFound == at = "notFound" /\ Escalate(mem)

\* FAULT: the terminal store is not looked at on a resume.
FinishedUnseen(r) == FALSE

Finished(r) == Ended(r)

\* Stage 1 of recovery: a stored outcome wins over the persisted phase.
ResumeFinished ==
  /\ at = "resume" /\ Finished(mem.run)
  /\ PersistAndReturn([mem EXCEPT !.runState = "terminal"])

\* Stages 2 and 3: consume the pending marker, or route by the phase.
ResumeRun ==
  /\ at = "resume" /\ ~Finished(mem.run)
  /\ Goto(mem, IF mem.runState = "active" /\ mem.runPhase = "finalizing"
               THEN "finalize"
               ELSE IF mem.pending = "external" THEN "external"
               ELSE IF mem.pending \in {"goal", "loop"} THEN "clarify"
               ELSE "goal")
  /\ UNCHANGED loc

-----------------------------------------------------------------------------
Executing(b) == b.inFlight.phase = "executing"

\* FAULT: the artifacts are not consulted before a step is run again.
NoneCommitted(b) == {}

\* The step-results of the attempt in flight.
Committed(b) ==
  {x \in results : /\ x.run = b.run
                   /\ x.seq = b.inFlight.seq
                   /\ x.attempt = b.inFlight.attempt}

\* resolveByPrecedence(), as the outcome of the step.
Verdict(S) ==
  IF \E x \in S : x.status = "ok" THEN "advanced"
  ELSE IF \E x \in S : x.status = "partial" THEN "partial" ELSE "failed"

\* FAULT: an accepted part does not move the planner's cursor.
CursorAfterOk(b, o) == IF o = "advanced" THEN b.planCursor + 1 ELSE b.planCursor

\* planner.commit().
CursorAfter(b, o) ==
  IF o \in {"advanced", "partial"} THEN b.planCursor + 1 ELSE b.planCursor

\* The step in flight has outcome o: settleStep(), and the adoption of an
\* artifact found on a resume.
Settle(b, o) ==
  IF o = "failed"
  THEN [b EXCEPT !.lastOutcome = o, !.runPhase = "executing",
                 !.inFlight.phase = "awaiting-replan"]
  ELSE [b EXCEPT !.lastOutcome = o, !.runPhase = "planning",
                 !.planCursor = CursorAfter(b, o),
                 !.nextSeq = @ + 1, !.inFlight = NoStep]

\* The pending tool call is not answered yet: surface it again.
Resurface == at = "external" /\ Committed(mem) = {} /\ ~req.result /\ Return

\* The attempt is committed, so its result is adopted (only overlapping
\* requests get here); else the answer is queued for the step in flight.
ConsumeResult ==
  LET b == [mem EXCEPT !.pending = "none", !.runState = "active"] IN
  /\ at = "external"
  /\ IF Committed(mem) # {}
     THEN /\ Persist(Settle(b, Verdict(Committed(mem))), "goal")
          /\ UNCHANGED loc
     ELSE /\ req.result
          /\ Persist([b EXCEPT !.inFlight.queued = @ + 1,
                               !.inFlight.answered = @ + 1], "goal")
          /\ loc' = [loc EXCEPT !.cont = TRUE]

\* An empty answer establishes no goal: ask again.
AskAgain ==
  /\ at = "clarify" /\ mem.pending = "goal" /\ req.prompt = Blank
  /\ Return

ConsumeAnswer ==
  LET b == [mem EXCEPT !.pending = "none"] IN
  /\ at = "clarify"
  /\ \/ /\ mem.pending = "goal" /\ req.prompt # Blank
        /\ Persist([b EXCEPT !.goal = TRUE, !.runState = "active",
                             !.runPhase = "planning"], "goal")
     \/ /\ mem.pending = "loop"
        /\ Persist(b, "goal")
  /\ UNCHANGED loc

-----------------------------------------------------------------------------
\* The goal is known: the main loop.
GoalKnown == at = "goal" /\ mem.goal /\ Goto(mem, "loop") /\ UNCHANGED loc

\* A marker left by a crash charges the resume budget of the evaluator.
AskEvaluator ==
  LET n == IF mem.evalCall THEN mem.evalResumes + 1 ELSE mem.evalResumes IN
  /\ at = "goal" /\ ~mem.goal
  /\ IF n > MaxEvalResumes
     THEN Abort([mem EXCEPT !.evalResumes = n])
     ELSE /\ Persist([mem EXCEPT !.evalResumes = n, !.evalCall = TRUE,
                                 !.runPhase = "evaluating"], "evaluating")
          /\ UNCHANGED loc

Evaluated == [mem EXCEPT !.evalCall = FALSE, !.evalResumes = 0]

GoalNeedsConfirmation ==
  /\ at = "evaluating"
  /\ PersistAndReturn([Evaluated EXCEPT !.pending = "goal",
                                        !.runState = "suspended"])

GoalEstablished ==
  /\ at = "evaluating"
  /\ Goto([Evaluated EXCEPT !.goal = TRUE], "loop")
  /\ UNCHANGED loc

-----------------------------------------------------------------------------
\* The main loop.

StepsLeft(b) == b.stepsUsed < MaxSteps

OutOfSteps == at = "loop" /\ ~StepsLeft(mem) /\ Escalate(mem)

\* The attempt in flight is committed already: adopt it, do not run it.
AdoptResult ==
  /\ at = "loop" /\ StepsLeft(mem) /\ Executing(mem)
  /\ Committed(mem) # {}
  /\ Persist(Settle(mem, Verdict(Committed(mem))), "loop")
  /\ UNCHANGED loc

\* FAULT: a wait in flight is taken for a step of the executor.
NeverWait(b) == FALSE

IsWait(b) == b.inFlight.kind = "wait"

\* The wait in flight goes on; a crash in it is not charged.
ResumeWait ==
  /\ at = "loop" /\ StepsLeft(mem) /\ Executing(mem)
  /\ Committed(mem) = {}
  /\ IsWait(mem)
  /\ Goto(mem, "wait")
  /\ UNCHANGED loc

\* runStep() begins: the strategy is restored from its snapshot, and the queued
\* answer is recorded on top of it and taken off the queue, in memory only.  A shared
\* array of rounds has the answer at once, a snapshot of its own at the next exchange.
Unqueued(b) ==
  [b EXCEPT !.inFlight.queued = 0,
            !.inFlight.saved = IF SharesRounds THEN @ + b.inFlight.queued ELSE @]

StepLocals(b) ==
  [loc EXCEPT !.retries = 0, !.cont = FALSE,
              !.rounds = b.inFlight.saved + b.inFlight.queued]

BeginStep(b) ==
  /\ disk' = b /\ mem' = Unqueued(b) /\ at' = "step" /\ loc' = StepLocals(b)
  /\ UNCHANGED <<stores, served>>

\* FAULT: one resume too many.
ResumesSpentLate(n) == n > MaxStepResumes + 1

ResumesSpent(n) == n > MaxStepResumes

\* Run the attempt in flight again: charged, unless a tool answer continues it.
ResumeStep ==
  LET n == mem.inFlight.resumes + (IF loc.cont THEN 0 ELSE 1)
      b == [mem EXCEPT !.inFlight.resumes = n]
  IN
  /\ at = "loop" /\ StepsLeft(mem) /\ Executing(mem)
  /\ Committed(mem) = {}
  /\ ~IsWait(mem)
  /\ IF ~loc.cont /\ ResumesSpent(n) THEN Abort(b) ELSE BeginStep(b)

\* Nothing is executing: ask the planner, charging a call a crash cut short.
AskPlanner ==
  LET n == IF mem.plannerCall THEN mem.plannerResumes + 1
                              ELSE mem.plannerResumes IN
  /\ at = "loop" /\ StepsLeft(mem) /\ ~Executing(mem)
  /\ IF n > MaxPlannerResumes
     THEN Abort([mem EXCEPT !.plannerResumes = n])
     ELSE /\ Persist([mem EXCEPT !.plannerResumes = n, !.plannerCall = TRUE,
                                 !.runPhase = "planning"], "planning")
          /\ UNCHANGED loc

\* renderLiveBoard() refuses.
BoardOverBudget == at = "planning" /\ Abort(mem)

\* FAULT: the last step is taken for the end of the plan.
AtEndEarly(b) == b.planCursor + 1 >= b.plan

AtEnd(b) == b.planCursor >= b.plan

\* stepAtCursor(): the next step, or the end of the plan; composing the answer
\* of a finished plan may fail.
AtCursor(b) == IF AtEnd(b) THEN {"done", "malformed"} ELSE {"next"}

\* planner.next(): the bundle and the decision it leaves.
Replies(b) ==
  LET plain(n)  == [b |-> b, n |-> n]
      with(c)   == {[b |-> c, n |-> n] : n \in AtCursor(c)}
      create(k) == with([b EXCEPT !.planned = TRUE, !.plan = k,
                                  !.planCursor = 0])
      replan(k) == with([b EXCEPT !.plan = b.planCursor + k,
                                  !.lastOutcome = "none"])
  IN
  IF ~b.planned
  THEN {plain("malformed"), plain("error")}
         \cup UNION {create(k) : k \in 1..MaxPlan}
  ELSE IF b.lastOutcome \in {"failed", "partial"}
  THEN {plain("malformed"), plain("error")}
         \cup UNION {replan(k) : k \in 0..MaxPlan}
  ELSE with(b) \cup {plain("rewind")}

\* The planner has answered; its plan and the cleared marker are persisted
\* before the decision is acted on.
PlannerReplies ==
  /\ at = "planning"
  /\ \E x \in Replies([mem EXCEPT !.plannerCall = FALSE, !.plannerResumes = 0]) :
     \E k \in IF x.n = "next" THEN StepKinds ELSE {"work"} :
       /\ Persist(x.b, "decided")
       /\ loc' = [loc EXCEPT !.next = x.n, !.kind = k]

-----------------------------------------------------------------------------
\* FAULT: a malformed reply is not counted.
NotCounted(n) == n

Counted(n) == n + 1

AskAgainPlanner ==
  LET n == Counted(loc.parse) IN
  /\ at = "decided" /\ loc.next = "malformed"
  /\ IF n > MaxRetries
     THEN Escalate(mem)
     ELSE Goto(mem, "loop") /\ loc' = [loc EXCEPT !.parse = n, !.next = "none"]

PlannerError == at = "decided" /\ loc.next = "error" /\ Abort(mem)

PlanDone ==
  /\ at = "decided" /\ loc.next = "done"
  /\ Goto(mem, "finalize") /\ UNCHANGED loc

Rewind ==
  LET b == [mem EXCEPT !.rewindsUsed = @ + 1] IN
  /\ at = "decided" /\ loc.next = "rewind"
  /\ IF b.rewindsUsed > MaxRewinds
     THEN Escalate(b)
     ELSE /\ Persist([b EXCEPT !.lastOutcome = "none"], "loop")
          /\ loc' = [loc EXCEPT !.parse = 0, !.next = "none"]

\* A new step, or a revised one at the same seq after a failed attempt.
NextAttempt(b) ==
  IF b.inFlight.phase # "none" /\ b.inFlight.seq = b.nextSeq
  THEN b.inFlight.attempt + 1 ELSE 0

OpenStep ==
  LET n == NextAttempt(mem)
      b == [mem EXCEPT !.runPhase = "executing",
                       !.inFlight = [NoStep EXCEPT !.phase = "executing",
                                                   !.seq = mem.nextSeq,
                                                   !.attempt = n,
                                                   !.kind = loc.kind]]
  IN
  /\ at = "decided" /\ loc.next = "next"
  /\ IF n >= MaxStepAttempts THEN Abort(mem)
     ELSE /\ disk' = b /\ mem' = b
          /\ at' = IF loc.kind = "wait" THEN "wait" ELSE "step"
          /\ loc' = [StepLocals(b) EXCEPT !.parse = 0, !.next = "none",
                                          !.kind = "work"]
          /\ UNCHANGED <<stores, served>>

-----------------------------------------------------------------------------
\* runStep(): the tool loop of the executor.

\* writeArtifact() of the step-result, before the bundle is settled.
WriteResult(b, status, cut) ==
  /\ results' = results \cup {[run |-> b.run, seq |-> b.inFlight.seq,
                               attempt |-> b.inFlight.attempt,
                               status |-> status, cut |-> cut]}
  /\ mem' = [b EXCEPT !.stepsUsed = @ + 1]
  /\ loc' = [loc EXCEPT !.outcome = status, !.cut = cut]
  /\ at' = "settling"
  /\ UNCHANGED <<disk, terminal, served>>

\* Content the reviewer judges; "failed" also stands for a verdict that cannot
\* be had and for the executor's errors once they exhaust the retries.
StepReviewed(status) == at = "step" /\ WriteResult(mem, status, FALSE)

\* cutControlFailure(): no time left, no tool call left, or a tool-level error.
StepCut == at \in {"step", "calling"} /\ WriteResult(mem, "failed", TRUE)

\* persistExchange().
Snapshot(b) == [b EXCEPT !.inFlight.saved = loc.rounds]

\* An executor error, an empty or an unavailable tool call: ask again.
RetryStep ==
  /\ at = "step" /\ loc.retries < MaxRetries
  /\ Persist(Snapshot(mem), "step")
  /\ loc' = [loc EXCEPT !.retries = @ + 1]

CallsLeft(b) == b.inFlight.calls < MaxToolCalls

\* A tool of the client: suspend until it is answered.
SuspendOnTool ==
  /\ at = "step" /\ CallsLeft(mem)
  /\ PersistAndReturn([Snapshot(mem) EXCEPT !.inFlight.calls = @ + 1,
                                            !.pending = "external",
                                            !.runState = "suspended"])

\* A tool of the server: the call is counted durably before it is made.
CallTool ==
  /\ at = "step" /\ CallsLeft(mem)
  /\ Persist([mem EXCEPT !.inFlight.calls = @ + 1], "calling")
  /\ UNCHANGED loc

ToolReturns ==
  /\ at = "calling"
  /\ Persist(Snapshot(mem), "step")
  /\ UNCHANGED loc

ToolUnavailable == at = "calling" /\ Abort(mem)

\* settleStep(): the bundle takes over what the artifact already says, with the
\* typed reason of a control failure.
SettleStep ==
  LET o == Verdict({[status |-> loc.outcome]}) IN
  /\ at = "settling"
  /\ Persist(Settle([mem EXCEPT !.inFlight.ctl = loc.cut], o), "loop")
  /\ loc' = [loc EXCEPT !.outcome = "none", !.cut = FALSE, !.rounds = 0,
                        !.retries = 0]

\* serveWaitStep(): the deadline is persisted before the sleep, once.
StartWait ==
  /\ at = "wait"
  /\ Persist([mem EXCEPT !.inFlight.slept = TRUE], "sleeping")
  /\ UNCHANGED loc

WaitOver == at = "sleeping" /\ WriteResult(mem, "ok", FALSE)

-----------------------------------------------------------------------------
\* finalize().

Approved(r) == {x \in results : x.run = r /\ x.status \in {"ok", "partial"}}

\* #264: nothing approved and a control failure captured: surface it.
SurfaceFailure(b) == HasFinalizer /\ Approved(b.run) = {} /\ b.inFlight.ctl

\* onExhausted().
GiveUp(b) == IF BestEffort THEN End(b, "success") ELSE Abort(b)

\* A finalizer call a crash cut short is charged.
StartFinalize ==
  LET n == mem.finalizeAttempt + (IF mem.finalizeCall THEN 1 ELSE 0)
      b == [mem EXCEPT !.finalizeAttempt = n]
  IN
  /\ at = "finalize"
  /\ \/ SurfaceFailure(mem) /\ Abort(mem)
     \/ ~SurfaceFailure(mem) /\ mem.finalizeCall /\ n > MaxFinalizeRetries
        /\ GiveUp(b)
     \/ /\ ~SurfaceFailure(mem) /\ ~(mem.finalizeCall /\ n > MaxFinalizeRetries)
        /\ \E text \in BOOLEAN :
             /\ text \/ (~HasFinalizer /\ loc.next = "done")
             /\ Persist([b EXCEPT !.runPhase = "finalizing",
                                  !.finalizeCall = TRUE,
                                  !.answer = IF ~HasFinalizer /\ loc.next = "done"
                                             THEN text ELSE @], "composing")
        /\ UNCHANGED loc

\* The finalizer composed an answer; without one, the planner's is used.
Composed ==
  /\ at = "composing" /\ (HasFinalizer \/ mem.answer)
  /\ End(mem, "success")

\* #243: an empty answer is never a success.
NothingComposed == at = "composing" /\ ~HasFinalizer /\ ~mem.answer /\ Abort(mem)

\* The finalizer fails or answers nothing: charged and persisted, then retried.
ComposeFails ==
  LET n == mem.finalizeAttempt + 1 IN
  /\ at = "composing" /\ HasFinalizer
  /\ Persist([mem EXCEPT !.finalizeAttempt = n],
             IF n > MaxFinalizeRetries THEN "exhausted" ELSE "composing")
  /\ UNCHANGED loc

Exhausted == at = "exhausted" /\ GiveUp(mem)

-----------------------------------------------------------------------------
\* The process dies, a role or a store throws, or the client hangs up.
Crash == at # "idle" /\ Return

\* The TTL of a stored outcome passes.
Expire(r) ==
  /\ Ended(r)
  /\ terminal' = [terminal EXCEPT ![r] = "expired"]
  /\ UNCHANGED <<disk, results, minted, requests, at, req, mem, loc>>

Request ==
  [key : {NoRun} \cup RunIds, newRun : BOOLEAN, prompt : Prompts,
   result : BOOLEAN]

Serve ==
  \/ Classify \/ Replay \/ StartRun \/ NotFound \/ ResumeFinished \/ ResumeRun
  \/ Resurface \/ ConsumeResult \/ AskAgain \/ ConsumeAnswer
  \/ GoalKnown \/ AskEvaluator \/ GoalNeedsConfirmation \/ GoalEstablished
  \/ OutOfSteps \/ AdoptResult \/ ResumeWait \/ ResumeStep
  \/ AskPlanner \/ BoardOverBudget \/ PlannerReplies
  \/ AskAgainPlanner \/ PlannerError \/ PlanDone \/ Rewind \/ OpenStep
  \/ \E s \in {"ok", "partial", "failed"} : StepReviewed(s)
  \/ StepCut \/ RetryStep \/ SuspendOnTool \/ CallTool \/ ToolReturns
  \/ ToolUnavailable \/ SettleStep \/ StartWait \/ WaitOver
  \/ StartFinalize \/ Composed \/ NothingComposed \/ ComposeFails \/ Exhausted
  \/ Flip

Next == \/ \E q \in Request : Arrive(q)
        \/ Serve \/ Crash
        \/ \E r \in RunIds : Expire(r)

Spec == Init /\ [][Next]_vars

\* Calls settle and their continuations run.
FairSpec == Spec /\ WF_vars(Serve)

-----------------------------------------------------------------------------
Outcomes == {"advanced", "partial", "failed"}

StepRecord ==
  [phase : {"none", "executing", "awaiting-replan"}, seq : Nat,
   attempt : Nat, kind : {"work", "wait"}, resumes : Nat, calls : Nat,
   ctl : BOOLEAN, slept : BOOLEAN, queued : Nat, saved : Nat, answered : Nat]

BundleRecord ==
  [run : {NoRun} \cup RunIds,
   runState : {"idle", "active", "suspended", "terminal"},
   runPhase : {"evaluating", "planning", "executing", "finalizing"},
   request : Prompts, goal : BOOLEAN,
   pending : {"none", "external", "goal", "loop"},
   stepsUsed : Nat, rewindsUsed : Nat, nextSeq : Nat,
   planned : BOOLEAN, plan : Nat, planCursor : Nat,
   lastOutcome : {"none"} \cup Outcomes, inFlight : StepRecord,
   evalCall : BOOLEAN, plannerCall : BOOLEAN, finalizeCall : BOOLEAN,
   evalResumes : Nat, plannerResumes : Nat, finalizeAttempt : Nat,
   answer : BOOLEAN]

Places ==
  {"idle", "classify", "fresh", "replay", "resume", "notFound", "external",
   "clarify", "goal", "evaluating", "loop", "wait", "sleeping", "planning",
   "decided", "step", "calling", "settling", "finalize", "composing",
   "exhausted", "flip"}

Locals ==
  [parse : Nat, retries : Nat,
   next : {"none", "malformed", "error", "done", "rewind", "next"},
   kind : {"work", "wait"}, cont : BOOLEAN, rounds : Nat,
   outcome : {"none", "ok", "partial", "failed"}, cut : BOOLEAN]

Result ==
  [run : RunIds, seq : Nat, attempt : Nat, status : {"ok", "partial", "failed"},
   cut : BOOLEAN]

TypeOK ==
  /\ disk \in BundleRecord
  /\ mem \in BundleRecord
  /\ results \subseteq Result
  /\ terminal \in [RunIds -> {"none", "success", "error", "expired"}]
  /\ minted \in Nat /\ minted <= requests
  /\ requests \in Nat /\ requests <= MaxRequests
  /\ at \in Places
  /\ req \in Request
  /\ loc \in Locals

\* A crash between the artifact of a step and the bundle that takes it over does
\* not run the step again: an attempt has one result, whatever is resumed.
CommittedOnce ==
  [][\A x \in results' \ results, y \in results :
       ~(x.run = y.run /\ x.seq = y.seq /\ x.attempt = y.attempt)]_vars

\* The persisted cursors agree with each other and with the artifacts: exactly the
\* steps before nextSeq are approved, up to one whose settling was cut short.
LockStep ==
  LET b    == disk
      done == {x.seq : x \in Approved(b.run)}
  IN
  /\ b.planned => b.planCursor = b.nextSeq
  /\ \/ done = 0..b.nextSeq \ {b.nextSeq}
     \/ /\ done = 0..b.nextSeq
        /\ Executing(b) /\ b.inFlight.seq = b.nextSeq
        /\ Committed(b) # {}

\* A run whose outcome is stored is not worked on: not by a request that follows
\* a crash between the terminal write and the bundle flip, nor by any other.
FinishedNotRerun ==
  at \notin {"idle", "classify", "fresh", "replay", "resume", "notFound", "flip"}
    => terminal[mem.run] \notin {"success", "error"}

\* An outcome that was stored stands until its TTL: no later write changes it.
OutcomeStands ==
  [][\A r \in RunIds :
       terminal[r] \in {"success", "error"} =>
         terminal'[r] \in {terminal[r], "expired"}]_vars

\* A success means the whole plan ran: each of its steps has an approved
\* artifact, whatever was replanned, adopted, resumed or retried on the way.
SuccessCompletesPlan ==
  [][\A r \in RunIds :
       terminal[r] # "success" /\ terminal'[r] = "success" =>
         /\ mem.planned
         /\ \A n \in 1..mem.plan : \E x \in Approved(r) : x.seq = n - 1]_vars

\* Crashes do not stretch the budgets: no seq is attempted, and no attempt or
\* role call resumed, more often than configured; maxSteps is exceeded by at most
\* the one attempt each later request may adopt uncharged.
BudgetsHold ==
  /\ \A x \in results : x.attempt < MaxStepAttempts
  /\ disk.run # NoRun =>
       Cardinality({x \in results : x.run = disk.run}) < MaxSteps + requests
  /\ disk.inFlight.resumes <= MaxStepResumes
  /\ disk.inFlight.calls <= MaxToolCalls
  /\ disk.runState # "terminal" => /\ disk.evalResumes <= MaxEvalResumes
                                   /\ disk.plannerResumes <= MaxPlannerResumes

\* A wait survives crashes: however often it is resumed, it is not what ends the
\* run (it is served against its durable deadline, not replayed).
WaitSurvives ==
  [][Executing(mem) /\ mem.inFlight.kind = "wait" /\ at \in {"loop", "wait", "sleeping"}
       => terminal'[mem.run] # "error"]_vars

\* The runs keep what RunLedger promises.
Ledger == INSTANCE RunLedger WITH
  Runs     <- RunIds,
  Attempts <- 0..MaxStepAttempts - 1,
  current  <- disk.run,
  accepted <- [r \in RunIds |-> {<<x.seq, x.attempt>> : x \in Approved(r)}],
  outcome  <- terminal

ImplementsLedger == Ledger!LedgerSpec

\* A request is always answered, or asked back: the handler never runs on.
RequestEnds == at # "idle" ~> at = "idle"

\* What types.ts says of controlFailure: it is "persisted atomically with
\* inFlightStep.phase='awaiting-replan' so a crash before the replan keeps the
\* reason".  It does not hold: adopting the artifact of a cut step drops it.
ControlFailureKept ==
  disk.inFlight.phase = "awaiting-replan" =>
    \A x \in Committed(disk) : x.cut => disk.inFlight.ctl

\* What runStep() says: it persists "after every executor/tool exchange so a
\* suspend or crash resumes with the same context the executor saw".  It does
\* not hold for a strategy whose snapshot is a copy, as the one the pipeline wires is
\* (RagRecall): the write that counts a tool call saves the emptied queue without the
\* answer taken from it.  With SharesRounds the answer is in that write.
AnswersKept == at = "step" => loc.rounds = mem.inFlight.answered

\* What the handler says of suspension: "all state lives in the persisted Session-
\* Bundle", to be resumed from.  It does not hold: a request that names another
\* run overwrites the pending call of the run that is suspended.
PendingSurvives ==
  [][disk.pending = "external" /\ disk'.run = disk.run =>
       disk'.pending = "external" \/ disk'.inFlight # disk.inFlight]_vars
=============================================================================
