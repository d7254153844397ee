------------------------------ MODULE TaskBoard ------------------------------
(***************************************************************************)
(* The board of background tasks of a dialogue session                     *)
(* (coordinator/dialogue/task-board.ts) with its semaphore                 *)
(* (semaphore-pool.ts).  An action is the code between two awaits of       *)
(* execute(), or one synchronous call of the host: start, stop, stopAll.   *)
(*                                                                         *)
(* A stop is cooperative: a running worker is asked, and cut off by a      *)
(* timer when it does not answer; the write of a result is I/O outside of  *)
(* the slot, and a stop that comes then cancels the write.                 *)
(***************************************************************************)
EXTENDS Integers, Sequences, FiniteSets, SequencesExt

CONSTANTS
  Tasks,
  MaxConcurrent,   \* opts.maxConcurrent, the slots
  ResultStore      \* whether a store of results is configured

ASSUME TaskBoardAssumption ==
  MaxConcurrent \in Nat \ {0} /\ ResultStore \in BOOLEAN

VARIABLES
  task,      \* the record and the entry of each task
  fifo,      \* SemaphorePool.queue
  awaited,   \* the runs stopAll() waits for
  called     \* whether the host called stopAll()

boardVars == <<task, fifo, awaited, called>>

\* state is the task's record; at is where execute() stands, "out" once its
\* entry is gone; kind is the outcome a write in flight will be settled with.
NoTask ==
  [state |-> "none", at |-> "none", stop |-> FALSE, cancel |-> FALSE,
   put |-> "none", kind |-> "none", events |-> 0]

BoardInit ==
  /\ task = [t \in Tasks |-> NoTask]
  /\ fifo = <<>>
  /\ awaited = {}
  /\ called = FALSE

HasEntry(t) == task[t].at \notin {"none", "out"}
Holding(t) == task[t].at \in {"granted", "running"}
active == Cardinality({t \in Tasks : Holding(t)})

\* The entry is deleted: a stopAll() that waits for the run waits no longer.
Gone(t) == awaited' = awaited \ {t}

\* FAULT: a slot given back is not handed on.
FreedOnly(t, record) == task' = [task EXCEPT ![t] = record] /\ UNCHANGED fifo

\* Writes record for t, which gives its slot back: the head of the queue gets it.
Freed(t, record) ==
  IF fifo = <<>>
  THEN task' = [task EXCEPT ![t] = record] /\ UNCHANGED fifo
  ELSE /\ task' = [task EXCEPT ![t] = record, ![Head(fifo)].at = "granted"]
       /\ fifo' = Tail(fifo)

-----------------------------------------------------------------------------
(* start() and execute().                                                  *)

Start(t) ==
  /\ task[t] = NoTask
  /\ IF active < MaxConcurrent
     THEN task' = [task EXCEPT ![t].state = "queued", ![t].at = "granted"]
          /\ UNCHANGED fifo
     ELSE task' = [task EXCEPT ![t].state = "queued", ![t].at = "waiting"]
          /\ fifo' = Append(fifo, t)
  /\ UNCHANGED <<awaited, called>>

\* The slot is granted; a task stopped meanwhile only gives it back.
Granted(t) ==
  /\ task[t].at = "granted"
  /\ IF task[t].stop
     THEN Freed(t, [task[t] EXCEPT !.at = "out"]) /\ Gone(t)
     ELSE /\ task' = [task EXCEPT ![t].at = "running", ![t].state = "running"]
          /\ UNCHANGED <<fifo, awaited>>
  /\ UNCHANGED called

\* The task is settled and its one terminal event emitted.
Settled(t, record, state) ==
  [record EXCEPT !.at = "out", !.state = state, !.put = "none", !.kind = "none",
                 !.stop = FALSE, !.cancel = FALSE, !.events = @ + 1]

\* FAULT: the write of a result forgets that everything was stopped.
OpensAlways(record) == "open"

\* A write that begins after stopAll() is cancelled at once.
Opens(record) == IF record.cancel THEN "aborted" ELSE "open"

\* The finally of execute(): the slot is given back before the result is stored.
Finish(t, kind) ==
  LET record == [task[t] EXCEPT !.at = "storing", !.kind = kind,
                                !.put = Opens(task[t])] IN
  IF ResultStore
  THEN Freed(t, record) /\ UNCHANGED awaited
  ELSE Freed(t, Settled(t, task[t], kind)) /\ Gone(t)

\* A worker that was asked to stop may still finish, fail, or say it stopped.
WorkerReturns(t) ==
  /\ task[t].at = "running"
  /\ \E kind \in {"done", "failed"} \cup (IF task[t].stop THEN {"stopped"} ELSE {}) :
       Finish(t, kind)
  /\ UNCHANGED called

\* The timer stop() armed, or no grace at all.
HardStop(t) ==
  /\ task[t].at = "running"
  /\ task[t].stop
  /\ Finish(t, "stopped")
  /\ UNCHANGED called

\* What a write that ended leaves of the outcome.
Kept(kind, ok) == IF kind = "done" /\ ~ok THEN "failed" ELSE kind

ResultWritten(t) ==
  /\ task[t].at = "storing"
  /\ task[t].put = "open"
  /\ \E ok \in BOOLEAN :
       task' = [task EXCEPT ![t] = Settled(t, @, Kept(task[t].kind, ok))]
  /\ Gone(t)
  /\ UNCHANGED <<fifo, called>>

\* The outcome of a task whose write was cancelled is not known.
WriteAborted(t) ==
  /\ task[t].at = "storing"
  /\ task[t].put = "aborted"
  /\ task' = [task EXCEPT ![t] =
       Settled(t, @, IF @.kind = "stopped" THEN "stopped" ELSE "interrupted")]
  /\ Gone(t)
  /\ UNCHANGED <<fifo, called>>

-----------------------------------------------------------------------------
(* stop() and stopAll().                                                   *)

\* FAULT: a running task is reported as stopped when it is asked to stop.
StoppedAtOnce(x) ==
  CASE x.at = "storing" -> [x EXCEPT !.put = "aborted"]
    [] x.at = "waiting" ->
         [x EXCEPT !.at = "out", !.state = "stopped", !.events = @ + 1]
    [] x.at \in {"granted", "running"} /\ ~x.stop ->
         [x EXCEPT !.stop = TRUE, !.state = "stopped", !.events = @ + 1]
    [] OTHER -> x

\* What stop() makes of the entry x.  A second stop of the same phase is refused.
Stopped(x) ==
  CASE x.at = "storing" -> [x EXCEPT !.put = "aborted"]
    [] x.at = "waiting" ->
         [x EXCEPT !.at = "out", !.state = "stopped", !.events = @ + 1]
    [] x.at = "granted" /\ ~x.stop ->
         [x EXCEPT !.stop = TRUE, !.state = "stopped", !.events = @ + 1]
    [] x.at = "running" -> [x EXCEPT !.stop = TRUE]
    [] OTHER -> x

\* SemaphorePool.acquire(), abort: the waiter leaves the queue.
Place(t) == CHOOSE i \in 1..Len(fifo) : fifo[i] = t
Unqueued(t) == IF task[t].at = "waiting" THEN RemoveAt(fifo, Place(t)) ELSE fifo

Stop(t) ==
  /\ HasEntry(t)
  /\ task' = [task EXCEPT ![t] = Stopped(@)]
  /\ fifo' = Unqueued(t)
  /\ awaited' = IF task'[t].at = "out" THEN awaited \ {t} ELSE awaited
  /\ UNCHANGED called

\* Every entry is stopped in turn, also those that wait in the queue; then every
\* run in flight is awaited.
StopAll ==
  /\ ~called
  /\ called' = TRUE
  /\ task' = [t \in Tasks |->
       IF HasEntry(t) THEN Stopped([task[t] EXCEPT !.cancel = TRUE]) ELSE task[t]]
  /\ fifo' = <<>>
  /\ awaited' = {t \in Tasks : task'[t].at \notin {"none", "out"}}

-----------------------------------------------------------------------------
Execute(t) ==
  Granted(t) \/ WorkerReturns(t) \/ HardStop(t) \/ ResultWritten(t) \/ WriteAborted(t)

BoardNext == (\E t \in Tasks : Start(t) \/ Execute(t) \/ Stop(t)) \/ StopAll

\* What the event loop runs: granted slots, timers, aborted writes.  Neither a
\* worker nor the store is assumed to answer.
BoardFairness ==
  \A t \in Tasks : WF_boardVars(Granted(t)) /\ WF_boardVars(HardStop(t))
                     /\ WF_boardVars(WriteAborted(t))

BoardSpec == BoardInit /\ [][BoardNext]_boardVars /\ BoardFairness

-----------------------------------------------------------------------------
Stages == {"none", "waiting", "granted", "running", "storing", "out"}
States == {"none", "queued", "running", "done", "failed", "stopped", "interrupted"}

Records ==
  [state : States, at : Stages, stop : BOOLEAN, cancel : BOOLEAN,
   put : {"none", "open", "aborted"}, kind : {"none", "done", "failed", "stopped"},
   events : Nat]

\* Types of the board: records, the queue of the semaphore, the awaited runs.
BoardTypeOK ==
  /\ task \in [Tasks -> Records]
  /\ fifo \in Seq(Tasks)
  /\ awaited \subseteq Tasks
  /\ called \in BOOLEAN

\* No more tasks hold a slot than there are slots; no slot is free while a task
\* waits, and a task waits in the queue once.  (A stop of a waiting task, a slot
\* given back by a task stopped before it ran, a hard stop: each has to hand the
\* slot on, or the session's tasks wait for ever.)
SlotsUsed ==
  /\ active <= MaxConcurrent
  /\ fifo # <<>> => active = MaxConcurrent
  /\ IsInjective(fifo)
  /\ Range(fifo) = {t \in Tasks : task[t].at = "waiting"}

\* The board implements the task's promise: it settles once, with one event, and
\* an outcome is never taken back, whatever order stops, the timer, the worker and
\* the write of the result come in.
T == INSTANCE Tasks WITH
  state <- [t \in Tasks |-> task[t].state],
  told <- [t \in Tasks |-> task[t].events]
ImplementsTasks == T!TasksSpec

\* stopAll() returns although no worker and no write of a result ever answers:
\* the timer and the cancelled write end every run it waits for.
StopAllReturns == called ~> (awaited = {})
=============================================================================
