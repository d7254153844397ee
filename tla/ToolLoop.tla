------------------------------ MODULE ToolLoop ------------------------------
(***************************************************************************)
(* The streaming tool loop of the pipeline (pipeline/handlers/tool-loop.ts *)
(* with tool-loop-core.ts), the registries the requests of a session share *)
(* (policy/pending-tool-results-registry.ts, tool-availability-registry.ts)*)
(* and what SmartAgent.process() makes of the stream.                      *)
(*                                                                         *)
(* An action is the code between two awaits that really wait: the model's  *)
(* stream, a list of tools, a batch of tool calls, a pending result.  A    *)
(* call is its position in the response; its name says who can run it.     *)
(* (Two calls of a client's tool with equal arguments get one id in the    *)
(* code, externalToolCallId(); the ids are not modelled.)                  *)
(***************************************************************************)
EXTENDS Integers, Sequences, FiniteSets

CONSTANTS
  Requests,       \* concurrent requests of one session
  Internal,       \* names of tools of MCP servers
  External,       \* names of tools the client runs
  Unknown,        \* names nobody offered
  Modes,          \* stream modes: "full", "final"
  Entries,        \* identities of entries of the registry of pending results
  NoEntry,
  MaxIterations,
  MaxToolCalls,
  MaxRound,       \* BOUND: calls of one response
  MaxResets       \* BOUND: resets of one stream

ASSUME ToolLoopAssumption ==
  /\ NoEntry \notin Entries
  /\ MaxIterations \in Nat /\ MaxToolCalls \in Nat
  /\ MaxRound \in Nat /\ MaxResets \in Nat

VARIABLES
  turn,           \* where each request stands, with the locals of execute()
  pendingResults, \* PendingToolResultsRegistry: the entry of the session
  promise,        \* what each entry waits for
  blocked,        \* ToolAvailabilityRegistry: the blocked tools of the session
  streamMode      \* config.streamMode

loopVars == <<turn, pendingResults, promise, blocked, streamMode>>

Names == Internal \cup External \cup Unknown

-----------------------------------------------------------------------------
NothingSeen == [content |-> <<>>, progress |-> <<>>, final |-> FALSE]

\* What the rounds of the last response made of its calls, see Settle, until its batch
\* is done.
NoTally == [missed |-> {}, dropped |-> FALSE, doubled |-> {}, halted |-> FALSE, first |-> FALSE]

NoTurn ==
  [at |-> "out", known |-> {}, held |-> {}, awaits |-> NoEntry,
   iteration |-> 0, resets |-> 0, count |-> 0, calls |-> <<>>, refused |-> {},
   running |-> {}, size |-> 0, tally |-> NoTally, progress |-> <<>>,
   answer |-> <<>>, seen |-> NothingSeen, outcome |-> "none"]

LoopInit ==
  /\ turn = [r \in Requests |-> NoTurn]
  /\ pendingResults = NoEntry
  /\ promise = [e \in Entries |-> "free"]
  /\ blocked = {}
  /\ streamMode \in Modes

-----------------------------------------------------------------------------
(* What process() makes of the stream.  Content is the iterations it came  *)
(* from, in the order and as often as it came.                             *)

\* A chunk of content.
Shown(seen, c) == [seen EXCEPT !.content = @ \o c]

\* The iteration is run again.
Retried(seen) == [seen EXCEPT !.content = <<>>, !.final = FALSE]

\* The iteration ended with tool calls.
CallsMade(seen) ==
  [content |-> <<>>, progress |-> seen.progress \o seen.content, final |-> FALSE]

Finished(seen) == [seen EXCEPT !.final = TRUE]

\* The content process() returns.
Reply(seen) ==
  IF seen.final THEN seen.content ELSE seen.progress \o seen.content

\* FAULT: in every mode, so also what was streamed already.
FallbackAlways(t) == Shown(t.seen, t.progress)

\* emitProgressFallback(): what was said between calls and not streamed.
WithFallback(t) == IF streamMode = "final" THEN Shown(t.seen, t.progress) ELSE t.seen

-----------------------------------------------------------------------------
(* Classification of a response.                                           *)

Positions(calls) == 1..Len(calls)
internalCalls(t, calls) == {i \in Positions(calls) : calls[i] \in t.known}
externalCalls(calls)    == {i \in Positions(calls) : calls[i] \in External}
blockedCalls(calls)     == {i \in Positions(calls) : calls[i] \in blocked}
hallucinations(t, calls) ==
  Positions(calls) \ (internalCalls(t, calls) \cup externalCalls(calls)
                        \cup blockedCalls(calls))

\* FAULT: the budget is looked at, the batch is not cut.
Whole(S, n) == IF n > 0 THEN S ELSE {}

\* The first n calls of S, in the order of the response.
FirstOf(S, n) == {i \in S : Cardinality({j \in S : j <= i}) <= n}

Remaining(t) == IF t.count > MaxToolCalls THEN 0 ELSE MaxToolCalls - t.count

\* A round the context strategy records: the calls of its assistant message are
\* asked, the tool messages answer.
Asks(why, asked, answered) == [why |-> why, asked |-> asked, answered |-> answered]
Round(why, S) == IF S = {} THEN {} ELSE {Asks(why, S, S)}

Named(calls, S) == {calls[i] : i \in S}

\* What the rounds of a response, with the calls handed to the client and to the
\* registry, make of its calls: the names asked without a result, whether some call is
\* never asked, the names with two results; whether a blocked tool was called, and
\* whether the response was the first of the turn.
Settle(t, rounds) ==
  LET results(i) == {x \in rounds : i \in x.answered}
      asked      == UNION {x.asked : x \in rounds}
  IN
  [t EXCEPT !.tally =
    [missed  |-> Named(t.calls, UNION {x.asked \ x.answered : x \in rounds}),
     dropped |-> Positions(t.calls) \ asked # {},
     doubled |-> Named(t.calls, {i \in Positions(t.calls) : Cardinality(results(i)) > 1}
                                  \cup UNION {x.answered \ x.asked : x \in rounds}),
     halted  |-> \E x \in rounds : x.why = "blocked",
     first   |-> t.iteration = 0]]

-----------------------------------------------------------------------------
(* A turn begins.                                                          *)

\* FAULT: the entry stays registered until its results arrive.
TakenLater(e) == e

\* consume() deletes the entry before it awaits the promise.
Taken(e) == NoEntry

\* injectPendingResults(): the results of a mixed round of an earlier request.
Enter(r, known, held) ==
  /\ turn[r].at = "out"
  /\ turn' = [turn EXCEPT ![r] =
       [NoTurn EXCEPT !.at = IF pendingResults = NoEntry THEN "head" ELSE "pending",
                      !.known = known, !.held = held,
                      !.awaits = pendingResults]]
  /\ pendingResults' = Taken(pendingResults)
  /\ UNCHANGED <<promise, blocked, streamMode>>

PendingArrives(r) ==
  /\ turn[r].at = "pending"
  /\ promise[turn[r].awaits] = "settled"
  /\ turn' = [turn EXCEPT ![r].at = "head", ![r].awaits = NoEntry]
  /\ promise' = [promise EXCEPT ![turn[r].awaits] = "free"]
  /\ UNCHANGED <<pendingResults, blocked, streamMode>>

\* The internal calls of a mixed round run on after their turn.
PromiseSettles(e) ==
  /\ promise[e] = "running"
  /\ promise' = [promise EXCEPT ![e] = "settled"]
  /\ UNCHANGED <<turn, pendingResults, blocked, streamMode>>

\* An entry past its time is deleted where it is looked for.
PendingExpires ==
  /\ pendingResults # NoEntry
  /\ pendingResults' = NoEntry
  /\ promise' = [promise EXCEPT ![pendingResults] = "free"]
  /\ UNCHANGED <<turn, blocked, streamMode>>

BlockExpires(n) ==
  /\ n \in blocked
  /\ blocked' = blocked \ {n}
  /\ UNCHANGED <<turn, pendingResults, promise, streamMode>>

-----------------------------------------------------------------------------
(* The head of the loop.                                                   *)

\* The locals nothing reads after the iteration.
Over(t) == [t EXCEPT !.calls = <<>>, !.refused = {}, !.running = {}, !.size = 0,
                     !.known = {}, !.resets = 0]

\* An error has no content, else what process() has seen.
End(r, t, outcome, seen) ==
  turn' = [turn EXCEPT ![r] =
    [Over(t) EXCEPT !.at = "done", !.outcome = outcome, !.held = {}, !.iteration = 0,
                    !.progress = IF outcome = "error" THEN <<>> ELSE @,
                    !.tally = IF outcome = "tool_calls" THEN @ ELSE NoTally,
                    !.seen = IF outcome = "error" THEN NothingSeen ELSE seen]]

\* FAULT: a round is repeated under its number.
Uncounted(n) == n

Counted(n) == n + 1

Again(r, t) ==
  turn' = [turn EXCEPT ![r] =
    [Over(t) EXCEPT !.at = "head", !.iteration = Counted(@)]]

\* A finish of the dialogue task is honoured before every call of the model.
TaskFinished(r) ==
  LET t == turn[r] IN
  /\ t.at = "head"
  /\ End(r, [t EXCEPT !.answer = <<MaxIterations>>], "final",
         Finished(Shown(t.seen, <<MaxIterations>>)))
  /\ UNCHANGED <<pendingResults, promise, blocked, streamMode>>

Aborted(r) ==
  /\ turn[r].at = "head"
  /\ End(r, turn[r], "error", turn[r].seen)
  /\ UNCHANGED <<pendingResults, promise, blocked, streamMode>>

Stopped(r) ==
  /\ turn[r].at = "head" /\ turn[r].iteration > 0
  /\ End(r, turn[r], "stopped", WithFallback(turn[r]))
  /\ UNCHANGED <<pendingResults, promise, blocked, streamMode>>

OutOfIterations(r) ==
  /\ turn[r].at = "head" /\ turn[r].iteration >= MaxIterations
  /\ End(r, turn[r], "length", WithFallback(turn[r]))
  /\ UNCHANGED <<pendingResults, promise, blocked, streamMode>>

Left(t) == t.iteration < MaxIterations

\* The tools are listed again: a server that does not answer drops out.
Relisted(t) == IF t.iteration = 0 THEN {t.known} ELSE SUBSET Internal

\* mergeOfferedTools() looks at what was listed again, for a name of the client's.
Collides(t, known) == t.iteration > 0 /\ known \cap External # {}

CallModel(r) ==
  /\ turn[r].at = "head" /\ Left(turn[r])
  /\ \E known \in Relisted(turn[r]) :
       /\ ~Collides(turn[r], known)
       /\ turn' = [turn EXCEPT ![r].at = "calling", ![r].known = known, ![r].resets = 0,
                               ![r].tally = NoTally]
  /\ UNCHANGED <<pendingResults, promise, blocked, streamMode>>

\* It throws, and the pipeline ends the turn without a word.
NamesCollide(r) ==
  /\ turn[r].at = "head" /\ Left(turn[r])
  /\ \E known \in Relisted(turn[r]) : Collides(turn[r], known)
  /\ End(r, turn[r], "thrown", turn[r].seen)
  /\ UNCHANGED <<pendingResults, promise, blocked, streamMode>>

-----------------------------------------------------------------------------
(* The stream of the model.                                                *)

\* What has been streamed of this iteration.
Live(t) == IF streamMode # "final" THEN Shown(t.seen, <<t.iteration>>) ELSE t.seen

\* A retry below starts the stream over.
StreamReset(r) ==
  LET t == turn[r] IN
  /\ t.at = "calling" /\ t.resets < MaxResets
  /\ turn' = [turn EXCEPT ![r].resets = @ + 1, ![r].seen = Retried(Live(t))]
  /\ UNCHANGED <<pendingResults, promise, blocked, streamMode>>

StreamFails(r) ==
  /\ turn[r].at = "calling"
  /\ End(r, turn[r], "error", Live(turn[r]))
  /\ UNCHANGED <<pendingResults, promise, blocked, streamMode>>

\* A reply without calls that the validator rejects; a reprompt.
Reprompted(r) ==
  LET t == turn[r] IN
  /\ t.at = "calling"
  /\ Again(r, [t EXCEPT !.seen = Retried(Live(t))])
  /\ UNCHANGED <<pendingResults, promise, blocked, streamMode>>

\* A reply that ends the turn: no call, or calls under another finish reason.
Replied(r) ==
  LET t == turn[r] IN
  /\ t.at = "calling"
  /\ End(r, [t EXCEPT !.answer = <<t.iteration>>], "final",
         Finished(Shown(t.seen, <<t.iteration>>)))
  /\ UNCHANGED <<pendingResults, promise, blocked, streamMode>>

\* The locals after a response with calls: the iteration is closed for whoever
\* reads the stream.  refused is what toolRoundGuard says no to.
Responded(t, calls, refused) ==
  [t EXCEPT !.calls = calls, !.refused = refused,
            !.progress = Append(@, t.iteration),
            !.seen = CallsMade(Live(t))]

Batch(t)   == FirstOf(internalCalls(t, t.calls), Remaining(t))
Skipped(t) == internalCalls(t, t.calls) \ Batch(t)
Unknowns(t) == hallucinations(t, t.calls)
Rejected(t) == externalCalls(t.calls) \cap t.refused
Asked(t)   == externalCalls(t.calls) \ t.refused

\* FAULT: the results of an earlier round trip are not looked for.
MissesAll(t) == Asked(t)

\* External calls whose result the client has not sent yet.
Misses(t)  == {i \in Asked(t) : t.calls[i] \notin t.held}
Hits(t)    == {i \in Asked(t) : t.calls[i] \in t.held}

\* Refused external calls are answered first; unknown ones at once when there are
\* external calls; the results the client sent with the request at once.
RoundsBefore(t) ==
  Round("refused", Rejected(t)) \cup Round("held", Hits(t))
    \cup (IF Asked(t) # {} THEN Round("unknown", Unknowns(t)) ELSE {})

\* Nothing is left but refused external calls: the loop goes on.
AllRefused(r, calls, refused) ==
  LET t == Responded(turn[r], calls, refused) IN
  /\ turn[r].at = "calling"
  /\ Rejected(t) # {} /\ Asked(t) = {} /\ internalCalls(t, calls) = {}
  /\ blockedCalls(calls) = {} /\ Unknowns(t) = {}
  /\ Again(r, Settle(t, Round("refused", Rejected(t))))
  /\ UNCHANGED <<pendingResults, promise, blocked, streamMode>>

\* A blocked tool is called: that is answered, the other calls of the response are
\* forgotten, never asked in the model's next context.
BlockedRound(r, calls, refused) ==
  LET t == Responded(turn[r], calls, refused) IN
  /\ turn[r].at = "calling"
  /\ blockedCalls(calls) # {}
  /\ Again(r, Settle(t, Round("refused", Rejected(t))
                          \cup Round("blocked", blockedCalls(calls))))
  /\ UNCHANGED <<pendingResults, promise, blocked, streamMode>>

\* The entry of a mixed round: what runs and, as errors, what is over the budget.
Fired(t) == Round("pending", Batch(t) \cup Skipped(t))

\* An external call without a result: it is surfaced and the turn ends; the internal
\* calls of the same round run on, registered for the session's next request.
Surface(r, calls, refused) ==
  LET t == Responded(turn[r], calls, refused)
      mixed == internalCalls(t, calls) # {}
  IN
  /\ turn[r].at = "calling"
  /\ blockedCalls(calls) = {} /\ Misses(t) # {}
  /\ IF mixed
     THEN \E e \in IF pendingResults # NoEntry THEN {pendingResults}
                   ELSE {x \in Entries : promise[x] = "free"} :
            /\ pendingResults' = e
            /\ promise' = [promise EXCEPT ![e] = "running"]
     ELSE UNCHANGED <<pendingResults, promise>>
  /\ End(r, [Settle(t, RoundsBefore(t) \cup Fired(t) \cup Round("surfaced", Misses(t)))
               EXCEPT !.count = @ + IF mixed THEN Cardinality(Batch(t)) ELSE 0],
         "tool_calls", WithFallback(t))
  /\ UNCHANGED <<blocked, streamMode>>

\* Every external call has its result and there is nothing to run.
OnlyHits(r, calls, refused) ==
  LET t == Responded(turn[r], calls, refused) IN
  /\ turn[r].at = "calling"
  /\ blockedCalls(calls) = {} /\ Misses(t) = {} /\ Hits(t) # {}
  /\ internalCalls(t, calls) = {}
  /\ Again(r, Settle(t, RoundsBefore(t)))
  /\ UNCHANGED <<pendingResults, promise, blocked, streamMode>>

\* The round of a batch: what runs or is refused, what is over the budget, and what
\* is not found and not answered yet.
BatchRound(t) ==
  LET unknown == IF Asked(t) = {} THEN Unknowns(t) ELSE {} IN
  {Asks("batch", internalCalls(t, t.calls) \cup unknown,
        Batch(t) \cup Skipped(t) \cup unknown)}

\* The internal calls within the budget start, all at once.  How each call of the
\* round will be answered is settled here; what it says is not.
StartBatch(r, calls, refused) ==
  LET t == Responded(turn[r], calls, refused) IN
  /\ turn[r].at = "calling"
  /\ blockedCalls(calls) = {} /\ Misses(t) = {}
  /\ \/ internalCalls(t, calls) # {}
     \/ Asked(t) = {} /\ Unknowns(t) # {}
  /\ turn' = [turn EXCEPT ![r] =
       [Over(Settle(t, RoundsBefore(t) \cup BatchRound(t)))
         EXCEPT !.at = "running",
                !.running = {calls[i] : i \in Batch(t) \ refused},
                !.size = Cardinality(Batch(t))]]
  /\ UNCHANGED <<pendingResults, promise, blocked, streamMode>>

\* The whole batch has settled.  A tool that is not available any more is blocked.
BatchDone(r, gone) ==
  /\ turn[r].at = "running"
  /\ gone \subseteq turn[r].running
  /\ blocked' = blocked \cup gone
  /\ Again(r, [turn[r] EXCEPT !.count = @ + turn[r].size, !.tally = NoTally])
  /\ UNCHANGED <<pendingResults, promise, streamMode>>

\* A server is down: an error, not a text for the model.
Escalated(r) ==
  LET t == turn[r] IN
  /\ t.at = "running" /\ t.running # {}
  /\ End(r, [t EXCEPT !.count = @ + t.size],
         "error", t.seen)
  /\ UNCHANGED <<pendingResults, promise, blocked, streamMode>>

\* process() returns.
Leave(r) ==
  /\ turn[r].at = "done"
  /\ turn' = [turn EXCEPT ![r] = NoTurn]
  /\ UNCHANGED <<pendingResults, promise, blocked, streamMode>>

-----------------------------------------------------------------------------
\* A refusal of an unknown or a blocked call changes nothing.
Refusable(t, calls) == internalCalls(t, calls) \cup externalCalls(calls)

Responses == UNION {[1..n -> Names] : n \in 1..MaxRound}

Answer(r) ==
  /\ turn[r].at = "calling"
  /\ \E calls \in Responses : \E refused \in SUBSET Refusable(turn[r], calls) :
    \/ AllRefused(r, calls, refused) \/ BlockedRound(r, calls, refused)
    \/ Surface(r, calls, refused) \/ OnlyHits(r, calls, refused)
    \/ StartBatch(r, calls, refused)

\* What a turn does by itself, once the model and the servers answer.
Advance(r) ==
  \/ PendingArrives(r) \/ TaskFinished(r) \/ Aborted(r) \/ Stopped(r)
  \/ OutOfIterations(r) \/ CallModel(r) \/ NamesCollide(r) \/ StreamReset(r)
  \/ StreamFails(r) \/ Reprompted(r) \/ Replied(r)
  \/ (\E gone \in SUBSET turn[r].running : BatchDone(r, gone))
  \/ Escalated(r) \/ Leave(r)

LoopNext ==
  \/ \E r \in Requests : Advance(r) \/ Answer(r)
  \/ \E r \in Requests, held \in SUBSET External : Enter(r, Internal, held)
  \/ \E e \in Entries : PromiseSettles(e)
  \/ PendingExpires
  \/ \E n \in Internal : BlockExpires(n)

\* The model's stream ends, a server answers or times out (its client's timeout),
\* and the event loop runs what has settled.  A stream may end with calls every time:
\* Advance is enabled wherever Answer is, and what follows an Answer is an Advance.
LoopSpec ==
  /\ LoopInit /\ [][LoopNext]_loopVars
  /\ \A r \in Requests : WF_loopVars(Advance(r))
  /\ \A e \in Entries : WF_loopVars(PromiseSettles(e))

-----------------------------------------------------------------------------
Stages == {"out", "pending", "head", "calling", "running", "done"}

LoopTypeOK ==
  /\ pendingResults \in Entries \cup {NoEntry}
  /\ promise \in [Entries -> {"free", "running", "settled"}]
  /\ blocked \subseteq Internal /\ streamMode \in Modes
  /\ \A r \in Requests :
       /\ turn[r].at \in Stages
       /\ turn[r].known \subseteq Internal /\ turn[r].held \subseteq External
       /\ turn[r].iteration \in 0..MaxIterations
       /\ turn[r].at = "pending" => turn[r].awaits \in Entries

\* Every call that is asked has a result; none is forgotten unless a blocked tool was
\* called beside it; twice is answered only a call whose name both a server and the
\* client offer, and such a call only in the first response, before the names were
\* compared, or where the tool is blocked.
Accounted(tally) ==
  /\ tally.missed = {}
  /\ tally.dropped => tally.halted
  /\ tally.doubled \subseteq Internal \cap External
  /\ tally.doubled # {} => tally.first \/ tally.halted

\* A model API refuses a context in which a call has no result or two.  Whatever mix
\* of internal, external, refused, blocked, unknown and surplus calls a response holds,
\* every call is asked and answered once (in a recorded round, by the client, or in the
\* entry of the session's next request), but for what Accounted names.
EveryCallAnswered == \A r \in Requests : Accounted(turn[r].tally)

\* The results of one mixed round are injected into one request only, also when two
\* requests of the session start together.
PendingOnce ==
  \A r \in Requests : turn[r].at = "pending" =>
    /\ turn[r].awaits # pendingResults
    /\ promise[turn[r].awaits] # "free"
    /\ \A s \in Requests \ {r} : turn[s].awaits # turn[r].awaits

\* maxToolCalls holds for a whole request, the calls left running after it included.
BudgetHolds ==
  \A r \in Requests : turn[r].count + turn[r].size <= MaxToolCalls

\* Producer and consumer keep progress apart from the answer on their own.  In both
\* stream modes, after any resets and reprompts, the content process() returns is the
\* answer, or what was said before the turn was cut short: each part once, in order.
ConsumerAgrees ==
  \A r \in Requests : turn[r].at = "done" =>
    CASE turn[r].outcome = "final" -> Reply(turn[r].seen) = turn[r].answer
      [] turn[r].outcome \in {"stopped", "length", "tool_calls"} ->
           Reply(turn[r].seen) = turn[r].progress
      [] OTHER -> TRUE

\* A request ends, whatever the model asks for.
TurnEnds == \A r \in Requests : turn[r].at # "out" ~> turn[r].at = "out"

=============================================================================
