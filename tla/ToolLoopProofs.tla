--------------------------- MODULE ToolLoopProofs ---------------------------
(***************************************************************************)
(* The budget, the pending results, the answer of process() and the rounds *)
(* of ToolLoop, proved for every number of requests, tools and calls.      *)
(***************************************************************************)
EXTENDS ToolLoop, FiniteSetTheorems, WellFoundedInduction, SequenceTheorems, TLAPS

-----------------------------------------------------------------------------
(* The inductive invariant.                                                *)

Outcomes == {"none", "final", "error", "thrown", "stopped", "length", "tool_calls"}

SeenRecord == [content : Seq(Nat), progress : Seq(Nat), final : BOOLEAN]

TallyRecord == [missed : SUBSET Names, dropped : BOOLEAN, doubled : SUBSET Names,
                halted : BOOLEAN, first : BOOLEAN]

TurnRecord ==
  [at : Stages, known : SUBSET Internal, held : SUBSET External,
   awaits : Entries \cup {NoEntry}, iteration : Nat, resets : Nat, count : Nat,
   calls : Seq(Names), refused : SUBSET Nat, running : SUBSET Internal, size : Nat,
   tally : TallyRecord, progress : Seq(Nat),
   answer : Seq(Nat), seen : SeenRecord, outcome : Outcomes]

\* Only a turn that waits for an entry names one.
AwaitsOne(t) == IF t.at = "pending" THEN t.awaits \in Entries ELSE t.awaits = NoEntry

\* An iteration that calls the model is one of those allowed.
Numbered(t) ==
  /\ t.iteration <= MaxIterations
  /\ t.at \in {"calling", "running"} => t.iteration < MaxIterations

\* The batch that runs counts already, and only while it runs.
Charged(t) ==
  /\ t.count + t.size <= MaxToolCalls
  /\ t.at # "running" => t.size = 0

\* Between two chunks process() holds no answer, and unless the mode is "final" the progress
\* the loop holds too.
InStep(t) ==
  /\ t.seen.content = <<>> /\ ~t.seen.final
  /\ t.seen.progress = IF streamMode # "final" THEN t.progress ELSE <<>>

\* What ConsumerAgrees says of one turn.
Agrees(t) ==
  CASE t.outcome = "final" -> Reply(t.seen) = t.answer
    [] t.outcome \in {"stopped", "length", "tool_calls"} -> Reply(t.seen) = t.progress
    [] OTHER -> TRUE

Told(t) == IF t.at = "done" THEN Agrees(t) ELSE InStep(t)

\* After the first response the model is asked with names that were compared.
Compared(t) == t.at = "calling" /\ t.iteration > 0 => t.known \cap External = {}

TurnOK(t) ==
  /\ t \in TurnRecord
  /\ AwaitsOne(t) /\ Numbered(t) /\ Charged(t) /\ Told(t) /\ Compared(t)

\* An entry that somebody waits for, or may yet take, is not given to another.
EntriesOwned ==
  /\ pendingResults # NoEntry => promise[pendingResults] # "free"
  /\ \A r \in Requests : turn[r].at = "pending" =>
       /\ turn[r].awaits # pendingResults /\ promise[turn[r].awaits] # "free"
       /\ \A s \in Requests \ {r} : turn[s].awaits # turn[r].awaits

\* What the requests share.
SharedOK ==
  /\ pendingResults \in Entries \cup {NoEntry}
  /\ promise \in [Entries -> {"free", "running", "settled"}]
  /\ blocked \subseteq Internal
  /\ streamMode \in Modes

LoopInv ==
  /\ SharedOK /\ EntriesOwned
  /\ turn \in [Requests -> TurnRecord]
  /\ \A r \in Requests : TurnOK(turn[r])

-----------------------------------------------------------------------------
(* A turn that moves.                                                      *)

\* Request r goes on with a turn that satisfies its part of the invariant.
MovesTo(r) ==
  \E x : TurnOK(x) /\ x.at # "pending" /\ turn' = [turn EXCEPT ![r] = x]

\* The record of one turn changes: the others keep their part.
LEMMA TurnsKept ==
  ASSUME NEW r \in Requests, NEW x, LoopInv, TurnOK(x),
         turn' = [turn EXCEPT ![r] = x], streamMode' = streamMode
  PROVE  /\ turn' \in [Requests -> TurnRecord]
         /\ \A s \in Requests : TurnOK(turn[s])'
<1>1. x \in TurnRecord
  BY DEF TurnOK
<1>2. turn' \in [Requests -> TurnRecord]
  BY <1>1 DEF LoopInv
<1>3. ASSUME NEW s \in Requests
      PROVE  TurnOK(turn[s])'
  <2>1. turn'[s] = IF s = r THEN x ELSE turn[s]
    BY DEF LoopInv
  <2>2. TurnOK(turn'[s])
    BY <2>1 DEF LoopInv
  <2> QED
    BY <2>2 DEF TurnOK, Told, InStep, Agrees, AwaitsOne, Numbered, Charged, Compared
<1> QED
  BY <1>2, <1>3

\* A turn that moves without touching the entries keeps the invariant.
LEMMA MoveKeeps ==
  ASSUME NEW r \in Requests, LoopInv, MovesTo(r),
         UNCHANGED <<pendingResults, promise, streamMode>>, blocked' \subseteq Internal
  PROVE  LoopInv'
<1>1. PICK x : TurnOK(x) /\ x.at # "pending" /\ turn' = [turn EXCEPT ![r] = x]
  BY DEF MovesTo
<1>2. turn' \in [Requests -> TurnRecord] /\ \A s \in Requests : TurnOK(turn[s])'
  BY <1>1, TurnsKept
<1>3. EntriesOwned'
  <2>1. \A s \in Requests : turn'[s] = IF s = r THEN x ELSE turn[s]
    BY <1>1 DEF LoopInv
  <2>2. x.awaits = NoEntry
    BY <1>1 DEF TurnOK, AwaitsOne
  <2>3. \A s \in Requests : turn[s].at = "pending" => turn[s].awaits # NoEntry
    BY ToolLoopAssumption DEF LoopInv, TurnOK, AwaitsOne
  <2> QED
    BY <1>1, <2>1, <2>2, <2>3 DEF EntriesOwned, LoopInv
<1> QED
  BY <1>2, <1>3 DEF LoopInv, SharedOK

\* What a turn that is not waiting holds.
LEMMA TurnFacts ==
  ASSUME LoopInv, NEW r \in Requests
  PROVE  /\ turn[r] \in TurnRecord /\ TurnOK(turn[r])
         /\ turn[r].at # "pending" => turn[r].awaits = NoEntry
         /\ turn[r].count \in Nat /\ turn[r].size \in Nat
         /\ turn[r].count <= MaxToolCalls
BY ToolLoopAssumption DEF LoopInv, TurnOK, AwaitsOne, Charged, TurnRecord

\* Over() clears the locals of an iteration and leaves the rest alone.
LEMMA OverTyped ==
  ASSUME NEW t \in TurnRecord
  PROVE  /\ Over(t) \in TurnRecord
         /\ Over(t).awaits = t.awaits /\ Over(t).count = t.count
         /\ Over(t).iteration = t.iteration /\ Over(t).size = 0
         /\ Over(t).progress = t.progress /\ Over(t).answer = t.answer
         /\ Over(t).seen = t.seen
<1>1. <<>> \in Seq(Names)
  BY EmptySeq
<1> QED
  BY <1>1 DEF Over, TurnRecord

\* A turn that ends, with what process() may make of it.
LEMMA EndMoves ==
  ASSUME LoopInv, NEW r \in Requests, NEW t \in TurnRecord,
         NEW outcome \in Outcomes \ {"none"}, NEW seen \in SeenRecord,
         t.awaits = NoEntry, t.count <= MaxToolCalls,
         outcome = "final" => Reply(seen) = t.answer,
         outcome \in {"stopped", "length", "tool_calls"} => Reply(seen) = t.progress,
         End(r, t, outcome, seen)
  PROVE  MovesTo(r)
<1> DEFINE x == [Over(t) EXCEPT
      !.at = "done", !.outcome = outcome, !.held = {}, !.iteration = 0,
      !.progress = IF outcome = "error" THEN <<>> ELSE @,
      !.tally = IF outcome = "tool_calls" THEN @ ELSE NoTally,
      !.seen = IF outcome = "error" THEN NothingSeen ELSE seen]
<1>1. PICK o \in TurnRecord :
        /\ o = Over(t) /\ o.awaits = t.awaits /\ o.count = t.count
        /\ o.size = 0 /\ o.progress = t.progress /\ o.answer = t.answer
  BY OverTyped
<1>2. NothingSeen \in SeenRecord
  BY EmptySeq DEF NothingSeen, SeenRecord
<1>3. x \in TurnRecord
  <2>1. (IF outcome = "error" THEN <<>> ELSE o.progress) \in Seq(Nat)
    BY <1>1, EmptySeq DEF TurnRecord
  <2>2. (IF outcome = "error" THEN NothingSeen ELSE seen) \in SeenRecord
    BY <1>2
  <2>3. (IF outcome = "tool_calls" THEN o.tally ELSE NoTally) \in TallyRecord
    BY DEF TurnRecord, NoTally, TallyRecord
  <2>4. ASSUME NEW p \in Seq(Nat), NEW s \in SeenRecord, NEW l \in TallyRecord
        PROVE  [o EXCEPT !.at = "done", !.outcome = outcome, !.held = {},
                         !.iteration = 0, !.progress = p, !.tally = l,
                         !.seen = s] \in TurnRecord
    BY DEF TurnRecord, Stages
  <2> QED
    BY <1>1, <2>1, <2>2, <2>3, <2>4
<1>4. /\ x.at = "done" /\ x.outcome = outcome /\ x.iteration = 0 /\ x.size = 0
      /\ x.awaits = NoEntry /\ x.count = t.count /\ x.answer = t.answer
      /\ outcome # "error" => x.seen = seen /\ x.progress = t.progress
  BY <1>1 DEF TurnRecord
<1>5. turn' = [turn EXCEPT ![r] = x]
  BY DEF End
<1>6. t.count \in Nat
  BY DEF TurnRecord
<1> HIDE DEF x
<1>7. AwaitsOne(x) /\ Numbered(x) /\ Charged(x) /\ Compared(x)
  BY <1>4, <1>6, ToolLoopAssumption DEF AwaitsOne, Numbered, Charged, Compared
<1>8. Told(x)
  BY <1>4 DEF Told, Agrees, Outcomes
<1> QED
  BY <1>3, <1>4, <1>5, <1>7, <1>8 DEF MovesTo, TurnOK

\* A turn that goes on with its next iteration.
LEMMA AgainMoves ==
  ASSUME LoopInv, NEW r \in Requests, NEW t \in TurnRecord,
         t.awaits = NoEntry, t.count <= MaxToolCalls, t.iteration < MaxIterations,
         InStep(t), Again(r, t)
  PROVE  MovesTo(r)
<1> DEFINE x == [Over(t) EXCEPT !.at = "head", !.iteration = Counted(@)]
<1>1. t.iteration \in Nat /\ t.count \in Nat
  BY DEF TurnRecord
<1>2. PICK o \in TurnRecord :
        /\ o = Over(t) /\ o.awaits = t.awaits /\ o.count = t.count
        /\ o.size = 0 /\ o.progress = t.progress /\ o.seen = t.seen
        /\ o.iteration = t.iteration
  BY OverTyped
<1>3. x \in TurnRecord
  <2>1. Counted(o.iteration) \in Nat
    BY <1>1, <1>2 DEF Counted
  <2> QED
    BY <1>2, <2>1 DEF TurnRecord, Stages
<1>4. /\ x.at = "head" /\ x.iteration = t.iteration + 1 /\ x.size = 0
      /\ x.awaits = NoEntry /\ x.count = t.count /\ x.seen = t.seen
      /\ x.progress = t.progress
  BY <1>2 DEF TurnRecord, Counted
<1>5. turn' = [turn EXCEPT ![r] = x]
  BY DEF Again
<1> HIDE DEF x
<1>6. AwaitsOne(x) /\ Numbered(x) /\ Charged(x) /\ Told(x) /\ Compared(x)
  BY <1>1, <1>4, ToolLoopAssumption
  DEF AwaitsOne, Numbered, Charged, Told, InStep, Compared
<1> QED
  BY <1>3, <1>4, <1>5, <1>6 DEF MovesTo, TurnOK

-----------------------------------------------------------------------------
(* What process() has seen.                                                *)

\* Sequences of iterations.
LEMMA SeqFacts ==
  /\ <<>> \in Seq(Nat)
  /\ \A i \in Nat : <<i>> \in Seq(Nat)
  /\ \A c, d \in Seq(Nat) : c \o d \in Seq(Nat)
  /\ \A c \in Seq(Nat) : c \o <<>> = c /\ <<>> \o c = c
  /\ \A c \in Seq(Nat), i \in Nat : Append(c, i) = c \o <<i>> /\ Append(c, i) \in Seq(Nat)
<1>1. \A i \in Nat : <<i>> \in Seq(Nat)
  OBVIOUS
<1>2. \A c, d \in Seq(Nat) : c \o d \in Seq(Nat)
  BY ConcatProperties
<1>3. \A c \in Seq(Nat) : c \o <<>> = c /\ <<>> \o c = c
  BY ConcatEmptySeq
<1>4. \A c \in Seq(Nat), i \in Nat : Append(c, i) = c \o <<i>> /\ Append(c, i) \in Seq(Nat)
  BY AppendIsConcat, AppendProperties
<1> QED
  BY <1>1, <1>2, <1>3, <1>4, EmptySeq

\* The four things the stream tells process(), on what it has seen.
LEMMA ShownFacts ==
  \A s \in SeenRecord, c \in Seq(Nat) :
    /\ Shown(s, c) \in SeenRecord /\ Shown(s, c).content = s.content \o c
    /\ Shown(s, c).progress = s.progress /\ Shown(s, c).final = s.final
<1> TAKE s \in SeenRecord, c \in Seq(Nat)
<1>1. s.content \o c \in Seq(Nat)
  BY SeqFacts DEF SeenRecord
<1>2. ASSUME NEW d \in Seq(Nat)
      PROVE  [s EXCEPT !.content = d] \in SeenRecord
  BY DEF SeenRecord
<1> QED
  BY <1>1, <1>2 DEF Shown, SeenRecord

LEMMA RetriedFacts ==
  \A s \in SeenRecord :
    /\ Retried(s) \in SeenRecord /\ Retried(s).content = <<>>
    /\ Retried(s).progress = s.progress /\ Retried(s).final = FALSE
BY EmptySeq DEF Retried, SeenRecord

LEMMA FinishedFacts ==
  \A s \in SeenRecord :
    /\ Finished(s) \in SeenRecord /\ Finished(s).content = s.content
    /\ Finished(s).progress = s.progress /\ Finished(s).final = TRUE
BY DEF Finished, SeenRecord

LEMMA CallsMadeFacts ==
  \A s \in SeenRecord :
    /\ CallsMade(s) \in SeenRecord /\ CallsMade(s).content = <<>>
    /\ CallsMade(s).progress = s.progress \o s.content
    /\ CallsMade(s).final = FALSE
<1> TAKE s \in SeenRecord
<1>1. s.progress \o s.content \in Seq(Nat) /\ <<>> \in Seq(Nat)
  BY SeqFacts DEF SeenRecord
<1>2. ASSUME NEW c \in Seq(Nat), NEW d \in Seq(Nat)
      PROVE  [content |-> c, progress |-> d, final |-> FALSE] \in SeenRecord
  BY DEF SeenRecord
<1> QED
  BY <1>1, <1>2 DEF CallsMade

\* What has been streamed of an iteration, when process() was in step before it.
LEMMA LiveFacts ==
  ASSUME NEW t \in TurnRecord, InStep(t)
  PROVE  /\ Live(t) \in SeenRecord /\ Live(t).progress = t.seen.progress
         /\ Live(t).content = IF streamMode # "final" THEN <<t.iteration>> ELSE <<>>
         /\ ~Live(t).final
<1>1. t.seen \in SeenRecord /\ t.iteration \in Nat
  BY DEF TurnRecord
<1>2. <<t.iteration>> \in Seq(Nat) /\ <<>> \o <<t.iteration>> = <<t.iteration>>
  BY <1>1, SeqFacts
<1>3. /\ Shown(t.seen, <<t.iteration>>) \in SeenRecord
      /\ Shown(t.seen, <<t.iteration>>).content = t.seen.content \o <<t.iteration>>
      /\ Shown(t.seen, <<t.iteration>>).progress = t.seen.progress
      /\ Shown(t.seen, <<t.iteration>>).final = t.seen.final
  BY <1>1, <1>2, ShownFacts
<1> QED
  BY <1>1, <1>2, <1>3 DEF Live, InStep

\* The answer of a finished turn is the one chunk that finished it.
LEMMA AnswerRead ==
  ASSUME NEW t \in TurnRecord, InStep(t), NEW i \in Nat
  PROVE  /\ Finished(Shown(t.seen, <<i>>)) \in SeenRecord
         /\ Reply(Finished(Shown(t.seen, <<i>>))) = <<i>>
<1>1. t.seen \in SeenRecord /\ <<i>> \in Seq(Nat) /\ <<>> \o <<i>> = <<i>>
  BY SeqFacts DEF TurnRecord
<1>2. /\ Shown(t.seen, <<i>>) \in SeenRecord
      /\ Shown(t.seen, <<i>>).content = t.seen.content \o <<i>>
  BY <1>1, ShownFacts
<1>3. /\ Finished(Shown(t.seen, <<i>>)) \in SeenRecord
      /\ Finished(Shown(t.seen, <<i>>)).content = <<i>>
      /\ Finished(Shown(t.seen, <<i>>)).final
  BY <1>1, <1>2, FinishedFacts DEF InStep
<1> QED
  BY <1>3 DEF Reply

\* A turn that is cut short: what was said before is the reply, each part once: the
\* fallback shows it in mode "final", where nothing of it was streamed.
LEMMA ProgressRead ==
  ASSUME NEW t \in TurnRecord, InStep(t)
  PROVE  WithFallback(t) \in SeenRecord /\ Reply(WithFallback(t)) = t.progress
<1>1. t.seen \in SeenRecord /\ t.progress \in Seq(Nat)
  BY DEF TurnRecord
<1>2. t.progress \o <<>> = t.progress /\ <<>> \o t.progress = t.progress
  BY <1>1, SeqFacts
<1>3. /\ Shown(t.seen, t.progress) \in SeenRecord
      /\ Shown(t.seen, t.progress).content = t.seen.content \o t.progress
      /\ Shown(t.seen, t.progress).progress = t.seen.progress
      /\ Shown(t.seen, t.progress).final = t.seen.final
  BY <1>1, ShownFacts
<1> QED
  BY <1>1, <1>2, <1>3 DEF WithFallback, Reply, InStep

-----------------------------------------------------------------------------
(* The head of the loop and the stream.                                    *)

LEMMA TaskFinishedKeeps ==
  ASSUME LoopInv, NEW r \in Requests, TaskFinished(r)
  PROVE  LoopInv'
<1> DEFINE t == [turn[r] EXCEPT !.answer = <<MaxIterations>>]
<1>1. turn[r] \in TurnRecord /\ turn[r].awaits = NoEntry /\ turn[r].count <= MaxToolCalls
      /\ InStep(turn[r])
  BY TurnFacts DEF TaskFinished, TurnOK, Told
<1>2. t \in TurnRecord /\ t.awaits = NoEntry /\ t.count = turn[r].count
      /\ t.answer = <<MaxIterations>>
  BY <1>1, SeqFacts, ToolLoopAssumption DEF TurnRecord
<1>3. /\ Finished(Shown(turn[r].seen, <<MaxIterations>>)) \in SeenRecord
      /\ Reply(Finished(Shown(turn[r].seen, <<MaxIterations>>))) = <<MaxIterations>>
  BY <1>1, AnswerRead, ToolLoopAssumption
<1>4. End(r, t, "final", Finished(Shown(turn[r].seen, <<MaxIterations>>)))
  BY DEF TaskFinished
<1>5. MovesTo(r)
  <2> HIDE DEF t
  <2> QED
    BY <1>1, <1>2, <1>3, <1>4, EndMoves DEF Outcomes
<1> QED
  BY <1>5, MoveKeeps DEF TaskFinished, LoopInv, SharedOK

LEMMA AbortedKeeps ==
  ASSUME LoopInv, NEW r \in Requests, Aborted(r)
  PROVE  LoopInv'
<1>1. /\ turn[r] \in TurnRecord /\ turn[r].awaits = NoEntry
      /\ turn[r].count <= MaxToolCalls /\ turn[r].seen \in SeenRecord
  BY TurnFacts DEF Aborted, TurnRecord
<1>2. MovesTo(r)
  BY <1>1, EndMoves DEF Aborted, Outcomes
<1> QED
  BY <1>2, MoveKeeps DEF Aborted, LoopInv, SharedOK

\* stopped and length: what was said before is what process() returns.
LEMMA CutShortKeeps ==
  ASSUME LoopInv, NEW r \in Requests, Stopped(r) \/ OutOfIterations(r)
  PROVE  LoopInv'
<1>1. /\ turn[r] \in TurnRecord /\ turn[r].awaits = NoEntry
      /\ turn[r].count <= MaxToolCalls /\ InStep(turn[r])
  BY TurnFacts DEF Stopped, OutOfIterations, TurnOK, Told
<1>2. /\ WithFallback(turn[r]) \in SeenRecord
      /\ Reply(WithFallback(turn[r])) = turn[r].progress
  BY <1>1, ProgressRead
<1>3. MovesTo(r)
  BY <1>1, <1>2, EndMoves DEF Stopped, OutOfIterations, Outcomes
<1> QED
  BY <1>3, MoveKeeps DEF Stopped, OutOfIterations, LoopInv, SharedOK

LEMMA CallModelKeeps ==
  ASSUME LoopInv, NEW r \in Requests, CallModel(r)
  PROVE  LoopInv'
<1>1. PICK known \in SUBSET Internal :
        /\ ~Collides(turn[r], known)
        /\ turn' = [turn EXCEPT ![r].at = "calling", ![r].known = known, ![r].resets = 0,
                                ![r].tally = NoTally]
  <2>1. turn[r].known \in SUBSET Internal
    BY TurnFacts DEF TurnRecord
  <2> QED
    BY <2>1 DEF CallModel, Relisted
<1> DEFINE x == [turn[r] EXCEPT !.at = "calling", !.known = known, !.resets = 0,
                                !.tally = NoTally]
<1>2. turn[r] \in TurnRecord /\ TurnOK(turn[r]) /\ turn[r].at = "head"
      /\ turn[r].iteration < MaxIterations
  BY TurnFacts DEF CallModel, Left
<1>3. x \in TurnRecord /\ x.at = "calling" /\ x.awaits = turn[r].awaits
      /\ x.iteration = turn[r].iteration /\ x.count = turn[r].count /\ x.known = known
      /\ x.size = turn[r].size /\ x.seen = turn[r].seen /\ x.progress = turn[r].progress
  <2>1. NoTally \in TallyRecord
    BY DEF NoTally, TallyRecord
  <2> QED
    BY <1>2, <2>1 DEF TurnRecord, Stages
<1>4. turn' = [turn EXCEPT ![r] = x]
  BY <1>1 DEF LoopInv
<1>5. x.iteration > 0 => x.known \cap External = {}
  BY <1>1, <1>3 DEF Collides
<1> HIDE DEF x
<1>6. TurnOK(x)
  BY <1>2, <1>3, <1>5 DEF TurnOK, AwaitsOne, Numbered, Charged, Told, InStep, Compared
<1>7. MovesTo(r)
  BY <1>3, <1>4, <1>6 DEF MovesTo
<1> QED
  BY <1>7, MoveKeeps DEF CallModel, LoopInv, SharedOK

LEMMA NamesCollideKeeps ==
  ASSUME LoopInv, NEW r \in Requests, NamesCollide(r)
  PROVE  LoopInv'
<1>1. /\ turn[r] \in TurnRecord /\ turn[r].awaits = NoEntry
      /\ turn[r].count <= MaxToolCalls /\ turn[r].seen \in SeenRecord
  BY TurnFacts DEF NamesCollide, TurnRecord
<1>2. MovesTo(r)
  BY <1>1, EndMoves DEF NamesCollide, Outcomes
<1> QED
  BY <1>2, MoveKeeps DEF NamesCollide, LoopInv, SharedOK

LEMMA StreamResetKeeps ==
  ASSUME LoopInv, NEW r \in Requests, StreamReset(r)
  PROVE  LoopInv'
<1> DEFINE s == Retried(Live(turn[r]))
           x == [turn[r] EXCEPT !.resets = @ + 1, !.seen = s]
<1>1. turn[r] \in TurnRecord /\ TurnOK(turn[r]) /\ turn[r].at = "calling"
      /\ InStep(turn[r]) /\ turn[r].resets \in Nat
  BY TurnFacts DEF StreamReset, TurnOK, Told, TurnRecord
<1>2. s \in SeenRecord /\ s.content = <<>> /\ s.progress = turn[r].seen.progress /\ ~s.final
  BY <1>1, LiveFacts, RetriedFacts
<1>3. turn' = [turn EXCEPT ![r] = x]
  BY DEF StreamReset, LoopInv
<1> HIDE DEF s
<1>4. x \in TurnRecord /\ x.at = "calling" /\ x.awaits = turn[r].awaits
      /\ x.iteration = turn[r].iteration /\ x.count = turn[r].count
      /\ x.known = turn[r].known
      /\ x.size = turn[r].size /\ x.seen = s /\ x.progress = turn[r].progress
  <2>1. turn[r].resets + 1 \in Nat
    BY <1>1
  <2> QED
    BY <1>1, <1>2, <2>1 DEF TurnRecord
<1> HIDE DEF x
<1>5. TurnOK(x)
  BY <1>1, <1>2, <1>4 DEF TurnOK, AwaitsOne, Numbered, Charged, Told, InStep, Compared
<1>6. MovesTo(r)
  BY <1>3, <1>4, <1>5 DEF MovesTo
<1> QED
  BY <1>6, MoveKeeps DEF StreamReset, LoopInv, SharedOK

LEMMA StreamFailsKeeps ==
  ASSUME LoopInv, NEW r \in Requests, StreamFails(r)
  PROVE  LoopInv'
<1>1. /\ turn[r] \in TurnRecord /\ turn[r].awaits = NoEntry
      /\ turn[r].count <= MaxToolCalls /\ InStep(turn[r])
  BY TurnFacts DEF StreamFails, TurnOK, Told
<1>2. MovesTo(r)
  BY <1>1, LiveFacts, EndMoves DEF StreamFails, Outcomes
<1> QED
  BY <1>2, MoveKeeps DEF StreamFails, LoopInv, SharedOK

LEMMA RepromptedKeeps ==
  ASSUME LoopInv, NEW r \in Requests, Reprompted(r)
  PROVE  LoopInv'
<1> DEFINE s == Retried(Live(turn[r]))
           t == [turn[r] EXCEPT !.seen = s]
<1>1. /\ turn[r] \in TurnRecord /\ turn[r].awaits = NoEntry
      /\ turn[r].count <= MaxToolCalls /\ InStep(turn[r])
      /\ turn[r].iteration < MaxIterations
  BY TurnFacts DEF Reprompted, TurnOK, Told, Numbered
<1>2. s \in SeenRecord /\ s.content = <<>> /\ s.progress = turn[r].seen.progress /\ ~s.final
  BY <1>1, LiveFacts, RetriedFacts
<1>3. Again(r, t)
  BY DEF Reprompted
<1> HIDE DEF s
<1>4. /\ t \in TurnRecord /\ t.awaits = NoEntry /\ t.count <= MaxToolCalls
      /\ t.iteration < MaxIterations /\ t.seen = s /\ t.progress = turn[r].progress
  BY <1>1, <1>2 DEF TurnRecord
<1> HIDE DEF t
<1>5. InStep(t)
  BY <1>1, <1>2, <1>4 DEF InStep
<1>6. MovesTo(r)
  BY <1>3, <1>4, <1>5, AgainMoves
<1> QED
  BY <1>6, MoveKeeps DEF Reprompted, LoopInv, SharedOK

LEMMA RepliedKeeps ==
  ASSUME LoopInv, NEW r \in Requests, Replied(r)
  PROVE  LoopInv'
<1> DEFINE t == [turn[r] EXCEPT !.answer = <<turn[r].iteration>>]
<1>1. turn[r] \in TurnRecord /\ turn[r].awaits = NoEntry /\ turn[r].count <= MaxToolCalls
      /\ InStep(turn[r]) /\ turn[r].iteration \in Nat
  BY TurnFacts DEF Replied, TurnOK, Told, TurnRecord
<1>2. t \in TurnRecord /\ t.awaits = NoEntry /\ t.count = turn[r].count
      /\ t.answer = <<turn[r].iteration>>
  BY <1>1, SeqFacts DEF TurnRecord
<1>3. /\ Finished(Shown(turn[r].seen, <<turn[r].iteration>>)) \in SeenRecord
      /\ Reply(Finished(Shown(turn[r].seen, <<turn[r].iteration>>))) = <<turn[r].iteration>>
  BY <1>1, AnswerRead
<1>4. End(r, t, "final", Finished(Shown(turn[r].seen, <<turn[r].iteration>>)))
  BY DEF Replied
<1> HIDE DEF t
<1>5. MovesTo(r)
  BY <1>1, <1>2, <1>3, <1>4, EndMoves DEF Outcomes
<1> QED
  BY <1>5, MoveKeeps DEF Replied, LoopInv, SharedOK

-----------------------------------------------------------------------------
(* The calls of a response.                                                *)

\* A finite set of numbers that is not empty has a greatest one.
LEMMA GreatestOf ==
  ASSUME NEW F, F \subseteq Nat, IsFiniteSet(F), F # {}
  PROVE  \E m \in F : \A i \in F : i <= m
<1> DEFINE Above(i) == {j \in F : j > i}
           T == {Above(i) : i \in F}
<1>1. T \subseteq FiniteSubsetsOf(F) /\ T # {}
  <2>1. \A i \in F : Above(i) \in SUBSET F
    OBVIOUS
  <2>2. \A i \in F : IsFiniteSet(Above(i))
    BY <2>1, FS_Subset
  <2> QED
    BY <2>1, <2>2 DEF FiniteSubsetsOf
<1>2. PICK A \in T : \A B \in T : <<B, A>> \notin StrictSubsetOrdering(F)
  BY <1>1, FS_StrictSubsetOrderingWellFounded, WFMin
<1>3. PICK m \in F : A = Above(m)
  BY <1>2
<1>4. ASSUME NEW k \in F, k > m
      PROVE  FALSE
  <2>1. Above(k) \in T /\ Above(k) \subseteq F /\ A \subseteq F
    BY <1>3, <1>4
  <2>2. Above(k) \subseteq A /\ k \in A /\ k \notin Above(k)
    <3>1. m \in Nat /\ k \in Nat /\ \A j \in F : j \in Nat
      BY <1>3, <1>4
    <3>2. \A j \in F : j > k => j > m
      BY <1>4, <3>1
    <3>3. Above(k) \subseteq Above(m)
      BY <3>2
    <3>4. k \in Above(m)
      BY <1>4
    <3>5. k \notin Above(k)
      BY <3>1
    <3> QED
      BY <1>3, <3>3, <3>4, <3>5
  <2> QED
    BY <1>2, <2>1, <2>2 DEF StrictSubsetOrdering
<1> QED
  BY <1>4

\* FirstOf() takes n calls at most, all of S.
LEMMA FirstOfBounded ==
  ASSUME NEW k \in Nat, NEW S \in SUBSET (1..k), NEW n \in Nat
  PROVE  /\ FirstOf(S, n) \subseteq S /\ IsFiniteSet(FirstOf(S, n))
         /\ Cardinality(FirstOf(S, n)) \in Nat
         /\ Cardinality(FirstOf(S, n)) <= n
<1> DEFINE F == FirstOf(S, n)
<1>1. F \subseteq S
  BY DEF FirstOf
<1>2. IsFiniteSet(S) /\ S \subseteq Nat
  <2>1. IsFiniteSet(1..k)
    BY FS_Interval
  <2>2. S \subseteq Nat
    OBVIOUS
  <2> QED
    BY <2>1, <2>2, FS_Subset
<1>3. IsFiniteSet(F) /\ Cardinality(F) \in Nat
  BY <1>1, <1>2, FS_Subset, FS_CardinalityType
<1>4. CASE F = {}
  BY <1>1, <1>3, <1>4, FS_EmptySet
<1>5. CASE F # {}
  <2>1. PICK m \in F : \A i \in F : i <= m
    <3>1. F \subseteq Nat
      BY <1>1, <1>2
    <3> HIDE DEF F
    <3> QED
      BY <1>3, <1>5, <3>1, GreatestOf
  <2> DEFINE D == {j \in S : j <= m}
  <2>2. Cardinality(D) <= n
    BY <2>1 DEF FirstOf
  <2>3. F \subseteq D /\ D \subseteq S
    BY <1>1, <2>1
  <2>4. IsFiniteSet(D) /\ Cardinality(F) <= Cardinality(D) /\ Cardinality(D) \in Nat
    BY <1>2, <2>3, FS_Subset, FS_CardinalityType
  <2> HIDE DEF F, D
  <2> QED
    BY <1>1, <1>3, <2>2, <2>4 DEF F
<1> QED
  BY <1>4, <1>5

\* A response is a sequence of names.
LEMMA ResponseFacts ==
  ASSUME NEW calls \in Responses
  PROVE  /\ calls \in Seq(Names) /\ Positions(calls) \subseteq Nat
         /\ Len(calls) \in Nat /\ Positions(calls) = 1..Len(calls)
<1>1. PICK n \in 1..MaxRound : calls \in [1..n -> Names]
  BY DEF Responses
<1>2. n \in Nat
  BY <1>1, ToolLoopAssumption
<1>3. calls \in Seq(Names) /\ Len(calls) = n
  BY <1>1, <1>2, SeqDef
<1> QED
  BY <1>2, <1>3 DEF Positions

\* The record a response leaves, and process() with it.
LEMMA RespondedFacts ==
  ASSUME NEW t0 \in TurnRecord, InStep(t0), NEW calls \in Responses,
         NEW refused \in SUBSET Nat
  PROVE  LET t == Responded(t0, calls, refused) IN
         /\ t \in TurnRecord /\ InStep(t) /\ t.at = t0.at
         /\ t.calls = calls /\ t.refused = refused /\ t.known = t0.known
         /\ t.awaits = t0.awaits /\ t.count = t0.count /\ t.size = t0.size
         /\ t.iteration = t0.iteration
<1> DEFINE s == CallsMade(Live(t0))  p == Append(t0.progress, t0.iteration)
           t == Responded(t0, calls, refused)
<1>1. /\ Live(t0) \in SeenRecord /\ Live(t0).progress = t0.seen.progress
      /\ Live(t0).content = IF streamMode # "final" THEN <<t0.iteration>> ELSE <<>>
  BY LiveFacts
<1>2. /\ s \in SeenRecord /\ s.content = <<>> /\ ~s.final
      /\ s.progress = Live(t0).progress \o Live(t0).content
  BY <1>1, CallsMadeFacts
<1>3. p \in Seq(Nat) /\ p = t0.progress \o <<t0.iteration>> /\ <<>> \o <<>> = <<>>
  BY SeqFacts DEF TurnRecord
<1>4. calls \in Seq(Names)
  BY ResponseFacts
<1>5. t = [t0 EXCEPT !.calls = calls, !.refused = refused, !.progress = p, !.seen = s]
  BY DEF Responded, TurnRecord
<1> HIDE DEF s, p, t
<1>6. /\ t \in TurnRecord /\ t.progress = p /\ t.seen = s /\ t.at = t0.at
      /\ t.calls = calls /\ t.refused = refused /\ t.known = t0.known
      /\ t.awaits = t0.awaits /\ t.count = t0.count /\ t.size = t0.size
      /\ t.iteration = t0.iteration
  BY <1>2, <1>3, <1>4, <1>5 DEF TurnRecord
<1>7. InStep(t)
  BY <1>1, <1>2, <1>3, <1>6 DEF InStep
<1> QED
  BY <1>6, <1>7 DEF t

\* The rounds are about positions of the response.
RoundsOK(rounds, P) == \A x \in rounds : x.asked \subseteq P /\ x.answered \subseteq P

\* The calls of a response by what becomes of them.
LEMMA CallsTyped ==
  ASSUME NEW t \in TurnRecord
  PROVE  /\ Positions(t.calls) = 1..Len(t.calls) /\ Len(t.calls) \in Nat
         /\ internalCalls(t, t.calls) \in SUBSET Positions(t.calls)
         /\ Batch(t) \in SUBSET internalCalls(t, t.calls)
         /\ Skipped(t) \in SUBSET internalCalls(t, t.calls)
         /\ Rejected(t) \in SUBSET Positions(t.calls)
         /\ Asked(t) \in SUBSET Positions(t.calls)
         /\ Hits(t) \in SUBSET Asked(t) /\ Misses(t) \in SUBSET Asked(t)
         /\ Unknowns(t) \in SUBSET Positions(t.calls)
         /\ blockedCalls(t.calls) \in SUBSET Positions(t.calls)
<1>1. t.calls \in Seq(Names)
  BY DEF TurnRecord
<1>2. Len(t.calls) \in Nat
  BY <1>1, LenProperties
<1> QED
  BY <1>2 DEF Positions, internalCalls, externalCalls, blockedCalls, hallucinations,
              Batch, FirstOf, Skipped, Rejected, Asked, Hits, Misses, Unknowns

LEMMA RoundTyped ==
  ASSUME NEW P, NEW why, NEW S, S \subseteq P
  PROVE  RoundsOK(Round(why, S), P)
<1>1. Asks(why, S, S).asked = S /\ Asks(why, S, S).answered = S
  BY DEF Asks
<1>2. \A x \in Round(why, S) : x = Asks(why, S, S)
  BY DEF Round
<1> QED
  BY <1>1, <1>2 DEF RoundsOK

\* The rounds of a response that surface, hold or run calls.
LEMMA RoundsTyped ==
  ASSUME NEW t \in TurnRecord
  PROVE  LET P == Positions(t.calls) IN
         /\ RoundsOK(RoundsBefore(t), P)
         /\ RoundsOK(Round("refused", Rejected(t)), P)
         /\ RoundsOK(Round("blocked", blockedCalls(t.calls)), P)
         /\ RoundsOK(Fired(t), P)
         /\ RoundsOK(Round("surfaced", Misses(t)), P)
         /\ RoundsOK(BatchRound(t), P)
<1> DEFINE P == Positions(t.calls)
<1>1. /\ Rejected(t) \subseteq P /\ Hits(t) \subseteq P
      /\ Unknowns(t) \subseteq P /\ Misses(t) \subseteq P
      /\ blockedCalls(t.calls) \subseteq P
      /\ internalCalls(t, t.calls) \subseteq P
      /\ Batch(t) \subseteq P /\ Skipped(t) \subseteq P
  BY CallsTyped
<1> HIDE DEF P
<1>2. Batch(t) \cup Skipped(t) \subseteq P
  BY <1>1
<1>3. /\ RoundsOK(Round("refused", Rejected(t)), P)
      /\ RoundsOK(Round("held", Hits(t)), P)
      /\ RoundsOK(Round("unknown", Unknowns(t)), P)
      /\ RoundsOK(Round("blocked", blockedCalls(t.calls)), P)
      /\ RoundsOK(Round("surfaced", Misses(t)), P)
  BY <1>1, RoundTyped
<1>4. RoundsOK(RoundsBefore(t), P)
  BY <1>3 DEF RoundsBefore, RoundsOK
<1>5. RoundsOK(Fired(t), P)
  BY <1>2, RoundTyped DEF Fired
<1>6. RoundsOK(BatchRound(t), P)
  BY <1>1 DEF BatchRound, Asks, RoundsOK
<1> QED
  BY <1>3, <1>4, <1>5, <1>6 DEF P

\* Settle() writes what it found and nothing else.
LEMMA SettleTyped ==
  ASSUME NEW t \in TurnRecord, NEW rounds, RoundsOK(rounds, Positions(t.calls))
  PROVE  LET x == Settle(t, rounds) IN
         /\ x \in TurnRecord /\ x.at = t.at
         /\ x.known = t.known /\ x.awaits = t.awaits /\ x.iteration = t.iteration
         /\ x.count = t.count /\ x.size = t.size /\ x.calls = t.calls
         /\ x.progress = t.progress /\ x.seen = t.seen /\ x.answer = t.answer
<1> DEFINE results(i) == {x \in rounds : i \in x.answered}
           P == Positions(t.calls)
           m == UNION {x.asked \ x.answered : x \in rounds}
           d == {i \in P : Cardinality(results(i)) > 1}
                  \cup UNION {x.answered \ x.asked : x \in rounds}
           tally == [missed  |-> Named(t.calls, m),
                     dropped |-> P \ UNION {x.asked : x \in rounds} # {},
                     doubled |-> Named(t.calls, d),
                     halted  |-> \E x \in rounds : x.why = "blocked",
                     first   |-> t.iteration = 0]
<1>1. m \subseteq P /\ d \subseteq P
  BY DEF RoundsOK
<1>2. \A i \in P : t.calls[i] \in Names
  BY ElementOfSeq DEF TurnRecord, Positions
<1> HIDE DEF P
<1>3. Named(t.calls, m) \subseteq Names /\ Named(t.calls, d) \subseteq Names
  <2> HIDE DEF m, d
  <2> QED
    BY <1>1, <1>2 DEF Named
<1>4. tally \in TallyRecord
  <2> HIDE DEF m, d
  <2> QED
    BY <1>3 DEF TallyRecord
<1>5. Settle(t, rounds) = [t EXCEPT !.tally = tally]
  BY DEF Settle, P
<1> HIDE DEF tally
<1> QED
  BY <1>4, <1>5 DEF TurnRecord

\* A response after which the loop goes on.
LEMMA SettledAgain ==
  ASSUME LoopInv, NEW r \in Requests, turn[r].at = "calling",
         NEW calls \in Responses, NEW refused \in SUBSET Nat,
         NEW rounds, RoundsOK(rounds, Positions(calls)),
         Again(r, Settle(Responded(turn[r], calls, refused), rounds))
  PROVE  MovesTo(r)
<1> DEFINE t == Responded(turn[r], calls, refused)
           x == Settle(t, rounds)
<1>1. /\ turn[r] \in TurnRecord /\ turn[r].awaits = NoEntry
      /\ turn[r].count <= MaxToolCalls /\ InStep(turn[r])
      /\ turn[r].iteration < MaxIterations
  BY TurnFacts DEF TurnOK, Told, Numbered
<1>2. /\ t \in TurnRecord /\ InStep(t) /\ t.awaits = NoEntry
      /\ t.count <= MaxToolCalls /\ t.iteration < MaxIterations /\ t.calls = calls
  BY <1>1, RespondedFacts
<1> HIDE DEF t
<1>3. /\ x \in TurnRecord /\ x.awaits = t.awaits /\ x.count = t.count
      /\ x.iteration = t.iteration /\ x.seen = t.seen /\ x.progress = t.progress
  BY <1>2, SettleTyped
<1>4. Again(r, x)
  BY DEF t
<1> HIDE DEF x
<1>5. InStep(x)
  BY <1>2, <1>3 DEF InStep
<1> QED
  BY <1>2, <1>3, <1>4, <1>5, AgainMoves

\* Refusals are about calls of the response.
LEMMA RefusedTyped ==
  ASSUME NEW calls \in Responses, NEW t,
         NEW refused \in SUBSET Refusable(t, calls)
  PROVE  refused \in SUBSET Nat
<1>1. Positions(calls) \subseteq Nat
  BY ResponseFacts
<1> QED
  BY <1>1 DEF Refusable, internalCalls, externalCalls

\* Responses after which the model is asked again at once.
LEMMA AnsweredAtOnceKeeps ==
  ASSUME LoopInv, NEW r \in Requests, turn[r].at = "calling",
         NEW calls \in Responses, NEW refused \in SUBSET Nat,
         \/ AllRefused(r, calls, refused)
         \/ BlockedRound(r, calls, refused)
         \/ OnlyHits(r, calls, refused)
  PROVE  LoopInv'
<1> DEFINE t == Responded(turn[r], calls, refused)
<1>1. turn[r] \in TurnRecord /\ InStep(turn[r])
  BY TurnFacts DEF TurnOK, Told
<1>2. t \in TurnRecord /\ t.calls = calls
  BY <1>1, RespondedFacts
<1>3. /\ RoundsOK(RoundsBefore(t), Positions(calls))
      /\ RoundsOK(Round("refused", Rejected(t)), Positions(calls))
      /\ RoundsOK(Round("blocked", blockedCalls(calls)), Positions(calls))
  BY <1>2, RoundsTyped
<1>4. RoundsOK(Round("refused", Rejected(t)) \cup Round("blocked", blockedCalls(calls)),
               Positions(calls))
  BY <1>3 DEF RoundsOK
<1>6. MovesTo(r)
  <2>1. CASE AllRefused(r, calls, refused)
    <3>1. Again(r, Settle(t, Round("refused", Rejected(t))))
      BY <2>1 DEF AllRefused
    <3> QED
      BY <1>3, <3>1, SettledAgain
  <2>2. CASE BlockedRound(r, calls, refused)
    <3>1. Again(r, Settle(t, Round("refused", Rejected(t))
                               \cup Round("blocked", blockedCalls(calls))))
      BY <2>2 DEF BlockedRound
    <3> QED
      BY <1>4, <3>1, SettledAgain
  <2>3. CASE OnlyHits(r, calls, refused)
    <3>1. Again(r, Settle(t, RoundsBefore(t)))
      BY <2>3 DEF OnlyHits
    <3> QED
      BY <1>3, <3>1, SettledAgain
  <2> QED
    BY <2>1, <2>2, <2>3
<1> QED
  BY <1>6, MoveKeeps DEF AllRefused, BlockedRound, OnlyHits, LoopInv, SharedOK

\* A batch is charged before it runs, and fits.
LEMMA BatchFits ==
  ASSUME NEW t \in TurnRecord, t.count <= MaxToolCalls
  PROVE  /\ Cardinality(Batch(t)) \in Nat
         /\ t.count + Cardinality(Batch(t)) <= MaxToolCalls
<1>1. t.count \in Nat
  BY DEF TurnRecord
<1>2. Remaining(t) = MaxToolCalls - t.count /\ Remaining(t) \in Nat
  BY <1>1, ToolLoopAssumption DEF Remaining
<1>3. /\ Len(t.calls) \in Nat
      /\ internalCalls(t, t.calls) \in SUBSET (1..Len(t.calls))
  BY CallsTyped
<1>4. Cardinality(Batch(t)) \in Nat /\ Cardinality(Batch(t)) <= Remaining(t)
  BY <1>2, <1>3, FirstOfBounded DEF Batch
<1> QED
  BY <1>1, <1>2, <1>4, ToolLoopAssumption

LEMMA StartBatchKeeps ==
  ASSUME LoopInv, NEW r \in Requests,
         NEW calls \in Responses, NEW refused \in SUBSET Nat,
         StartBatch(r, calls, refused)
  PROVE  LoopInv'
<1> DEFINE t == Responded(turn[r], calls, refused)
           y == Settle(t, RoundsBefore(t) \cup BatchRound(t))
           names == {calls[i] : i \in Batch(t) \ refused}
           n == Cardinality(Batch(t))
           x == [Over(y) EXCEPT !.at = "running", !.running = names, !.size = n]
<1>1. /\ turn[r] \in TurnRecord /\ turn[r].awaits = NoEntry
      /\ turn[r].count <= MaxToolCalls /\ InStep(turn[r])
      /\ turn[r].iteration < MaxIterations
  BY TurnFacts DEF StartBatch, TurnOK, Told, Numbered
<1>2. /\ t \in TurnRecord /\ InStep(t) /\ t.calls = calls /\ t.known = turn[r].known
      /\ t.awaits = NoEntry /\ t.count <= MaxToolCalls /\ t.iteration < MaxIterations
  <2> HIDE DEF y, names, n, x
  <2>1. /\ t \in TurnRecord /\ InStep(t) /\ t.calls = calls /\ t.known = turn[r].known
        /\ t.awaits = turn[r].awaits /\ t.count = turn[r].count
        /\ t.iteration = turn[r].iteration
    BY <1>1, RespondedFacts
  <2> QED
    BY <1>1, <2>1
<1>3. turn' = [turn EXCEPT ![r] = x]
  BY DEF StartBatch
<1> HIDE DEF t
<1>4. n \in Nat /\ t.count + n <= MaxToolCalls
  BY <1>2, BatchFits
<1>5. names \in SUBSET Internal
  <2>1. t.known \subseteq Internal
    BY <1>2 DEF TurnRecord
  <2>2. \A i \in Batch(t) : calls[i] \in t.known
    BY <1>2 DEF Batch, FirstOf, internalCalls
  <2> QED
    BY <2>1, <2>2
<1>6. RoundsOK(RoundsBefore(t) \cup BatchRound(t), Positions(t.calls))
  BY <1>2, RoundsTyped DEF RoundsOK
<1>7. /\ y \in TurnRecord /\ y.awaits = NoEntry /\ y.count = t.count
      /\ y.iteration = t.iteration /\ y.seen = t.seen /\ y.progress = t.progress
  BY <1>2, <1>6, SettleTyped
<1> HIDE DEF y, names, n
<1>8. PICK o \in TurnRecord :
        /\ o = Over(y) /\ o.awaits = NoEntry /\ o.count = t.count
        /\ o.iteration = t.iteration /\ o.seen = t.seen /\ o.progress = t.progress
  BY <1>7, OverTyped
<1>9. /\ x \in TurnRecord /\ x.at = "running" /\ x.size = n /\ x.awaits = NoEntry
      /\ x.count = t.count /\ x.iteration = t.iteration /\ x.seen = t.seen
      /\ x.progress = t.progress
  BY <1>4, <1>5, <1>8 DEF TurnRecord, Stages
<1> HIDE DEF x
<1>10. t.count \in Nat
  BY <1>2 DEF TurnRecord
<1>11. AwaitsOne(x) /\ Numbered(x) /\ Charged(x) /\ Told(x) /\ Compared(x)
  <2>1. t.iteration \in Nat
    BY <1>2 DEF TurnRecord
  <2> QED
    BY <1>2, <1>4, <1>9, <1>10, <2>1, ToolLoopAssumption
    DEF AwaitsOne, Numbered, Charged, Told, InStep, Compared
<1>12. MovesTo(r)
  BY <1>3, <1>9, <1>11 DEF MovesTo, TurnOK
<1> QED
  BY <1>12, MoveKeeps DEF StartBatch, LoopInv, SharedOK

LEMMA BatchDoneKeeps ==
  ASSUME LoopInv, NEW r \in Requests, NEW gone \in SUBSET turn[r].running,
         BatchDone(r, gone)
  PROVE  LoopInv'
<1> DEFINE t == [turn[r] EXCEPT !.count = @ + turn[r].size, !.tally = NoTally]
<1>1. /\ turn[r] \in TurnRecord /\ turn[r].awaits = NoEntry
      /\ turn[r].count \in Nat /\ turn[r].size \in Nat
      /\ turn[r].count + turn[r].size <= MaxToolCalls
      /\ InStep(turn[r]) /\ turn[r].iteration < MaxIterations
  BY TurnFacts DEF BatchDone, TurnOK, Told, Numbered, Charged
<1>2. turn[r].count + turn[r].size \in Nat
  BY <1>1
<1>3. /\ t \in TurnRecord /\ t.awaits = NoEntry
      /\ t.count = turn[r].count + turn[r].size /\ t.iteration = turn[r].iteration
      /\ t.seen = turn[r].seen /\ t.progress = turn[r].progress
  BY <1>1, <1>2 DEF TurnRecord, TallyRecord, NoTally
<1>4. Again(r, t)
  BY DEF BatchDone
<1> HIDE DEF t
<1>5. InStep(t)
  BY <1>1, <1>3 DEF InStep
<1>6. MovesTo(r)
  BY <1>1, <1>3, <1>4, <1>5, AgainMoves
<1>7. blocked' \subseteq Internal
  BY <1>1 DEF BatchDone, TurnRecord, LoopInv, SharedOK
<1> QED
  BY <1>6, <1>7, MoveKeeps DEF BatchDone

LEMMA EscalatedKeeps ==
  ASSUME LoopInv, NEW r \in Requests, Escalated(r)
  PROVE  LoopInv'
<1> DEFINE t == [turn[r] EXCEPT !.count = @ + turn[r].size]
<1>1. /\ turn[r] \in TurnRecord /\ turn[r].awaits = NoEntry
      /\ turn[r].count \in Nat /\ turn[r].size \in Nat
      /\ turn[r].count + turn[r].size <= MaxToolCalls
      /\ turn[r].seen \in SeenRecord
  BY TurnFacts DEF Escalated, TurnOK, Charged, TurnRecord
<1>2. turn[r].count + turn[r].size \in Nat
  BY <1>1
<1>3. /\ t \in TurnRecord /\ t.awaits = NoEntry
      /\ t.count = turn[r].count + turn[r].size
  BY <1>1, <1>2 DEF TurnRecord
<1>4. End(r, t, "error", turn[r].seen)
  BY DEF Escalated
<1> HIDE DEF t
<1>5. MovesTo(r)
  BY <1>1, <1>3, <1>4, EndMoves DEF Outcomes
<1> QED
  BY <1>5, MoveKeeps DEF Escalated, LoopInv, SharedOK

LEMMA NoTurnTyped ==
  /\ NoTurn \in TurnRecord /\ TurnOK(NoTurn)
  /\ NoTurn.at = "out" /\ NoTurn.awaits = NoEntry
<1>1. <<>> \in Seq(Names)
  BY EmptySeq
<1>2. NothingSeen \in SeenRecord /\ NothingSeen.content = <<>> /\ ~NothingSeen.final
      /\ NothingSeen.progress = <<>>
  BY EmptySeq DEF NothingSeen, SeenRecord
<1>3. NoTurn \in TurnRecord
  <2>1. NoTally \in TallyRecord /\ <<>> \in Seq(Nat)
    BY EmptySeq DEF NoTally, TallyRecord
  <2> QED
    BY <1>1, <1>2, <2>1 DEF NoTurn, TurnRecord, Stages, Outcomes
<1>4. /\ NoTurn.at = "out" /\ NoTurn.awaits = NoEntry /\ NoTurn.iteration = 0
      /\ NoTurn.count = 0 /\ NoTurn.size = 0 /\ NoTurn.progress = <<>>
      /\ NoTurn.seen = NothingSeen
  BY DEF NoTurn
<1> QED
  BY <1>2, <1>3, <1>4, ToolLoopAssumption
  DEF TurnOK, AwaitsOne, Numbered, Charged, Told, InStep, Compared

LEMMA LeaveKeeps ==
  ASSUME LoopInv, NEW r \in Requests, Leave(r)
  PROVE  LoopInv'
<1>1. MovesTo(r)
  BY NoTurnTyped DEF MovesTo, Leave
<1> QED
  BY <1>1, MoveKeeps DEF Leave, LoopInv, SharedOK

-----------------------------------------------------------------------------
(* The entries of pending results.                                         *)

\* A mixed round registers an entry nobody waits for.
LEMMA RegisteredOwned ==
  ASSUME LoopInv, NEW r \in Requests, MovesTo(r),
         NEW e \in Entries, e = pendingResults \/ promise[e] = "free",
         pendingResults' = e, promise' = [promise EXCEPT ![e] = "running"]
  PROVE  EntriesOwned'
<1>1. PICK x : TurnOK(x) /\ x.at # "pending" /\ turn' = [turn EXCEPT ![r] = x]
  BY DEF MovesTo
<1>2. \A s \in Requests : turn'[s] = IF s = r THEN x ELSE turn[s]
  BY <1>1 DEF LoopInv
<1>3. x.awaits = NoEntry
  BY <1>1 DEF TurnOK, AwaitsOne
<1>4. \A s \in Requests : turn[s].at = "pending" => turn[s].awaits \in Entries
  BY DEF LoopInv, TurnOK, AwaitsOne
<1>5. \A s \in Requests : turn[s].at = "pending" => turn[s].awaits # e
  BY DEF LoopInv, EntriesOwned
<1>6. \A f \in Entries : promise'[f] = IF f = e THEN "running" ELSE promise[f]
  BY DEF LoopInv, SharedOK
<1>7. \A s \in Requests : turn'[s].at = "pending" =>
        /\ turn'[s].awaits # e /\ promise'[turn'[s].awaits] # "free"
  BY <1>1, <1>2, <1>4, <1>5, <1>6 DEF LoopInv, EntriesOwned
<1>8. \A s \in Requests : turn'[s].at = "pending" =>
        \A q \in Requests \ {s} : turn'[q].awaits # turn'[s].awaits
  BY <1>1, <1>2, <1>3, <1>4, ToolLoopAssumption DEF LoopInv, EntriesOwned
<1>9. promise'[e] # "free"
  BY <1>6
<1> QED
  BY <1>7, <1>8, <1>9 DEF EntriesOwned

LEMMA SurfaceKeeps ==
  ASSUME LoopInv, NEW r \in Requests,
         NEW calls \in Responses, NEW refused \in SUBSET Nat,
         Surface(r, calls, refused)
  PROVE  LoopInv'
<1> DEFINE t == Responded(turn[r], calls, refused)
           mixed == internalCalls(t, calls) # {}
           rounds == RoundsBefore(t) \cup Fired(t) \cup Round("surfaced", Misses(t))
           y == Settle(t, rounds)
           n == IF mixed THEN Cardinality(Batch(t)) ELSE 0
           x == [y EXCEPT !.count = @ + n]
<1>1. /\ turn[r] \in TurnRecord /\ turn[r].awaits = NoEntry
      /\ turn[r].count <= MaxToolCalls /\ InStep(turn[r])
  BY TurnFacts DEF Surface, TurnOK, Told
<1>2. /\ t \in TurnRecord /\ InStep(t) /\ t.awaits = turn[r].awaits
      /\ t.count = turn[r].count
  <2> HIDE DEF mixed, rounds, y, n, x
  <2> QED
    BY <1>1, RespondedFacts
<1>3. End(r, x, "tool_calls", WithFallback(t))
  BY DEF Surface
<1>4. \/ \E e \in Entries : /\ e = pendingResults \/ promise[e] = "free"
                            /\ pendingResults' = e
                            /\ promise' = [promise EXCEPT ![e] = "running"]
      \/ UNCHANGED <<pendingResults, promise>>
  BY DEF Surface, LoopInv, SharedOK
<1> HIDE DEF t
<1>5. n \in Nat /\ t.count \in Nat /\ t.count + n <= MaxToolCalls
  <2>1. t.count \in Nat
    BY <1>2 DEF TurnRecord
  <2>2. Cardinality(Batch(t)) \in Nat /\ t.count + Cardinality(Batch(t)) <= MaxToolCalls
    BY <1>1, <1>2, BatchFits
  <2> HIDE DEF mixed
  <2> QED
    BY <1>1, <1>2, <2>1, <2>2
<1>6. RoundsOK(rounds, Positions(t.calls))
  BY <1>2, RoundsTyped DEF RoundsOK
<1> HIDE DEF rounds, n
<1>7. /\ y \in TurnRecord /\ y.awaits = t.awaits /\ y.count = t.count
      /\ y.progress = t.progress
  BY <1>2, <1>6, SettleTyped
<1> HIDE DEF y
<1>8. /\ x \in TurnRecord /\ x.awaits = t.awaits /\ x.count = t.count + n
      /\ x.progress = t.progress
  <2>1. y.count + n \in Nat
    BY <1>5, <1>7
  <2> QED
    BY <1>7, <2>1 DEF TurnRecord
<1> HIDE DEF x
<1>9. WithFallback(t) \in SeenRecord /\ Reply(WithFallback(t)) = t.progress
  BY <1>2, ProgressRead
<1>10. MovesTo(r)
  BY <1>1, <1>2, <1>3, <1>5, <1>8, <1>9, EndMoves DEF Outcomes
<1>11. UNCHANGED <<blocked, streamMode>>
  BY DEF Surface
<1>12. CASE UNCHANGED <<pendingResults, promise>>
  BY <1>10, <1>11, <1>12, MoveKeeps DEF LoopInv, SharedOK
<1>13. ASSUME NEW e \in Entries, e = pendingResults \/ promise[e] = "free",
              pendingResults' = e, promise' = [promise EXCEPT ![e] = "running"]
       PROVE  LoopInv'
  <2>1. EntriesOwned'
    BY <1>10, <1>13, RegisteredOwned
  <2>2. SharedOK'
    BY <1>11, <1>13 DEF LoopInv, SharedOK
  <2>3. turn' \in [Requests -> TurnRecord] /\ \A s \in Requests : TurnOK(turn[s])'
    BY <1>10, <1>11, TurnsKept DEF MovesTo
  <2> QED
    BY <2>1, <2>2, <2>3 DEF LoopInv
<1> QED
  BY <1>4, <1>12, <1>13

\* The entry is taken by the request that enters: nobody else finds it.
LEMMA EnterKeeps ==
  ASSUME LoopInv, NEW r \in Requests, NEW held \in SUBSET External,
         Enter(r, Internal, held)
  PROVE  LoopInv'
<1> DEFINE at == IF pendingResults = NoEntry THEN "head" ELSE "pending"
           x == [NoTurn EXCEPT !.at = at, !.known = Internal, !.held = held,
                               !.awaits = pendingResults]
<1>1. turn' = [turn EXCEPT ![r] = x] /\ pendingResults' = NoEntry
      /\ UNCHANGED <<promise, blocked, streamMode>>
  BY DEF Enter, Taken
<1>2. pendingResults \in Entries \cup {NoEntry} /\ NoEntry \notin Entries
  BY ToolLoopAssumption DEF LoopInv, SharedOK
<1>3. /\ x \in TurnRecord /\ x.at = at /\ x.awaits = pendingResults
      /\ x.iteration = 0 /\ x.count = 0 /\ x.size = 0 /\ x.progress = <<>>
      /\ x.seen = NothingSeen
  <2>1. at \in Stages
    BY DEF Stages
  <2>2. /\ NoTurn.iteration = 0 /\ NoTurn.count = 0 /\ NoTurn.size = 0
        /\ NoTurn.progress = <<>> /\ NoTurn.seen = NothingSeen
    BY DEF NoTurn
  <2> HIDE DEF at
  <2> QED
    BY <1>2, <2>1, <2>2, NoTurnTyped DEF TurnRecord
<1>4. NothingSeen.content = <<>> /\ ~NothingSeen.final /\ NothingSeen.progress = <<>>
  BY DEF NothingSeen
<1> HIDE DEF x
<1>5. TurnOK(x)
  BY <1>2, <1>3, <1>4, ToolLoopAssumption
  DEF TurnOK, AwaitsOne, Numbered, Charged, Told, InStep, Compared
<1>6. turn' \in [Requests -> TurnRecord] /\ \A s \in Requests : TurnOK(turn[s])'
  BY <1>1, <1>5, TurnsKept
<1>7. EntriesOwned'
  <2>1. \A s \in Requests : turn'[s] = IF s = r THEN x ELSE turn[s]
    BY <1>1 DEF LoopInv
  <2>2. \A s \in Requests : IF turn[s].at = "pending" THEN turn[s].awaits \in Entries
                                                       ELSE turn[s].awaits = NoEntry
    BY DEF LoopInv, TurnOK, AwaitsOne
  <2>3. \A s \in Requests : turn[s].awaits = pendingResults => pendingResults = NoEntry
    BY <1>2, <2>2 DEF LoopInv, EntriesOwned
  <2>4. \A s \in Requests : turn'[s].at = "pending" =>
          turn'[s].awaits # NoEntry /\ promise[turn'[s].awaits] # "free"
    BY <1>2, <1>3, <2>1, <2>2 DEF LoopInv, EntriesOwned
  <2>5. \A s \in Requests : turn'[s].at = "pending" =>
          \A q \in Requests \ {s} : turn'[q].awaits # turn'[s].awaits
    BY <1>2, <1>3, <2>1, <2>2, <2>3 DEF LoopInv, EntriesOwned
  <2> QED
    BY <1>1, <2>4, <2>5 DEF EntriesOwned
<1> QED
  BY <1>1, <1>6, <1>7 DEF LoopInv, SharedOK

LEMMA PendingArrivesKeeps ==
  ASSUME LoopInv, NEW r \in Requests, PendingArrives(r)
  PROVE  LoopInv'
<1> DEFINE x == [turn[r] EXCEPT !.at = "head", !.awaits = NoEntry]
           e == turn[r].awaits
<1>1. turn' = [turn EXCEPT ![r] = x] /\ promise' = [promise EXCEPT ![e] = "free"]
      /\ UNCHANGED <<pendingResults, blocked, streamMode>>
  BY DEF PendingArrives, LoopInv
<1>2. turn[r] \in TurnRecord /\ TurnOK(turn[r]) /\ turn[r].at = "pending"
      /\ e \in Entries
  BY TurnFacts DEF PendingArrives, TurnOK, AwaitsOne
<1>3. /\ x \in TurnRecord /\ x.at = "head" /\ x.awaits = NoEntry
      /\ x.iteration = turn[r].iteration /\ x.count = turn[r].count
      /\ x.size = turn[r].size /\ x.progress = turn[r].progress /\ x.seen = turn[r].seen
  BY <1>2 DEF TurnRecord, Stages
<1> HIDE DEF x
<1>4. TurnOK(x)
  BY <1>2, <1>3 DEF TurnOK, AwaitsOne, Numbered, Charged, Told, InStep, Compared
<1>5. turn' \in [Requests -> TurnRecord] /\ \A s \in Requests : TurnOK(turn[s])'
  BY <1>1, <1>4, TurnsKept
<1>6. EntriesOwned'
  <2>1. \A s \in Requests : turn'[s] = IF s = r THEN x ELSE turn[s]
    BY <1>1 DEF LoopInv
  <2>2. \A s \in Requests : turn[s].at = "pending" => turn[s].awaits \in Entries
    BY DEF LoopInv, TurnOK, AwaitsOne
  <2>3. \A f \in Entries : promise'[f] = IF f = e THEN "free" ELSE promise[f]
    BY <1>1 DEF LoopInv, SharedOK
  <2>4. e # pendingResults /\ \A s \in Requests \ {r} : turn[s].awaits # e
    BY <1>2 DEF LoopInv, EntriesOwned
  <2> HIDE DEF e
  <2>5. pendingResults # NoEntry => promise'[pendingResults] # "free"
    BY <2>3, <2>4 DEF LoopInv, SharedOK, EntriesOwned
  <2>6. \A s \in Requests : turn'[s].at = "pending" =>
          turn'[s].awaits # pendingResults /\ promise'[turn'[s].awaits] # "free"
    BY <1>3, <2>1, <2>2, <2>3, <2>4 DEF LoopInv, EntriesOwned
  <2>7. \A s \in Requests : turn'[s].at = "pending" =>
          \A q \in Requests \ {s} : turn'[q].awaits # turn'[s].awaits
    BY <1>3, <2>1, <2>2, ToolLoopAssumption DEF LoopInv, EntriesOwned
  <2> QED
    BY <1>1, <2>5, <2>6, <2>7 DEF EntriesOwned
<1>7. SharedOK'
  BY <1>1 DEF LoopInv, SharedOK
<1> QED
  BY <1>5, <1>6, <1>7 DEF LoopInv

\* The turns stay while an entry settles or a time runs out.
LEMMA TurnsStay ==
  ASSUME LoopInv, UNCHANGED <<turn, streamMode>>
  PROVE  /\ turn' \in [Requests -> TurnRecord]
         /\ \A s \in Requests : TurnOK(turn[s])'
BY DEF LoopInv, TurnOK, AwaitsOne, Numbered, Charged, Told, InStep, Compared, Agrees

LEMMA PromiseSettlesKeeps ==
  ASSUME LoopInv, NEW e \in Entries, PromiseSettles(e)
  PROVE  LoopInv'
<1>1. \A f \in Entries : promise'[f] = IF f = e THEN "settled" ELSE promise[f]
  BY DEF PromiseSettles, LoopInv, SharedOK
<1>2. \A s \in Requests : turn[s].at = "pending" => turn[s].awaits \in Entries
  BY DEF LoopInv, TurnOK, AwaitsOne
<1>3. EntriesOwned'
  BY <1>1, <1>2 DEF PromiseSettles, LoopInv, SharedOK, EntriesOwned
<1>4. SharedOK'
  BY DEF PromiseSettles, LoopInv, SharedOK
<1> QED
  BY <1>3, <1>4, TurnsStay DEF PromiseSettles, LoopInv

LEMMA PendingExpiresKeeps ==
  ASSUME LoopInv, PendingExpires
  PROVE  LoopInv'
<1>1. pendingResults \in Entries
  BY DEF PendingExpires, LoopInv, SharedOK
<1>2. \A f \in Entries : promise'[f] = IF f = pendingResults THEN "free" ELSE promise[f]
  BY DEF PendingExpires, LoopInv, SharedOK
<1>3. \A s \in Requests : turn[s].at = "pending" => turn[s].awaits \in Entries
  BY DEF LoopInv, TurnOK, AwaitsOne
<1>4. EntriesOwned'
  BY <1>1, <1>2, <1>3, ToolLoopAssumption DEF PendingExpires, LoopInv, EntriesOwned
<1>5. SharedOK'
  BY <1>1 DEF PendingExpires, LoopInv, SharedOK
<1> QED
  BY <1>4, <1>5, TurnsStay DEF PendingExpires, LoopInv

LEMMA BlockExpiresKeeps ==
  ASSUME LoopInv, NEW n \in Internal, BlockExpires(n)
  PROVE  LoopInv'
<1>1. SharedOK' /\ EntriesOwned'
  BY DEF BlockExpires, LoopInv, SharedOK, EntriesOwned
<1> QED
  BY <1>1, TurnsStay DEF BlockExpires, LoopInv

-----------------------------------------------------------------------------
(* The invariant holds.                                                    *)

LEMMA InitLoopInv == LoopInit => LoopInv
<1> SUFFICES ASSUME LoopInit
             PROVE  LoopInv
  OBVIOUS
<1>1. turn \in [Requests -> TurnRecord] /\ \A r \in Requests : TurnOK(turn[r])
  BY NoTurnTyped DEF LoopInit
<1>2. \A r \in Requests : turn[r].at # "pending"
  BY NoTurnTyped DEF LoopInit
<1> QED
  BY <1>1, <1>2 DEF LoopInit, LoopInv, SharedOK, EntriesOwned

LEMMA AnswerKeeps ==
  ASSUME LoopInv, NEW r \in Requests, Answer(r)
  PROVE  LoopInv'
<1>1. PICK calls \in Responses : \E refused \in SUBSET Refusable(turn[r], calls) :
        \/ AllRefused(r, calls, refused) \/ BlockedRound(r, calls, refused)
        \/ Surface(r, calls, refused) \/ OnlyHits(r, calls, refused)
        \/ StartBatch(r, calls, refused)
  BY DEF Answer
<1>2. PICK refused \in SUBSET Refusable(turn[r], calls) :
        \/ AllRefused(r, calls, refused) \/ BlockedRound(r, calls, refused)
        \/ Surface(r, calls, refused) \/ OnlyHits(r, calls, refused)
        \/ StartBatch(r, calls, refused)
  BY <1>1
<1>3. refused \in SUBSET Nat
  BY RefusedTyped
<1>4. turn[r].at = "calling"
  BY DEF Answer
<1> QED
  BY <1>2, <1>3, <1>4, AnsweredAtOnceKeeps, SurfaceKeeps, StartBatchKeeps

LEMMA AdvanceKeeps ==
  ASSUME LoopInv, NEW r \in Requests, Advance(r)
  PROVE  LoopInv'
BY PendingArrivesKeeps, TaskFinishedKeeps, AbortedKeeps, CutShortKeeps, CallModelKeeps,
   NamesCollideKeeps, StreamResetKeeps, StreamFailsKeeps, RepromptedKeeps, RepliedKeeps,
   BatchDoneKeeps, EscalatedKeeps, LeaveKeeps DEF Advance

LEMMA LoopStepKeeps == LoopInv /\ [LoopNext]_loopVars => LoopInv'
<1> SUFFICES ASSUME LoopInv, [LoopNext]_loopVars
             PROVE  LoopInv'
  OBVIOUS
<1>1. CASE \E r \in Requests : Advance(r) \/ Answer(r)
  BY <1>1, AdvanceKeeps, AnswerKeeps
<1>2. CASE \E r \in Requests, held \in SUBSET External : Enter(r, Internal, held)
  BY <1>2, EnterKeeps
<1>3. CASE \E e \in Entries : PromiseSettles(e)
  BY <1>3, PromiseSettlesKeeps
<1>4. CASE PendingExpires
  BY <1>4, PendingExpiresKeeps
<1>5. CASE \E n \in Internal : BlockExpires(n)
  BY <1>5, BlockExpiresKeeps
<1>6. CASE UNCHANGED loopVars
  <2>1. SharedOK' /\ EntriesOwned'
    BY <1>6 DEF loopVars, LoopInv, SharedOK, EntriesOwned
  <2> QED
    BY <1>6, <2>1, TurnsStay DEF loopVars, LoopInv
<1> QED
  BY <1>1, <1>2, <1>3, <1>4, <1>5, <1>6 DEF LoopNext

LEMMA LoopInvHolds == LoopSpec => []LoopInv
BY InitLoopInv, LoopStepKeeps, PTL DEF LoopSpec

\* The registries and the locals of every turn have their types, and a turn that waits
\* for pending results waits for an entry.
THEOREM LoopTypeCorrect == LoopSpec => []LoopTypeOK
<1>1. LoopInv => LoopTypeOK
  BY DEF LoopInv, SharedOK, TurnOK, AwaitsOne, Numbered, TurnRecord, LoopTypeOK
<1> QED
  BY <1>1, LoopInvHolds, PTL

\* PendingToolResultsRegistry.consume() hands the results of a mixed round to one
\* request, however many start together and however often entries expire or are
\* replaced.
THEOREM PendingTakenOnce == LoopSpec => []PendingOnce
<1>1. LoopInv => PendingOnce
  BY DEF LoopInv, EntriesOwned, PendingOnce
<1> QED
  BY <1>1, LoopInvHolds, PTL

\* maxToolCalls bounds a request for every budget and every response: the calls of a
\* batch and those left running by a mixed round included.
THEOREM BudgetIsKept == LoopSpec => []BudgetHolds
<1>1. LoopInv => BudgetHolds
  BY DEF LoopInv, TurnOK, Charged, BudgetHolds
<1> QED
  BY <1>1, LoopInvHolds, PTL

\* process() returns the answer, or what was said before the turn was cut short,
\* after any number of iterations, resets and reprompts, in both stream modes.
THEOREM AnswerIsRebuilt == LoopSpec => []ConsumerAgrees
<1>1. LoopInv => ConsumerAgrees
  BY DEF LoopInv, TurnOK, Told, Agrees, ConsumerAgrees
<1> QED
  BY <1>1, LoopInvHolds, PTL

-----------------------------------------------------------------------------
(* Every call is answered once.  A name that a server and the client both  *)
(* offer is the exception: such a call is run and handed out, until        *)
(* mergeOfferedTools() has compared the names (tool-loop.ts:339).          *)

\* The calls of a response that two sides answer for.
Both(t) ==
  externalCalls(t.calls) \cap (internalCalls(t, t.calls) \cup blockedCalls(t.calls))

\* A round answers what it asks, and two rounds share at most the calls of both.
Clean(rounds, both) ==
  /\ \A x \in rounds : x.asked = x.answered
  /\ \A x, y \in rounds : x # y => x.answered \cap y.answered \subseteq both

\* The calls a set of rounds answers.
Cover(rounds) == UNION {x.answered : x \in rounds}

\* Two sets of rounds share at most the calls of both.
Apart(A, B, both) == Cover(A) \cap Cover(B) \subseteq both

\* Some round reports a blocked tool.
Halted(rounds) == \E x \in rounds : x.why = "blocked"

\* Only the calls that two sides answer for are in two rounds.
LEMMA TwiceAnswered ==
  ASSUME NEW rounds, NEW both, Clean(rounds, both), NEW i,
         Cardinality({x \in rounds : i \in x.answered}) > 1
  PROVE  i \in both
<1> DEFINE results == {x \in rounds : i \in x.answered}
<1>1. CASE results = {}
  BY <1>1, FS_EmptySet
<1>2. CASE \E x : results = {x}
  BY <1>2, FS_Singleton
<1>3. CASE \E x, y \in results : x # y
  BY <1>3 DEF Clean
<1> QED
  BY <1>1, <1>2, <1>3

\* Clean rounds that ask every call, or report a blocked tool, account for the response.
LEMMA SettleClean ==
  ASSUME NEW t \in TurnRecord, NEW rounds, Clean(rounds, Both(t)),
         Positions(t.calls) \subseteq Cover(rounds) \/ Halted(rounds),
         Both(t) # {} => t.iteration = 0 \/ Halted(rounds),
         blocked \subseteq Internal
  PROVE  Accounted(Settle(t, rounds).tally)
<1> DEFINE results(i) == {x \in rounds : i \in x.answered}
           P == Positions(t.calls)
           m == UNION {x.asked \ x.answered : x \in rounds}
           d == {i \in P : Cardinality(results(i)) > 1}
                  \cup UNION {x.answered \ x.asked : x \in rounds}
           tally == [missed  |-> Named(t.calls, m),
                     dropped |-> P \ UNION {x.asked : x \in rounds} # {},
                     doubled |-> Named(t.calls, d),
                     halted  |-> \E x \in rounds : x.why = "blocked",
                     first   |-> t.iteration = 0]
<1>1. m = {} /\ UNION {x.answered \ x.asked : x \in rounds} = {}
  BY DEF Clean
<1>2. d \subseteq Both(t)
  <2>1. \A i \in P : Cardinality(results(i)) > 1 => i \in Both(t)
    BY TwiceAnswered
  <2> QED
    BY <1>1, <2>1
<1>3. UNION {x.asked : x \in rounds} = Cover(rounds)
  BY DEF Clean, Cover
<1>4. Named(t.calls, Both(t)) \subseteq Internal \cap External
  BY DEF Both, Named, externalCalls, internalCalls, blockedCalls, TurnRecord
<1>5. Settle(t, rounds).tally = tally
  BY DEF Settle, TurnRecord
<1>6. tally.missed = {}
  BY <1>1 DEF Named
<1>7. tally.dropped => tally.halted
  BY <1>3 DEF Halted
<1>8. tally.doubled \subseteq Named(t.calls, Both(t))
  <2> HIDE DEF d
  <2> QED
    BY <1>2 DEF Named
<1>9. tally.doubled # {} => tally.first \/ tally.halted
  <2>1. Both(t) = {} => tally.doubled = {}
    BY <1>8 DEF Named
  <2> QED
    BY <2>1 DEF Halted
<1> HIDE DEF tally
<1> QED
  BY <1>4, <1>5, <1>6, <1>7, <1>8, <1>9 DEF Accounted

\* A round answers what it asks.
LEMMA RoundClean ==
  ASSUME NEW why, NEW S, NEW both
  PROVE  /\ Clean(Round(why, S), both) /\ Cover(Round(why, S)) = S
         /\ S # {} /\ why = "blocked" => Halted(Round(why, S))
<1>1. /\ Asks(why, S, S).asked = S /\ Asks(why, S, S).answered = S
      /\ Asks(why, S, S).why = why
  BY DEF Asks
<1>2. Round(why, S) = IF S = {} THEN {} ELSE {Asks(why, S, S)}
  BY DEF Round
<1>3. Clean(Round(why, S), both)
  BY <1>1, <1>2 DEF Clean
<1>4. Cover(Round(why, S)) = S
  BY <1>1, <1>2 DEF Cover
<1>5. S # {} /\ why = "blocked" => Halted(Round(why, S))
  BY <1>1, <1>2 DEF Halted
<1> QED
  BY <1>3, <1>4, <1>5

\* Rounds that share the calls of both at most are clean together.
LEMMA JoinClean ==
  ASSUME NEW both, NEW A, NEW B, Clean(A, both), Clean(B, both), Apart(A, B, both)
  PROVE  Clean(A \cup B, both)
<1>1. \A x \in A : x.answered \subseteq Cover(A)
  BY DEF Cover
<1>2. \A x \in B : x.answered \subseteq Cover(B)
  BY DEF Cover
<1>3. \A x \in A, y \in B : x.answered \cap y.answered \subseteq both
  BY <1>1, <1>2 DEF Apart
<1>4. \A x, y \in A \cup B : x # y => x.answered \cap y.answered \subseteq both
  BY <1>3 DEF Clean
<1> QED
  BY <1>4 DEF Clean

LEMMA JoinCover ==
  ASSUME NEW A, NEW B
  PROVE  Cover(A \cup B) = Cover(A) \cup Cover(B)
BY DEF Cover

\* The kinds of calls cover a response; a server's and the client's overlap in Both.
LEMMA CallsApart ==
  ASSUME NEW t \in TurnRecord
  PROVE  LET I == internalCalls(t, t.calls)
             R == Rejected(t)
             H == Hits(t)
             M == Misses(t)
             U == Unknowns(t)
         IN /\ Batch(t) \cup Skipped(t) = I
            /\ Positions(t.calls) = I \cup R \cup H \cup M \cup U \cup blockedCalls(t.calls)
            /\ I \cap R \subseteq Both(t) /\ I \cap H \subseteq Both(t)
            /\ I \cap M \subseteq Both(t) /\ I \cap U = {}
            /\ R \cap H = {} /\ R \cap M = {} /\ R \cap U = {}
            /\ H \cap M = {} /\ H \cap U = {} /\ M \cap U = {}
            /\ R \cap blockedCalls(t.calls) \subseteq Both(t)
<1> DEFINE I == internalCalls(t, t.calls)
           E == externalCalls(t.calls)
           B == blockedCalls(t.calls)
<1>1. Both(t) = E \cap (I \cup B)
  BY DEF Both
<1>2. /\ Rejected(t) \subseteq E /\ Asked(t) \subseteq E
      /\ Rejected(t) \cup Asked(t) = E /\ Rejected(t) \cap Asked(t) = {}
  BY DEF Rejected, Asked
<1>3. Hits(t) \cup Misses(t) = Asked(t) /\ Hits(t) \cap Misses(t) = {}
  BY DEF Hits, Misses
<1>4. /\ Unknowns(t) \cap I = {} /\ Unknowns(t) \cap E = {}
      /\ Positions(t.calls) \subseteq Unknowns(t) \cup I \cup E \cup B
  BY DEF Unknowns, hallucinations
<1>5. Batch(t) \cup Skipped(t) = I
  BY DEF Batch, FirstOf, Skipped
<1>6. /\ I \subseteq Positions(t.calls) /\ E \subseteq Positions(t.calls)
      /\ B \subseteq Positions(t.calls) /\ Unknowns(t) \subseteq Positions(t.calls)
  BY DEF internalCalls, externalCalls, blockedCalls, Unknowns, hallucinations
<1> HIDE DEF I, E, B
<1>7. /\ I \cap Rejected(t) \subseteq Both(t) /\ I \cap Hits(t) \subseteq Both(t)
      /\ I \cap Misses(t) \subseteq Both(t) /\ Rejected(t) \cap B \subseteq Both(t)
  BY <1>1, <1>2, <1>3
<1>8. /\ I \cap Unknowns(t) = {} /\ Rejected(t) \cap Hits(t) = {}
      /\ Rejected(t) \cap Misses(t) = {} /\ Rejected(t) \cap Unknowns(t) = {}
      /\ Hits(t) \cap Misses(t) = {} /\ Hits(t) \cap Unknowns(t) = {}
      /\ Misses(t) \cap Unknowns(t) = {}
  BY <1>2, <1>3, <1>4
<1>9. Positions(t.calls) =
        I \cup Rejected(t) \cup Hits(t) \cup Misses(t) \cup Unknowns(t) \cup B
  BY <1>2, <1>3, <1>4, <1>6
<1> QED
  BY <1>5, <1>7, <1>8, <1>9 DEF I, B

\* The rounds that come before a call is surfaced or run.
LEMMA BeforeClean ==
  ASSUME NEW t \in TurnRecord
  PROVE  LET S == Rejected(t) \cup Hits(t) \cup (IF Asked(t) # {} THEN Unknowns(t) ELSE {})
         IN Clean(RoundsBefore(t), Both(t)) /\ Cover(RoundsBefore(t)) = S
<1> DEFINE R == Rejected(t)  H == Hits(t)  U == IF Asked(t) # {} THEN Unknowns(t) ELSE {}
           A == Round("refused", R)  B == Round("held", H)
           C == IF Asked(t) # {} THEN Round("unknown", Unknowns(t)) ELSE {}
           both == Both(t)
<1>1. R \cap H = {} /\ R \cap U = {} /\ H \cap U = {}
  BY CallsApart
<1>2. Clean(A, both) /\ Cover(A) = R /\ Clean(B, both) /\ Cover(B) = H
  BY RoundClean
<1>3. Clean(C, both) /\ Cover(C) = U
  BY RoundClean DEF Clean, Cover
<1>4. RoundsBefore(t) = A \cup B \cup C
  BY DEF RoundsBefore
<1> HIDE DEF R, H, U, A, B, C, both
<1>5. Clean(A \cup B, both) /\ Cover(A \cup B) = R \cup H
  <2>1. Apart(A, B, both)
    BY <1>1, <1>2 DEF Apart
  <2>2. Clean(A \cup B, both)
    BY <1>2, <2>1, JoinClean
  <2> QED
    BY <1>2, <2>2, JoinCover
<1>6. Clean(A \cup B \cup C, both) /\ Cover(A \cup B \cup C) = R \cup H \cup U
  <2>1. Apart(A \cup B, C, both)
    BY <1>1, <1>3, <1>5 DEF Apart
  <2>2. Clean(A \cup B \cup C, both)
    BY <1>3, <1>5, <2>1, JoinClean
  <2> QED
    BY <1>3, <1>5, <2>2, JoinCover
<1> QED
  BY <1>4, <1>6 DEF R, H, U, both

\* A mixed round: the internal calls go to the entry, the external ones to the client.
LEMMA SurfaceClean ==
  ASSUME NEW t \in TurnRecord, blockedCalls(t.calls) = {}, Misses(t) # {}
  PROVE  LET rounds == RoundsBefore(t) \cup Fired(t) \cup Round("surfaced", Misses(t))
         IN Clean(rounds, Both(t)) /\ Cover(rounds) = Positions(t.calls)
<1> DEFINE I == internalCalls(t, t.calls)  M == Misses(t)
           S == Rejected(t) \cup Hits(t) \cup Unknowns(t)
           A == RoundsBefore(t)  B == Fired(t)  C == Round("surfaced", M)
           both == Both(t)
<1>1. Asked(t) # {}
  BY CallsTyped
<1>2. Clean(A, both) /\ Cover(A) = S
  BY <1>1, BeforeClean
<1>3. Batch(t) \cup Skipped(t) = I /\ Positions(t.calls) = S \cup I \cup M
      /\ S \cap I \subseteq both /\ (S \cup I) \cap M \subseteq both
  BY CallsApart
<1>4. Clean(B, both) /\ Cover(B) = I
  BY <1>3, RoundClean DEF Fired
<1>5. Clean(C, both) /\ Cover(C) = M
  BY RoundClean
<1> HIDE DEF S, I, M, A, B, C, both
<1>6. Clean(A \cup B, both) /\ Cover(A \cup B) = S \cup I
  <2>1. Apart(A, B, both)
    BY <1>2, <1>3, <1>4 DEF Apart
  <2>2. Clean(A \cup B, both)
    BY <1>2, <1>4, <2>1, JoinClean
  <2> QED
    BY <1>2, <1>4, <2>2, JoinCover
<1>7. Clean(A \cup B \cup C, both) /\ Cover(A \cup B \cup C) = S \cup I \cup M
  <2>1. Apart(A \cup B, C, both)
    BY <1>3, <1>5, <1>6 DEF Apart
  <2>2. Clean(A \cup B \cup C, both)
    BY <1>5, <1>6, <2>1, JoinClean
  <2> QED
    BY <1>5, <1>6, <2>2, JoinCover
<1> QED
  BY <1>3, <1>7 DEF A, B, C, M, both

\* Every external call has its result and there is nothing to run.
LEMMA HitsClean ==
  ASSUME NEW t \in TurnRecord, blockedCalls(t.calls) = {}, Misses(t) = {}, Hits(t) # {},
         internalCalls(t, t.calls) = {}
  PROVE  Clean(RoundsBefore(t), Both(t)) /\ Cover(RoundsBefore(t)) = Positions(t.calls)
<1>1. Asked(t) # {}
  BY CallsTyped
<1>2. Positions(t.calls) = Rejected(t) \cup Hits(t) \cup Unknowns(t)
  BY CallsApart
<1> QED
  BY <1>1, <1>2, BeforeClean

\* A batch: what runs, what is over the budget, and what is unknown and not answered yet.
LEMMA BatchClean ==
  ASSUME NEW t \in TurnRecord, blockedCalls(t.calls) = {}, Misses(t) = {}
  PROVE  LET rounds == RoundsBefore(t) \cup BatchRound(t)
         IN Clean(rounds, Both(t)) /\ Cover(rounds) = Positions(t.calls)
<1> DEFINE I == internalCalls(t, t.calls)
           U == IF Asked(t) = {} THEN Unknowns(t) ELSE {}
           V == IF Asked(t) # {} THEN Unknowns(t) ELSE {}
           S == Rejected(t) \cup Hits(t) \cup V
           A == RoundsBefore(t)  B == BatchRound(t)
           both == Both(t)
<1>1. Clean(A, both) /\ Cover(A) = S
  BY BeforeClean
<1>2. Batch(t) \cup Skipped(t) = I /\ Positions(t.calls) = S \cup (I \cup U)
      /\ S \cap (I \cup U) \subseteq both
  BY CallsApart
<1>3. Clean(B, both) /\ Cover(B) = I \cup U
  <2> DEFINE x == Asks("batch", I \cup U, Batch(t) \cup Skipped(t) \cup U)
  <2>1. x.asked = I \cup U /\ x.answered = I \cup U
    BY <1>2 DEF Asks
  <2>2. B = {x}
    BY DEF BatchRound
  <2> HIDE DEF x, B, I, U
  <2> QED
    BY <2>1, <2>2 DEF Clean, Cover
<1> HIDE DEF S, I, U, A, B, both
<1>4. Apart(A, B, both)
  BY <1>1, <1>2, <1>3 DEF Apart
<1>5. Clean(A \cup B, both) /\ Cover(A \cup B) = Cover(A) \cup Cover(B)
  BY <1>1, <1>3, <1>4, JoinClean, JoinCover
<1> QED
  BY <1>1, <1>2, <1>3, <1>5 DEF A, B, both

\* A turn whose last response is accounted for.
Harmless(t) == Accounted(t.tally)

HarmlessTo(r) == \E x : Harmless(x) /\ turn' = [turn EXCEPT ![r] = x]

LEMMA NothingAccounted == Accounted(NoTally)
  BY DEF Accounted, NoTally

LEMMA EndHarmless ==
  ASSUME NEW r \in Requests, NEW t \in TurnRecord, Harmless(t),
         NEW outcome, NEW seen, End(r, t, outcome, seen)
  PROVE  HarmlessTo(r)
<1> DEFINE x == [Over(t) EXCEPT
      !.at = "done", !.outcome = outcome, !.held = {}, !.iteration = 0,
      !.progress = IF outcome = "error" THEN <<>> ELSE @,
      !.tally = IF outcome = "tool_calls" THEN @ ELSE NoTally,
      !.seen = IF outcome = "error" THEN NothingSeen ELSE seen]
<1>1. x.tally = t.tally \/ x.tally = NoTally
  BY DEF Over, TurnRecord
<1>2. turn' = [turn EXCEPT ![r] = x]
  BY DEF End
<1> HIDE DEF x
<1> QED
  BY <1>1, <1>2, NothingAccounted DEF Harmless, HarmlessTo

LEMMA AgainHarmless ==
  ASSUME NEW r \in Requests, NEW t \in TurnRecord, Harmless(t), Again(r, t)
  PROVE  HarmlessTo(r)
<1> DEFINE x == [Over(t) EXCEPT !.at = "head", !.iteration = Counted(@)]
<1>1. x.tally = t.tally
  BY DEF Over, TurnRecord
<1>2. turn' = [turn EXCEPT ![r] = x]
  BY DEF Again
<1> HIDE DEF x
<1> QED
  BY <1>1, <1>2 DEF Harmless, HarmlessTo

\* What a response with calls leaves.
LEMMA ResponseHarmless ==
  ASSUME LoopInv, NEW r \in Requests, turn[r].at = "calling",
         NEW calls \in Responses, NEW refused \in SUBSET Nat,
         \/ AllRefused(r, calls, refused) \/ BlockedRound(r, calls, refused)
         \/ Surface(r, calls, refused) \/ OnlyHits(r, calls, refused)
         \/ StartBatch(r, calls, refused)
  PROVE  HarmlessTo(r)
<1> DEFINE t == Responded(turn[r], calls, refused)
<1>1. turn[r] \in TurnRecord /\ InStep(turn[r]) /\ blocked \subseteq Internal
      /\ Compared(turn[r]) /\ turn[r].iteration \in Nat
  BY TurnFacts DEF TurnOK, Told, LoopInv, SharedOK, TurnRecord
<1>2. t \in TurnRecord /\ t.calls = calls /\ t.known = turn[r].known
      /\ t.iteration = turn[r].iteration
  BY <1>1, RespondedFacts
<1>3. /\ RoundsOK(RoundsBefore(t), Positions(calls))
      /\ RoundsOK(Round("refused", Rejected(t)), Positions(calls))
      /\ RoundsOK(Round("blocked", blockedCalls(calls)), Positions(calls))
      /\ RoundsOK(Fired(t), Positions(calls))
      /\ RoundsOK(Round("surfaced", Misses(t)), Positions(calls))
      /\ RoundsOK(BatchRound(t), Positions(calls))
  BY <1>2, RoundsTyped
<1>4. blockedCalls(calls) = {} => (Both(t) # {} => t.iteration = 0)
  <2>1. t.iteration > 0 => t.known \cap External = {}
    BY <1>1, <1>2 DEF Compared
  <2>2. externalCalls(calls) \cap internalCalls(t, calls) # {} => t.known \cap External # {}
    BY DEF externalCalls, internalCalls
  <2> HIDE DEF t
  <2> QED
    BY <1>1, <1>2, <2>1, <2>2 DEF Both
<1>5. ASSUME NEW rounds, RoundsOK(rounds, Positions(calls)), Clean(rounds, Both(t)),
             \/ Halted(rounds)
             \/ Cover(rounds) = Positions(calls) /\ blockedCalls(calls) = {}
      PROVE  Settle(t, rounds) \in TurnRecord /\ Harmless(Settle(t, rounds))
  <2> HIDE DEF t
  <2>1. Settle(t, rounds) \in TurnRecord
    BY <1>2, <1>5, SettleTyped
  <2>2. Positions(t.calls) \subseteq Cover(rounds) \/ Halted(rounds)
    BY <1>2, <1>5
  <2>3. Both(t) # {} => t.iteration = 0 \/ Halted(rounds)
    BY <1>4, <1>5
  <2>4. Accounted(Settle(t, rounds).tally)
    BY <1>1, <1>2, <1>5, <2>2, <2>3, SettleClean
  <2> QED
    BY <2>1, <2>4 DEF Harmless
<1>6. CASE AllRefused(r, calls, refused)
  <2> DEFINE A == Round("refused", Rejected(t))
  <2>1. /\ Again(r, Settle(t, A)) /\ blockedCalls(calls) = {}
        /\ Asked(t) = {} /\ internalCalls(t, calls) = {} /\ Unknowns(t) = {}
    BY <1>6 DEF AllRefused
  <2>2. Clean(A, Both(t)) /\ Cover(A) = Rejected(t)
    BY RoundClean
  <2>3. Positions(calls) = Rejected(t)
    <3> HIDE DEF t
    <3> QED
      BY <1>2, <2>1, CallsApart, CallsTyped
  <2> HIDE DEF t
  <2>4. Settle(t, A) \in TurnRecord /\ Harmless(Settle(t, A))
    BY <1>3, <1>5, <2>1, <2>2, <2>3
  <2> QED
    BY <2>1, <2>4, AgainHarmless
<1>7. CASE BlockedRound(r, calls, refused)
  <2> DEFINE A == Round("refused", Rejected(t))
             B == Round("blocked", blockedCalls(calls))
             both == Both(t)
  <2>1. Again(r, Settle(t, A \cup B)) /\ blockedCalls(calls) # {}
    BY <1>7 DEF BlockedRound
  <2>2. /\ Clean(A, both) /\ Cover(A) = Rejected(t)
        /\ Clean(B, both) /\ Cover(B) = blockedCalls(calls)
    BY RoundClean
  <2>3. Halted(B)
    BY <2>1, RoundClean
  <2> HIDE DEF t
  <2>4. Rejected(t) \cap blockedCalls(calls) \subseteq both
    BY <1>2, CallsApart
  <2>5. RoundsOK(A \cup B, Positions(calls))
    BY <1>3 DEF RoundsOK
  <2> HIDE DEF A, B
  <2>6. Clean(A \cup B, both)
    <3> HIDE DEF both
    <3>1. Apart(A, B, both)
      BY <2>2, <2>4 DEF Apart
    <3> QED
      BY <2>2, <3>1, JoinClean
  <2>7. Halted(A \cup B)
    BY <2>3 DEF Halted
  <2>8. Settle(t, A \cup B) \in TurnRecord /\ Harmless(Settle(t, A \cup B))
    BY <1>5, <2>5, <2>6, <2>7
  <2> QED
    BY <2>1, <2>8, AgainHarmless
<1>8. CASE Surface(r, calls, refused)
  <2> DEFINE rounds == RoundsBefore(t) \cup Fired(t) \cup Round("surfaced", Misses(t))
             y == Settle(t, rounds)
             n == IF internalCalls(t, calls) # {} THEN Cardinality(Batch(t)) ELSE 0
             x == [y EXCEPT !.count = @ + n]
  <2>1. /\ blockedCalls(calls) = {} /\ Misses(t) # {}
        /\ End(r, x, "tool_calls", WithFallback(t))
    BY <1>8 DEF Surface
  <2>2. Clean(rounds, Both(t)) /\ Cover(rounds) = Positions(calls)
    <3> HIDE DEF t
    <3> QED
      BY <1>2, <2>1, SurfaceClean
  <2>3. RoundsOK(rounds, Positions(calls))
    BY <1>3 DEF RoundsOK
  <2>4. n \in Nat
    <3>1. turn[r].count <= MaxToolCalls
      BY TurnFacts
    <3>2. t.count = turn[r].count
      BY <1>1, RespondedFacts
    <3>3. Cardinality(Batch(t)) \in Nat
      BY <1>2, <3>1, <3>2, BatchFits
    <3> QED
      BY <3>3
  <2> HIDE DEF rounds, n, t
  <2>5. y \in TurnRecord /\ Harmless(y)
    BY <1>5, <2>1, <2>2, <2>3
  <2> HIDE DEF y
  <2>6. x \in TurnRecord /\ Harmless(x)
    <3>1. y.count + n \in Nat
      BY <2>4, <2>5 DEF TurnRecord
    <3> QED
      BY <2>5, <3>1 DEF TurnRecord, Harmless
  <2> HIDE DEF x
  <2> QED
    BY <2>1, <2>6, EndHarmless
<1>9. CASE OnlyHits(r, calls, refused)
  <2>1. /\ Again(r, Settle(t, RoundsBefore(t)))
        /\ blockedCalls(calls) = {} /\ Misses(t) = {} /\ Hits(t) # {}
        /\ internalCalls(t, calls) = {}
    BY <1>9 DEF OnlyHits
  <2> HIDE DEF t
  <2>2. Clean(RoundsBefore(t), Both(t)) /\ Cover(RoundsBefore(t)) = Positions(calls)
    BY <1>2, <2>1, HitsClean
  <2>3. Settle(t, RoundsBefore(t)) \in TurnRecord /\ Harmless(Settle(t, RoundsBefore(t)))
    BY <1>3, <1>5, <2>1, <2>2
  <2> QED
    BY <2>1, <2>3, AgainHarmless
<1>10. CASE StartBatch(r, calls, refused)
  <2> DEFINE rounds == RoundsBefore(t) \cup BatchRound(t)
             y == Settle(t, rounds)
             names == {calls[i] : i \in Batch(t) \ refused}
             n == Cardinality(Batch(t))
             x == [Over(y) EXCEPT !.at = "running", !.running = names, !.size = n]
  <2>1. /\ blockedCalls(calls) = {} /\ Misses(t) = {}
        /\ turn' = [turn EXCEPT ![r] = x]
    BY <1>10 DEF StartBatch
  <2>2. Clean(rounds, Both(t)) /\ Cover(rounds) = Positions(calls)
    <3> HIDE DEF t
    <3> QED
      BY <1>2, <2>1, BatchClean
  <2>3. RoundsOK(rounds, Positions(calls))
    BY <1>3 DEF RoundsOK
  <2> HIDE DEF rounds, names, n, t
  <2>4. y \in TurnRecord /\ Harmless(y)
    BY <1>5, <2>1, <2>2, <2>3
  <2> HIDE DEF y
  <2>5. Harmless(x)
    <3>1. x.tally = y.tally
      BY <2>4 DEF Over, TurnRecord
    <3> QED
      BY <2>4, <3>1 DEF Harmless
  <2> HIDE DEF x
  <2> QED
    BY <2>1, <2>5 DEF HarmlessTo
<1> QED
  BY <1>6, <1>7, <1>8, <1>9, <1>10

LEMMA AnswerHarmless ==
  ASSUME LoopInv, NEW r \in Requests, Answer(r)
  PROVE  HarmlessTo(r)
<1>1. PICK calls \in Responses : \E refused \in SUBSET Refusable(turn[r], calls) :
        \/ AllRefused(r, calls, refused) \/ BlockedRound(r, calls, refused)
        \/ Surface(r, calls, refused) \/ OnlyHits(r, calls, refused)
        \/ StartBatch(r, calls, refused)
  BY DEF Answer
<1>2. \A refused \in SUBSET Refusable(turn[r], calls) : refused \in SUBSET Nat
  BY RefusedTyped
<1> QED
  BY <1>1, <1>2, ResponseHarmless DEF Answer

LEMMA AdvanceHarmless ==
  ASSUME LoopInv, NEW r \in Requests, Harmless(turn[r]), Advance(r)
  PROVE  HarmlessTo(r)
<1>1. turn[r] \in TurnRecord /\ turn \in [Requests -> TurnRecord]
  BY TurnFacts DEF LoopInv
<1>2. Accounted(NoTally)
  BY NothingAccounted
<1>3. CASE PendingArrives(r)
  <2> DEFINE x == [turn[r] EXCEPT !.at = "head", !.awaits = NoEntry]
  <2>1. turn' = [turn EXCEPT ![r] = x] /\ x.tally = turn[r].tally
    BY <1>1, <1>3 DEF PendingArrives, TurnRecord
  <2> HIDE DEF x
  <2> QED
    BY <2>1 DEF Harmless, HarmlessTo
<1>4. CASE CallModel(r)
  <2>1. PICK known : turn' = [turn EXCEPT ![r].at = "calling", ![r].known = known,
                                          ![r].resets = 0, ![r].tally = NoTally]
    BY <1>4 DEF CallModel
  <2> DEFINE x == [turn[r] EXCEPT !.at = "calling", !.known = known, !.resets = 0,
                                  !.tally = NoTally]
  <2>2. turn' = [turn EXCEPT ![r] = x] /\ x.tally = NoTally
    BY <1>1, <2>1 DEF TurnRecord
  <2> HIDE DEF x
  <2> QED
    BY <1>2, <2>2 DEF Harmless, HarmlessTo
<1>5. CASE StreamReset(r)
  <2> DEFINE x == [turn[r] EXCEPT !.resets = @ + 1, !.seen = Retried(Live(turn[r]))]
  <2>1. turn' = [turn EXCEPT ![r] = x] /\ x.tally = turn[r].tally
    BY <1>1, <1>5 DEF StreamReset, TurnRecord
  <2> HIDE DEF x
  <2> QED
    BY <2>1 DEF Harmless, HarmlessTo
<1>6. CASE Aborted(r) \/ Stopped(r) \/ OutOfIterations(r) \/ StreamFails(r)
           \/ NamesCollide(r)
  BY <1>1, <1>6, EndHarmless
  DEF Aborted, Stopped, OutOfIterations, StreamFails, NamesCollide
<1>7. CASE TaskFinished(r) \/ Replied(r)
  <2>1. ASSUME NEW i \in Nat
        PROVE  /\ [turn[r] EXCEPT !.answer = <<i>>] \in TurnRecord
               /\ Harmless([turn[r] EXCEPT !.answer = <<i>>])
    BY <1>1, SeqFacts DEF TurnRecord, Harmless
  <2>2. turn[r].iteration \in Nat
    BY <1>1 DEF TurnRecord
  <2> QED
    BY <1>7, <2>1, <2>2, EndHarmless, ToolLoopAssumption DEF TaskFinished, Replied
<1>8. CASE Reprompted(r)
  <2> DEFINE s == Retried(Live(turn[r]))
             t == [turn[r] EXCEPT !.seen = s]
  <2>1. InStep(turn[r])
    BY <1>8, TurnFacts DEF Reprompted, TurnOK, Told
  <2>2. s \in SeenRecord
    BY <1>1, <2>1, LiveFacts, RetriedFacts
  <2>3. Again(r, t)
    BY <1>8 DEF Reprompted
  <2> HIDE DEF s
  <2>4. t \in TurnRecord /\ Harmless(t)
    BY <1>1, <2>2 DEF TurnRecord, Harmless
  <2> HIDE DEF t
  <2> QED
    BY <2>3, <2>4, AgainHarmless
<1>9. CASE (\E gone \in SUBSET turn[r].running : BatchDone(r, gone)) \/ Escalated(r)
  <2> DEFINE t == [turn[r] EXCEPT !.count = @ + turn[r].size]
             u == [turn[r] EXCEPT !.count = @ + turn[r].size, !.tally = NoTally]
  <2>1. turn[r].count + turn[r].size \in Nat
    BY <1>1 DEF TurnRecord
  <2>2. t \in TurnRecord /\ Harmless(t)
    BY <1>1, <2>1 DEF TurnRecord, Harmless
  <2>3. u \in TurnRecord /\ Harmless(u)
    BY <1>1, <2>1, NothingAccounted DEF TurnRecord, TallyRecord, NoTally, Harmless
  <2>4. Again(r, u) \/ End(r, t, "error", turn[r].seen)
    BY <1>9 DEF BatchDone, Escalated
  <2> HIDE DEF t, u
  <2> QED
    BY <2>2, <2>3, <2>4, AgainHarmless, EndHarmless
<1>10. CASE Leave(r)
  <2>1. turn' = [turn EXCEPT ![r] = NoTurn] /\ NoTurn.tally = NoTally
    BY <1>10 DEF Leave, NoTurn
  <2> QED
    BY <1>2, <2>1 DEF Harmless, HarmlessTo
<1> QED
  BY <1>3, <1>4, <1>5, <1>6, <1>7, <1>8, <1>9, <1>10 DEF Advance

\* The property of one turn and of all: Harmless, turn by turn.
LEMMA HarmlessKept ==
  ASSUME LoopInv, EveryCallAnswered, NEW r \in Requests, HarmlessTo(r)
  PROVE  EveryCallAnswered'
<1>1. PICK x : Harmless(x) /\ turn' = [turn EXCEPT ![r] = x]
  BY DEF HarmlessTo
<1>2. \A s \in Requests : turn'[s] = IF s = r THEN x ELSE turn[s]
  BY <1>1 DEF LoopInv
<1>3. \A s \in Requests : Accounted(turn'[s].tally)
  BY <1>1, <1>2 DEF EveryCallAnswered, Harmless
<1> QED
  BY <1>3 DEF EveryCallAnswered, Accounted

\* Whatever mix of internal, external, refused, unknown, blocked and surplus calls a
\* response holds, no call is asked without a result, for every number of names, calls
\* and requests.  One is dropped only beside a blocked tool, and answered twice only
\* under a name that a server and the client offer both, in the first response of a
\* turn or where that tool is blocked: classifyToolCalls(), the blocked branch and
\* mergeOfferedTools() are the code behind it.
THEOREM CallsAreAnswered == LoopSpec => []EveryCallAnswered
<1>1. LoopInit => EveryCallAnswered
  <2>1. Accounted(NoTally)
    BY NothingAccounted
  <2>2. NoTurn.tally = NoTally
    BY DEF NoTurn
  <2> QED
    BY <2>1, <2>2 DEF LoopInit, EveryCallAnswered
<1>2. LoopInv /\ EveryCallAnswered /\ [LoopNext]_loopVars => EveryCallAnswered'
  <2> SUFFICES ASSUME LoopInv, EveryCallAnswered, [LoopNext]_loopVars
               PROVE  EveryCallAnswered'
    OBVIOUS
  <2>1. CASE \E r \in Requests : Advance(r) \/ Answer(r)
    <3>1. PICK r \in Requests : Advance(r) \/ Answer(r)
      BY <2>1
    <3>2. Harmless(turn[r])
      BY DEF EveryCallAnswered, Harmless
    <3> QED
      BY <3>1, <3>2, AdvanceHarmless, AnswerHarmless, HarmlessKept
  <2>2. ASSUME NEW r \in Requests, NEW held \in SUBSET External, Enter(r, Internal, held)
        PROVE  EveryCallAnswered'
    <3> DEFINE x == [NoTurn EXCEPT
          !.at = IF pendingResults = NoEntry THEN "head" ELSE "pending",
          !.known = Internal, !.held = held, !.awaits = pendingResults]
    <3>1. turn' = [turn EXCEPT ![r] = x]
      BY <2>2 DEF Enter
    <3>2. x.tally = NoTally
      BY DEF NoTurn
    <3>3. Harmless(x)
      <4> HIDE DEF x
      <4> QED
        BY <3>2 DEF Harmless, Accounted, NoTally
    <3> HIDE DEF x
    <3> QED
      BY <3>1, <3>3, HarmlessKept DEF HarmlessTo
  <2>3. CASE UNCHANGED turn
    BY <2>3 DEF EveryCallAnswered, Accounted
  <2> QED
    BY <2>1, <2>2, <2>3
    DEF LoopNext, loopVars, PromiseSettles, PendingExpires, BlockExpires
<1> QED
  BY <1>1, <1>2, LoopInvHolds, PTL DEF LoopSpec

=============================================================================
