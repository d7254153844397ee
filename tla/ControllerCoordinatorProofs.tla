---------------------- MODULE ControllerCoordinatorProofs ----------------------
(***************************************************************************)
(* ControllerCoordinator for every number of requests, every budget and    *)
(* every plan: however often a run is suspended, crashes and is resumed,   *)
(* its cursors and artifacts agree, its budgets hold, its outcome stands,  *)
(* and the runs of a session are the runs of RunLedger.                    *)
(***************************************************************************)
EXTENDS ControllerCoordinator, FiniteSetTheorems, TLAPS

-----------------------------------------------------------------------------
(* The inductive invariant.                                                *)

\* The artifacts R of a run, and those that are accepted.
Of(R, r) == {x \in R : x.run = r}
Accepted(x) == x.status # "failed"

\* Those of the attempt in flight.
CommittedIn(b, R) ==
  {x \in R : /\ x.run = b.run
             /\ x.seq = b.inFlight.seq
             /\ x.attempt = b.inFlight.attempt}

\* The cursors of planner and run move together, and the attempt in flight is of
\* the next step.
Cursors(b) ==
  /\ b.planCursor = b.nextSeq
  /\ ~b.planned => b.nextSeq = 0 /\ b.inFlight.phase = "none"
  /\ Executing(b) => b.goal
  /\ b.inFlight.phase # "none" => /\ b.inFlight.seq = b.nextSeq
                                  /\ b.inFlight.attempt < MaxStepAttempts

\* Every step before the next has an accepted artifact, the next one at most that of
\* the attempt that is executing; a live run knows its latest attempt.
Artifacts(b, R) ==
  /\ \A x \in Of(R, b.run) :
       /\ x.seq <= b.nextSeq
       /\ x.seq = b.nextSeq /\ Accepted(x) =>
            Executing(b) /\ x.attempt = b.inFlight.attempt
       /\ x.seq = b.nextSeq /\ b.runState # "terminal" =>
            b.inFlight.phase # "none" /\ x.attempt <= b.inFlight.attempt
  /\ \A n \in 0..b.nextSeq - 1 : \E x \in Of(R, b.run) : x.seq = n /\ Accepted(x)

Capped(b) ==
  /\ b.stepsUsed <= MaxSteps
  /\ b.inFlight.resumes <= MaxStepResumes
  /\ b.inFlight.calls <= MaxToolCalls
  /\ b.runState # "terminal" => /\ b.evalResumes <= MaxEvalResumes
                                /\ b.plannerResumes <= MaxPlannerResumes

\* The plan ran to its end.
Ran(b) == b.planned /\ b.planCursor >= b.plan /\ ~Executing(b)

\* A bundle is sound with the artifacts R, when m runs were minted.
Sound(b, R, m) ==
  /\ b.run = m
  /\ b.runState # "idle" => b.run # NoRun
  /\ Cursors(b) /\ Artifacts(b, R) /\ Capped(b)
  /\ b.runState # "terminal" /\ b.runPhase = "finalizing" => Ran(b)
  /\ b.runState # "terminal" /\ b.pending = "external" => Executing(b)

\* What Flip makes of a bundle.
EndOf(b) ==
  [b EXCEPT !.pending = "none", !.finalizeCall = FALSE, !.runState = "terminal",
            !.inFlight = NoStep]

Early == {"classify", "fresh", "replay", "resume", "notFound"}
Working ==
  {"external", "clarify", "goal", "evaluating", "loop", "wait", "sleeping",
   "planning", "decided", "step", "calling", "settling", "finalize", "composing",
   "exhausted"}

\* What holds of the bundle b and the locals l of a request that is at p.
Fits(p, b, l, R, T) ==
  /\ p \in Working \cup {"resume"} => IsLive(b)
  /\ p \in Working => T[b.run] \notin {"success", "error"}
  /\ p \in Working \ {"external"} => b.pending # "external"
  /\ p = "external" => Executing(b)
  /\ p \in {"loop", "wait", "sleeping", "planning", "decided", "step", "calling",
            "settling"} => b.goal
  /\ p \in {"step", "calling", "wait", "sleeping"} =>
       Executing(b) /\ CommittedIn(b, R) = {} /\ StepsLeft(b)
  /\ p \in {"planning", "decided"} => ~Executing(b) /\ StepsLeft(b)
  /\ p = "planning" => b.runPhase = "planning"
  /\ p = "decided" /\ l.next = "next" => b.planned
  /\ p = "decided" /\ l.next = "done" => Ran(b)
  /\ p \in {"finalize", "composing", "exhausted"} => Ran(b)
  /\ p = "settling" => /\ Executing(b) /\ CommittedIn(b, R) # {}
                       /\ \A x \in CommittedIn(b, R) : x.status = l.outcome

\* The same step of the same run.
Same(b, c) ==
  /\ b.run = c.run /\ b.nextSeq = c.nextSeq /\ b.planCursor = c.planCursor
  /\ b.inFlight.phase = c.inFlight.phase /\ b.inFlight.seq = c.inFlight.seq
  /\ b.inFlight.attempt = c.inFlight.attempt

Bundles ==
  /\ Sound(disk, results, minted)
  /\ at \notin {"idle", "flip"} => Sound(mem, results, minted)
  /\ at = "flip" => Sound(EndOf(mem), results, minted)
  /\ at # "idle" => Same(mem, disk)

\* An attempt has one artifact, a step one accepted artifact.
Unique(R, m) ==
  /\ \A x, y \in R : x.run = y.run /\ x.seq = y.seq /\ x.attempt = y.attempt => x = y
  /\ \A x, y \in Of(R, m) : x.seq = y.seq /\ Accepted(x) /\ Accepted(y) => x = y
  /\ IsFiniteSet(R)
  /\ \A x \in R : x.run <= m /\ x.attempt < MaxStepAttempts

Counts ==
  /\ \A r \in RunIds : r > minted => terminal[r] = "none"
  /\ at \in Early => minted < requests
  /\ at # "idle" => requests > 0

\* Each request has at most one attempt that was not charged.
Charged ==
  /\ disk.run # NoRun => Cardinality(Of(results, minted)) < MaxSteps + requests
  /\ Cardinality(Of(results, minted)) <= disk.stepsUsed + requests
  /\ at # "idle" => /\ Cardinality(Of(results, minted)) + 1 <= mem.stepsUsed + requests
                    /\ mem.stepsUsed <= disk.stepsUsed + 1
  /\ at \notin {"idle", "settling"} => mem.stepsUsed = disk.stepsUsed

CInv ==
  /\ TypeOK /\ Bundles /\ Unique(results, minted) /\ Counts /\ Charged
  /\ Fits(at, mem, loc, results, terminal)

-----------------------------------------------------------------------------
(* Records.                                                                *)

LEMMA CapsNat ==
  /\ MaxRequests \in Nat /\ MaxPlan \in Nat /\ MaxSteps \in Nat /\ MaxRetries \in Nat
  /\ MaxRewinds \in Nat /\ MaxToolCalls \in Nat /\ MaxStepAttempts \in Nat
  /\ MaxStepResumes \in Nat /\ MaxPlannerResumes \in Nat /\ MaxEvalResumes \in Nat
  /\ MaxFinalizeRetries \in Nat
<1>1. \A i \in 1..11 : Caps[i] \in Nat
  BY ControllerAssumption DEF ControllerAssumption, Caps
<1>2. /\ Caps[1] \in Nat /\ Caps[2] \in Nat /\ Caps[3] \in Nat /\ Caps[4] \in Nat
      /\ Caps[5] \in Nat /\ Caps[6] \in Nat /\ Caps[7] \in Nat /\ Caps[8] \in Nat
      /\ Caps[9] \in Nat /\ Caps[10] \in Nat /\ Caps[11] \in Nat
  BY <1>1
<1> QED
  BY <1>2 DEF Caps

LEMMA NoStepTyped ==
  /\ NoStep \in StepRecord /\ NoStep.phase = "none" /\ NoStep.resumes = 0
  /\ NoStep.calls = 0
  BY DEF NoStep, StepRecord

LEMMA FreshTyped ==
  ASSUME NEW r \in {NoRun} \cup RunIds, NEW p \in Prompts
  PROVE  /\ FreshBundle(r, p) \in BundleRecord
         /\ FreshBundle(r, p).run = r /\ FreshBundle(r, p).runState = "active"
         /\ FreshBundle(r, p).runPhase = "evaluating"
         /\ FreshBundle(r, p).pending = "none" /\ FreshBundle(r, p).nextSeq = 0
         /\ FreshBundle(r, p).planCursor = 0 /\ ~FreshBundle(r, p).planned
         /\ FreshBundle(r, p).inFlight = NoStep /\ FreshBundle(r, p).stepsUsed = 0
         /\ FreshBundle(r, p).evalResumes = 0 /\ FreshBundle(r, p).plannerResumes = 0
  BY NoStepTyped DEF FreshBundle, BundleRecord

LEMMA EndTyped ==
  ASSUME NEW b \in BundleRecord
  PROVE  /\ EndOf(b) \in BundleRecord
         /\ EndOf(b).run = b.run /\ EndOf(b).runState = "terminal"
         /\ EndOf(b).nextSeq = b.nextSeq /\ EndOf(b).planCursor = b.planCursor
         /\ EndOf(b).planned = b.planned /\ EndOf(b).inFlight = NoStep
         /\ EndOf(b).stepsUsed = b.stepsUsed
<1>1. EndOf(b) \in BundleRecord
  BY NoStepTyped, Zenon DEF EndOf, BundleRecord
<1> QED
  BY <1>1 DEF EndOf, BundleRecord

-----------------------------------------------------------------------------
(* Bundles that are as sound as another.                                   *)

LEMMA ArtifactsLike ==
  ASSUME NEW b, NEW c, NEW R, Artifacts(b, R), Same(c, b),
         c.runState # "terminal" => b.runState # "terminal"
  PROVE  Artifacts(c, R)
  BY DEF Artifacts, Same, Executing

\* A live bundle at the same step.
LEMMA SoundLike ==
  ASSUME NEW b, NEW c, NEW R, NEW m, Sound(b, R, m), Same(c, b),
         b.runState # "terminal", b.runState # "idle",
         b.planned => c.planned, b.goal => c.goal, Capped(c),
         c.runPhase = "finalizing" => Ran(c),
         c.pending = "external" => Executing(c)
  PROVE  Sound(c, R, m)
<1>1. Artifacts(c, R)
  BY ArtifactsLike DEF Sound
<1>2. Cursors(c)
  BY DEF Sound, Cursors, Same, Executing
<1> QED
  BY <1>1, <1>2 DEF Sound, Same

\* A bundle that is done for, when the attempt in flight is not committed.
LEMMA SoundEnd ==
  ASSUME NEW b \in BundleRecord, NEW c \in BundleRecord, NEW R, NEW m,
         Sound(b, R, m), Same(c, b), c.planned = b.planned,
         c.stepsUsed = b.stepsUsed, b.runState # "idle",
         ~Executing(b) \/ CommittedIn(b, R) = {}
  PROVE  Sound(EndOf(c), R, m)
<1> DEFINE e == EndOf(c)
<1>1. /\ e.run = b.run /\ e.runState = "terminal" /\ e.nextSeq = b.nextSeq
      /\ e.planCursor = b.planCursor /\ e.planned = b.planned
      /\ e.inFlight = NoStep /\ e.stepsUsed = b.stepsUsed
  BY EndTyped DEF Same
<1> HIDE DEF e
<1>2. Capped(e)
  BY <1>1, NoStepTyped, CapsNat DEF Capped, Sound
<1>3. Cursors(e)
  BY <1>1, NoStepTyped DEF Cursors, Sound, Executing
<1>4. Artifacts(e, R)
  <2>1. ASSUME NEW x \in Of(R, b.run), x.seq = b.nextSeq, Accepted(x)
        PROVE  FALSE
    <3>1. Executing(b) /\ x.attempt = b.inFlight.attempt /\ b.inFlight.seq = b.nextSeq
      BY <2>1 DEF Sound, Artifacts, Cursors, Executing
    <3>2. x \in CommittedIn(b, R)
      BY <2>1, <3>1 DEF CommittedIn, Of
    <3> QED
      BY <3>1, <3>2
  <2> QED
    BY <1>1, <2>1 DEF Sound, Artifacts
<1> QED
  BY <1>1, <1>2, <1>3, <1>4 DEF Sound, e

\* A bundle whose run is over stays sound.
LEMMA SoundTerminal ==
  ASSUME NEW b, NEW c, NEW R, NEW m, Sound(b, R, m), Same(c, b),
         c.planned = b.planned, c.goal = b.goal, c.inFlight = b.inFlight,
         c.stepsUsed = b.stepsUsed, c.runState = "terminal", b.runState # "idle"
  PROVE  Sound(c, R, m)
<1>1. Artifacts(c, R)
  BY ArtifactsLike DEF Sound
<1>2. Cursors(c) /\ Capped(c)
  BY DEF Sound, Cursors, Capped, Same, Executing
<1> QED
  BY <1>1, <1>2 DEF Sound, Same

-----------------------------------------------------------------------------
(* The forms every step takes.                                             *)

LEMMA PlacesAre ==
  /\ Places = {"idle", "flip"} \cup Early \cup Working
  /\ "idle" \notin Early \cup Working /\ "flip" \notin Early \cup Working
  /\ \A p \in Early : p \notin Working
  BY DEF Places, Early, Working

LEMMA LocalsTyped == NoLocals \in Locals /\ NoRequest \in Request
  BY ControllerAssumption DEF ControllerAssumption, NoLocals, Locals, NoRequest, Request,
     NoRun

LEMMA EmptyTyped ==
  /\ EmptyBundle \in BundleRecord /\ EmptyBundle.run = NoRun
  /\ EmptyBundle.runState = "idle" /\ EmptyBundle.runPhase = "evaluating"
  /\ EmptyBundle.pending = "none" /\ EmptyBundle.nextSeq = 0
  /\ EmptyBundle.planCursor = 0 /\ ~EmptyBundle.planned
  /\ EmptyBundle.inFlight = NoStep /\ EmptyBundle.stepsUsed = 0
  /\ EmptyBundle.evalResumes = 0 /\ EmptyBundle.plannerResumes = 0
<1> DEFINE f == FreshBundle(NoRun, Blank)
<1>1. /\ f \in BundleRecord
      /\ f.run = NoRun /\ f.runState = "active" /\ f.runPhase = "evaluating"
      /\ f.pending = "none" /\ f.nextSeq = 0 /\ f.planCursor = 0 /\ ~f.planned
      /\ f.inFlight = NoStep /\ f.stepsUsed = 0
      /\ f.evalResumes = 0 /\ f.plannerResumes = 0
  BY FreshTyped, ControllerAssumption DEF ControllerAssumption
<1>2. EmptyBundle = [f EXCEPT !.runState = "idle"]
  BY DEF EmptyBundle
<1> HIDE DEF f
<1>3. EmptyBundle \in BundleRecord
  BY <1>1, <1>2, Zenon DEF BundleRecord
<1> QED
  BY <1>1, <1>2, <1>3 DEF BundleRecord

\* Nobody is served: what was held is gone.
LEMMA IdleFits ==
  ASSUME NEW b, NEW l, NEW R, NEW T
  PROVE  Fits("idle", b, l, R, T)
  BY DEF Fits, Working

LEMMA SetOfArtifacts ==
  ASSUME NEW R, NEW m, IsFiniteSet(R)
  PROVE  IsFiniteSet(Of(R, m)) /\ Cardinality(Of(R, m)) \in Nat
<1>1. Of(R, m) \subseteq R
  BY DEF Of
<1>2. IsFiniteSet(Of(R, m))
  BY <1>1, FS_Subset
<1> QED
  BY <1>2, FS_CardinalityType

LEMMA CountNat ==
  ASSUME CInv
  PROVE  Cardinality(Of(results, minted)) \in Nat
  BY SetOfArtifacts DEF CInv, Unique

LEMMA InvInit == Init => CInv
<1> SUFFICES ASSUME Init PROVE CInv
  OBVIOUS
<1>1. /\ disk = EmptyBundle /\ results = {} /\ minted = 0 /\ requests = 0 /\ at = "idle"
      /\ terminal = [r \in RunIds |-> "none"] /\ req = NoRequest /\ mem = EmptyBundle
      /\ loc = NoLocals
  BY DEF Init
<1>2. TypeOK
  BY <1>1, EmptyTyped, LocalsTyped, CapsNat DEF TypeOK, Places
<1>3. Sound(disk, results, minted)
  <2>1. Of(results, disk.run) = {}
    BY <1>1 DEF Of
  <2>2. Artifacts(disk, results)
    BY <1>1, <2>1, EmptyTyped DEF Artifacts
  <2>3. Cursors(disk) /\ Capped(disk)
    BY <1>1, EmptyTyped, NoStepTyped, CapsNat DEF Cursors, Capped, Executing
  <2> QED
    BY <1>1, <2>2, <2>3, EmptyTyped DEF Sound, NoRun
<1>4. Bundles
  BY <1>1, <1>3 DEF Bundles
<1>5. Unique(results, minted) /\ Cardinality(Of(results, minted)) = 0
  <2>1. Of(results, minted) = {}
    BY <1>1 DEF Of
  <2> QED
    BY <1>1, <2>1, FS_EmptySet DEF Unique, Of
<1>6. Counts /\ Charged
  BY <1>1, <1>5, EmptyTyped DEF Counts, Charged, Early
<1> QED
  BY <1>1, <1>2, <1>4, <1>5, <1>6, IdleFits DEF CInv

\* execute() returns, with the bundle b in the store.
LEMMA LeaveKeeps ==
  ASSUME CInv, at # "idle", Leave, disk' \in BundleRecord,
         UNCHANGED <<results, terminal, minted, requests>>,
         Sound(disk', results, minted),
         disk'.stepsUsed + 1 >= mem.stepsUsed, mem.stepsUsed <= MaxSteps
  PROVE  CInv'
<1>1. /\ results' = results /\ terminal' = terminal /\ minted' = minted
      /\ requests' = requests /\ at' = "idle" /\ req' = NoRequest
      /\ mem' = EmptyBundle /\ loc' = NoLocals
  BY DEF Leave
<1>2. TypeOK /\ Counts /\ Charged /\ Unique(results, minted)
  BY DEF CInv
<1>3. TypeOK'
  BY <1>1, <1>2, EmptyTyped, LocalsTyped DEF TypeOK, Places
<1>4. Bundles'
  BY <1>1 DEF Bundles
<1>5. Counts'
  BY <1>1, <1>2 DEF Counts, Early
<1>6. Charged'
  <2>1. Cardinality(Of(results, minted)) \in Nat /\ disk'.stepsUsed \in Nat
        /\ mem.stepsUsed \in Nat /\ requests \in Nat
    BY <1>2, CountNat DEF TypeOK, BundleRecord
  <2> QED
    BY <1>1, <1>2, <2>1, CapsNat DEF Charged
<1>7. Fits(at', mem', loc', results', terminal')
  BY <1>1, IdleFits
<1> QED
  BY <1>1, <1>2, <1>3, <1>4, <1>5, <1>6, <1>7 DEF CInv

\* On with the bundle b in memory and c in the store, at p.
LEMMA MoveKeeps ==
  ASSUME CInv, at # "idle", at # "settling" \/ disk' = mem',
         at' \in Early \cup Working, at' # "settling" ,
         disk' \in BundleRecord, mem' \in BundleRecord, loc' \in Locals,
         UNCHANGED <<results, terminal, served>>,
         at' \in Early => at \in Early,
         Sound(disk', results, minted), Sound(mem', results, minted),
         Same(mem', disk'),
         disk'.stepsUsed = mem.stepsUsed, mem'.stepsUsed = mem.stepsUsed,
         Fits(at', mem', loc', results, terminal)
  PROVE  CInv'
<1>1. /\ results' = results /\ terminal' = terminal /\ minted' = minted
      /\ requests' = requests /\ req' = req
  BY DEF served
<1>2. TypeOK /\ Counts /\ Charged /\ Unique(results, minted)
  BY DEF CInv
<1>3. at' \in Places /\ at' \notin {"idle", "flip"}
  BY PlacesAre
<1>4. TypeOK'
  BY <1>1, <1>2, <1>3 DEF TypeOK
<1>5. Bundles'
  BY <1>1, <1>3 DEF Bundles
<1>6. Counts'
  BY <1>1, <1>2 DEF Counts
<1>7. Charged'
  <2>1. Cardinality(Of(results, minted)) \in Nat /\ disk'.stepsUsed \in Nat
        /\ mem.stepsUsed \in Nat /\ requests \in Nat
    BY <1>2, CountNat DEF TypeOK, BundleRecord
  <2>2. disk'.stepsUsed <= MaxSteps
    BY DEF Sound, Capped
  <2> QED
    BY <1>1, <1>2, <2>1, <2>2, CapsNat DEF Charged
<1> QED
  BY <1>1, <1>2, <1>4, <1>5, <1>6, <1>7 DEF CInv

LEMMA MemIs ==
  ASSUME CInv, at \notin {"idle", "flip"}
  PROVE  /\ mem \in BundleRecord /\ disk \in BundleRecord /\ loc \in Locals
         /\ Sound(mem, results, minted) /\ Sound(disk, results, minted)
         /\ Same(mem, disk) /\ Fits(at, mem, loc, results, terminal)
         /\ mem.stepsUsed <= MaxSteps /\ mem.stepsUsed \in Nat
         /\ mem.inFlight \in StepRecord
         /\ mem.run \in {NoRun} \cup RunIds
         /\ at # "settling" => mem.stepsUsed = disk.stepsUsed
  BY DEF CInv, TypeOK, Bundles, Sound, Capped, Charged, BundleRecord

LEMMA ReturnKeeps ==
  ASSUME CInv, at # "idle", Return
  PROVE  CInv'
<1>1. /\ UNCHANGED <<results, terminal, minted, requests>> /\ disk' = disk /\ Leave
  BY DEF Return, stores
<1>2. disk \in BundleRecord /\ Sound(disk, results, minted)
  BY DEF CInv, TypeOK, Bundles
<1>3. mem.stepsUsed <= disk.stepsUsed + 1
  BY DEF CInv, Charged
<1>4. mem.stepsUsed <= MaxSteps
  <2>1. CASE at = "flip"
    <3>1. EndOf(mem).stepsUsed = mem.stepsUsed
      BY EndTyped DEF CInv, TypeOK
    <3> QED
      BY <2>1, <3>1 DEF CInv, Bundles, Sound, Capped
  <2>2. CASE at # "flip"
    BY <2>2, MemIs
  <2> QED
    BY <2>1, <2>2
<1>5. disk'.stepsUsed + 1 >= mem.stepsUsed
  <2>1. disk.stepsUsed \in Nat /\ mem.stepsUsed \in Nat
    BY DEF CInv, TypeOK, BundleRecord
  <2> QED
    BY <1>1, <1>3, <2>1
<1> QED
  BY <1>1, <1>2, <1>4, <1>5, LeaveKeeps

LEMMA PersistAndReturnKeeps ==
  ASSUME CInv, at \notin {"idle", "flip"}, NEW b \in BundleRecord, PersistAndReturn(b),
         Sound(b, results, minted), b.stepsUsed = mem.stepsUsed
  PROVE  CInv'
<1>1. /\ UNCHANGED <<results, terminal, minted, requests>> /\ disk' = b /\ Leave
  BY DEF PersistAndReturn, stores
<1>2. mem.stepsUsed \in Nat /\ mem.stepsUsed <= MaxSteps
  BY MemIs
<1> QED
  BY <1>1, <1>2, LeaveKeeps

LEMMA SameIsSame ==
  ASSUME NEW b
  PROVE  Same(b, b)
  BY DEF Same

LEMMA PersistKeeps ==
  ASSUME CInv, at \notin {"idle", "flip"}, NEW b \in BundleRecord,
         NEW p \in Working, p # "settling", Persist(b, p), loc' \in Locals,
         Sound(b, results, minted), b.stepsUsed = mem.stepsUsed,
         Fits(p, b, loc', results, terminal)
  PROVE  CInv'
<1>1. /\ UNCHANGED <<results, terminal, served>> /\ disk' = b /\ mem' = b /\ at' = p
  BY DEF Persist, stores
<1>2. Same(mem', disk') /\ at' \notin Early
  BY <1>1, SameIsSame, PlacesAre
<1>3. /\ Sound(disk', results, minted) /\ Sound(mem', results, minted)
      /\ Fits(at', mem', loc', results, terminal)
  BY <1>1
<1> QED
  BY <1>1, <1>2, <1>3, MoveKeeps

LEMMA GotoKeeps ==
  ASSUME CInv, at \notin {"idle", "flip", "settling"}, NEW b \in BundleRecord,
         NEW p \in Early \cup Working, p # "settling", Goto(b, p), loc' \in Locals,
         p \in Early => at \in Early,
         Sound(b, results, minted), Same(b, mem), b.stepsUsed = mem.stepsUsed,
         Fits(p, b, loc', results, terminal)
  PROVE  CInv'
<1>1. /\ UNCHANGED <<results, terminal, served>> /\ disk' = disk /\ mem' = b /\ at' = p
  BY DEF Goto, stores
<1>2. Same(mem', disk')
  BY <1>1, MemIs DEF Same
<1>3. /\ Sound(disk', results, minted) /\ Sound(mem', results, minted)
      /\ Fits(at', mem', loc', results, terminal)
  BY <1>1, MemIs
<1>4. disk' \in BundleRecord /\ disk'.stepsUsed = mem.stepsUsed
  BY <1>1, MemIs
<1> QED
  BY <1>1, <1>2, <1>3, <1>4, MoveKeeps

\* The run is over, for a bundle of the same step: no result of the attempt in flight
\* may be left behind.
LEMMA EndKeeps ==
  ASSUME CInv, at \in Working \ {"settling"}, NEW b \in BundleRecord,
         NEW o \in {"success", "error"}, End(b, o),
         Same(b, mem), b.planned = mem.planned, b.stepsUsed = mem.stepsUsed,
         ~Executing(mem) \/ CommittedIn(mem, results) = {}
  PROVE  CInv'
<1>1. /\ disk' = disk /\ results' = results /\ minted' = minted /\ requests' = requests
      /\ req' = req /\ loc' = loc /\ mem' = b /\ at' = "flip"
      /\ terminal' = [terminal EXCEPT ![b.run] = o]
  BY DEF End, served
<1>2. at \notin {"idle", "flip"}
  BY PlacesAre
<1>3. TypeOK /\ Unique(results, minted) /\ Counts /\ Charged
  BY DEF CInv
<1>4. IsLive(mem) /\ mem.run \in RunIds /\ b.run = mem.run /\ mem.run = minted
  <2>1. IsLive(mem)
    BY <1>2, MemIs DEF Fits
  <2> QED
    BY <1>2, <2>1, MemIs DEF Sound, IsLive, Same
<1>5. TypeOK'
  BY <1>1, <1>3, <1>4 DEF TypeOK, Places
<1>6. Sound(EndOf(b), results, minted)
  BY <1>2, <1>4, MemIs, SoundEnd DEF IsLive
<1>7. Bundles'
  <2>1. Same(b, disk)
    BY <1>2, MemIs DEF Same
  <2> QED
    BY <1>1, <1>2, <1>6, <2>1, MemIs DEF Bundles
<1>8. Counts'
  <2>1. minted \in Nat /\ \A r \in RunIds : r > minted => r # minted
    BY <1>3 DEF TypeOK, RunIds
  <2> QED
    BY <1>1, <1>2, <1>3, <1>4, <2>1 DEF Counts, Early, TypeOK
<1>9. Charged'
  BY <1>1, <1>2, <1>3 DEF Charged
<1>10. Fits(at', mem', loc', results', terminal')
  BY <1>1 DEF Fits, Working
<1> QED
  BY <1>1, <1>3, <1>5, <1>7, <1>8, <1>9, <1>10 DEF CInv

-----------------------------------------------------------------------------
(* Requests.                                                               *)

LEMMA ArriveKeeps ==
  ASSUME CInv, NEW q \in Request, Arrive(q)
  PROVE  CInv'
<1>1. /\ at = "idle" /\ requests < MaxRequests /\ requests' = requests + 1
      /\ at' = "classify" /\ req' = q /\ mem' = disk /\ disk' = disk
      /\ results' = results /\ terminal' = terminal /\ minted' = minted /\ loc' = loc
  BY DEF Arrive, stores
<1>2. TypeOK /\ Unique(results, minted) /\ Counts /\ Charged
      /\ Sound(disk, results, minted)
  BY DEF CInv, Bundles
<1>3. TypeOK'
  BY <1>1, <1>2, CapsNat DEF TypeOK, Places
<1>4. Bundles'
  BY <1>1, <1>2, SameIsSame DEF Bundles
<1>5. Counts'
  BY <1>1, <1>2 DEF Counts, TypeOK
<1>6. Charged'
  <2>1. Cardinality(Of(results, minted)) \in Nat /\ disk.stepsUsed \in Nat
        /\ requests \in Nat
    BY <1>2, CountNat DEF TypeOK, BundleRecord
  <2> QED
    BY <1>1, <1>2, <2>1, CapsNat DEF Charged
<1>7. Fits(at', mem', loc', results', terminal')
  BY <1>1 DEF Fits, Working
<1> QED
  BY <1>1, <1>2, <1>3, <1>4, <1>5, <1>6, <1>7 DEF CInv

LEMMA ClassifyKeeps ==
  ASSUME CInv, Classify
  PROVE  CInv'
<1>1. at = "classify" /\ Goto(mem, Class(req, mem)) /\ loc' = loc
  BY DEF Classify
<1>2. Class(req, mem) \in {"fresh", "replay", "resume", "notFound"}
      /\ (Class(req, mem) = "resume" => IsLive(mem))
  BY DEF Class
<1>3. Fits(Class(req, mem), mem, loc', results, terminal)
  BY <1>2 DEF Fits, Working
<1>4. at \in Early /\ Class(req, mem) \in Early /\ Class(req, mem) # "settling"
  BY <1>1, <1>2 DEF Early
<1>5. at \notin {"idle", "flip", "settling"}
  BY <1>1
<1> QED
  BY <1>1, <1>3, <1>4, <1>5, MemIs, SameIsSame, GotoKeeps

LEMMA ReplayKeeps ==
  ASSUME CInv, Replay \/ Resurface \/ AskAgain
  PROVE  CInv'
  BY ReturnKeeps DEF Replay, Resurface, AskAgain

LEMMA StartRunKeeps ==
  ASSUME CInv, StartRun
  PROVE  CInv'
<1> DEFINE r == minted + 1
           b == FreshBundle(r, req.prompt)
<1>1. /\ at \in {"fresh", "replay"} /\ minted' = r /\ mem' = b /\ disk' = b
      /\ at' = "goal" /\ results' = results /\ terminal' = terminal
      /\ requests' = requests /\ req' = req /\ loc' = loc
  BY DEF StartRun, stores
<1>2. TypeOK /\ Unique(results, minted) /\ Counts
  BY DEF CInv
<1>3. /\ minted \in Nat /\ requests \in Nat /\ requests > 0 /\ r <= requests
      /\ requests <= MaxRequests /\ r \in RunIds /\ r # NoRun
  BY <1>1, <1>2, CapsNat DEF TypeOK, Counts, Early, RunIds, NoRun
<1>4. req.prompt \in Prompts
  BY <1>2 DEF TypeOK, Request
<1>5. /\ b \in BundleRecord /\ b.run = r /\ b.runState = "active"
      /\ b.runPhase = "evaluating" /\ b.pending = "none" /\ b.nextSeq = 0
      /\ b.planCursor = 0 /\ ~b.planned /\ b.inFlight = NoStep /\ b.stepsUsed = 0
      /\ b.evalResumes = 0 /\ b.plannerResumes = 0
  BY <1>3, <1>4, FreshTyped
<1> HIDE DEF b
<1>6. Of(results, r) = {} /\ Unique(results, r)
  <2>1. \A x \in results : x.run \in Nat /\ x.run <= minted
    BY <1>2 DEF TypeOK, Unique, Result, RunIds
  <2> QED
    BY <1>2, <1>3, <2>1 DEF Of, Unique
<1>7. Sound(b, results, r)
  <2>1. Artifacts(b, results)
    BY <1>5, <1>6 DEF Artifacts
  <2>2. Cursors(b) /\ Capped(b)
    BY <1>5, NoStepTyped, CapsNat DEF Cursors, Capped, Executing
  <2> QED
    BY <1>3, <1>5, <2>1, <2>2 DEF Sound
<1>8. TypeOK'
  BY <1>1, <1>2, <1>3, <1>5 DEF TypeOK, Places
<1>9. Bundles'
  BY <1>1, <1>7, SameIsSame DEF Bundles
<1>10. Counts'
  BY <1>1, <1>2, <1>3 DEF Counts, Early, RunIds
<1>11. Charged'
  BY <1>1, <1>3, <1>5, <1>6, FS_EmptySet, CapsNat DEF Charged
<1>12. Fits("goal", b, loc', results, terminal)
  <2>1. terminal[r] = "none"
    BY <1>2, <1>3 DEF Counts
  <2> QED
    BY <1>5, <2>1 DEF Fits, Working, IsLive
<1> QED
  BY <1>1, <1>6, <1>8, <1>9, <1>10, <1>11, <1>12 DEF CInv

LEMMA NotFoundKeeps ==
  ASSUME CInv, NotFound
  PROVE  CInv'
<1> DEFINE b == [mem EXCEPT !.pending = "loop"]
<1>1. at = "notFound" /\ PersistAndReturn(b)
  BY DEF NotFound, Escalate
<1>2. mem \in BundleRecord /\ Sound(mem, results, minted)
  BY <1>1, MemIs
<1>3. b \in BundleRecord
  BY <1>2, Zenon DEF BundleRecord
<1>4. /\ b.run = mem.run /\ b.runState = mem.runState /\ b.runPhase = mem.runPhase
      /\ b.goal = mem.goal /\ b.pending = "loop" /\ b.stepsUsed = mem.stepsUsed
      /\ b.nextSeq = mem.nextSeq /\ b.planned = mem.planned /\ b.plan = mem.plan
      /\ b.planCursor = mem.planCursor /\ b.inFlight = mem.inFlight
      /\ b.evalResumes = mem.evalResumes /\ b.plannerResumes = mem.plannerResumes
  BY <1>2 DEF BundleRecord
<1> HIDE DEF b
<1>5. Sound(b, results, minted)
  BY <1>2, <1>4 DEF Sound, Cursors, Artifacts, Capped, Ran, Executing
<1> QED
  BY <1>1, <1>3, <1>4, <1>5, PersistAndReturnKeeps

LEMMA ResumeFinishedKeeps ==
  ASSUME CInv, ResumeFinished
  PROVE  CInv'
<1> DEFINE b == [mem EXCEPT !.runState = "terminal"]
<1>1. at = "resume" /\ PersistAndReturn(b)
  BY DEF ResumeFinished
<1>2. mem \in BundleRecord /\ Sound(mem, results, minted) /\ IsLive(mem)
  BY <1>1, MemIs DEF Fits
<1>3. b \in BundleRecord
  BY <1>2, Zenon DEF BundleRecord
<1>4. /\ Same(b, mem) /\ b.planned = mem.planned /\ b.goal = mem.goal
      /\ b.inFlight = mem.inFlight /\ b.stepsUsed = mem.stepsUsed
      /\ b.runState = "terminal"
  BY <1>2 DEF BundleRecord, Same
<1> HIDE DEF b
<1>5. Sound(b, results, minted)
  BY <1>2, <1>4, SoundTerminal DEF IsLive
<1> QED
  BY <1>1, <1>3, <1>4, <1>5, PersistAndReturnKeeps

LEMMA ResumeRunKeeps ==
  ASSUME CInv, ResumeRun
  PROVE  CInv'
<1> DEFINE p == IF mem.runState = "active" /\ mem.runPhase = "finalizing"
                THEN "finalize"
                ELSE IF mem.pending = "external" THEN "external"
                ELSE IF mem.pending \in {"goal", "loop"} THEN "clarify"
                ELSE "goal"
<1>1. at = "resume" /\ Goto(mem, p) /\ loc' = loc /\ ~Ended(mem.run)
  BY DEF ResumeRun, Finished
<1>2. /\ mem \in BundleRecord /\ Sound(mem, results, minted) /\ IsLive(mem)
      /\ loc \in Locals /\ mem.pending \in {"none", "external", "goal", "loop"}
  BY <1>1, MemIs DEF Fits, BundleRecord
<1>3. p \in Working /\ p # "settling"
  BY DEF Working
<1>4. Fits(p, mem, loc', results, terminal)
  <2>1. mem.runPhase = "finalizing" => Ran(mem)
    BY <1>2 DEF Sound, IsLive
  <2>2. mem.pending = "external" => Executing(mem)
    BY <1>2 DEF Sound, IsLive
  <2> QED
    BY <1>1, <1>2, <2>1, <2>2 DEF Fits, Working, Ended, Ran
<1> HIDE DEF p
<1> QED
  BY <1>1, <1>2, <1>3, <1>4, PlacesAre, SameIsSame, GotoKeeps

-----------------------------------------------------------------------------
(* The step in flight settles.                                             *)

LEMMA CommittedSame ==
  ASSUME NEW b, NEW c, NEW R, Same(b, c)
  PROVE  CommittedIn(b, R) = CommittedIn(c, R)
  BY DEF CommittedIn, Same

LEMMA CommittedHere ==
  ASSUME NEW b
  PROVE  Committed(b) = CommittedIn(b, results)
  BY DEF Committed, CommittedIn

LEMMA SettleFields ==
  ASSUME NEW b \in BundleRecord, NEW o \in Outcomes
  PROVE  /\ Settle(b, o) \in BundleRecord
         /\ Settle(b, o).run = b.run /\ Settle(b, o).runState = b.runState
         /\ Settle(b, o).pending = b.pending /\ Settle(b, o).goal = b.goal
         /\ Settle(b, o).planned = b.planned /\ Settle(b, o).stepsUsed = b.stepsUsed
         /\ Settle(b, o).evalResumes = b.evalResumes
         /\ Settle(b, o).plannerResumes = b.plannerResumes
         /\ Settle(b, o).runPhase # "finalizing"
         /\ IF o = "failed"
            THEN /\ Settle(b, o).inFlight.phase = "awaiting-replan"
                 /\ Settle(b, o).inFlight.seq = b.inFlight.seq
                 /\ Settle(b, o).inFlight.attempt = b.inFlight.attempt
                 /\ Settle(b, o).inFlight.resumes = b.inFlight.resumes
                 /\ Settle(b, o).inFlight.calls = b.inFlight.calls
                 /\ Settle(b, o).nextSeq = b.nextSeq
                 /\ Settle(b, o).planCursor = b.planCursor
            ELSE /\ Settle(b, o).inFlight = NoStep
                 /\ Settle(b, o).nextSeq = b.nextSeq + 1
                 /\ Settle(b, o).planCursor = b.planCursor + 1
<1>1. /\ b.inFlight \in StepRecord /\ b.nextSeq \in Nat /\ b.planCursor \in Nat
  BY DEF BundleRecord
<1>2. CASE o = "failed"
  <2> DEFINE f == [b.inFlight EXCEPT !.phase = "awaiting-replan"]
             c == [b EXCEPT !.lastOutcome = o, !.runPhase = "executing", !.inFlight = f]
  <2>1. Settle(b, o) = c
    <3>1. Settle(b, o) = [b EXCEPT !.lastOutcome = o, !.runPhase = "executing",
                                   !.inFlight.phase = "awaiting-replan"]
      BY <1>2 DEF Settle
    <3> QED
      BY <3>1 DEF BundleRecord
  <2>2. f \in StepRecord
    BY <1>1, Zenon DEF StepRecord
  <2>3. /\ f.phase = "awaiting-replan" /\ f.seq = b.inFlight.seq
        /\ f.attempt = b.inFlight.attempt /\ f.resumes = b.inFlight.resumes
        /\ f.calls = b.inFlight.calls
    BY <1>1 DEF StepRecord
  <2> HIDE DEF f
  <2>4. c \in BundleRecord
    BY <2>2, Zenon DEF BundleRecord
  <2>5. /\ c.run = b.run /\ c.runState = b.runState /\ c.pending = b.pending
        /\ c.goal = b.goal /\ c.planned = b.planned /\ c.stepsUsed = b.stepsUsed
        /\ c.evalResumes = b.evalResumes /\ c.plannerResumes = b.plannerResumes
        /\ c.runPhase = "executing" /\ c.inFlight = f /\ c.nextSeq = b.nextSeq
        /\ c.planCursor = b.planCursor
    BY DEF BundleRecord
  <2> HIDE DEF c
  <2> QED
    BY <1>2, <2>1, <2>3, <2>4, <2>5
<1>3. CASE o # "failed"
  <2> DEFINE n == b.nextSeq + 1
             k == b.planCursor + 1
             c == [b EXCEPT !.lastOutcome = o, !.runPhase = "planning",
                            !.planCursor = k, !.nextSeq = n, !.inFlight = NoStep]
  <2>1. CursorAfter(b, o) = k
    BY <1>3 DEF CursorAfter, Outcomes
  <2>2. Settle(b, o) = c
    BY <1>3, <2>1 DEF Settle, BundleRecord
  <2>3. n \in Nat /\ k \in Nat
    BY <1>1
  <2> HIDE DEF n, k
  <2>4. c \in BundleRecord
    BY <2>3, NoStepTyped, Zenon DEF BundleRecord
  <2>5. /\ c.run = b.run /\ c.runState = b.runState /\ c.pending = b.pending
        /\ c.goal = b.goal /\ c.planned = b.planned /\ c.stepsUsed = b.stepsUsed
        /\ c.evalResumes = b.evalResumes /\ c.plannerResumes = b.plannerResumes
        /\ c.runPhase = "planning" /\ c.inFlight = NoStep /\ c.nextSeq = n
        /\ c.planCursor = k
    BY DEF BundleRecord
  <2> HIDE DEF c
  <2> QED
    BY <1>3, <2>2, <2>4, <2>5 DEF n, k
<1> QED
  BY <1>2, <1>3

\* The outcome is that of the artifacts of the attempt.
Judges(o, S) ==
  /\ o \in Outcomes /\ S # {}
  /\ o = "failed" => \A x \in S : ~Accepted(x)
  /\ o # "failed" => \E x \in S : Accepted(x)

LEMMA SettleSound ==
  ASSUME NEW b \in BundleRecord, NEW o \in Outcomes, NEW R \in SUBSET Result, NEW m,
         Sound(b, R, m), Executing(b), IsLive(b), b.pending # "external",
         Judges(o, CommittedIn(b, R))
  PROVE  Sound(Settle(b, o), R, m)
<1> DEFINE c == Settle(b, o)
<1>1. /\ c.run = b.run /\ c.runState = b.runState
      /\ c.pending = b.pending /\ c.goal = b.goal
      /\ c.planned = b.planned /\ c.stepsUsed = b.stepsUsed
      /\ c.evalResumes = b.evalResumes
      /\ c.plannerResumes = b.plannerResumes
      /\ c.runPhase # "finalizing"
  BY SettleFields
<1>2. CASE o = "failed"
  <2>1. /\ c.inFlight.phase = "awaiting-replan" /\ c.inFlight.seq = b.inFlight.seq
        /\ c.inFlight.attempt = b.inFlight.attempt
        /\ c.inFlight.resumes = b.inFlight.resumes
        /\ c.inFlight.calls = b.inFlight.calls
        /\ c.nextSeq = b.nextSeq /\ c.planCursor = b.planCursor
    BY <1>2, SettleFields
  <2> HIDE DEF c
  <2>2. Cursors(c) /\ Capped(c)
    BY <1>1, <2>1 DEF Sound, Cursors, Capped, Executing
  <2>3. Artifacts(c, R)
    <3>1. ASSUME NEW x \in Of(R, b.run), x.seq = b.nextSeq, Accepted(x)
          PROVE  FALSE
      <4>1. x.attempt = b.inFlight.attempt /\ b.inFlight.seq = b.nextSeq
        BY <3>1 DEF Sound, Artifacts, Cursors, Executing
      <4>2. x \in CommittedIn(b, R)
        BY <3>1, <4>1 DEF CommittedIn, Of
      <4> QED
        BY <1>2, <3>1, <4>2 DEF Judges
    <3> QED
      BY <1>1, <2>1, <3>1 DEF Sound, Artifacts, Executing
  <2> QED
    BY <1>1, <2>2, <2>3 DEF Sound, c
<1>3. CASE o # "failed"
  <2>1. /\ c.inFlight = NoStep
        /\ c.nextSeq = b.nextSeq + 1 /\ c.planCursor = b.planCursor + 1
    BY <1>3, SettleFields
  <2> HIDE DEF c
  <2>2. b.nextSeq \in Nat /\ \A x \in R : x.seq \in Nat
    BY DEF BundleRecord, Result
  <2>3. Cursors(c) /\ Capped(c)
    BY <1>1, <2>1, NoStepTyped, CapsNat DEF Sound, Cursors, Capped, Executing
  <2>4. Artifacts(c, R)
    <3>1. \A x \in Of(R, b.run) : x.seq <= b.nextSeq /\ x.seq \in Nat
      BY <2>2 DEF Sound, Artifacts, Of
    <3>2. PICK x \in CommittedIn(b, R) : Accepted(x)
      BY <1>3 DEF Judges
    <3>3. x \in Of(R, b.run) /\ x.seq = b.nextSeq
      BY DEF CommittedIn, Of, Sound, Cursors, Executing
    <3>4. ASSUME NEW n \in 0..c.nextSeq - 1
          PROVE  \E y \in Of(R, b.run) : y.seq = n /\ Accepted(y)
      <4>1. n = b.nextSeq \/ n \in 0..b.nextSeq - 1
        BY <2>1, <2>2
      <4> QED
        BY <3>2, <3>3, <4>1 DEF Sound, Artifacts
    <3> QED
      BY <1>1, <2>1, <2>2, <3>1, <3>4 DEF Artifacts
  <2> QED
    BY <1>1, <2>3, <2>4 DEF Sound, c
<1> QED
  BY <1>2, <1>3

LEMMA VerdictJudges ==
  ASSUME NEW S \in SUBSET Result, S # {}
  PROVE  Judges(Verdict(S), S)
  BY DEF Judges, Verdict, Accepted, Outcomes, Result

LEMMA ConsumeResultKeeps ==
  ASSUME CInv, ConsumeResult
  PROVE  CInv'
<1> DEFINE b == [mem EXCEPT !.pending = "none", !.runState = "active"]
<1>1. /\ at = "external"
      /\ IF Committed(mem) # {}
         THEN Persist(Settle(b, Verdict(Committed(mem))), "goal") /\ loc' = loc
         ELSE /\ Persist([b EXCEPT !.inFlight.queued = @ + 1,
                                   !.inFlight.answered = @ + 1], "goal")
              /\ loc' = [loc EXCEPT !.cont = TRUE]
  BY DEF ConsumeResult
<1>2. /\ mem \in BundleRecord /\ Sound(mem, results, minted) /\ IsLive(mem)
      /\ Executing(mem) /\ loc \in Locals
      /\ terminal[mem.run] \notin {"success", "error"}
  BY <1>1, MemIs DEF Fits, Working
<1>3. b \in BundleRecord
  BY <1>2, Zenon DEF BundleRecord
<1>4. /\ b.run = mem.run /\ b.runState = "active" /\ b.runPhase = mem.runPhase
      /\ b.goal = mem.goal /\ b.pending = "none" /\ b.stepsUsed = mem.stepsUsed
      /\ b.nextSeq = mem.nextSeq /\ b.planned = mem.planned /\ b.plan = mem.plan
      /\ b.planCursor = mem.planCursor /\ b.inFlight = mem.inFlight
      /\ b.evalResumes = mem.evalResumes /\ b.plannerResumes = mem.plannerResumes
  BY <1>2 DEF BundleRecord
<1> HIDE DEF b
<1>5. mem.runPhase # "finalizing"
  BY <1>2 DEF Sound, IsLive, Ran
<1>6. Same(b, mem) /\ Executing(b) /\ IsLive(b) /\ Capped(b)
  BY <1>2, <1>4 DEF Same, Executing, IsLive, Sound, Capped
<1>7. Sound(b, results, minted)
  BY <1>2, <1>4, <1>5, <1>6, SoundLike DEF IsLive
<1>8. "goal" \in Working /\ "goal" # "settling"
  BY DEF Working
<1>9. CASE Committed(mem) # {}
  <2> DEFINE o == Verdict(Committed(mem))
             c == Settle(b, o)
  <2>1. Persist(c, "goal") /\ loc' = loc
    BY <1>1, <1>9
  <2>2. Committed(mem) = CommittedIn(b, results) /\ results \in SUBSET Result
    BY <1>6, CommittedSame, CommittedHere DEF CInv, TypeOK
  <2>3. CommittedIn(b, results) \in SUBSET Result
    BY <2>2 DEF CommittedIn
  <2>4. Judges(o, CommittedIn(b, results)) /\ o \in Outcomes
    BY <1>9, <2>2, <2>3, VerdictJudges DEF Judges
  <2> HIDE DEF o
  <2>5. Sound(c, results, minted)
    BY <1>3, <1>4, <1>6, <1>7, <2>2, <2>4, SettleSound
  <2>6. c \in BundleRecord /\ c.run = b.run /\ c.runState = b.runState
        /\ c.pending = b.pending /\ c.stepsUsed = b.stepsUsed
    BY <1>3, <2>4, SettleFields
  <2> HIDE DEF c
  <2>7. Fits("goal", c, loc', results, terminal)
    BY <1>2, <1>4, <2>6 DEF Fits, Working, IsLive
  <2> QED
    BY <1>1, <1>2, <1>4, <1>8, <2>1, <2>5, <2>6, <2>7, PersistKeeps
<1>10. CASE Committed(mem) = {}
  <2> DEFINE f == [b.inFlight EXCEPT !.queued = b.inFlight.queued + 1,
                                     !.answered = b.inFlight.answered + 1]
             c == [b EXCEPT !.inFlight = f]
  <2>1. b.inFlight \in StepRecord
    BY <1>3 DEF BundleRecord
  <2>2. b.inFlight.queued + 1 \in Nat /\ b.inFlight.answered + 1 \in Nat
    BY <2>1 DEF StepRecord
  <2>3. f \in StepRecord
    BY <2>1, <2>2, Zenon DEF StepRecord
  <2>4. /\ f.phase = b.inFlight.phase /\ f.seq = b.inFlight.seq
        /\ f.attempt = b.inFlight.attempt /\ f.resumes = b.inFlight.resumes
        /\ f.calls = b.inFlight.calls
    BY <2>1 DEF StepRecord
  <2>5. Persist(c, "goal") /\ loc' = [loc EXCEPT !.cont = TRUE]
    <3>1. c = [b EXCEPT !.inFlight.queued = @ + 1, !.inFlight.answered = @ + 1]
      BY <1>3, <2>1 DEF BundleRecord, StepRecord
    <3> QED
      BY <1>1, <1>10, <3>1
  <2> HIDE DEF f
  <2>6. c \in BundleRecord
    BY <1>3, <2>3, Zenon DEF BundleRecord
  <2>7. /\ c.run = b.run /\ c.runState = b.runState /\ c.runPhase = b.runPhase
        /\ c.goal = b.goal /\ c.pending = b.pending /\ c.stepsUsed = b.stepsUsed
        /\ c.nextSeq = b.nextSeq /\ c.planned = b.planned
        /\ c.planCursor = b.planCursor /\ c.inFlight = f
        /\ c.evalResumes = b.evalResumes /\ c.plannerResumes = b.plannerResumes
    BY <1>3 DEF BundleRecord
  <2> HIDE DEF c
  <2>8. Same(c, b) /\ Capped(c)
    BY <1>6, <2>4, <2>7 DEF Same, Capped
  <2>9. Sound(c, results, minted)
    BY <1>4, <1>5, <1>7, <2>7, <2>8, SoundLike
  <2>10. loc' \in Locals
    BY <1>2, <2>5, Zenon DEF Locals
  <2>11. Fits("goal", c, loc', results, terminal)
    BY <1>2, <1>4, <2>7 DEF Fits, Working, IsLive
  <2> QED
    BY <1>1, <1>4, <1>8, <2>5, <2>6, <2>7, <2>9, <2>10, <2>11, PersistKeeps
<1> QED
  BY <1>9, <1>10

-----------------------------------------------------------------------------
(* Goals and role calls.                                                   *)

\* The bundles b and c are of the same attempt of the same step.
Alike(c, b) ==
  /\ c.run = b.run /\ c.nextSeq = b.nextSeq /\ c.planCursor = b.planCursor
  /\ c.planned = b.planned /\ c.plan = b.plan /\ c.inFlight = b.inFlight
  /\ c.stepsUsed = b.stepsUsed

\* A live bundle with the same step: what may change is its goal, phase, marker and
\* the resumes charged.
LEMMA SoundAlike ==
  ASSUME NEW b, NEW c, NEW R, NEW m, Sound(b, R, m), IsLive(b), Alike(c, b), IsLive(c),
         b.goal => c.goal,
         c.runPhase \in {b.runPhase, "evaluating", "planning"} \/ Ran(b),
         c.pending # "external",
         c.evalResumes <= MaxEvalResumes, c.plannerResumes <= MaxPlannerResumes
  PROVE  Sound(c, R, m) /\ Same(c, b)
<1>1. Same(c, b)
  BY DEF Alike, Same
<1>2. Capped(c)
  BY DEF Sound, Capped, Alike
<1>3. Ran(b) => Ran(c)
  BY DEF Ran, Alike, Executing
<1> QED
  BY <1>1, <1>2, <1>3, SoundLike DEF Sound, IsLive, Alike

\* What is known at the places where a request is served.
LEMMA WorkingIs ==
  ASSUME CInv, at \in Working
  PROVE  /\ mem \in BundleRecord /\ loc \in Locals /\ results \in SUBSET Result
         /\ Sound(mem, results, minted) /\ IsLive(mem)
         /\ Fits(at, mem, loc, results, terminal)
         /\ mem.run \in RunIds /\ terminal[mem.run] \notin {"success", "error"}
         /\ mem.evalResumes <= MaxEvalResumes /\ mem.plannerResumes <= MaxPlannerResumes
         /\ mem.evalResumes \in Nat /\ mem.plannerResumes \in Nat
         /\ at \notin {"idle", "flip"}
<1>1. at \notin {"idle", "flip"}
  BY PlacesAre
<1>2. /\ mem \in BundleRecord /\ loc \in Locals /\ results \in SUBSET Result
      /\ Sound(mem, results, minted)
      /\ Fits(at, mem, loc, results, terminal)
  BY <1>1, MemIs DEF CInv, TypeOK
<1>3. IsLive(mem) /\ terminal[mem.run] \notin {"success", "error"}
  BY <1>2 DEF Fits
<1>4. mem.run \in RunIds
  BY <1>2, <1>3 DEF Sound, IsLive, BundleRecord
<1>5. /\ mem.evalResumes <= MaxEvalResumes /\ mem.plannerResumes <= MaxPlannerResumes
      /\ mem.evalResumes \in Nat /\ mem.plannerResumes \in Nat
  BY <1>2, <1>3 DEF Sound, Capped, IsLive, BundleRecord
<1> QED
  BY <1>1, <1>2, <1>3, <1>4, <1>5

LEMMA ConsumeAnswerKeeps ==
  ASSUME CInv, ConsumeAnswer
  PROVE  CInv'
<1>1. at = "clarify" /\ loc' = loc /\ at \in Working /\ "goal" \in Working
  BY DEF ConsumeAnswer, Working
<1>2. /\ mem \in BundleRecord /\ Sound(mem, results, minted) /\ IsLive(mem)
      /\ loc \in Locals /\ terminal[mem.run] \notin {"success", "error"}
      /\ mem.evalResumes <= MaxEvalResumes /\ mem.plannerResumes <= MaxPlannerResumes
  BY <1>1, WorkingIs
<1>3. PICK c \in {[mem EXCEPT !.pending = "none"],
                  [mem EXCEPT !.pending = "none", !.goal = TRUE, !.runState = "active",
                              !.runPhase = "planning"]} : Persist(c, "goal")
  <2>1. [[mem EXCEPT !.pending = "none"] EXCEPT !.goal = TRUE, !.runState = "active",
                                                !.runPhase = "planning"]
          = [mem EXCEPT !.pending = "none", !.goal = TRUE, !.runState = "active",
                        !.runPhase = "planning"]
    BY <1>2 DEF BundleRecord
  <2> QED
    BY <2>1 DEF ConsumeAnswer
<1>4. c \in BundleRecord
  <2>1. [mem EXCEPT !.pending = "none"] \in BundleRecord
    BY <1>2, Zenon DEF BundleRecord
  <2>2. [mem EXCEPT !.pending = "none", !.goal = TRUE, !.runState = "active",
                    !.runPhase = "planning"] \in BundleRecord
    BY <1>2, Zenon DEF BundleRecord
  <2> QED
    BY <2>1, <2>2
<1>5. /\ Alike(c, mem) /\ c.pending = "none" /\ (mem.goal => c.goal)
      /\ c.runState \in {mem.runState, "active"}
      /\ c.runPhase \in {mem.runPhase, "planning"}
      /\ c.evalResumes = mem.evalResumes /\ c.plannerResumes = mem.plannerResumes
  BY <1>2 DEF BundleRecord, Alike
<1>6. IsLive(c)
  BY <1>2, <1>5 DEF IsLive
<1>7. Sound(c, results, minted) /\ Same(c, mem)
  BY <1>2, <1>5, <1>6, SoundAlike
<1>8. Fits("goal", c, loc', results, terminal)
  BY <1>2, <1>5, <1>6 DEF Fits, Working, Alike
<1> QED
  BY <1>1, <1>2, <1>3, <1>4, <1>5, <1>7, <1>8, PersistKeeps DEF Alike

LEMMA GoalKnownKeeps ==
  ASSUME CInv, GoalKnown
  PROVE  CInv'
<1>1. /\ at = "goal" /\ mem.goal /\ Goto(mem, "loop") /\ loc' = loc
      /\ at \in Working /\ "loop" \in Working
  BY DEF GoalKnown, Working
<1>2. /\ mem \in BundleRecord /\ Sound(mem, results, minted) /\ IsLive(mem)
      /\ loc \in Locals /\ terminal[mem.run] \notin {"success", "error"}
      /\ Fits(at, mem, loc, results, terminal)
  BY <1>1, WorkingIs
<1>3. Fits("loop", mem, loc', results, terminal)
  BY <1>1, <1>2 DEF Fits, Working
<1> QED
  BY <1>1, <1>2, <1>3, SameIsSame, PlacesAre, GotoKeeps

LEMMA AskEvaluatorKeeps ==
  ASSUME CInv, AskEvaluator
  PROVE  CInv'
<1> DEFINE n == IF mem.evalCall THEN mem.evalResumes + 1 ELSE mem.evalResumes
           b == [mem EXCEPT !.evalResumes = n]
           c == [mem EXCEPT !.evalResumes = n, !.evalCall = TRUE,
                            !.runPhase = "evaluating"]
<1>1. /\ at = "goal" /\ ~mem.goal
      /\ IF n > MaxEvalResumes THEN Abort(b)
         ELSE Persist(c, "evaluating") /\ loc' = loc
      /\ at \in Working \ {"settling"} /\ "evaluating" \in Working
  BY DEF AskEvaluator, Working
<1>2. /\ mem \in BundleRecord /\ Sound(mem, results, minted) /\ IsLive(mem)
      /\ loc \in Locals /\ terminal[mem.run] \notin {"success", "error"}
      /\ Fits(at, mem, loc, results, terminal)
      /\ mem.plannerResumes <= MaxPlannerResumes /\ mem.evalResumes \in Nat
      /\ at \notin {"idle", "flip"}
  BY <1>1, WorkingIs
<1>3. n \in Nat
  BY <1>2
<1> HIDE DEF n
<1>4. b \in BundleRecord /\ c \in BundleRecord
  BY <1>2, <1>3, Zenon DEF BundleRecord
<1>5. /\ Alike(b, mem) /\ Alike(c, mem) /\ c.runPhase = "evaluating"
      /\ c.pending = mem.pending /\ c.goal = mem.goal /\ c.runState = mem.runState
      /\ c.evalResumes = n /\ c.plannerResumes = mem.plannerResumes
  BY <1>2 DEF BundleRecord, Alike
<1> HIDE DEF b, c
<1>6. CASE n > MaxEvalResumes
  <2>1. ~Executing(mem)
    BY <1>1, <1>2 DEF Sound, Cursors
  <2>2. Same(b, mem) /\ b.planned = mem.planned /\ b.stepsUsed = mem.stepsUsed
    BY <1>5 DEF Alike, Same
  <2> QED
    BY <1>1, <1>4, <1>6, <2>1, <2>2, EndKeeps DEF Abort
<1>7. CASE ~(n > MaxEvalResumes)
  <2>1. n <= MaxEvalResumes
    BY <1>3, <1>7, CapsNat
  <2>2. IsLive(c) /\ c.pending # "external"
    BY <1>1, <1>2, <1>5 DEF IsLive, Fits, Working
  <2>3. Sound(c, results, minted)
    BY <1>2, <1>5, <2>1, <2>2, SoundAlike
  <2>4. Fits("evaluating", c, loc', results, terminal)
    BY <1>2, <1>5, <2>2 DEF Fits, Working, Alike
  <2> QED
    BY <1>1, <1>2, <1>4, <1>5, <1>7, <2>3, <2>4, PersistKeeps DEF Alike
<1> QED
  BY <1>6, <1>7

LEMMA EvaluatedIs ==
  ASSUME CInv, at = "evaluating"
  PROVE  /\ Evaluated \in BundleRecord /\ Alike(Evaluated, mem)
         /\ Evaluated.goal = mem.goal /\ Evaluated.runState = mem.runState
         /\ Evaluated.runPhase = mem.runPhase /\ Evaluated.pending = mem.pending
         /\ Evaluated.evalResumes = 0 /\ Evaluated.plannerResumes = mem.plannerResumes
         /\ at \in Working /\ mem.pending # "external"
<1>1. at \in Working
  BY DEF Working
<1>2. mem \in BundleRecord /\ mem.pending # "external"
  BY <1>1, WorkingIs DEF Fits
<1>3. Evaluated \in BundleRecord
  BY <1>2, Zenon DEF Evaluated, BundleRecord
<1> QED
  BY <1>1, <1>2, <1>3 DEF Evaluated, BundleRecord, Alike

LEMMA GoalNeedsConfirmationKeeps ==
  ASSUME CInv, GoalNeedsConfirmation
  PROVE  CInv'
<1> DEFINE e == Evaluated
           c == [e EXCEPT !.pending = "goal", !.runState = "suspended"]
<1>1. at = "evaluating" /\ PersistAndReturn(c)
  BY DEF GoalNeedsConfirmation
<1>2. /\ e \in BundleRecord /\ Alike(e, mem) /\ e.goal = mem.goal
      /\ e.runPhase = mem.runPhase /\ e.evalResumes = 0
      /\ e.plannerResumes = mem.plannerResumes /\ at \in Working
  BY <1>1, EvaluatedIs
<1> HIDE DEF e
<1>3. c \in BundleRecord
  BY <1>2, Zenon DEF BundleRecord
<1>4. /\ Alike(c, e) /\ c.goal = e.goal /\ c.runPhase = e.runPhase /\ c.evalResumes = 0
      /\ c.plannerResumes = e.plannerResumes /\ c.pending = "goal"
      /\ c.runState = "suspended"
  BY <1>2 DEF BundleRecord, Alike
<1> HIDE DEF c
<1>5. Alike(c, mem) /\ IsLive(c)
  BY <1>2, <1>4 DEF Alike, IsLive
<1>6. Sound(c, results, minted)
  BY <1>2, <1>4, <1>5, WorkingIs, SoundAlike, CapsNat
<1> QED
  BY <1>1, <1>3, <1>5, <1>6, PersistAndReturnKeeps DEF Alike

LEMMA GoalEstablishedKeeps ==
  ASSUME CInv, GoalEstablished
  PROVE  CInv'
<1> DEFINE e == Evaluated
           c == [e EXCEPT !.goal = TRUE]
<1>1. at = "evaluating" /\ Goto(c, "loop") /\ loc' = loc /\ "loop" \in Working
  BY DEF GoalEstablished, Working
<1>2. /\ e \in BundleRecord /\ Alike(e, mem) /\ e.pending = mem.pending
      /\ e.runPhase = mem.runPhase /\ e.runState = mem.runState /\ e.evalResumes = 0
      /\ e.plannerResumes = mem.plannerResumes /\ at \in Working
      /\ mem.pending # "external"
  BY <1>1, EvaluatedIs
<1> HIDE DEF e
<1>3. c \in BundleRecord
  BY <1>2, Zenon DEF BundleRecord
<1>4. /\ Alike(c, e) /\ c.goal /\ c.runPhase = e.runPhase /\ c.evalResumes = 0
      /\ c.plannerResumes = e.plannerResumes /\ c.pending = e.pending
      /\ c.runState = e.runState
  BY <1>2 DEF BundleRecord, Alike
<1> HIDE DEF c
<1>5. Alike(c, mem) /\ IsLive(c)
  BY <1>2, <1>4, WorkingIs DEF Alike, IsLive
<1>6. Sound(c, results, minted) /\ Same(c, mem)
  BY <1>2, <1>4, <1>5, WorkingIs, SoundAlike, CapsNat
<1>7. Fits("loop", c, loc', results, terminal)
  BY <1>2, <1>4, <1>5, WorkingIs DEF Fits, Working, Alike
<1>8. at \notin {"idle", "flip", "settling"} /\ loc' \in Locals
  BY <1>1, <1>2, WorkingIs
<1> QED
  BY <1>1, <1>3, <1>5, <1>6, <1>7, <1>8, PlacesAre, GotoKeeps DEF Alike

-----------------------------------------------------------------------------
(* The main loop.                                                          *)

\* A question for the client: nothing but the marker changes.
LEMMA EscalateKeeps ==
  ASSUME CInv, at \in Working, NEW b \in BundleRecord, Escalate(b), Alike(b, mem),
         b.goal = mem.goal, b.runState = mem.runState, b.runPhase = mem.runPhase,
         b.evalResumes = mem.evalResumes, b.plannerResumes = mem.plannerResumes
  PROVE  CInv'
<1> DEFINE c == [b EXCEPT !.pending = "loop"]
<1>1. PersistAndReturn(c)
  BY DEF Escalate
<1>2. c \in BundleRecord
  BY Zenon DEF BundleRecord
<1>3. /\ Alike(c, b) /\ c.goal = b.goal /\ c.runState = b.runState
      /\ c.runPhase = b.runPhase /\ c.pending = "loop"
      /\ c.evalResumes = b.evalResumes /\ c.plannerResumes = b.plannerResumes
  BY DEF BundleRecord, Alike
<1> HIDE DEF c
<1>4. Alike(c, mem) /\ IsLive(c) /\ IsLive(mem) /\ Sound(mem, results, minted)
  BY <1>3, WorkingIs DEF Alike, IsLive
<1>5. Sound(c, results, minted)
  BY <1>3, <1>4, WorkingIs, SoundAlike
<1> QED
  BY <1>1, <1>2, <1>4, <1>5, WorkingIs, PersistAndReturnKeeps DEF Alike

LEMMA AlikeSelf ==
  ASSUME NEW b
  PROVE  Alike(b, b)
  BY DEF Alike

LEMMA OutOfStepsKeeps ==
  ASSUME CInv, OutOfSteps
  PROVE  CInv'
<1>1. at = "loop" /\ Escalate(mem) /\ at \in Working
  BY DEF OutOfSteps, Working
<1> QED
  BY <1>1, WorkingIs, AlikeSelf, EscalateKeeps

LEMMA AdoptResultKeeps ==
  ASSUME CInv, AdoptResult
  PROVE  CInv'
<1> DEFINE o == Verdict(Committed(mem))
           c == Settle(mem, o)
<1>1. /\ at = "loop" /\ Executing(mem) /\ Committed(mem) # {} /\ Persist(c, "loop")
      /\ loc' = loc /\ at \in Working /\ "loop" # "settling"
  BY DEF AdoptResult, Working
<1>2. /\ mem \in BundleRecord /\ Sound(mem, results, minted) /\ IsLive(mem)
      /\ loc \in Locals /\ terminal[mem.run] \notin {"success", "error"}
      /\ mem.pending # "external" /\ mem.goal /\ results \in SUBSET Result
  BY <1>1, WorkingIs DEF Fits
<1>3. Committed(mem) = CommittedIn(mem, results) /\ Committed(mem) \in SUBSET Result
  BY <1>2, CommittedHere DEF CommittedIn
<1>4. Judges(o, CommittedIn(mem, results)) /\ o \in Outcomes
  BY <1>1, <1>3, VerdictJudges DEF Judges
<1> HIDE DEF o
<1>5. Sound(c, results, minted)
  BY <1>1, <1>2, <1>4, SettleSound
<1>6. /\ c \in BundleRecord /\ c.run = mem.run /\ c.runState = mem.runState
      /\ c.pending = mem.pending /\ c.stepsUsed = mem.stepsUsed /\ c.goal = mem.goal
  BY <1>2, <1>4, SettleFields
<1> HIDE DEF c
<1>7. Fits("loop", c, loc', results, terminal)
  BY <1>2, <1>6 DEF Fits, Working, IsLive
<1> QED
  BY <1>1, <1>2, <1>5, <1>6, <1>7, WorkingIs, PersistKeeps

LEMMA ResumeWaitKeeps ==
  ASSUME CInv, ResumeWait
  PROVE  CInv'
<1>1. /\ at = "loop" /\ StepsLeft(mem) /\ Executing(mem) /\ Committed(mem) = {}
      /\ Goto(mem, "wait") /\ loc' = loc /\ at \in Working /\ "wait" \in Working
  BY DEF ResumeWait, Working
<1>2. /\ mem \in BundleRecord /\ Sound(mem, results, minted) /\ IsLive(mem)
      /\ loc \in Locals /\ Fits(at, mem, loc, results, terminal)
      /\ CommittedIn(mem, results) = {}
  BY <1>1, WorkingIs, CommittedHere
<1>3. Fits("wait", mem, loc', results, terminal)
  BY <1>1, <1>2 DEF Fits, Working
<1> QED
  BY <1>1, <1>2, <1>3, SameIsSame, PlacesAre, GotoKeeps

\* The bundle with another record of the attempt in flight.
WithStep(b, f) == [b EXCEPT !.inFlight = f]

LEMMA WithStepIs ==
  ASSUME NEW b \in BundleRecord, NEW f \in StepRecord
  PROVE  /\ WithStep(b, f) \in BundleRecord
         /\ WithStep(b, f).run = b.run /\ WithStep(b, f).runState = b.runState
         /\ WithStep(b, f).runPhase = b.runPhase /\ WithStep(b, f).goal = b.goal
         /\ WithStep(b, f).pending = b.pending
         /\ WithStep(b, f).stepsUsed = b.stepsUsed
         /\ WithStep(b, f).nextSeq = b.nextSeq /\ WithStep(b, f).plan = b.plan
         /\ WithStep(b, f).planned = b.planned
         /\ WithStep(b, f).planCursor = b.planCursor
         /\ WithStep(b, f).evalResumes = b.evalResumes
         /\ WithStep(b, f).plannerResumes = b.plannerResumes
         /\ WithStep(b, f).inFlight = f
<1>1. WithStep(b, f) \in BundleRecord
  BY Zenon DEF WithStep, BundleRecord
<1> QED
  BY <1>1 DEF WithStep, BundleRecord

\* The same attempt, with other counters.
SameAttempt(f, g) ==
  f.phase = g.phase /\ f.seq = g.seq /\ f.attempt = g.attempt

LEMMA WithStepSound ==
  ASSUME NEW b \in BundleRecord, NEW f \in StepRecord, NEW R, NEW m, Sound(b, R, m),
         IsLive(b), SameAttempt(f, b.inFlight),
         f.resumes <= MaxStepResumes, f.calls <= MaxToolCalls
  PROVE  /\ Sound(WithStep(b, f), R, m) /\ Same(WithStep(b, f), b)
         /\ IsLive(WithStep(b, f)) /\ (Executing(b) <=> Executing(WithStep(b, f)))
         /\ CommittedIn(WithStep(b, f), R) = CommittedIn(b, R)
         /\ (StepsLeft(b) <=> StepsLeft(WithStep(b, f)))
<1> DEFINE c == WithStep(b, f)
<1>1. /\ c.run = b.run /\ c.runState = b.runState /\ c.runPhase = b.runPhase
      /\ c.goal = b.goal /\ c.pending = b.pending /\ c.stepsUsed = b.stepsUsed
      /\ c.nextSeq = b.nextSeq /\ c.plan = b.plan /\ c.planned = b.planned
      /\ c.planCursor = b.planCursor /\ c.evalResumes = b.evalResumes
      /\ c.plannerResumes = b.plannerResumes /\ c.inFlight = f
  BY WithStepIs
<1> HIDE DEF c
<1>2. Same(c, b) /\ IsLive(c) /\ (Executing(b) <=> Executing(c))
      /\ (StepsLeft(b) <=> StepsLeft(c))
  BY <1>1 DEF Same, SameAttempt, IsLive, Executing, StepsLeft
<1>3. Capped(c)
  BY <1>1 DEF Sound, Capped
<1>4. Ran(b) => Ran(c)
  BY <1>1, <1>2 DEF Ran
<1>5. Sound(c, R, m)
  BY <1>1, <1>2, <1>3, <1>4, SoundLike DEF IsLive, Sound
<1> QED
  BY <1>2, <1>5, CommittedSame DEF c

LEMMA StepLocalsTyped ==
  ASSUME NEW b \in BundleRecord, loc \in Locals
  PROVE  StepLocals(b) \in Locals
<1> DEFINE n == b.inFlight.saved + b.inFlight.queued
<1>1. n \in Nat
  BY DEF BundleRecord, StepRecord
<1>2. StepLocals(b) = [loc EXCEPT !.retries = 0, !.cont = FALSE, !.rounds = n]
  BY DEF StepLocals
<1>3. 0 \in Nat /\ FALSE \in BOOLEAN
  OBVIOUS
<1> HIDE DEF n
<1> QED
  BY <1>1, <1>2, <1>3, Zenon DEF Locals

LEMMA ResumeStepKeeps ==
  ASSUME CInv, ResumeStep
  PROVE  CInv'
<1> DEFINE n == mem.inFlight.resumes + (IF loc.cont THEN 0 ELSE 1)
           f == [mem.inFlight EXCEPT !.resumes = n]
           b == WithStep(mem, f)
           k == IF SharesRounds THEN f.saved + f.queued ELSE f.saved
           g == [f EXCEPT !.queued = 0, !.saved = k]
           c == WithStep(b, g)
<1>1. at = "loop" /\ at \in Working \ {"settling"} /\ "step" \in Working
  BY DEF ResumeStep, Working
<1>2. /\ mem \in BundleRecord /\ Sound(mem, results, minted) /\ IsLive(mem)
      /\ loc \in Locals /\ Fits(at, mem, loc, results, terminal)
      /\ mem.inFlight \in StepRecord /\ mem.stepsUsed = disk.stepsUsed
      /\ mem.inFlight.calls <= MaxToolCalls
      /\ mem.inFlight.resumes <= MaxStepResumes
  BY <1>1, WorkingIs, MemIs DEF Sound, Capped
<1>3. n \in Nat /\ (loc.cont => n = mem.inFlight.resumes)
  BY <1>2 DEF StepRecord
<1>4. /\ StepsLeft(mem) /\ Executing(mem) /\ CommittedIn(mem, results) = {}
      /\ IF ~loc.cont /\ ResumesSpent(n) THEN Abort(b) ELSE BeginStep(b)
  <2>1. b = [mem EXCEPT !.inFlight.resumes = n]
    BY <1>2 DEF BundleRecord, WithStep
  <2> HIDE DEF b, n
  <2> QED
    BY <2>1, CommittedHere DEF ResumeStep, n
<1> HIDE DEF n
<1>5. f \in StepRecord
  BY <1>2, <1>3, Zenon DEF StepRecord
<1>6. SameAttempt(f, mem.inFlight) /\ f.resumes = n /\ f.calls = mem.inFlight.calls
  BY <1>2 DEF StepRecord, SameAttempt
<1>7. g \in StepRecord
  <2> HIDE DEF f
  <2>1. k \in Nat /\ 0 \in Nat
    BY <1>5, ControllerAssumption DEF StepRecord
  <2> HIDE DEF k
  <2> QED
    BY <1>5, <2>1, Zenon DEF StepRecord
<1>8. SameAttempt(g, f) /\ g.resumes = n /\ g.calls = f.calls
  <2> HIDE DEF f, k
  <2> QED
    BY <1>5, <1>6 DEF StepRecord, SameAttempt
<1> HIDE DEF f, g, k
<1>9. /\ b \in BundleRecord /\ b.stepsUsed = mem.stepsUsed /\ b.planned = mem.planned
      /\ b.run = mem.run /\ b.pending = mem.pending /\ b.goal = mem.goal
      /\ b.runState = mem.runState /\ b.inFlight = f /\ Same(b, mem)
  BY <1>2, <1>5, <1>6, WithStepIs DEF Same, SameAttempt
<1>10. CASE ~loc.cont /\ ResumesSpent(n)
  BY <1>1, <1>4, <1>9, <1>10, EndKeeps DEF Abort
<1>11. CASE ~(~loc.cont /\ ResumesSpent(n))
  <2>1. n <= MaxStepResumes
    BY <1>2, <1>3, <1>11, CapsNat DEF ResumesSpent
  <2>2. /\ Sound(b, results, minted) /\ IsLive(b) /\ Executing(b)
        /\ CommittedIn(b, results) = {} /\ StepsLeft(b)
    BY <1>2, <1>4, <1>5, <1>6, <2>1, WithStepSound
  <2>3. Unqueued(b) = c
    <3>1. b.inFlight \in StepRecord
      BY <1>5, <1>9
    <3> HIDE DEF b
    <3> QED
      BY <1>9, <3>1 DEF Unqueued, BundleRecord, WithStep, g, k
  <2>4. /\ disk' = b /\ mem' = c /\ at' = "step" /\ loc' = StepLocals(b)
        /\ UNCHANGED <<results, terminal, served>>
    BY <1>4, <1>11, <2>3 DEF BeginStep, stores
  <2> HIDE DEF b
  <2>5. /\ Sound(c, results, minted) /\ Same(c, b) /\ IsLive(c) /\ Executing(c)
        /\ CommittedIn(c, results) = {} /\ StepsLeft(c)
    BY <1>2, <1>6, <1>7, <1>8, <1>9, <2>1, <2>2, WithStepSound
  <2>6. /\ c \in BundleRecord /\ c.stepsUsed = b.stepsUsed /\ c.run = b.run
        /\ c.pending = b.pending /\ c.goal = b.goal
    BY <1>7, <1>9, WithStepIs
  <2> HIDE DEF c
  <2>7. loc' \in Locals
    BY <1>2, <1>9, <2>4, StepLocalsTyped
  <2>8. Fits("step", c, loc', results, terminal)
    BY <1>1, <1>2, <1>9, <2>5, <2>6 DEF Fits, Working
  <2> QED
    BY <1>1, <1>2, <1>9, <2>2, <2>4, <2>5, <2>6, <2>7, <2>8, PlacesAre, MoveKeeps
<1> QED
  BY <1>10, <1>11

\* The planner is asked, or given up, between two steps.
LEMMA AskPlannerKeeps ==
  ASSUME CInv, AskPlanner
  PROVE  CInv'
<1> DEFINE n == IF mem.plannerCall THEN mem.plannerResumes + 1 ELSE mem.plannerResumes
           b == [mem EXCEPT !.plannerResumes = n]
           c == [mem EXCEPT !.plannerResumes = n, !.plannerCall = TRUE,
                            !.runPhase = "planning"]
<1>1. /\ at = "loop" /\ StepsLeft(mem) /\ ~Executing(mem)
      /\ IF n > MaxPlannerResumes THEN Abort(b)
         ELSE Persist(c, "planning") /\ loc' = loc
      /\ at \in Working \ {"settling"} /\ "planning" \in Working
  BY DEF AskPlanner, Working
<1>2. /\ mem \in BundleRecord /\ Sound(mem, results, minted) /\ IsLive(mem)
      /\ loc \in Locals /\ terminal[mem.run] \notin {"success", "error"}
      /\ Fits(at, mem, loc, results, terminal)
      /\ mem.evalResumes <= MaxEvalResumes /\ mem.plannerResumes \in Nat
      /\ at \notin {"idle", "flip"}
  BY <1>1, WorkingIs
<1>3. n \in Nat
  BY <1>2
<1> HIDE DEF n
<1>4. b \in BundleRecord /\ c \in BundleRecord
  BY <1>2, <1>3, Zenon DEF BundleRecord
<1>5. /\ Alike(b, mem) /\ Alike(c, mem) /\ c.runPhase = "planning"
      /\ c.pending = mem.pending /\ c.goal = mem.goal /\ c.runState = mem.runState
      /\ c.plannerResumes = n /\ c.evalResumes = mem.evalResumes
  BY <1>2 DEF BundleRecord, Alike
<1> HIDE DEF b, c
<1>6. CASE n > MaxPlannerResumes
  <2>1. Same(b, mem) /\ b.planned = mem.planned /\ b.stepsUsed = mem.stepsUsed
    BY <1>5 DEF Alike, Same
  <2> QED
    BY <1>1, <1>4, <1>6, <2>1, EndKeeps DEF Abort
<1>7. CASE ~(n > MaxPlannerResumes)
  <2>1. n <= MaxPlannerResumes
    BY <1>3, <1>7, CapsNat
  <2>2. IsLive(c) /\ c.pending # "external" /\ c.goal
    BY <1>1, <1>2, <1>5 DEF IsLive, Fits, Working
  <2>3. Sound(c, results, minted)
    BY <1>2, <1>5, <2>1, <2>2, SoundAlike
  <2>4. ~Executing(c) /\ StepsLeft(c)
    BY <1>1, <1>5 DEF Alike, Executing, StepsLeft
  <2>5. Fits("planning", c, loc', results, terminal)
    BY <1>2, <1>5, <2>2, <2>4 DEF Fits, Working, Alike
  <2> QED
    BY <1>1, <1>2, <1>4, <1>5, <1>7, <2>3, <2>5, PersistKeeps DEF Alike
<1> QED
  BY <1>6, <1>7

\* The run ends in an error where no result of an attempt can be left behind.
LEMMA AbortKeeps ==
  ASSUME CInv, at \in Working \ {"settling"}, Abort(mem),
         ~Executing(mem) \/ CommittedIn(mem, results) = {}
  PROVE  CInv'
  BY WorkingIs, SameIsSame, EndKeeps DEF Abort

LEMMA BoardOverBudgetKeeps ==
  ASSUME CInv, BoardOverBudget
  PROVE  CInv'
<1>1. at = "planning" /\ at \in Working \ {"settling"} /\ Abort(mem)
  BY DEF BoardOverBudget, Working
<1>2. ~Executing(mem)
  BY <1>1, WorkingIs DEF Fits
<1> QED
  BY <1>1, <1>2, AbortKeeps

Decisions == {"malformed", "error", "done", "rewind", "next"}

\* A decision of the planner leaves the run where it is; the end of the plan is told
\* when its cursor is there.
LEMMA RepliesAre ==
  ASSUME NEW b \in BundleRecord, b.planned \/ b.planCursor = 0, NEW x \in Replies(b)
  PROVE  /\ x.b \in BundleRecord
         /\ x.b.run = b.run /\ x.b.runState = b.runState /\ x.b.runPhase = b.runPhase
         /\ x.b.goal = b.goal /\ x.b.pending = b.pending
         /\ x.b.stepsUsed = b.stepsUsed /\ x.b.nextSeq = b.nextSeq
         /\ x.b.inFlight = b.inFlight /\ x.b.evalResumes = b.evalResumes
         /\ x.b.plannerResumes = b.plannerResumes
         /\ x.b.planCursor = b.planCursor /\ (b.planned => x.b.planned)
         /\ x.n \in Decisions
         /\ x.n \in {"done", "next"} => x.b.planned
         /\ x.n = "done" => x.b.planCursor >= x.b.plan
<1> DEFINE With(c) == {[b |-> c, n |-> n] : n \in AtCursor(c)}
           Plain(n) == [b |-> b, n |-> n]
           Create(k) == [b EXCEPT !.planned = TRUE, !.plan = k, !.planCursor = 0]
           Replan(k) == [b EXCEPT !.plan = b.planCursor + k, !.lastOutcome = "none"]
<1>1. ASSUME NEW c, NEW y \in With(c)
      PROVE  /\ y.b = c /\ y.n \in {"done", "malformed", "next"}
             /\ y.n = "done" => c.planCursor >= c.plan
  BY <1>1 DEF AtCursor, AtEnd
<1>2. b.planCursor \in Nat /\ 0 \in Nat /\ TRUE \in BOOLEAN
  BY DEF BundleRecord
<1>3. CASE ~b.planned
  <2>1. x \in {Plain("malformed"), Plain("error")}
          \/ \E k \in 1..MaxPlan : x \in With(Create(k))
    BY <1>3 DEF Replies
  <2>2. CASE x \in {Plain("malformed"), Plain("error")}
    BY <1>3, <2>2 DEF Decisions
  <2>3. CASE \E k \in 1..MaxPlan : x \in With(Create(k))
    <3>1. PICK k \in 1..MaxPlan : x \in With(Create(k))
      BY <2>3
    <3>2. k \in Nat
      BY <3>1, CapsNat
    <3>3. Create(k) \in BundleRecord
      BY <1>2, <3>2, Zenon DEF BundleRecord
    <3> DEFINE c == Create(k)
    <3>4. /\ c.run = b.run /\ c.runState = b.runState /\ c.runPhase = b.runPhase
          /\ c.goal = b.goal /\ c.pending = b.pending
          /\ c.stepsUsed = b.stepsUsed /\ c.nextSeq = b.nextSeq
          /\ c.inFlight = b.inFlight /\ c.evalResumes = b.evalResumes
          /\ c.plannerResumes = b.plannerResumes /\ c.planCursor = 0 /\ c.planned
      BY DEF BundleRecord
    <3> HIDE DEF c
    <3>5. /\ x.b = c /\ x.n \in {"done", "malformed", "next"}
          /\ x.n = "done" => c.planCursor >= c.plan
      <4>1. x \in With(c)
        BY <3>1 DEF c
      <4> HIDE DEF With
      <4> QED
        BY <1>1, <4>1
    <3> QED
      BY <1>3, <3>3, <3>4, <3>5 DEF Decisions, c
  <2> QED
    BY <2>1, <2>2, <2>3
<1>4. CASE b.planned /\ b.lastOutcome \in {"failed", "partial"}
  <2>1. x \in {Plain("malformed"), Plain("error")}
          \/ \E k \in 0..MaxPlan : x \in With(Replan(k))
    BY <1>4 DEF Replies
  <2>2. CASE x \in {Plain("malformed"), Plain("error")}
    BY <1>4, <2>2 DEF Decisions
  <2>3. CASE \E k \in 0..MaxPlan : x \in With(Replan(k))
    <3>1. PICK k \in 0..MaxPlan : x \in With(Replan(k))
      BY <2>3
    <3>2. b.planCursor + k \in Nat
      BY <1>2, <3>1, CapsNat
    <3>3. Replan(k) \in BundleRecord
      BY <3>2, Zenon DEF BundleRecord
    <3> DEFINE c == Replan(k)
    <3>4. /\ c.run = b.run /\ c.runState = b.runState /\ c.runPhase = b.runPhase
          /\ c.goal = b.goal /\ c.pending = b.pending
          /\ c.stepsUsed = b.stepsUsed /\ c.nextSeq = b.nextSeq
          /\ c.inFlight = b.inFlight /\ c.evalResumes = b.evalResumes
          /\ c.plannerResumes = b.plannerResumes /\ c.planCursor = b.planCursor
          /\ c.planned = b.planned
      BY DEF BundleRecord
    <3> HIDE DEF c
    <3>5. /\ x.b = c /\ x.n \in {"done", "malformed", "next"}
          /\ x.n = "done" => c.planCursor >= c.plan
      <4>1. x \in With(c)
        BY <3>1 DEF c
      <4> HIDE DEF With
      <4> QED
        BY <1>1, <4>1
    <3> QED
      BY <1>4, <3>3, <3>4, <3>5 DEF Decisions, c
  <2> QED
    BY <2>1, <2>2, <2>3
<1>5. CASE b.planned /\ b.lastOutcome \notin {"failed", "partial"}
  <2>1. x \in With(b) \/ x = Plain("rewind")
    BY <1>5 DEF Replies
  <2>2. CASE x = Plain("rewind")
    BY <1>5, <2>2 DEF Decisions
  <2>3. CASE x \in With(b)
    <3>1. /\ x.b = b /\ x.n \in {"done", "malformed", "next"}
          /\ x.n = "done" => b.planCursor >= b.plan
      <4> HIDE DEF With
      <4> QED
        BY <1>1, <2>3
    <3> QED
      BY <1>5, <3>1 DEF Decisions
  <2> QED
    BY <2>1, <2>2, <2>3
<1> QED
  BY <1>3, <1>4, <1>5

LEMMA PlannerRepliesKeeps ==
  ASSUME CInv, PlannerReplies
  PROVE  CInv'
<1> DEFINE e == [mem EXCEPT !.plannerCall = FALSE, !.plannerResumes = 0]
<1>1. at = "planning" /\ at \in Working /\ "decided" \in Working
  BY DEF PlannerReplies, Working
<1>2. /\ mem \in BundleRecord /\ Sound(mem, results, minted) /\ IsLive(mem)
      /\ loc \in Locals /\ terminal[mem.run] \notin {"success", "error"}
      /\ mem.evalResumes <= MaxEvalResumes /\ mem.pending # "external" /\ mem.goal
      /\ ~Executing(mem) /\ StepsLeft(mem) /\ mem.runPhase = "planning"
      /\ at \notin {"idle", "flip"}
  BY <1>1, WorkingIs DEF Fits
<1>3. e \in BundleRecord
  <2>1. FALSE \in BOOLEAN /\ 0 \in Nat
    OBVIOUS
  <2> QED
    BY <1>2, <2>1, Zenon DEF BundleRecord
<1>4. /\ Alike(e, mem) /\ e.runPhase = "planning" /\ e.pending = mem.pending
      /\ e.goal = mem.goal /\ e.runState = mem.runState /\ e.plannerResumes = 0
      /\ e.evalResumes = mem.evalResumes
  BY <1>2 DEF BundleRecord, Alike
<1>5. PICK x \in Replies(e), k \in StepKinds \cup {"work"} :
        Persist(x.b, "decided") /\ loc' = [loc EXCEPT !.next = x.n, !.kind = k]
  <2> HIDE DEF e
  <2> QED
    BY DEF PlannerReplies, e
<1> HIDE DEF e
<1>6. e.planned \/ e.planCursor = 0
  BY <1>2, <1>4 DEF Sound, Cursors, Alike
<1> DEFINE c == x.b
<1>7. /\ c \in BundleRecord
      /\ c.run = e.run /\ c.runState = e.runState /\ c.runPhase = e.runPhase
      /\ c.goal = e.goal /\ c.pending = e.pending
      /\ c.stepsUsed = e.stepsUsed /\ c.nextSeq = e.nextSeq
      /\ c.inFlight = e.inFlight /\ c.evalResumes = e.evalResumes
      /\ c.plannerResumes = e.plannerResumes
      /\ c.planCursor = e.planCursor /\ (e.planned => c.planned)
      /\ x.n \in Decisions
      /\ x.n \in {"done", "next"} => c.planned
      /\ x.n = "done" => c.planCursor >= c.plan
  BY <1>3, <1>6, RepliesAre
<1> HIDE DEF c
<1>8. /\ Same(c, mem) /\ (mem.planned => c.planned) /\ IsLive(c) /\ ~Executing(c)
      /\ StepsLeft(c)
  BY <1>2, <1>4, <1>7 DEF Alike, Same, IsLive, Executing, StepsLeft
<1>9. Capped(c)
  BY <1>2, <1>4, <1>7, CapsNat DEF Sound, Capped, Alike
<1>10. Sound(c, results, minted)
  BY <1>2, <1>4, <1>7, <1>8, <1>9, SoundLike DEF IsLive
<1>11. loc' \in Locals /\ loc'.next = x.n
  <2>1. k \in {"work", "wait"} /\ x.n \in {"none"} \cup Decisions
    BY <1>7, ControllerAssumption DEF ControllerAssumption
  <2>2. loc' \in Locals
    BY <1>2, <1>5, <2>1, Zenon DEF Locals, Decisions
  <2> QED
    BY <1>2, <1>5, <2>2 DEF Locals
<1>12. Fits("decided", c, loc', results, terminal)
  <2>1. x.n = "done" => Ran(c)
    BY <1>7, <1>8 DEF Ran
  <2> QED
    BY <1>2, <1>4, <1>7, <1>8, <1>11, <2>1 DEF Fits, Working, Alike
<1>13. Persist(c, "decided") /\ c.stepsUsed = mem.stepsUsed /\ "decided" # "settling"
  BY <1>4, <1>5, <1>7 DEF Alike, c
<1> QED
  BY <1>1, <1>2, <1>7, <1>10, <1>11, <1>12, <1>13, PersistKeeps

\* What is known when the planner has decided.
LEMMA DecidedIs ==
  ASSUME CInv, at = "decided"
  PROVE  /\ at \in Working \ {"settling"} /\ ~Executing(mem) /\ StepsLeft(mem) /\ mem.goal
         /\ mem.pending # "external"
         /\ loc.next = "next" => mem.planned
         /\ loc.next = "done" => Ran(mem)
<1>1. at \in Working \ {"settling"}
  BY DEF Working
<1> QED
  BY <1>1, WorkingIs DEF Fits

LEMMA AskAgainPlannerKeeps ==
  ASSUME CInv, AskAgainPlanner
  PROVE  CInv'
<1> DEFINE n == Counted(loc.parse)
<1>1. /\ at = "decided" /\ "loop" \in Working
      /\ IF n > MaxRetries THEN Escalate(mem)
         ELSE Goto(mem, "loop") /\ loc' = [loc EXCEPT !.parse = n, !.next = "none"]
  BY DEF AskAgainPlanner, Working
<1>2. /\ mem \in BundleRecord /\ Sound(mem, results, minted) /\ IsLive(mem)
      /\ loc \in Locals /\ Fits(at, mem, loc, results, terminal)
      /\ at \in Working \ {"settling"} /\ at \notin {"idle", "flip", "settling"}
  BY <1>1, WorkingIs, DecidedIs
<1>3. CASE n > MaxRetries
  BY <1>1, <1>2, <1>3, AlikeSelf, EscalateKeeps
<1>4. CASE ~(n > MaxRetries)
  <2>1. n \in Nat
    BY <1>2 DEF Locals, Counted
  <2> HIDE DEF n
  <2>2. loc' \in Locals
    BY <1>1, <1>2, <1>4, <2>1, Zenon DEF Locals
  <2>3. Fits("loop", mem, loc', results, terminal)
    BY <1>1, <1>2, DecidedIs DEF Fits, Working
  <2> QED
    BY <1>1, <1>2, <1>4, <2>2, <2>3, SameIsSame, PlacesAre, GotoKeeps
<1> QED
  BY <1>3, <1>4

LEMMA PlannerErrorKeeps ==
  ASSUME CInv, PlannerError
  PROVE  CInv'
  BY DecidedIs, AbortKeeps DEF PlannerError

LEMMA PlanDoneKeeps ==
  ASSUME CInv, PlanDone
  PROVE  CInv'
<1>1. /\ at = "decided" /\ loc.next = "done" /\ Goto(mem, "finalize") /\ loc' = loc
      /\ "finalize" \in Working
  BY DEF PlanDone, Working
<1>2. /\ mem \in BundleRecord /\ Sound(mem, results, minted)
      /\ loc \in Locals /\ Fits(at, mem, loc, results, terminal)
      /\ at \in Working \ {"settling"} /\ at \notin {"idle", "flip", "settling"}
      /\ Ran(mem)
  BY <1>1, WorkingIs, DecidedIs
<1>3. Fits("finalize", mem, loc', results, terminal)
  BY <1>1, <1>2 DEF Fits, Working
<1> QED
  BY <1>1, <1>2, <1>3, SameIsSame, PlacesAre, GotoKeeps

LEMMA RewindKeeps ==
  ASSUME CInv, Rewind
  PROVE  CInv'
<1> DEFINE n == mem.rewindsUsed + 1
           b == [mem EXCEPT !.rewindsUsed = n]
           c == [b EXCEPT !.lastOutcome = "none"]
<1>1. at = "decided" /\ "loop" \in Working /\ "loop" # "settling"
  BY DEF Rewind, Working
<1>2. /\ mem \in BundleRecord /\ Sound(mem, results, minted) /\ IsLive(mem)
      /\ loc \in Locals /\ terminal[mem.run] \notin {"success", "error"}
      /\ at \in Working /\ at \notin {"idle", "flip"}
      /\ mem.goal /\ mem.pending # "external"
      /\ mem.evalResumes <= MaxEvalResumes /\ mem.plannerResumes <= MaxPlannerResumes
  BY <1>1, WorkingIs, DecidedIs
<1>3. n \in Nat
  BY <1>2 DEF BundleRecord
<1>4. \/ Escalate(b)
      \/ Persist(c, "loop") /\ loc' = [loc EXCEPT !.parse = 0, !.next = "none"]
  BY DEF Rewind
<1> HIDE DEF n
<1>5. b \in BundleRecord
  BY <1>2, <1>3, Zenon DEF BundleRecord
<1>6. /\ Alike(b, mem) /\ b.goal = mem.goal /\ b.runState = mem.runState
      /\ b.runPhase = mem.runPhase /\ b.pending = mem.pending
      /\ b.evalResumes = mem.evalResumes /\ b.plannerResumes = mem.plannerResumes
  BY <1>2 DEF BundleRecord, Alike
<1> HIDE DEF b
<1>7. c \in BundleRecord
  BY <1>5, Zenon DEF BundleRecord
<1>8. /\ Alike(c, b) /\ c.goal = b.goal /\ c.runState = b.runState
      /\ c.runPhase = b.runPhase /\ c.pending = b.pending
      /\ c.evalResumes = b.evalResumes /\ c.plannerResumes = b.plannerResumes
  BY <1>5 DEF BundleRecord, Alike
<1> HIDE DEF c
<1>9. CASE Escalate(b)
  BY <1>2, <1>5, <1>6, <1>9, EscalateKeeps
<1>10. CASE Persist(c, "loop") /\ loc' = [loc EXCEPT !.parse = 0, !.next = "none"]
  <2>1. Alike(c, mem) /\ IsLive(c)
    BY <1>2, <1>6, <1>8 DEF Alike, IsLive
  <2>2. Sound(c, results, minted)
    BY <1>2, <1>6, <1>8, <2>1, SoundAlike
  <2>3. 0 \in Nat
    OBVIOUS
  <2>4. loc' \in Locals
    BY <1>2, <1>10, <2>3, Zenon DEF Locals
  <2>5. Fits("loop", c, loc', results, terminal)
    BY <1>2, <1>6, <1>8, <2>1 DEF Fits, Working, Alike
  <2> QED
    BY <1>1, <1>2, <1>7, <1>10, <2>1, <2>2, <2>4, <2>5, PersistKeeps DEF Alike
<1> QED
  BY <1>4, <1>9, <1>10

\* A new attempt: none of its artifacts can be there, as no attempt of a live run
\* comes after the one in flight.
LEMMA OpenStepKeeps ==
  ASSUME CInv, OpenStep
  PROVE  CInv'
<1> DEFINE n == NextAttempt(mem)
           f == [NoStep EXCEPT !.phase = "executing", !.seq = mem.nextSeq,
                               !.attempt = n, !.kind = loc.kind]
           b == [mem EXCEPT !.runPhase = "executing", !.inFlight = f]
           p == IF loc.kind = "wait" THEN "wait" ELSE "step"
<1>1. /\ at = "decided" /\ loc.next = "next"
      /\ p \in Working /\ p \in {"wait", "step"} /\ p # "settling"
  BY DEF OpenStep, Working
<1>2. \/ Abort(mem)
      \/ /\ ~(n >= MaxStepAttempts)
         /\ disk' = b /\ mem' = b /\ at' = p
         /\ loc' = [StepLocals(b) EXCEPT !.parse = 0, !.next = "none", !.kind = "work"]
         /\ UNCHANGED <<results, terminal, served>>
  BY DEF OpenStep, stores
<1>3. /\ mem \in BundleRecord /\ Sound(mem, results, minted) /\ IsLive(mem)
      /\ loc \in Locals /\ terminal[mem.run] \notin {"success", "error"}
      /\ at \in Working \ {"settling"} /\ at \notin {"idle", "flip"}
      /\ mem.goal /\ mem.pending # "external" /\ mem.planned
      /\ mem.evalResumes <= MaxEvalResumes /\ mem.plannerResumes <= MaxPlannerResumes
      /\ ~Executing(mem) /\ StepsLeft(mem) /\ results \in SUBSET Result
      /\ mem.inFlight \in StepRecord /\ mem.nextSeq \in Nat
  BY <1>1, WorkingIs, DecidedIs DEF BundleRecord
<1>4. CASE Abort(mem)
  BY <1>3, <1>4, AbortKeeps
<1>5. CASE ~(n >= MaxStepAttempts) /\ disk' = b /\ mem' = b /\ at' = p
           /\ loc' = [StepLocals(b) EXCEPT !.parse = 0, !.next = "none", !.kind = "work"]
           /\ UNCHANGED <<results, terminal, served>>
  <2>1. /\ n \in Nat
        /\ \A x \in Of(results, mem.run) : x.seq = mem.nextSeq => x.attempt < n
    <3>1. mem.inFlight.attempt \in Nat /\ \A x \in results : x.attempt \in Nat
      BY <1>3 DEF StepRecord, Result
    <3>2. \A x \in Of(results, mem.run) : x.seq = mem.nextSeq =>
            mem.inFlight.phase # "none" /\ x.attempt <= mem.inFlight.attempt
      BY <1>3 DEF Sound, Artifacts, IsLive
    <3>3. mem.inFlight.phase # "none" => mem.inFlight.seq = mem.nextSeq
      BY <1>3 DEF Sound, Cursors
    <3> QED
      BY <3>1, <3>2, <3>3 DEF NextAttempt, Of
  <2>2. n < MaxStepAttempts
    BY <1>5, <2>1, CapsNat
  <2> HIDE DEF n, p
  <2>3. f \in StepRecord
    <3>1. loc.kind \in {"work", "wait"}
      BY <1>3 DEF Locals
    <3> QED
      BY <1>3, <2>1, <3>1, NoStepTyped, Zenon DEF StepRecord
  <2>4. /\ f.phase = "executing" /\ f.seq = mem.nextSeq /\ f.attempt = n
        /\ f.resumes = 0 /\ f.calls = 0
    BY NoStepTyped DEF StepRecord
  <2> HIDE DEF f
  <2>5. b \in BundleRecord
    BY <1>3, <2>3, Zenon DEF BundleRecord
  <2>6. /\ b.run = mem.run /\ b.runState = mem.runState /\ b.runPhase = "executing"
        /\ b.goal = mem.goal /\ b.pending = mem.pending
        /\ b.stepsUsed = mem.stepsUsed /\ b.nextSeq = mem.nextSeq
        /\ b.planned = mem.planned /\ b.planCursor = mem.planCursor
        /\ b.inFlight = f /\ b.evalResumes = mem.evalResumes
        /\ b.plannerResumes = mem.plannerResumes
    BY <1>3 DEF BundleRecord
  <2>7. disk' = b /\ mem' = b /\ at' = p
        /\ UNCHANGED <<results, terminal, served>>
    BY <1>5
  <2>8. loc' \in Locals
    <3> DEFINE l == StepLocals(b)
    <3>1. l \in Locals /\ 0 \in Nat
      BY <1>3, <2>5, StepLocalsTyped
    <3>2. loc' = [l EXCEPT !.parse = 0, !.next = "none", !.kind = "work"]
      BY <1>5
    <3> HIDE DEF l, b
    <3> QED
      BY <3>1, <3>2, Zenon DEF Locals
  <2> HIDE DEF b
  <2>9. Executing(b) /\ StepsLeft(b) /\ IsLive(b)
    BY <1>3, <2>4, <2>6 DEF Executing, StepsLeft, IsLive
  <2>10. CommittedIn(b, results) = {}
    <3>1. ASSUME NEW x \in CommittedIn(b, results)
          PROVE  FALSE
      <4>1. x \in Of(results, mem.run) /\ x.seq = mem.nextSeq /\ x.attempt = n
        BY <2>4, <2>6 DEF CommittedIn, Of
      <4> QED
        BY <2>1, <4>1
    <3> QED
      BY <3>1
  <2>11. Sound(b, results, minted)
    <3>1. Cursors(b)
      BY <1>3, <2>2, <2>4, <2>6 DEF Sound, Cursors
    <3>2. Capped(b)
      BY <1>3, <2>4, <2>6, CapsNat DEF Sound, Capped
    <3>3. \A x \in Of(results, mem.run) :
            /\ x.seq <= mem.nextSeq
            /\ x.seq = mem.nextSeq => ~Accepted(x) /\ x.attempt <= n
      <4>1. \A x \in Of(results, mem.run) : x.attempt \in Nat
        BY <1>3 DEF Of, Result
      <4> QED
        BY <1>3, <2>1, <4>1 DEF Sound, Artifacts
    <3>4. Artifacts(b, results)
      BY <1>3, <2>4, <2>6, <3>3 DEF Sound, Artifacts
    <3> QED
      BY <1>3, <2>6, <3>1, <3>2, <3>4 DEF Sound
  <2>12. Fits(p, b, loc', results, terminal)
    BY <1>1, <1>3, <2>6, <2>9, <2>10 DEF Fits
  <2>13. disk'.stepsUsed = mem.stepsUsed /\ mem'.stepsUsed = mem.stepsUsed
         /\ Same(mem', disk') /\ at' \notin Early
    BY <1>1, <2>6, <2>7, SameIsSame, PlacesAre
  <2> QED
    BY <1>1, <1>3, <2>5, <2>7, <2>8, <2>11, <2>12, <2>13, MoveKeeps
<1> QED
  BY <1>2, <1>4, <1>5

-----------------------------------------------------------------------------
(* A step runs, and settles.                                               *)

\* What is known while a step runs.
LEMMA StepIs ==
  ASSUME CInv, at \in {"step", "calling", "wait", "sleeping"}
  PROVE  /\ at \in Working \ {"settling"} /\ at \notin {"idle", "flip"}
         /\ Executing(mem) /\ StepsLeft(mem) /\ mem.goal
         /\ mem.pending # "external" /\ CommittedIn(mem, results) = {}
         /\ mem.inFlight \in StepRecord /\ mem.stepsUsed = disk.stepsUsed
         /\ mem.inFlight.resumes <= MaxStepResumes /\ mem.inFlight.calls <= MaxToolCalls
<1>1. at \in Working \ {"settling"} /\ at \notin {"idle", "flip"}
  BY DEF Working
<1> QED
  BY <1>1, WorkingIs, MemIs DEF Fits, Sound, Capped

\* The artifact of the attempt in flight is written: it is its first.
LEMMA WriteResultKeeps ==
  ASSUME CInv, at \in {"step", "calling", "wait", "sleeping"},
         NEW status \in {"ok", "partial", "failed"}, NEW cut \in BOOLEAN,
         WriteResult(mem, status, cut)
  PROVE  CInv'
<1> DEFINE new == [run |-> mem.run, seq |-> mem.inFlight.seq,
                   attempt |-> mem.inFlight.attempt, status |-> status, cut |-> cut]
           R == results \cup {new}
           n == mem.stepsUsed + 1
           b == [mem EXCEPT !.stepsUsed = n]
<1>1. /\ results' = R /\ mem' = b /\ loc' = [loc EXCEPT !.outcome = status, !.cut = cut]
      /\ at' = "settling" /\ disk' = disk /\ terminal' = terminal
      /\ minted' = minted /\ requests' = requests /\ req' = req
  BY DEF WriteResult, served
<1>2. /\ mem \in BundleRecord /\ Sound(mem, results, minted) /\ IsLive(mem)
      /\ loc \in Locals /\ terminal[mem.run] \notin {"success", "error"}
      /\ mem.run \in RunIds /\ mem.run = minted /\ results \in SUBSET Result
      /\ Sound(disk, results, minted) /\ Same(mem, disk)
  BY StepIs, WorkingIs, MemIs DEF Sound
<1>3. /\ at \notin {"idle", "flip", "settling"} /\ Executing(mem) /\ StepsLeft(mem)
      /\ mem.goal /\ mem.pending # "external" /\ CommittedIn(mem, results) = {}
      /\ mem.inFlight \in StepRecord /\ mem.stepsUsed = disk.stepsUsed
      /\ mem.stepsUsed \in Nat
  BY <1>2, StepIs DEF BundleRecord
<1>4. TypeOK /\ Unique(results, minted) /\ Counts /\ Charged
  BY DEF CInv
<1>5. /\ mem.inFlight.seq = mem.nextSeq /\ mem.inFlight.attempt < MaxStepAttempts
  BY <1>2, <1>3 DEF Sound, Cursors, Executing
<1>6. /\ new \in Result /\ new.run = minted /\ new.seq = mem.nextSeq
      /\ new.attempt = mem.inFlight.attempt /\ new.status = status
  BY <1>2, <1>3, <1>5 DEF Result, StepRecord
<1>7. new \in CommittedIn(mem, R) /\ CommittedIn(mem, R) = {new}
  BY <1>2, <1>3, <1>5, <1>6 DEF CommittedIn
<1> HIDE DEF new
<1>8. new \notin results
  BY <1>2, <1>3, <1>5, <1>6 DEF CommittedIn
<1>9. Of(R, minted) = Of(results, minted) \cup {new} /\ new \notin Of(results, minted)
  BY <1>6, <1>8 DEF Of
<1>10. Artifacts(mem, R)
  <2>1. /\ Of(R, mem.run) = Of(results, mem.run) \cup {new}
        /\ mem.nextSeq \in Nat /\ mem.inFlight.attempt \in Nat
        /\ mem.inFlight.phase # "none"
    BY <1>2, <1>3, <1>9 DEF BundleRecord, StepRecord, Executing
  <2>2. ASSUME NEW x \in Of(R, mem.run)
        PROVE  /\ x.seq <= mem.nextSeq
               /\ x.seq = mem.nextSeq /\ Accepted(x) =>
                    Executing(mem) /\ x.attempt = mem.inFlight.attempt
               /\ x.seq = mem.nextSeq /\ mem.runState # "terminal" =>
                    mem.inFlight.phase # "none" /\ x.attempt <= mem.inFlight.attempt
    <3>1. CASE x = new
      BY <1>3, <1>6, <2>1, <3>1
    <3>2. CASE x \in Of(results, mem.run)
      BY <1>2, <3>2 DEF Sound, Artifacts
    <3> QED
      BY <2>1, <3>1, <3>2
  <2>3. ASSUME NEW k \in 0..mem.nextSeq - 1
        PROVE  \E x \in Of(R, mem.run) : x.seq = k /\ Accepted(x)
    BY <1>2, <2>1 DEF Sound, Artifacts
  <2> QED
    BY <2>2, <2>3 DEF Artifacts
<1>11. b \in BundleRecord
  <2>1. n \in Nat
    BY <1>3
  <2> HIDE DEF n
  <2> QED
    BY <1>2, <2>1, Zenon DEF BundleRecord
<1>12. /\ b.run = mem.run /\ b.runState = mem.runState /\ b.runPhase = mem.runPhase
       /\ b.goal = mem.goal /\ b.pending = mem.pending /\ b.stepsUsed = n
       /\ b.nextSeq = mem.nextSeq /\ b.planned = mem.planned /\ b.plan = mem.plan
       /\ b.planCursor = mem.planCursor /\ b.inFlight = mem.inFlight
       /\ b.evalResumes = mem.evalResumes /\ b.plannerResumes = mem.plannerResumes
  BY <1>2 DEF BundleRecord
<1> HIDE DEF b
<1>13. Same(b, mem) /\ Executing(b) /\ IsLive(b)
  BY <1>2, <1>3, <1>12 DEF Same, Executing, IsLive
<1>14. n <= MaxSteps
  BY <1>3, CapsNat DEF StepsLeft
<1>15. Sound(b, R, minted)
  <2>1. Artifacts(b, R)
    BY <1>10, <1>12, <1>13, ArtifactsLike
  <2>2. Cursors(b) /\ Capped(b)
    BY <1>2, <1>12, <1>13, <1>14 DEF Sound, Cursors, Capped, Executing
  <2>3. b.runPhase # "finalizing"
    BY <1>2, <1>3, <1>12 DEF Sound, IsLive, Ran
  <2> QED
    BY <1>2, <1>3, <1>12, <2>1, <2>2, <2>3 DEF Sound
<1>16. Sound(disk, R, minted)
  <2>1. Same(disk, mem) /\ mem.runState # "terminal"
    BY <1>2 DEF Same, IsLive
  <2>2. Artifacts(disk, R)
    BY <1>10, <2>1, ArtifactsLike
  <2> QED
    BY <1>2, <2>2 DEF Sound
<1>17. Bundles'
  <2>1. Same(b, disk)
    BY <1>2, <1>13 DEF Same
  <2> QED
    BY <1>1, <1>15, <1>16, <2>1 DEF Bundles
<1>18. TypeOK'
  <2>1. loc' \in Locals
    BY <1>1, <1>2, Zenon DEF Locals
  <2> QED
    BY <1>1, <1>4, <1>6, <1>11, <2>1 DEF TypeOK, Places
<1>19. Unique(R, minted)
  <2>1. \A y \in results : ~(y.run = minted /\ y.seq = mem.nextSeq
                             /\ y.attempt = mem.inFlight.attempt)
    BY <1>2, <1>3, <1>5 DEF CommittedIn
  <2>2. \A y \in Of(results, minted) : ~(y.seq = mem.nextSeq /\ Accepted(y))
    BY <1>2, <2>1 DEF Sound, Artifacts, Of
  <2>3. IsFiniteSet(R)
    BY <1>4, FS_AddElement DEF Unique
  <2>4. \A x, y \in Of(R, minted) : x.seq = y.seq /\ Accepted(x) /\ Accepted(y) => x = y
    BY <1>4, <1>6, <1>9, <2>2 DEF Unique
  <2>5. \A x, y \in R : x.run = y.run /\ x.seq = y.seq /\ x.attempt = y.attempt => x = y
    BY <1>4, <1>6, <2>1 DEF Unique
  <2>6. minted <= minted
    BY <1>4 DEF TypeOK
  <2> QED
    BY <1>4, <1>5, <1>6, <2>3, <2>4, <2>5, <2>6 DEF Unique
<1>20. Charged'
  <2> DEFINE k == Cardinality(Of(results, minted))
  <2>1. k \in Nat /\ IsFiniteSet(Of(results, minted))
    BY <1>4, SetOfArtifacts DEF Unique
  <2>2. Cardinality(Of(R, minted)) = k + 1
    BY <1>9, <2>1, FS_AddElement
  <2>3. requests \in Nat
    BY <1>4 DEF TypeOK
  <2>4. k + 1 <= mem.stepsUsed + requests
    BY <1>3, <1>4 DEF Charged
  <2> HIDE DEF k
  <2>5. k + 1 < MaxSteps + requests
    BY <1>3, <2>1, <2>3, <2>4, CapsNat DEF StepsLeft
  <2> QED
    BY <1>1, <1>3, <1>12, <2>1, <2>2, <2>3, <2>4, <2>5 DEF Charged
<1>21. Fits("settling", b, loc', R, terminal)
  <2>1. CommittedIn(b, R) = {new}
    BY <1>7, <1>13, CommittedSame
  <2>2. loc'.outcome = status
    BY <1>1, <1>2 DEF Locals
  <2> QED
    BY <1>2, <1>3, <1>6, <1>12, <1>13, <2>1, <2>2 DEF Fits
<1>22. Counts'
  BY <1>1, <1>3, <1>4 DEF Counts, Early
<1> QED
  BY <1>1, <1>17, <1>18, <1>19, <1>20, <1>21, <1>22 DEF CInv

LEMMA StepReviewedKeeps ==
  ASSUME CInv, NEW s \in {"ok", "partial", "failed"}, StepReviewed(s)
  PROVE  CInv'
  BY WriteResultKeeps DEF StepReviewed

LEMMA StepCutKeeps ==
  ASSUME CInv, StepCut
  PROVE  CInv'
  BY WriteResultKeeps DEF StepCut

LEMMA WaitOverKeeps ==
  ASSUME CInv, WaitOver
  PROVE  CInv'
  BY WriteResultKeeps DEF WaitOver

\* The attempt goes on, with other counters.
LEMMA GoOnKeeps ==
  ASSUME CInv, at \in {"step", "calling", "wait", "sleeping"},
         NEW f \in StepRecord, SameAttempt(f, mem.inFlight),
         f.resumes <= MaxStepResumes, f.calls <= MaxToolCalls,
         NEW p \in {"step", "calling", "sleeping"}, Persist(WithStep(mem, f), p),
         loc' \in Locals
  PROVE  CInv'
<1> DEFINE c == WithStep(mem, f)
<1>1. /\ mem \in BundleRecord /\ Sound(mem, results, minted) /\ IsLive(mem)
      /\ terminal[mem.run] \notin {"success", "error"}
      /\ at \notin {"idle", "flip"} /\ Executing(mem) /\ StepsLeft(mem)
      /\ mem.goal /\ mem.pending # "external" /\ CommittedIn(mem, results) = {}
  BY StepIs, WorkingIs
<1>2. /\ Sound(c, results, minted) /\ IsLive(c) /\ Executing(c) /\ StepsLeft(c)
      /\ CommittedIn(c, results) = {}
  BY <1>1, WithStepSound
<1>3. /\ c \in BundleRecord /\ c.run = mem.run /\ c.pending = mem.pending
      /\ c.goal = mem.goal /\ c.stepsUsed = mem.stepsUsed
  BY <1>1, WithStepIs
<1>4. Persist(c, p) /\ p \in Working /\ p # "settling"
  BY DEF Working
<1> HIDE DEF c
<1>5. Fits(p, c, loc', results, terminal)
  BY <1>1, <1>2, <1>3 DEF Fits
<1> QED
  BY <1>1, <1>2, <1>3, <1>4, <1>5, PersistKeeps

\* The exchange of the step is saved.
LEMMA SnapshotIs ==
  ASSUME CInv, at \in {"step", "calling"}
  PROVE  \E f \in StepRecord :
           /\ SameAttempt(f, mem.inFlight) /\ f.resumes = mem.inFlight.resumes
           /\ f.calls = mem.inFlight.calls
           /\ Snapshot(mem) = WithStep(mem, f)
<1> DEFINE f == [mem.inFlight EXCEPT !.saved = loc.rounds]
<1>1. mem \in BundleRecord /\ mem.inFlight \in StepRecord /\ loc \in Locals
  BY StepIs, WorkingIs
<1>2. loc.rounds \in Nat
  BY <1>1 DEF Locals
<1>3. f \in StepRecord
  BY <1>1, <1>2, Zenon DEF StepRecord
<1>4. /\ SameAttempt(f, mem.inFlight) /\ f.resumes = mem.inFlight.resumes
      /\ f.calls = mem.inFlight.calls
  BY <1>1 DEF StepRecord, SameAttempt
<1>5. Snapshot(mem) = WithStep(mem, f)
  BY <1>1 DEF Snapshot, WithStep, BundleRecord
<1> QED
  BY <1>3, <1>4, <1>5

LEMMA RetryStepKeeps ==
  ASSUME CInv, RetryStep
  PROVE  CInv'
<1>1. /\ at = "step" /\ Persist(Snapshot(mem), "step")
      /\ loc' = [loc EXCEPT !.retries = @ + 1]
  BY DEF RetryStep
<1>2. PICK f \in StepRecord :
         /\ SameAttempt(f, mem.inFlight) /\ f.resumes = mem.inFlight.resumes
         /\ f.calls = mem.inFlight.calls
         /\ Snapshot(mem) = WithStep(mem, f)
  BY <1>1, SnapshotIs
<1>3. loc' \in Locals
  <2> DEFINE n == loc.retries + 1
  <2>1. loc \in Locals /\ n \in Nat
    BY <1>1, StepIs, WorkingIs DEF Locals
  <2>2. loc' = [loc EXCEPT !.retries = n]
    BY <1>1
  <2> HIDE DEF n
  <2> QED
    BY <2>1, <2>2, Zenon DEF Locals
<1> QED
  BY <1>1, <1>2, <1>3, StepIs, GoOnKeeps

LEMMA ToolReturnsKeeps ==
  ASSUME CInv, ToolReturns
  PROVE  CInv'
<1>1. at = "calling" /\ Persist(Snapshot(mem), "step") /\ loc' = loc
  BY DEF ToolReturns
<1>2. PICK f \in StepRecord :
         /\ SameAttempt(f, mem.inFlight) /\ f.resumes = mem.inFlight.resumes
         /\ f.calls = mem.inFlight.calls
         /\ Snapshot(mem) = WithStep(mem, f)
  BY <1>1, SnapshotIs
<1> QED
  BY <1>1, <1>2, StepIs, WorkingIs, GoOnKeeps

LEMMA CallToolKeeps ==
  ASSUME CInv, CallTool
  PROVE  CInv'
<1> DEFINE n == mem.inFlight.calls + 1
           f == [mem.inFlight EXCEPT !.calls = n]
<1>1. /\ at = "step" /\ mem.inFlight.calls < MaxToolCalls
      /\ Persist([mem EXCEPT !.inFlight.calls = @ + 1], "calling") /\ loc' = loc
  BY DEF CallTool, CallsLeft
<1>2. mem \in BundleRecord /\ mem.inFlight \in StepRecord /\ loc \in Locals
  BY <1>1, StepIs, WorkingIs
<1>3. [mem EXCEPT !.inFlight.calls = @ + 1] = WithStep(mem, f)
  BY <1>2 DEF WithStep, BundleRecord, StepRecord
<1>4. n \in Nat /\ n <= MaxToolCalls
  BY <1>1, <1>2, CapsNat DEF StepRecord
<1> HIDE DEF n
<1>5. f \in StepRecord
  BY <1>2, <1>4, Zenon DEF StepRecord
<1>6. /\ SameAttempt(f, mem.inFlight) /\ f.resumes = mem.inFlight.resumes /\ f.calls = n
  BY <1>2 DEF StepRecord, SameAttempt
<1> HIDE DEF f
<1> QED
  BY <1>1, <1>2, <1>3, <1>4, <1>5, <1>6, StepIs, GoOnKeeps

LEMMA StartWaitKeeps ==
  ASSUME CInv, StartWait
  PROVE  CInv'
<1> DEFINE f == [mem.inFlight EXCEPT !.slept = TRUE]
<1>1. /\ at = "wait" /\ Persist([mem EXCEPT !.inFlight.slept = TRUE], "sleeping")
      /\ loc' = loc
  BY DEF StartWait
<1>2. mem \in BundleRecord /\ mem.inFlight \in StepRecord /\ loc \in Locals
  BY <1>1, StepIs, WorkingIs
<1>3. [mem EXCEPT !.inFlight.slept = TRUE] = WithStep(mem, f)
  BY <1>2 DEF WithStep, BundleRecord
<1>4. f \in StepRecord
  BY <1>2, Zenon DEF StepRecord
<1>5. /\ SameAttempt(f, mem.inFlight) /\ f.resumes = mem.inFlight.resumes
      /\ f.calls = mem.inFlight.calls
  BY <1>2 DEF StepRecord, SameAttempt
<1> HIDE DEF f
<1> QED
  BY <1>1, <1>2, <1>3, <1>4, <1>5, StepIs, GoOnKeeps

LEMMA ToolUnavailableKeeps ==
  ASSUME CInv, ToolUnavailable
  PROVE  CInv'
  BY StepIs, AbortKeeps DEF ToolUnavailable

LEMMA SuspendOnToolKeeps ==
  ASSUME CInv, SuspendOnTool
  PROVE  CInv'
<1>1. /\ at = "step" /\ mem.inFlight.calls < MaxToolCalls
      /\ PersistAndReturn([Snapshot(mem) EXCEPT !.inFlight.calls = @ + 1,
                                                !.pending = "external",
                                                !.runState = "suspended"])
  BY DEF SuspendOnTool, CallsLeft
<1>2. /\ mem \in BundleRecord /\ Sound(mem, results, minted) /\ IsLive(mem)
      /\ at \notin {"idle", "flip"} /\ Executing(mem)
      /\ mem.inFlight.resumes <= MaxStepResumes
  BY <1>1, StepIs, WorkingIs
<1>3. PICK f \in StepRecord :
         /\ SameAttempt(f, mem.inFlight) /\ f.resumes = mem.inFlight.resumes
         /\ f.calls = mem.inFlight.calls
         /\ Snapshot(mem) = WithStep(mem, f)
  BY <1>1, SnapshotIs
<1> DEFINE n == f.calls + 1
           g == [f EXCEPT !.calls = n]
           b == WithStep(mem, g)
           c == [b EXCEPT !.pending = "external", !.runState = "suspended"]
<1>4. PersistAndReturn(c)
  <2>1. [WithStep(mem, f) EXCEPT !.inFlight.calls = @ + 1, !.pending = "external",
                                 !.runState = "suspended"] = c
    BY <1>2 DEF WithStep, BundleRecord, StepRecord
  <2> HIDE DEF c
  <2> QED
    BY <1>1, <1>3, <2>1
<1>5. n \in Nat /\ n <= MaxToolCalls
  BY <1>1, <1>3, CapsNat DEF StepRecord
<1> HIDE DEF n
<1>6. g \in StepRecord
  BY <1>3, <1>5, Zenon DEF StepRecord
<1>7. /\ SameAttempt(g, mem.inFlight) /\ g.resumes = mem.inFlight.resumes /\ g.calls = n
  BY <1>3 DEF StepRecord, SameAttempt
<1> HIDE DEF g
<1>8. /\ Sound(b, results, minted) /\ IsLive(b) /\ Executing(b)
      /\ b \in BundleRecord /\ b.stepsUsed = mem.stepsUsed
  BY <1>2, <1>5, <1>6, <1>7, WithStepSound, WithStepIs
<1> HIDE DEF b
<1>9. c \in BundleRecord
  BY <1>8, Zenon DEF BundleRecord
<1>10. /\ c.run = b.run /\ c.runState = "suspended" /\ c.runPhase = b.runPhase
       /\ c.goal = b.goal /\ c.pending = "external" /\ c.stepsUsed = b.stepsUsed
       /\ c.nextSeq = b.nextSeq /\ c.planned = b.planned /\ c.plan = b.plan
       /\ c.planCursor = b.planCursor /\ c.inFlight = b.inFlight
       /\ c.evalResumes = b.evalResumes /\ c.plannerResumes = b.plannerResumes
  BY <1>8 DEF BundleRecord
<1> HIDE DEF c
<1>11. Same(c, b) /\ Executing(c) /\ Capped(c) /\ b.runPhase # "finalizing"
  BY <1>8, <1>10 DEF Same, Executing, Sound, Capped, IsLive, Ran
<1>12. Sound(c, results, minted)
  BY <1>8, <1>10, <1>11, SoundLike DEF IsLive
<1> QED
  BY <1>2, <1>4, <1>8, <1>9, <1>10, <1>12, PersistAndReturnKeeps

\* The bundle takes over the artifact: what it adopts is what was written.
LEMMA SettleStepKeeps ==
  ASSUME CInv, SettleStep
  PROVE  CInv'
<1> DEFINE o == Verdict({[status |-> loc.outcome]})
           f == [mem.inFlight EXCEPT !.ctl = loc.cut]
           b == WithStep(mem, f)
           c == Settle(b, o)
<1>1. at = "settling" /\ at \in Working /\ "loop" \in Working /\ "loop" # "settling"
  BY DEF SettleStep, Working
<1>2. /\ mem \in BundleRecord /\ Sound(mem, results, minted) /\ IsLive(mem)
      /\ loc \in Locals /\ terminal[mem.run] \notin {"success", "error"}
      /\ mem.goal /\ mem.pending # "external" /\ results \in SUBSET Result
      /\ Executing(mem) /\ CommittedIn(mem, results) # {}
      /\ \A x \in CommittedIn(mem, results) : x.status = loc.outcome
      /\ at \notin {"idle", "flip"} /\ mem.inFlight \in StepRecord
      /\ mem.inFlight.resumes <= MaxStepResumes
      /\ mem.inFlight.calls <= MaxToolCalls
  BY <1>1, WorkingIs, MemIs DEF Fits, Sound, Capped
<1>3. [mem EXCEPT !.inFlight.ctl = loc.cut] = b
  BY <1>2 DEF WithStep, BundleRecord
<1>4. /\ Persist(c, "loop")
      /\ loc' = [loc EXCEPT !.outcome = "none", !.cut = FALSE, !.rounds = 0,
                            !.retries = 0]
  <2> HIDE DEF b, o
  <2> QED
    BY <1>3 DEF SettleStep, o
<1>5. Judges(o, CommittedIn(mem, results)) /\ o \in Outcomes
  <2>1. loc.outcome \in {"ok", "partial", "failed"}
    BY <1>2 DEF CommittedIn, Result
  <2>2. /\ loc.outcome = "ok" => o = "advanced"
        /\ loc.outcome = "partial" => o = "partial"
        /\ loc.outcome = "failed" => o = "failed"
    BY DEF Verdict
  <2> HIDE DEF o
  <2> QED
    BY <1>2, <2>1, <2>2 DEF Judges, Outcomes, Accepted
<1> HIDE DEF o
<1>6. f \in StepRecord
  <2>1. loc.cut \in BOOLEAN
    BY <1>2 DEF Locals
  <2> QED
    BY <1>2, <2>1, Zenon DEF StepRecord
<1>7. /\ SameAttempt(f, mem.inFlight) /\ f.resumes = mem.inFlight.resumes
      /\ f.calls = mem.inFlight.calls
  BY <1>2 DEF StepRecord, SameAttempt
<1> HIDE DEF f
<1>8. /\ Sound(b, results, minted) /\ IsLive(b) /\ Executing(b)
      /\ CommittedIn(b, results) = CommittedIn(mem, results)
      /\ b \in BundleRecord /\ b.stepsUsed = mem.stepsUsed /\ b.run = mem.run
      /\ b.pending = mem.pending /\ b.goal = mem.goal
  <2>1. f.resumes <= MaxStepResumes /\ f.calls <= MaxToolCalls
    BY <1>2, <1>7
  <2>2. /\ Sound(b, results, minted) /\ IsLive(b) /\ (Executing(mem) <=> Executing(b))
        /\ CommittedIn(b, results) = CommittedIn(mem, results)
    BY <1>2, <1>6, <1>7, <2>1, WithStepSound
  <2> QED
    BY <1>2, <1>6, <2>2, WithStepIs
<1> HIDE DEF b
<1>9. Sound(c, results, minted)
  BY <1>2, <1>5, <1>8, SettleSound
<1>10. /\ c \in BundleRecord /\ c.run = mem.run /\ c.runState = b.runState
       /\ c.pending = mem.pending /\ c.stepsUsed = mem.stepsUsed /\ c.goal = mem.goal
  BY <1>5, <1>8, SettleFields
<1> HIDE DEF c
<1>11. loc' \in Locals
  <2>1. 0 \in Nat /\ FALSE \in BOOLEAN
    OBVIOUS
  <2> QED
    BY <1>2, <1>4, <2>1, Zenon DEF Locals
<1>12. Fits("loop", c, loc', results, terminal)
  BY <1>2, <1>8, <1>10 DEF Fits, Working, IsLive
<1> QED
  BY <1>1, <1>2, <1>4, <1>9, <1>10, <1>11, <1>12, PersistKeeps

-----------------------------------------------------------------------------
(* The answer is composed; the run ends.                                   *)

\* What is known while the answer is composed: the plan ran.
LEMMA FinalIs ==
  ASSUME CInv, at \in {"finalize", "composing", "exhausted"}
  PROVE  /\ at \in Working \ {"settling"} /\ at \notin {"idle", "flip"}
         /\ Ran(mem) /\ ~Executing(mem) /\ mem.pending # "external"
<1>1. at \in Working \ {"settling"} /\ at \notin {"idle", "flip"}
  BY DEF Working
<1> QED
  BY <1>1, WorkingIs DEF Fits, Ran

LEMMA GiveUpKeeps ==
  ASSUME CInv, at \in {"finalize", "composing", "exhausted"}, NEW b \in BundleRecord,
         Alike(b, mem), GiveUp(b)
  PROVE  CInv'
<1>1. End(b, "success") \/ End(b, "error")
  BY DEF GiveUp, Abort
<1>2. Same(b, mem) /\ b.planned = mem.planned /\ b.stepsUsed = mem.stepsUsed
  BY DEF Alike, Same
<1> QED
  BY <1>1, <1>2, FinalIs, EndKeeps

\* On with the finalizer.
LEMMA ComposingKeeps ==
  ASSUME CInv, at \in {"finalize", "composing", "exhausted"}, NEW c \in BundleRecord,
         Alike(c, mem), c.goal = mem.goal, c.runState = mem.runState,
         c.runPhase \in {mem.runPhase, "finalizing"}, c.pending = mem.pending,
         c.evalResumes = mem.evalResumes, c.plannerResumes = mem.plannerResumes,
         NEW p \in {"composing", "exhausted"}, Persist(c, p), loc' = loc
  PROVE  CInv'
<1>1. /\ mem \in BundleRecord /\ Sound(mem, results, minted) /\ IsLive(mem)
      /\ loc \in Locals /\ terminal[mem.run] \notin {"success", "error"}
      /\ at \notin {"idle", "flip"} /\ Ran(mem) /\ mem.pending # "external"
      /\ mem.evalResumes <= MaxEvalResumes /\ mem.plannerResumes <= MaxPlannerResumes
  BY FinalIs, WorkingIs
<1>2. IsLive(c) /\ Ran(c)
  BY <1>1 DEF IsLive, Ran, Alike, Executing
<1>3. Sound(c, results, minted)
  BY <1>1, <1>2, SoundAlike
<1>4. p \in Working /\ p # "settling"
  BY DEF Working
<1>5. Fits(p, c, loc', results, terminal)
  BY <1>1, <1>2 DEF Fits, Working, Alike
<1> QED
  BY <1>1, <1>3, <1>4, <1>5, PersistKeeps DEF Alike

LEMMA StartFinalizeKeeps ==
  ASSUME CInv, StartFinalize
  PROVE  CInv'
<1> DEFINE n == mem.finalizeAttempt + (IF mem.finalizeCall THEN 1 ELSE 0)
           b == [mem EXCEPT !.finalizeAttempt = n]
           answer(t) == IF ~HasFinalizer /\ loc.next = "done" THEN t ELSE b.answer
           c(t) == [b EXCEPT !.runPhase = "finalizing", !.finalizeCall = TRUE,
                             !.answer = answer(t)]
<1>1. at = "finalize" /\ at \in Working
  BY DEF StartFinalize, Working
<1>2. mem \in BundleRecord /\ loc \in Locals
  BY <1>1, WorkingIs
<1>3. n \in Nat
  BY <1>2 DEF BundleRecord
<1>4. b \in BundleRecord
  <2> HIDE DEF n
  <2> QED
    BY <1>2, <1>3, Zenon DEF BundleRecord
<1>5. /\ Alike(b, mem) /\ b.goal = mem.goal /\ b.runState = mem.runState
      /\ b.runPhase = mem.runPhase /\ b.pending = mem.pending
      /\ b.evalResumes = mem.evalResumes /\ b.plannerResumes = mem.plannerResumes
  BY <1>2 DEF BundleRecord, Alike
<1>6. \/ Abort(mem)
      \/ GiveUp(b)
      \/ /\ loc' = loc
         /\ \E t \in BOOLEAN : Persist(c(t), "composing")
  <2>1. \A t \in BOOLEAN :
          c(t) = [b EXCEPT !.runPhase = "finalizing", !.finalizeCall = TRUE,
                           !.answer = IF ~HasFinalizer /\ loc.next = "done"
                                      THEN t ELSE @]
    BY <1>4 DEF BundleRecord
  <2> HIDE DEF c
  <2> QED
    BY <2>1 DEF StartFinalize
<1>7. CASE Abort(mem)
  BY <1>1, <1>7, FinalIs, AbortKeeps
<1>8. CASE GiveUp(b)
  BY <1>1, <1>4, <1>5, <1>8, GiveUpKeeps
<1>9. CASE loc' = loc /\ \E t \in BOOLEAN : Persist(c(t), "composing")
  <2>1. PICK t \in BOOLEAN : Persist(c(t), "composing")
    BY <1>9
  <2> DEFINE a == answer(t)
             d == [b EXCEPT !.runPhase = "finalizing", !.finalizeCall = TRUE,
                            !.answer = a]
  <2>2. Persist(d, "composing")
    BY <2>1
  <2> HIDE DEF b
  <2>3. a \in BOOLEAN
    BY <1>4 DEF BundleRecord
  <2> HIDE DEF a
  <2>4. d \in BundleRecord
    BY <1>4, <2>3, Zenon DEF BundleRecord
  <2>5. /\ Alike(d, b) /\ d.goal = b.goal /\ d.runState = b.runState
        /\ d.runPhase = "finalizing" /\ d.pending = b.pending
        /\ d.evalResumes = b.evalResumes /\ d.plannerResumes = b.plannerResumes
    BY <1>4 DEF BundleRecord, Alike
  <2> HIDE DEF d
  <2>6. Alike(d, mem)
    BY <1>5, <2>5 DEF Alike
  <2> QED
    BY <1>1, <1>5, <1>9, <2>2, <2>4, <2>5, <2>6, ComposingKeeps
<1> QED
  BY <1>6, <1>7, <1>8, <1>9

LEMMA ComposedKeeps ==
  ASSUME CInv, Composed \/ NothingComposed \/ Exhausted
  PROVE  CInv'
<1>1. at \in {"finalize", "composing", "exhausted"}
      /\ (End(mem, "success") \/ Abort(mem))
  BY DEF Composed, NothingComposed, Exhausted, GiveUp
<1> QED
  BY <1>1, FinalIs, WorkingIs, SameIsSame, EndKeeps DEF Abort

LEMMA ComposeFailsKeeps ==
  ASSUME CInv, ComposeFails
  PROVE  CInv'
<1> DEFINE n == mem.finalizeAttempt + 1
           c == [mem EXCEPT !.finalizeAttempt = n]
           p == IF n > MaxFinalizeRetries THEN "exhausted" ELSE "composing"
<1>1. /\ at = "composing" /\ at \in Working /\ loc' = loc /\ Persist(c, p)
      /\ p \in {"composing", "exhausted"}
  BY DEF ComposeFails, Working
<1>2. mem \in BundleRecord
  BY <1>1, WorkingIs
<1>3. n \in Nat
  BY <1>2 DEF BundleRecord
<1> HIDE DEF p, n
<1>4. c \in BundleRecord
  BY <1>2, <1>3, Zenon DEF BundleRecord
<1>5. /\ Alike(c, mem) /\ c.goal = mem.goal /\ c.runState = mem.runState
      /\ c.runPhase = mem.runPhase /\ c.pending = mem.pending
      /\ c.evalResumes = mem.evalResumes /\ c.plannerResumes = mem.plannerResumes
  BY <1>2 DEF BundleRecord, Alike
<1> HIDE DEF c
<1> QED
  BY <1>1, <1>4, <1>5, ComposingKeeps

LEMMA FlipKeeps ==
  ASSUME CInv, Flip
  PROVE  CInv'
<1>1. /\ at = "flip" /\ disk' = EndOf(mem) /\ Leave
      /\ UNCHANGED <<results, terminal, minted, requests>>
  BY DEF Flip, PersistAndReturn, EndOf, stores
<1>2. mem \in BundleRecord /\ Sound(EndOf(mem), results, minted)
  BY <1>1 DEF CInv, TypeOK, Bundles
<1>3. EndOf(mem) \in BundleRecord /\ EndOf(mem).stepsUsed = mem.stepsUsed
  BY <1>2, EndTyped
<1>4. mem.stepsUsed \in Nat /\ mem.stepsUsed <= MaxSteps
  BY <1>2, <1>3 DEF Sound, Capped, BundleRecord
<1> QED
  BY <1>1, <1>2, <1>3, <1>4, LeaveKeeps

LEMMA ExpireKeeps ==
  ASSUME CInv, NEW r \in RunIds, Expire(r)
  PROVE  CInv'
<1>1. /\ Ended(r) /\ terminal' = [terminal EXCEPT ![r] = "expired"] /\ disk' = disk
      /\ results' = results /\ minted' = minted /\ requests' = requests
      /\ at' = at /\ req' = req /\ mem' = mem /\ loc' = loc
  BY DEF Expire
<1>2. /\ TypeOK /\ Bundles /\ Unique(results, minted) /\ Counts /\ Charged
      /\ Fits(at, mem, loc, results, terminal)
  BY DEF CInv
<1>3. TypeOK'
  BY <1>1, <1>2 DEF TypeOK
<1>4. Bundles' /\ Charged'
  BY <1>1, <1>2 DEF Bundles, Charged
<1>5. Counts'
  BY <1>1, <1>2 DEF Counts, TypeOK, Ended
<1>6. Fits(at, mem, loc, results, terminal')
  <2>1. at \in Working => terminal'[mem.run] \notin {"success", "error"}
    BY <1>1, <1>2, WorkingIs DEF TypeOK
  <2> QED
    BY <1>2, <2>1 DEF Fits
<1> QED
  BY <1>1, <1>2, <1>3, <1>4, <1>5, <1>6 DEF CInv

LEMMA StutterKeeps ==
  ASSUME CInv, UNCHANGED vars
  PROVE  CInv'
<1>1. /\ disk' = disk /\ results' = results /\ terminal' = terminal /\ minted' = minted
      /\ requests' = requests /\ at' = at /\ req' = req /\ mem' = mem /\ loc' = loc
  BY DEF vars
<1>2. /\ TypeOK /\ Bundles /\ Unique(results, minted) /\ Counts /\ Charged
      /\ Fits(at, mem, loc, results, terminal)
  BY DEF CInv
<1>3. TypeOK'
  BY <1>1, <1>2 DEF TypeOK
<1>4. Bundles'
  BY <1>1, <1>2 DEF Bundles
<1>5. Counts' /\ Charged'
  BY <1>1, <1>2 DEF Counts, Charged
<1> QED
  BY <1>1, <1>2, <1>3, <1>4, <1>5 DEF CInv

LEMMA ServeKeeps ==
  ASSUME CInv, Serve
  PROVE  CInv'
<1>1. CASE \/ Classify \/ Replay \/ StartRun \/ NotFound \/ ResumeFinished
           \/ ResumeRun \/ Resurface \/ ConsumeResult \/ AskAgain \/ ConsumeAnswer
  BY <1>1, ClassifyKeeps, ReplayKeeps, StartRunKeeps, NotFoundKeeps,
     ResumeFinishedKeeps, ResumeRunKeeps, ConsumeResultKeeps, ConsumeAnswerKeeps
<1>2. CASE \/ GoalKnown \/ AskEvaluator \/ GoalNeedsConfirmation \/ GoalEstablished
           \/ OutOfSteps \/ AdoptResult \/ ResumeWait \/ ResumeStep
           \/ AskPlanner \/ BoardOverBudget \/ PlannerReplies
  BY <1>2, GoalKnownKeeps, AskEvaluatorKeeps, GoalNeedsConfirmationKeeps,
     GoalEstablishedKeeps, OutOfStepsKeeps, AdoptResultKeeps, ResumeWaitKeeps,
     ResumeStepKeeps, AskPlannerKeeps, BoardOverBudgetKeeps, PlannerRepliesKeeps
<1>3. CASE \/ AskAgainPlanner \/ PlannerError \/ PlanDone \/ Rewind \/ OpenStep
           \/ \E s \in {"ok", "partial", "failed"} : StepReviewed(s)
           \/ StepCut \/ RetryStep \/ SuspendOnTool \/ CallTool \/ ToolReturns
  BY <1>3, AskAgainPlannerKeeps, PlannerErrorKeeps, PlanDoneKeeps, RewindKeeps,
     OpenStepKeeps, StepReviewedKeeps, StepCutKeeps, RetryStepKeeps,
     SuspendOnToolKeeps, CallToolKeeps, ToolReturnsKeeps
<1>4. CASE \/ ToolUnavailable \/ SettleStep \/ StartWait \/ WaitOver
           \/ StartFinalize \/ Composed \/ NothingComposed \/ ComposeFails
           \/ Exhausted \/ Flip
  BY <1>4, ToolUnavailableKeeps, SettleStepKeeps, StartWaitKeeps, WaitOverKeeps,
     StartFinalizeKeeps, ComposedKeeps, ComposeFailsKeeps, FlipKeeps
<1> QED
  BY <1>1, <1>2, <1>3, <1>4 DEF Serve

LEMMA StepKeeps == CInv /\ [Next]_vars => CInv'
<1> SUFFICES ASSUME CInv, [Next]_vars
             PROVE  CInv'
  OBVIOUS
<1>1. CASE \E q \in Request : Arrive(q)
  BY <1>1, ArriveKeeps
<1>2. CASE Serve
  BY <1>2, ServeKeeps
<1>3. CASE Crash
  BY <1>3, ReturnKeeps DEF Crash
<1>4. CASE \E r \in RunIds : Expire(r)
  BY <1>4, ExpireKeeps
<1>5. CASE UNCHANGED vars
  BY <1>5, StutterKeeps
<1> QED
  BY <1>1, <1>2, <1>3, <1>4, <1>5 DEF Next

LEMMA InvHolds == Spec => []CInv
  BY InvInit, StepKeeps, PTL DEF Spec

-----------------------------------------------------------------------------
(* What a step does to the artifacts, the outcomes and the runs.           *)

Quiet == UNCHANGED <<results, terminal, minted>>

Starts == minted' = minted + 1 /\ UNCHANGED <<results, terminal>>

\* The run being served gets its outcome: not while a wait of it is served, and a
\* success only when its plan ran.
Ends(o) ==
  /\ at \in Working \ {"settling"}
  /\ terminal' = [terminal EXCEPT ![mem.run] = o]
  /\ UNCHANGED <<results, minted>>
  /\ o = "success" => at \in {"finalize", "composing", "exhausted"}
  /\ ~(Executing(mem) /\ IsWait(mem) /\ at \in {"loop", "wait", "sleeping"})

Writes(s, c) == at \in {"step", "calling", "wait", "sleeping"} /\ WriteResult(mem, s, c)

LEMMA QuietForms ==
  ASSUME NEW b, NEW p,
         Persist(b, p) \/ PersistAndReturn(b) \/ Goto(b, p) \/ Return \/ Escalate(b)
  PROVE  Quiet
  BY DEF Quiet, Persist, PersistAndReturn, Goto, Return, Escalate, stores, served

LEMMA EndShape ==
  ASSUME CInv, at \in Working \ {"settling"}, NEW b \in BundleRecord, b.run = mem.run,
         NEW o \in {"success", "error"}, End(b, o),
         o = "success" => at \in {"finalize", "composing", "exhausted"},
         ~(Executing(mem) /\ IsWait(mem) /\ at \in {"loop", "wait", "sleeping"})
  PROVE  \E e \in {"success", "error"} : Ends(e)
<1>1. Ends(o)
  BY DEF End, Ends, served
<1> QED
  BY <1>1

LEMMA QuietSteps ==
  ASSUME \/ Classify \/ Replay \/ NotFound \/ ResumeFinished
         \/ ResumeRun \/ Resurface \/ ConsumeResult \/ AskAgain \/ ConsumeAnswer
         \/ GoalKnown \/ GoalNeedsConfirmation \/ GoalEstablished \/ OutOfSteps
         \/ AdoptResult \/ ResumeWait \/ PlannerReplies \/ AskAgainPlanner \/ PlanDone
         \/ Rewind \/ RetryStep \/ SuspendOnTool \/ CallTool \/ ToolReturns \/ SettleStep
         \/ StartWait \/ ComposeFails \/ Flip
  PROVE  Quiet
<1>1. CASE \/ Classify \/ Replay \/ NotFound \/ ResumeFinished \/ ResumeRun \/ Resurface
           \/ AskAgain
  BY <1>1, QuietForms DEF Classify, Replay, NotFound, ResumeFinished, ResumeRun, Resurface,
     AskAgain
<1>2. CASE ConsumeResult \/ ConsumeAnswer
  BY <1>2, QuietForms DEF ConsumeResult, ConsumeAnswer
<1>3. CASE \/ GoalKnown \/ GoalNeedsConfirmation \/ GoalEstablished \/ OutOfSteps
           \/ AdoptResult \/ ResumeWait \/ PlanDone
  BY <1>3, QuietForms DEF GoalKnown, GoalNeedsConfirmation, GoalEstablished, OutOfSteps,
     AdoptResult, ResumeWait, PlanDone
<1>4. CASE PlannerReplies \/ AskAgainPlanner \/ Rewind
  BY <1>4, QuietForms DEF PlannerReplies, AskAgainPlanner, Rewind
<1>5. CASE \/ RetryStep \/ SuspendOnTool \/ CallTool \/ ToolReturns \/ SettleStep
           \/ StartWait \/ ComposeFails \/ Flip
  BY <1>5, QuietForms DEF RetryStep, SuspendOnTool, CallTool, ToolReturns, SettleStep,
     StartWait, ComposeFails, Flip
<1> QED
  BY <1>1, <1>2, <1>3, <1>4, <1>5

\* The steps that may end the run.
LEMMA EndingSteps ==
  ASSUME CInv,
         \/ AskEvaluator \/ ResumeStep \/ AskPlanner \/ BoardOverBudget \/ PlannerError
         \/ OpenStep \/ ToolUnavailable \/ StartFinalize \/ Composed \/ NothingComposed
         \/ Exhausted
  PROVE  Quiet \/ \E o \in {"success", "error"} : Ends(o)
<1>1. CASE AskEvaluator
  <2> DEFINE b == [mem EXCEPT !.evalResumes = IF mem.evalCall THEN mem.evalResumes + 1
                                              ELSE mem.evalResumes]
  <2>1. at = "goal" /\ at \in Working \ {"settling"}
    BY <1>1 DEF AskEvaluator, Working
  <2>2. Quiet \/ End(b, "error")
    BY <1>1, QuietForms DEF AskEvaluator, Abort
  <2>3. b \in BundleRecord /\ b.run = mem.run
    BY <2>1, WorkingIs DEF BundleRecord
  <2> HIDE DEF b
  <2> QED
    BY <2>1, <2>2, <2>3, EndShape
<1>2. CASE ResumeStep
  <2> DEFINE b == [mem EXCEPT !.inFlight.resumes =
                                mem.inFlight.resumes + (IF loc.cont THEN 0 ELSE 1)]
  <2>1. at = "loop" /\ at \in Working \ {"settling"} /\ ~IsWait(mem)
    BY <1>2 DEF ResumeStep, Working
  <2>2. Quiet \/ End(b, "error")
    BY <1>2 DEF ResumeStep, Abort, BeginStep, Quiet, stores, served
  <2>3. b \in BundleRecord /\ b.run = mem.run
    BY <2>1, WorkingIs, MemIs DEF BundleRecord, StepRecord
  <2> HIDE DEF b
  <2> QED
    BY <2>1, <2>2, <2>3, EndShape
<1>3. CASE AskPlanner
  <2> DEFINE b == [mem EXCEPT !.plannerResumes = IF mem.plannerCall
                                                 THEN mem.plannerResumes + 1
                                                 ELSE mem.plannerResumes]
  <2>1. at = "loop" /\ at \in Working \ {"settling"} /\ ~Executing(mem)
    BY <1>3 DEF AskPlanner, Working
  <2>2. Quiet \/ End(b, "error")
    BY <1>3, QuietForms DEF AskPlanner, Abort
  <2>3. b \in BundleRecord /\ b.run = mem.run
    BY <2>1, WorkingIs DEF BundleRecord
  <2> HIDE DEF b
  <2> QED
    BY <2>1, <2>2, <2>3, EndShape
<1>4. CASE BoardOverBudget \/ PlannerError \/ OpenStep \/ ToolUnavailable
  <2>1. at \in {"planning", "decided", "calling"} /\ at \in Working \ {"settling"}
    BY <1>4 DEF BoardOverBudget, PlannerError, OpenStep, ToolUnavailable, Working
  <2>2. Quiet \/ End(mem, "error")
    BY <1>4 DEF BoardOverBudget, PlannerError, OpenStep, ToolUnavailable, Abort, Quiet,
       stores, served
  <2> QED
    BY <2>1, <2>2, WorkingIs, EndShape
<1>5. CASE StartFinalize
  <2> DEFINE b == [mem EXCEPT !.finalizeAttempt =
                        mem.finalizeAttempt + (IF mem.finalizeCall THEN 1 ELSE 0)]
  <2>1. at = "finalize" /\ at \in Working \ {"settling"}
    BY <1>5 DEF StartFinalize, Working
  <2>2. Quiet \/ End(b, "error") \/ End(b, "success") \/ End(mem, "error")
    BY <1>5, QuietForms DEF StartFinalize, Abort, GiveUp
  <2>3. mem \in BundleRecord /\ b \in BundleRecord /\ b.run = mem.run
    BY <2>1, WorkingIs DEF BundleRecord
  <2> HIDE DEF b
  <2> QED
    BY <2>1, <2>2, <2>3, EndShape
<1>6. CASE Composed \/ NothingComposed \/ Exhausted
  <2>1. at \in {"composing", "exhausted"} /\ at \in Working \ {"settling"}
    BY <1>6 DEF Composed, NothingComposed, Exhausted, Working
  <2>2. End(mem, "error") \/ End(mem, "success")
    BY <1>6 DEF Composed, NothingComposed, Exhausted, Abort, GiveUp
  <2> QED
    BY <2>1, <2>2, WorkingIs, EndShape
<1> QED
  BY <1>1, <1>2, <1>3, <1>4, <1>5, <1>6

LEMMA StepShape ==
  ASSUME CInv, [Next]_vars
  PROVE  \/ Quiet \/ Starts
         \/ \E o \in {"success", "error"} : Ends(o)
         \/ \E s \in {"ok", "partial", "failed"}, c \in BOOLEAN : Writes(s, c)
         \/ \E r \in RunIds : Expire(r)
<1>1. CASE \E q \in Request : Arrive(q)
  BY <1>1 DEF Arrive, Quiet, stores
<1>2. CASE Serve
  <2>1. CASE StartRun
    BY <2>1 DEF StartRun, Starts, stores
  <2>2. CASE \E s \in {"ok", "partial", "failed"} : StepReviewed(s)
    <3>1. FALSE \in BOOLEAN
      OBVIOUS
    <3> QED
      BY <2>2, <3>1 DEF StepReviewed, Writes
  <2>3. CASE StepCut
    <3>1. Writes("failed", TRUE)
      BY <2>3 DEF StepCut, Writes
    <3> QED
      BY <3>1
  <2>4. CASE WaitOver
    <3>1. Writes("ok", FALSE)
      BY <2>4 DEF WaitOver, Writes
    <3> QED
      BY <3>1
  <2>5. CASE \/ AskEvaluator \/ ResumeStep \/ AskPlanner \/ BoardOverBudget \/ PlannerError
             \/ OpenStep \/ ToolUnavailable \/ StartFinalize \/ Composed
             \/ NothingComposed \/ Exhausted
    BY <2>5, EndingSteps
  <2>6. CASE ~(\/ AskEvaluator \/ ResumeStep \/ AskPlanner \/ BoardOverBudget
               \/ PlannerError \/ OpenStep \/ ToolUnavailable \/ StartFinalize \/ Composed
               \/ NothingComposed \/ Exhausted \/ StartRun \/ StepCut \/ WaitOver
               \/ \E s \in {"ok", "partial", "failed"} : StepReviewed(s))
    BY <1>2, <2>6, QuietSteps DEF Serve
  <2> QED
    BY <2>1, <2>2, <2>3, <2>4, <2>5, <2>6
<1>3. CASE Crash
  BY <1>3, QuietForms DEF Crash
<1>4. CASE \E r \in RunIds : Expire(r)
  BY <1>4
<1>5. CASE UNCHANGED vars
  BY <1>5 DEF vars, Quiet
<1> QED
  BY <1>1, <1>2, <1>3, <1>4, <1>5 DEF Next

-----------------------------------------------------------------------------
(* What the module promises.                                               *)

\* Whatever is asked, answered, cut short and resumed, bundles, artifacts and stored
\* outcomes have the shape the types of the handler give them.
THEOREM ControllerTypeCorrect == Spec => []TypeOK
<1>1. CInv => TypeOK
  BY DEF CInv
<1> QED
  BY <1>1, InvHolds, PTL

LEMMA ApprovedAre ==
  ASSUME CInv, NEW r
  PROVE  Approved(r) = {x \in Of(results, r) : Accepted(x)}
<1>1. \A x \in results : x.status \in {"ok", "partial", "failed"}
  BY DEF CInv, TypeOK, Result
<1> QED
  BY <1>1 DEF Approved, Of, Accepted

LEMMA LockStepHolds == CInv => LockStep
<1> SUFFICES ASSUME CInv PROVE LockStep
  OBVIOUS
<1> DEFINE done == {x.seq : x \in Approved(disk.run)}
           n == disk.nextSeq
<1>1. /\ Sound(disk, results, minted) /\ n \in Nat
      /\ \A x \in results : x.seq \in Nat
  BY DEF CInv, Bundles, TypeOK, BundleRecord, Result
<1>2. disk.planned => disk.planCursor = n
  BY <1>1 DEF Sound, Cursors
<1>3. Approved(disk.run) = {x \in Of(results, disk.run) : Accepted(x)}
  BY ApprovedAre
<1>4. \A x \in Approved(disk.run) : x.seq \in 0..n
  BY <1>1, <1>3 DEF Sound, Artifacts, Of
<1>5. 0..n \ {n} \subseteq done
  BY <1>1, <1>3 DEF Sound, Artifacts
<1>6. CASE \E x \in Approved(disk.run) : x.seq = n
  <2>1. PICK x \in Approved(disk.run) : x.seq = n
    BY <1>6
  <2>2. /\ Executing(disk) /\ x.attempt = disk.inFlight.attempt
        /\ disk.inFlight.seq = n
    BY <1>1, <1>3, <2>1 DEF Sound, Artifacts, Cursors, Executing
  <2>3. x \in Committed(disk)
    BY <1>3, <2>1, <2>2 DEF Committed, Of
  <2>4. done = 0..n
    BY <1>4, <1>5, <2>1
  <2> QED
    BY <1>2, <2>2, <2>3, <2>4 DEF LockStep
<1>7. CASE ~\E x \in Approved(disk.run) : x.seq = n
  <2>1. done = 0..n \ {n}
    BY <1>4, <1>5, <1>7
  <2> QED
    BY <1>2, <2>1 DEF LockStep
<1> QED
  BY <1>6, <1>7

\* For every crash, suspension, retry and replan: the cursors of the persisted bundle
\* agree, and the approved artifacts are those of the steps before the next one, up to
\* one whose settling was cut short.
THEOREM CursorsAgree == Spec => []LockStep
  BY LockStepHolds, InvHolds, PTL

LEMMA BudgetsAreHeld == CInv => BudgetsHold
<1> SUFFICES ASSUME CInv PROVE BudgetsHold
  OBVIOUS
<1>1. /\ Sound(disk, results, minted) /\ Unique(results, minted) /\ Charged
  BY DEF CInv, Bundles
<1>2. {x \in results : x.run = disk.run} = Of(results, minted)
  BY <1>1 DEF Sound, Of
<1> QED
  BY <1>1, <1>2 DEF BudgetsHold, Unique, Charged, Sound, Capped

\* No sequence of crashes and resumes stretches a budget: attempts, resumes, tool and
\* role calls stay below their caps, and a run has fewer results than maxSteps and the
\* requests that may each adopt one uncharged.
THEOREM BudgetsAreKept == Spec => []BudgetsHold
  BY BudgetsAreHeld, InvHolds, PTL

LEMMA FinishedHolds == CInv => FinishedNotRerun
<1> SUFFICES ASSUME CInv PROVE FinishedNotRerun
  OBVIOUS
<1>1. at \in Places /\ Fits(at, mem, loc, results, terminal)
  BY DEF CInv, TypeOK
<1>2. at \in {"idle", "flip"} \cup Early \cup Working
  BY <1>1, PlacesAre
<1> QED
  BY <1>1, <1>2 DEF FinishedNotRerun, Early, Fits

\* A run whose outcome is stored is not worked on again, in any request and after any
\* crash between the terminal write and the flip of the bundle.
THEOREM FinishedStaysFinished == Spec => []FinishedNotRerun
  BY FinishedHolds, InvHolds, PTL

\* The attempt that is in flight has no artifact when one is written.
LEMMA WritesOnce ==
  ASSUME CInv, NEW s \in {"ok", "partial", "failed"}, NEW c \in BOOLEAN, Writes(s, c)
  PROVE  /\ CommittedIn(mem, results) = {}
         /\ mem.run = minted /\ mem.run \in RunIds
         /\ terminal[mem.run] \notin {"success", "error"}
         /\ mem.inFlight.seq = mem.nextSeq /\ mem.inFlight.attempt < MaxStepAttempts
         /\ mem.inFlight.attempt \in Nat /\ mem.nextSeq \in Nat
         /\ \A n \in 0..mem.nextSeq - 1 :
              \E x \in Of(results, minted) : x.seq = n /\ Accepted(x)
         /\ \A x \in Of(results, minted) : Accepted(x) => x.seq < mem.nextSeq
<1>1. /\ CommittedIn(mem, results) = {} /\ Executing(mem) /\ mem.inFlight \in StepRecord
      /\ Sound(mem, results, minted) /\ mem \in BundleRecord /\ mem.run \in RunIds
      /\ terminal[mem.run] \notin {"success", "error"} /\ results \in SUBSET Result
  BY StepIs, WorkingIs DEF Writes
<1>2. /\ mem.run = minted /\ mem.inFlight.seq = mem.nextSeq
      /\ mem.inFlight.attempt < MaxStepAttempts
  BY <1>1 DEF Sound, Cursors, Executing
<1>3. mem.inFlight.attempt \in Nat /\ mem.nextSeq \in Nat
  BY <1>1 DEF StepRecord, BundleRecord
<1>4. ASSUME NEW x \in Of(results, minted), Accepted(x)
      PROVE  x.seq < mem.nextSeq
  <2>1. x.seq <= mem.nextSeq /\ x.seq \in Nat
    BY <1>1, <1>2 DEF Sound, Artifacts, Of, Result
  <2>2. x.seq = mem.nextSeq => x \in CommittedIn(mem, results)
    BY <1>1, <1>2, <1>4 DEF Sound, Artifacts, CommittedIn, Of
  <2> QED
    BY <1>1, <1>3, <2>1, <2>2
<1>5. \A n \in 0..mem.nextSeq - 1 :
        \E x \in Of(results, minted) : x.seq = n /\ Accepted(x)
  BY <1>1, <1>2 DEF Sound, Artifacts
<1> QED
  BY <1>1, <1>2, <1>3, <1>4, <1>5

\* A crash between the artifact of an attempt and the bundle that takes it over never
\* makes the attempt run again: no second result is written for it.
THEOREM AttemptsCommitOnce == Spec => CommittedOnce
<1>1. CInv /\ [Next]_vars =>
        [\A x \in results' \ results, y \in results :
           ~(x.run = y.run /\ x.seq = y.seq /\ x.attempt = y.attempt)]_vars
  <2> SUFFICES ASSUME CInv, [Next]_vars,
                      NEW x \in results' \ results, NEW y \in results
               PROVE  ~(x.run = y.run /\ x.seq = y.seq /\ x.attempt = y.attempt)
    OBVIOUS
  <2>1. PICK s \in {"ok", "partial", "failed"}, c \in BOOLEAN : Writes(s, c)
    BY StepShape DEF Quiet, Starts, Ends, Expire
  <2>2. /\ x.run = mem.run /\ x.seq = mem.inFlight.seq
        /\ x.attempt = mem.inFlight.attempt
    BY <2>1 DEF Writes, WriteResult
  <2> QED
    BY <2>1, <2>2, WritesOnce DEF CommittedIn
<1> QED
  BY <1>1, InvHolds, PTL DEF Spec, CommittedOnce

\* An outcome is given to a run that has none.
LEMMA EndsOpen ==
  ASSUME CInv, NEW o \in {"success", "error"}, Ends(o)
  PROVE  /\ mem.run = minted /\ mem.run \in RunIds
         /\ terminal[mem.run] \notin {"success", "error"}
  BY WorkingIs DEF Ends, Sound

\* A stored outcome is never changed by a later step of any request: only its time to
\* live ends it.
THEOREM OutcomesStand == Spec => OutcomeStands
<1>1. CInv /\ [Next]_vars =>
        [\A r \in RunIds : terminal[r] \in {"success", "error"} =>
           terminal'[r] \in {terminal[r], "expired"}]_vars
  <2> SUFFICES ASSUME CInv, [Next]_vars,
                      NEW r \in RunIds, terminal[r] \in {"success", "error"}
               PROVE  terminal'[r] \in {terminal[r], "expired"}
    OBVIOUS
  <2>1. terminal \in [RunIds -> {"none", "success", "error", "expired"}]
    BY DEF CInv, TypeOK
  <2>2. CASE \E o \in {"success", "error"} : Ends(o)
    BY <2>1, <2>2, EndsOpen DEF Ends
  <2>3. CASE \E e \in RunIds : Expire(e)
    BY <2>1, <2>3 DEF Expire
  <2>4. CASE Quiet \/ Starts \/ \E s \in {"ok", "partial", "failed"}, c \in BOOLEAN :
                                  Writes(s, c)
    BY <2>4 DEF Quiet, Starts, Writes, WriteResult
  <2> QED
    BY <2>2, <2>3, <2>4, StepShape
<1> QED
  BY <1>1, InvHolds, PTL DEF Spec, OutcomeStands

\* A run is stored as a success only when every step of its plan has an approved
\* artifact, whatever was replanned, adopted, resumed or retried on the way.
THEOREM SuccessMeansDone == Spec => SuccessCompletesPlan
<1>1. CInv /\ [Next]_vars =>
        [\A r \in RunIds :
           terminal[r] # "success" /\ terminal'[r] = "success" =>
             /\ mem.planned
             /\ \A n \in 1..mem.plan : \E x \in Approved(r) : x.seq = n - 1]_vars
  <2> SUFFICES ASSUME CInv, [Next]_vars, NEW r \in RunIds,
                      terminal[r] # "success", terminal'[r] = "success"
               PROVE  /\ mem.planned
                      /\ \A n \in 1..mem.plan : \E x \in Approved(r) : x.seq = n - 1
    OBVIOUS
  <2>1. terminal \in [RunIds -> {"none", "success", "error", "expired"}]
    BY DEF CInv, TypeOK
  <2>2. Ends("success") /\ r = mem.run
    <3>1. ASSUME NEW e \in RunIds, Expire(e) PROVE FALSE
      BY <2>1, <3>1 DEF Expire
    <3>2. ~(Quiet \/ Starts \/ \E s \in {"ok", "partial", "failed"}, c \in BOOLEAN :
                                  Writes(s, c))
      BY DEF Quiet, Starts, Writes, WriteResult
    <3>3. PICK o \in {"success", "error"} : Ends(o)
      BY <3>1, <3>2, StepShape
    <3> QED
      BY <2>1, <3>3 DEF Ends
  <2>3. /\ Ran(mem) /\ Sound(mem, results, minted) /\ mem \in BundleRecord
    BY <2>2, FinalIs, WorkingIs DEF Ends
  <2>4. mem.planned /\ mem.plan <= mem.nextSeq /\ mem.plan \in Nat /\ mem.nextSeq \in Nat
    BY <2>3 DEF Ran, Sound, Cursors, BundleRecord
  <2>5. ASSUME NEW n \in 1..mem.plan
        PROVE  \E x \in Approved(r) : x.seq = n - 1
    <3>1. n - 1 \in 0..mem.nextSeq - 1
      BY <2>4
    <3>2. PICK x \in Of(results, mem.run) : x.seq = n - 1 /\ Accepted(x)
      BY <2>3, <3>1 DEF Sound, Artifacts
    <3> QED
      BY <2>2, <3>2, ApprovedAre
  <2> QED
    BY <2>4, <2>5
<1> QED
  BY <1>1, InvHolds, PTL DEF Spec, SuccessCompletesPlan

\* However often a wait is resumed, serving it does not end its run in an error.
THEOREM WaitsSurvive == Spec => WaitSurvives
<1>1. CInv /\ [Next]_vars =>
        [Executing(mem) /\ mem.inFlight.kind = "wait"
           /\ at \in {"loop", "wait", "sleeping"}
           => terminal'[mem.run] # "error"]_vars
  <2> SUFFICES ASSUME CInv, [Next]_vars, Executing(mem), IsWait(mem),
                      at \in {"loop", "wait", "sleeping"}
               PROVE  terminal'[mem.run] # "error"
    BY DEF IsWait
  <2>1. terminal \in [RunIds -> {"none", "success", "error", "expired"}]
    BY DEF CInv, TypeOK
  <2>2. at \in Working
    BY DEF Working
  <2>3. terminal[mem.run] # "error" /\ mem.run \in RunIds
    BY <2>2, WorkingIs
  <2>4. CASE \E e \in RunIds : Expire(e)
    BY <2>1, <2>3, <2>4 DEF Expire
  <2>5. CASE Quiet \/ Starts \/ \E s \in {"ok", "partial", "failed"}, c \in BOOLEAN :
                                  Writes(s, c)
    BY <2>3, <2>5 DEF Quiet, Starts, Writes, WriteResult
  <2>6. ~\E o \in {"success", "error"} : Ends(o)
    BY DEF Ends
  <2> QED
    BY <2>4, <2>5, <2>6, StepShape
<1> QED
  BY <1>1, InvHolds, PTL DEF Spec, WaitSurvives

-----------------------------------------------------------------------------
(* The runs of a session are those of RunLedger.                           *)

Pairs(R, r) == {<<x.seq, x.attempt>> : x \in {y \in Of(R, r) : Accepted(y)}}

\* What the refinement mapping takes for the accepted steps.
LEMMA AcceptedAre ==
  ASSUME CInv
  PROVE  [r \in RunIds |-> {<<x.seq, x.attempt>> : x \in Approved(r)}]
           = [r \in RunIds |-> Pairs(results, r)]
<1>1. \A r \in RunIds : {<<x.seq, x.attempt>> : x \in Approved(r)} = Pairs(results, r)
  BY ApprovedAre DEF Pairs
<1> QED
  BY <1>1

\* The steps before the next are accepted once each: there are as many as nextSeq.
LEMMA PairsCounted ==
  ASSUME NEW S, NEW n \in Nat,
         \A s \in S : \E i \in 0..n - 1, a \in Nat : s = <<i, a>>,
         \A i \in 0..n - 1 : \E a \in Nat : <<i, a>> \in S,
         \A i \in 0..n - 1 : \A a, e \in Nat : <<i, a>> \in S /\ <<i, e>> \in S => a = e
  PROVE  Cardinality(S) = n
<1> DEFINE pick(i) == CHOOSE a \in Nat : <<i - 1, a>> \in S
           f == [i \in 1..n |-> <<i - 1, pick(i)>>]
<1>1. ASSUME NEW i \in 1..n
      PROVE  pick(i) \in Nat /\ <<i - 1, pick(i)>> \in S
  <2>1. i - 1 \in 0..n - 1
    OBVIOUS
  <2>2. \E a \in Nat : <<i - 1, a>> \in S
    BY <2>1
  <2> QED
    BY <2>2
<1> HIDE DEF pick
<1>2. f \in [1..n -> S]
  BY <1>1
<1>3. \A i, j \in 1..n : f[i] = f[j] => i = j
  OBVIOUS
<1>4. ASSUME NEW s \in S
      PROVE  \E i \in 1..n : f[i] = s
  <2>1. PICK k \in 0..n - 1, a \in Nat : s = <<k, a>>
    OBVIOUS
  <2>2. k + 1 \in 1..n /\ (k + 1) - 1 = k
    OBVIOUS
  <2>3. pick(k + 1) \in Nat /\ <<k, pick(k + 1)>> \in S
    BY <1>1, <2>2
  <2>4. pick(k + 1) = a
    BY <2>1, <2>3
  <2>5. f[k + 1] = s
    BY <2>1, <2>2, <2>4
  <2> QED
    BY <2>2, <2>5
<1> HIDE DEF f
<1>5. f \in Bijection(1..n, S)
  BY <1>2, <1>3, <1>4 DEF Bijection, Injection, Surjection, IsInjective
<1>6. ExistsBijection(1..n, S)
  BY <1>5 DEF ExistsBijection
<1> QED
  BY <1>6, FS_CountingElements

LEMMA AcceptedCounted ==
  ASSUME CInv, NEW s \in {"ok", "partial", "failed"}, NEW c \in BOOLEAN, Writes(s, c)
  PROVE  Cardinality(Pairs(results, minted)) = mem.nextSeq
<1> DEFINE n == mem.nextSeq
           S == Pairs(results, minted)
<1>1. /\ n \in Nat
      /\ \A i \in 0..n - 1 : \E x \in Of(results, minted) : x.seq = i /\ Accepted(x)
      /\ \A x \in Of(results, minted) : Accepted(x) => x.seq < n
  BY WritesOnce
<1>2. /\ \A x \in Of(results, minted) : x.seq \in Nat /\ x.attempt \in Nat
      /\ \A x, y \in Of(results, minted) :
           x.seq = y.seq /\ Accepted(x) /\ Accepted(y) => x = y
  BY DEF CInv, TypeOK, Unique, Of, Result
<1> HIDE DEF n
<1>3. \A t \in S : \E i \in 0..n - 1, a \in Nat : t = <<i, a>>
  <2> SUFFICES ASSUME NEW x \in Of(results, minted), Accepted(x)
               PROVE  \E i \in 0..n - 1, a \in Nat : <<x.seq, x.attempt>> = <<i, a>>
    BY DEF Pairs
  <2>1. x.seq \in 0..n - 1
    BY <1>1, <1>2
  <2> QED
    BY <1>2, <2>1
<1>4. \A i \in 0..n - 1 : \E a \in Nat : <<i, a>> \in S
  BY <1>1, <1>2 DEF Pairs
<1>5. \A i \in 0..n - 1 : \A a, e \in Nat : <<i, a>> \in S /\ <<i, e>> \in S => a = e
  BY <1>2 DEF Pairs
<1> HIDE DEF S
<1>6. Cardinality(S) = n
  BY <1>1, <1>3, <1>4, <1>5, PairsCounted
<1> QED
  BY <1>6 DEF S, n

\* The runs of a session are worked on one after the other; each has its steps accepted
\* in order and once, and its outcome stored once, as RunLedger says: every step of the
\* controller is a step of the ledger or does not show in it.
THEOREM ControllerImplementsLedger == Spec => ImplementsLedger
<1> DEFINE acc(R) == [r \in RunIds |-> Pairs(R, r)]
<1>1. Init => Ledger!LedgerInit
  <2> SUFFICES ASSUME Init PROVE Ledger!LedgerInit
    OBVIOUS
  <2>1. CInv
    BY InvInit
  <2>2. \A r \in RunIds : Pairs(results, r) = {}
    BY DEF Init, Pairs, Of
  <2>3. [r \in RunIds |-> {<<x.seq, x.attempt>> : x \in Approved(r)}]
          = [r \in RunIds |-> {}]
    BY <2>1, <2>2, AcceptedAre
  <2>4. disk.run = 0 /\ terminal = [r \in RunIds |-> "none"]
    BY EmptyTyped DEF Init, NoRun
  <2> QED
    BY <2>3, <2>4 DEF Ledger!LedgerInit
<1>2. CInv /\ CInv' /\ [Next]_vars => [Ledger!LedgerNext]_(Ledger!rvars)
  <2> SUFFICES ASSUME CInv, CInv', [Next]_vars
               PROVE  [Ledger!LedgerNext]_(Ledger!rvars)
    OBVIOUS
  <2> DEFINE A == [r \in RunIds |-> {<<x.seq, x.attempt>> : x \in Approved(r)}]
  <2>1. A = acc(results) /\ A' = acc(results')
    <3>1. A = acc(results)
      BY AcceptedAre
    <3>2. A' = acc(results')
      <4>1. \A x \in results' : x.status \in {"ok", "partial", "failed"}
        BY DEF CInv, TypeOK, Result
      <4>2. \A r \in RunIds : Approved(r)' = {x \in Of(results', r) : Accepted(x)}
        BY <4>1 DEF Approved, Of, Accepted
      <4>3. \A r \in RunIds :
              {<<x.seq, x.attempt>> : x \in Approved(r)'} = Pairs(results', r)
        BY <4>2 DEF Pairs
      <4> QED
        BY <4>3
    <3> QED
      BY <3>1, <3>2
  <2>2. disk.run = minted /\ disk'.run = minted' /\ minted \in Nat
        /\ minted' \in Nat /\ minted' <= MaxRequests
    <3>1. disk.run = minted /\ minted \in Nat
      BY DEF CInv, Bundles, Sound, TypeOK
    <3>2. disk'.run = minted'
      BY DEF CInv, Bundles, Sound
    <3>3. minted' \in Nat /\ minted' <= requests' /\ requests' <= MaxRequests
          /\ requests' \in Nat
      BY DEF CInv, TypeOK
    <3> QED
      BY <3>1, <3>2, <3>3, CapsNat
  <2> HIDE DEF A
  <2>3. CASE Quiet
    BY <2>1, <2>2, <2>3 DEF Quiet, Ledger!rvars, A
  <2>4. CASE Starts
    <3>1. disk'.run = disk.run + 1 /\ disk.run + 1 \in RunIds /\ A' = A
          /\ terminal' = terminal
      BY <2>1, <2>2, <2>4, CapsNat DEF Starts, RunIds
    <3> QED
      BY <3>1 DEF Ledger!LedgerNext, Ledger!Supersede, A
  <2>5. CASE \E o \in {"success", "error"} : Ends(o)
    <3>1. PICK o \in {"success", "error"} : Ends(o)
      BY <2>5
    <3>2. /\ mem.run = minted /\ mem.run \in RunIds
          /\ terminal[mem.run] \notin {"success", "error"}
          /\ terminal' = [terminal EXCEPT ![mem.run] = o]
          /\ results' = results /\ minted' = minted
      BY <3>1, EndsOpen DEF Ends
    <3>3. /\ mem.run = disk.run /\ disk.run # 0 /\ disk'.run = disk.run /\ A' = A
          /\ terminal[disk.run] \notin {"success", "error"}
          /\ terminal' = [terminal EXCEPT ![disk.run] = o]
      BY <2>1, <2>2, <3>2 DEF RunIds
    <3> QED
      BY <3>3 DEF Ledger!LedgerNext, Ledger!Finish, Ledger!Open, A
  <2>6. CASE \E s \in {"ok", "partial", "failed"}, c \in BOOLEAN : Writes(s, c)
    <3>1. PICK s \in {"ok", "partial", "failed"}, c \in BOOLEAN : Writes(s, c)
      BY <2>6
    <3> DEFINE new == [run |-> mem.run, seq |-> mem.inFlight.seq,
                       attempt |-> mem.inFlight.attempt, status |-> s, cut |-> c]
    <3>2. /\ results' = results \cup {new} /\ minted' = minted /\ terminal' = terminal
      BY <3>1 DEF Writes, WriteResult, served
    <3>3. /\ mem.run = minted /\ mem.run \in RunIds
          /\ terminal[mem.run] \notin {"success", "error"}
          /\ mem.inFlight.seq = mem.nextSeq
          /\ mem.inFlight.attempt \in 0..MaxStepAttempts - 1
      BY <3>1, WritesOnce, CapsNat
    <3> PICK k \in 0..MaxStepAttempts - 1 : k = mem.inFlight.attempt
      BY <3>3
    <3>4. disk.run = minted /\ disk'.run = disk.run /\ disk.run # 0 /\ disk.run \in RunIds
      BY <2>2, <3>2, <3>3 DEF RunIds
    <3>5. /\ new.run = minted /\ new.seq = mem.nextSeq /\ new.attempt = k
          /\ new.status = s
      BY <3>3
    <3> HIDE DEF new
    <3>6. ASSUME NEW r \in RunIds
          PROVE  Pairs(results', r) =
                   IF r = minted /\ s # "failed"
                   THEN Pairs(results, r) \cup {<<mem.nextSeq, k>>}
                   ELSE Pairs(results, r)
      <4> DEFINE G(R) == {y \in Of(R, r) : Accepted(y)}
      <4>1. G(results') = IF r = minted /\ s # "failed" THEN G(results) \cup {new}
                                                       ELSE G(results)
        BY <3>2, <3>5 DEF Of, Accepted
      <4>2. Pairs(results', r) = {<<x.seq, x.attempt>> : x \in G(results')}
            /\ Pairs(results, r) = {<<x.seq, x.attempt>> : x \in G(results)}
        BY DEF Pairs
      <4> HIDE DEF G
      <4> QED
        BY <3>5, <4>1, <4>2
    <3>7. CASE s = "failed"
      <4>1. A' = A
        BY <2>1, <3>6, <3>7
      <4> QED
        BY <3>2, <3>4, <4>1 DEF Ledger!rvars, A
    <3>8. CASE s # "failed"
      <4>1. Cardinality(A[disk.run]) = mem.nextSeq
        BY <2>1, <3>1, <3>4, AcceptedCounted
      <4>2. A' = [A EXCEPT ![disk.run] = @ \cup {<<Cardinality(@), k>>}]
        <5>1. A' = [A EXCEPT ![disk.run] = A[disk.run] \cup {<<mem.nextSeq, k>>}]
          BY <2>1, <3>4, <3>6, <3>8
        <5> QED
          BY <4>1, <5>1
      <4>3. Ledger!Cardinality(A[disk.run]) = Cardinality(A[disk.run])
        BY Zenon DEF Ledger!Cardinality, Cardinality
      <4>4. Ledger!Accept(k)
        BY <3>2, <3>3, <3>4, <4>2, <4>3 DEF Ledger!Accept, Ledger!Open, A
      <4> QED
        BY <4>4 DEF Ledger!LedgerNext
    <3> QED
      BY <3>7, <3>8
  <2>7. CASE \E r \in RunIds : Expire(r)
    <3>1. PICK r \in RunIds : Expire(r)
      BY <2>7
    <3>2. disk'.run = disk.run /\ A' = A /\ Ended(r)
          /\ terminal' = [terminal EXCEPT ![r] = "expired"]
      BY <2>1, <2>2, <3>1 DEF Expire
    <3> QED
      BY <3>2 DEF Ledger!LedgerNext, Ledger!Forget, Ledger!Open, Ended, A
  <2> QED
    BY <2>3, <2>4, <2>5, <2>6, <2>7, StepShape
<1> QED
  BY <1>1, <1>2, InvHolds, PTL DEF Spec, ImplementsLedger, Ledger!LedgerSpec

=============================================================================
