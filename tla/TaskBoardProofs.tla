--------------------------- MODULE TaskBoardProofs ---------------------------
(***************************************************************************)
(* The slots of TaskBoard and its refinement of Tasks, proved for every    *)
(* set of tasks and every number of slots.                                 *)
(***************************************************************************)
EXTENDS TaskBoard, FiniteSetTheorems, SequenceTheorems, TLAPS

-----------------------------------------------------------------------------
(* The queue.                                                              *)

\* The head of a queue without repetitions leaves it.
LEMMA TailShrinks ==
  ASSUME NEW S, NEW q \in Seq(S), q # <<>>, IsInjective(q)
  PROVE  /\ Head(q) \in Range(q) /\ Tail(q) \in Seq(S)
         /\ IsInjective(Tail(q)) /\ Range(Tail(q)) = Range(q) \ {Head(q)}
<1>1. /\ Len(q) \in Nat \ {0} /\ DOMAIN q = 1..Len(q) /\ Head(q) = q[1]
      /\ Tail(q) \in Seq(S) /\ DOMAIN Tail(q) = 1..(Len(q) - 1)
      /\ \A i \in 1..(Len(q) - 1) : Tail(q)[i] = q[i + 1]
  BY EmptySeq, LenProperties, HeadTailProperties
<1>2. IsInjective(Tail(q))
  BY <1>1 DEF IsInjective
<1>3. ASSUME NEW x \in Range(q), x # Head(q)
      PROVE  x \in Range(Tail(q))
  <2>1. PICK i \in 1..Len(q) : q[i] = x
    BY <1>1, <1>3 DEF Range
  <2>2. i - 1 \in 1..(Len(q) - 1) /\ Tail(q)[i - 1] = x
    BY <1>1, <1>3, <2>1
  <2> QED
    BY <1>1, <2>2 DEF Range
<1>4. ASSUME NEW x \in Range(Tail(q))
      PROVE  x \in Range(q) \ {Head(q)}
  <2>1. PICK i \in 1..(Len(q) - 1) : q[i + 1] = x
    BY <1>1, <1>4 DEF Range
  <2>2. i + 1 \in 1..Len(q) /\ i + 1 # 1 /\ 1 \in 1..Len(q)
    BY <1>1, <2>1
  <2> QED
    BY <1>1, <2>1, <2>2 DEF Range, IsInjective
<1>5. Head(q) \in Range(q)
  BY <1>1 DEF Range
<1> QED
  BY <1>1, <1>2, <1>3, <1>4, <1>5

\* A newcomer goes to the end of the queue.
LEMMA AppendGrows ==
  ASSUME NEW S, NEW q \in Seq(S), IsInjective(q), NEW e \in S, e \notin Range(q)
  PROVE  /\ Append(q, e) \in Seq(S)
         /\ IsInjective(Append(q, e)) /\ Range(Append(q, e)) = Range(q) \cup {e}
<1> DEFINE n == Len(q)  a == Append(q, e)
<1>1. /\ n \in Nat /\ DOMAIN q = 1..n /\ a \in Seq(S) /\ DOMAIN a = 1..(n + 1)
      /\ a[n + 1] = e /\ \A i \in 1..n : a[i] = q[i]
  BY LenProperties, AppendProperties
<1> HIDE DEF n, a
<1>2. \A i \in 1..(n + 1) : i \in 1..n \/ i = n + 1
  BY <1>1
<1>3. IsInjective(a)
  BY <1>1, <1>2 DEF IsInjective, Range
<1>4. Range(a) \subseteq Range(q) \cup {e}
  BY <1>1, <1>2 DEF Range
<1>5. Range(q) \cup {e} \subseteq Range(a)
  <2>1. 1..n \subseteq 1..(n + 1) /\ n + 1 \in 1..(n + 1)
    BY <1>1
  <2> QED
    BY <1>1, <2>1 DEF Range
<1> QED
  BY <1>1, <1>3, <1>4, <1>5 DEF a

\* A waiter that gives up leaves the others in their order.
LEMMA RemoveShrinks ==
  ASSUME NEW S, NEW q \in Seq(S), IsInjective(q), NEW i \in 1..Len(q)
  PROVE  /\ RemoveAt(q, i) \in Seq(S)
         /\ IsInjective(RemoveAt(q, i))
         /\ Range(RemoveAt(q, i)) = Range(q) \ {q[i]}
<1> DEFINE n == Len(q)  s == SubSeq(q, 1, i - 1)  t == SubSeq(q, i + 1, n)
           r == s \o t
<1>1. n \in Nat /\ DOMAIN q = 1..n /\ i \in Int /\ 1 <= i /\ i <= n
      /\ \A j \in 1..n : q[j] \in S
  BY LenProperties, ElementOfSeq
<1> HIDE DEF n
<1>2. /\ s \in Seq(S) /\ Len(s) = i - 1
      /\ \A j \in 1..(i - 1) : s[j] = q[j]
  <2>1. \A j \in 1..(i - 1) : q[j] \in S
    BY <1>1
  <2> QED
    BY <1>1, <2>1, SubSeqProperties
<1>3. /\ t \in Seq(S) /\ Len(t) = n - i
      /\ \A j \in 1..(n - i) : t[j] = q[j + i]
  <2>1. \A j \in (i + 1)..n : q[j] \in S
    BY <1>1
  <2>2. /\ i + 1 \in Int /\ n - (i + 1) + 1 = n - i
        /\ ~(i + 1 <= n) => n - i = 0
        /\ \A j \in 1..(n - i) : (i + 1) + j - 1 = j + i
    BY <1>1
  <2>3. /\ t \in Seq(S) /\ Len(t) = IF i + 1 <= n THEN n - (i + 1) + 1 ELSE 0
        /\ \A j \in 1..(n - (i + 1) + 1) : t[j] = q[(i + 1) + j - 1]
    BY <1>1, <2>1, <2>2, SubSeqProperties
  <2> HIDE DEF t
  <2> QED
    BY <2>2, <2>3
<1> HIDE DEF s, t
<1>4. /\ r \in Seq(S) /\ Len(r) = n - 1
      /\ \A j \in 1..(n - 1) : r[j] = IF j <= i - 1 THEN s[j] ELSE t[j - (i - 1)]
  <2>1. Len(s) + Len(t) = n - 1
    BY <1>1, <1>2, <1>3
  <2>2. /\ r \in Seq(S) /\ Len(r) = Len(s) + Len(t)
        /\ \A j \in 1..(Len(s) + Len(t)) :
             r[j] = IF j <= Len(s) THEN s[j] ELSE t[j - Len(s)]
    BY <1>2, <1>3, ConcatProperties
  <2> HIDE DEF r
  <2> QED
    BY <1>2, <2>1, <2>2
<1> HIDE DEF r
<1>5. DOMAIN r = 1..(n - 1)
  BY <1>4, LenProperties
<1>6. \A j \in 1..(n - 1) : r[j] = IF j <= i - 1 THEN q[j] ELSE q[j + 1]
  <2>1. ASSUME NEW j \in 1..(n - 1), ~(j <= i - 1)
        PROVE  j - (i - 1) \in 1..(n - i) /\ (j - (i - 1)) + i = j + 1
    BY <1>1, <2>1
  <2>2. ASSUME NEW j \in 1..(n - 1), j <= i - 1
        PROVE  j \in 1..(i - 1)
    BY <1>1, <2>2
  <2> QED
    BY <1>2, <1>3, <1>4, <2>1, <2>2
<1>7. IsInjective(r)
  BY <1>1, <1>5, <1>6 DEF IsInjective
<1>8. ASSUME NEW x \in Range(q), x # q[i]
      PROVE  x \in Range(r)
  <2>1. PICK j \in 1..n : q[j] = x
    BY <1>1, <1>8 DEF Range
  <2>2. CASE j < i
    <3>1. j \in 1..(n - 1) /\ r[j] = x
      BY <1>1, <1>6, <2>1, <2>2
    <3> QED
      BY <1>5, <3>1 DEF Range
  <2>3. CASE j > i
    <3>1. j - 1 \in 1..(n - 1) /\ r[j - 1] = x
      BY <1>1, <1>6, <2>1, <2>3
    <3> QED
      BY <1>5, <3>1 DEF Range
  <2> QED
    BY <1>1, <1>8, <2>1, <2>2, <2>3
<1>9. ASSUME NEW x \in Range(r)
      PROVE  x \in Range(q) \ {q[i]}
  <2>1. PICK j \in 1..(n - 1) : r[j] = x
    BY <1>5, <1>9 DEF Range
  <2>2. PICK k \in 1..n : k # i /\ q[k] = x
    BY <1>1, <1>6, <2>1
  <2> QED
    BY <1>1, <2>2 DEF Range, IsInjective
<1>10. r = RemoveAt(q, i)
  BY DEF r, s, t, n, RemoveAt
<1> QED
  BY <1>4, <1>7, <1>8, <1>9, <1>10

-----------------------------------------------------------------------------
(* The inductive invariant.                                                *)

Holders == {t \in Tasks : Holding(t)}
Waiters == {t \in Tasks : task[t].at = "waiting"}

\* The state of a record says where execute() stands.
Agrees(x) ==
  /\ x.at = "none" <=> x.state = "none"
  /\ x.at = "waiting" => x.state = "queued" /\ ~x.stop
  /\ x.at = "granted" => x.state = IF x.stop THEN "stopped" ELSE "queued"
  /\ x.at \in {"running", "storing"} => x.state = "running"
  /\ x.at = "storing" => x.kind # "none"
  /\ x.at = "out" => x.state \notin {"none", "queued", "running"}

BoardInv ==
  /\ BoardTypeOK /\ SlotsUsed /\ IsFiniteSet(Holders)
  /\ \A t \in Tasks : Agrees(task[t])

\* SlotsUsed, by the names of the two sets.
LEMMA SlotsNamed ==
  /\ SlotsUsed <=>
       /\ Cardinality(Holders) <= MaxConcurrent
       /\ fifo # <<>> => Cardinality(Holders) = MaxConcurrent
       /\ IsInjective(fifo) /\ Range(fifo) = Waiters
  /\ SlotsUsed' <=>
       /\ Cardinality(Holders') <= MaxConcurrent
       /\ fifo' # <<>> => Cardinality(Holders') = MaxConcurrent
       /\ IsInjective(fifo') /\ Range(fifo') = Waiters'
BY DEF SlotsUsed, active, Holders, Waiters

LEMMA InitBoardInv == BoardInit => BoardInv
<1> SUFFICES ASSUME BoardInit PROVE BoardInv
  OBVIOUS
<1>1. NoTask \in Records /\ Agrees(NoTask)
  BY DEF NoTask, Records, Agrees, States, Stages
<1>2. BoardTypeOK
  BY <1>1, EmptySeq DEF BoardInit, BoardTypeOK
<1>3. Holders = {} /\ Waiters = {}
  BY DEF BoardInit, Holders, Waiters, Holding, NoTask
<1>4. fifo = <<>> /\ IsInjective(fifo) /\ Range(fifo) = {}
  <2>1. fifo = <<>> /\ DOMAIN fifo = {}
    BY DEF BoardInit
  <2> QED
    BY <2>1 DEF IsInjective, Range
<1>5. SlotsUsed
  BY <1>3, <1>4, FS_EmptySet, TaskBoardAssumption, SlotsNamed DEF TaskBoardAssumption
<1> QED
  BY <1>1, <1>2, <1>3, <1>5, FS_EmptySet DEF BoardInv, BoardInit

-----------------------------------------------------------------------------
(* Slots.                                                                  *)

\* Nobody takes or gives back a slot, or comes to wait.
LEMMA SlotsStay ==
  ASSUME BoardInv, fifo' = fifo,
         \A t \in Tasks : /\ Holding(t)' <=> Holding(t)
                          /\ task'[t].at = "waiting" <=> task[t].at = "waiting"
  PROVE  SlotsUsed' /\ IsFiniteSet(Holders)'
<1>1. Holders' = Holders /\ Waiters' = Waiters
  BY DEF Holders, Waiters
<1> QED
  BY <1>1 DEF BoardInv, SlotsUsed, active, Holders, Waiters

\* Nobody waits while a slot is free.
LEMMA WaitersQueued ==
  ASSUME BoardInv
  PROVE  /\ Range(fifo) = Waiters /\ IsInjective(fifo) /\ fifo \in Seq(Tasks)
         /\ active = Cardinality(Holders) /\ active \in Nat
         /\ active <= MaxConcurrent
         /\ fifo # <<>> => active = MaxConcurrent
BY FS_CardinalityType DEF BoardInv, SlotsUsed, BoardTypeOK, active, Holders, Waiters

\* The holder t gives its slot back, and x is what is left of it.
LEMMA SlotHandedOn ==
  ASSUME BoardInv, NEW t \in Tasks, Holding(t),
         NEW x \in Records, x.at \in {"storing", "out"}, Agrees(x), Freed(t, x)
  PROVE  /\ task' \in [Tasks -> Records] /\ fifo' \in Seq(Tasks)
         /\ SlotsUsed' /\ IsFiniteSet(Holders)'
         /\ \A u \in Tasks : Agrees(task'[u])
         /\ task'[t] = x
         /\ \A u \in Tasks \ {t} : task'[u].state = task[u].state
                                    /\ task'[u].events = task[u].events
<1>1. /\ task \in [Tasks -> Records] /\ t \in Holders /\ IsFiniteSet(Holders)
      /\ \A u \in Tasks : Agrees(task[u])
  BY DEF BoardInv, BoardTypeOK, Holders
<1>2. MaxConcurrent \in Nat /\ 1 <= MaxConcurrent
  BY TaskBoardAssumption DEF TaskBoardAssumption
<1>3. CASE fifo = <<>>
  <2>1. task' = [task EXCEPT ![t] = x] /\ fifo' = fifo
    BY <1>3 DEF Freed
  <2>2. Holders' = Holders \ {t} /\ Waiters' = Waiters
    BY <1>1, <2>1 DEF Holders, Waiters, Holding
  <2>3. IsFiniteSet(Holders') /\ Cardinality(Holders') = Cardinality(Holders) - 1
    BY <1>1, <2>2, FS_RemoveElement
  <2>4. SlotsUsed'
    BY <1>2, <1>3, <2>1, <2>2, <2>3, WaitersQueued, SlotsNamed
  <2> QED
    BY <1>1, <2>1, <2>3, <2>4 DEF BoardInv, BoardTypeOK
<1>4. CASE fifo # <<>>
  <2> DEFINE h == Head(fifo)
  <2>1. /\ h \in Waiters /\ Tail(fifo) \in Seq(Tasks) /\ IsInjective(Tail(fifo))
        /\ Range(Tail(fifo)) = Waiters \ {h}
    BY <1>4, WaitersQueued, TailShrinks
  <2>2. h \in Tasks /\ h # t /\ h \notin Holders
    BY <1>1, <2>1 DEF Waiters, Holders, Holding
  <2>3. task' = [task EXCEPT ![t] = x, ![h].at = "granted"] /\ fifo' = Tail(fifo)
    BY <1>4 DEF Freed
  <2> HIDE DEF h
  <2>4. /\ task'[t] = x /\ task'[h] = [task[h] EXCEPT !.at = "granted"]
        /\ \A u \in Tasks \ {t, h} : task'[u] = task[u]
        /\ DOMAIN task' = Tasks
    BY <1>1, <2>2, <2>3
  <2>5. /\ task'[h] \in Records /\ task'[h].at = "granted"
        /\ task'[h].state = task[h].state /\ task'[h].events = task[h].events
        /\ task'[h].stop = task[h].stop
    BY <1>1, <2>2, <2>4 DEF Records, Stages
  <2>6. task' \in [Tasks -> Records]
    <3>1. task' = [u \in Tasks |-> task'[u]]
      BY <1>1, <2>3
    <3>2. \A u \in Tasks : task'[u] \in Records
      BY <1>1, <2>4, <2>5
    <3> QED
      BY <3>1, <3>2
  <2>7. Agrees(task'[h])
    BY <1>1, <2>1, <2>2, <2>5 DEF Agrees, Waiters
  <2>8. Holders' = (Holders \ {t}) \cup {h} /\ Waiters' = Waiters \ {h}
    <3>1. t \notin Waiters /\ t \notin Holders' /\ t \notin Waiters'
      BY <1>1, <2>4 DEF Holders, Waiters, Holding
    <3>2. h \in Holders' /\ h \notin Waiters'
      BY <2>2, <2>5 DEF Holders, Waiters, Holding
    <3>3. \A u \in Tasks \ {t, h} :
            /\ u \in Holders' <=> u \in Holders
            /\ u \in Waiters' <=> u \in Waiters
      BY <2>4 DEF Holders, Waiters, Holding
    <3>4. /\ Holders \subseteq Tasks /\ Holders' \subseteq Tasks
          /\ Waiters \subseteq Tasks /\ Waiters' \subseteq Tasks
      BY DEF Holders, Waiters
    <3> QED
      BY <1>1, <2>1, <2>2, <3>1, <3>2, <3>3, <3>4
  <2>9. IsFiniteSet(Holders') /\ Cardinality(Holders') = Cardinality(Holders)
    <3>1. /\ IsFiniteSet(Holders \ {t})
          /\ Cardinality(Holders \ {t}) = Cardinality(Holders) - 1
      BY <1>1, FS_RemoveElement
    <3>2. /\ IsFiniteSet(Holders')
          /\ Cardinality(Holders') = Cardinality(Holders \ {t}) + 1
      BY <2>2, <2>8, <3>1, FS_AddElement
    <3> QED
      BY <1>1, <3>1, <3>2, FS_CardinalityType
  <2>10. SlotsUsed'
    BY <1>4, <2>1, <2>3, <2>8, <2>9, WaitersQueued, SlotsNamed
  <2> QED
    BY <1>1, <2>1, <2>3, <2>4, <2>5, <2>6, <2>7, <2>9, <2>10
<1> QED
  BY <1>3, <1>4

-----------------------------------------------------------------------------
(* Every action keeps the invariant.                                       *)

LEMMA StartKeeps ==
  ASSUME BoardInv, NEW t \in Tasks, Start(t)
  PROVE  BoardInv'
<1>1. /\ task \in [Tasks -> Records] /\ task[t] = NoTask /\ IsFiniteSet(Holders)
      /\ \A u \in Tasks : Agrees(task[u])
      /\ awaited' = awaited /\ called' = called
  BY DEF BoardInv, BoardTypeOK, Start
<1>2. t \notin Holders /\ t \notin Waiters
  BY <1>1 DEF NoTask, Holders, Waiters, Holding
<1>3. MaxConcurrent \in Nat
  BY TaskBoardAssumption DEF TaskBoardAssumption
<1>4. CASE active < MaxConcurrent
  <2>1. fifo' = fifo /\ fifo = <<>>
        /\ task' = [task EXCEPT ![t].state = "queued", ![t].at = "granted"]
    BY <1>3, <1>4, WaitersQueued DEF Start
  <2>2. task'[t] \in Records /\ Agrees(task'[t]) /\ task'[t].at = "granted"
    BY <1>1, <2>1 DEF Records, Agrees, NoTask, Stages, States
  <2>3. task' \in [Tasks -> Records] /\ \A u \in Tasks \ {t} : task'[u] = task[u]
    BY <1>1, <2>1, <2>2
  <2>4. Holders' = Holders \cup {t} /\ Waiters' = Waiters
    BY <1>2, <2>2, <2>3 DEF Holders, Waiters, Holding
  <2>5. IsFiniteSet(Holders') /\ Cardinality(Holders') = Cardinality(Holders) + 1
    BY <1>1, <1>2, <2>4, FS_AddElement
  <2>6. SlotsUsed'
    BY <1>3, <1>4, <2>1, <2>4, <2>5, WaitersQueued, SlotsNamed
  <2> QED
    BY <1>1, <2>1, <2>2, <2>3, <2>5, <2>6 DEF BoardInv, BoardTypeOK
<1>5. CASE ~(active < MaxConcurrent)
  <2>1. fifo' = Append(fifo, t)
        /\ task' = [task EXCEPT ![t].state = "queued", ![t].at = "waiting"]
    BY <1>5 DEF Start
  <2>2. task'[t] \in Records /\ Agrees(task'[t]) /\ task'[t].at = "waiting"
    BY <1>1, <2>1 DEF Records, Agrees, NoTask, Stages, States
  <2>3. task' \in [Tasks -> Records] /\ \A u \in Tasks \ {t} : task'[u] = task[u]
    BY <1>1, <2>1, <2>2
  <2>4. Holders' = Holders /\ Waiters' = Waiters \cup {t}
    BY <1>2, <2>2, <2>3 DEF Holders, Waiters, Holding
  <2>5. /\ fifo' \in Seq(Tasks) /\ IsInjective(fifo')
        /\ Range(fifo') = Waiters \cup {t}
    BY <1>2, <2>1, WaitersQueued, AppendGrows
  <2>6. active = MaxConcurrent
    BY <1>3, <1>5, WaitersQueued
  <2>7. SlotsUsed'
    BY <1>3, <2>4, <2>5, <2>6, WaitersQueued, SlotsNamed
  <2> QED
    BY <1>1, <2>2, <2>3, <2>4, <2>5, <2>7 DEF BoardInv, BoardTypeOK
<1> QED
  BY <1>4, <1>5

LEMMA GrantedKeeps ==
  ASSUME BoardInv, NEW t \in Tasks, Granted(t)
  PROVE  BoardInv'
<1>1. /\ task \in [Tasks -> Records] /\ task[t].at = "granted" /\ Holding(t)
      /\ \A u \in Tasks : Agrees(task[u])
      /\ awaited \subseteq Tasks /\ called' = called /\ called \in BOOLEAN
      /\ fifo \in Seq(Tasks)
  BY DEF BoardInv, BoardTypeOK, Granted, Holding
<1>2. CASE task[t].stop
  <2> DEFINE x == [task[t] EXCEPT !.at = "out"]
  <2>1. Freed(t, x) /\ awaited' \subseteq Tasks
    BY <1>1, <1>2 DEF Granted, Gone
  <2>2. x \in Records /\ x.at = "out" /\ Agrees(x)
    BY <1>1, <1>2 DEF Records, Agrees, Stages
  <2> HIDE DEF x
  <2> QED
    BY <1>1, <2>1, <2>2, SlotHandedOn DEF BoardInv, BoardTypeOK
<1>3. CASE ~task[t].stop
  <2>1. /\ task' = [task EXCEPT ![t].at = "running", ![t].state = "running"]
        /\ fifo' = fifo /\ awaited' = awaited
    BY <1>1, <1>3 DEF Granted
  <2>2. task'[t] \in Records /\ Agrees(task'[t]) /\ task'[t].at = "running"
    BY <1>1, <2>1 DEF Records, Agrees, Stages, States
  <2>3. task' \in [Tasks -> Records] /\ \A u \in Tasks \ {t} : task'[u] = task[u]
    BY <1>1, <2>1, <2>2
  <2>4. SlotsUsed' /\ IsFiniteSet(Holders)'
    BY <1>1, <2>1, <2>2, <2>3, SlotsStay DEF Holding
  <2> QED
    BY <1>1, <2>1, <2>2, <2>3, <2>4 DEF BoardInv, BoardTypeOK
<1> QED
  BY <1>2, <1>3

\* A record of which the task has settled.
LEMMA SettledFacts ==
  ASSUME NEW t, NEW x \in Records, NEW o \in {"done", "failed", "stopped", "interrupted"}
  PROVE  /\ Settled(t, x, o) \in Records /\ Agrees(Settled(t, x, o))
         /\ Settled(t, x, o).at = "out" /\ Settled(t, x, o).state = o
         /\ Settled(t, x, o).events = x.events + 1
<1> DEFINE n == x.events + 1
<1>1. n \in Nat
  BY DEF Records
<1>2. Settled(t, x, o) =
        [x EXCEPT !.at = "out", !.state = o, !.put = "none", !.kind = "none",
                  !.stop = FALSE, !.cancel = FALSE, !.events = n]
  BY DEF Settled
<1> HIDE DEF n
<1>3. /\ Settled(t, x, o) \in Records
      /\ Settled(t, x, o).at = "out" /\ Settled(t, x, o).state = o
      /\ Settled(t, x, o).events = n
  BY <1>1, <1>2 DEF Records, Stages, States
<1> QED
  BY <1>3 DEF Agrees, n

\* The worker of t has ended, one way or another.
LEMMA FinishKeeps ==
  ASSUME BoardInv, NEW t \in Tasks, task[t].at = "running",
         NEW kind \in {"done", "failed", "stopped"}, Finish(t, kind), called' = called
  PROVE  BoardInv'
<1>1. /\ task[t] \in Records /\ Holding(t) /\ Agrees(task[t])
      /\ awaited \subseteq Tasks /\ called' \in BOOLEAN
  BY DEF BoardInv, BoardTypeOK, Holding
<1>2. CASE ResultStore
  <2> DEFINE x == [task[t] EXCEPT !.at = "storing", !.kind = kind, !.put = Opens(task[t])]
  <2>1. Freed(t, x) /\ awaited' = awaited
    BY <1>2 DEF Finish
  <2>2. x \in Records /\ x.at = "storing" /\ Agrees(x)
    BY <1>1 DEF Records, Agrees, Stages, States, Opens
  <2> HIDE DEF x
  <2> QED
    BY <1>1, <2>1, <2>2, SlotHandedOn DEF BoardInv, BoardTypeOK
<1>3. CASE ~ResultStore
  <2> DEFINE x == Settled(t, task[t], kind)
  <2>1. Freed(t, x) /\ awaited' \subseteq Tasks
    BY <1>1, <1>3 DEF Finish, Gone
  <2>2. x \in Records /\ x.at = "out" /\ Agrees(x)
    BY <1>1, SettledFacts
  <2> HIDE DEF x
  <2> QED
    BY <1>1, <2>1, <2>2, SlotHandedOn DEF BoardInv, BoardTypeOK
<1> QED
  BY <1>2, <1>3

\* The write of its result has ended.
LEMMA StoredKeeps ==
  ASSUME BoardInv, NEW t \in Tasks, task[t].at = "storing",
         NEW o \in {"done", "failed", "stopped", "interrupted"},
         task' = [task EXCEPT ![t] = Settled(t, task[t], o)], Gone(t),
         fifo' = fifo, called' = called
  PROVE  BoardInv'
<1>1. /\ task \in [Tasks -> Records] /\ task[t] \in Records /\ Agrees(task[t])
      /\ awaited' \subseteq Tasks /\ called' \in BOOLEAN
      /\ \A u \in Tasks : Agrees(task[u])
  BY DEF BoardInv, BoardTypeOK, Gone
<1>2. task'[t] \in Records /\ task'[t].at = "out" /\ Agrees(task'[t])
  BY <1>1, SettledFacts
<1>3. task' \in [Tasks -> Records] /\ \A u \in Tasks \ {t} : task'[u] = task[u]
  BY <1>1, <1>2
<1>4. SlotsUsed' /\ IsFiniteSet(Holders)'
  BY <1>2, <1>3, SlotsStay DEF Holding
<1> QED
  BY <1>1, <1>2, <1>3, <1>4 DEF BoardInv, BoardTypeOK

\* What stop() makes of an entry.
LEMMA StoppedFacts ==
  ASSUME NEW x \in Records, Agrees(x), x.at \notin {"none", "out"}
  PROVE  /\ Stopped(x) \in Records /\ Agrees(Stopped(x))
         /\ x.at # "waiting" => Stopped(x).at = x.at
         /\ x.at = "waiting" => Stopped(x).at = "out"
         /\ x.state = "queued" =>
              Stopped(x).state = "stopped" /\ Stopped(x).events = x.events + 1
         /\ x.state # "queued" =>
              Stopped(x).state = x.state /\ Stopped(x).events = x.events
<1>1. x.at \in {"waiting", "granted", "running", "storing"}
  BY DEF Records, Stages
<1>2. CASE x.at = "storing"
  <2>1. Stopped(x) = [x EXCEPT !.put = "aborted"]
    BY <1>2 DEF Stopped
  <2> QED
    BY <1>2, <2>1 DEF Records, Agrees
<1>3. CASE x.at = "waiting"
  <2> DEFINE n == x.events + 1
  <2>1. Stopped(x) = [x EXCEPT !.at = "out", !.state = "stopped", !.events = n]
    BY <1>3 DEF Stopped
  <2>2. n \in Nat
    BY DEF Records
  <2> HIDE DEF n
  <2>3. Stopped(x) \in Records /\ Agrees(Stopped(x))
        /\ Stopped(x).at = "out" /\ Stopped(x).state = "stopped" /\ Stopped(x).events = n
    BY <2>1, <2>2 DEF Records, Agrees, Stages, States
  <2> QED
    BY <1>3, <2>3 DEF n, Agrees
<1>4. CASE x.at = "granted" /\ ~x.stop
  <2> DEFINE n == x.events + 1
  <2>1. Stopped(x) = [x EXCEPT !.stop = TRUE, !.state = "stopped", !.events = n]
    BY <1>4 DEF Stopped
  <2>2. n \in Nat
    BY DEF Records
  <2> HIDE DEF n
  <2>3. /\ Stopped(x) \in Records /\ Stopped(x).stop = TRUE
        /\ Stopped(x).at = x.at /\ Stopped(x).state = "stopped" /\ Stopped(x).events = n
    BY <2>1, <2>2 DEF Records, States
  <2> QED
    BY <1>4, <2>3 DEF n, Agrees
<1>5. CASE x.at = "granted" /\ x.stop
  <2>1. Stopped(x) = x
    BY <1>5 DEF Stopped
  <2> QED
    BY <1>5, <2>1 DEF Agrees
<1>6. CASE x.at = "running"
  <2>1. Stopped(x) = [x EXCEPT !.stop = TRUE]
    BY <1>6 DEF Stopped
  <2> QED
    BY <1>6, <2>1 DEF Records, Agrees
<1> QED
  BY <1>1, <1>2, <1>3, <1>4, <1>5, <1>6

LEMMA StopKeeps ==
  ASSUME BoardInv, NEW t \in Tasks, Stop(t)
  PROVE  BoardInv'
<1>1. /\ task \in [Tasks -> Records] /\ task[t] \in Records /\ Agrees(task[t])
      /\ \A u \in Tasks : Agrees(task[u]) /\ IsFiniteSet(Holders)
      /\ awaited' \subseteq Tasks /\ called' \in BOOLEAN
      /\ task' = [task EXCEPT ![t] = Stopped(task[t])] /\ fifo' = Unqueued(t)
      /\ task[t].at \notin {"none", "out"}
  BY DEF BoardInv, BoardTypeOK, Stop, HasEntry
<1>2. task'[t] \in Records /\ Agrees(task'[t]) /\ task'[t] = Stopped(task[t])
  BY <1>1, StoppedFacts
<1>3. task' \in [Tasks -> Records] /\ \A u \in Tasks \ {t} : task'[u] = task[u]
  BY <1>1, <1>2
<1>4. CASE task[t].at = "waiting"
  <2>1. task'[t].at = "out"
    BY <1>1, <1>2, <1>4, StoppedFacts
  <2>2. Holders' = Holders /\ Waiters' = Waiters \ {t} /\ t \in Waiters
    BY <1>3, <1>4, <2>1 DEF Holders, Waiters, Holding
  <2>3. Place(t) \in 1..Len(fifo) /\ fifo[Place(t)] = t
    <3>1. DOMAIN fifo = 1..Len(fifo) /\ t \in Range(fifo)
      BY <2>2, WaitersQueued, LenProperties
    <3>2. \E i \in 1..Len(fifo) : fifo[i] = t
      BY <3>1 DEF Range
    <3> QED
      BY <3>2 DEF Place
  <2>4. /\ fifo' \in Seq(Tasks) /\ IsInjective(fifo')
        /\ Range(fifo') = Waiters \ {t}
    BY <1>1, <1>4, <2>3, WaitersQueued, RemoveShrinks DEF Unqueued
  <2>5. fifo # <<>>
    BY <2>3, EmptySeq
  <2>6. SlotsUsed'
    BY <2>2, <2>4, <2>5, WaitersQueued, SlotsNamed
  <2> QED
    BY <1>1, <1>2, <1>3, <2>2, <2>4, <2>6 DEF BoardInv, BoardTypeOK
<1>5. CASE task[t].at # "waiting"
  <2>1. task'[t].at = task[t].at /\ fifo' = fifo
    BY <1>1, <1>2, <1>5, StoppedFacts DEF Unqueued
  <2>2. SlotsUsed' /\ IsFiniteSet(Holders)'
    BY <1>3, <1>5, <2>1, SlotsStay DEF Holding
  <2> QED
    BY <1>1, <1>2, <1>3, <2>1, <2>2 DEF BoardInv, BoardTypeOK
<1> QED
  BY <1>4, <1>5

\* What stopAll() makes of each record.
LEMMA StopAllFacts ==
  ASSUME BoardInv, StopAll, NEW t \in Tasks
  PROVE  /\ task'[t] \in Records /\ Agrees(task'[t])
         /\ task[t].at # "waiting" => task'[t].at = task[t].at
         /\ task[t].at = "waiting" => task'[t].at = "out"
         /\ task[t].state = "queued" => /\ task'[t].state = "stopped"
                                        /\ task'[t].events = task[t].events + 1
         /\ task[t].state # "queued" => /\ task'[t].state = task[t].state
                                        /\ task'[t].events = task[t].events
<1>1. task[t] \in Records /\ Agrees(task[t])
  BY DEF BoardInv, BoardTypeOK
<1>2. CASE HasEntry(t)
  <2> DEFINE x == [task[t] EXCEPT !.cancel = TRUE]
  <2>1. task'[t] = Stopped(x)
    BY <1>2 DEF StopAll
  <2>2. /\ x \in Records /\ Agrees(x) /\ x.at = task[t].at /\ x.state = task[t].state
        /\ x.events = task[t].events /\ x.at \notin {"none", "out"}
    BY <1>1, <1>2 DEF Records, Agrees, HasEntry
  <2> HIDE DEF x
  <2> QED
    BY <2>1, <2>2, StoppedFacts
<1>3. CASE ~HasEntry(t)
  <2>1. task'[t] = task[t] /\ task[t].at \in {"none", "out"}
    BY <1>3 DEF StopAll, HasEntry
  <2>2. task[t].state # "queued"
    BY <1>1, <2>1 DEF Agrees
  <2> QED
    BY <1>1, <2>1, <2>2
<1> QED
  BY <1>2, <1>3

LEMMA StopAllKeeps ==
  ASSUME BoardInv, StopAll
  PROVE  BoardInv'
<1>1. /\ fifo' = <<>> /\ called' \in BOOLEAN /\ awaited' \subseteq Tasks
      /\ IsFiniteSet(Holders)
  BY DEF StopAll, BoardInv
<1>2. task' \in [Tasks -> Records] /\ \A t \in Tasks : Agrees(task'[t])
  <2>1. task' = [t \in Tasks |-> task'[t]]
    BY DEF StopAll
  <2> QED
    BY <2>1, StopAllFacts
<1>3. Holders' = Holders /\ Waiters' = {}
  BY StopAllFacts DEF Holders, Waiters, Holding
<1>4. IsInjective(fifo') /\ Range(fifo') = {} /\ fifo' \in Seq(Tasks)
  <2>1. DOMAIN fifo' = {}
    BY <1>1
  <2> QED
    BY <1>1, <2>1, EmptySeq DEF IsInjective, Range
<1>5. SlotsUsed'
  BY <1>1, <1>3, <1>4, WaitersQueued, SlotsNamed
<1> QED
  BY <1>1, <1>2, <1>3, <1>4, <1>5 DEF BoardInv, BoardTypeOK

LEMMA BoardStepKeeps == BoardInv /\ [BoardNext]_boardVars => BoardInv'
<1> SUFFICES ASSUME BoardInv, [BoardNext]_boardVars PROVE BoardInv'
  OBVIOUS
<1>1. ASSUME NEW t \in Tasks, Start(t) \/ Granted(t) \/ Stop(t)
      PROVE  BoardInv'
  BY <1>1, StartKeeps, GrantedKeeps, StopKeeps
<1>2. ASSUME NEW t \in Tasks, WorkerReturns(t) \/ HardStop(t)
      PROVE  BoardInv'
  <2>1. /\ task[t].at = "running" /\ called' = called
        /\ \E kind \in {"done", "failed", "stopped"} : Finish(t, kind)
    BY <1>2 DEF WorkerReturns, HardStop
  <2> QED
    BY <2>1, FinishKeeps
<1>3. ASSUME NEW t \in Tasks, ResultWritten(t)
      PROVE  BoardInv'
  <2>1. PICK ok \in BOOLEAN :
          task' = [task EXCEPT ![t] = Settled(t, task[t], Kept(task[t].kind, ok))]
    BY <1>3 DEF ResultWritten
  <2>2. task[t].at = "storing" /\ Gone(t) /\ fifo' = fifo /\ called' = called
    BY <1>3 DEF ResultWritten
  <2>3. Kept(task[t].kind, ok) \in {"done", "failed", "stopped", "interrupted"}
    BY <2>2 DEF BoardInv, BoardTypeOK, Records, Agrees, Kept
  <2> QED
    BY <2>1, <2>2, <2>3, StoredKeeps
<1>4. ASSUME NEW t \in Tasks, WriteAborted(t)
      PROVE  BoardInv'
  <2> DEFINE o == IF task[t].kind = "stopped" THEN "stopped" ELSE "interrupted"
  <2>1. /\ task' = [task EXCEPT ![t] = Settled(t, task[t], o)]
        /\ task[t].at = "storing" /\ Gone(t) /\ fifo' = fifo /\ called' = called
    BY <1>4 DEF WriteAborted
  <2>2. o \in {"done", "failed", "stopped", "interrupted"}
    OBVIOUS
  <2> HIDE DEF o
  <2> QED
    BY <2>1, <2>2, StoredKeeps
<1>5. CASE UNCHANGED boardVars
  <2>1. task' = task /\ fifo' = fifo /\ awaited' = awaited /\ called' = called
    BY <1>5 DEF boardVars
  <2> QED
    BY <2>1, SlotsStay DEF BoardInv, BoardTypeOK, Holding
<1> QED
  BY <1>1, <1>2, <1>3, <1>4, <1>5, StopAllKeeps DEF BoardNext, Execute

-----------------------------------------------------------------------------
(* Tasks, implemented.                                                     *)

\* Nothing of a task that the promise speaks of changes.
LEMMA NothingTold ==
  ASSUME \A t \in Tasks : task'[t].state = task[t].state /\ task'[t].events = task[t].events
  PROVE  UNCHANGED T!taskVars
BY DEF T!taskVars

\* Task t comes to state o, with its terminal event.
LEMMA OneSettles ==
  ASSUME NEW t \in Tasks, NEW o \in T!Outcomes,
         \/ task[t].state = "running"
         \/ task[t].state = "queued" /\ o = "stopped",
         task'[t].state = o, task'[t].events = task[t].events + 1,
         \A u \in Tasks \ {t} : /\ task'[u].state = task[u].state
                                /\ task'[u].events = task[u].events
  PROVE  T!Settle(t, o)
<1>1. [u \in Tasks |-> task'[u].state]
        = [[u \in Tasks |-> task[u].state] EXCEPT ![t] = o]
  OBVIOUS
<1>2. [u \in Tasks |-> task'[u].events]
        = [[u \in Tasks |-> task[u].events] EXCEPT ![t] = @ + 1]
  OBVIOUS
<1> QED
  BY <1>1, <1>2 DEF T!Settle

\* A step of execute(), start(), stop() or stopAll() is one of a task, or none.
LEMMA BoardStepImplements ==
  BoardInv /\ [BoardNext]_boardVars => [T!TasksNext]_(T!taskVars)
<1> SUFFICES ASSUME BoardInv, [BoardNext]_boardVars
             PROVE  T!TasksNext \/ UNCHANGED T!taskVars
  OBVIOUS
<1> USE DEF T!Outcomes
<1>0. /\ task \in [Tasks -> Records]
      /\ \A t \in Tasks : task[t] \in Records /\ Agrees(task[t])
  BY DEF BoardInv, BoardTypeOK
<1>1. ASSUME NEW t \in Tasks, Start(t)
      PROVE  T!TasksNext
  <2>1. /\ task[t].state = "none" /\ task'[t].state = "queued"
        /\ task'[t].events = task[t].events
        /\ \A u \in Tasks \ {t} : task'[u] = task[u]
    BY <1>0, <1>1 DEF Start, NoTask
  <2>2. [u \in Tasks |-> task'[u].state]
          = [[u \in Tasks |-> task[u].state] EXCEPT ![t] = "queued"]
    BY <2>1
  <2>3. [u \in Tasks |-> task'[u].events] = [u \in Tasks |-> task[u].events]
    BY <2>1
  <2> QED
    BY <2>1, <2>2, <2>3 DEF T!TasksNext, T!Queue
<1>2. ASSUME NEW t \in Tasks, Granted(t)
      PROVE  T!TasksNext \/ UNCHANGED T!taskVars
  <2>1. CASE task[t].stop
    <3> DEFINE x == [task[t] EXCEPT !.at = "out"]
    <3>1. Freed(t, x) /\ Holding(t)
      BY <1>2, <2>1 DEF Granted, Holding
    <3>2. /\ x \in Records /\ x.at = "out" /\ Agrees(x)
          /\ x.state = task[t].state /\ x.events = task[t].events
      BY <1>0, <1>2, <2>1 DEF Granted, Records, Agrees, Stages
    <3> HIDE DEF x
    <3> QED
      BY <3>1, <3>2, SlotHandedOn, NothingTold
  <2>2. CASE ~task[t].stop
    <3>a. /\ task' = [task EXCEPT ![t].at = "running", ![t].state = "running"]
          /\ task[t].at = "granted"
      BY <1>2, <2>2 DEF Granted
    <3>b. task[t].state = "queued"
      BY <1>0, <2>2, <3>a DEF Agrees
    <3>1. /\ task[t].state = "queued" /\ task'[t].state = "running"
          /\ task'[t].events = task[t].events
          /\ \A u \in Tasks \ {t} : task'[u] = task[u]
      BY <1>0, <3>a, <3>b DEF Records
    <3>2. [u \in Tasks |-> task'[u].state]
            = [[u \in Tasks |-> task[u].state] EXCEPT ![t] = "running"]
      BY <3>1
    <3>3. [u \in Tasks |-> task'[u].events] = [u \in Tasks |-> task[u].events]
      BY <3>1
    <3> QED
      BY <3>1, <3>2, <3>3 DEF T!TasksNext, T!Run
  <2> QED
    BY <2>1, <2>2
<1>3. ASSUME NEW t \in Tasks, WorkerReturns(t) \/ HardStop(t)
      PROVE  T!TasksNext \/ UNCHANGED T!taskVars
  <2>1. PICK kind \in {"done", "failed", "stopped"} : Finish(t, kind)
    BY <1>3 DEF WorkerReturns, HardStop
  <2>2. Holding(t) /\ task[t].state = "running"
    BY <1>0, <1>3 DEF WorkerReturns, HardStop, Holding, Agrees
  <2>3. CASE ResultStore
    <3> DEFINE x == [task[t] EXCEPT !.at = "storing", !.kind = kind,
                                    !.put = Opens(task[t])]
    <3>1. Freed(t, x)
      BY <2>1, <2>3 DEF Finish
    <3>2. /\ x \in Records /\ x.at = "storing" /\ Agrees(x)
          /\ x.state = task[t].state /\ x.events = task[t].events
      BY <1>0, <2>2 DEF Records, Agrees, Stages, States, Opens
    <3> HIDE DEF x
    <3> QED
      BY <2>2, <3>1, <3>2, SlotHandedOn, NothingTold
  <2>4. CASE ~ResultStore
    <3> DEFINE x == Settled(t, task[t], kind)
    <3>1. Freed(t, x)
      BY <2>1, <2>4 DEF Finish
    <3>2. /\ x \in Records /\ x.at = "out" /\ Agrees(x)
          /\ x.state = kind /\ x.events = task[t].events + 1
      BY <1>0, SettledFacts
    <3> HIDE DEF x
    <3>3. T!Settle(t, kind)
      BY <2>2, <3>1, <3>2, SlotHandedOn, OneSettles
    <3> QED
      BY <3>3 DEF T!TasksNext
  <2> QED
    BY <2>3, <2>4
<1>4. ASSUME NEW t \in Tasks, NEW o \in T!Outcomes, task[t].at = "storing",
             task' = [task EXCEPT ![t] = Settled(t, task[t], o)]
      PROVE  T!TasksNext
  <2>1. /\ task'[t].state = o /\ task'[t].events = task[t].events + 1
        /\ task[t].state = "running"
        /\ \A u \in Tasks \ {t} : task'[u] = task[u]
    BY <1>0, <1>4, SettledFacts DEF Agrees
  <2>2. T!Settle(t, o)
    BY <2>1, OneSettles
  <2> QED
    BY <2>2 DEF T!TasksNext
<1>5. ASSUME NEW t \in Tasks, ResultWritten(t)
      PROVE  T!TasksNext
  <2>1. PICK ok \in BOOLEAN :
          task' = [task EXCEPT ![t] = Settled(t, task[t], Kept(task[t].kind, ok))]
    BY <1>5 DEF ResultWritten
  <2>2. task[t].at = "storing" /\ Kept(task[t].kind, ok) \in T!Outcomes
    BY <1>0, <1>5 DEF ResultWritten, Records, Agrees, Kept
  <2> QED
    BY <1>4, <2>1, <2>2
<1>6. ASSUME NEW t \in Tasks, WriteAborted(t)
      PROVE  T!TasksNext
  <2> DEFINE o == IF task[t].kind = "stopped" THEN "stopped" ELSE "interrupted"
  <2>1. task' = [task EXCEPT ![t] = Settled(t, task[t], o)] /\ task[t].at = "storing"
    BY <1>6 DEF WriteAborted
  <2>2. o \in T!Outcomes
    OBVIOUS
  <2> HIDE DEF o
  <2> QED
    BY <1>4, <2>1, <2>2
<1>7. ASSUME NEW t \in Tasks, Stop(t)
      PROVE  T!TasksNext \/ UNCHANGED T!taskVars
  <2>1. /\ task[t].at \notin {"none", "out"} /\ task'[t] = Stopped(task[t])
        /\ \A u \in Tasks \ {t} : task'[u] = task[u]
    BY <1>0, <1>7 DEF Stop, HasEntry
  <2>2. CASE task[t].state = "queued"
    <3>1. task'[t].state = "stopped" /\ task'[t].events = task[t].events + 1
      BY <1>0, <2>1, <2>2, StoppedFacts
    <3>2. T!Settle(t, "stopped")
      BY <2>1, <2>2, <3>1, OneSettles
    <3> QED
      BY <3>2 DEF T!TasksNext
  <2>3. CASE task[t].state # "queued"
    <3>1. task'[t].state = task[t].state /\ task'[t].events = task[t].events
      BY <1>0, <2>1, <2>3, StoppedFacts
    <3> QED
      BY <2>1, <3>1, NothingTold
  <2> QED
    BY <2>2, <2>3
<1>8. CASE StopAll
  <2> DEFINE S == [t \in Tasks |-> task[t].state]  E == [t \in Tasks |-> task[t].events]
             Q == {t \in Tasks : S[t] = "queued"}
  <2>1. [t \in Tasks |-> task'[t].state]
          = [t \in Tasks |-> IF t \in Q THEN "stopped" ELSE S[t]]
    BY <1>8, StopAllFacts
  <2>2. [t \in Tasks |-> task'[t].events]
          = [t \in Tasks |-> IF t \in Q THEN E[t] + 1 ELSE E[t]]
    BY <1>8, StopAllFacts
  <2>3. T!StopQueued
    BY <2>1, <2>2 DEF T!StopQueued
  <2> QED
    BY <2>3 DEF T!TasksNext
<1>9. CASE UNCHANGED boardVars
  BY <1>9, NothingTold DEF boardVars
<1> QED
  BY <1>1, <1>2, <1>3, <1>5, <1>6, <1>7, <1>8, <1>9 DEF BoardNext, Execute

LEMMA InitImplements == BoardInit => T!TasksInit
BY DEF BoardInit, NoTask, T!TasksInit

-----------------------------------------------------------------------------
(* The theorems.                                                           *)

LEMMA BoardInvHolds == BoardSpec => []BoardInv
BY InitBoardInv, BoardStepKeeps, PTL DEF BoardSpec

\* Whatever tasks start, end, are stopped and stored, the records of TaskBoard and
\* the queue of its SemaphorePool keep their shape.
THEOREM BoardTypeCorrect == BoardSpec => []BoardTypeOK
<1>1. BoardInv => BoardTypeOK
  BY DEF BoardInv
<1> QED
  BY <1>1, BoardInvHolds, PTL

\* For any number of tasks and slots: no more tasks hold a slot of the SemaphorePool
\* than there are, no slot is free while a task waits, and a task waits once.
THEOREM SlotsAreUsed == BoardSpec => []SlotsUsed
<1>1. BoardInv => SlotsUsed
  BY DEF BoardInv
<1> QED
  BY <1>1, BoardInvHolds, PTL

\* TaskBoard implements Tasks: each task settles once, with one terminal event, and
\* keeps its outcome, in whatever order the worker, stop(), stopAll(), the timer and
\* the write of the result come.
THEOREM BoardImplementsTasks == BoardSpec => ImplementsTasks
<1>1. BoardInv /\ [BoardNext]_boardVars => [T!TasksNext]_(T!taskVars)
  BY BoardStepImplements
<1> QED
  BY <1>1, InitImplements, BoardInvHolds, PTL DEF BoardSpec, ImplementsTasks, T!TasksSpec

=============================================================================
