---------------------------- MODULE MCSkillCatalog ----------------------------
(* Small instances of SkillCatalog for TLC. *)
EXTENDS SkillCatalog, TLC

CONSTANTS s2

\* In a load both sources answer, or the second fails, or neither has skills.
Outcomes ==
  {[failed |-> {}, got |-> [s \in Sources |-> Groups]],
   [failed |-> {s2}, got |-> [s \in Sources |-> IF s = s2 THEN {} ELSE Groups]],
   [failed |-> {}, got |-> [s \in Sources |-> {}]]}

FewOutcomes ==
  \A h \in Hosts :
    host[h].at = "acquiring" /\ host'[h].at \in {"building", "publishing"} =>
      [failed |-> host'[h].failed, got |-> host'[h].got] \in Outcomes

\* The queries that are promised something: their deadline is within the grace of
\* what they search, and it has not passed.
PromptQueries ==
  \A r \in Readers : reader'[r].at # "idle" =>
    LET called == IF reader'[r].at = "searching" THEN reader'[r].called ELSE clock' IN
    /\ called + RecallTimeout < reader'[r].since + RetiredGrace
    /\ clock' <= called + RecallTimeout

\* Attempts begin when the clock begins, and end at any time; loads that begin later
\* end with their sweep.
AttemptsFirst == \A h \in Hosts :
  clock > 0 /\ host[h].at = "reading" => host'[h].at # "acquiring"

\* The last load, which has something to sweep, begins just before the grace is over,
\* or then.
SweepsLater == loads' = MaxLoads => loads = MaxLoads \/ clock + TickStep >= MaxClock

Symmetric == Permutations(Generations) \cup Permutations(Hosts)
=============================================================================
