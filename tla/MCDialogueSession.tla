------------------------- MODULE MCDialogueSession -------------------------
EXTENDS DialogueSession, TLC

CONSTANTS work, check

\* A piece of work and a check of its result.
MCDependsOn == [s \in Steps |-> IF s = check THEN {work} ELSE {}]
Interchangeable == Permutations(Tasks)
MCChecks == {check} \cap Steps
=============================================================================
