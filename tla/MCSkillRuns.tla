---------------------------- MODULE MCSkillRuns ----------------------------
(* TLC instances of SkillRuns. *)
EXTENDS SkillRuns, TLC

CONSTANTS r1, r2, r3, p1, a, b

MCProfileOf == [r \in Runs |-> IF r = r3 THEN NoProfile ELSE p1]
Permuted == Permutations({r1, r2}) \cup Permutations(Bodies)
=============================================================================
