-------------------------- MODULE MCToolMaintenance ---------------------------
(* One stopped run, whose session two resumes may want, and two callers.   *)
EXTENDS ToolMaintenance, TLC

CONSTANTS r1, r2, s1, t1, m1, m2

OneTarget == t1 :> s1
Symmetry == Permutations(Runs) \cup Permutations(Callers)
=============================================================================
