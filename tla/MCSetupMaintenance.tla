-------------------------- MODULE MCSetupMaintenance --------------------------
(* Two runs of one instance and package: one that the batch selects and one*)
(* that is launched at any other time, and two operators.                  *)
EXTENDS SetupMaintenance, TLC

CONSTANTS r1, r2, s, p, b1, m1, m2

OneScope == (r1 :> s) @@ (r2 :> s)
OnePackage == (r1 :> p) @@ (r2 :> p)
Symmetry == Permutations(Operators)
=============================================================================
