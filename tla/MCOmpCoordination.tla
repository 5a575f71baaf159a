--------------------------- MODULE MCOmpCoordination ---------------------------
(* Two runs, each of its own instance, that share a package.               *)
EXTENDS OmpCoordination, TLC

CONSTANTS r1, r2, s1, s2, p, b1

OwnScopes == (r1 :> s1) @@ (r2 :> s2)
OnePackage == (r1 :> p) @@ (r2 :> p)
=============================================================================
