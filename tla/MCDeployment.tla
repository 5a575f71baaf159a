----------------------------- MODULE MCDeployment -----------------------------
(* Small instances for checking Deployment.                                *)
EXTENDS Deployment, TLC

CONSTANTS a, b, w, settings, rules, v1, v2, c1, c2, c3, l1, l2, r1

(* Two selectors of one structured file and a whole file.                  *)
AllFields == {a, b, w}
AllFiles == {settings, rules}
Path == [f \in AllFields |-> IF f = w THEN rules ELSE settings]
OneWhole == {w}
TwoValues == {v1, v2}
OneRun == {r1}
OnlyB == {b}
DeclaredSettings == {settings}

(* c2 updates what c1 deployed and adds a preference, c3 retires a field   *)
(* and changes the launch contract.                                        *)
ThreeCandidates == {c1, c2, c3}
Wanted(x, y, z) == [f \in AllFields |-> CASE f = a -> x [] f = b -> y [] f = w -> z]
Desired == [c \in ThreeCandidates |-> CASE c = c1 -> Wanted(v1, Absent, v1)
                                         [] c = c2 -> Wanted(v2, v1, v1)
                                         [] c = c3 -> Wanted(v2, Absent, Absent)]
Contract == [c \in ThreeCandidates |-> IF c = c3 THEN l2 ELSE l1]
=============================================================================
