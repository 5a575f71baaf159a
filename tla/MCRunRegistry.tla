---------------------------- MODULE MCRunRegistry ----------------------------
(* Model values and symmetry for checking RunRegistry.                     *)
EXTENDS RunRegistry, TLC

CONSTANTS r1, r2, u1, m1, m2, b1, b2

RegisteredRuns == {r1, r2}
OneRun == {r1}
MixedRuns == {r1, u1}
OnlyU1 == {u1}
Nobody == {}
OneMaintainer == {m1}
TwoMaintainers == {m1, m2}
OnlyDetached == [r \in RegisteredRuns |-> {"detached"}]
OfRegistered == [r \in MixedRuns |-> IF r = u1 THEN {} ELSE {"holding", "detached"}]
OneBatch == {b1}
TwoBatches == {b1, b2}

Symmetry == Permutations(RegisteredRuns) \cup Permutations(Maintainers)
=============================================================================
