---------------------------- MODULE MCStopDelivery ----------------------------
(* Model values and symmetry for checking StopDelivery.                    *)
EXTENDS StopDelivery, TLC

CONSTANTS r1, r2, b1, b2

OneRun == {r1}
TwoRuns == {r1, r2}
OnlyR2 == {r2}
Nobody == {}
OneBatch == {b1}
TwoBatches == {b1, b2}
Symmetry == Permutations(TwoBatches)
=============================================================================
