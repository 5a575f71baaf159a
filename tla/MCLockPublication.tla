--------------------------- MODULE MCLockPublication ---------------------------
(* Model values and symmetry for checking LockPublication.                 *)
EXTENDS LockPublication, TLC

CONSTANTS l1, l2, c1, c2, p1, p2, n1

TwoLocks == {l1, l2}
TwoContents == {c1, c2}
TwoPublishers == {p1, p2}
OneReader == {n1}
Symmetry == Permutations(TwoContents) \cup Permutations(TwoPublishers) \cup Permutations(TwoLocks)
=============================================================================
