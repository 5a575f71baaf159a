--------------------------- MODULE MCTermTransaction ---------------------------
(* One component with two files; the repository moves from one version to  *)
(* another that changes one of them, and back.                             *)
EXTENDS TermTransaction, TLC

CONSTANTS t1, t2, zsh, v1, v2, s1, s2

AllTargets == {t1, t2}
TwoFiles == [t \in AllTargets |-> zsh]
OneComponent == {zsh}
TwoContents == {v1, v2}
TwoVersions == {[t \in AllTargets |-> v1], [t \in AllTargets |-> IF t = t1 THEN v2 ELSE v1]}
TwoSlots == {s1, s2}
SlotSymmetry == Permutations(TwoSlots)
=============================================================================
