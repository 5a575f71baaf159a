----------------------------- MODULE SessionClaims -----------------------------
(***************************************************************************)
(* What the resume requests promise of a session: it is claimed by one run *)
(* at a time; only the run that claimed it starts a host for it, once; and *)
(* it becomes free again when everything that host started has ended.  A   *)
(* claim whose outcome is not known is never given up.                     *)
(***************************************************************************)
CONSTANTS Runs, Sessions, None

VARIABLES holder,   \* holder[s]: the run whose claim of the session stands, or None
          tree      \* tree[r]: the processes started for the run

vars == <<holder, tree>>

Init == /\ holder = [s \in Sessions |-> None]
        /\ tree = [r \in Runs |-> "unborn"]

Claim(r, s) == /\ holder[s] = None /\ tree[r] = "unborn"
               /\ \A t \in Sessions : holder[t] # r
               /\ holder' = [holder EXCEPT ![s] = r]
               /\ UNCHANGED tree
Start(r) == /\ \E s \in Sessions : holder[s] = r
            /\ tree[r] = "unborn"
            /\ tree' = [tree EXCEPT ![r] = "alive"]
            /\ UNCHANGED holder
End(r) == /\ tree[r] = "alive"
          /\ tree' = [tree EXCEPT ![r] = "over"]
          /\ UNCHANGED holder
Free(s) == /\ holder[s] # None /\ tree[holder[s]] = "over"
           /\ holder' = [holder EXCEPT ![s] = None]
           /\ UNCHANGED tree

Next == \/ \E r \in Runs : Start(r) \/ End(r) \/ \E s \in Sessions : Claim(r, s)
        \/ \E s \in Sessions : Free(s)
Spec == Init /\ [][Next]_vars
=============================================================================
