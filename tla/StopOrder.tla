------------------------------ MODULE StopOrder ------------------------------
(***************************************************************************)
(* What a stop promises, without inboxes, journals and processes: one      *)
(* order is in force at a time and is issued once; only while it is in     *)
(* force are runs asked under it and told to end, each at most once ever;  *)
(* and it is lifted only when every run it asked is over.                  *)
(***************************************************************************)
EXTENDS Naturals

CONSTANTS Runs, Orders, Nobody

VARIABLES order,  \* the order in force, or Nobody
          issued, \* the orders that were issued, the failed ones included
          asked,  \* asked[r]: the order under which r was asked, or Nobody
          told,   \* told[r]: how often r was told to end
          over    \* the runs that are over

stopVars == <<order, issued, asked, told, over>>

OrderInit == /\ order = Nobody /\ issued = {}
             /\ asked = [r \in Runs |-> Nobody]
             /\ told = [r \in Runs |-> 0]
             /\ over = {}

Issue(b) == /\ order = Nobody /\ b \notin issued
            /\ order' \in {Nobody, b}
            /\ issued' = issued \cup {b}
            /\ UNCHANGED <<asked, told, over>>

Ask(r) == /\ order # Nobody /\ asked[r] = Nobody /\ r \notin over
          /\ asked' = [asked EXCEPT ![r] = order]
          /\ UNCHANGED <<order, issued, told, over>>

Tell(r) == /\ order # Nobody /\ asked[r] = order /\ told[r] = 0
           /\ told' = [told EXCEPT ![r] = 1]
           /\ UNCHANGED <<order, issued, asked, over>>

End(r) == /\ over' = over \cup {r}
          /\ UNCHANGED <<order, issued, asked, told>>

Lift == /\ order # Nobody
        /\ \A r \in Runs : asked[r] = order => r \in over
        /\ order' = Nobody
        /\ UNCHANGED <<issued, asked, told, over>>

OrderNext == \/ \E b \in Orders : Issue(b)
             \/ \E r \in Runs : Ask(r) \/ Tell(r) \/ End(r)
             \/ Lift

OrderSpec == OrderInit /\ [][OrderNext]_stopVars
=============================================================================
