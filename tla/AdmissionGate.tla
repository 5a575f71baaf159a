---------------------------- MODULE AdmissionGate ----------------------------
(***************************************************************************)
(* What rotom's instance protection promises, with nothing of how it is    *)
(* done (no locks, no records, no crashes): process trees of runs and      *)
(* exclusive maintenance never overlap, and while the instance is sealed   *)
(* for a stop no tree outside the sealed membership starts and no          *)
(* maintenance enters.                                                     *)
(***************************************************************************)
CONSTANTS Runs,        \* identities of runs
          Maintainers  \* processes that maintain the instance

VARIABLES alive,   \* runs with a live process tree (host or descendants)
          inside,  \* maintainers inside exclusive maintenance
          sealed,  \* a stop has sealed the instance
          members  \* runs the seal covers

gateVars == <<alive, inside, sealed, members>>

GateInit == alive = {} /\ inside = {} /\ sealed = FALSE /\ members = {}

Start(r) == /\ inside = {}
            /\ sealed => r \in members
            /\ alive' = alive \cup {r}
            /\ UNCHANGED <<inside, sealed, members>>

Stop(r) == /\ r \in alive
           /\ alive' = alive \ {r}
           /\ UNCHANGED <<inside, sealed, members>>

Enter(m) == /\ alive = {} /\ inside = {} /\ ~sealed
            /\ inside' = {m}
            /\ UNCHANGED <<alive, sealed, members>>

Leave(m) == /\ m \in inside
            /\ inside' = inside \ {m}
            /\ UNCHANGED <<alive, sealed, members>>

Seal(S) == /\ ~sealed /\ inside = {} /\ alive \subseteq S
           /\ sealed' = TRUE /\ members' = S
           /\ UNCHANGED <<alive, inside>>

Unseal == /\ sealed
          /\ sealed' = FALSE /\ members' = {}
          /\ UNCHANGED <<alive, inside>>

GateNext == \/ Unseal
            \/ \E r \in Runs : Start(r) \/ Stop(r)
            \/ \E m \in Maintainers : Enter(m) \/ Leave(m)
            \/ \E S \in SUBSET Runs : Seal(S)

GateSpec == GateInit /\ [][GateNext]_gateVars
=============================================================================
