--------------------------- MODULE AtomicDeployment ---------------------------
(***************************************************************************)
(* What deploying a configuration promises, with nothing of how it is done *)
(* (no journal, no file by file writes, no crashes): the fields and the    *)
(* record of what was deployed change together in one step, only while     *)
(* nobody runs on them, and nothing but the user makes a field his own.    *)
(***************************************************************************)
CONSTANTS Fields, Values, Absent, Theirs, Runs

VARIABLES native,   \* native[f]: the value of field f, or Theirs: the user's
          record,   \* record[f]: the value deployed or adopted for f, or Absent
          using     \* the runs that use the instance

atomicVars == <<native, record, using>>

AtomicInit == /\ native = [f \in Fields |-> Theirs]
              /\ record = [f \in Fields |-> Absent]
              /\ using = {}

Write(f) == native' = [native EXCEPT ![f] = Theirs] /\ UNCHANGED <<record, using>>

Switch(new) == /\ using = {}
               /\ record' = new
               /\ native' \in [Fields -> Values \cup {Absent, Theirs}]
               /\ \A f \in Fields : \/ native'[f] = new[f]
                                    \/ native'[f] = Theirs /\ native[f] = Theirs
               /\ UNCHANGED using

Use(r) == using' = using \cup {r} /\ UNCHANGED <<native, record>>
Leave(r) == using' = using \ {r} /\ UNCHANGED <<native, record>>

AtomicNext == \/ \E f \in Fields : Write(f)
              \/ \E new \in [Fields -> Values \cup {Absent}] : Switch(new)
              \/ \E r \in Runs : Use(r) \/ Leave(r)

AtomicSpec == AtomicInit /\ [][AtomicNext]_atomicVars
=============================================================================
