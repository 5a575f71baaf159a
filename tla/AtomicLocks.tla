------------------------------ MODULE AtomicLocks ------------------------------
(***************************************************************************)
(* What publishing dependency locks promises, with nothing of how it is    *)
(* done: an order replaces the lock files of an adapter together or not at *)
(* all, and nobody reads them while it is open.  A file that a user writes *)
(* in the meantime stays his, unless he wrote what the order would have    *)
(* written; then a cancelled order takes that back too.                    *)
(***************************************************************************)
CONSTANTS Files, Contents, Orders, NoOrder, Readers

VARIABLES locks,    \* locks[f]: content of lock file f
          order,    \* the publication under way, before and after, or NoOrder
          edited,   \* the files a user changed since it began
          reading   \* who reads the locks

atomicVars == <<locks, order, edited, reading>>

AtomicInit == /\ locks \in [Files -> Contents]
              /\ order = NoOrder /\ edited = {} /\ reading = {}

Open(o) == /\ order = NoOrder /\ reading = {}
           /\ \A f \in DOMAIN o.before : o.before[f] = locks[f]
           /\ order' = o /\ edited' = {} /\ UNCHANGED <<locks, reading>>
Switch == /\ order # NoOrder /\ order' = NoOrder
          /\ locks' = [f \in Files |-> IF f \in DOMAIN order.after \ edited THEN order.after[f] ELSE locks[f]]
          /\ UNCHANGED <<edited, reading>>
TakeBack(f) == /\ order # NoOrder /\ f \in DOMAIN order.after /\ locks[f] = order.after[f]
               /\ locks' = [locks EXCEPT ![f] = order.before[f]]
               /\ UNCHANGED <<order, edited, reading>>
Cancel == /\ order # NoOrder /\ order' = NoOrder /\ UNCHANGED <<locks, edited, reading>>

Edit(f) == \E v \in Contents :
             /\ locks' = [locks EXCEPT ![f] = v] /\ edited' = edited \cup {f}
             /\ UNCHANGED <<order, reading>>

BeginRead(r) == order = NoOrder /\ reading' = reading \cup {r} /\ UNCHANGED <<locks, order, edited>>
EndRead(r) == reading' = reading \ {r} /\ UNCHANGED <<locks, order, edited>>

AtomicNext == \/ \E o \in Orders : Open(o)
              \/ Switch \/ Cancel
              \/ \E f \in Files : TakeBack(f) \/ Edit(f)
              \/ \E r \in Readers : BeginRead(r) \/ EndRead(r)

AtomicSpec == AtomicInit /\ [][AtomicNext]_atomicVars
=============================================================================
