------------------------------ MODULE AtomicHome ------------------------------
(***************************************************************************)
(* What applying terminal configuration promises, with nothing of how it   *)
(* is done: an order (an installation, or a rollback of one component)     *)
(* takes effect in one step, on the files, on the record of what is        *)
(* managed, and on what a rollback would bring back; or it has no effect.  *)
(* A file that the user changed is the user's, and nobody takes it back,   *)
(* with one exception: before it takes effect, an order looks once at each *)
(* of its files, and what the user made of it until then is the order's.   *)
(***************************************************************************)
CONSTANTS Targets, Components, ComponentOf, Contents, Absent, None

VARIABLES home,    \* home[t]: the content of file t
          theirs,  \* the files the user changed since they were last recorded
          record,  \* record[t]: the content installed, or None: not managed
          last,    \* last[c]: what the last change of c replaced, or None
          order    \* the order under way, or None

atomicVars == <<home, theirs, record, last, order>>

AtomicInit == /\ home \in [Targets -> Contents \cup {Absent}]
              /\ theirs = Targets
              /\ record = [t \in Targets |-> None]
              /\ last = [c \in Components |-> None]
              /\ order = None

(* Managed files must be as recorded; a file that is not managed is adopted*)
(* as it is.                                                               *)
Open(install, after, managed, newLast) ==
  LET S == {t \in Targets : after[t] # None}
  IN  /\ order = None
      /\ \A t \in S : record[t] = None \/ t \notin theirs \/ (record[t] = Absent /\ home[t] = Absent)
      /\ order' = [before |-> [t \in Targets |-> IF t \in S THEN home[t] ELSE None], after |-> after,
                   found |-> [t \in Targets |-> None], install |-> install,
                   managed |-> managed, last |-> newLast]
      /\ theirs' = theirs \ S
      /\ UNCHANGED <<home, record, last>>
OpenInstall(new) ==
  LET changed(c) == {t \in Targets : ComponentOf[t] = c /\ new[t] # None}
  IN  Open(TRUE, new,
           {t \in Targets : new[t] # None},
           [c \in Components |-> IF changed(c) = {} THEN last[c]
              ELSE [before |-> [t \in Targets |-> IF t \in changed(c) THEN home[t] ELSE None],
                    managed |-> {t \in changed(c) : record[t] # None /\ home[t] # Absent}]])
OpenRollback(c) ==
  /\ last[c] # None
  /\ Open(FALSE, last[c].before, last[c].managed, [last EXCEPT ![c] = None])

(* An order looks at a file: as it made it, or as the user has made it.    *)
(* What was there before the order still comes back if it is cancelled.    *)
Look(t) ==
  /\ order # None /\ order.before[t] # None /\ order.found[t] = None
  /\ order' = [order EXCEPT !.found[t] = IF t \in theirs THEN home[t] ELSE order.after[t]]
  /\ home' = [home EXCEPT ![t] = order.before[t]] /\ theirs' = theirs \ {t}
  /\ UNCHANGED <<record, last>>

(* An installation takes effect only when all is found as it made it.      *)
Switch == /\ order # None /\ order' = None
          /\ \A t \in Targets : order.before[t] # None =>
               order.found[t] # None /\ (order.install => order.found[t] = order.after[t])
          /\ home' = [t \in Targets |-> IF order.before[t] # None /\ t \notin theirs THEN order.found[t] ELSE home[t]]
          /\ record' = [t \in Targets |-> IF order.before[t] = None THEN record[t]
                                          ELSE IF t \in order.managed THEN order.found[t] ELSE None]
          /\ last' = order.last
          /\ UNCHANGED theirs
Cancel == order # None /\ order' = None /\ UNCHANGED <<home, theirs, record, last>>

(* What is absent belongs to nobody: where the order creates or removes a  *)
(* file, one that the user removed is taken for one of the order.          *)
TakeBack(t) == /\ order # None /\ order.before[t] # None /\ home[t] = Absent
               /\ Absent \in {order.before[t], order.after[t], order.found[t]}
               /\ home' = [home EXCEPT ![t] = order.before[t]] /\ theirs' = theirs \ {t}
               /\ UNCHANGED <<record, last, order>>

Edit(t) == /\ \E v \in Contents \cup {Absent} : home' = [home EXCEPT ![t] = v]
           /\ theirs' = theirs \cup {t}
           /\ UNCHANGED <<record, last, order>>

AtomicNext == \/ \E new \in [Targets -> Contents \cup {None}] : OpenInstall(new)
              \/ \E c \in Components : OpenRollback(c)
              \/ Switch \/ Cancel
              \/ \E t \in Targets : Edit(t) \/ Look(t) \/ TakeBack(t)

AtomicSpec == AtomicInit /\ [][AtomicNext]_atomicVars
=============================================================================
