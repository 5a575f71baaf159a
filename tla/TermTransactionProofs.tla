------------------------- MODULE TermTransactionProofs -------------------------
(***************************************************************************)
(* Proofs about TermTransaction for any targets, components, contents,     *)
(* versions and backup directories.  The inductive invariant IInv says     *)
(* what a journal was written from, what the identities of the files stand *)
(* for, and which backups are there in each phase.                         *)
(***************************************************************************)
EXTENDS TermTransaction, TLAPS

(* What the last change of a component wrote is the component's and is     *)
(* still managed, as a file that is there.                                 *)
Replaced(s) ==
  \A c \in Components : s.previous[c] # None =>
    \A t \in Part(s.previous[c].before) : ComponentOf[t] = c /\ s.targets[t] \in Contents
StateInv == Replaced(state) /\ (journal # None => Replaced(journal.state_before))

(* What a journal was written from.  Its directory for backups was free;   *)
(* an installation puts a file everywhere; a rollback replaces files by    *)
(* what its component's last change replaced.                              *)
JournalInv ==
  journal # None =>
    /\ \A c \in Components : journal.state_before.previous[c] # None =>
         journal.state_before.previous[c].slot # journal.slot
    /\ \A t \in Targets : journal.before[t] = None <=> journal.after[t] = None
    /\ journal.component = None => \A t \in Items : journal.after[t] # Absent
    /\ journal.component # None =>
         /\ journal.state_before.previous[journal.component] # None
         /\ journal.after = journal.state_before.previous[journal.component].before
         /\ \A t \in Items : journal.before[t] # Absent

(* The backups that a state leads back to.                                 *)
LeadsBack(s) ==
  \A c \in Components : s.previous[c] # None =>
    \A t \in Part(s.previous[c].before) : Readable(s.previous[c].slot, t, s.previous[c].before[t])
BackupInv == LeadsBack(state) /\ (Uncommitted => LeadsBack(journal.state_before))

(* The identities of the files and what they stand for, until the commit.  *)
MarkGood(t) ==
  /\ mark[t] \in {"before", "restored"} => file[t] = journal.before[t]
  /\ mark[t] = "written" => file[t] = journal.after[t] /\ journal.found[t] \in {None, journal.after[t]}
  /\ mark[t] = "taken" => file[t] = journal.found[t] /\ journal.found[t] # None
  /\ mark[t] = "written" \/ journal.found[t] # None => Backed(t)
  /\ backups[journal.slot][t] # None => backups[journal.slot][t] = journal.before[t]
MarkInv == Uncommitted => \A t \in Items : MarkGood(t)

(* The phases of an operation, and the state between them: it is the one   *)
(* before the transaction, or the one after it once everything is backed   *)
(* up.                                                                     *)
PhaseInv ==
  /\ phase \in {"backing", "writing", "checking", "committing", "restoring", "closing"} => Uncommitted
  /\ phase = "committed" => journal # None /\ journal.committed
  /\ phase = "cleaning" => journal = None
  /\ phase \in {"backing", "writing", "checking", "closing"} => state = journal.state_before
  /\ phase = "committing" => state = NewState
  /\ Uncommitted => \/ state = journal.state_before
                    \/ state = NewState /\ \A t \in Items : Backed(t)

(* What was inspected; an installation goes on only if it is its own.      *)
Inspected(t) == journal.found[t] # None /\ (journal.component = None => journal.found[t] = journal.after[t])

(* What the loops have done.  Between its rename and its inspection one    *)
(* file is not inspected.                                                  *)
LoopInv ==
  /\ phase = "backing" =>
       \A t \in Items : /\ mark[t] \in {"before", "theirs"} /\ journal.found[t] = None
                        /\ IF t \in todo THEN journal.before[t] # Absent ELSE Backed(t)
  /\ phase = "committing" => todo = {}
  /\ phase \in {"writing", "checking", "committing"} =>
       \A t \in Items : /\ Backed(t)
                        /\ IF t \in todo THEN journal.found[t] = None ELSE mark[t] \in {"written", "taken", "theirs"}
  /\ phase \in {"writing", "committing"} => \A t \in Items \ todo : Inspected(t)
  /\ phase = "checking" => \E u \in Items : \A t \in Items \ todo : t = u \/ Inspected(t)
  /\ phase = "restoring" => \A t \in Listed : t \in todo \/ mark[t] = "theirs" \/ file[t] = journal.before[t]
  /\ phase = "closing" => \A t \in Items : mark[t] = "theirs" \/ file[t] = journal.before[t]

IInv == TypeOK /\ StateInv /\ JournalInv /\ BackupInv /\ MarkInv /\ PhaseInv /\ LoopInv

-----------------------------------------------------------------------------
(* The parts of a state, of a backup entry and of a journal have their     *)
(* types.                                                                  *)
LEMMA StateParts ==
  ASSUME NEW s \in State, NEW c \in Components
  PROVE  /\ s.targets \in Old
         /\ s.previous \in [Components -> Backup \cup {None}]
         /\ s.previous[c] # None => /\ s.previous[c] \in Backup
                                    /\ s.previous[c].slot \in Slots
                                    /\ s.previous[c].before \in Old
                                    /\ s.previous[c].managed \in SUBSET Targets
  BY DEF State, Backup

(* The parts of a journal.                                                 *)
LEMMA JournalParts ==
  ASSUME journal \in Journal
  PROVE  /\ journal # None /\ journal.component \in Components \cup {None}
         /\ journal.committed \in BOOLEAN /\ journal.slot \in Slots
         /\ journal.state_before \in State
         /\ journal.before \in Old /\ journal.after \in Old /\ journal.found \in Old
         /\ Items \subseteq Targets
         /\ \A t \in Items : journal.before[t] \in Content /\ journal.before[t] # None
  BY TermAssumption DEF Journal, Items, Part, Old, Content

(* What depends on the journal alone stays while it does.                  *)
LEMMA JournalKept ==
  ASSUME UNCHANGED journal
  PROVE  UNCHANGED <<Items, Uncommitted, NewState>>
  BY DEF Items, Part, Uncommitted, NewState, InstalledState, RolledBackState, ItemsOf, Of, After

(* A transaction begins with an installation, or with a rollback of a      *)
(* component that has a last change.                                       *)
Starts(component, after) ==
  /\ Begin(component, after)
  /\ component = None => \A t \in Part(after) : /\ after[t] # Absent
                                                /\ Managed(t) => Intact(t)
  /\ component # None => /\ component \in Components /\ state.previous[component] # None
                         /\ after = state.previous[component].before
                         /\ \A t \in Part(after) : Intact(t)

(* An application writes a new journal.                                    *)
LEMMA ApplyStarts ==
  ASSUME TypeOK, NEW v \in Versions, NEW C \in SUBSET Components, Apply(v, C)
  PROVE  \E after \in Old : Starts(None, after)
  <1> DEFINE selected == {t \in Targets : ComponentOf[t] \in C}
             changes == {t \in selected : ~Managed(t) \/ file[t] # v[t]}
             after == [t \in Targets |-> IF t \in changes THEN v[t] ELSE None]
  <1>1. v \in [Targets -> Contents]
    BY TermAssumption
  <1>2. after \in Old /\ \A t \in Part(after) : t \in changes /\ after[t] \in Contents
    BY <1>1 DEF Old, Content, Part
  <1>3. Begin(None, after) /\ \A t \in selected : Managed(t) => Intact(t)
    BY DEF Apply
  <1>4. \A t \in Part(after) : after[t] # Absent
    BY <1>2, TermAssumption
  <1> QED BY <1>2, <1>3, <1>4, TermAssumption DEF Starts

(* A rollback does too.                                                    *)
LEMMA RollbackStarts ==
  ASSUME TypeOK, NEW c \in Components, Rollback(c)
  PROVE  \E after \in Old : Starts(c, after)
  <1>1. state.previous[c] # None /\ Begin(c, state.previous[c].before)
    BY DEF Rollback
  <1>2. state.previous[c].before \in Old
    BY <1>1, StateParts DEF TypeOK
  <1>3. \A t \in Part(state.previous[c].before) : Intact(t)
    BY DEF Rollback
  <1> QED BY <1>1, <1>2, <1>3, TermAssumption DEF Starts

(* The journal that begins a transaction.                                  *)
LEMMA NewJournal ==
  ASSUME TypeOK, NEW component \in Components \cup {None}, NEW after \in Old, Begin(component, after)
  PROVE  /\ journal = None /\ phase = "idle" /\ phase' = "backing"
         /\ journal' \in Journal /\ Uncommitted' /\ Items' = Part(after)
         /\ journal'.component = component /\ journal'.state_before = state
         /\ journal'.after = after /\ journal'.found = Nothing
         /\ journal'.before = [t \in Targets |-> IF after[t] = None THEN None ELSE file[t]]
         /\ journal'.slot \in Slots \ Referenced
         /\ backups' = [backups EXCEPT ![journal'.slot] = Nothing]
         /\ todo' = {t \in Items' : file[t] # Absent}
         /\ mark' = [t \in Targets |-> IF after[t] = None THEN mark[t] ELSE "before"]
         /\ UNCHANGED <<file, state>>
  <1> DEFINE before == [t \in Targets |-> IF after[t] = None THEN None ELSE file[t]]
             new(s) == [component |-> component, committed |-> FALSE, slot |-> s, state_before |-> state,
                        before |-> before, after |-> after, found |-> Nothing]
  <1>1. PICK s \in Slots \ Referenced : journal' = new(s) /\ backups' = [backups EXCEPT ![s] = Nothing]
    BY DEF Begin
  <1>2. before \in Old /\ Nothing \in Old
    BY DEF TypeOK, Old, Nothing
  <1>3. new(s) \in Journal
    BY <1>2 DEF Journal, TypeOK
  <1>4. Items' = Part(before) /\ Uncommitted'
    BY <1>1, <1>3, TermAssumption DEF Items, Part, Uncommitted
  <1>5. Part(before) = Part(after)
    <2>1. \A t \in Targets : file[t] # None
      BY TermAssumption DEF TypeOK
    <2>2. \A t \in Targets : before[t] = None <=> after[t] = None
      BY <2>1
    <2> QED BY <2>2 DEF Part
  <1> QED BY <1>1, <1>3, <1>4, <1>5 DEF Begin, Goto

(* What the journal has as after, and what a commit makes of the state.    *)
LEMMA NewStateType ==
  ASSUME TypeOK, JournalInv, journal # None
  PROVE  NewState \in State /\ \A t \in Items : After(t) \in Content
  <1>1. journal \in Journal
    BY DEF TypeOK
  <1>2. journal.before \in Old /\ journal.after \in Old /\ journal.found \in Old /\ journal.slot \in Slots
    BY <1>1, JournalParts
  <1>3. journal.state_before.targets \in Old
    BY <1>1, JournalParts DEF State
  <1>4. journal.state_before.previous \in [Components -> Backup \cup {None}]
    BY <1>1, JournalParts DEF State
  <1>5. \A t \in Items : After(t) \in Content /\ t \in Targets
    <2>1. \A t \in Items : t \in Targets /\ journal.after[t] # None
      BY DEF JournalInv, Items, Part
    <2> QED BY <1>2, <2>1 DEF After, Old
  <1>6. CASE journal.component = None
    <2>1. InstalledState.targets \in Old
      BY <1>3, <1>5 DEF InstalledState, Old
    <2>2. ASSUME NEW c \in Components
          PROVE  [slot |-> journal.slot, before |-> Of(c, journal.before),
                  managed |-> {t \in ItemsOf(c) : journal.state_before.targets[t] # None
                                                  /\ journal.before[t] # Absent}] \in Backup
      <3>1. Of(c, journal.before) \in Old
        BY <1>2 DEF Of, Old
      <3> QED BY <1>2, <3>1 DEF Backup, ItemsOf, Items, Part
    <2>3. InstalledState.previous \in [Components -> Backup \cup {None}]
      BY <1>4, <2>2 DEF InstalledState
    <2>4. InstalledState \in State
      BY <2>1, <2>3 DEF InstalledState, State
    <2> QED BY <1>5, <1>6, <2>4 DEF NewState
  <1>7. CASE journal.component # None
    <2>1. RolledBackState.targets \in Old
      BY <1>3, <1>5 DEF RolledBackState, Old
    <2>2. RolledBackState \in State
      BY <1>4, <2>1 DEF RolledBackState, State
    <2> QED BY <1>5, <1>7, <2>2 DEF NewState
  <1> QED BY <1>6, <1>7

(* A state that is committed still manages what the last changes wrote.    *)
LEMMA NewReplaced ==
  ASSUME TypeOK, StateInv, JournalInv, journal # None, \A t \in Items : Inspected(t)
  PROVE  Replaced(NewState)
  <1>1. journal \in Journal /\ journal.after \in Old
    BY JournalParts DEF TypeOK
  <1>2. journal.state_before.previous \in [Components -> Backup \cup {None}]
    BY <1>1, JournalParts DEF State
  <1>3. Replaced(journal.state_before)
    BY DEF StateInv
  <1>4. CASE journal.component = None
    <2>1. \A t \in Items : t \in Targets /\ journal.after[t] \in Contents /\ After(t) = journal.after[t]
      BY <1>1, <1>4 DEF JournalInv, Old, Content, Items, Part, Inspected, After
    <2>2. ASSUME NEW c \in Components, InstalledState.previous[c] # None,
                 NEW t \in Part(InstalledState.previous[c].before)
          PROVE  ComponentOf[t] = c /\ InstalledState.targets[t] \in Contents
      <3>1. CASE ItemsOf(c) = {}
        <4>1. InstalledState.previous[c] = journal.state_before.previous[c]
          BY <3>1 DEF InstalledState
        <4>2. t \in Targets /\ ComponentOf[t] = c /\ journal.state_before.targets[t] \in Contents
          BY <1>3, <2>2, <4>1 DEF Replaced, Part
        <4>3. t \notin Items
          BY <3>1, <4>2 DEF ItemsOf
        <4> QED BY <4>2, <4>3 DEF InstalledState
      <3>2. CASE ItemsOf(c) # {}
        <4>1. InstalledState.previous[c].before = Of(c, journal.before)
          BY <3>2 DEF InstalledState
        <4>2. t \in Targets /\ ComponentOf[t] = c /\ t \in Items
          BY <2>2, <4>1 DEF Of, Items, Part
        <4> QED BY <2>1, <4>2 DEF InstalledState
      <3> QED BY <3>1, <3>2
    <2> QED BY <1>4, <2>2 DEF NewState, Replaced
  <1>5. CASE journal.component # None
    <2> DEFINE b == journal.component
    <2>1. b \in Components /\ journal.after = journal.state_before.previous[b].before
          /\ journal.state_before.previous[b] # None
      BY <1>1, <1>5, JournalParts DEF JournalInv
    <2>2. \A t \in Items : ComponentOf[t] = b
      <3>1. Items = Part(journal.after)
        BY DEF JournalInv, Items, Part
      <3> QED BY <1>3, <2>1, <3>1 DEF Replaced
    <2>3. ASSUME NEW c \in Components, RolledBackState.previous[c] # None,
                 NEW t \in Part(RolledBackState.previous[c].before)
          PROVE  ComponentOf[t] = c /\ RolledBackState.targets[t] \in Contents
      <3>1. c # b /\ RolledBackState.previous[c] = journal.state_before.previous[c]
        BY <1>2, <2>1, <2>3 DEF RolledBackState
      <3>2. t \in Targets /\ ComponentOf[t] = c /\ journal.state_before.targets[t] \in Contents
        BY <1>3, <2>3, <3>1 DEF Replaced, Part
      <3> QED BY <2>2, <3>1, <3>2 DEF RolledBackState
    <2> QED BY <1>5, <2>3 DEF NewState, Replaced
  <1> QED BY <1>4, <1>5

-----------------------------------------------------------------------------
(* Types.                                                                  *)
LEMMA TypeStep == IInv /\ [Next]_vars => TypeOK'
  <1> SUFFICES ASSUME IInv, [Next]_vars PROVE TypeOK'
    OBVIOUS
  <1> USE DEF IInv, TypeOK, Goto
  <1>0. UNCHANGED journal => UNCHANGED Items
    BY JournalKept
  <1>1. ASSUME NEW component \in Components \cup {None}, NEW after \in Old, Starts(component, after)
        PROVE  TypeOK'
    <2>1. Begin(component, after)
      BY <1>1 DEF Starts
    <2>2. Nothing \in [Targets -> Contents \cup {None}] /\ "before" \in Marks
      BY DEF Nothing, Marks
    <2>3. journal' \in Journal /\ journal' # None /\ todo' \subseteq Items' /\ phase' = "backing"
      BY <2>1, NewJournal, TermAssumption
    <2>4. backups' = [backups EXCEPT ![journal'.slot] = Nothing]
      BY <2>1, NewJournal
    <2>5. backups' \in [Slots -> [Targets -> Contents \cup {None}]]
      BY <2>2, <2>4
    <2>7. mark' = [t \in Targets |-> IF after[t] = None THEN mark[t] ELSE "before"] /\ UNCHANGED <<file, state>>
      BY <2>1, NewJournal
    <2>6. mark' \in [Targets -> Marks] /\ UNCHANGED <<file, state>>
      BY <2>2, <2>7
    <2> QED BY <2>3, <2>5, <2>6
  <1>2. ASSUME NEW t \in Targets, BackupTarget(t) PROVE TypeOK'
    <2>1. journal # None /\ t \in Items /\ journal \in Journal
      BY <1>2 DEF BackupTarget
    <2>2. journal.before[t] # Absent /\ journal.before[t] \in Content
      BY <1>2, <2>1, JournalParts DEF BackupTarget, LoopInv
    <2>3. file[t] \in Contents
      BY <1>2, <2>1, <2>2 DEF BackupTarget, MarkInv, MarkGood, PhaseInv, Content
    <2>4. backups' = [backups EXCEPT ![journal.slot] = [backups[journal.slot] EXCEPT ![t] = file[t]]]
      BY <1>2 DEF BackupTarget
    <2>5. backups' \in [Slots -> [Targets -> Contents \cup {None}]]
      BY <2>1, <2>3, <2>4, JournalParts
    <2> QED BY <1>0, <1>2, <2>5 DEF BackupTarget
  <1>3. CASE AbortBackup
    <2>1. Nothing \in [Targets -> Contents \cup {None}]
      BY DEF Nothing
    <2> QED BY <1>3, <2>1 DEF AbortBackup
  <1>4. CASE StartWriting \/ Stop
    BY <1>0, <1>4 DEF StartWriting, Stop, PhaseInv, Uncommitted
  <1>5. ASSUME NEW t \in Targets, WriteTarget(t) \/ RestoreTarget(t) PROVE TypeOK'
    <2>1. journal # None /\ t \in Items /\ journal \in Journal
      BY <1>5 DEF WriteTarget, RestoreTarget
    <2>2. journal.before[t] \in Content /\ journal.after[t] \in Content
      <3>1. journal.after[t] # None
        BY <2>1 DEF JournalInv, Items, Part
      <3> QED BY <2>1, <3>1, JournalParts DEF Old
    <2>3. {"written", "restored"} \subseteq Marks
      BY DEF Marks
    <2>4. UNCHANGED <<state, journal, backups, Items>> /\ todo' = todo \ {t} /\ phase' \in {"checking", phase}
      BY <1>0, <1>5 DEF WriteTarget, RestoreTarget
    <2>5. file' \in [Targets -> Content] /\ mark' \in [Targets -> Marks]
      BY <1>5, <2>2, <2>3 DEF WriteTarget, RestoreTarget
    <2> QED BY <2>4, <2>5
  <1>16. ASSUME NEW t \in Targets, InspectTarget(t) \/ RefuseTarget(t) PROVE TypeOK'
    <2>1. /\ journal \in Journal /\ journal' = [journal EXCEPT !.found[t] = file[t]] /\ file[t] \in Content
          /\ mark' = [mark EXCEPT ![t] = IF mark[t] = "theirs" THEN "taken" ELSE mark[t]]
          /\ UNCHANGED <<file, state, backups>> /\ phase' \in {"writing", "idle"} /\ todo' \subseteq todo
      BY <1>16 DEF InspectTarget, RefuseTarget, Look, PhaseInv, Uncommitted
    <2>2. journal' \in Journal /\ journal' # None /\ Items' = Items
      BY <2>1, TermAssumption DEF Journal, Old, Items, Part
    <2>3. mark' \in [Targets -> Marks]
      BY <2>1 DEF Marks
    <2>4. todo \subseteq Items
      BY <2>1, TermAssumption
    <2> QED BY <2>1, <2>2, <2>3, <2>4
  <1>6. CASE CommitState
    BY <1>0, <1>6, NewStateType DEF CommitState, PhaseInv, Uncommitted
  <1>7. CASE MarkCommitted
    <2>1. journal \in Journal /\ journal' = [journal EXCEPT !.committed = TRUE]
      BY <1>7 DEF MarkCommitted, PhaseInv, Uncommitted
    <2>2. journal' \in Journal
      BY <2>1 DEF Journal
    <2>3. mark' \in [Targets -> Marks]
      BY <1>7 DEF MarkCommitted, Settled, Marks
    <2> QED BY <1>7, <2>2, <2>3 DEF MarkCommitted
  <1>8. CASE RemoveJournal \/ DropCommitted
    BY <1>8 DEF RemoveJournal, DropCommitted
  <1>9. CASE Clean
    <2>1. Nothing \in [Targets -> Contents \cup {None}]
      BY DEF Nothing
    <2> QED BY <1>0, <1>9, <2>1 DEF Clean
  <1>10. CASE StartRecover
    BY <1>0, <1>10 DEF StartRecover, Listed, Uncommitted
  <1>11. ASSUME NEW t \in Targets, KeepTarget(t) PROVE TypeOK'
    BY <1>0, <1>11 DEF KeepTarget
  <1>12. CASE RestoreState
    BY <1>0, <1>12, JournalParts DEF RestoreState, PhaseInv, Uncommitted
  <1>13. CASE EndRecover
    BY <1>13 DEF EndRecover, Settled, Marks
  <1>14. ASSUME NEW t \in Targets, Edit(t) PROVE TypeOK'
    BY <1>0, <1>14 DEF Edit, Marks
  <1>15. CASE UNCHANGED vars
    BY <1>0, <1>15 DEF vars
  <1> QED
    BY <1>1, <1>2, <1>3, <1>4, <1>5, <1>6, <1>7, <1>8, <1>9, <1>10, <1>11, <1>12, <1>13, <1>14, <1>15,
       <1>16, ApplyStarts, RollbackStarts DEF Next, OperationStep

-----------------------------------------------------------------------------
(* The kinds of steps, by what they do to the journal and the state.       *)
FileStep(t) == BackupTarget(t) \/ WriteTarget(t) \/ KeepTarget(t) \/ RestoreTarget(t) \/ Edit(t)
LookStep(t) == InspectTarget(t) \/ RefuseTarget(t)
PlainStep == StartWriting \/ Clean \/ Stop \/ StartRecover
StateStep == CommitState \/ RestoreState
JournalStep == AbortBackup \/ MarkCommitted \/ RemoveJournal \/ EndRecover \/ DropCommitted

(* Every step is of one of these kinds.                                    *)
LEMMA StepKinds ==
  ASSUME TypeOK, [Next]_vars
  PROVE  \/ \E component \in Components \cup {None} : \E after \in Old : Starts(component, after)
         \/ \E t \in Targets : FileStep(t) \/ LookStep(t)
         \/ PlainStep \/ StateStep \/ JournalStep \/ UNCHANGED vars
  BY ApplyStarts, RollbackStarts DEF Next, OperationStep, FileStep, LookStep, PlainStep, StateStep, JournalStep

(* What each kind leaves alone.                                            *)
LEMMA KindEffects ==
  /\ \A t \in Targets : FileStep(t) => /\ UNCHANGED <<state, journal>>
                                       /\ UNCHANGED phase \/ WriteTarget(t)
  /\ PlainStep => UNCHANGED <<file, mark, state, journal>>
  /\ StateStep => UNCHANGED <<file, mark, journal, backups>>
  /\ JournalStep => UNCHANGED <<file, state>>
  /\ UNCHANGED vars => UNCHANGED <<file, mark, state, journal, backups, phase, todo>>
  BY DEF FileStep, PlainStep, StateStep, JournalStep, BackupTarget, WriteTarget, KeepTarget, RestoreTarget,
     Edit, StartWriting, Clean, Stop, StartRecover, CommitState, RestoreState, AbortBackup, MarkCommitted,
     RemoveJournal, EndRecover, DropCommitted, vars

(* A commit mark changes nothing else of the journal; the other steps      *)
(* remove it.                                                              *)
LEMMA JournalSteps ==
  ASSUME TypeOK, PhaseInv, JournalStep
  PROVE  \/ journal' = None
         \/ /\ MarkCommitted /\ journal # None /\ journal' = [journal EXCEPT !.committed = TRUE]
            /\ journal'.slot = journal.slot /\ journal'.state_before = journal.state_before
            /\ journal'.before = journal.before /\ journal'.after = journal.after
            /\ journal'.found = journal.found
            /\ journal'.component = journal.component /\ ~Uncommitted'
            /\ Items' = Items
  BY DEF JournalStep, MarkCommitted, AbortBackup, RemoveJournal, EndRecover, DropCommitted, Goto, PhaseInv,
     Uncommitted, TypeOK, Journal, Items, Part

(* An inspection puts what is in HOME into the journal and changes nothing *)
(* else of it.                                                             *)
LEMMA LookSteps ==
  ASSUME IInv, NEW t \in Targets, LookStep(t)
  PROVE  /\ Uncommitted /\ Uncommitted' /\ t \in Items /\ Items' = Items /\ UNCHANGED <<file, state, backups>>
         /\ t \notin todo /\ journal.found[t] = None /\ phase = "checking" /\ state = journal.state_before
         /\ journal'.slot = journal.slot /\ journal'.state_before = journal.state_before
         /\ journal'.before = journal.before /\ journal'.after = journal.after
         /\ journal'.component = journal.component
         /\ journal'.found = [journal.found EXCEPT ![t] = file[t]]
         /\ mark[t] \in {"written", "theirs"}
         /\ mark' = [mark EXCEPT ![t] = IF mark[t] = "theirs" THEN "taken" ELSE mark[t]]
         /\ file[t] # None /\ Backed(t) /\ (Verified(t) => InspectTarget(t))
  <1>1. /\ journal' = [journal EXCEPT !.found[t] = file[t]] /\ t \in Items \ todo /\ journal.found[t] = None
        /\ mark' = [mark EXCEPT ![t] = IF mark[t] = "theirs" THEN "taken" ELSE mark[t]]
        /\ UNCHANGED <<file, state, backups>> /\ phase = "checking" /\ (Verified(t) => InspectTarget(t))
    BY DEF LookStep, InspectTarget, RefuseTarget, Look, Goto
  <1>2. Uncommitted /\ journal \in Journal /\ state = journal.state_before
    BY <1>1 DEF IInv, PhaseInv, TypeOK, Uncommitted
  <1>3. file[t] # None
    BY TermAssumption DEF IInv, TypeOK
  <1>4. /\ journal'.slot = journal.slot /\ journal'.state_before = journal.state_before
        /\ journal'.before = journal.before /\ journal'.after = journal.after
        /\ journal'.component = journal.component /\ journal'.committed = journal.committed
        /\ journal'.found = [journal.found EXCEPT ![t] = file[t]]
    BY <1>1, <1>2 DEF Journal
  <1>5. journal' # None
    <2>1. journal' \in Journal
      BY <1>1, <1>2 DEF IInv, TypeOK, Journal, Old
    <2> QED BY <2>1, TermAssumption
  <1>6. Uncommitted' /\ Items' = Items
    BY <1>2, <1>4, <1>5 DEF Uncommitted, Items, Part
  <1>7. mark[t] \in {"written", "theirs"} /\ Backed(t)
    BY <1>1, <1>2 DEF IInv, LoopInv, MarkInv, MarkGood
  <1> QED BY <1>1, <1>2, <1>3, <1>4, <1>6, <1>7

(* What the last changes wrote stays managed.                              *)
LEMMA StateStepInv == IInv /\ [Next]_vars => StateInv'
  <1> SUFFICES ASSUME IInv, [Next]_vars PROVE StateInv'
    OBVIOUS
  <1>0. ASSUME NEW t \in Targets, LookStep(t)
        PROVE  journal # None /\ UNCHANGED state /\ journal'.state_before = journal.state_before
    BY <1>0, LookSteps DEF Uncommitted
  <1> USE DEF IInv, StateInv
  <1>1. ASSUME NEW component \in Components \cup {None}, NEW after \in Old, Starts(component, after)
        PROVE  StateInv'
    <2>1. UNCHANGED state /\ journal'.state_before = state
      BY <1>1, NewJournal DEF Starts
    <2> QED BY <2>1 DEF Replaced, Part
  <1>2. CASE UNCHANGED <<state, journal>>
    BY <1>2 DEF Replaced, Part
  <1>3. CASE CommitState
    <2>1. journal # None /\ state' = NewState /\ \A t \in Items : Inspected(t)
      BY <1>3 DEF CommitState, Goto, PhaseInv, LoopInv, Uncommitted
    <2>2. Replaced(state')
      BY <2>1, NewReplaced
    <2> QED BY <1>3, <2>2, KindEffects DEF StateStep, Replaced, Part
  <1>4. CASE RestoreState
    BY <1>4 DEF RestoreState, Goto, PhaseInv, Uncommitted, Replaced, Part
  <1>5. CASE JournalStep
    BY <1>5, JournalSteps, KindEffects DEF Replaced, Part
  <1>6. ASSUME NEW t \in Targets, LookStep(t) PROVE StateInv'
    BY <1>0, <1>6 DEF Replaced, Part
  <1> QED BY <1>1, <1>2, <1>3, <1>4, <1>5, <1>6, StepKinds, KindEffects DEF StateStep

(* Every step preserves the journal.                                       *)
LEMMA JournalStepInv == IInv /\ [Next]_vars => JournalInv'
  <1> SUFFICES ASSUME IInv, [Next]_vars PROVE JournalInv'
    OBVIOUS
  <1>0. ASSUME NEW t \in Targets, LookStep(t)
        PROVE  /\ journal # None /\ Items' = Items
               /\ journal'.slot = journal.slot /\ journal'.state_before = journal.state_before
               /\ journal'.before = journal.before /\ journal'.after = journal.after
               /\ journal'.component = journal.component
    BY <1>0, LookSteps DEF Uncommitted
  <1> USE DEF IInv
  <1>1. ASSUME NEW component \in Components \cup {None}, NEW after \in Old, Starts(component, after)
        PROVE  JournalInv'
    <2>1. Begin(component, after)
      BY <1>1 DEF Starts
    <2>8. /\ journal'.before = [t \in Targets |-> IF after[t] = None THEN None ELSE file[t]]
          /\ journal'.after = after /\ Items' = Part(after)
      BY <2>1, NewJournal
    <2>2. \A c \in Components : state.previous[c] # None => state.previous[c].slot # journal'.slot
      BY <2>1, NewJournal DEF Referenced
    <2>3. \A t \in Targets : journal'.before[t] = None <=> journal'.after[t] = None
      <3>1. \A t \in Targets : file[t] # None
        BY TermAssumption DEF TypeOK
      <3> QED BY <2>8, <3>1
    <2>4. \A t \in Items' : t \in Targets /\ after[t] # None /\ journal'.before[t] = file[t]
      BY <2>8 DEF Part
    <2>5. component = None => \A t \in Items' : journal'.after[t] # Absent
      BY <1>1, <2>8 DEF Starts
    <2>6. component # None => /\ state.previous[component] # None
                              /\ journal'.after = state.previous[component].before
                              /\ \A t \in Items' : journal'.before[t] # Absent
      <3>1. ASSUME component # None, NEW t \in Part(after) PROVE state.targets[t] # Absent
        BY <1>1, <3>1, TermAssumption DEF Starts, StateInv, Replaced
      <3> QED BY <1>1, <2>4, <2>8, <3>1 DEF Starts, Intact
    <2>7. journal'.component = component /\ journal'.state_before = state
      BY <2>1, NewJournal
    <2> QED BY <2>2, <2>3, <2>5, <2>6, <2>7 DEF JournalInv
  <1>2. CASE UNCHANGED journal
    BY <1>2, JournalKept DEF JournalInv
  <1>3. CASE JournalStep
    BY <1>3, JournalSteps DEF JournalInv
  <1>4. ASSUME NEW t \in Targets, LookStep(t) PROVE JournalInv'
    BY <1>0, <1>4 DEF JournalInv
  <1> QED BY <1>1, <1>2, <1>3, <1>4, StepKinds, KindEffects

-----------------------------------------------------------------------------
(* Backups.                                                                *)

(* LeadsBack with its backups as a parameter.                              *)
LeadsBackBy(bk, s) ==
  \A c \in Components : s.previous[c] # None =>
    \A t \in Targets : s.previous[c].before[t] \in {None, Absent, bk[s.previous[c].slot][t]}

(* Leading back, with the backups as a parameter.                          *)
LEMMA LeadsBackBoth ==
  /\ \A s \in State : LeadsBack(s) <=> LeadsBackBy(backups, s)
  /\ LeadsBack(state) <=> LeadsBackBy(backups, state)
  /\ LeadsBack(state)' <=> LeadsBackBy(backups', state')
  /\ LeadsBack(journal.state_before) <=> LeadsBackBy(backups, journal.state_before)
  /\ LeadsBack(journal.state_before)' <=> LeadsBackBy(backups', journal'.state_before)
  BY DEF LeadsBack, LeadsBackBy, Readable, Part

(* Directories for backups that a state does not refer to may change.      *)
LEMMA LeadsBackFrame ==
  ASSUME NEW bk1, NEW bk2, NEW s, LeadsBackBy(bk1, s),
         \A c \in Components : s.previous[c] # None => bk2[s.previous[c].slot] = bk1[s.previous[c].slot]
  PROVE  LeadsBackBy(bk2, s)
  BY DEF LeadsBackBy

(* A change to the directory of the journal changes nothing that the state *)
(* before the transaction leads back to.                                   *)
LEMMA OwnSlot ==
  ASSUME TypeOK, JournalInv, journal # None, LeadsBackBy(backups, journal.state_before),
         NEW new, backups' = [backups EXCEPT ![journal.slot] = new]
  PROVE  LeadsBackBy(backups', journal.state_before)
  <1>1. journal.state_before \in State
    BY JournalParts DEF TypeOK
  <1>2. \A c \in Components : journal.state_before.previous[c] # None =>
          journal.state_before.previous[c].slot \in Slots \ {journal.slot}
    BY <1>1, StateParts DEF JournalInv
  <1>3. \A s \in Slots \ {journal.slot} : backups'[s] = backups[s]
    BY DEF TypeOK
  <1>4. \A c \in Components : journal.state_before.previous[c] # None =>
          backups'[journal.state_before.previous[c].slot] = backups[journal.state_before.previous[c].slot]
    BY <1>2, <1>3
  <1> QED BY <1>4 DEF LeadsBackBy

(* Once everything is backed up, the state after the transaction leads     *)
(* back: to what it replaces, or, for a rollback, no further.              *)
LEMMA NewLeadsBack ==
  ASSUME TypeOK, StateInv, JournalInv, journal # None, LeadsBack(journal.state_before),
         \A t \in Items : Backed(t)
  PROVE  LeadsBack(NewState)
  <1>1. journal \in Journal /\ journal.state_before \in State
    BY JournalParts DEF TypeOK
  <1>2. journal.state_before.previous \in [Components -> Backup \cup {None}]
    BY <1>1 DEF State
  <1>3. CASE journal.component = None
    <2>1. ASSUME NEW c \in Components, InstalledState.previous[c] # None,
                 NEW t \in Part(InstalledState.previous[c].before)
          PROVE  Readable(InstalledState.previous[c].slot, t, InstalledState.previous[c].before[t])
      <3>1. CASE ItemsOf(c) = {}
        BY <2>1, <3>1 DEF InstalledState, LeadsBack
      <3>2. CASE ItemsOf(c) # {}
        <4>1. /\ InstalledState.previous[c].slot = journal.slot
              /\ InstalledState.previous[c].before = Of(c, journal.before)
          BY <3>2 DEF InstalledState
        <4>2. t \in Items /\ Of(c, journal.before)[t] = journal.before[t]
          BY <2>1, <4>1 DEF Of, Items, Part
        <4> QED BY <4>1, <4>2 DEF Backed
      <3> QED BY <3>1, <3>2
    <2> QED BY <1>3, <2>1 DEF NewState, LeadsBack
  <1>4. CASE journal.component # None
    <2>1. journal.component \in Components
      BY <1>1, <1>4, JournalParts
    <2>2. \A c \in Components : RolledBackState.previous[c] # None =>
            RolledBackState.previous[c] = journal.state_before.previous[c]
      BY <1>2, <2>1 DEF RolledBackState
    <2> QED BY <1>4, <2>2 DEF NewState, LeadsBack
  <1> QED BY <1>3, <1>4

(* Every step preserves the backups.                                       *)
LEMMA BackupStep == IInv /\ [Next]_vars => BackupInv'
  <1> SUFFICES ASSUME IInv, [Next]_vars
               PROVE  /\ LeadsBackBy(backups', state')
                      /\ Uncommitted' => LeadsBackBy(backups', journal'.state_before)
    BY LeadsBackBoth DEF BackupInv
  <1>0. /\ LeadsBackBy(backups, state)
        /\ Uncommitted => LeadsBackBy(backups, journal.state_before)
    BY LeadsBackBoth DEF IInv, BackupInv
  <1>1. ASSUME NEW component \in Components \cup {None}, NEW after \in Old, Starts(component, after)
        PROVE  LeadsBackBy(backups', state') /\ journal'.state_before = state'
    <2>1. Begin(component, after)
      BY <1>1 DEF Starts
    <2>2. /\ backups' = [backups EXCEPT ![journal'.slot] = Nothing] /\ journal'.slot \in Slots \ Referenced
          /\ state' = state /\ journal'.state_before = state
      BY <2>1, NewJournal DEF IInv
    <2>3. \A c \in Components : state.previous[c] # None =>
            state.previous[c].slot # journal'.slot /\ state.previous[c].slot \in Slots
      BY <2>2, StateParts DEF Referenced, IInv, TypeOK
    <2>4. \A s \in Slots : s # journal'.slot => backups'[s] = backups[s]
      BY <2>2 DEF IInv, TypeOK
    <2>5. \A c \in Components : state.previous[c] # None =>
            backups'[state.previous[c].slot] = backups[state.previous[c].slot]
      BY <2>3, <2>4
    <2>6. LeadsBackBy(backups', state)
      BY <1>0, <2>5, LeadsBackFrame
    <2> QED BY <2>2, <2>6
  <1>2. CASE UNCHANGED <<state, backups>> /\ (UNCHANGED journal \/ JournalStep)
    BY <1>0, <1>2, JournalSteps, JournalKept DEF IInv, Uncommitted
  <1>3. ASSUME NEW t \in Targets, BackupTarget(t)
        PROVE  /\ LeadsBackBy(backups', state')
               /\ Uncommitted' => LeadsBackBy(backups', journal'.state_before)
    <2>1. state = journal.state_before /\ Uncommitted /\ UNCHANGED <<state, journal>>
      BY <1>3 DEF BackupTarget, IInv, PhaseInv
    <2>2. backups' = [backups EXCEPT ![journal.slot] = [backups[journal.slot] EXCEPT ![t] = file[t]]]
      BY <1>3 DEF BackupTarget
    <2> QED BY <1>0, <2>1, <2>2, OwnSlot DEF IInv, Uncommitted
  <1>4. CASE AbortBackup
    <2>1. state = journal.state_before /\ Uncommitted /\ UNCHANGED state /\ journal' = None
      BY <1>4 DEF AbortBackup, Goto, IInv, PhaseInv
    <2>2. backups' = [backups EXCEPT ![journal.slot] = Nothing]
      BY <1>4 DEF AbortBackup
    <2> QED BY <1>0, <2>1, <2>2, OwnSlot DEF IInv, Uncommitted
  <1>5. CASE Clean
    <2>1. journal' = None /\ UNCHANGED state
      BY <1>5 DEF Clean, Goto, IInv, PhaseInv
    <2>2. \A c \in Components : state.previous[c] # None =>
            backups'[state.previous[c].slot] = backups[state.previous[c].slot]
      BY <1>5, StateParts DEF Clean, Referenced, IInv, TypeOK
    <2> QED BY <1>0, <2>1, <2>2, LeadsBackFrame DEF Uncommitted
  <1>6. CASE CommitState
    <2>1. UNCHANGED <<journal, backups>> /\ Uncommitted /\ state' = NewState /\ NewState \in State
      BY <1>6, NewStateType DEF CommitState, Goto, IInv, PhaseInv, Uncommitted
    <2>2. \A t \in Items : Backed(t)
      BY <1>6 DEF CommitState, Goto, IInv, LoopInv
    <2>3. LeadsBack(NewState)
      BY <2>1, <2>2, NewLeadsBack DEF IInv, BackupInv, Uncommitted
    <2> QED BY <1>0, <2>1, <2>3, LeadsBackBoth
  <1>7. CASE RestoreState
    BY <1>0, <1>7 DEF RestoreState, Goto, IInv, PhaseInv
  <1>8. ASSUME NEW t \in Targets, FileStep(t), ~BackupTarget(t) PROVE UNCHANGED backups
    BY <1>8 DEF FileStep, WriteTarget, KeepTarget, RestoreTarget, Edit
  <1>10. ASSUME NEW t \in Targets, LookStep(t)
         PROVE  /\ LeadsBackBy(backups', state')
                /\ Uncommitted' => LeadsBackBy(backups', journal'.state_before)
    BY <1>0, <1>10, LookSteps
  <1>9. (PlainStep /\ ~Clean) \/ (JournalStep /\ ~AbortBackup) => UNCHANGED backups
    BY DEF PlainStep, StartWriting, Stop, StartRecover, JournalStep, MarkCommitted, RemoveJournal, EndRecover,
       DropCommitted
  <1> QED
    BY <1>1, <1>2, <1>3, <1>4, <1>5, <1>6, <1>7, <1>8, <1>9, <1>10, StepKinds, KindEffects DEF IInv, StateStep

-----------------------------------------------------------------------------
(* What the identities of the files stand for.                             *)
LEMMA MarkStep == IInv /\ [Next]_vars => MarkInv'
  <1> SUFFICES ASSUME IInv, [Next]_vars, Uncommitted', NEW q \in Items'
               PROVE  MarkGood(q)'
    BY DEF MarkInv, MarkGood
  <1>a. Uncommitted => \A t \in Items : MarkGood(t)
    BY DEF IInv, MarkInv, MarkGood
  <1>b. ASSUME NEW t \in Targets, LookStep(t) PROVE MarkGood(q)'
    <2>1. q \in Items /\ q \in Targets /\ MarkGood(q) /\ journal \in Journal
      BY <1>a, <1>b, LookSteps, JournalParts DEF IInv, TypeOK, Uncommitted
    <2>2. /\ journal'.before = journal.before /\ journal'.after = journal.after /\ journal'.slot = journal.slot
          /\ UNCHANGED <<file, backups>>
      BY <1>b, LookSteps
    <2>3. Backed(q)' <=> Backed(q)
      BY <2>2 DEF Backed, Readable
    <2>4. journal.found \in [Targets -> Content \cup {None}] /\ mark \in [Targets -> Marks]
      BY <2>1, JournalParts DEF Old, IInv, TypeOK
    <2>5. /\ journal'.found = [journal.found EXCEPT ![t] = file[t]] /\ file[t] # None /\ Backed(t)
          /\ mark' = [mark EXCEPT ![t] = IF mark[t] = "theirs" THEN "taken" ELSE mark[t]]
          /\ mark[t] \in {"written", "theirs"}
      BY <1>b, LookSteps
    <2>6. CASE q = t
      <3>1. journal'.found[q] = file[q] /\ mark'[q] = IF mark[q] = "theirs" THEN "taken" ELSE "written"
        BY <2>1, <2>4, <2>5, <2>6
      <3> QED BY <2>1, <2>2, <2>3, <2>5, <2>6, <3>1 DEF MarkGood
    <2>7. CASE q # t
      <3>1. journal'.found[q] = journal.found[q] /\ mark'[q] = mark[q]
        BY <2>1, <2>4, <2>5, <2>7
      <3> QED BY <2>1, <2>2, <2>3, <3>1 DEF MarkGood
    <2> QED BY <2>6, <2>7
  <1> USE DEF IInv, TypeOK
  <1>1. ASSUME NEW component \in Components \cup {None}, NEW after \in Old, Starts(component, after)
        PROVE  MarkGood(q)'
    <2>1. Begin(component, after)
      BY <1>1 DEF Starts
    <2>2. Items' = Part(after)
      BY <2>1, NewJournal
    <2>3. q \in Targets /\ after[q] # None
      BY <2>2 DEF Part
    <2>4. journal'.before = [t \in Targets |-> IF after[t] = None THEN None ELSE file[t]]
      BY <2>1, NewJournal
    <2>5. backups' = [backups EXCEPT ![journal'.slot] = Nothing] /\ journal'.slot \in Slots
      BY <2>1, NewJournal
    <2>6. backups'[journal'.slot][q] = None
      BY <2>3, <2>5 DEF Nothing
    <2>7. /\ file' = file /\ mark' = [t \in Targets |-> IF after[t] = None THEN mark[t] ELSE "before"]
          /\ journal'.found = Nothing
      BY <2>1, NewJournal
    <2>8. mark'[q] = "before" /\ file'[q] = journal'.before[q] /\ journal'.found[q] = None
      BY <2>3, <2>4, <2>7 DEF Nothing
    <2> QED BY <2>6, <2>8 DEF MarkGood
  <1>2. CASE UNCHANGED <<journal, file, mark, backups>>
    BY <1>2, JournalKept DEF MarkInv, MarkGood, Backed, Readable
  <1>3. ASSUME UNCHANGED journal
        PROVE  /\ Uncommitted /\ q \in Items /\ q \in Targets /\ journal \in Journal
               /\ MarkGood(q) /\ journal.slot \in Slots
    BY <1>3, <1>a, JournalKept, JournalParts DEF Uncommitted
  <1>4. ASSUME NEW t \in Targets, BackupTarget(t) PROVE MarkGood(q)'
    <2>1. UNCHANGED <<journal, file, mark>> /\ phase = "backing"
      BY <1>4 DEF BackupTarget
    <2>2. backups' = [backups EXCEPT ![journal.slot] = [backups[journal.slot] EXCEPT ![t] = file[t]]]
      BY <1>4 DEF BackupTarget
    <2>3. backups'[journal.slot][q] = IF q = t THEN file[t] ELSE backups[journal.slot][q]
      BY <1>3, <2>1, <2>2
    <2>4. mark[q] \in {"before", "theirs"} /\ journal.found[q] = None /\ mark[t] = "before"
      BY <1>3, <1>4, <2>1 DEF LoopInv, BackupTarget
    <2> QED BY <1>3, <2>1, <2>3, <2>4 DEF MarkGood
  <1>12. UNCHANGED <<journal, backups>> => (Backed(q)' <=> Backed(q))
    BY DEF Backed, Readable
  <1>5. ASSUME NEW t \in Targets, WriteTarget(t) PROVE MarkGood(q)'
    <2>1. /\ UNCHANGED <<journal, backups>> /\ Backed(q) /\ t \in todo
          /\ q = t => mark'[q] = "written" /\ file'[q] = journal.after[q]
          /\ q # t => mark'[q] = mark[q] /\ file'[q] = file[q]
      BY <1>3, <1>5 DEF WriteTarget, Goto, LoopInv
    <2>2. q = t => journal.found[q] = None
      BY <1>3, <1>5, <2>1 DEF WriteTarget, Goto, LoopInv
    <2> QED BY <1>3, <1>12, <2>1, <2>2 DEF MarkGood
  <1>6. ASSUME NEW t \in Targets, RestoreTarget(t) PROVE MarkGood(q)'
    <2>1. /\ UNCHANGED <<journal, backups>>
          /\ q = t => mark'[q] = "restored" /\ file'[q] = journal.before[q]
          /\ q # t => mark'[q] = mark[q] /\ file'[q] = file[q]
      BY <1>3, <1>6 DEF RestoreTarget
    <2> QED BY <1>3, <1>12, <2>1 DEF MarkGood
  <1>7. ASSUME NEW t \in Targets, Edit(t) PROVE MarkGood(q)'
    <2>1. /\ UNCHANGED <<journal, backups>>
          /\ q = t => mark'[q] = "theirs"
          /\ q # t => mark'[q] = mark[q] /\ file'[q] = file[q]
      BY <1>3, <1>7 DEF Edit
    <2> QED BY <1>3, <1>12, <2>1 DEF MarkGood
  <1>8. ASSUME NEW t \in Targets, KeepTarget(t) PROVE UNCHANGED <<journal, file, mark, backups>>
    BY <1>8 DEF KeepTarget
  <1>9. CASE Clean
    BY <1>3, <1>9 DEF Clean, Goto, PhaseInv, Uncommitted
  <1>10. PlainStep /\ ~Clean => UNCHANGED backups
    BY DEF PlainStep, StartWriting, Stop, StartRecover
  <1>13. ASSUME NEW t \in Targets, FileStep(t) PROVE MarkGood(q)'
    BY <1>2, <1>4, <1>5, <1>6, <1>7, <1>8, <1>13 DEF FileStep
  <1>14. ~JournalStep
    BY JournalSteps DEF Uncommitted
  <1> QED BY <1>1, <1>2, <1>9, <1>10, <1>13, <1>14, <1>b, StepKinds, KindEffects DEF StateStep

-----------------------------------------------------------------------------
(* Phases and loops.                                                       *)
LEMMA PhaseStep == IInv /\ [Next]_vars => PhaseInv'
  <1> SUFFICES ASSUME IInv, [Next]_vars PROVE PhaseInv'
    OBVIOUS
  <1>0. ASSUME NEW t \in Targets, LookStep(t)
        PROVE  Uncommitted' /\ state' = journal'.state_before /\ phase' \in {"writing", "idle"}
    BY <1>0, LookSteps DEF LookStep, InspectTarget, RefuseTarget, Goto
  <1> USE DEF IInv
  <1>1. ASSUME NEW component \in Components \cup {None}, NEW after \in Old, Starts(component, after)
        PROVE  PhaseInv'
    <2>1. phase' = "backing" /\ Uncommitted' /\ state' = journal'.state_before
      BY <1>1, NewJournal DEF Starts
    <2> QED BY <2>1 DEF PhaseInv
  <1>2. CASE UNCHANGED <<state, journal, backups>> /\ (UNCHANGED phase \/ phase' = "idle")
    BY <1>2, JournalKept DEF PhaseInv, Backed, Readable
  <1>3. ASSUME NEW t \in Targets, FileStep(t) PROVE PhaseInv'
    <2>1. UNCHANGED <<state, journal>> /\ (UNCHANGED phase \/ WriteTarget(t))
      BY <1>3, KindEffects
    <2>2. CASE BackupTarget(t)
      BY <2>1, <2>2, JournalKept DEF BackupTarget, PhaseInv
    <2>3. CASE WriteTarget(t)
      <3>1. Uncommitted /\ state = journal.state_before /\ phase' = "checking"
        BY <2>3 DEF WriteTarget, Goto, PhaseInv
      <3> QED BY <2>1, <3>1, JournalKept DEF PhaseInv
    <2>4. CASE ~BackupTarget(t) /\ ~WriteTarget(t)
      BY <1>2, <1>3, <2>1, <2>4 DEF FileStep, KeepTarget, RestoreTarget, Edit
    <2> QED BY <2>2, <2>3, <2>4
  <1>9. ASSUME NEW t \in Targets, LookStep(t) PROVE PhaseInv'
    BY <1>0, <1>9 DEF PhaseInv
  <1>4. CASE StartWriting \/ StartRecover
    <2>1. /\ Uncommitted /\ UNCHANGED <<state, journal, backups>>
          /\ \/ phase' = "writing" /\ state = journal.state_before
             \/ phase' = "restoring"
      BY <1>4 DEF StartWriting, StartRecover, Goto, PhaseInv
    <2> QED BY <2>1, JournalKept DEF PhaseInv, Backed, Readable
  <1>5. CASE Clean
    BY <1>5 DEF Clean, Goto, PhaseInv, Uncommitted
  <1>6. CASE CommitState
    <2>1. /\ Uncommitted /\ UNCHANGED <<journal, backups>> /\ phase' = "committing" /\ state' = NewState
          /\ \A t \in Items : Backed(t)
      BY <1>6 DEF CommitState, Goto, PhaseInv, LoopInv
    <2> QED BY <2>1, JournalKept DEF PhaseInv, Backed, Readable
  <1>7. CASE RestoreState
    <2>1. Uncommitted /\ UNCHANGED <<journal, backups>> /\ phase' = "closing" /\ state' = journal.state_before
      BY <1>7 DEF RestoreState, Goto, PhaseInv
    <2> QED BY <2>1, JournalKept DEF PhaseInv
  <1>8. CASE JournalStep
    <2>1. CASE MarkCommitted
      <3>1. journal \in Journal /\ journal' = [journal EXCEPT !.committed = TRUE] /\ phase' = "committed"
        BY <2>1 DEF MarkCommitted, Goto, PhaseInv, Uncommitted, TypeOK
      <3>2. journal' \in Journal /\ journal'.committed
        BY <3>1 DEF Journal
      <3>3. journal' # None
        BY <3>2, TermAssumption
      <3> QED BY <3>1, <3>2, <3>3 DEF PhaseInv, Uncommitted
    <2>2. CASE ~MarkCommitted
      <3>1. journal' = None /\ phase' \in {"idle", "cleaning"}
        BY <1>8, <2>2 DEF JournalStep, AbortBackup, RemoveJournal, EndRecover, DropCommitted, Goto
      <3> QED BY <3>1 DEF PhaseInv, Uncommitted
    <2> QED BY <2>1, <2>2
  <1> QED
    BY <1>1, <1>2, <1>3, <1>4, <1>5, <1>6, <1>7, <1>8, <1>9, StepKinds, KindEffects DEF PlainStep, StateStep, Stop

(* A recovery leaves out only what the transaction cannot have written.    *)
LEMMA UnlistedKept ==
  ASSUME IInv, Uncommitted, NEW t \in Items, t \notin Listed
  PROVE  mark[t] = "theirs" \/ file[t] = journal.before[t]
  <1>1. journal.component # None /\ backups[journal.slot][t] = None
    BY DEF Listed
  <1>2. journal.before[t] # Absent /\ journal.before[t] # None /\ t \in Targets
    BY <1>1, JournalParts DEF IInv, TypeOK, JournalInv, Uncommitted
  <1>3. ~Backed(t)
    BY <1>1, <1>2 DEF Backed, Readable
  <1>4. mark[t] \in Marks
    BY <1>2 DEF IInv, TypeOK
  <1> QED BY <1>3, <1>4 DEF IInv, MarkInv, MarkGood, Marks

(* An inspection completes the file that was written last.                 *)
LEMMA InspectLoop ==
  ASSUME IInv, NEW t \in Targets, InspectTarget(t)
  PROVE  LoopInv'
  <1>1. LookStep(t) /\ phase' = "writing" /\ todo' = todo /\ Verified(t) /\ phase = "checking"
    BY DEF LookStep, InspectTarget, Goto
  <1>2. /\ Uncommitted /\ t \in Items /\ Items' = Items /\ t \notin todo /\ journal.found[t] = None
        /\ journal'.before = journal.before /\ journal'.after = journal.after /\ journal'.slot = journal.slot
        /\ journal'.component = journal.component
        /\ journal'.found = [journal.found EXCEPT ![t] = file[t]] /\ file[t] # None
        /\ mark' = [mark EXCEPT ![t] = IF mark[t] = "theirs" THEN "taken" ELSE mark[t]]
        /\ mark[t] \in {"written", "theirs"} /\ UNCHANGED backups
    BY <1>1, LookSteps
  <1>3. journal \in Journal
    BY <1>2 DEF IInv, TypeOK, Uncommitted
  <1>4. /\ journal.found \in [Targets -> Content \cup {None}] /\ Items \subseteq Targets
        /\ mark \in [Targets -> Marks]
    BY <1>3, JournalParts DEF Old, IInv, TypeOK
  <1>5. \A q \in Items : q # t => journal'.found[q] = journal.found[q] /\ mark'[q] = mark[q]
    BY <1>2, <1>4
  <1>6. journal'.found[t] = file[t] /\ mark'[t] \in {"written", "taken"}
    BY <1>2, <1>4
  <1>7. \A q \in Items : Backed(q)' <=> Backed(q)
    BY <1>2 DEF Backed, Readable
  <1>8. \A q \in Items : /\ Backed(q)
                         /\ IF q \in todo THEN journal.found[q] = None ELSE mark[q] \in {"written", "taken", "theirs"}
    BY <1>1 DEF IInv, LoopInv
  <1>9. \A q \in Items \ todo : q = t \/ Inspected(q)
    BY <1>1, <1>2 DEF IInv, LoopInv, Inspected
  <1>10. Inspected(t)'
    BY <1>1, <1>2, <1>6 DEF Verified, Inspected
  <1>11. \A q \in Items \ todo : Inspected(q)'
    BY <1>2, <1>5, <1>9, <1>10 DEF Inspected
  <1> QED BY <1>1, <1>2, <1>5, <1>6, <1>7, <1>8, <1>11 DEF LoopInv

(* Every step keeps the loops in order.                                    *)
LEMMA LoopStep == IInv /\ [Next]_vars => LoopInv'
  <1> SUFFICES ASSUME IInv, [Next]_vars PROVE LoopInv'
    OBVIOUS
  <1>0. ASSUME NEW t \in Targets, InspectTarget(t) PROVE LoopInv'
    BY <1>0, InspectLoop
  <1> USE DEF IInv
  <1>1. ASSUME NEW component \in Components \cup {None}, NEW after \in Old, Starts(component, after)
        PROVE  LoopInv'
    <2>1. Begin(component, after)
      BY <1>1 DEF Starts
    <2>2. /\ journal'.before = [t \in Targets |-> IF after[t] = None THEN None ELSE file[t]]
          /\ mark' = [t \in Targets |-> IF after[t] = None THEN mark[t] ELSE "before"]
          /\ todo' = {t \in Items' : file[t] # Absent} /\ phase' = "backing"
          /\ Items' = Part(after)
      BY <2>1, NewJournal
    <2>3. \A t \in Items' : t \in Targets /\ after[t] # None
      BY <2>2 DEF Part
    <2>4. journal'.found = Nothing
      BY <2>1, NewJournal
    <2> QED BY <2>2, <2>3, <2>4 DEF LoopInv, Backed, Readable, Nothing
  <1>2. CASE UNCHANGED vars
    BY <1>2, JournalKept DEF vars, LoopInv, Inspected, Backed, Readable, Listed
  <1>3. ASSUME NEW t \in Targets, BackupTarget(t) PROVE LoopInv'
    <2>1. UNCHANGED <<journal, file, mark, phase, Items>> /\ todo' = todo \ {t} /\ phase = "backing"
      BY <1>3, JournalKept DEF BackupTarget
    <2>2. backups' = [backups EXCEPT ![journal.slot] = [backups[journal.slot] EXCEPT ![t] = file[t]]]
      BY <1>3 DEF BackupTarget
    <2>3. Uncommitted /\ t \in Items /\ journal \in Journal /\ mark[t] = "before"
      BY <1>3, <2>1 DEF BackupTarget, PhaseInv, Uncommitted, TypeOK
    <2>4. journal.slot \in Slots /\ Items \subseteq Targets
      BY <2>3, JournalParts
    <2>5. file[t] = journal.before[t]
      BY <2>3 DEF MarkInv, MarkGood
    <2>6. \A q \in Targets : backups'[journal.slot][q] = IF q = t THEN file[t] ELSE backups[journal.slot][q]
      BY <2>2, <2>4 DEF TypeOK
    <2>7. \A q \in Items : q = t \/ Backed(q) => Backed(q)'
      BY <2>1, <2>4, <2>5, <2>6 DEF Backed, Readable
    <2> QED BY <2>1, <2>7 DEF LoopInv
  <1>4. ASSUME NEW t \in Targets, WriteTarget(t) \/ KeepTarget(t) \/ RestoreTarget(t) \/ Edit(t) PROVE LoopInv'
    <2>1. UNCHANGED <<journal, backups, Items, Listed>> /\ (UNCHANGED phase \/ WriteTarget(t))
      BY <1>4, JournalKept DEF WriteTarget, KeepTarget, RestoreTarget, Edit, Listed
    <2>9. \A q \in Items : Inspected(q)' <=> Inspected(q)
      BY <2>1 DEF Inspected
    <2>2. \A q \in Items : Backed(q)' <=> Backed(q)
      BY <2>1 DEF Backed, Readable
    <2>3. phase # "idle" /\ phase # "committed" /\ phase # "cleaning" => Items \subseteq Targets
      BY JournalParts DEF PhaseInv, TypeOK, Uncommitted
    <2>4. \A q \in Targets \ {t} : mark'[q] = mark[q] /\ file'[q] = file[q]
      BY <1>4 DEF WriteTarget, KeepTarget, RestoreTarget, Edit, TypeOK
    <2>5. CASE Edit(t)
      <3>1. mark'[t] = "theirs" /\ todo' = todo /\ phase' = phase
        BY <2>5 DEF Edit, TypeOK
      <3> QED BY <2>1, <2>2, <2>3, <2>4, <2>9, <3>1 DEF LoopInv, TypeOK, Listed
    <2>6. CASE WriteTarget(t)
      <3>1. mark'[t] = "written" /\ todo' = todo \ {t} /\ phase = "writing" /\ phase' = "checking" /\ t \in todo
        BY <2>6 DEF WriteTarget, Goto, TypeOK
      <3>2. Uncommitted /\ Items \subseteq Targets /\ t \in Items
        BY <2>3, <3>1 DEF PhaseInv, TypeOK, Uncommitted
      <3>3. \A q \in Items : /\ Backed(q)'
                             /\ IF q \in todo' THEN journal.found[q] = None
                                ELSE mark'[q] \in {"written", "taken", "theirs"}
        BY <2>2, <2>4, <3>1, <3>2 DEF LoopInv
      <3>4. \A q \in Items \ todo' : q = t \/ Inspected(q)'
        BY <2>9, <3>1 DEF LoopInv
      <3> QED BY <2>1, <3>1, <3>2, <3>3, <3>4 DEF LoopInv
    <2>7. CASE KeepTarget(t)
      <3>1. phase = "restoring" /\ todo' = todo \ {t} /\ UNCHANGED <<file, mark>> /\ Kept(t) /\ t \in Items
        BY <2>7 DEF KeepTarget, TypeOK, PhaseInv, Uncommitted
      <3>2. file[t] = journal.before[t]
        BY <3>1 DEF Kept, IsBefore, NoFile, MarkInv, MarkGood, PhaseInv
      <3>3. phase' = phase
        BY <2>7 DEF KeepTarget
      <3> QED BY <2>1, <3>1, <3>2, <3>3 DEF LoopInv, Listed
    <2>8. CASE RestoreTarget(t)
      <3>1. file'[t] = journal.before[t] /\ todo' = todo \ {t} /\ phase = "restoring" /\ phase' = phase
        BY <2>8 DEF RestoreTarget, TypeOK
      <3> QED BY <2>1, <2>3, <2>4, <3>1 DEF LoopInv, Listed
    <2> QED BY <1>4, <2>5, <2>6, <2>7, <2>8
  <1>5. CASE StartWriting
    BY <1>5, JournalKept DEF StartWriting, BackedUp, Goto, LoopInv, Backed, Readable
  <1>11. ASSUME NEW t \in Targets, LookStep(t) PROVE LoopInv'
    <2>1. CASE RefuseTarget(t)
      BY <2>1 DEF RefuseTarget, Goto, LoopInv
    <2>2. CASE InspectTarget(t)
      BY <1>0, <1>11, <2>2
    <2> QED BY <1>11, <2>1, <2>2 DEF LookStep
  <1>6. CASE Stop \/ Clean
    BY <1>6 DEF Stop, Clean, Goto, LoopInv
  <1>7. CASE StartRecover
    BY <1>7, JournalKept DEF StartRecover, Goto, LoopInv, Listed
  <1>8. CASE CommitState
    BY <1>8, JournalKept DEF CommitState, Goto, LoopInv, Inspected, Backed, Readable
  <1>9. CASE RestoreState
    <2>1. /\ UNCHANGED <<file, mark, journal, Items>> /\ phase' = "closing" /\ phase = "restoring" /\ todo = {}
      BY <1>9, JournalKept DEF RestoreState, Goto
    <2>2. \A t \in Items : mark[t] = "theirs" \/ file[t] = journal.before[t]
      BY <2>1, UnlistedKept DEF LoopInv, PhaseInv
    <2> QED BY <2>1, <2>2 DEF LoopInv
  <1>10. CASE JournalStep
    BY <1>10 DEF JournalStep, AbortBackup, MarkCommitted, RemoveJournal, EndRecover, DropCommitted, Goto, LoopInv
  <1> QED
    BY <1>1, <1>2, <1>3, <1>4, <1>5, <1>6, <1>7, <1>8, <1>9, <1>10, <1>11, StepKinds
    DEF FileStep, PlainStep, StateStep

-----------------------------------------------------------------------------
(* The inductive invariant, for any targets, components and contents.      *)
THEOREM InductiveInvariant == Spec => []IInv
  <1>1. Init => IInv
    <2> SUFFICES ASSUME Init PROVE IInv
      OBVIOUS
    <2>1. TypeOK
      BY DEF Init, TypeOK, Marks, State, Nothing, Old, Content
    <2> QED BY <2>1 DEF Init, IInv, StateInv, Replaced, JournalInv, BackupInv, LeadsBack, MarkInv, MarkGood, PhaseInv,
         LoopInv, Uncommitted
  <1>2. IInv /\ [Next]_vars => IInv'
    BY TypeStep, StateStepInv, JournalStepInv, BackupStep, MarkStep, PhaseStep, LoopStep DEF IInv
  <1> QED BY <1>1, <1>2, PTL DEF Spec

(* Everything that a recovery or a rollback needs is there, always.        *)
THEOREM BackupsAreKept == Spec => []BackupsKept
  <1>1. IInv => BackupsKept
    <2> SUFFICES ASSUME IInv PROVE BackupsKept
      OBVIOUS
    <2>1. ASSUME Uncommitted, NEW t \in Listed, IsWritten(t) PROVE Backed(t)
      <3>1. t \in Items /\ t \in Targets /\ journal # None
        BY <2>1, JournalParts DEF Listed, IInv, TypeOK, Uncommitted
      <3>2. CASE mark[t] \in {"written", "taken"}
        BY <2>1, <3>1, <3>2 DEF IInv, MarkInv, MarkGood
      <3>4. CASE NoFile(t, journal.found[t])
        BY <2>1, <3>1, <3>4, TermAssumption DEF NoFile, Content, IInv, MarkInv, MarkGood
      <3>3. CASE NoFile(t, journal.after[t])
        <4>1. journal.component # None
          BY <3>1, <3>3 DEF NoFile, IInv, JournalInv
        <4>2. backups[journal.slot][t] # None
          BY <2>1, <4>1 DEF Listed
        <4> QED BY <2>1, <3>1, <4>2 DEF IInv, MarkInv, MarkGood, Backed, Readable
      <3> QED BY <2>1, <3>2, <3>3, <3>4 DEF IsWritten
    <2>2. ASSUME NEW s \in {state} \cup (IF Uncommitted THEN {journal.state_before} ELSE {}) PROVE LeadsBack(s)
      BY <2>2 DEF IInv, BackupInv
    <2> QED BY <2>1, <2>2 DEF BackupsKept, LeadsBack
  <1> QED BY <1>1, InductiveInvariant, PTL

(* No operation, recovery or rollback changes a file that is the user's.   *)
THEOREM UserFilesSurvive == Spec => KeepsEdits
  <1>1. ASSUME IInv, [Next]_vars, todo' # todo \/ phase' # phase,
               NEW t \in Targets, mark[t] = "theirs", file[t] # Absent
        PROVE  file'[t] = file[t]
    <2>1. CASE \E q \in Targets : WriteTarget(q) \/ RestoreTarget(q)
      BY <1>1, <2>1 DEF WriteTarget, Untouched, RestoreTarget, IsBefore, IsWritten, NoFile, IInv, TypeOK
    <2>2. CASE ~\E q \in Targets : WriteTarget(q) \/ RestoreTarget(q)
      BY <1>1, <2>2, StepKinds, KindEffects, NewJournal
      DEF Starts, FileStep, LookStep, InspectTarget, RefuseTarget, Look, BackupTarget, KeepTarget, Edit, IInv
    <2> QED BY <2>1, <2>2
  <1>2. IInv /\ [Next]_vars =>
          [todo' # todo \/ phase' # phase =>
             \A t \in Targets : mark[t] = "theirs" /\ file[t] # Absent => file'[t] = file[t]]_vars
    BY <1>1
  <1> QED BY <1>2, InductiveInvariant, PTL DEF Spec, KeepsEdits

-----------------------------------------------------------------------------
(* Refinement of AtomicHome: what its variables stand for.                 *)
HomeNow == [t \in Targets |-> IF Uncommitted /\ t \in Items /\ mark[t] # "theirs"
                              THEN journal.before[t] ELSE file[t]]
TheirsNow == {t \in Targets : mark[t] = "theirs"}
OrderOf(j, m, s) == [before |-> j.before, after |-> j.after, found |-> j.found, install |-> j.component = None,
                  managed |-> m, last |-> Entries(s.previous)]
OrderNow == IF ~Uncommitted THEN None ELSE OrderOf(journal, StayManaged, NewState)

(* Steps that change none of it are not seen.                              *)
LEMMA Hidden ==
  ASSUME UNCHANGED <<HomeNow, TheirsNow, Decided, OrderNow>>
  PROVE  UNCHANGED Home!atomicVars
  <1>1. UNCHANGED <<Decided.targets, Entries(Decided.previous)>>
    BY DEF Entries
  <1> QED BY <1>1 DEF Home!atomicVars, HomeNow, TheirsNow, OrderNow, OrderOf

(* What is remembered of a component can be brought back, or is None.      *)
LEMMA EntryTypes ==
  ASSUME NEW s \in State
  PROVE  /\ Entries(s.previous) \in [Components -> Entry \cup {None}]
         /\ \A c \in Components : s.previous[c] = None <=> Entries(s.previous)[c] = None
  <1>1. \A c \in Components : s.previous[c] # None =>
          [before |-> s.previous[c].before, managed |-> s.previous[c].managed] \in Entry
    BY StateParts DEF Entry
  <1> QED BY <1>1, OrderAssumption DEF Entries

(* An order is under way while a journal is not committed.                 *)
LEMMA OrderThere ==
  ASSUME IInv
  PROVE  OrderNow # None <=> Uncommitted
  <1>1. ASSUME Uncommitted PROVE OrderNow # None
    <2>1. NewState \in State /\ journal.before \in Old /\ journal.after \in Old /\ journal.found \in Old
      BY <1>1, NewStateType, JournalParts DEF IInv, TypeOK, Uncommitted
    <2>2. StayManaged \in SUBSET Targets
      <3>1. CASE journal.component = None
        BY <3>1 DEF StayManaged, Items, Part
      <3>2. CASE journal.component # None
        <4> DEFINE last == journal.state_before.previous[journal.component]
        <4>1. journal.state_before \in State /\ journal.component \in Components /\ last # None
          BY <1>1, <3>2, JournalParts DEF IInv, TypeOK, JournalInv, Uncommitted
        <4> QED BY <3>2, <4>1, StateParts DEF StayManaged
      <3> QED BY <3>1, <3>2
    <2>3. OrderNow \in Order
      BY <1>1, <2>1, <2>2, EntryTypes DEF OrderNow, OrderOf, Order
    <2> QED BY <2>3, OrderAssumption
  <1> QED BY <1>1 DEF OrderNow

(* A file that a write or a recovery replaces is shown as it was before    *)
(* the transaction, or it is absent and taken back from the user.          *)
LEMMA ReplaceShown ==
  ASSUME IInv, Uncommitted, UNCHANGED <<state, journal>>, NEW t \in Items,
         NEW m \in {"written", "restored"}, NEW v,
         file' = [file EXCEPT ![t] = v], mark' = [mark EXCEPT ![t] = m],
         mark[t] = "theirs" => file[t] = Absent /\ Absent \in {journal.before[t], journal.after[t], journal.found[t]}
  PROVE  Home!TakeBack(t) \/ UNCHANGED Home!atomicVars
  <1>1. t \in Targets /\ journal.before[t] # None /\ UNCHANGED <<Items, Uncommitted, NewState>>
    BY JournalParts, JournalKept DEF IInv, TypeOK, Uncommitted
  <1>2. UNCHANGED <<Decided, OrderNow>>
    BY <1>1 DEF Decided, OrderNow, OrderOf, Entries, StayManaged
  <1>3. HomeNow' = [HomeNow EXCEPT ![t] = journal.before[t]] /\ TheirsNow' = TheirsNow \ {t}
    BY <1>1 DEF HomeNow, TheirsNow, IInv, TypeOK
  <1>4. CASE mark[t] = "theirs"
    <2>1. HomeNow[t] = Absent
      BY <1>1, <1>4 DEF HomeNow
    <2> QED BY <1>1, <1>2, <1>3, <1>4, <2>1, OrderThere
        DEF Home!TakeBack, HomeNow, TheirsNow, OrderNow, OrderOf, Entries
  <1>5. CASE mark[t] # "theirs"
    <2>1. HomeNow' = HomeNow /\ TheirsNow' = TheirsNow
      BY <1>1, <1>3, <1>5 DEF HomeNow, TheirsNow
    <2> QED BY <1>2, <2>1, Hidden
  <1> QED BY <1>4, <1>5

(* An edit is the user's at once.                                          *)
LEMMA EditShown ==
  ASSUME IInv, NEW t \in Targets, Edit(t)
  PROVE  Home!Edit(t)
  <1>1. PICK v \in Content : file' = [file EXCEPT ![t] = v]
    BY DEF Edit
  <1>2. /\ mark' = [mark EXCEPT ![t] = "theirs"]
        /\ UNCHANGED <<state, journal, Items, Uncommitted, NewState>>
    BY JournalKept DEF Edit
  <1>3. UNCHANGED <<Decided, OrderNow>>
    BY <1>2 DEF Decided, OrderNow, OrderOf, Entries, StayManaged
  <1>4. HomeNow' = [HomeNow EXCEPT ![t] = v] /\ TheirsNow' = TheirsNow \cup {t}
    BY <1>1, <1>2 DEF HomeNow, TheirsNow, IInv, TypeOK
  <1>5. UNCHANGED <<Decided.targets, Entries(Decided.previous)>>
    BY <1>3 DEF Entries
  <1> QED BY <1>1, <1>3, <1>4, <1>5 DEF Home!Edit, HomeNow, TheirsNow, OrderNow, OrderOf, Content

(* The commit switches; a failed backup and a recovery cancel.             *)
LEMMA CommitSwitches ==
  ASSUME IInv, MarkCommitted
  PROVE  Home!Switch
  <1>1. /\ Uncommitted /\ ~Uncommitted' /\ state = NewState /\ UNCHANGED <<file, state>>
        /\ mark' = Settled({"written", "taken"}) /\ journal \in Journal
    BY JournalSteps DEF MarkCommitted, Goto, IInv, PhaseInv, JournalStep, Uncommitted, TypeOK, Journal
  <1>2. \A t \in Items : /\ t \in Targets /\ journal.before[t] # None /\ Inspected(t)
                         /\ mark[t] # "theirs" => file[t] = journal.found[t]
    <2>1. \A t \in Items : t \in Targets /\ journal.before[t] # None
      BY <1>1, JournalParts
    <2>2. \A t \in Items : mark[t] \in {"written", "taken", "theirs"} /\ Inspected(t)
      BY DEF MarkCommitted, Goto, IInv, LoopInv, TypeOK
    <2> QED BY <1>1, <2>1, <2>2 DEF IInv, MarkInv, MarkGood, Inspected
  <1>3. \A t \in Targets \ Items : journal.before[t] = None
    BY DEF Items, Part
  <1>4. TheirsNow' = TheirsNow
    BY <1>1 DEF TheirsNow, Settled
  <1>5. HomeNow' = [t \in Targets |-> IF journal.before[t] # None /\ t \notin TheirsNow
                                      THEN journal.found[t] ELSE HomeNow[t]]
    BY <1>1, <1>2, <1>3 DEF HomeNow, TheirsNow
  <1>6. Decided' = NewState /\ OrderNow' = None /\ OrderNow = OrderOf(journal, StayManaged, NewState)
    BY <1>1 DEF Decided, OrderNow
  <1>7. Entries(Decided.previous)' = Entries(NewState.previous)
    BY <1>6 DEF Entries
  <1>9. NewState.targets = [t \in Targets |-> IF journal.before[t] = None THEN Decided.targets[t]
                              ELSE IF t \in StayManaged THEN journal.found[t] ELSE None]
    <2>1. Decided = journal.state_before
      BY <1>1 DEF Decided
    <2>2. \A t \in Items : After(t) = journal.found[t]
      BY <1>2 DEF Inspected, After
    <2>3. \A t \in Targets : journal.before[t] = None <=> t \notin Items
      BY DEF Items, Part
    <2> QED BY <2>1, <2>2, <2>3 DEF NewState, InstalledState, RolledBackState, StayManaged
  <1>8. \A t \in Targets : journal.before[t] # None =>
          journal.found[t] # None /\ (journal.component = None => journal.found[t] = journal.after[t])
    BY <1>2, <1>3 DEF Inspected
  <1> QED BY <1>1, <1>4, <1>5, <1>6, <1>7, <1>8, <1>9, OrderThere
      DEF Home!Switch, HomeNow, TheirsNow, OrderNow, OrderOf

(* A restoration that is complete withdraws the order.                     *)
LEMMA Cancels ==
  ASSUME IInv, AbortBackup \/ EndRecover
  PROVE  Home!Cancel
  <1>1. /\ Uncommitted /\ journal' = None /\ ~Uncommitted' /\ UNCHANGED <<file, state>>
        /\ state = journal.state_before
    BY DEF AbortBackup, EndRecover, Goto, IInv, PhaseInv, Uncommitted
  <1>2. TheirsNow' = TheirsNow
    BY DEF AbortBackup, EndRecover, TheirsNow, Settled
  <1>3. \A t \in Items : mark[t] = "theirs" \/ file[t] = journal.before[t]
    BY <1>1 DEF AbortBackup, EndRecover, Goto, IInv, LoopInv, MarkInv, MarkGood
  <1>4. HomeNow' = HomeNow
    BY <1>1, <1>3 DEF HomeNow
  <1>5. Decided' = Decided /\ OrderNow' = None
    BY <1>1 DEF Decided, OrderNow
  <1>6. UNCHANGED <<Decided.targets, Entries(Decided.previous)>>
    BY <1>5 DEF Entries
  <1> QED BY <1>1, <1>2, <1>4, <1>5, <1>6, OrderThere DEF Home!Cancel, HomeNow, TheirsNow, OrderNow, OrderOf

(* A transaction opens an order: an installation or a rollback.            *)
LEMMA BeginShows ==
  ASSUME IInv, NEW component \in Components \cup {None}, NEW after \in Old, Starts(component, after)
  PROVE  /\ OrderNow = None /\ Decided = state /\ Decided' = state /\ HomeNow = file /\ HomeNow' = file
         /\ \A t \in Part(after) :
              Managed(t) => mark[t] # "theirs" \/ (state.targets[t] = Absent /\ file[t] = Absent)
         /\ TheirsNow' = TheirsNow \ Part(after)
  <1>1. Begin(component, after)
    BY DEF Starts
  <1>2. /\ ~Uncommitted /\ Uncommitted' /\ UNCHANGED <<file, state>> /\ journal'.state_before = state
        /\ Items' = Part(after)
    BY <1>1, NewJournal DEF IInv, Uncommitted
  <1>3. Decided = state /\ Decided' = state
    BY <1>2 DEF Decided
  <1>4. mark' = [t \in Targets |-> IF t \in Part(after) THEN "before" ELSE mark[t]]
    <2>1. mark' = [t \in Targets |-> IF after[t] = None THEN mark[t] ELSE "before"]
      BY <1>1, NewJournal DEF IInv
    <2> QED BY <2>1 DEF Part
  <1>5. journal'.before = [t \in Targets |-> IF t \in Part(after) THEN file[t] ELSE None]
    BY <1>1, NewJournal DEF IInv, Part
  <1>6. HomeNow = file
    BY <1>2 DEF HomeNow, IInv, TypeOK
  <1>7. HomeNow' = file
    BY <1>2, <1>5 DEF HomeNow, IInv, TypeOK
  <1>8. TheirsNow' = TheirsNow \ Part(after)
    BY <1>4 DEF TheirsNow
  <1>9. \A t \in Part(after) :
          Managed(t) => mark[t] # "theirs" \/ (state.targets[t] = Absent /\ file[t] = Absent)
    BY DEF Starts, Intact
  <1> QED BY <1>2, <1>3, <1>6, <1>7, <1>8, <1>9 DEF OrderNow

(* An application opens an order.                                          *)
LEMMA ApplyOpens ==
  ASSUME IInv, NEW after \in Old, Starts(None, after)
  PROVE  \E new \in [Targets -> Contents \cup {None}] : Home!OpenInstall(new)
  <1> DEFINE S == {t \in Targets : after[t] # None}
             changed(c) == {t \in Targets : ComponentOf[t] = c /\ after[t] # None}
             newLast == [c \in Components |-> IF changed(c) = {} THEN Entries(state.previous)[c]
                           ELSE [before |-> [t \in Targets |-> IF t \in changed(c) THEN HomeNow[t] ELSE None],
                                 managed |-> {t \in changed(c) : state.targets[t] # None /\ HomeNow[t] # Absent}]]
             before == [t \in Targets |-> IF t \in S THEN HomeNow[t] ELSE None]
  <1>1. Begin(None, after)
    BY DEF Starts
  <1>2. /\ Uncommitted' /\ journal'.component = None /\ journal'.state_before = state
        /\ journal'.after = after /\ journal'.before = before /\ journal'.found = Nothing /\ Items' = S
    BY <1>1, NewJournal, BeginShows DEF IInv, Part
  <1>3. NewState' = InstalledState'
    BY <1>2 DEF NewState
  <1>4. StayManaged' = S
    BY <1>2 DEF StayManaged
  <1>5. \A c \in Components : ItemsOf(c)' = changed(c)
    BY <1>2 DEF ItemsOf
  <1>6. Entries(NewState.previous)' = newLast
    <2>1. ASSUME NEW c \in Components PROVE Entries(NewState.previous)'[c] = newLast[c]
      <3>1. CASE changed(c) = {}
        <4>1. NewState'.previous[c] = state.previous[c]
          BY <1>2, <1>3, <1>5, <3>1 DEF InstalledState
        <4> QED BY <3>1, <4>1 DEF Entries
      <3>2. CASE changed(c) # {}
        <4> DEFINE entry == [slot |-> journal'.slot, before |-> Of(c, before),
                             managed |-> {t \in changed(c) : state.targets[t] # None /\ before[t] # Absent}]
        <4>1. NewState'.previous[c] = entry
          BY <1>2, <1>3, <1>5, <3>2 DEF InstalledState, Of
        <4>2. entry \in Backup
          <5>1. journal'.slot \in Slots /\ before \in Old
            BY <1>1, <1>2, NewJournal, JournalParts DEF IInv, Journal
          <5> QED BY <5>1 DEF Of, Old, Backup
        <4>3. entry # None
          BY <4>2, TermAssumption
        <4>4. Of(c, before) = [t \in Targets |-> IF t \in changed(c) THEN HomeNow[t] ELSE None]
          BY DEF Of
        <4>5. entry.managed = {t \in changed(c) : state.targets[t] # None /\ HomeNow[t] # Absent}
          OBVIOUS
        <4>6. Entries(NewState.previous)'[c] = [before |-> entry.before, managed |-> entry.managed]
          BY <4>1, <4>3 DEF Entries
        <4> QED BY <3>2, <4>4, <4>5, <4>6
      <3> QED BY <3>1, <3>2
    <2>2. Entries(NewState.previous)' = [c \in Components |-> Entries(NewState.previous)'[c]]
      BY DEF Entries
    <2> QED BY <2>1, <2>2
  <1>7. OrderNow' = [before |-> before, after |-> after, found |-> [t \in Targets |-> None], install |-> TRUE,
                     managed |-> S, last |-> newLast]
    BY <1>2, <1>4, <1>6 DEF OrderNow, OrderOf, Nothing
  <1>8. \A t \in S : state.targets[t] = None \/ t \notin TheirsNow \/ (state.targets[t] = Absent /\ HomeNow[t] = Absent)
    BY BeginShows, TermAssumption DEF Part, Managed, TheirsNow
  <1>9. after \in [Targets -> Contents \cup {None}]
    BY DEF Starts, Old, Content, Part
  <1>10. UNCHANGED <<HomeNow, Decided.targets, Entries(Decided.previous)>> /\ TheirsNow' = TheirsNow \ S
    BY BeginShows, TermAssumption DEF Entries, Part
  <1>11. OrderNow = None /\ Decided = state
    BY BeginShows
  <1>12. Home!OpenInstall(after)
    BY <1>7, <1>8, <1>10, <1>11
    DEF Home!OpenInstall, Home!Open, HomeNow, TheirsNow, OrderNow, OrderOf
  <1> QED BY <1>9, <1>12

(* A rollback opens an order too.                                          *)
LEMMA RollbackOpens ==
  ASSUME IInv, NEW c \in Components, NEW after \in Old, Starts(c, after)
  PROVE  Home!OpenRollback(c)
  <1> DEFINE S == {t \in Targets : after[t] # None}
             last == state.previous[c]
             lastMap == Entries(state.previous)
             newLast == [lastMap EXCEPT ![c] = None]
             before == [t \in Targets |-> IF t \in S THEN HomeNow[t] ELSE None]
  <1>1. Begin(c, after) /\ c # None /\ last # None /\ after = last.before
    BY TermAssumption DEF Starts
  <1>2. /\ Uncommitted' /\ journal'.component = c /\ journal'.state_before = state
        /\ journal'.after = after /\ journal'.before = before /\ journal'.found = Nothing /\ Items' = S
    BY <1>1, NewJournal, BeginShows DEF IInv, Part
  <1>3. lastMap[c] = [before |-> after, managed |-> last.managed] /\ lastMap[c] # None
    BY <1>1, EntryTypes DEF Entries, IInv, TypeOK
  <1>4. NewState' = RolledBackState'
    BY <1>1, <1>2 DEF NewState
  <1>5. StayManaged' = lastMap[c].managed
    BY <1>1, <1>2, <1>3 DEF StayManaged
  <1>6. NewState'.previous = [state.previous EXCEPT ![c] = None]
    BY <1>2, <1>4 DEF RolledBackState
  <1>7. Entries(NewState.previous)' = newLast
    <2>1. state.previous \in [Components -> Backup \cup {None}]
      BY DEF IInv, TypeOK, State
    <2> QED BY <1>6, <2>1 DEF Entries
  <1>8. OrderNow' = [before |-> before, after |-> after, found |-> [t \in Targets |-> None], install |-> FALSE,
                     managed |-> lastMap[c].managed, last |-> newLast]
    BY <1>1, <1>2, <1>5, <1>7 DEF OrderNow, OrderOf, Nothing
  <1>9. \A t \in S : state.targets[t] = None \/ t \notin TheirsNow \/ (state.targets[t] = Absent /\ HomeNow[t] = Absent)
    BY BeginShows DEF Part, Managed, TheirsNow
  <1>10. UNCHANGED <<HomeNow, Decided.targets, Entries(Decided.previous)>> /\ TheirsNow' = TheirsNow \ S
    BY BeginShows DEF Entries, Part
  <1>11. OrderNow = None /\ Decided = state
    BY BeginShows
  <1>12. lastMap[c].before = after
    BY <1>3
  <1> QED BY <1>3, <1>8, <1>9, <1>10, <1>11, <1>12
      DEF Home!OpenRollback, Home!Open, HomeNow, TheirsNow, OrderNow, OrderOf

(* Steps between that nobody sees.                                         *)
LEMMA QuietSteps ==
  ASSUME IInv, \/ PlainStep \/ StateStep \/ RemoveJournal \/ DropCommitted \/ UNCHANGED vars
               \/ \E t \in Targets : BackupTarget(t) \/ KeepTarget(t)
  PROVE  UNCHANGED Home!atomicVars
  <1>1. CASE UNCHANGED <<file, mark, state, journal>>
    <2>1. UNCHANGED <<HomeNow, TheirsNow, Decided, OrderNow>>
      BY <1>1, JournalKept DEF HomeNow, TheirsNow, Decided, OrderNow, OrderOf, Entries, StayManaged
    <2> QED BY <2>1, Hidden
  <1>2. CASE StateStep
    <2>1. Uncommitted /\ UNCHANGED <<file, mark, journal>>
      BY <1>2 DEF StateStep, CommitState, RestoreState, Goto, IInv, PhaseInv
    <2>2. UNCHANGED <<HomeNow, TheirsNow, Decided, OrderNow>>
      BY <2>1, JournalKept DEF HomeNow, TheirsNow, Decided, OrderNow, OrderOf, Entries, StayManaged
    <2> QED BY <2>2, Hidden
  <1>3. CASE RemoveJournal \/ DropCommitted
    <2>1. ~Uncommitted /\ ~Uncommitted' /\ UNCHANGED <<file, mark, state>>
      BY <1>3 DEF RemoveJournal, DropCommitted, Goto, IInv, PhaseInv, Uncommitted
    <2>2. UNCHANGED <<HomeNow, TheirsNow, Decided, OrderNow>>
      BY <2>1 DEF HomeNow, TheirsNow, Decided, OrderNow
    <2> QED BY <2>2, Hidden
  <1>4. ASSUME NEW t \in Targets, BackupTarget(t) \/ KeepTarget(t)
        PROVE  UNCHANGED <<file, mark, state, journal>>
    BY <1>4 DEF BackupTarget, KeepTarget
  <1> QED BY <1>1, <1>2, <1>3, <1>4, KindEffects

(* What replaces a file is seen as little as possible.                     *)
LEMMA ReplaceSteps ==
  ASSUME IInv, NEW t \in Targets, WriteTarget(t) \/ RestoreTarget(t)
  PROVE  Home!TakeBack(t) \/ UNCHANGED Home!atomicVars
  <1>1. Uncommitted /\ t \in Items /\ UNCHANGED <<state, journal>>
    BY DEF WriteTarget, Goto, RestoreTarget, IInv, PhaseInv, TypeOK, Uncommitted
  <1>2. CASE WriteTarget(t)
    BY <1>1, <1>2, ReplaceShown DEF WriteTarget, Untouched, IsBefore, NoFile
  <1>3. CASE RestoreTarget(t)
    BY <1>1, <1>3, ReplaceShown DEF RestoreTarget, IsWritten, NoFile
  <1> QED BY <1>2, <1>3

(* An inspection is the look of the order at a file.                       *)
LEMMA LookShown ==
  ASSUME IInv, NEW t \in Targets, LookStep(t)
  PROVE  Home!Look(t)
  <1>1. /\ Uncommitted /\ Uncommitted' /\ t \in Items /\ Items' = Items /\ UNCHANGED <<file, state, backups>>
        /\ t \notin todo /\ journal.found[t] = None /\ phase = "checking" /\ state = journal.state_before
        /\ journal'.slot = journal.slot /\ journal'.state_before = journal.state_before
        /\ journal'.before = journal.before /\ journal'.after = journal.after
        /\ journal'.component = journal.component
        /\ journal'.found = [journal.found EXCEPT ![t] = file[t]]
        /\ mark[t] \in {"written", "theirs"}
        /\ mark' = [mark EXCEPT ![t] = IF mark[t] = "theirs" THEN "taken" ELSE mark[t]]
        /\ file[t] # None
    BY LookSteps
  <1> DEFINE seen == IF t \in TheirsNow THEN HomeNow[t] ELSE journal.after[t]
  <1>2. journal \in Journal /\ journal.before[t] # None /\ journal.found \in Old /\ NewState \in State
    BY <1>1, JournalParts, NewStateType DEF IInv, TypeOK, Uncommitted
  <1>3. seen = file[t] /\ journal.after[t] # None
    BY <1>1, <1>2 DEF TheirsNow, HomeNow, IInv, MarkInv, MarkGood, JournalInv, Uncommitted
  <1>4. HomeNow' = [HomeNow EXCEPT ![t] = journal.before[t]] /\ TheirsNow' = TheirsNow \ {t}
    BY <1>1 DEF HomeNow, TheirsNow, IInv, TypeOK
  <1>5. Decided' = Decided
    BY <1>1 DEF Decided
  <1>8. NewState'.previous = NewState.previous
    BY <1>1 DEF NewState, InstalledState, RolledBackState, ItemsOf, Of
  <1>9. OrderNow = OrderOf(journal, StayManaged, NewState) /\ OrderNow' = OrderOf(journal', StayManaged', NewState')
    BY <1>1 DEF OrderNow
  <1>10. OrderNow' = [OrderNow EXCEPT !.found[t] = seen]
    <2>1. Entries(NewState'.previous) = Entries(NewState.previous)
      BY <1>8
    <2>2. StayManaged' = StayManaged
      BY <1>1 DEF StayManaged
    <2> HIDE DEF seen
    <2> QED BY <1>1, <1>3, <1>9, <2>1, <2>2 DEF OrderOf
  <1>11. OrderNow # None /\ OrderNow.before[t] # None /\ OrderNow.found[t] = None
         /\ OrderNow.before[t] = journal.before[t] /\ OrderNow.after[t] = journal.after[t]
    BY <1>1, <1>2, <1>9, OrderThere DEF OrderOf
  <1>12. UNCHANGED <<Decided.targets, Entries(Decided.previous)>>
    BY <1>5 DEF Entries
  <1> QED BY <1>4, <1>10, <1>11, <1>12 DEF Home!Look, HomeNow, TheirsNow, OrderNow, OrderOf

(* The transaction with its journal and backups implements the order that  *)
(* takes effect at once or not at all.                                     *)
THEOREM Refinement == Spec => ImplementsHome
  <1>1. Init => Home!AtomicInit
    BY DEF Init, Home!AtomicInit, Content, Uncommitted, Decided, Entries, Nothing
  <1>2. IInv /\ [Next]_vars => [Home!AtomicNext]_Home!atomicVars
    <2> SUFFICES ASSUME IInv, [Next]_vars PROVE [Home!AtomicNext]_Home!atomicVars
      OBVIOUS
    <2>1. ASSUME NEW component \in Components \cup {None}, NEW after \in Old, Starts(component, after)
          PROVE  Home!AtomicNext
      BY <2>1, ApplyOpens, RollbackOpens DEF Home!AtomicNext
    <2>2. CASE \E t \in Targets : WriteTarget(t) \/ RestoreTarget(t) \/ Edit(t)
      BY <2>2, ReplaceSteps, EditShown DEF Home!AtomicNext
    <2>3. CASE MarkCommitted \/ AbortBackup \/ EndRecover
      BY <2>3, CommitSwitches, Cancels DEF Home!AtomicNext
    <2>4. CASE \E t \in Targets : LookStep(t)
      BY <2>4, LookShown DEF Home!AtomicNext
    <2> QED BY <2>1, <2>2, <2>3, <2>4, QuietSteps, StepKinds DEF IInv, FileStep, JournalStep
  <1> QED BY InductiveInvariant, <1>1, <1>2, PTL DEF Spec, ImplementsHome, Home!AtomicSpec
=============================================================================
