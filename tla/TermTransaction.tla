---------------------------- MODULE TermTransaction ----------------------------
(***************************************************************************)
(* Terminal configuration in the user's HOME: apply, rollback and recover  *)
(* of termcfg/transaction.py.  All three hold the machine's operation      *)
(* lease exclusively, so there is one operation at a time; the user edits  *)
(* HOME at any time and holds nothing.  An operation may stop between any  *)
(* two steps, by an exception or a crash, and keeps its journal then; only *)
(* while it still makes backups does an exception remove the journal.      *)
(* A write renames a new file into place and then inspects what is there:  *)
(* what the user put there in between goes into the journal as written by  *)
(* the transaction.  Two such windows are left out: between the comparison *)
(* with the expected file and the rename, and between a restoration and    *)
(* the second look at it (a change there ends the recovery, and only that  *)
(* the file was removed again could get into the state).                   *)
(***************************************************************************)
CONSTANTS Targets, Components, \* files in HOME, and the components they make up
          ComponentOf,         \* [Targets -> Components]
          Contents, Absent,    \* what a file or link is (with its mode); no file
          Versions,            \* contents the repository may install
          Slots,               \* directories for backups, one per transaction
          None

VARIABLES file,    \* file[t]: what is in HOME
          mark,    \* mark[t]: the identity (inode, time) file t still has
          state,   \* state.json: managed targets, last backups
          journal, \* journal.json, or None
          backups, \* backups[s][t]: the backup of t in directory s, or None
          phase,   \* step of the operation that holds the lease, or "idle";
                   \* "checking" after the rename of one target
          todo     \* the targets its current loop still has before it

vars == <<file, mark, state, journal, backups, phase, todo>>

Content == Contents \cup {Absent}
(* The identity the state or the journal has as "before", the one written  *)
(* by the transaction (intended_after), the one found there after a write  *)
(* (after) when it is another, the one restored by a recovery              *)
(* (recovery_intended), or none of them.                                   *)
Marks == {"before", "written", "taken", "restored", "theirs"}
Old == [Targets -> Content \cup {None}]  \* None: not part of it
Backup == [slot : Slots, before : Old, managed : SUBSET Targets]
State == [targets : Old, previous : [Components -> Backup \cup {None}]]
Journal == [component : Components \cup {None}, committed : BOOLEAN, slot : Slots,
            state_before : State, before : Old, after : Old, found : Old]
Nothing == [t \in Targets |-> None]

ASSUME TermAssumption == /\ ComponentOf \in [Targets -> Components]
                         /\ Versions \subseteq [Targets -> Contents]
                         /\ Absent \notin Contents /\ None \notin Content
                         /\ None \notin Components /\ None \notin Backup /\ None \notin Journal

(* Nor is it an entry or an order of AtomicHome.                           *)
Entry == [before : Old, managed : SUBSET Targets]
Order == [before : Old, after : Old, found : Old, install : BOOLEAN,
          managed : SUBSET Targets, last : [Components -> Entry \cup {None}]]
ASSUME OrderAssumption == None \notin Entry /\ None \notin Order

Init == /\ file \in [Targets -> Content]
        /\ mark = [t \in Targets |-> "theirs"]
        /\ state = [targets |-> Nothing, previous |-> [c \in Components |-> None]]
        /\ journal = None
        /\ backups = [s \in Slots |-> Nothing]
        /\ phase = "idle" /\ todo = {}

Part(old) == {t \in Targets : old[t] # None}
Items == Part(journal.before)
Uncommitted == journal # None /\ ~journal.committed
Goto(from, to, work) == phase = from /\ phase' = to /\ todo' = work
(* An absent file has no identity but its absence.                         *)
NoFile(t, content) == file[t] = Absent /\ content = Absent
IsBefore(t) == mark[t] = "before" \/ NoFile(t, journal.before[t])
IsWritten(t) == mark[t] \in {"written", "taken"} \/ NoFile(t, journal.after[t]) \/ NoFile(t, journal.found[t])
(* What the journal has as after: what was found, once it was inspected.   *)
After(t) == IF journal.found[t] = None THEN journal.after[t] ELSE journal.found[t]
Managed(t) == state.targets[t] # None
Referenced == {state.previous[c].slot : c \in {d \in Components : state.previous[d] # None}}
(* An apply lists its targets at once, a rollback each with its backup.    *)
Listed == {t \in Items : journal.component = None \/ backups[journal.slot][t] # None}
(* A backup is its file; there is none of what was absent.                 *)
Readable(s, t, content) == content = Absent \/ backups[s][t] = content

-----------------------------------------------------------------------------
(* Begin a transaction on S: the journal, without backups yet.  What is in *)
(* HOME now is what the preview showed.                                    *)
Begin(component, after) ==
  /\ Goto("idle", "backing", {t \in Part(after) : file[t] # Absent}) /\ journal = None
  /\ \E s \in Slots \ Referenced :
       /\ journal' = [component |-> component, committed |-> FALSE, slot |-> s, state_before |-> state,
                      before |-> [t \in Targets |-> IF after[t] = None THEN None ELSE file[t]],
                      after |-> after, found |-> Nothing]
       /\ backups' = [backups EXCEPT ![s] = Nothing]
  /\ mark' = [t \in Targets |-> IF after[t] = None THEN mark[t] ELSE "before"]
  /\ UNCHANGED <<file, state>>

(* apply: a managed target must be as recorded; the user approved the      *)
(* adoption of the others.  What is installed already is left alone.       *)
Intact(t) == IF state.targets[t] = Absent THEN file[t] = Absent ELSE mark[t] = "before" /\ file[t] # Absent
Apply(version, chosen) ==
  LET selected == {t \in Targets : ComponentOf[t] \in chosen}
      changes == {t \in selected : ~Managed(t) \/ file[t] # version[t]}
  IN  /\ changes # {}
      /\ \A t \in selected : Managed(t) => Intact(t)
      /\ Begin(None, [t \in Targets |-> IF t \in changes THEN version[t] ELSE None])

(* rollback of one component to what its last change replaced.             *)
Rollback(c) ==
  LET last == state.previous[c]
  IN  /\ last # None
      /\ \A t \in Part(last.before) : /\ Managed(t) /\ Intact(t)
                                      /\ Readable(last.slot, t, last.before[t])
      /\ Begin(c, last.before)

BackupTarget(t) ==
  /\ phase = "backing" /\ t \in todo /\ mark[t] = "before"
  /\ backups' = [backups EXCEPT ![journal.slot][t] = file[t]]
  /\ todo' = todo \ {t}
  /\ UNCHANGED <<file, mark, state, journal, phase>>

(* Any failure until here removes the journal and the new backups.         *)
AbortBackup == /\ Goto("backing", "idle", {})
               /\ journal' = None
               /\ backups' = [backups EXCEPT ![journal.slot] = Nothing]
               /\ UNCHANGED <<file, mark, state>>

BackedUp == todo = {}
StartWriting == /\ BackedUp /\ Goto("backing", "writing", Items)
                /\ UNCHANGED <<file, mark, state, journal, backups>>

(* The journal has the identity of the new file before the rename, and the *)
(* rename compares that of the old one.                                    *)
UntouchedFaulty(t) == TRUE
Untouched(t) == IsBefore(t)
Source(t) == journal.component # None =>
               Readable(state.previous[journal.component].slot, t, journal.after[t])
WriteTarget(t) ==
  /\ t \in todo /\ Untouched(t) /\ Source(t)
  /\ Goto("writing", "checking", todo \ {t})
  /\ file' = [file EXCEPT ![t] = journal.after[t]]
  /\ mark' = [mark EXCEPT ![t] = "written"]
  /\ UNCHANGED <<state, journal, backups>>

(* What is in HOME after the rename is the after of the journal, whoever   *)
(* made it.  An apply stops when it is not what it wrote, and leaves that  *)
(* after in the journal; a rollback goes on.                               *)
Look(t) ==
  /\ t \in Items \ todo /\ journal.found[t] = None
  /\ journal' = [journal EXCEPT !.found[t] = file[t]]
  /\ mark' = [mark EXCEPT ![t] = IF mark[t] = "theirs" THEN "taken" ELSE mark[t]]
  /\ UNCHANGED <<file, state, backups>>
VerifiedFaulty(t) == TRUE
Verified(t) == journal.component = None => file[t] = journal.after[t]
InspectTarget(t) == Goto("checking", "writing", todo) /\ Verified(t) /\ Look(t)
RefuseTarget(t) == Goto("checking", "idle", {}) /\ ~Verified(t) /\ Look(t)

(* The state after the transaction.  A rollback leaves nothing to roll     *)
(* back to, and gives an adopted file back.                                *)
ItemsOf(c) == {t \in Items : ComponentOf[t] = c}
Of(c, old) == [t \in Targets |-> IF ComponentOf[t] = c THEN old[t] ELSE None]
InstalledState ==
  [targets |-> [t \in Targets |-> IF t \in Items THEN After(t) ELSE journal.state_before.targets[t]],
   previous |-> [c \in Components |->
     IF ItemsOf(c) = {} THEN journal.state_before.previous[c]
     ELSE [slot |-> journal.slot, before |-> Of(c, journal.before),
           managed |-> {t \in ItemsOf(c) : journal.state_before.targets[t] # None /\ journal.before[t] # Absent}]]]
RolledBackState ==
  LET last == journal.state_before.previous[journal.component]
  IN  [targets |-> [t \in Targets |-> IF t \notin Items THEN journal.state_before.targets[t]
                                      ELSE IF t \in last.managed THEN After(t) ELSE None],
       previous |-> [journal.state_before.previous EXCEPT ![journal.component] = None]]
NewState == IF journal.component = None THEN InstalledState ELSE RolledBackState

CommitState == /\ todo = {} /\ Goto("writing", "committing", {})
               /\ state' = NewState
               /\ UNCHANGED <<file, mark, journal, backups>>

(* From here on a recovery keeps the new files.                            *)
Settled(from) == [t \in Targets |-> IF t \in Items /\ mark[t] \in from THEN "before" ELSE mark[t]]
MarkCommitted == /\ Goto("committing", "committed", {})
                 /\ journal' = [journal EXCEPT !.committed = TRUE]
                 /\ mark' = Settled({"written", "taken"})
                 /\ UNCHANGED <<file, state, backups>>

RemoveJournal == /\ Goto("committed", "cleaning", {})
                 /\ journal' = None
                 /\ UNCHANGED <<file, mark, state, backups>>

(* The backups that nothing leads back to any more.                        *)
CleanFaulty == /\ phase \in {"committing", "cleaning"} /\ phase' = "idle" /\ todo' = {}
               /\ backups' = [s \in Slots |-> IF s \in Referenced THEN backups[s] ELSE Nothing]
               /\ UNCHANGED <<file, mark, state, journal>>
Clean == /\ Goto("cleaning", "idle", {})
         /\ backups' = [s \in Slots |-> IF s \in Referenced THEN backups[s] ELSE Nothing]
         /\ UNCHANGED <<file, mark, state, journal>>

(* An exception or a crash.                                                *)
Stop == /\ phase # "idle" /\ phase' = "idle" /\ todo' = {}
        /\ UNCHANGED <<file, mark, state, journal, backups>>

-----------------------------------------------------------------------------
(* recover: all targets are checked before any is restored.                *)
Known(t) == IsBefore(t) \/ IsWritten(t) \/ mark[t] = "restored"
Backed(t) == Readable(journal.slot, t, journal.before[t])
StartRecover ==
  /\ Uncommitted
  /\ Goto("idle", "restoring", Listed)
  /\ \A t \in Listed : Known(t)
  /\ \A t \in Listed : backups[journal.slot][t] # None => Backed(t)
  /\ UNCHANGED <<file, mark, state, journal, backups>>

Kept(t) == IsBefore(t) \/ mark[t] = "restored"
KeepTarget(t) == /\ phase = "restoring" /\ t \in todo /\ Kept(t)
                 /\ todo' = todo \ {t}
                 /\ UNCHANGED <<file, mark, state, journal, backups, phase>>
RestoreTarget(t) ==
  /\ phase = "restoring" /\ t \in todo /\ ~Kept(t) /\ IsWritten(t) /\ Backed(t)
  /\ file' = [file EXCEPT ![t] = journal.before[t]]
  /\ mark' = [mark EXCEPT ![t] = "restored"]
  /\ todo' = todo \ {t}
  /\ UNCHANGED <<state, journal, backups, phase>>

RestoreState == /\ todo = {} /\ Goto("restoring", "closing", {})
                /\ state' = journal.state_before
                /\ UNCHANGED <<file, mark, journal, backups>>
EndRecover == /\ Goto("closing", "idle", {})
              /\ journal' = None /\ mark' = Settled({"restored"})
              /\ UNCHANGED <<file, state, backups>>

DropCommitted == /\ journal # None /\ journal.committed /\ Goto("idle", "idle", {})
                 /\ journal' = None
                 /\ UNCHANGED <<file, mark, state, backups>>

-----------------------------------------------------------------------------
(* The user.                                                               *)
Edit(t) == \E v \in Content :
             /\ file' = [file EXCEPT ![t] = v]
             /\ mark' = [mark EXCEPT ![t] = "theirs"]
             /\ UNCHANGED <<state, journal, backups, phase, todo>>

OperationStep ==
  \/ \E v \in Versions : \E C \in SUBSET Components : Apply(v, C)
  \/ \E c \in Components : Rollback(c)
  \/ \E t \in Targets : \/ BackupTarget(t) \/ WriteTarget(t) \/ InspectTarget(t) \/ RefuseTarget(t)
                      \/ KeepTarget(t) \/ RestoreTarget(t)
  \/ AbortBackup \/ StartWriting \/ CommitState \/ MarkCommitted \/ RemoveJournal \/ Clean \/ Stop
  \/ StartRecover \/ RestoreState \/ EndRecover \/ DropCommitted

Next == OperationStep \/ \E t \in Targets : Edit(t)

Spec == Init /\ [][Next]_vars

-----------------------------------------------------------------------------
(* The types.                                                              *)
TypeOK == /\ file \in [Targets -> Content] /\ mark \in [Targets -> Marks]
          /\ state \in State /\ (journal = None \/ journal \in Journal)
          /\ backups \in [Slots -> [Targets -> Contents \cup {None}]]
          /\ phase \in {"idle", "backing", "writing", "checking", "committing", "committed", "cleaning", "restoring",
                       "closing"}
          /\ todo \subseteq (IF journal = None THEN {} ELSE Items)

(* Whatever is needed to go back can be read: the backups of the last      *)
(* change of every component, also while a transaction is under way that   *)
(* may still be taken back, and from the first write on the backups of     *)
(* that transaction.                                                       *)
BackupsKept ==
  /\ \A s \in {state} \cup (IF Uncommitted THEN {journal.state_before} ELSE {}) : \A c \in Components :
       s.previous[c] # None =>
         \A t \in Part(s.previous[c].before) : Readable(s.previous[c].slot, t, s.previous[c].before[t])
  /\ Uncommitted => \A t \in Listed : IsWritten(t) => Backed(t)

(* A file with an identity that neither the state nor the journal has is   *)
(* the user's: no step of an operation changes it, not even a recovery or  *)
(* a rollback.  (What the user puts in place of a file between its rename  *)
(* and its inspection is recorded: see RestoresOwn.)                       *)
KeepsEdits == [][todo' # todo \/ phase' # phase =>
                   \A t \in Targets : mark[t] = "theirs" /\ file[t] # Absent => file'[t] = file[t]]_vars

(* "Only targets that still match what this transaction wrote, or their    *)
(* identity before it, are restored" (transaction.py, recover): a file a   *)
(* recovery replaces has the bytes the transaction wrote.  It does not     *)
(* hold: an apply that refuses what it found after a rename has recorded   *)
(* it before, and the recovery takes it for its own.                       *)
RestoresOwn == [][phase = "restoring" /\ todo' # todo =>
                    \A t \in Targets : file'[t] # file[t] => file[t] = journal.after[t]]_vars

(* The transaction with its journal, backups, crashes and recoveries       *)
(* implements orders that take effect at once or not at all, and a         *)
(* rollback brings back exactly what the last change of its component      *)
(* found: the earlier version, or the user's own file.  The one exception  *)
(* is what the user does to a file between its rename and its inspection,  *)
(* which the order takes for its own.                                      *)
Entries(previous) ==
  [c \in Components |-> IF previous[c] = None THEN None
     ELSE [before |-> previous[c].before, managed |-> previous[c].managed]]
StayManaged == IF journal.component = None THEN Items
               ELSE journal.state_before.previous[journal.component].managed
Decided == IF Uncommitted THEN journal.state_before ELSE state
Home == INSTANCE AtomicHome WITH
  home <- [t \in Targets |-> IF Uncommitted /\ t \in Items /\ mark[t] # "theirs"
                             THEN journal.before[t] ELSE file[t]],
  theirs <- {t \in Targets : mark[t] = "theirs"},
  record <- Decided.targets,
  last <- Entries(Decided.previous),
  order <- IF ~Uncommitted THEN None
           ELSE [before |-> journal.before, after |-> journal.after, found |-> journal.found,
                 install |-> journal.component = None,
                 managed |-> StayManaged, last |-> Entries(NewState.previous)]
ImplementsHome == Home!AtomicSpec
=============================================================================
