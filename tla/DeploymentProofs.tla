--------------------------- MODULE DeploymentProofs ---------------------------
(***************************************************************************)
(* Proofs about Deployment for any fields, files, candidates and runs.     *)
(* The inductive invariant IInv says where the journal and the backup      *)
(* start and end in terms of what is recorded, what a transaction or a     *)
(* recovery has already done, and who may use what is deployed.            *)
(***************************************************************************)
EXTENDS Deployment, TLAPS

(* A journal that is not committed ends where its record says.  It starts  *)
(* at what is recorded, or at the other end of the backup.  What it does   *)
(* not change stays recorded, or is the user's.                            *)
JournalInv ==
  Uncommitted =>
    \A f \in Fields :
      LET change == pending.changes[f]
          here == Recorded(state.current, f)
          there == Recorded(pending.after.current, f)
      IN  IF change = None THEN f \in authored \/ there = here
          ELSE /\ change.after = there
               /\ \/ change.before = here
                  \/ /\ state.previous # None /\ state.previous.changes[f] # None
                     /\ change.before = state.previous.changes[f].after

(* The backup of a record leads back from it, except for the user's fields.*)
Linked(st) ==
  st.previous # None =>
    \A f \in Fields :
      LET change == st.previous.changes[f]
          old == Recorded(st.previous.current, f)
          new == Recorded(st.current, f)
      IN  IF change = None THEN f \in authored \/ new = old
          ELSE change.before = old /\ (f \in authored \/ change.after = new)

(* This holds of what is deployed and of what the journal deploys, and a   *)
(* journal that changes a field keeps these changes as its backup.         *)
BackupInv ==
  /\ Linked(state)
  /\ pending # None => Linked(pending.after)
  /\ pending # None /\ pending.after.previous # None /\ Changed(pending.changes) # {}
       => pending.after.previous.changes = pending.changes

(* A journal is there during a transaction and not while one is planned.   *)
(* It is committed before the commit only if it has nothing to write, and  *)
(* a committed journal restores nothing.                                   *)
PhaseInv ==
  /\ phase \in {"preparing", "writing", "recovering"} => pending # None
  /\ phase = "planning" => pending = None
  /\ phase \in {"preparing", "writing"} /\ Committed => Changed(pending.changes) = {}
  /\ phase = "recovering" /\ Committed => todo = {}

(* The files no longer to do are written or restored, up to later edits.   *)
DoneInv ==
  /\ phase = "writing" => \A f \in Changed(pending.changes) \ authored :
       FileOf[f] \in todo \/ native[f] = pending.changes[f].after
  /\ phase = "recovering" => \A f \in Fields \ authored :
       FileOf[f] \in todo \/ Restored(f) = native[f]

(* Without a journal the resources of the deployed launch contract are     *)
(* prepared, and only then somebody runs.                                  *)
RunInv ==
  /\ pending = None /\ state.current # None => prepared = LaunchOf(state)
  /\ using # {} => phase = "idle" /\ pending = None /\ state.current # None

IInv == /\ TypeOK /\ RecoversToRecord /\ JournalInv /\ BackupInv
        /\ PhaseInv /\ DoneInv /\ RunInv

-----------------------------------------------------------------------------
(* Types.                                                                  *)

(* What is recorded for a field is a value.                                *)
LEMMA RecordedType ==
  ASSUME NEW current \in Manifest \cup {None}, NEW f \in Fields
  PROVE  /\ Recorded(current, f) \in Value
         /\ Items(current)[f] \in Value \cup {None}
         /\ Items(current)[f] # None => Recorded(current, f) = Items(current)[f]
         /\ Items(current)[f] = None => Recorded(current, f) = Absent
  BY DEF Recorded, Managed, Items, Manifest, Value

(* The parts of a state have their types.                                  *)
LEMMA StateParts ==
  ASSUME TypeOK
  PROVE  /\ state.current \in Manifest \cup {None}
         /\ state.previous \in Backup \cup {None}
         /\ state.previous # None => /\ state.previous.current \in Manifest \cup {None}
                                     /\ state.previous.changes \in Changes
         /\ state.owner \in [shared : SUBSET Files] \cup {None}
  BY DEF TypeOK, State, Backup

(* So have the parts of a journal.                                         *)
LEMMA JournalParts ==
  ASSUME TypeOK, pending # None
  PROVE  /\ pending.after \in State
         /\ pending.after.current \in Manifest \cup {None}
         /\ pending.after.previous \in Backup \cup {None}
         /\ pending.changes \in Changes
  BY DEF TypeOK, Journal, State

(* A change that is there has two values.                                  *)
LEMMA ChangeParts ==
  ASSUME NEW changes \in Changes, NEW f \in Fields
  PROVE  /\ f \in Changed(changes) <=> changes[f] # None
         /\ changes[f] # None => changes[f].before \in Value /\ changes[f].after \in Value
  BY DEF Changes, Changed

(* The plan of a candidate has a manifest, changes and a backup.           *)
LEMMA PlanTypes ==
  ASSUME TypeOK, NEW c \in Candidates
  PROVE  /\ PlannedManifest(c) \in Manifest
         /\ PlannedChanges(c) \in Changes
         /\ PlannedBackup(c) \in Backup \cup {None}
         /\ PlannedOwner(c) \in [shared : SUBSET Files]
  <1>1. ASSUME NEW f \in Fields PROVE PlannedItem(c, f) \in Value \cup {None}
    <2>1. Want[c][f] \in Value /\ native[f] \in Value
      BY <1>1, DeploymentAssumption DEF TypeOK
    <2>2. Baseline(f) \in Value /\ Items(state.current)[f] \in Value \cup {None}
      BY <1>1, StateParts, RecordedType DEF Baseline
    <2> QED BY <2>1, <2>2 DEF PlannedItem, Value
  <1>2. PlannedManifest(c) \in Manifest
    BY <1>1 DEF PlannedManifest, Manifest
  <1>3. PlannedChanges(c) \in Changes
    <2>1. ASSUME NEW f \in Fields
          PROVE  [before |-> native[f], after |-> Want[c][f]] \in [before : Value, after : Value]
      BY <2>1, DeploymentAssumption DEF TypeOK
    <2> QED BY <2>1 DEF PlannedChanges, Changes
  <1>4. PlannedBackup(c) \in Backup \cup {None}
    BY <1>3, StateParts DEF PlannedBackup, Backup
  <1>5. PlannedOwner(c) \in [shared : SUBSET Files]
    <2>1. SharedFiles(c) \in SUBSET Files
      BY DeploymentAssumption DEF SharedFiles, FilesOf
    <2> QED BY <2>1, StateParts, DeploymentAssumption DEF PlannedOwner
  <1> QED BY <1>2, <1>3, <1>4, <1>5

(* The journal of a rollback exchanges the two ends of the backup.         *)
Undo == [f \in Fields |-> Reverse(state.previous.changes[f])]
LEMMA UndoParts ==
  ASSUME TypeOK, state.previous # None
  PROVE  /\ Undo \in Changes
         /\ \A f \in Fields : state.previous.changes[f] = None <=> Undo[f] = None
         /\ \A f \in Fields : state.previous.changes[f] # None =>
              /\ Undo[f].before = state.previous.changes[f].after
              /\ Undo[f].after = state.previous.changes[f].before
  <1>1. state.previous.changes \in Changes
    BY StateParts
  <1>2. ASSUME NEW f \in Fields
        PROVE  /\ Undo[f] \in [before : Value, after : Value] \cup {None}
               /\ state.previous.changes[f] = None <=> Undo[f] = None
               /\ state.previous.changes[f] # None =>
                    /\ Undo[f].before = state.previous.changes[f].after
                    /\ Undo[f].after = state.previous.changes[f].before
    BY <1>1, <1>2, ChangeParts, DeploymentAssumption DEF Undo, Reverse
  <1>3. Undo = [f \in Fields |-> Undo[f]]
    BY DEF Undo
  <1> QED BY <1>2, <1>3 DEF Changes

(* The journal of an applied candidate.                                    *)
PlannedState(c) ==
  [current |-> PlannedManifest(c), previous |-> PlannedBackup(c), owner |-> PlannedOwner(c)]
LEMMA ApplyTypes ==
  ASSUME TypeOK, NEW c \in Candidates, Apply(c)
  PROVE  /\ pending' = [after |-> PlannedState(c), changes |-> PlannedChanges(c)]
         /\ pending' \in Journal /\ pending' # None
         /\ TypeOK'
  <1>1. pending' = [after |-> PlannedState(c), changes |-> PlannedChanges(c)]
    BY DEF Apply, PlannedState
  <1>2. PlannedState(c) \in State
    BY PlanTypes DEF PlannedState, State
  <1>3. pending' \in Journal /\ pending' # None
    BY <1>1, <1>2, PlanTypes, DeploymentAssumption DEF Journal
  <1> QED BY <1>1, <1>3 DEF TypeOK, Apply

(* The journal of a rollback.                                              *)
LEMMA RollbackTypes ==
  ASSUME TypeOK, Rollback
  PROVE  /\ state.current # None /\ state.previous # None
         /\ pending'.changes = Undo
         /\ pending'.after.current = state.previous.current
         /\ pending'.after.previous = None
         /\ \A f \in Changed(Undo) : native[f] \in {Undo[f].before, Undo[f].after}
         /\ pending' \in Journal /\ pending' # None
         /\ TypeOK'
  <1>1. state.current # None /\ state.previous # None
    BY DEF Rollback
  <1>2. pending' = [after |-> [state EXCEPT !.current = state.previous.current,
                                            !.previous = None],
                    changes |-> Undo]
    BY DEF Rollback, Undo
  <1>3. \A f \in Changed(Undo) : native[f] \in {Undo[f].before, Undo[f].after}
    BY DEF Rollback, Undo
  <1>4. state = [current |-> state.current, previous |-> state.previous, owner |-> state.owner]
    BY DEF TypeOK, State
  <1>5. /\ [state EXCEPT !.current = state.previous.current, !.previous = None] \in State
        /\ pending'.after.current = state.previous.current
        /\ pending'.after.previous = None
    BY <1>1, <1>2, <1>4, StateParts DEF State
  <1>6. pending' \in Journal /\ pending' # None
    BY <1>1, <1>2, <1>5, UndoParts, DeploymentAssumption DEF Journal
  <1> QED BY <1>1, <1>2, <1>3, <1>5, <1>6 DEF TypeOK, Rollback

(* A merge of the planned ends gives every field a value.                  *)
LEMMA MergeTypes ==
  ASSUME TypeOK, pending # None, NEW p \in Files,
         Merge(p, Before, After) \/ Merge(p, After, Before)
  PROVE  native' \in [Fields -> Value]
  <1>1. \A f \in Changed(pending.changes) : Before[f] \in Value /\ After[f] \in Value
    BY JournalParts, ChangeParts DEF Before, After, Changed
  <1> QED BY <1>1 DEF Merge, TypeOK

(* What remains to do are files, what is prepared is a launch contract.    *)
LEMMA RestoreTypes ==
  ASSUME TypeOK, pending # None
  PROVE  /\ ToRestore \in SUBSET Files
         /\ FilesOf(Changed(pending.changes)) \in SUBSET Files
  BY DeploymentAssumption DEF ToRestore, FilesOf, Changed

(* A launch contract of a state that has a manifest.                       *)
LEMMA LaunchTypes ==
  ASSUME NEW st \in State, st.current # None
  PROVE  LaunchOf(st) \in {Launch[c] : c \in Candidates}
  BY DEF State, Manifest, LaunchOf

(* Every step keeps the types.                                             *)
LEMMA TypeStep == ASSUME IInv, [Next]_vars PROVE TypeOK'
  <1> USE DEF IInv
  <1>1. CASE UNCHANGED vars
    BY <1>1 DEF vars, TypeOK
  <1>2. ASSUME NEW t \in Candidates \cup {"rollback"}, Begin(t) PROVE TypeOK'
    BY <1>2, RestoreTypes DEF Begin, TypeOK
  <1>3. ASSUME NEW c \in Candidates, Apply(c) PROVE TypeOK'
    BY <1>3, ApplyTypes
  <1>4. ASSUME Rollback PROVE TypeOK'
    BY <1>4, RollbackTypes
  <1>5. ASSUME Prepare PROVE TypeOK'
    <2>1. pending # None
      BY <1>5 DEF Prepare, PhaseInv
    <2>2. prepared' \in {Launch[c] : c \in Candidates} \cup {None}
      BY <1>5, <2>1, JournalParts, LaunchTypes DEF Prepare, TypeOK
    <2> QED BY <1>5, <2>1, <2>2, RestoreTypes DEF Prepare, TypeOK
  <1>6. ASSUME NEW p \in Files, WriteFile(p) PROVE TypeOK'
    <2>1. pending # None
      BY <1>6 DEF WriteFile, PhaseInv
    <2>2. native' \in [Fields -> Value]
      BY <1>6, <2>1, MergeTypes DEF WriteFile
    <2> QED BY <1>6, <2>2 DEF WriteFile, TypeOK
  <1>7. ASSUME NEW p \in Files, RestoreFile(p) PROVE TypeOK'
    <2>1. pending # None
      BY <1>7 DEF RestoreFile, PhaseInv
    <2>2. native' \in [Fields -> Value]
      BY <1>7, <2>1, MergeTypes DEF RestoreFile
    <2> QED BY <1>7, <2>2 DEF RestoreFile, TypeOK
  <1>8. ASSUME Commit PROVE TypeOK'
    <2>1. pending # None
      BY <1>8 DEF Commit, PhaseInv
    <2> QED BY <1>8, <2>1, JournalParts DEF Commit, TypeOK
  <1>9. ASSUME Abort PROVE TypeOK'
    <2>1. pending # None
      BY <1>9 DEF Abort, PhaseInv
    <2> QED BY <1>9, <2>1, RestoreTypes DEF Abort, PrepareFails, TypeOK
  <1>10. ASSUME ForgetJournal PROVE TypeOK'
    <2>1. state \in State
      BY DEF TypeOK
    <2>2. prepared' \in {Launch[c] : c \in Candidates} \cup {None}
      BY <1>10, <2>1, LaunchTypes DEF ForgetJournal, TypeOK
    <2> QED BY <1>10, <2>2 DEF ForgetJournal, TypeOK
  <1>11. ASSUME GiveUp PROVE TypeOK'
    BY <1>11 DEF GiveUp, PrepareFails, TypeOK
  <1>12. ASSUME NEW f \in Fields, NEW v \in Value, Edit(f, v) PROVE TypeOK'
    BY <1>12 DEF Edit, opVars, TypeOK
  <1>13. ASSUME NEW r \in Runs, StartRun(r) \/ EndRun(r) PROVE TypeOK'
    BY <1>13 DEF StartRun, EndRun, opVars, TypeOK
  <1> QED BY <1>1, <1>2, <1>3, <1>4, <1>5, <1>6, <1>7, <1>8, <1>9, <1>10, <1>11, <1>12, <1>13
          DEF Next, Operation

-----------------------------------------------------------------------------
(* What a plan and a rollback journal.                                     *)

(* Without a journal a field that is not the user's has its recorded value.*)
LEMMA Settled ==
  ASSUME RecoversToRecord, pending = None, NEW f \in Fields \ authored
  PROVE  native[f] = Recorded(state.current, f)
  BY DEF RecoversToRecord, Restored, Uncommitted

(* A plan without conflicts updates a field from its recorded value to its *)
(* planned value, which is another one.  A field with its recorded value   *)
(* that the plan does not update stays recorded as it is.                  *)
LEMMA PlanEffect ==
  ASSUME TypeOK, NEW c \in Candidates, ConflictFree(c), NEW f \in Fields
  PROVE  LET change == PlannedChanges(c)[f]
             here == Recorded(state.current, f)
             there == Recorded(PlannedManifest(c), f)
         IN  /\ f \in Updates(c) =>
                  /\ change # None /\ change.before = here /\ change.after = there
                  /\ native[f] = here /\ there # here
             /\ f \notin Updates(c) => change = None /\ (native[f] = here => there = here)
  <1> DEFINE here == Recorded(state.current, f)
             there == Recorded(PlannedManifest(c), f)
             item == PlannedItem(c, f)
  <1>1. PlannedManifest(c) \in Manifest /\ PlannedManifest(c) # None
    BY PlanTypes, DeploymentAssumption
  <1>2. Items(PlannedManifest(c))[f] = item
    BY <1>1, DeploymentAssumption DEF Items, PlannedManifest
  <1>3. (item # None => there = item) /\ (item = None => there = Absent)
    BY <1>1, <1>2, RecordedType
  <1>4. /\ Want[c][f] \in Value /\ native[f] \in Value /\ None \notin Value
        /\ here \in Value /\ Baseline(f) = here
        /\ f \notin Managed(state.current) => here = Absent
        /\ Items(state.current)[f] # None => here = Items(state.current)[f]
        /\ f \in Managed(state.current) => Items(state.current)[f] # None
    BY StateParts, RecordedType, DeploymentAssumption DEF Baseline, TypeOK, Recorded, Managed
  <1>5. CASE f \in Updates(c)
    <2>1. f \in Planned(c) /\ ~Preference(f) /\ ~Initialized(f) /\ ~Drifted(c, f)
          /\ native[f] = here /\ native[f] # Want[c][f]
      BY <1>4, <1>5 DEF Updates, Compared, Drifted
    <2>2. item = Want[c][f]
      BY <1>4, <2>1 DEF PlannedItem, Value
    <2>3. PlannedChanges(c)[f] = [before |-> native[f], after |-> Want[c][f]]
      BY <1>5 DEF PlannedChanges
    <2>4. PlannedChanges(c)[f] # None
      BY <2>3, <1>4, DeploymentAssumption
    <2> QED BY <1>3, <1>4, <1>5, <2>1, <2>2, <2>3, <2>4
  <1>6. CASE f \notin Updates(c)
    <2>1. PlannedChanges(c)[f] = None
      BY <1>6 DEF PlannedChanges
    <2>2. ASSUME native[f] = here PROVE there = here
      <3>1. CASE f \notin Planned(c)
        BY <1>3, <1>4, <3>1 DEF PlannedItem, Planned
      <3>2. CASE f \in Planned(c) /\ Preference(f)
        BY <1>4, <2>2, <3>2 DEF Preference, Taken
      <3>3. CASE f \in Planned(c) /\ ~Preference(f) /\ Initialized(f)
        BY <1>3, <1>4, <3>3 DEF PlannedItem, Initialized
      <3>4. CASE f \in Planned(c) /\ ~Preference(f) /\ ~Initialized(f)
        <4>1. f \in Compared(c)
          BY <3>4 DEF ConflictFree, Compared
        <4>2. native[f] = Want[c][f] /\ ~Drifted(c, f)
          BY <1>4, <1>6, <2>2, <4>1 DEF Updates, Drifted
        <4> QED BY <1>3, <1>4, <2>2, <3>4, <4>2 DEF PlannedItem
      <3> QED BY <3>1, <3>2, <3>3, <3>4
    <2> QED BY <1>6, <2>1, <2>2
  <1> QED BY <1>5, <1>6

(* A plan that updates a field does not lead to the state it starts from,  *)
(* and its backup has its changes.                                         *)
LEMMA PlanRotates ==
  ASSUME TypeOK, NEW c \in Candidates, ConflictFree(c), Changed(PlannedChanges(c)) # {}
  PROVE  /\ PlannedState(c) # state
         /\ PlannedBackup(c) = [current |-> state.current, changes |-> PlannedChanges(c)]
  <1>1. PICK f \in Fields : PlannedChanges(c)[f] # None
    BY DEF Changed
  <1>2. f \in Updates(c)
    BY <1>1, PlanEffect
  <1>3. Recorded(PlannedManifest(c), f) # Recorded(state.current, f)
    BY <1>2, PlanEffect
  <1> QED BY <1>2, <1>3 DEF PlannedState, PlannedBackup, Rotates

(* The backup of a plan leads back from what it plans.                     *)
LEMMA PlanLinked ==
  ASSUME TypeOK, RecoversToRecord, Linked(state), pending = None,
         NEW c \in Candidates, ConflictFree(c)
  PROVE  Linked(PlannedState(c))
  <1> DEFINE here(f) == Recorded(state.current, f)
             there(f) == Recorded(PlannedManifest(c), f)
  <1>1. /\ PlannedState(c).current = PlannedManifest(c)
        /\ PlannedState(c).previous = PlannedBackup(c)
    BY DEF PlannedState
  <1>2. ASSUME NEW f \in Fields, PlannedChanges(c)[f] = None
        PROVE  f \in authored \/ there(f) = here(f)
    BY <1>2, PlanEffect, Settled
  <1>3. ASSUME NEW f \in Fields, PlannedChanges(c)[f] # None
        PROVE  PlannedChanges(c)[f].before = here(f) /\ PlannedChanges(c)[f].after = there(f)
    BY <1>3, PlanEffect
  <1>4. CASE Rotates(c)
    <2>1. /\ PlannedBackup(c).current = state.current
          /\ PlannedBackup(c).changes = PlannedChanges(c)
      BY <1>4 DEF PlannedBackup
    <2> QED BY <1>1, <1>2, <1>3, <2>1 DEF Linked
  <1>5. CASE ~Rotates(c)
    <2>1. PlannedBackup(c) = state.previous
      BY <1>5 DEF PlannedBackup
    <2>2. ASSUME NEW f \in Fields PROVE PlannedChanges(c)[f] = None
      BY <1>5, <2>2, PlanEffect DEF Rotates
    <2>3. ASSUME NEW f \in Fields PROVE f \in authored \/ there(f) = here(f)
      BY <1>2, <2>2, <2>3
    <2> QED BY <1>1, <2>1, <2>3 DEF Linked
  <1> QED BY <1>4, <1>5

-----------------------------------------------------------------------------
(* The steps, one conjunct of the invariant at a time.                     *)

(* The journal and the record change only in four steps.  Any other step   *)
(* can only make more fields the user's.                                   *)
Lasting == UNCHANGED <<state, pending>> /\ authored \subseteq authored'
LEMMA Few ==
  ASSUME [Next]_vars
  PROVE  \/ \E c \in Candidates : Apply(c)
         \/ Rollback \/ Commit \/ ForgetJournal
         \/ Lasting
  BY DEF Next, Operation, vars, Lasting, Begin, Prepare, WriteFile, RestoreFile, Abort, GiveUp, Edit,
         StartRun, EndRun

(* A commit leaves a committed journal.  The fields it takes from the user *)
(* are fields that the journal changed.                                    *)
LEMMA CommitEffect ==
  ASSUME IInv, Commit
  PROVE  /\ pending # None /\ pending' = pending /\ state' = pending.after
         /\ native' = native /\ todo' = {} /\ phase' = "recovering"
         /\ ~Uncommitted'
         /\ authored' = authored \ WrittenByDeployment
         /\ ~Uncommitted => state' = state /\ authored' = authored
         /\ \A f \in Fields \ authored' : f \in authored =>
              Uncommitted /\ pending.changes[f] # None /\ native[f] = pending.changes[f].after
  BY DEF IInv, PhaseInv, Commit, Uncommitted, Committed, WrittenByDeployment, Changed

(* The ends of a journal last until it is committed.                        *)
LEMMA JournalStep == ASSUME IInv, [Next]_vars PROVE JournalInv'
  <1> USE DEF IInv
  <1>1. ASSUME NEW c \in Candidates, Apply(c) PROVE JournalInv'
    <2>1. /\ pending = None /\ ConflictFree(c)
          /\ UNCHANGED <<state, authored>>
      BY <1>1 DEF Apply, PhaseInv
    <2>2. /\ pending'.changes = PlannedChanges(c)
          /\ pending'.after.current = PlannedManifest(c)
      BY <1>1, ApplyTypes DEF PlannedState
    <2>3. ASSUME NEW f \in Fields
          PROVE  LET change == PlannedChanges(c)[f]
                     here == Recorded(state.current, f)
                     there == Recorded(PlannedManifest(c), f)
                 IN  IF change = None THEN f \in authored \/ there = here
                                      ELSE change.after = there /\ change.before = here
      BY <2>1, <2>3, PlanEffect, Settled
    <2> QED BY <2>1, <2>2, <2>3 DEF JournalInv
  <1>2. ASSUME Rollback PROVE JournalInv'
    <2>1. /\ pending'.changes = Undo /\ pending'.after.current = state.previous.current
          /\ state.previous # None
          /\ UNCHANGED <<state, authored>>
      BY <1>2, RollbackTypes DEF Rollback
    <2>2. ASSUME NEW f \in Fields
          PROVE  LET here == Recorded(state.current, f)
                     there == Recorded(state.previous.current, f)
                 IN  IF Undo[f] = None THEN f \in authored \/ there = here
                     ELSE /\ Undo[f].after = there
                          /\ state.previous.changes[f] # None
                          /\ Undo[f].before = state.previous.changes[f].after
      BY <2>1, <2>2, UndoParts DEF BackupInv, Linked
    <2> QED BY <2>1, <2>2 DEF JournalInv
  <1>3. ASSUME Commit PROVE JournalInv'
    BY <1>3, CommitEffect DEF JournalInv
  <1>4. ASSUME ForgetJournal PROVE JournalInv'
    BY <1>4 DEF ForgetJournal, JournalInv, Uncommitted
  <1>5. CASE Lasting
    BY <1>5 DEF Lasting, JournalInv, Uncommitted, Committed
  <1> QED BY <1>1, <1>2, <1>3, <1>4, <1>5, Few

(* The links from records to their backups last.                           *)
LEMMA BackupStep == ASSUME IInv, [Next]_vars PROVE BackupInv'
  <1> USE DEF IInv
  <1>1. ASSUME NEW c \in Candidates, Apply(c) PROVE BackupInv'
    <2>1. /\ pending = None /\ ConflictFree(c)
          /\ UNCHANGED <<state, authored>>
      BY <1>1 DEF Apply, PhaseInv
    <2>2. /\ pending'.changes = PlannedChanges(c)
          /\ pending'.after = PlannedState(c)
      BY <1>1, ApplyTypes
    <2>3. Linked(state)' /\ Linked(pending.after)'
      BY <2>1, <2>2, PlanLinked DEF BackupInv, Linked
    <2>4. Changed(PlannedChanges(c)) # {} => PlannedState(c).previous.changes = PlannedChanges(c)
      BY <2>1, PlanRotates DEF PlannedState
    <2> QED BY <2>2, <2>3, <2>4 DEF BackupInv, Changed
  <1>2. ASSUME Rollback PROVE BackupInv'
    <2>1. pending'.after.previous = None /\ UNCHANGED <<state, authored>>
      BY <1>2, RollbackTypes DEF Rollback
    <2> QED BY <2>1 DEF BackupInv, Linked
  <1>3. ASSUME Commit PROVE BackupInv'
    <2>1. /\ pending # None /\ pending' = pending /\ state' = pending.after
          /\ authored' = authored \ WrittenByDeployment
      BY <1>3, CommitEffect
    <2>2. ASSUME pending.after.previous # None, NEW f \in Fields, f \in authored, f \notin authored'
          PROVE  /\ pending.after.previous.changes[f] # None
                 /\ pending.after.previous.changes[f].after = Recorded(pending.after.current, f)
      <3>1. Uncommitted /\ pending.changes[f] # None
        BY <1>3, <2>2, CommitEffect
      <3>2. Changed(pending.changes) # {}
        BY <3>1 DEF Changed
      <3>3. pending.after.previous.changes = pending.changes
        BY <2>1, <2>2, <3>2 DEF BackupInv
      <3> QED BY <3>1, <3>3 DEF JournalInv
    <2>3. Linked(pending.after)'
      BY <2>1, <2>2 DEF BackupInv, Linked
    <2> QED BY <2>1, <2>3 DEF BackupInv, Linked, Changed
  <1>4. ASSUME ForgetJournal PROVE BackupInv'
    BY <1>4 DEF ForgetJournal, BackupInv, Linked
  <1>5. CASE Lasting
    BY <1>5 DEF Lasting, BackupInv, Linked, Changed
  <1> QED BY <1>1, <1>2, <1>3, <1>4, <1>5, Few

(* A transaction or recovery never lacks its journal, and writes nothing   *)
(* that is already deployed.                                               *)
LEMMA PhaseStep == ASSUME IInv, [Next]_vars PROVE PhaseInv'
  <1> USE DEF IInv
  <1>1. ASSUME NEW c \in Candidates, Apply(c) PROVE PhaseInv'
    <2>1. ConflictFree(c) /\ state' = state /\ phase' = "preparing"
      BY <1>1 DEF Apply
    <2>2. pending' # None /\ pending'.after = PlannedState(c) /\ pending'.changes = PlannedChanges(c)
      BY <1>1, ApplyTypes
    <2>3. Changed(PlannedChanges(c)) # {} => PlannedState(c) # state
      BY <2>1, PlanRotates
    <2> QED BY <2>1, <2>2, <2>3 DEF PhaseInv, Committed, Changed
  <1>2. ASSUME Rollback PROVE PhaseInv'
    <2>1. /\ state' = state /\ phase' = "preparing" /\ pending' # None
          /\ state.previous # None /\ pending'.after.previous = None
      BY <1>2, RollbackTypes DEF Rollback
    <2> QED BY <2>1 DEF PhaseInv, Committed
  <1>3. ASSUME Commit PROVE PhaseInv'
    BY <1>3, CommitEffect DEF PhaseInv
  <1>4. ASSUME ForgetJournal PROVE PhaseInv'
    BY <1>4 DEF ForgetJournal, PhaseInv
  <1>5. CASE Lasting /\ UNCHANGED <<phase, todo>>
    BY <1>5 DEF Lasting, PhaseInv, Committed, Changed
  <1>6. ASSUME NEW t \in Candidates \cup {"rollback"}, Begin(t) PROVE PhaseInv'
    BY <1>6 DEF Begin, PhaseInv, Committed, ToRestore
  <1>7. ASSUME Prepare PROVE PhaseInv'
    BY <1>7 DEF Prepare, PhaseInv, Committed, Changed
  <1>8. ASSUME NEW p \in Files, WriteFile(p) \/ RestoreFile(p) PROVE PhaseInv'
    BY <1>8 DEF WriteFile, RestoreFile, PhaseInv, Committed, Changed
  <1>9. ASSUME Abort \/ GiveUp PROVE PhaseInv'
    BY <1>9 DEF Abort, GiveUp, PhaseInv, Committed, ToRestore
  <1>10. ASSUME NEW f \in Fields, NEW v \in Value, Edit(f, v) PROVE PhaseInv'
    BY <1>5, <1>10 DEF Edit, opVars, Lasting
  <1>11. ASSUME NEW r \in Runs, StartRun(r) \/ EndRun(r) PROVE PhaseInv'
    BY <1>5, <1>11 DEF StartRun, EndRun, opVars, Lasting
  <1>12. CASE UNCHANGED vars
    BY <1>5, <1>12 DEF vars, Lasting
  <1> QED BY <1>1, <1>2, <1>3, <1>4, <1>6, <1>7, <1>8, <1>9, <1>10, <1>11, <1>12 DEF Next, Operation

(* Runs keep the operations out; the journal is forgotten only with the    *)
(* resources of what is deployed prepared.                                 *)
LEMMA RunStep == ASSUME IInv, [Next]_vars PROVE RunInv'
  <1> USE DEF IInv
  <1>1. ASSUME NEW t \in Candidates \cup {"rollback"}, Begin(t) PROVE RunInv'
    BY <1>1 DEF Begin, LockFree, RunInv, LaunchOf
  <1>2. ASSUME NEW c \in Candidates, Apply(c) PROVE RunInv'
    BY <1>2, ApplyTypes DEF Apply, RunInv
  <1>3. ASSUME Rollback PROVE RunInv'
    BY <1>3, RollbackTypes DEF Rollback, RunInv
  <1>4. ASSUME Prepare \/ Commit \/ Abort PROVE RunInv'
    BY <1>4 DEF Prepare, Commit, Abort, PhaseInv, RunInv
  <1>5. ASSUME NEW p \in Files, WriteFile(p) \/ RestoreFile(p) PROVE RunInv'
    BY <1>5 DEF WriteFile, RestoreFile, PhaseInv, RunInv
  <1>6. ASSUME ForgetJournal PROVE RunInv'
    BY <1>6 DEF ForgetJournal, PhaseInv, RunInv, LaunchOf
  <1>7. ASSUME GiveUp PROVE RunInv'
    BY <1>7 DEF GiveUp, PrepareFails, PhaseInv, RunInv, LaunchOf
  <1>8. ASSUME NEW f \in Fields, NEW v \in Value, Edit(f, v) PROVE RunInv'
    BY <1>8 DEF Edit, opVars, RunInv, LaunchOf
  <1>9. ASSUME NEW r \in Runs, StartRun(r) PROVE RunInv'
    BY <1>9 DEF StartRun, MayRun, opVars, RunInv, LaunchOf
  <1>10. ASSUME NEW r \in Runs, EndRun(r) PROVE RunInv'
    BY <1>10 DEF EndRun, opVars, RunInv, LaunchOf
  <1>11. CASE UNCHANGED vars
    BY <1>11 DEF vars, RunInv, LaunchOf
  <1> QED BY <1>1, <1>2, <1>3, <1>4, <1>5, <1>6, <1>7, <1>8, <1>9, <1>10, <1>11 DEF Next, Operation

(* A file that is written or restored leads back to where it led before:   *)
(* its changed fields were at one end of their change and are now at the   *)
(* other.                                                                  *)
LEMMA MergeEffect ==
  ASSUME IInv, NEW p \in Files, WriteFile(p) \/ RestoreFile(p), NEW f \in Fields
  PROVE  /\ Lasting /\ authored' = authored
         /\ Restored(f)' = Restored(f)
         /\ native'[f] # native[f] =>
              /\ Uncommitted /\ pending.changes[f] # None
              /\ native[f] \in {pending.changes[f].before, pending.changes[f].after}
         /\ f \in Changed(pending.changes) /\ FileOf[f] = p =>
              /\ WriteFile(p) => native'[f] = pending.changes[f].after
              /\ RestoreFile(p) => native'[f] = pending.changes[f].before
  <1> USE DEF IInv
  <1>1. /\ pending # None /\ UNCHANGED <<state, pending, authored>>
        /\ p \in todo
        /\ WriteFile(p) => phase = "writing"
        /\ RestoreFile(p) => phase = "recovering"
    BY DEF WriteFile, RestoreFile, PhaseInv
  <1>2. f \in Changed(pending.changes) => Uncommitted
    BY <1>1 DEF PhaseInv, Uncommitted
  <1>3. CASE f \in Changed(pending.changes) /\ FileOf[f] = p
    <2>1. /\ native[f] \in {pending.changes[f].before, pending.changes[f].after}
          /\ WriteFile(p) => native'[f] = pending.changes[f].after
          /\ RestoreFile(p) => native'[f] = pending.changes[f].before
      BY <1>3 DEF WriteFile, RestoreFile, Merge, Before, After
    <2>2. Uncommitted' /\ pending.changes[f] # None
      BY <1>1, <1>2, <1>3 DEF Uncommitted, Committed, Changed
    <2> QED BY <1>1, <1>2, <1>3, <2>1, <2>2 DEF Restored, Lasting
  <1>4. CASE ~(f \in Changed(pending.changes) /\ FileOf[f] = p)
    <2>1. native'[f] = native[f]
      BY <1>4 DEF WriteFile, RestoreFile, Merge
    <2> QED BY <1>1, <1>4, <2>1 DEF Restored, Uncommitted, Committed, Lasting
  <1> QED BY <1>3, <1>4

(* At every step a recovery leads to the record.                           *)
LEMMA RecoverStep == ASSUME IInv, [Next]_vars PROVE RecoversToRecord'
  <1> USE DEF IInv
  <1>1. ASSUME NEW c \in Candidates, Apply(c) PROVE RecoversToRecord'
    <2>1. /\ pending = None /\ ConflictFree(c)
          /\ UNCHANGED <<native, state, authored>>
      BY <1>1 DEF Apply, PhaseInv
    <2>2. pending'.changes = PlannedChanges(c)
      BY <1>1, ApplyTypes
    <2>3. ASSUME NEW f \in Fields \ authored
          PROVE  Restored(f)' = Recorded(state.current, f)
      <3>1. native[f] = Recorded(state.current, f)
        BY <2>1, Settled
      <3>2. PlannedChanges(c)[f] # None => PlannedChanges(c)[f].before = Recorded(state.current, f)
        BY <2>1, PlanEffect
      <3> QED BY <2>1, <2>2, <3>1, <3>2 DEF Restored
    <2> QED BY <2>1, <2>3 DEF RecoversToRecord
  <1>2. ASSUME Rollback PROVE RecoversToRecord'
    <2>1. /\ pending = None /\ pending'.changes = Undo /\ state.previous # None
          /\ UNCHANGED <<native, state, authored>>
      BY <1>2, RollbackTypes DEF Rollback, PhaseInv
    <2>2. ASSUME NEW f \in Fields \ authored
          PROVE  Restored(f)' = Recorded(state.current, f)
      <3>1. native[f] = Recorded(state.current, f)
        BY <2>1, Settled
      <3>2. Undo[f] # None => Undo[f].before = Recorded(state.current, f)
        BY <2>1, UndoParts DEF BackupInv, Linked
      <3> QED BY <2>1, <3>1, <3>2 DEF Restored
    <2> QED BY <2>1, <2>2 DEF RecoversToRecord
  <1>3. ASSUME Commit PROVE RecoversToRecord'
    <2>1. ASSUME NEW f \in Fields \ authored'
          PROVE  native[f] = Recorded(pending.after.current, f)
      <3>1. CASE Uncommitted /\ pending.changes[f] # None
        <4>1. native[f] = pending.changes[f].after
          <5>1. f \in Changed(pending.changes) /\ phase = "writing" /\ todo = {}
            BY <1>3, <3>1 DEF Commit, Changed
          <5> QED BY <1>3, <2>1, <3>1, <5>1, CommitEffect DEF DoneInv
        <4> QED BY <3>1, <4>1 DEF JournalInv
      <3>2. CASE Uncommitted /\ pending.changes[f] = None
        <4>1. f \notin authored
          BY <1>3, <2>1, <3>2, CommitEffect
        <4> QED BY <3>2, <4>1 DEF JournalInv, RecoversToRecord, Restored
      <3>3. CASE ~Uncommitted
        BY <1>3, <2>1, <3>3, CommitEffect DEF RecoversToRecord, Restored
      <3> QED BY <3>1, <3>2, <3>3
    <2> QED BY <1>3, <2>1, CommitEffect DEF RecoversToRecord, Restored
  <1>4. ASSUME ForgetJournal PROVE RecoversToRecord'
    <2>1. ASSUME NEW f \in Fields \ authored PROVE native[f] = Recorded(state.current, f)
      BY <1>4, <2>1 DEF ForgetJournal, DoneInv, RecoversToRecord
    <2> QED BY <1>4, <2>1 DEF ForgetJournal, RecoversToRecord, Restored, Uncommitted
  <1>5. ASSUME NEW p \in Files, WriteFile(p) \/ RestoreFile(p) PROVE RecoversToRecord'
    BY <1>5, MergeEffect DEF RecoversToRecord, Lasting
  <1>6. ASSUME NEW f \in Fields, NEW v \in Value, Edit(f, v) PROVE RecoversToRecord'
    BY <1>6 DEF Edit, RecoversToRecord, Restored, Uncommitted, Committed, TypeOK
  <1>7. CASE UNCHANGED <<native, state, pending, authored>>
    BY <1>7 DEF RecoversToRecord, Restored, Uncommitted, Committed
  <1>8. ASSUME [Prepare \/ Abort \/ GiveUp \/ \E t \in Candidates \cup {"rollback"} : Begin(t)
                \/ \E r \in Runs : StartRun(r) \/ EndRun(r)]_vars
        PROVE  UNCHANGED <<native, state, pending, authored>>
    BY <1>8 DEF vars, Prepare, Abort, GiveUp, Begin, StartRun, EndRun
  <1> QED BY <1>1, <1>2, <1>3, <1>4, <1>5, <1>6, <1>7, <1>8 DEF Next, Operation

(* What is no longer to do is done, or the user undid it.                  *)
LEMMA DoneStep == ASSUME IInv, [Next]_vars PROVE DoneInv'
  <1> USE DEF IInv
  <1>1. ASSUME NEW t \in Candidates \cup {"rollback"}, Begin(t) PROVE DoneInv'
    BY <1>1 DEF Begin, DoneInv, ToRestore, FilesOf, Changed, Restored, Uncommitted, Committed
  <1>2. ASSUME Abort PROVE DoneInv'
    BY <1>2 DEF Abort, DoneInv, ToRestore, FilesOf, Changed, Restored, Uncommitted, Committed
  <1>3. ASSUME Prepare PROVE DoneInv'
    BY <1>3 DEF Prepare, DoneInv, FilesOf, Changed
  <1>4. ASSUME NEW p \in Files, WriteFile(p) PROVE DoneInv'
    <2>1. phase' = "writing" /\ phase = "writing" /\ todo' = todo \ {p} /\ pending' = pending
          /\ authored' = authored
      BY <1>4 DEF WriteFile
    <2>2. ASSUME NEW f \in Changed(pending.changes) \ authored
          PROVE  FileOf[f] \in todo' \/ native'[f] = pending.changes[f].after
      <3>1. CASE FileOf[f] = p
        BY <1>4, <2>2, <3>1, MergeEffect DEF Changed
      <3>2. CASE FileOf[f] # p
        <4>1. native'[f] = native[f]
          BY <1>4, <3>2 DEF WriteFile, Merge, Changed
        <4> QED BY <2>1, <2>2, <3>2, <4>1 DEF DoneInv
      <3> QED BY <3>1, <3>2
    <2> QED BY <2>1, <2>2 DEF DoneInv, Changed
  <1>5. ASSUME NEW p \in Files, RestoreFile(p) PROVE DoneInv'
    <2>1. phase' = "recovering" /\ phase = "recovering" /\ todo' = todo \ {p}
          /\ UNCHANGED <<pending, state, authored>>
      BY <1>5 DEF RestoreFile
    <2>2. ASSUME NEW f \in Fields \ authored
          PROVE  FileOf[f] \in todo' \/ Restored(f)' = native'[f]
      <3>1. CASE f \in Changed(pending.changes) /\ FileOf[f] = p
        <4>1. native'[f] = pending.changes[f].before
          BY <1>5, <3>1, MergeEffect
        <4> QED BY <2>1, <4>1 DEF Restored
      <3>2. CASE f \notin Changed(pending.changes)
        BY <2>1, <3>2 DEF Restored, Changed
      <3>3. CASE FileOf[f] # p
        <4>1. native'[f] = native[f]
          BY <1>5, <3>3 DEF RestoreFile, Merge
        <4>2. Restored(f)' = Restored(f)
          BY <1>5, MergeEffect
        <4> QED BY <2>1, <2>2, <3>3, <4>1, <4>2 DEF DoneInv
      <3> QED BY <3>1, <3>2, <3>3
    <2> QED BY <2>1, <2>2 DEF DoneInv
  <1>6. ASSUME Commit PROVE DoneInv'
    BY <1>6, CommitEffect DEF DoneInv, Restored
  <1>7. ASSUME Rollback \/ ForgetJournal \/ GiveUp \/ \E c \in Candidates : Apply(c) PROVE DoneInv'
    BY <1>7 DEF Rollback, ForgetJournal, GiveUp, Apply, DoneInv
  <1>8. ASSUME NEW f \in Fields, NEW v \in Value, Edit(f, v) PROVE DoneInv'
    BY <1>8 DEF Edit, opVars, DoneInv, Restored, Uncommitted, Committed, Changed, TypeOK
  <1>9. CASE UNCHANGED <<native, state, pending, phase, todo, authored>>
    BY <1>9 DEF DoneInv, Restored, Uncommitted, Committed, Changed
  <1>10. ASSUME [\E r \in Runs : StartRun(r) \/ EndRun(r)]_vars PROVE DoneInv'
    BY <1>9, <1>10 DEF vars, opVars, StartRun, EndRun
  <1> QED BY <1>1, <1>2, <1>3, <1>4, <1>5, <1>6, <1>7, <1>8, <1>10 DEF Next, Operation

-----------------------------------------------------------------------------
(* The theorems.                                                           *)

(* In the beginning all fields are the user's and nothing is recorded.     *)
LEMMA InitIInv == Init => IInv
  <1> SUFFICES ASSUME Init PROVE IInv
    OBVIOUS
  <1>1. TypeOK
    BY DeploymentAssumption DEF Init, TypeOK, State
  <1>2. RecoversToRecord /\ JournalInv /\ BackupInv /\ PhaseInv /\ DoneInv /\ RunInv
    BY DeploymentAssumption DEF Init, RecoversToRecord, JournalInv, BackupInv, Linked, PhaseInv,
       DoneInv, RunInv, Uncommitted
  <1> QED BY <1>1, <1>2 DEF IInv

(* Every step keeps the invariant.                                         *)
LEMMA Inductive == IInv /\ [Next]_vars => IInv'
  BY TypeStep, RecoverStep, JournalStep, BackupStep, PhaseStep, DoneStep, RunStep DEF IInv

(* IInv holds in every reachable state, whatever the fields, their values, *)
(* the files, the candidates and the runs.                                 *)
THEOREM InductiveInvariant == Spec => []IInv
  BY InitIInv, Inductive, PTL DEF Spec

(* Every variable keeps its type.                                          *)
THEOREM TypeCorrect == Spec => []TypeOK
  BY InductiveInvariant, PTL DEF IInv

(* Whatever failed, crashed or was edited, and wherever: a recovery leads  *)
(* to exactly what is recorded, except for the fields the user wrote.      *)
THEOREM Recovers == Spec => []RecoversToRecord
  BY InductiveInvariant, PTL DEF IInv

(* A run finds a finished deployment and the resources for its launch      *)
(* contract.                                                               *)
THEOREM RunsOnWhole == Spec => []RunsFindWhole
  <1>1. IInv => RunsFindWhole
    BY Settled DEF IInv, RunInv, RunsFindWhole
  <1> QED BY <1>1, InductiveInvariant, PTL

(* The backup leads from what is recorded to the record that it names.     *)
THEOREM LeadsBack == Spec => []BackupLeadsBack
  <1>1. IInv => BackupLeadsBack
    BY DEF IInv, BackupInv, Linked, BackupLeadsBack
  <1> QED BY <1>1, InductiveInvariant, PTL

(* What a write or a restore overwrites is the recorded value, or an end   *)
(* of the backup or of the journal.                                        *)
LEMMA OverwritesVouched ==
  ASSUME IInv, NEW p \in Files, WriteFile(p) \/ RestoreFile(p), NEW f \in Fields,
         native'[f] # native[f]
  PROVE  native[f] \in Vouched(f)
  <1>1. /\ Uncommitted /\ pending # None /\ pending.changes[f] # None
        /\ native[f] \in {pending.changes[f].before, pending.changes[f].after}
    BY MergeEffect DEF Uncommitted
  <1>2. native[f] \in Value
    BY DEF IInv, TypeOK
  <1>3. \/ pending.changes[f].before = Recorded(state.current, f)
        \/ /\ state.previous # None /\ state.previous.changes[f] # None
           /\ pending.changes[f].before = state.previous.changes[f].after
    BY <1>1 DEF IInv, JournalInv
  <1> QED BY <1>1, <1>2, <1>3 DEF Vouched

(* No deployment, recovery or rollback overwrites a value that the record, *)
(* its backup and the journal do not vouch for.                            *)
THEOREM KeepsTheUsers == Spec => KeepsUserValues
  <1>1. ASSUME IInv, [Next]_vars, todo' # todo, NEW f \in Fields, native'[f] # native[f]
        PROVE  native[f] \in Vouched(f)
    <2>1. ASSUME ~\E p \in Files : WriteFile(p) \/ RestoreFile(p)
          PROVE  native' = native \/ todo' = todo
      BY <1>1, <2>1 DEF Next, Operation, vars, opVars, Begin, Apply, Rollback, Prepare, Commit, Abort,
         ForgetJournal, GiveUp, Edit, StartRun, EndRun
    <2> QED BY <1>1, <2>1, OverwritesVouched
  <1>2. IInv /\ [Next]_vars =>
          [todo' # todo => \A f \in Fields : native'[f] # native[f] => native[f] \in Vouched(f)]_vars
    BY <1>1
  <1> QED BY <1>2, InductiveInvariant, PTL DEF Spec, KeepsUserValues

-----------------------------------------------------------------------------
(* Refinement of the atomic deployment.                                    *)

(* What the fields and the record of the atomic deployment stand for.      *)
ShownFields == [f \in Fields |-> IF f \in authored THEN None ELSE Restored(f)]
ShownRecord == [f \in Fields |-> Recorded(state.current, f)]

(* By the invariant a field is the user's or has its recorded value.       *)
Shown ==
  /\ ShownFields = [f \in Fields |-> IF f \in authored THEN None ELSE Recorded(state.current, f)]
  /\ ShownRecord \in [Fields -> Values \cup {Absent}]
  /\ ShownFields \in [Fields -> Values \cup {Absent, None}]
LEMMA InvShown == IInv => Shown
  <1> SUFFICES ASSUME IInv PROVE Shown
    OBVIOUS
  <1>1. ShownFields = [f \in Fields |-> IF f \in authored THEN None ELSE Recorded(state.current, f)]
    BY DEF ShownFields, IInv, RecoversToRecord
  <1>2. \A f \in Fields : Recorded(state.current, f) \in Value
    BY StateParts, RecordedType DEF IInv
  <1> QED BY <1>1, <1>2 DEF Shown, ShownRecord, Value

(* Every step of the transaction is a step of the atomic deployment or     *)
(* leaves its fields and its record alone.                                 *)
LEMMA StepIsAtomic ==
  ASSUME IInv, Shown, Shown', [Next]_vars
  PROVE  [Atomic!AtomicNext]_<<ShownFields, ShownRecord, using>>
  <1>1. CASE UNCHANGED <<state, authored, using>>
    <2>1. ShownFields' = ShownFields /\ ShownRecord' = ShownRecord
      BY <1>1 DEF Shown, ShownRecord
    <2> QED BY <1>1, <2>1
  <1>2. ASSUME Commit PROVE Atomic!Switch(ShownRecord')
    <2>1. using = {} /\ using' = using
      BY <1>2 DEF IInv, RunInv, Commit
    <2>2. authored' \subseteq authored
      BY <1>2, CommitEffect
    <2>3. \A f \in Fields : \/ ShownFields'[f] = ShownRecord'[f]
                            \/ ShownFields'[f] = None /\ ShownFields[f] = None
      BY <2>2 DEF Shown, ShownRecord
    <2> QED BY <2>1, <2>3 DEF Shown, Atomic!Switch, ShownFields, ShownRecord
  <1>3. ASSUME NEW f \in Fields, NEW v \in Value, Edit(f, v) PROVE Atomic!Write(f)
    <2>1. authored' = authored \cup {f} /\ UNCHANGED <<state, using>>
      BY <1>3 DEF Edit
    <2>2. ShownFields' = [ShownFields EXCEPT ![f] = None] /\ ShownRecord' = ShownRecord
      BY <2>1 DEF Shown, ShownRecord
    <2> QED BY <2>1, <2>2 DEF Atomic!Write, ShownFields, ShownRecord
  <1>4. ASSUME NEW r \in Runs, StartRun(r) \/ EndRun(r)
        PROVE  Atomic!Use(r) \/ Atomic!Leave(r)
    <2>1. UNCHANGED <<native, state, pending, authored>>
          /\ (using' = using \cup {r} \/ using' = using \ {r})
      BY <1>4 DEF StartRun, EndRun
    <2>2. ShownFields' = ShownFields /\ ShownRecord' = ShownRecord
      BY <2>1 DEF Shown, ShownRecord
    <2> QED BY <2>1, <2>2 DEF Atomic!Use, Atomic!Leave, ShownFields, ShownRecord
  <1>5. \/ Commit
        \/ \E f \in Fields, v \in Value : Edit(f, v)
        \/ \E r \in Runs : StartRun(r) \/ EndRun(r)
        \/ UNCHANGED <<state, authored, using>>
    BY DEF Next, Operation, vars, Begin, Apply, Rollback, Prepare, WriteFile, RestoreFile, Abort,
       ForgetJournal, GiveUp
  <1>6. ASSUME Commit PROVE Atomic!AtomicNext
    <2>1. ShownRecord' \in [Fields -> Values \cup {Absent}]
      BY DEF Shown
    <2> QED BY <1>2, <1>6, <2>1 DEF Atomic!AtomicNext, Atomic!Switch
  <1>7. ASSUME NEW f \in Fields, NEW v \in Value, Edit(f, v) PROVE Atomic!AtomicNext
    BY <1>3, <1>7 DEF Atomic!AtomicNext
  <1>8. ASSUME NEW r \in Runs, StartRun(r) \/ EndRun(r) PROVE Atomic!AtomicNext
    BY <1>4, <1>8 DEF Atomic!AtomicNext
  <1> QED BY <1>1, <1>5, <1>6, <1>7, <1>8

(* The journalled deployment implements the atomic one, for any fields,    *)
(* candidates and runs.                                                    *)
THEOREM Refinement == Spec => ImplementsAtomic
  <1>1. Init => Atomic!AtomicInit
    BY DEF Init, Atomic!AtomicInit, Recorded, Managed, Items
  <1>2. IInv /\ Shown /\ Shown' /\ [Next]_vars => [Atomic!AtomicNext]_Atomic!atomicVars
    BY StepIsAtomic DEF ShownFields, ShownRecord, Atomic!atomicVars
  <1> QED BY <1>1, <1>2, InductiveInvariant, InvShown, PTL DEF Spec, ImplementsAtomic, Atomic!AtomicSpec

-----------------------------------------------------------------------------
(* What a record contains, and what follows for the next operations.       *)

(* A manifest records what its candidate wants: every value except those   *)
(* of initialized fields, which stay the user's, and an item for each      *)
(* field that the candidate has a value for.                               *)
Rendered(current) ==
  current # None =>
    \A f \in Fields :
      /\ f \notin InitOnly => Recorded(current, f) = Want[current.gen][f]
      /\ Want[current.gen][f] # Absent => f \in Managed(current)
BothRendered(st) ==
  /\ Rendered(st.current)
  /\ st.previous # None => Rendered(st.previous.current)
RenderedInv == BothRendered(state) /\ (pending # None => BothRendered(pending.after))

(* A plan without conflicts records its candidate.                         *)
LEMMA PlanIsRendered ==
  ASSUME TypeOK, NEW c \in Candidates, ConflictFree(c)
  PROVE  Rendered(PlannedManifest(c))
  <1> DEFINE manifest == PlannedManifest(c)
  <1>1. /\ manifest \in Manifest /\ manifest # None /\ manifest.gen = c
    BY PlanTypes, DeploymentAssumption DEF PlannedManifest
  <1>2. ASSUME NEW f \in Fields
        PROVE  /\ f \notin InitOnly => Recorded(manifest, f) = Want[c][f]
               /\ Want[c][f] # Absent => f \in Managed(manifest)
    <2>1. Items(manifest)[f] = PlannedItem(c, f)
      BY <1>1, DeploymentAssumption DEF Items, PlannedManifest
    <2>2. /\ PlannedItem(c, f) # None => Recorded(manifest, f) = PlannedItem(c, f)
          /\ PlannedItem(c, f) = None => Recorded(manifest, f) = Absent
          /\ f \in Managed(manifest) <=> PlannedItem(c, f) # None
      BY <1>1, <2>1, RecordedType DEF Managed
    <2>3. /\ Want[c][f] \in Value /\ native[f] \in Value /\ None \notin Value /\ Absent \in Value
          /\ Baseline(f) \in Value
          /\ f \in Managed(state.current) => Items(state.current)[f] # None
      BY StateParts, RecordedType, DeploymentAssumption DEF TypeOK, Value, Baseline, Managed
    <2>4. CASE f \notin Planned(c)
      BY <2>2, <2>4 DEF PlannedItem, Planned
    <2>5. CASE f \in Planned(c) /\ Preference(f)
      <3>1. PlannedItem(c, f) = Absent
        BY <2>5 DEF PlannedItem, Preference, Taken, Initialized
      <3> QED BY <2>2, <2>3, <2>5, <3>1 DEF Preference
    <2>6. CASE f \in Planned(c) /\ ~Preference(f) /\ Initialized(f)
      <3>1. PlannedItem(c, f) = Items(state.current)[f]
        BY <2>6 DEF PlannedItem
      <3> QED BY <2>2, <2>3, <2>6, <3>1 DEF Initialized
    <2>7. CASE f \in Planned(c) /\ ~Preference(f) /\ ~Initialized(f)
      <3>1. ~BothChanged(c, f)
        BY <2>7 DEF ConflictFree, Compared
      <3>2. Drifted(c, f) => Want[c][f] = Baseline(f)
        BY <3>1 DEF BothChanged, Drifted
      <3>3. \/ PlannedItem(c, f) = None /\ Want[c][f] = Absent
            \/ PlannedItem(c, f) = Want[c][f]
        BY <2>7, <3>2 DEF PlannedItem
      <3> QED BY <2>2, <2>3, <3>3
    <2> QED BY <2>4, <2>5, <2>6, <2>7
  <1> QED BY <1>1, <1>2 DEF Rendered

(* Every step keeps records rendered: what is deployed, what the journal   *)
(* deploys, and what their backups lead back to.                           *)
LEMMA RenderedStep == ASSUME IInv, RenderedInv, [Next]_vars PROVE RenderedInv'
  <1> USE DEF IInv
  <1>1. ASSUME NEW c \in Candidates, Apply(c) PROVE RenderedInv'
    <2>1. /\ state' = state /\ ConflictFree(c)
          /\ pending'.after = PlannedState(c)
      BY <1>1, ApplyTypes DEF Apply
    <2>2. /\ pending'.after.current = PlannedManifest(c)
          /\ pending'.after.previous = PlannedBackup(c)
      BY <2>1 DEF PlannedState
    <2>3. Rendered(PlannedManifest(c))
      BY <2>1, PlanIsRendered
    <2>4. PlannedBackup(c) # None => Rendered(PlannedBackup(c).current)
      BY DEF PlannedBackup, RenderedInv, BothRendered
    <2> QED BY <2>1, <2>2, <2>3, <2>4 DEF RenderedInv, BothRendered
  <1>2. ASSUME Rollback PROVE RenderedInv'
    <2>1. state' = state
      BY <1>2 DEF Rollback
    <2> QED BY <1>2, <2>1, RollbackTypes DEF RenderedInv, BothRendered
  <1>3. ASSUME Commit PROVE RenderedInv'
    <2>1. pending # None /\ state' = pending.after /\ pending' = pending
      BY <1>3 DEF Commit, PhaseInv
    <2> QED BY <2>1 DEF RenderedInv
  <1>4. ASSUME ForgetJournal PROVE RenderedInv'
    BY <1>4 DEF ForgetJournal, RenderedInv
  <1>5. CASE UNCHANGED <<state, pending>>
    BY <1>5 DEF RenderedInv
  <1>6. \/ Commit \/ Rollback \/ ForgetJournal \/ \E c \in Candidates : Apply(c)
        \/ UNCHANGED <<state, pending>>
    BY DEF Next, Operation, vars, Begin, Prepare, WriteFile, RestoreFile, Abort, GiveUp,
       Edit, StartRun, EndRun
  <1> QED BY <1>1, <1>2, <1>3, <1>4, <1>5, <1>6

(* Whatever failed, crashed or was edited, what is recorded as deployed,   *)
(* what a journal deploys and what a rollback goes back to are complete    *)
(* rendered configurations, never a mixture of two.                        *)
THEOREM RecordsAreRendered == Spec => []RenderedInv
  <1>1. Init => RenderedInv
    BY DEF Init, RenderedInv, BothRendered, Rendered
  <1>2. IInv /\ RenderedInv /\ [Next]_vars => RenderedInv'
    BY RenderedStep
  <1> QED BY <1>1, <1>2, InductiveInvariant, PTL DEF Spec

(* Applying the deployed candidate again has no conflict and writes no     *)
(* field, whatever the user made of the fields in between.                 *)
RedeployIsQuiet ==
  state.current # None => /\ ConflictFree(state.current.gen)
                          /\ Updates(state.current.gen) = {}
THEOREM RedeployedQuietly == Spec => []RedeployIsQuiet
  <1>1. ASSUME IInv, RenderedInv, state.current # None
        PROVE  ConflictFree(state.current.gen) /\ Updates(state.current.gen) = {}
    <2> DEFINE c == state.current.gen
    <2>1. ASSUME NEW f \in Planned(c) PROVE f \in Managed(state.current)
      BY <1>1, <2>1 DEF RenderedInv, BothRendered, Rendered, Planned, Managed
    <2>2. ASSUME NEW f \in Planned(c) PROVE ~TakeoverConflict(f)
      BY <2>1 DEF TakeoverConflict, Taken
    <2>3. ASSUME NEW f \in Compared(c) PROVE Want[c][f] = Baseline(f)
      <3>1. f \in Fields /\ f \notin InitOnly
        BY <2>1 DEF Compared, Initialized, Planned, Managed
      <3> QED BY <1>1, <3>1 DEF RenderedInv, BothRendered, Rendered, Baseline
    <2> QED BY <2>2, <2>3 DEF ConflictFree, BothChanged, Updates
  <1>2. IInv /\ RenderedInv => RedeployIsQuiet
    BY <1>1 DEF RedeployIsQuiet
  <1> QED BY <1>2, InductiveInvariant, RecordsAreRendered, PTL

(* A rollback is refused only for the sake of the user: as long as a       *)
(* backup is there and no journal is, the fields it changes stand where    *)
(* the backup starts from, except those the user wrote.                    *)
RollbackStaysOpen ==
  state.previous # None /\ pending = None =>
    \A f \in Changed(state.previous.changes) \ authored :
      native[f] = state.previous.changes[f].after
THEOREM RollbackIsOpen == Spec => []RollbackStaysOpen
  <1>1. ASSUME IInv, state.previous # None, pending = None,
               NEW f \in Changed(state.previous.changes) \ authored
        PROVE  native[f] = state.previous.changes[f].after
    <2>1. f \in Fields /\ state.previous.changes[f] # None
      BY DEF Changed
    <2>2. native[f] = Recorded(state.current, f)
      BY <1>1, <2>1, Settled DEF IInv
    <2> QED BY <1>1, <2>1, <2>2 DEF IInv, BackupInv, Linked
  <1>2. IInv => RollbackStaysOpen
    BY <1>1 DEF RollbackStaysOpen
  <1> QED BY <1>2, InductiveInvariant, PTL
=============================================================================
