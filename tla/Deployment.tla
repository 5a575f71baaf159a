------------------------------ MODULE Deployment ------------------------------
(***************************************************************************)
(* Deployment of a configuration into the native files of one instance:    *)
(* the three-way plan of every managed field (baseline, current, desired), *)
(* the journalled transaction, its recovery after a failure or a crash,    *)
(* rollback to the single backup, and the runs that must not start on an   *)
(* unfinished deployment.  The native tool and the user edit fields at any *)
(* time, without taking any lock.                                          *)
(*                                                                         *)
(* A field stands for a managed item: a selector inside a structured file, *)
(* or a whole file.  A file is there exactly if one of its fields is.      *)
(* An operator whose name ends in Faulty is a wrong variant of the one     *)
(* that follows it; no specification uses it.                              *)
(***************************************************************************)
CONSTANTS Fields,     \* managed items and native fields nobody manages
          Values,     \* values of fields
          Absent,     \* the value of a field that is not there
          None,       \* no manifest, no backup, no owner, no journal, no task
          Files,      \* paths
          FileOf,     \* FileOf[f]: the path that holds f
          WholeFiles, \* the fields that are a whole file (no selector)
          InitOnly,   \* the fields with ownership "initialize"
          Candidates, \* rendered configurations
          Want,       \* Want[c][f]: the desired value of f, Absent if unmanaged
          Launch,     \* Launch[c]: the launch contract of c
          Declared,   \* the paths that launch contracts declare as shared
          Runs        \* runs of the instance

VARIABLES native,   \* native[f]: the content of the instance
          state,    \* deployment.json: current manifest, backup, owner
          pending,  \* pending.json: the journal, or None
          prepared, \* the launch contract whose resources are prepared
          phase,    \* step of the operation under the exclusive instance lock
          task,     \* what it was asked to do (a candidate, or "rollback")
          todo,     \* the files it has yet to write
          using,    \* the runs that hold the instance lock
          authored  \* auxiliary: fields whose last writer is not a deployment

vars == <<native, state, pending, prepared, phase, task, todo, using, authored>>
opVars == <<phase, task, todo>>

Value == Values \cup {Absent}
Manifest == [gen : Candidates, items : [Fields -> Value \cup {None}]]
Changes == [Fields -> [before : Value, after : Value] \cup {None}]
Backup == [current : Manifest \cup {None}, changes : Changes]
State == [current : Manifest \cup {None}, previous : Backup \cup {None},
          owner : [shared : SUBSET Files] \cup {None}]
Journal == [after : State, changes : Changes]

ASSUME DeploymentAssumption ==
  /\ FileOf \in [Fields -> Files]
  /\ WholeFiles \subseteq Fields /\ InitOnly \subseteq Fields /\ Declared \subseteq Files
  /\ Want \in [Candidates -> [Fields -> Value]]
  /\ "rollback" \notin Candidates /\ None \notin Candidates /\ None # "rollback"
  /\ Absent \notin Values
  /\ None \notin Value \cup Manifest \cup Backup \cup Journal \cup [shared : SUBSET Files]
  /\ None \notin [before : Value, after : Value]
  /\ None \notin {Launch[c] : c \in Candidates}

NoChange == [f \in Fields |-> None]
Changed(changes) == {f \in Fields : changes[f] # None}
FilesOf(S) == {FileOf[f] : f \in S}

(* The items of a manifest, and the value recorded for a field.            *)
Items(current) == IF current = None THEN [f \in Fields |-> None] ELSE current.items
Managed(current) == {f \in Fields : Items(current)[f] # None}
Recorded(current, f) == IF f \in Managed(current) THEN Items(current)[f] ELSE Absent

Init == /\ native \in [Fields -> Value]
        /\ state = [current |-> None, previous |-> None, owner |-> None]
        /\ pending = None
        /\ prepared = None
        /\ phase = "idle" /\ task = None /\ todo = {}
        /\ using = {}
        /\ authored = Fields

-----------------------------------------------------------------------------
(* The three-way plan of candidate c.                                      *)

Exists(f) == \E g \in Fields : FileOf[g] = FileOf[f] /\ native[g] # Absent

(* A structured file is known if an item of it is managed, or the owner    *)
(* recorded its path.                                                      *)
Known(f) == /\ f \notin WholeFiles
            /\ \/ \E g \in Managed(state.current) \ WholeFiles : FileOf[g] = FileOf[f]
               \/ state.owner # None /\ FileOf[f] \in state.owner.shared

Planned(c) == Managed(state.current) \cup {f \in Fields : Want[c][f] # Absent}
Taken(f) == f \notin Managed(state.current) /\ Exists(f)

(* A preference that is already there uses up its initialization, and one  *)
(* that was initialized keeps its record, whatever the user made of it.    *)
Preference(f) == Taken(f) /\ Known(f) /\ native[f] # Absent /\ f \in InitOnly
Initialized(f) == f \in Managed(state.current) /\ f \in InitOnly
TakeoverConflict(f) == /\ Taken(f) /\ ~Preference(f)
                       /\ ~Known(f) \/ native[f] # Absent

(* The others are compared with their baseline and their desired value.    *)
Compared(c) == {f \in Planned(c) : ~Preference(f) /\ ~Initialized(f) /\ ~TakeoverConflict(f)}
Baseline(f) == Recorded(state.current, f)
BothChanged(c, f) == native[f] # Want[c][f] /\ native[f] # Baseline(f) /\ Want[c][f] # Baseline(f)
Updates(c) == {f \in Compared(c) : native[f] # Want[c][f] /\ native[f] = Baseline(f)}
Drifted(c, f) == native[f] # Want[c][f] /\ native[f] # Baseline(f)

ConflictFree(c) == \A f \in Planned(c) : ~TakeoverConflict(f) /\ (f \in Compared(c) => ~BothChanged(c, f))

PlannedItem(c, f) ==
  IF f \notin Planned(c) THEN None
  ELSE CASE Preference(f) -> Absent
         [] Initialized(f) -> Items(state.current)[f]
         [] OTHER -> IF Want[c][f] = Absent /\ native[f] = Absent THEN None
                     ELSE IF Drifted(c, f) THEN Baseline(f) ELSE Want[c][f]

PlannedManifest(c) == [gen |-> c, items |-> [f \in Fields |-> PlannedItem(c, f)]]
PlannedChanges(c) ==
  [f \in Fields |-> IF f \in Updates(c) THEN [before |-> native[f], after |-> Want[c][f]] ELSE None]

(* The backup rotates only if a field or the launch contract changes.      *)
Rotates(c) == \/ Updates(c) # {}
              \/ state.current = None
              \/ state.current # None /\ Launch[state.current.gen] # Launch[c]
PlannedBackupFaulty(c) == IF Rotates(c) /\ state.previous = None
                          THEN [current |-> state.current, changes |-> PlannedChanges(c)]
                          ELSE state.previous
PlannedBackup(c) == IF Rotates(c) THEN [current |-> state.current, changes |-> PlannedChanges(c)]
                                  ELSE state.previous
SharedFiles(c) == FilesOf({f \in Fields \ WholeFiles : PlannedItem(c, f) # None})
PlannedOwner(c) ==
  [shared |-> SharedFiles(c) \cup (IF state.owner = None THEN Declared ELSE state.owner.shared)]

-----------------------------------------------------------------------------
(* One operation at a time holds the instance lock exclusively.            *)

LockFreeFaulty == phase = "idle"
LockFree == phase = "idle" /\ using = {}
Committed == state = pending.after
(* What a recovery restores: every file of an uncommitted journal.         *)
ToRestoreFaulty == IF Committed THEN {} ELSE FilesOf(Changed(pending.changes)) \cap todo
ToRestore == IF Committed THEN {} ELSE FilesOf(Changed(pending.changes))
LaunchOf(st) == Launch[st.current.gen]
(* Preparing the resources of a launch contract may fail halfway.          *)
PrepareFails == prepared' \in IF phase \in {"preparing", "recovering"} THEN {prepared, None}
                                                                      ELSE {prepared}

(* An operation recovers what an earlier one left before it does anything. *)
Begin(t) ==
  /\ LockFree
  /\ task' = t
  /\ IF pending = None
     THEN phase' = "planning" /\ todo' = {}
     ELSE /\ phase' = "recovering"
          /\ todo' = ToRestore
  /\ UNCHANGED <<native, state, pending, prepared, using, authored>>

Apply(c) ==
  /\ phase = "planning" /\ task = c
  /\ ConflictFree(c)
  /\ pending' = [after |-> [current |-> PlannedManifest(c), previous |-> PlannedBackup(c),
                            owner |-> PlannedOwner(c)],
                 changes |-> PlannedChanges(c)]
  /\ phase' = "preparing" /\ task' = None
  /\ UNCHANGED <<native, state, prepared, todo, using, authored>>

Reverse(change) == IF change = None THEN None ELSE [before |-> change.after, after |-> change.before]
(* Everything the backup changes is checked before anything is restored.   *)
Rollback ==
  /\ phase = "planning" /\ task = "rollback"
  /\ state.current # None /\ state.previous # None
  /\ LET changes == [f \in Fields |-> Reverse(state.previous.changes[f])]
     IN  /\ \A f \in Changed(changes) : native[f] \in {changes[f].before, changes[f].after}
         /\ pending' = [after |-> [state EXCEPT !.current = state.previous.current,
                                                !.previous = None],
                        changes |-> changes]
  /\ phase' = "preparing" /\ task' = None
  /\ UNCHANGED <<native, state, prepared, todo, using, authored>>

Prepare ==
  /\ phase = "preparing"
  /\ prepared' = IF pending.after.current = None THEN prepared ELSE LaunchOf(pending.after)
  /\ phase' = "writing" /\ todo' = FilesOf(Changed(pending.changes))
  /\ UNCHANGED <<native, state, pending, task, using, authored>>

(* All changes of one file are merged into its present content and         *)
(* replace it atomically, if each field still is as planned or already as  *)
(* wanted (from and to are swapped in a recovery).                         *)
MergeFaulty(p, from, to) ==
  native' = [f \in Fields |-> IF f \in Changed(pending.changes) /\ FileOf[f] = p
                              THEN to[f] ELSE native[f]]
Merge(p, from, to) ==
  LET group == {f \in Changed(pending.changes) : FileOf[f] = p}
  IN  /\ \A f \in group : native[f] \in {from[f], to[f]}
      /\ native' = [f \in Fields |-> IF f \in group THEN to[f] ELSE native[f]]
Before == [f \in Changed(pending.changes) |-> pending.changes[f].before]
After == [f \in Changed(pending.changes) |-> pending.changes[f].after]

WriteFile(p) ==
  /\ phase = "writing" /\ p \in todo
  /\ Merge(p, Before, After)
  /\ todo' = todo \ {p}
  /\ UNCHANGED <<state, pending, prepared, phase, task, using, authored>>

(* deployment.json is replaced; from here on the journal is committed.     *)
WrittenByDeployment == {f \in Changed(pending.changes) : native[f] = pending.changes[f].after}
Commit ==
  /\ phase = "writing" /\ todo = {}
  /\ state' = pending.after
  /\ phase' = "recovering"
  /\ authored' = authored \ WrittenByDeployment
  /\ UNCHANGED <<native, pending, prepared, task, todo, using>>

(* Any exception of the transaction leads into recovery by the same call.  *)
Abort ==
  /\ phase \in {"preparing", "writing"}
  /\ phase' = "recovering"
  /\ todo' = ToRestore
  /\ PrepareFails
  /\ UNCHANGED <<native, state, pending, task, using, authored>>

RestoreFile(p) ==
  /\ phase = "recovering" /\ p \in todo
  /\ Merge(p, After, Before)
  /\ todo' = todo \ {p}
  /\ UNCHANGED <<state, pending, prepared, phase, task, using, authored>>

(* The journal is removed only after the resources of the deployed launch  *)
(* contract were prepared again; then the operation goes on or has ended.  *)
ForgetJournal ==
  /\ phase = "recovering" /\ todo = {}
  /\ prepared' = IF state.current = None THEN prepared ELSE LaunchOf(state)
  /\ pending' = None
  /\ phase' = IF task = None THEN "idle" ELSE "planning"
  /\ UNCHANGED <<native, state, task, todo, using, authored>>

(* A refused plan, a conflict or error in a recovery, or a crash anywhere: *)
(* the operation ends and leaves what is on disk.                          *)
GiveUp ==
  /\ phase # "idle"
  /\ phase' = "idle" /\ task' = None /\ todo' = {}
  /\ PrepareFails
  /\ UNCHANGED <<native, state, pending, using, authored>>

-----------------------------------------------------------------------------
(* The user and the native tool write fields; runs come and go.            *)

Edit(f, v) == /\ native' = [native EXCEPT ![f] = v]
              /\ authored' = authored \cup {f}
              /\ UNCHANGED <<state, pending, prepared, opVars, using>>

MayRunFaulty == state.current # None
MayRun == pending = None /\ state.current # None
StartRun(r) == /\ phase = "idle" /\ MayRun
               /\ using' = using \cup {r}
               /\ UNCHANGED <<native, state, pending, prepared, opVars, authored>>

EndRun(r) == /\ r \in using
             /\ using' = using \ {r}
             /\ UNCHANGED <<native, state, pending, prepared, opVars, authored>>

Operation == \/ \E t \in Candidates \cup {"rollback"} : Begin(t)
             \/ \E c \in Candidates : Apply(c)
             \/ \E p \in Files : WriteFile(p) \/ RestoreFile(p)
             \/ Rollback \/ Prepare \/ Commit \/ Abort \/ ForgetJournal \/ GiveUp

Next == \/ Operation
        \/ \E f \in Fields, v \in Value : Edit(f, v)
        \/ \E r \in Runs : StartRun(r) \/ EndRun(r)

Spec == Init /\ [][Next]_vars

-----------------------------------------------------------------------------
(* Properties.                                                             *)

TypeOK ==
  /\ native \in [Fields -> Value]
  /\ state \in State
  /\ pending \in Journal \cup {None}
  /\ prepared \in {Launch[c] : c \in Candidates} \cup {None}
  /\ phase \in {"idle", "planning", "preparing", "writing", "recovering"}
  /\ task \in Candidates \cup {"rollback", None}
  /\ todo \in SUBSET Files
  /\ using \in SUBSET Runs
  /\ authored \in SUBSET Fields

(* What the instance holds once a recovery would have run: an uncommitted  *)
(* journal takes back what it has written.                                 *)
Uncommitted == pending # None /\ ~Committed
Restored(f) == IF Uncommitted /\ pending.changes[f] # None /\ native[f] = pending.changes[f].after
               THEN pending.changes[f].before ELSE native[f]

(* At every moment a recovery leads to exactly what is recorded as         *)
(* deployed, except for the fields the user wrote: no crash, failure or    *)
(* conflict leaves half of a configuration, or a field nobody accounts for.*)
RecoversToRecord == \A f \in Fields \ authored : Restored(f) = Recorded(state.current, f)

(* A run finds a finished deployment, with its resources prepared for the  *)
(* launch contract it will use (run refuses while a journal is there).     *)
RunsFindWhole ==
  using # {} => /\ pending = None /\ phase = "idle"
                /\ prepared = LaunchOf(state)
                /\ \A f \in Fields \ authored : native[f] = Recorded(state.current, f)

(* The backup leads back from what is recorded to the record it names: its *)
(* changes start at that record, and what it does not change is the same,  *)
(* or the user's.                                                          *)
BackupLeadsBack ==
  state.previous # None =>
    \A f \in Fields :
      LET old == Recorded(state.previous.current, f)
          change == state.previous.changes[f]
      IN  IF change # None THEN change.before = old
          ELSE f \in authored \/ Recorded(state.current, f) = old

(* A value that neither the record, its backup nor the journal vouches for *)
(* is never overwritten, not even by a recovery or a rollback.             *)
Vouched(f) ==
  {Recorded(state.current, f)}
    \cup {v \in Value : /\ state.previous # None /\ state.previous.changes[f] # None
                        /\ v = state.previous.changes[f].after}
    \cup {v \in Value : /\ pending # None /\ pending.changes[f] # None
                        /\ v = pending.changes[f].after}
KeepsUserValues ==
  [][todo' # todo => \A f \in Fields : native'[f] # native[f] => native[f] \in Vouched(f)]_vars

(* The transaction with its journal, crashes and recoveries implements an  *)
(* atomic change of the record and the native fields.                      *)
Atomic == INSTANCE AtomicDeployment WITH
  Theirs <- None,
  native <- [f \in Fields |-> IF f \in authored THEN None ELSE Restored(f)],
  record <- [f \in Fields |-> Recorded(state.current, f)]
ImplementsAtomic == Atomic!AtomicSpec
=============================================================================
