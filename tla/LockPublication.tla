---------------------------- MODULE LockPublication ----------------------------
(***************************************************************************)
(* The lock files of one adapter (package locks and a manifest, part of a  *)
(* repository) and the journalled publication that replaces them one after *)
(* the other: publication.py.  Publishers hold the lease on                *)
(* locks/<adapter> exclusively, readers hold it shared; a user, or git,    *)
(* may change any file at any time and holds nothing.                      *)
(*                                                                         *)
(* A publisher may stop between any two steps, by an exception or a crash; *)
(* a step whose last fsync fails has replaced its file and stops then.     *)
(***************************************************************************)
EXTENDS FiniteSets

CONSTANTS Locks,      \* the lock files but for the manifest, and
          Manifest,   \* the manifest, which every publication writes last
          Contents,   \* what a file may be: content and mode, or absent
          Publishers, \* processes that run lock
          Readers,    \* processes that read the locks
          None        \* no journal

VARIABLES disk,     \* disk[f]: the lock files
          journal,  \* pending.json: the publication under way, or None
          pub,      \* pub[p]: step of publisher p in publisher_lease
          todo,     \* the files its current loop has not replaced yet
          moved,    \* the files changed by others since that loop read them
          edited,   \* the files changed by others since the journal was written
          reading   \* the readers that hold the lease

vars == <<disk, journal, pub, todo, moved, edited, reading>>

Files == Locks \cup {Manifest}
FileSets == {S \in SUBSET Files : Manifest \in S}
Journal == UNION {[before : [S -> Contents], after : [S -> Contents]] : S \in FileSets}
Published == DOMAIN journal.after

ASSUME PublicationAssumption == Manifest \notin Locks /\ None \notin Journal

Init == /\ disk \in [Files -> Contents]
        /\ journal = None
        /\ pub = [p \in Publishers |-> "idle"]
        /\ todo = {} /\ moved = {} /\ edited = {}
        /\ reading = {}

Goto(p, from, to) == pub[p] = from /\ pub' = [pub EXCEPT ![p] = to]

-----------------------------------------------------------------------------
(* The lease; an attempt that fails refuses the command.  A reader refuses *)
(* a pending journal, which only an explicit lock command may recover.     *)
ExclusiveFree == \A p \in Publishers : pub[p] = "idle"
TakeLease(p) == /\ ExclusiveFree /\ reading = {}
                /\ Goto(p, "idle", "recovering")
                /\ UNCHANGED <<disk, journal, todo, moved, edited, reading>>

MayReadFaulty == ExclusiveFree
MayRead == ExclusiveFree /\ journal = None
BeginRead(r) == /\ MayRead /\ reading' = reading \cup {r}
                /\ UNCHANGED <<disk, journal, pub, todo, moved, edited>>
EndRead(r) == /\ r \in reading /\ reading' = reading \ {r}
              /\ UNCHANGED <<disk, journal, pub, todo, moved, edited>>

(* _restore reads all files first: each is what it was before or what it   *)
(* should become, else nothing is touched and the journal stays.           *)
NothingPending(p) == /\ journal = None /\ Goto(p, "recovering", "ready")
                     /\ UNCHANGED <<disk, journal, todo, moved, edited, reading>>

Undrifted == \A f \in Published : disk[f] \in {journal.before[f], journal.after[f]}
StartRestore(p, from, to) ==
  /\ Goto(p, from, to) /\ journal # None /\ Undrifted
  /\ todo' = {f \in Published : disk[f] # journal.before[f]}
  /\ moved' = {}
  /\ UNCHANGED <<disk, journal, edited, reading>>

(* Files are written in the order of their names and the manifest last,    *)
(* and restored in the reverse order; the order of the others is left open.*)
(* replace compares the identity of the file with the one read before.     *)
Restoring(p) == pub[p] \in {"restoring", "undoing"}
RestoreFile(p, f) ==
  /\ Restoring(p) /\ f \in todo \ moved
  /\ f # Manifest => Manifest \notin todo
  /\ disk' = [disk EXCEPT ![f] = journal.before[f]]
  /\ todo' = todo \ {f}
  /\ UNCHANGED <<journal, pub, moved, edited, reading>>

(* After a recovery the command goes on; after an undone publication the   *)
(* exception that caused it ends the command.                              *)
EndRestore(p) ==
  /\ Restoring(p) /\ todo = {}
  /\ journal' = None
  /\ pub' = [pub EXCEPT ![p] = IF @ = "restoring" THEN "ready" ELSE "idle"]
  /\ UNCHANGED <<disk, todo, moved, edited, reading>>

-----------------------------------------------------------------------------
(* publish: the journal records what the files are and will be; then each  *)
(* file is replaced, the result validated, and the journal removed.        *)
StartPublish(p, S, new) ==
  /\ Goto(p, "ready", "writing")
  /\ journal' = [before |-> [f \in S |-> disk[f]], after |-> new]
  /\ todo' = S
  /\ moved' = {} /\ edited' = {}
  /\ UNCHANGED <<disk, reading>>

UnmovedFaulty == todo
Unmoved == todo \ moved
WriteFile(p, f) ==
  /\ pub[p] = "writing" /\ f \in Unmoved
  /\ f = Manifest => todo = {Manifest}
  /\ disk' = [disk EXCEPT ![f] = journal.after[f]]
  /\ todo' = todo \ {f}
  /\ UNCHANGED <<journal, pub, moved, edited, reading>>

Commit(p) == /\ Goto(p, "writing", "ready") /\ todo = {}
             /\ journal' = None
             /\ UNCHANGED <<disk, todo, moved, edited, reading>>

(* Any step may raise.  publish restores at once if it can; whatever else  *)
(* goes wrong, and a crash, ends the command and leaves the files.         *)
Undo(p) == StartRestore(p, "writing", "undoing")
Leave(p) == /\ pub[p] # "idle"
            /\ pub' = [pub EXCEPT ![p] = "idle"]
            /\ todo' = {}
            /\ UNCHANGED <<disk, journal, moved, edited, reading>>

-----------------------------------------------------------------------------
Edit(f) == /\ \E v \in Contents : disk' = [disk EXCEPT ![f] = v]
           /\ moved' = moved \cup {f} /\ edited' = edited \cup {f}
           /\ UNCHANGED <<journal, pub, todo, reading>>

PublisherStep(p) ==
  \/ TakeLease(p) \/ NothingPending(p) \/ StartRestore(p, "recovering", "restoring")
  \/ EndRestore(p) \/ Commit(p) \/ Undo(p) \/ Leave(p)
  \/ \E f \in Files : RestoreFile(p, f) \/ WriteFile(p, f)
  \/ \E S \in FileSets : \E new \in [S -> Contents] : StartPublish(p, S, new)

Next == \/ \E p \in Publishers : PublisherStep(p)
        \/ \E r \in Readers : BeginRead(r) \/ EndRead(r)
        \/ \E f \in Files : Edit(f)

Spec == Init /\ [][Next]_vars

-----------------------------------------------------------------------------
(* The types, and the journal's shape.                                     *)
TypeOK == /\ disk \in [Files -> Contents]
          /\ journal \in Journal \cup {None}
          /\ pub \in [Publishers -> {"idle", "recovering", "restoring", "ready", "writing", "undoing"}]
          /\ todo \subseteq (IF journal = None THEN {} ELSE Published)
          /\ moved \subseteq Files /\ edited \subseteq Files
          /\ reading \subseteq Readers

(* What a user or git put into a file while it is being published survives *)
(* the publication, its failure and every later recovery: a step of a      *)
(* publisher only ever takes back the very content it publishes.           *)
KeepsEdits ==
  [][todo' # todo => \A f \in edited : disk'[f] # disk[f] =>
       f \in Published /\ disk[f] = journal.after[f]]_vars

(* Publishing with its journal, crashes, failures and recoveries           *)
(* implements an atomic replacement of the lock files.  A file that nobody *)
(* else changed counts as what it was until the journal is gone.           *)
LockOf(f) == IF journal # None /\ f \in Published \ edited THEN journal.before[f] ELSE disk[f]
Atomic == INSTANCE AtomicLocks WITH
  locks <- [f \in Files |-> LockOf(f)], order <- journal, Orders <- Journal, NoOrder <- None
ImplementsAtomic == Atomic!AtomicSpec
=============================================================================
