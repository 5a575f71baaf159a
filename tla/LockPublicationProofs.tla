------------------------- MODULE LockPublicationProofs -------------------------
(***************************************************************************)
(* Proofs about LockPublication for any locks, contents, publishers and    *)
(* readers.  The inductive invariant IInv says who may work, which files   *)
(* a publication or a recovery has already replaced, and that a file       *)
(* nobody edited is what it was or what it will be.                        *)
(***************************************************************************)
EXTENDS LockPublication, TLAPS

(* The lease: one publisher works, and then nobody reads; nor does anybody *)
(* while there is a journal.                                               *)
LeaseInv ==
  /\ \A p, q \in Publishers : pub[p] # "idle" /\ pub[q] # "idle" => p = q
  /\ reading # {} => journal = None /\ \A p \in Publishers : pub[p] = "idle"
  /\ \A p \in Publishers :
       /\ pub[p] = "ready" => journal = None
       /\ pub[p] \in {"writing", "restoring", "undoing"} => journal # None

(* What was edited since the loop began was edited since the journal was   *)
(* written, and the loop of a publication began with its journal.          *)
EditInv ==
  journal # None => /\ moved \subseteq edited
                    /\ \A p \in Publishers : pub[p] = "writing" => edited \subseteq moved

(* A file that nobody edited is what it was or what it is to become.       *)
FileInv ==
  journal # None => \A f \in Published \ edited : disk[f] \in {journal.before[f], journal.after[f]}

(* The loops: what is written and not moved is new, what is restored and   *)
(* not moved is old, and what is to be restored is still new.              *)
LoopInv ==
  \A p \in Publishers :
    /\ pub[p] = "writing" => \A f \in Published \ (todo \cup edited) : disk[f] = journal.after[f]
    /\ Restoring(p) => /\ \A f \in Published \ (todo \cup moved) : disk[f] = journal.before[f]
                       /\ \A f \in todo \ moved : disk[f] = journal.after[f]

IInv == TypeOK /\ LeaseInv /\ EditInv /\ FileInv /\ LoopInv

-----------------------------------------------------------------------------
(* A journal replaces the same files with contents for contents.           *)
LEMMA JournalShape ==
  ASSUME journal \in Journal
  PROVE  /\ Published \in FileSets /\ Published \subseteq Files
         /\ journal.before \in [Published -> Contents]
         /\ journal.after \in [Published -> Contents]
         /\ journal # None
  <1>1. PICK S \in FileSets : journal \in [before : [S -> Contents], after : [S -> Contents]]
    BY DEF Journal
  <1>2. Published = S
    BY <1>1 DEF Published
  <1> QED BY <1>1, <1>2, PublicationAssumption DEF FileSets

(* What StartPublish writes is a journal of what is and what will be.      *)
LEMMA NewJournal ==
  ASSUME TypeOK, NEW p \in Publishers, NEW S \in FileSets, NEW new \in [S -> Contents],
         StartPublish(p, S, new)
  PROVE  /\ journal' \in Journal /\ journal' # None
         /\ Published' = S /\ S \subseteq Files
         /\ journal'.after = new
         /\ \A f \in S : journal'.before[f] = disk[f]
  <1>1. [f \in S |-> disk[f]] \in [S -> Contents] /\ S \subseteq Files
    BY DEF FileSets, TypeOK
  <1>2. journal' \in [before : [S -> Contents], after : [S -> Contents]]
    BY <1>1 DEF StartPublish
  <1> QED BY <1>1, <1>2, PublicationAssumption DEF StartPublish, Journal, Published

(* Types are preserved.                                                    *)
LEMMA TypeStep == TypeOK /\ [Next]_vars => TypeOK'
  <1> SUFFICES ASSUME TypeOK, [Next]_vars PROVE TypeOK'
    OBVIOUS
  <1> USE DEF TypeOK
  <1>1. ASSUME NEW p \in Publishers, TakeLease(p) \/ NothingPending(p) \/ Leave(p) PROVE TypeOK'
    BY <1>1 DEF TakeLease, NothingPending, Leave, Goto, Published
  <1>2. ASSUME NEW p \in Publishers,
               StartRestore(p, "recovering", "restoring") \/ Undo(p)
        PROVE  TypeOK'
    BY <1>2 DEF StartRestore, Undo, Goto, Published
  <1>3. ASSUME NEW p \in Publishers, EndRestore(p) \/ Commit(p) PROVE TypeOK'
    BY <1>3 DEF EndRestore, Commit, Goto, Restoring
  <1>4. ASSUME NEW p \in Publishers, NEW f \in Files, RestoreFile(p, f) \/ WriteFile(p, f)
        PROVE  TypeOK'
    <2>1. journal # None /\ f \in Published
      BY <1>4 DEF RestoreFile, WriteFile, Unmoved
    <2>2. journal.before[f] \in Contents /\ journal.after[f] \in Contents
      BY <2>1, JournalShape
    <2> QED BY <1>4, <2>1, <2>2 DEF RestoreFile, WriteFile, Published
  <1>5. ASSUME NEW p \in Publishers, NEW S \in FileSets, NEW new \in [S -> Contents],
               StartPublish(p, S, new)
        PROVE  TypeOK'
    BY <1>5, NewJournal DEF StartPublish, Goto
  <1>6. ASSUME NEW r \in Readers, BeginRead(r) \/ EndRead(r) PROVE TypeOK'
    BY <1>6 DEF BeginRead, EndRead, Published
  <1>7. ASSUME NEW f \in Files, Edit(f) PROVE TypeOK'
    BY <1>7 DEF Edit, Published
  <1>8. CASE UNCHANGED vars
    BY <1>8 DEF vars, Published
  <1> QED BY <1>1, <1>2, <1>3, <1>4, <1>5, <1>6, <1>7, <1>8 DEF Next, PublisherStep

(* Who holds the lease, and who may.                                       *)
LEMMA LeaseStep == IInv /\ [Next]_vars => LeaseInv'
  <1> SUFFICES ASSUME IInv, [Next]_vars PROVE LeaseInv'
    OBVIOUS
  <1> USE DEF IInv, TypeOK, LeaseInv
  <1>1. ASSUME NEW p \in Publishers, TakeLease(p) \/ NothingPending(p) \/ Leave(p) PROVE LeaseInv'
    BY <1>1 DEF TakeLease, NothingPending, Leave, Goto, ExclusiveFree
  <1>2. ASSUME NEW p \in Publishers,
               StartRestore(p, "recovering", "restoring") \/ Undo(p)
        PROVE  LeaseInv'
    BY <1>2 DEF StartRestore, Undo, Goto
  <1>3. ASSUME NEW p \in Publishers, EndRestore(p) \/ Commit(p) PROVE LeaseInv'
    BY <1>3 DEF EndRestore, Commit, Goto, Restoring
  <1>4. ASSUME NEW p \in Publishers, NEW f \in Files, RestoreFile(p, f) \/ WriteFile(p, f)
        PROVE  LeaseInv'
    BY <1>4 DEF RestoreFile, WriteFile
  <1>5. ASSUME NEW p \in Publishers, NEW S \in FileSets, NEW new \in [S -> Contents],
               StartPublish(p, S, new)
        PROVE  LeaseInv'
    <2>1. journal' # None
      BY <1>5, NewJournal
    <2> QED BY <1>5, <2>1 DEF StartPublish, Goto
  <1>6. ASSUME NEW r \in Readers, BeginRead(r) \/ EndRead(r) PROVE LeaseInv'
    BY <1>6 DEF BeginRead, EndRead, MayRead, ExclusiveFree
  <1>7. ASSUME NEW f \in Files, Edit(f) PROVE LeaseInv'
    BY <1>7 DEF Edit
  <1>8. CASE UNCHANGED vars
    BY <1>8 DEF vars
  <1> QED BY <1>1, <1>2, <1>3, <1>4, <1>5, <1>6, <1>7, <1>8 DEF Next, PublisherStep

(* Edits are counted since the journal, and since the loop.                *)
LEMMA EditStep == IInv /\ [Next]_vars => EditInv'
  <1> SUFFICES ASSUME IInv, [Next]_vars PROVE EditInv'
    OBVIOUS
  <1> USE DEF IInv, TypeOK, EditInv
  <1>1. ASSUME NEW p \in Publishers, TakeLease(p) \/ NothingPending(p) \/ Leave(p) PROVE EditInv'
    BY <1>1 DEF TakeLease, NothingPending, Leave, Goto
  <1>2. ASSUME NEW p \in Publishers,
               StartRestore(p, "recovering", "restoring") \/ Undo(p)
        PROVE  EditInv'
    <2>1. \A q \in Publishers : pub'[q] # "writing"
      BY <1>2 DEF StartRestore, Undo, Goto, LeaseInv
    <2> QED BY <1>2, <2>1 DEF StartRestore, Undo
  <1>3. ASSUME NEW p \in Publishers, EndRestore(p) \/ Commit(p) PROVE EditInv'
    BY <1>3 DEF EndRestore, Commit
  <1>4. ASSUME NEW p \in Publishers, NEW f \in Files, RestoreFile(p, f) \/ WriteFile(p, f)
        PROVE  EditInv'
    BY <1>4 DEF RestoreFile, WriteFile
  <1>5. ASSUME NEW p \in Publishers, NEW S \in FileSets, NEW new \in [S -> Contents],
               StartPublish(p, S, new)
        PROVE  EditInv'
    BY <1>5 DEF StartPublish
  <1>6. ASSUME NEW r \in Readers, BeginRead(r) \/ EndRead(r) PROVE EditInv'
    BY <1>6 DEF BeginRead, EndRead
  <1>7. ASSUME NEW f \in Files, Edit(f) PROVE EditInv'
    BY <1>7 DEF Edit
  <1>8. CASE UNCHANGED vars
    BY <1>8 DEF vars
  <1> QED BY <1>1, <1>2, <1>3, <1>4, <1>5, <1>6, <1>7, <1>8 DEF Next, PublisherStep

(* A working publisher is alone, and what its loop knows is true.          *)
LEMMA FileStep ==
  ASSUME IInv, NEW p \in Publishers, NEW f \in Files, RestoreFile(p, f) \/ WriteFile(p, f)
  PROVE  /\ journal # None /\ journal \in Journal
         /\ f \in Published /\ f \in todo \ moved
         /\ RestoreFile(p, f) => disk[f] = journal.after[f]
         /\ WriteFile(p, f) => f \notin edited
         /\ \A q \in Publishers : pub[q] # "idle" => q = p
  BY DEF RestoreFile, WriteFile, Unmoved, Restoring, IInv, TypeOK, LoopInv, EditInv, LeaseInv

(* A file is old or new until somebody edits it.                           *)
LEMMA FileInvStep == IInv /\ [Next]_vars => FileInv'
  <1> SUFFICES ASSUME IInv, [Next]_vars PROVE FileInv'
    OBVIOUS
  <1> USE DEF IInv, FileInv
  <1>1. ASSUME NEW p \in Publishers, TakeLease(p) \/ NothingPending(p) \/ Leave(p) PROVE FileInv'
    BY <1>1 DEF TakeLease, NothingPending, Leave, Goto, Published
  <1>2. ASSUME NEW p \in Publishers,
               StartRestore(p, "recovering", "restoring") \/ Undo(p)
        PROVE  FileInv'
    BY <1>2 DEF StartRestore, Undo, Goto, Published
  <1>3. ASSUME NEW p \in Publishers, EndRestore(p) \/ Commit(p) PROVE FileInv'
    BY <1>3 DEF EndRestore, Commit
  <1>4. ASSUME NEW p \in Publishers, NEW f \in Files, RestoreFile(p, f) \/ WriteFile(p, f)
        PROVE  FileInv'
    <2>1. UNCHANGED <<journal, edited, Published>>
      BY <1>4 DEF RestoreFile, WriteFile, Published
    <2>2. disk' = [disk EXCEPT ![f] = journal.before[f]] \/ disk' = [disk EXCEPT ![f] = journal.after[f]]
      BY <1>4 DEF RestoreFile, WriteFile
    <2>3. Published \subseteq Files /\ disk \in [Files -> Contents]
      BY <1>4, FileStep, JournalShape DEF TypeOK
    <2> QED BY <2>1, <2>2, <2>3
  <1>5. ASSUME NEW p \in Publishers, NEW S \in FileSets, NEW new \in [S -> Contents],
               StartPublish(p, S, new)
        PROVE  FileInv'
    <2>1. \A f \in Published' : disk'[f] = journal'.before[f]
      BY <1>5, NewJournal DEF StartPublish
    <2> QED BY <2>1
  <1>6. ASSUME NEW r \in Readers, BeginRead(r) \/ EndRead(r) PROVE FileInv'
    BY <1>6 DEF BeginRead, EndRead, Published
  <1>7. ASSUME NEW f \in Files, Edit(f) PROVE FileInv'
    <2>1. UNCHANGED <<journal, Published>> /\ edited' = edited \cup {f}
      BY <1>7 DEF Edit, Published
    <2>2. \A g \in Files \ {f} : disk'[g] = disk[g]
      BY <1>7 DEF Edit, TypeOK
    <2>3. journal # None => Published \subseteq Files
      BY JournalShape DEF TypeOK
    <2> QED BY <2>1, <2>2, <2>3
  <1>8. CASE UNCHANGED vars
    BY <1>8 DEF vars, Published
  <1> QED BY <1>1, <1>2, <1>3, <1>4, <1>5, <1>6, <1>7, <1>8 DEF Next, PublisherStep

(* What a loop has done and has to do.                                     *)
LEMMA LoopStep == IInv /\ [Next]_vars => LoopInv'
  <1> SUFFICES ASSUME IInv, [Next]_vars PROVE LoopInv'
    OBVIOUS
  <1>1. ASSUME NEW p \in Publishers, TakeLease(p) \/ NothingPending(p) \/ Leave(p) PROVE LoopInv'
    BY <1>1 DEF TakeLease, NothingPending, Leave, Goto, Published, Restoring, IInv, TypeOK, LoopInv,
       LeaseInv, ExclusiveFree
  <1>2. ASSUME NEW p \in Publishers,
               StartRestore(p, "recovering", "restoring") \/ Undo(p)
        PROVE  LoopInv'
    <2>1. \A q \in Publishers \ {p} : pub'[q] = "idle"
      BY <1>2 DEF StartRestore, Undo, Goto, IInv, TypeOK, LeaseInv
    <2>2. pub'[p] \in {"restoring", "undoing"}
      BY <1>2 DEF StartRestore, Undo, Goto, IInv, TypeOK
    <2>3. /\ UNCHANGED <<disk, journal, Published>> /\ Undrifted
          /\ todo' = {f \in Published : disk[f] # journal.before[f]}
      BY <1>2 DEF StartRestore, Undo, Published
    <2> QED BY <2>1, <2>2, <2>3 DEF LoopInv, Restoring, Undrifted
  <1>3. ASSUME NEW p \in Publishers, EndRestore(p) \/ Commit(p) PROVE LoopInv'
    <2>1. \A q \in Publishers : pub'[q] \in {"idle", "ready"}
      BY <1>3 DEF EndRestore, Commit, Goto, Restoring, IInv, TypeOK, LeaseInv
    <2> QED BY <2>1 DEF LoopInv, Restoring
  <1>4. ASSUME NEW p \in Publishers, NEW f \in Files, RestoreFile(p, f) PROVE LoopInv'
    <2>1. /\ UNCHANGED <<journal, Published, pub, moved, edited>>
          /\ disk' = [disk EXCEPT ![f] = journal.before[f]] /\ todo' = todo \ {f}
      BY <1>4 DEF RestoreFile, Published
    <2>2. Published \subseteq Files /\ disk \in [Files -> Contents]
      BY <1>4, FileStep, JournalShape DEF IInv, TypeOK
    <2>3. \A q \in Publishers : q = p \/ pub[q] = "idle"
      BY <1>4, FileStep
    <2>4. pub[p] # "writing"
      BY <1>4 DEF RestoreFile, Restoring
    <2>5. todo \subseteq Published
      BY <1>4, FileStep DEF IInv, TypeOK
    <2> QED BY <2>1, <2>2, <2>3, <2>4, <2>5 DEF IInv, LoopInv, Restoring
  <1>5. ASSUME NEW p \in Publishers, NEW f \in Files, WriteFile(p, f) PROVE LoopInv'
    <2>1. /\ UNCHANGED <<journal, Published, pub, moved, edited>>
          /\ disk' = [disk EXCEPT ![f] = journal.after[f]] /\ todo' = todo \ {f}
      BY <1>5 DEF WriteFile, Published
    <2>2. Published \subseteq Files /\ disk \in [Files -> Contents]
      BY <1>5, FileStep, JournalShape DEF IInv, TypeOK
    <2>3. \A q \in Publishers : q = p \/ pub[q] = "idle"
      BY <1>5, FileStep
    <2>4. pub[p] = "writing"
      BY <1>5 DEF WriteFile
    <2> QED BY <2>1, <2>2, <2>3, <2>4 DEF IInv, LoopInv, Restoring
  <1>6. ASSUME NEW p \in Publishers, NEW S \in FileSets, NEW new \in [S -> Contents],
               StartPublish(p, S, new)
        PROVE  LoopInv'
    <2>1. \A q \in Publishers \ {p} : pub'[q] = "idle"
      BY <1>6 DEF StartPublish, Goto, IInv, TypeOK, LeaseInv
    <2>2. pub'[p] = "writing" /\ todo' = S /\ Published' = S
      BY <1>6, NewJournal DEF StartPublish, Goto, IInv, TypeOK
    <2> QED BY <2>1, <2>2 DEF LoopInv, Restoring
  <1>7. ASSUME NEW r \in Readers, BeginRead(r) \/ EndRead(r) PROVE LoopInv'
    BY <1>7 DEF BeginRead, EndRead, Published, IInv, LoopInv, Restoring
  <1>8. ASSUME NEW f \in Files, Edit(f) PROVE LoopInv'
    <2>1. /\ UNCHANGED <<journal, Published, pub, todo>>
          /\ edited' = edited \cup {f} /\ moved' = moved \cup {f}
      BY <1>8 DEF Edit, Published
    <2>2. \A g \in Files \ {f} : disk'[g] = disk[g]
      BY <1>8 DEF Edit, IInv, TypeOK
    <2>3. journal # None => Published \subseteq Files /\ todo \subseteq Files
      BY JournalShape DEF IInv, TypeOK
    <2>4. \A p \in Publishers : pub[p] = "writing" \/ Restoring(p) => journal # None
      BY DEF IInv, LeaseInv, Restoring
    <2> QED BY <2>1, <2>2, <2>3, <2>4 DEF IInv, LoopInv, Restoring
  <1>9. CASE UNCHANGED vars
    BY <1>9 DEF vars, Published, IInv, LoopInv, Restoring
  <1> QED BY <1>1, <1>2, <1>3, <1>4, <1>5, <1>6, <1>7, <1>8, <1>9 DEF Next, PublisherStep

-----------------------------------------------------------------------------
(* The inductive invariant, for any locks, contents, publishers, readers.  *)
THEOREM InductiveInvariant == Spec => []IInv
  <1>1. Init => IInv
    BY DEF Init, IInv, TypeOK, LeaseInv, EditInv, FileInv, LoopInv, Restoring
  <1>2. IInv /\ [Next]_vars => IInv'
    BY TypeStep, LeaseStep, EditStep, FileInvStep, LoopStep DEF IInv
  <1> QED BY <1>1, <1>2, PTL DEF Spec

(* The variables have their types, and a loop works on journalled files.   *)
THEOREM TypeCorrect == Spec => []TypeOK
  BY InductiveInvariant, PTL DEF IInv

(* Edits made during a publication survive it and every later recovery,    *)
(* but for an edit that wrote the very content that was being published.   *)
THEOREM EditsSurvive == Spec => KeepsEdits
  <1>1. IInv /\ [Next]_vars =>
          [todo' # todo => \A f \in edited : disk'[f] # disk[f] =>
             f \in Published /\ disk[f] = journal.after[f]]_vars
    <2> SUFFICES ASSUME IInv, Next, todo' # todo, NEW f \in edited, disk'[f] # disk[f]
                 PROVE  f \in Published /\ disk[f] = journal.after[f]
      BY DEF vars
    <2>1. PICK p \in Publishers, g \in Files : RestoreFile(p, g) \/ WriteFile(p, g)
      BY DEF Next, PublisherStep, TakeLease, NothingPending, StartRestore, EndRestore, Commit, Undo,
         Leave, StartPublish, BeginRead, EndRead, Edit
    <2>2. f = g
      BY <2>1 DEF RestoreFile, WriteFile, IInv, TypeOK
    <2> QED BY <2>1, <2>2, FileStep
  <1> QED BY <1>1, InductiveInvariant, PTL DEF Spec, KeepsEdits

-----------------------------------------------------------------------------
(* The lock files as AtomicLocks sees them.                                *)
LockMap == [f \in Files |-> LockOf(f)]

(* Without a journal they are the files.                                   *)
LEMMA PlainLocks == ASSUME TypeOK, journal = None PROVE LockMap = disk
  BY DEF LockMap, LockOf, TypeOK

(* Steps that leave the files and the journal alone are not seen.          *)
LEMMA LocksKept ==
  ASSUME UNCHANGED <<disk, journal, edited>>
  PROVE  LockMap' = LockMap
  BY DEF LockMap, LockOf, Published

(* The end of a publication and of a recovery, and one file of a recovery. *)
LEMMA CommitSwitches == ASSUME IInv, NEW p \in Publishers, Commit(p) PROVE Atomic!Switch
  <1>1. journal # None /\ journal' = None /\ UNCHANGED <<disk, edited, reading>> /\ todo = {}
    BY DEF Commit, Goto, IInv, LeaseInv
  <1>2. \A f \in Published \ edited : disk[f] = journal.after[f]
    BY <1>1 DEF Commit, Goto, IInv, LoopInv
  <1>3. LockMap' = [f \in Files |-> IF f \in Published \ edited THEN journal.after[f] ELSE LockMap[f]]
    BY <1>1, <1>2 DEF LockMap, LockOf
  <1> QED BY <1>1, <1>3 DEF Atomic!Switch, LockMap, Published

(* The end of a restoration withdraws the publication.                     *)
LEMMA EndRestoreCancels == ASSUME IInv, NEW p \in Publishers, EndRestore(p) PROVE Atomic!Cancel
  <1>1. /\ journal # None /\ journal' = None /\ UNCHANGED <<disk, edited, reading>>
        /\ todo = {} /\ Restoring(p)
    BY DEF EndRestore, Restoring, IInv, LeaseInv
  <1>2. \A f \in Published \ edited : disk[f] = journal.before[f]
    BY <1>1 DEF IInv, LoopInv, EditInv
  <1>3. LockMap' = LockMap
    BY <1>1, <1>2 DEF LockMap, LockOf
  <1> QED BY <1>1, <1>3 DEF Atomic!Cancel, LockMap

(* A restored lock is taken back, unless somebody edited it meanwhile.     *)
LEMMA RestoreTakesBack ==
  ASSUME IInv, NEW p \in Publishers, NEW f \in Files, RestoreFile(p, f)
  PROVE  Atomic!TakeBack(f) \/ UNCHANGED Atomic!atomicVars
  <1>1. /\ journal # None /\ UNCHANGED <<journal, Published, edited, reading>>
        /\ disk' = [disk EXCEPT ![f] = journal.before[f]] /\ disk \in [Files -> Contents]
        /\ f \in Published /\ disk[f] = journal.after[f]
    BY FileStep DEF RestoreFile, Published, IInv, TypeOK
  <1>2. CASE f \in edited
    <2>1. LockMap' = [LockMap EXCEPT ![f] = journal.before[f]] /\ LockMap[f] = journal.after[f]
      BY <1>1, <1>2 DEF LockMap, LockOf
    <2> QED BY <1>1, <2>1 DEF Atomic!TakeBack, LockMap, Published
  <1>3. CASE f \notin edited
    <2>1. LockMap' = LockMap
      BY <1>1, <1>3 DEF LockMap, LockOf
    <2> QED BY <1>1, <2>1 DEF Atomic!atomicVars, LockMap
  <1> QED BY <1>2, <1>3

(* A publication opens with the files as they are; a write shows nothing.  *)
LEMMA PublishOpens ==
  ASSUME IInv, NEW p \in Publishers, NEW S \in FileSets, NEW new \in [S -> Contents],
         StartPublish(p, S, new)
  PROVE  journal' \in Journal /\ Atomic!Open(journal')
  <1>1. /\ journal = None /\ reading = {} /\ edited' = {} /\ UNCHANGED <<disk, reading>>
        /\ TypeOK
    BY DEF StartPublish, Goto, IInv, LeaseInv
  <1>2. /\ journal' \in Journal /\ S \subseteq Files /\ Published' = S
        /\ \A f \in S : journal'.before[f] = disk[f]
    BY <1>1, NewJournal
  <1>3. LockMap = disk
    BY <1>1, PlainLocks
  <1>4. LockMap' = disk
    BY <1>1, <1>2 DEF LockMap, LockOf, TypeOK
  <1>5. DOMAIN journal'.before = S
    BY DEF StartPublish
  <1> QED BY <1>1, <1>2, <1>3, <1>4, <1>5 DEF Atomic!Open, LockMap

(* The writing of a file is not seen: the journal already says it.         *)
LEMMA WriteHidden ==
  ASSUME IInv, NEW p \in Publishers, NEW f \in Files, WriteFile(p, f)
  PROVE  UNCHANGED Atomic!atomicVars
  <1>1. /\ UNCHANGED <<journal, Published, edited, reading>> /\ journal # None
        /\ disk' = [disk EXCEPT ![f] = journal.after[f]] /\ disk \in [Files -> Contents]
        /\ f \in Published \ edited
    BY FileStep DEF WriteFile, Published, IInv, TypeOK
  <1>2. LockMap' = LockMap
    BY <1>1 DEF LockMap, LockOf
  <1> QED BY <1>1, <1>2 DEF Atomic!atomicVars, LockMap

(* An edit is the user's at once.                                          *)
LEMMA EditShows == ASSUME IInv, NEW f \in Files, Edit(f) PROVE Atomic!Edit(f)
  <1>1. PICK v \in Contents : disk' = [disk EXCEPT ![f] = v]
    BY DEF Edit
  <1>2. UNCHANGED <<journal, Published, reading>> /\ edited' = edited \cup {f} /\ disk \in [Files -> Contents]
    BY DEF Edit, Published, IInv, TypeOK
  <1>3. LockMap' = [LockMap EXCEPT ![f] = v]
    BY <1>1, <1>2 DEF LockMap, LockOf
  <1> QED BY <1>2, <1>3 DEF Atomic!Edit, LockMap

(* The journalled publication implements the atomic one.                   *)
THEOREM Refinement == Spec => ImplementsAtomic
  <1>1. Init => Atomic!AtomicInit
    BY DEF Init, Atomic!AtomicInit, LockOf
  <1>2. IInv /\ [Next]_vars => [Atomic!AtomicNext]_Atomic!atomicVars
    <2> SUFFICES ASSUME IInv, [Next]_vars PROVE [Atomic!AtomicNext]_Atomic!atomicVars
      OBVIOUS
    <2>1. ASSUME UNCHANGED <<disk, journal, edited, reading>>
          PROVE  UNCHANGED Atomic!atomicVars
      BY <2>1, LocksKept DEF Atomic!atomicVars, LockMap
    <2>2. ASSUME NEW p \in Publishers,
                 \/ TakeLease(p) \/ NothingPending(p) \/ Undo(p) \/ Leave(p)
                 \/ StartRestore(p, "recovering", "restoring")
          PROVE  UNCHANGED Atomic!atomicVars
      BY <2>1, <2>2 DEF TakeLease, NothingPending, Undo, Leave, StartRestore
    <2>3. ASSUME NEW r \in Readers, BeginRead(r) \/ EndRead(r)
          PROVE  Atomic!BeginRead(r) \/ Atomic!EndRead(r)
      BY <2>3, LocksKept DEF BeginRead, EndRead, MayRead, Atomic!BeginRead, Atomic!EndRead, LockMap
    <2>4. CASE UNCHANGED vars
      BY <2>1, <2>4 DEF vars
    <2> QED
      BY <2>2, <2>3, <2>4, CommitSwitches, EndRestoreCancels, RestoreTakesBack, PublishOpens, WriteHidden,
         EditShows DEF Next, PublisherStep, Atomic!AtomicNext
  <1> QED BY InductiveInvariant, <1>1, <1>2, PTL DEF Spec, ImplementsAtomic, Atomic!AtomicSpec
=============================================================================
