------------------------- MODULE OmpCoordinationProofs -------------------------
(***************************************************************************)
(* Proofs about OmpCoordination for any runs, instances, packages and      *)
(* batches.  The inductive invariant IInv relates the place of a manager   *)
(* to its leases, its reservation and its owner record.                    *)
(***************************************************************************)
EXTENDS OmpCoordination, TLAPS

(* From the check of the launch on, a manager holds both of its leases,    *)
(* and no lease is both shared and exclusive.                              *)
Waiting == {"new", "reserved", "instance", "cancel", "gone"}
LeaseInv ==
  \A r \in Runs : /\ holds[r] \cap exclusive = {}
                  /\ step[r] = "instance" => holds[r] = {ScopeOf[r]}
                  /\ step[r] \notin Waiting => holds[r] = Needs(r)

(* The reservation and the owner record follow the place of the manager,   *)
(* and nothing is started before both are there.                           *)
StepInv ==
  \A r \in Runs :
    /\ step[r] = "new" => phase[r] = "none"
    /\ step[r] \in {"reserved", "instance", "package", "attach", "cancel"} => phase[r] = "reserved"
    /\ step[r] \in {"new", "reserved", "instance", "package", "attach", "cancel", "publish"}
         => record[r] = None /\ proc[r] = "unborn"
    /\ step[r] = "publish" => phase[r] = "owner_pending"
    /\ step[r] = "owned" => phase[r] = "owner_attached" /\ proc[r] = "unborn"
    /\ step[r] = "running" => phase[r] = "dispatched"
    /\ step[r] \in {"binding", "closing", "marking"} => phase[r] \in {"dispatched", "owner_pending"}
    /\ step[r] \in {"owned", "running", "binding", "closing", "marking"}
         => record[r] # None /\ record[r].state = "active"
    /\ step[r] \in {"finishing", "releasing"} => proc[r] # "alive"
    /\ step[r] = "unknown" => phase[r] = "unknown"
    /\ link[r] # None /\ phase[r] # "unknown" => link[r].state = "active"

(* What lives is reserved and recorded.                                    *)
AliveInv ==
  \A r \in Runs : proc[r] = "alive" =>
    /\ phase[r] \in {"dispatched", "owner_pending", "unknown"}
    /\ record[r] # None /\ record[r].state \in {"active", "unknown"}

IInv == TypeOK /\ LeaseInv /\ StepInv /\ AliveInv /\ WriterAlone /\ FenceHolds

-----------------------------------------------------------------------------
(* What the steps of each kind leave alone.                                *)
DomainStep(r) ==
  \/ Reserve(r) \/ Cancel(r) \/ AttachPending(r) \/ AttachOwner(r) \/ DispatchOwner(r)
  \/ BindPending(r) \/ BindHost(r) \/ FinishOwner(r) \/ ReleaseOwner(r) \/ MarkUnknown(r) \/ OwnerUnknown(r)
LocalStep(r) ==
  \/ TakeInstance(r) \/ TakePackage(r) \/ CheckLaunch(r) \/ Fail(r) \/ Spawn(r) \/ Exit(r)
  \/ Observe(r) \/ Crash(r)

(* A step of a run is of one kind or the other.                            *)
LEMMA RunStepKinds == ASSUME NEW r \in Runs, RunStep(r) PROVE DomainStep(r) \/ LocalStep(r)
  BY DEF RunStep, DomainStep, LocalStep

(* A step of a run changes that run alone and neither writes nor intents.  *)
LEMMA RunEffect ==
  ASSUME TypeOK, NEW r \in Runs, DomainStep(r) \/ LocalStep(r)
  PROVE  /\ UNCHANGED <<writeVars, intents>>
         /\ reviewed' = reviewed \/ reviewed' = Outdated
         /\ \A q \in Runs \ {r} : UNCHANGED <<phase[q], link[q], record[q], step[q], holds[q], proc[q]>>
  <1> USE DEF TypeOK, Goto, domainVars, writeVars
  <1>1. CASE LocalStep(r)
    BY <1>1 DEF LocalStep, TakeInstance, TakePackage, CheckLaunch, Fail, Spawn, Exit, Observe, Crash, Dropped
  <1>2. CASE Reserve(r) \/ Cancel(r) \/ AttachPending(r) \/ BindPending(r) \/ FinishOwner(r) \/ MarkUnknown(r)
    BY <1>2 DEF Reserve, Cancel, AttachPending, BindPending, FinishOwner, MarkUnknown
  <1>3. CASE AttachOwner(r) \/ DispatchOwner(r)
    BY <1>3 DEF AttachOwner, DispatchOwner, WriteRecord, KeepsLeases, Dropped
  <1>4. CASE BindHost(r) \/ ReleaseOwner(r) \/ OwnerUnknown(r)
    BY <1>4 DEF BindHost, ReleaseOwner, OwnerUnknown, WriteRecord, Dropped
  <1> QED BY <1>1, <1>2, <1>3, <1>4 DEF DomainStep

(* Only a transaction of the domain changes a reservation or a record.     *)
LEMMA LocalEffect ==
  ASSUME NEW r \in Runs, LocalStep(r)
  PROVE  UNCHANGED <<phase, link, record>>
  BY DEF LocalStep, TakeInstance, TakePackage, CheckLaunch, Fail, Spawn, Exit, Observe, Crash, domainVars

(* Operators change no run, and either writes or intents.                  *)
OtherStep ==
  \/ \E R \in SUBSET Resources : TakeExclusive(R) \/ DropExclusive(R)
  \/ \E x \in Resources : \E b \in Batches \cup {None} : BeginWrite(x, b)
  \/ Bookkeeping
  \/ \E b \in Batches : IntentStep(b)

(* None of these steps is a step of a run.                                 *)
LEMMA OperatorEffect ==
  ASSUME OtherStep
  PROVE  UNCHANGED <<phase, link, record, runVars>>
  BY DEF OtherStep, TakeExclusive, DropExclusive, BeginWrite, Bookkeeping, IntentStep, Review, Accept,
     DispatchIntent, CancelIntent, IntentUnknown, Complete, Transition, domainVars

(* Next is the steps of the runs and of the operators.                     *)
LEMMA NextKinds ==
  Next => (\E r \in Runs : DomainStep(r) \/ LocalStep(r)) \/ OtherStep
  BY RunStepKinds DEF Next, OtherStep

-----------------------------------------------------------------------------
(* Types.                                                                  *)

(* Owner records, and what becomes of them.                                *)
LEMMA OwnerTypes ==
  /\ New \in Owners
  /\ \A o \in Owners : /\ [o EXCEPT !.host = TRUE] \in Owners
                       /\ [o EXCEPT !.state = "idle_confirmed"] \in Owners
                       /\ [o EXCEPT !.state = "unknown"] \in Owners
  BY DEF Owners, New

(* What a reservation step makes of its run is of the right type.          *)
LEMMA DomainTypes ==
  ASSUME TypeOK, NEW r \in Runs, DomainStep(r)
  PROVE  /\ phase' \in [Runs -> Phases]
         /\ link' \in [Runs -> Owners \cup {None}] /\ record' \in [Runs -> Owners \cup {None}]
         /\ proc' = proc
         /\ holds' \in [Runs -> SUBSET Resources] /\ \A q \in Runs : holds'[q] \subseteq holds[q]
         /\ step' \in [Runs -> {"new", "reserved", "instance", "package", "cancel", "attach", "publish", "owned",
              "running", "binding", "closing", "finishing", "releasing", "marking", "unknown", "gone"}]
         /\ \A q \in Runs : link'[q] = None <=> phase'[q] \in {"none", "reserved", "cancelled"}
         /\ \A q \in Runs : record'[q] # None => link'[q] # None
  <1> USE OwnerTypes DEF TypeOK, Goto, domainVars, Phases
  <1>1. CASE Reserve(r) \/ Cancel(r)
    BY <1>1 DEF Reserve, Cancel
  <1>2. CASE AttachPending(r)
    <2>1. link' = [link EXCEPT ![r] = New] /\ New \in Owners /\ New # None
      BY <1>2, CoordinationAssumption DEF AttachPending
    <2> QED BY <1>2, <2>1 DEF AttachPending
  <1>3. CASE BindPending(r)
    <2>1. link[r] \in Owners
      BY <1>3 DEF BindPending, Linked
    <2>0. [link[r] EXCEPT !.host = TRUE] \in Owners /\ [link[r] EXCEPT !.host = TRUE] # None
      BY <2>1, CoordinationAssumption
    <2>2. link' = [link EXCEPT ![r] = [link[r] EXCEPT !.host = TRUE]]
      BY <1>3 DEF BindPending
    <2>3. link' \in [Runs -> Owners \cup {None}]
      BY <2>1, <2>2
    <2> QED BY <1>3, <2>0, <2>1, <2>2, <2>3 DEF BindPending, Linked
  <1>4. CASE FinishOwner(r) \/ MarkUnknown(r)
    BY <1>4 DEF FinishOwner, MarkUnknown, Linked
  <1>5. CASE AttachOwner(r)
    BY <1>5 DEF AttachOwner, WriteRecord, KeepsLeases, Dropped
  <1>6. CASE DispatchOwner(r)
    BY <1>6 DEF DispatchOwner, KeepsLeases, Dropped
  <1>7. CASE BindHost(r)
    BY <1>7 DEF BindHost, WriteRecord
  <1>8. CASE ReleaseOwner(r)
    <2> DEFINE new == [record[r] EXCEPT !.state = "idle_confirmed"]
    <2>1. record[r] \in Owners /\ link[r] = record[r]
      BY <1>8 DEF ReleaseOwner, Linked
    <2>2. new \in Owners /\ new # None
      BY <2>1, CoordinationAssumption
    <2>3. record' = [record EXCEPT ![r] = new] /\ record' \in [Runs -> Owners \cup {None}]
      BY <1>8, <2>2 DEF ReleaseOwner, WriteRecord
    <2> QED BY <1>8, <2>1, <2>2, <2>3 DEF ReleaseOwner, WriteRecord, Dropped
  <1>9. CASE OwnerUnknown(r)
    <2> DEFINE new == [record[r] EXCEPT !.state = "unknown"]
    <2>1. record[r] \in Owners /\ link[r] = record[r]
      BY <1>9 DEF OwnerUnknown, Linked
    <2>2. new \in Owners /\ new # None
      BY <2>1, CoordinationAssumption
    <2>3. record' = [record EXCEPT ![r] = new] /\ record' \in [Runs -> Owners \cup {None}]
      BY <1>9, <2>2 DEF OwnerUnknown, WriteRecord
    <2>4. link' = link \/ link' = [link EXCEPT ![r] = new]
      BY <1>9 DEF OwnerUnknown, WriteRecord
    <2> HIDE DEF new
    <2>5. link' \in [Runs -> Owners \cup {None}] /\ \A q \in Runs : link'[q] = None <=> link[q] = None
      BY <2>1, <2>2, <2>4, CoordinationAssumption
    <2>6. UNCHANGED phase \/ phase' = [phase EXCEPT ![r] = "unknown"]
      BY <1>9 DEF OwnerUnknown, WriteRecord
    <2>7. phase[r] = "unknown" /\ record[r] # None
      BY <1>9 DEF OwnerUnknown, Linked
    <2>8. UNCHANGED phase
      BY <2>6, <2>7
    <2>9. \A q \in Runs : record'[q] # None => link'[q] # None
      BY <2>1, <2>2, <2>3, <2>5, <2>7
    <2>10. /\ proc' = proc /\ holds' \in {holds, [holds EXCEPT ![r] = {}]}
           /\ step' = [step EXCEPT ![r] = "gone"]
      BY <1>9 DEF OwnerUnknown, WriteRecord, Dropped
    <2>11. holds' \in [Runs -> SUBSET Resources] /\ \A q \in Runs : holds'[q] \subseteq holds[q]
      BY <2>10
    <2> QED BY <2>3, <2>5, <2>8, <2>9, <2>10, <2>11
  <1> QED BY <1>1, <1>2, <1>3, <1>4, <1>5, <1>6, <1>7, <1>8, <1>9 DEF DomainStep

(* The empty selections.                                                   *)
LEMMA OutdatedType == Outdated \in [Batches -> Selection \cup {None}]
  BY DEF Outdated

(* Every step preserves the types.                                         *)
LEMMA TypeStep == TypeOK /\ [Next]_vars => TypeOK'
  <1> SUFFICES ASSUME TypeOK, [Next]_vars PROVE TypeOK'
    OBVIOUS
  <1>1. ASSUME NEW r \in Runs, DomainStep(r) PROVE TypeOK'
    <2>1. UNCHANGED <<writeVars, intents>> /\ (reviewed' = reviewed \/ reviewed' = Outdated)
      BY <1>1, RunEffect
    <2>2. \A q \in Runs : holds'[q] \subseteq Needs(q)
      BY <1>1, DomainTypes DEF TypeOK
    <2> QED BY <1>1, <2>1, <2>2, DomainTypes, OutdatedType DEF TypeOK, writeVars
  <1>2. ASSUME NEW r \in Runs, LocalStep(r) PROVE TypeOK'
    <2>1. Needs(r) \subseteq Resources /\ ScopeOf[r] \in Needs(r)
      BY CoordinationAssumption DEF Needs, Resources
    <2>2. CASE TakeInstance(r) \/ TakePackage(r) \/ CheckLaunch(r) \/ Observe(r)
      BY <2>1, <2>2 DEF TakeInstance, TakePackage, CheckLaunch, Observe, TypeOK, Goto, domainVars, writeVars
    <2>3. CASE Fail(r) \/ Spawn(r) \/ Exit(r) \/ Crash(r)
      BY <2>3 DEF Fail, Spawn, Exit, Crash, Dropped, TypeOK, domainVars, writeVars
    <2> QED BY <1>2, <2>2, <2>3 DEF LocalStep
  <1>3. CASE OtherStep
    <2> USE DEF TypeOK, domainVars, runVars, writeVars
    <2>1. ASSUME NEW R \in SUBSET Resources, TakeExclusive(R) \/ DropExclusive(R) PROVE TypeOK'
      BY <2>1 DEF TakeExclusive, DropExclusive
    <2>2. ASSUME NEW x \in Resources, NEW b \in Batches \cup {None}, BeginWrite(x, b) PROVE TypeOK'
      BY <2>2 DEF BeginWrite
    <2>3. CASE Bookkeeping
      BY <2>3, OutdatedType DEF Bookkeeping
    <2>4. ASSUME NEW b \in Batches, NEW sel \in Selection, Review(b, sel) PROVE TypeOK'
      BY <2>4 DEF Review
    <2>5. ASSUME NEW b \in Batches, Accept(b) PROVE TypeOK'
      BY <2>5, OutdatedType DEF Accept, Selection, Intents
    <2>6. ASSUME NEW b \in Batches,
                 DispatchIntent(b) \/ CancelIntent(b) \/ IntentUnknown(b) \/ Complete(b)
          PROVE  TypeOK'
      <3>1. PICK from \in SUBSET {"active", "dispatched", "unknown"},
                 to \in {"dispatched", "cancelled", "unknown", "completed"} : Transition(b, from, to)
        BY <2>6 DEF DispatchIntent, CancelIntent, IntentUnknown, Complete
      <3>2. intents[b] \in Intents /\ intents' = [intents EXCEPT ![b] = [intents[b] EXCEPT !.phase = to]]
        BY <3>1 DEF Transition
      <3>3. [intents[b] EXCEPT !.phase = to] \in Intents
        BY <3>2 DEF Intents
      <3>4. intents' \in [Batches -> Intents \cup {None}]
        BY <3>2, <3>3
      <3> QED BY <3>1, <3>4, OutdatedType DEF Transition
    <2> QED BY <1>3, <2>1, <2>2, <2>3, <2>4, <2>5, <2>6 DEF OtherStep, IntentStep
  <1>4. CASE UNCHANGED vars
    BY <1>4 DEF vars, domainVars, runVars, writeVars, TypeOK
  <1> QED BY <1>1, <1>2, <1>3, <1>4, NextKinds

-----------------------------------------------------------------------------
(* Leases.                                                                 *)

(* Where a manager goes: it gets its leases one by one and keeps both, or  *)
(* it drops them when it is gone.                                          *)
LEMMA LeaseMoves ==
  ASSUME TypeOK, LeaseInv, NEW r \in Runs, DomainStep(r) \/ LocalStep(r)
  PROVE  /\ holds'[r] \cap exclusive = {}
         /\ step'[r] = "instance" => holds'[r] = {ScopeOf[r]}
         /\ step'[r] \notin Waiting => holds'[r] = Needs(r)
  <1> USE DEF TypeOK, LeaseInv, Waiting, Goto, domainVars, writeVars
  <1>1. CASE TakeInstance(r) \/ TakePackage(r)
    BY <1>1, CoordinationAssumption DEF TakeInstance, TakePackage, Needs
  <1>2. CASE CheckLaunch(r) \/ Fail(r) \/ Spawn(r) \/ Exit(r) \/ Observe(r) \/ Crash(r)
    BY <1>2 DEF CheckLaunch, Fail, Spawn, Exit, Observe, Crash, Dropped
  <1>3. CASE Reserve(r) \/ Cancel(r) \/ AttachPending(r) \/ BindPending(r) \/ FinishOwner(r) \/ MarkUnknown(r)
    BY <1>3 DEF Reserve, Cancel, AttachPending, BindPending, FinishOwner, MarkUnknown
  <1>4. CASE AttachOwner(r) \/ DispatchOwner(r)
    BY <1>4 DEF AttachOwner, DispatchOwner, WriteRecord, KeepsLeases, Dropped
  <1>5. CASE BindHost(r) \/ ReleaseOwner(r) \/ OwnerUnknown(r)
    BY <1>5 DEF BindHost, ReleaseOwner, OwnerUnknown, WriteRecord, Dropped
  <1> QED BY <1>1, <1>2, <1>3, <1>4, <1>5 DEF DomainStep, LocalStep

(* Every step preserves the leases.                                        *)
LEMMA LeaseStep == TypeOK /\ LeaseInv /\ [Next]_vars => LeaseInv'
  <1> SUFFICES ASSUME TypeOK, LeaseInv, [Next]_vars PROVE LeaseInv'
    OBVIOUS
  <1>1. ASSUME NEW r \in Runs, DomainStep(r) \/ LocalStep(r) PROVE LeaseInv'
    <2>1. exclusive' = exclusive
      BY <1>1, RunEffect DEF writeVars
    <2>2. ASSUME NEW q \in Runs
          PROVE  /\ holds'[q] \cap exclusive = {}
                 /\ step'[q] = "instance" => holds'[q] = {ScopeOf[q]}
                 /\ step'[q] \notin Waiting => holds'[q] = Needs(q)
      <3>1. CASE q = r
        BY <1>1, <3>1, LeaseMoves
      <3>2. CASE q # r
        BY <1>1, <3>2, RunEffect DEF LeaseInv
      <3> QED BY <3>1, <3>2
    <2> QED BY <2>1, <2>2 DEF LeaseInv, Needs
  <1>2. CASE OtherStep
    <2>1. UNCHANGED <<step, holds>>
      BY <1>2, OperatorEffect DEF runVars
    <2>2. ASSUME NEW q \in Runs PROVE holds[q] \cap exclusive' = {}
      <3>1. ASSUME NEW R \in SUBSET Resources, TakeExclusive(R) PROVE holds[q] \cap exclusive' = {}
        BY <3>1 DEF TakeExclusive, Leased, LeaseInv
      <3>2. CASE ~\E R \in SUBSET Resources : TakeExclusive(R)
        <4>1. exclusive' \subseteq exclusive
          BY <1>2, <3>2 DEF OtherStep, DropExclusive, BeginWrite, Bookkeeping, IntentStep, Review, Accept,
             DispatchIntent, CancelIntent, IntentUnknown, Complete, Transition, writeVars
        <4> QED BY <4>1 DEF LeaseInv
      <3> QED BY <3>1, <3>2
    <2> QED BY <2>1, <2>2 DEF LeaseInv, Needs
  <1>3. CASE UNCHANGED vars
    BY <1>3 DEF vars, runVars, writeVars, LeaseInv, Needs
  <1> QED BY <1>1, <1>2, <1>3, NextKinds

-----------------------------------------------------------------------------
(* The reservation and the record follow the manager.                      *)
StepInvOf(r) ==
  /\ step[r] = "new" => phase[r] = "none"
  /\ step[r] \in {"reserved", "instance", "package", "attach", "cancel"} => phase[r] = "reserved"
  /\ step[r] \in {"new", "reserved", "instance", "package", "attach", "cancel", "publish"}
       => record[r] = None /\ proc[r] = "unborn"
  /\ step[r] = "publish" => phase[r] = "owner_pending"
  /\ step[r] = "owned" => phase[r] = "owner_attached" /\ proc[r] = "unborn"
  /\ step[r] = "running" => phase[r] = "dispatched"
  /\ step[r] \in {"binding", "closing", "marking"} => phase[r] \in {"dispatched", "owner_pending"}
  /\ step[r] \in {"owned", "running", "binding", "closing", "marking"}
       => record[r] # None /\ record[r].state = "active"
  /\ step[r] \in {"finishing", "releasing"} => proc[r] # "alive"
  /\ step[r] = "unknown" => phase[r] = "unknown"
  /\ link[r] # None /\ phase[r] # "unknown" => link[r].state = "active"
AliveInvOf(r) ==
  proc[r] = "alive" => /\ phase[r] \in {"dispatched", "owner_pending", "unknown"}
                       /\ record[r] # None /\ record[r].state \in {"active", "unknown"}

(* A step of a run keeps its own place consistent.                         *)
LEMMA RunMoves ==
  ASSUME TypeOK, NEW r \in Runs, StepInvOf(r), AliveInvOf(r), DomainStep(r) \/ LocalStep(r)
  PROVE  StepInvOf(r)' /\ AliveInvOf(r)'
  <1> USE DEF TypeOK, StepInvOf, AliveInvOf, Goto, domainVars, writeVars
  <1>1. CASE TakeInstance(r) \/ TakePackage(r) \/ CheckLaunch(r)
    BY <1>1 DEF TakeInstance, TakePackage, CheckLaunch
  <1>2. CASE Fail(r) \/ Observe(r)
    BY <1>2 DEF Fail, Observe
  <1>3. CASE Spawn(r) \/ Exit(r) \/ Crash(r)
    BY <1>3 DEF Spawn, Exit, Crash
  <1>4. CASE Reserve(r) \/ Cancel(r) \/ FinishOwner(r) \/ MarkUnknown(r)
    BY <1>4 DEF Reserve, Cancel, FinishOwner, MarkUnknown
  <1>11. CASE AttachPending(r)
    <2>1. link' = [link EXCEPT ![r] = New] /\ New.state = "active"
      BY <1>11 DEF AttachPending, New
    <2> QED BY <1>11, <2>1 DEF AttachPending
  <1>5. CASE BindPending(r)
    <2>1. link[r] \in Owners /\ link[r].state = "active" /\ record[r] = link[r]
      BY <1>5 DEF BindPending, Linked
    <2>2. link' = [link EXCEPT ![r] = [link[r] EXCEPT !.host = TRUE]]
      BY <1>5 DEF BindPending
    <2>3. [link[r] EXCEPT !.host = TRUE].state = "active"
      BY <2>1 DEF Owners
    <2>4. link'[r].state = "active"
      BY <2>2, <2>3
    <2> QED BY <1>5, <2>4 DEF BindPending, Linked
  <1>6. CASE AttachOwner(r)
    <2>1. record' = [record EXCEPT ![r] = New] /\ New # None /\ New.state = "active"
      BY <1>6, OwnerTypes, CoordinationAssumption DEF AttachOwner, WriteRecord, New
    <2> QED BY <1>6, <2>1 DEF AttachOwner, WriteRecord
  <1>7. CASE DispatchOwner(r)
    BY <1>7 DEF DispatchOwner
  <1>8. CASE BindHost(r)
    <2>1. link[r] \in Owners /\ link[r] # None /\ record[r].state = "active"
      BY <1>8 DEF BindHost, New
    <2>2. link[r].state = "active"
      BY <1>8, <2>1 DEF BindHost
    <2> QED BY <1>8, <2>1, <2>2 DEF BindHost, WriteRecord
  <1>9. CASE ReleaseOwner(r)
    <2>1. /\ step[r] = "releasing" /\ step' = [step EXCEPT ![r] = "gone"] /\ UNCHANGED proc
          /\ link' = link \/ link' = [link EXCEPT ![r] = link[r]]
          /\ phase[r] = "release_pending"
      BY <1>9 DEF ReleaseOwner, WriteRecord
    <2> QED BY <2>1
  <1>10. CASE OwnerUnknown(r)
    <2>1. /\ step' = [step EXCEPT ![r] = "gone"] /\ UNCHANGED proc
          /\ phase[r] = "unknown" /\ record[r] \in Owners
          /\ record' = [record EXCEPT ![r] = [record[r] EXCEPT !.state = "unknown"]]
          /\ UNCHANGED phase \/ phase' = [phase EXCEPT ![r] = "unknown"]
      BY <1>10 DEF OwnerUnknown, WriteRecord, Linked
    <2>2. record'[r] \in Owners /\ record'[r].state = "unknown"
      BY <2>1, OwnerTypes DEF Owners
    <2>3. record'[r] # None
      BY <2>2, CoordinationAssumption
    <2> QED BY <2>1, <2>2, <2>3
  <1> QED BY <1>1, <1>2, <1>3, <1>4, <1>5, <1>6, <1>7, <1>8, <1>9, <1>10, <1>11 DEF DomainStep, LocalStep

(* For every run and every step.                                           *)
LEMMA PlaceStep == TypeOK /\ StepInv /\ AliveInv /\ [Next]_vars => StepInv' /\ AliveInv'
  <1> SUFFICES ASSUME TypeOK, StepInv, AliveInv, [Next]_vars, NEW q \in Runs
               PROVE  StepInvOf(q)' /\ AliveInvOf(q)'
    BY DEF StepInv, AliveInv, StepInvOf, AliveInvOf
  <1>0. StepInvOf(q) /\ AliveInvOf(q)
    BY DEF StepInv, AliveInv, StepInvOf, AliveInvOf
  <1>1. CASE UNCHANGED <<phase[q], link[q], record[q], step[q], proc[q]>>
    BY <1>0, <1>1 DEF StepInvOf, AliveInvOf
  <1>2. ASSUME NEW r \in Runs, DomainStep(r) \/ LocalStep(r)
        PROVE  StepInvOf(q)' /\ AliveInvOf(q)'
    BY <1>0, <1>1, <1>2, RunMoves, RunEffect
  <1> QED BY <1>1, <1>2, NextKinds, OperatorEffect DEF vars, domainVars, runVars

(* The phases are a run's own, and those that end it are final.            *)
LEMMA PhaseMoves ==
  ASSUME TypeOK, NEW r \in Runs, DomainStep(r)
  PROVE  /\ phase[r] \in {"released", "cancelled", "unknown"} => phase'[r] = phase[r]
         /\ Ended(r) /\ ~Ended(r)' => Reserve(r)
         /\ record[r] # None /\ record[r].state # "active" => record'[r] = record[r]
  BY DEF TypeOK, Ended, DomainStep, Reserve, Cancel, AttachPending, AttachOwner, DispatchOwner, BindPending,
     BindHost, FinishOwner, ReleaseOwner, MarkUnknown, OwnerUnknown, WriteRecord, Linked, New

-----------------------------------------------------------------------------
(* A writer is alone: processes hold the reservation that an admission     *)
(* looks for, and whoever would start one holds the lease.                 *)
LEMMA WriterStep ==
  TypeOK /\ LeaseInv /\ StepInv /\ AliveInv /\ WriterAlone /\ [Next]_vars => WriterAlone'
  <1> SUFFICES ASSUME TypeOK, LeaseInv, StepInv, AliveInv, WriterAlone, [Next]_vars,
                      NEW r \in Runs, Needs(r) \cap writing' # {}
               PROVE  proc'[r] # "alive" /\ step'[r] \in Waiting
    BY DEF WriterAlone, Waiting, Needs
  <1>1. step'[r] \in Waiting
    <2>1. LeaseInv' /\ TypeOK'
      BY LeaseStep, TypeStep
    <2> QED BY <2>1 DEF LeaseInv, TypeOK, Needs
  <1>2. proc'[r] # "alive"
    <2>1. ASSUME NEW q \in Runs, DomainStep(q) \/ LocalStep(q) PROVE proc'[r] # "alive"
      <3>1. writing' = writing /\ (q # r => proc'[r] = proc[r])
        BY <2>1, RunEffect DEF writeVars
      <3>2. proc[r] # "alive"
        BY <3>1 DEF WriterAlone
      <3>3. CASE Spawn(r)
        BY <3>1, <3>3 DEF Spawn, WriterAlone
      <3>4. CASE ~Spawn(r) /\ q = r
        BY <2>1, <3>2, <3>4, DomainTypes DEF LocalStep, TakeInstance, TakePackage, CheckLaunch, Fail, Exit,
           Observe, Crash, TypeOK
      <3> QED BY <3>1, <3>2, <3>3, <3>4
    <2>2. CASE OtherStep
      <3>1. proc' = proc
        BY <2>2, OperatorEffect DEF runVars
      <3>2. CASE Needs(r) \cap writing # {}
        BY <3>1, <3>2 DEF WriterAlone
      <3>3. CASE Needs(r) \cap writing = {}
        <4>1. PICK x \in Needs(r) : x \in writing' \ writing
          BY <3>3
        <4>2. PICK y \in Resources, b \in Batches \cup {None} : BeginWrite(y, b)
          BY <2>2, <4>1 DEF OtherStep, TakeExclusive, DropExclusive, Bookkeeping, IntentStep, Review, Accept,
             DispatchIntent, CancelIntent, IntentUnknown, Complete, Transition, writeVars
        <4>3. Active({x}) = {}
          BY <4>1, <4>2 DEF BeginWrite
        <4>4. Ended(r)
          BY <4>1, <4>3 DEF Active
        <4> QED BY <3>1, <4>4 DEF AliveInv, Ended
      <3> QED BY <3>2, <3>3
    <2>3. CASE UNCHANGED vars
      BY <2>3 DEF vars, runVars, writeVars, WriterAlone
    <2> QED BY <2>1, <2>2, <2>3, NextKinds
  <1> QED BY <1>1, <1>2

(* A run that has ended enters no resource of an intent that stands.       *)
LEMMA FenceEffect ==
  ASSUME TypeOK, [Next]_vars, NEW b \in Batches, Standing(b),
         NEW r \in Runs, Ended(r), Needs(r) \cap intents[b].resources # {}
  PROVE  Ended(r)'
  <1> SUFFICES ASSUME ~Ended(r)' PROVE FALSE
    OBVIOUS
  <1>1. PICK q \in Runs : DomainStep(q) \/ LocalStep(q)
    BY NextKinds, OperatorEffect DEF Ended, vars, domainVars
  <1>2. q = r /\ DomainStep(r)
    BY <1>1, RunEffect, LocalEffect DEF Ended
  <1>3. Reserve(r)
    BY <1>2, PhaseMoves
  <1> QED BY <1>3 DEF Reserve, Unfenced

(* A fence: no run enters the resources of an intent that stands, and an   *)
(* intent begins with all that are there.                                  *)
LEMMA FenceStep == TypeOK /\ FenceHolds /\ [Next]_vars => FenceHolds'
  <1> SUFFICES ASSUME TypeOK, FenceHolds, [Next]_vars, NEW b \in Batches,
                      Standing(b)', intents'[b].op = "setup",
                      NEW r \in Runs, ~Ended(r)', Needs(r) \cap intents'[b].resources # {}
               PROVE  r \in intents'[b].runs
    BY DEF FenceHolds, Active, Needs
  <1>1. CASE intents' = intents
    <2>1. Standing(b)
      BY <1>1 DEF Standing
    <2>2. CASE ~Ended(r)
      BY <1>1, <2>1, <2>2 DEF FenceHolds, Active
    <2>3. CASE Ended(r)
      BY <1>1, <2>1, <2>3, FenceEffect
    <2> QED BY <2>2, <2>3
  <1>2. CASE intents' # intents
    <2>1. OtherStep
      BY <1>2, NextKinds, RunEffect DEF vars, domainVars
    <2>2. phase' = phase
      BY <2>1, OperatorEffect
    <2>3. ~Ended(r)
      BY <2>2 DEF Ended
    <2>4. PICK c \in Batches : IntentStep(c)
      BY <1>2, <2>1 DEF OtherStep, TakeExclusive, DropExclusive, BeginWrite, Bookkeeping, domainVars
    <2>5. CASE Accept(c)
      <3>1. CASE b = c
        BY <2>3, <2>5, <3>1 DEF Accept, Selectable, Active, TypeOK, Selection
      <3>2. CASE b # c
        BY <2>3, <2>5, <3>2 DEF Accept, FenceHolds, Standing, Active, TypeOK
      <3> QED BY <3>1, <3>2
    <2>6. CASE ~Accept(c)
      <3>1. PICK from \in SUBSET {"active", "dispatched", "unknown"},
                 to \in {"dispatched", "cancelled", "unknown", "completed"} : Transition(c, from, to)
        BY <1>2, <2>4, <2>6 DEF IntentStep, Review, DispatchIntent, CancelIntent, IntentUnknown, Complete, domainVars
      <3>2. /\ intents[b] # None /\ intents'[b].op = intents[b].op
            /\ intents'[b].runs = intents[b].runs /\ intents'[b].resources = intents[b].resources
            /\ Standing(b)
        BY <3>1 DEF Transition, Standing, TypeOK, Intents
      <3> QED BY <2>3, <3>2 DEF FenceHolds, Active
    <2> QED BY <2>5, <2>6
  <1> QED BY <1>1, <1>2

-----------------------------------------------------------------------------
(* It holds at the beginning, and every step preserves it.                 *)
LEMMA InitialInv == Init => IInv
  <1> SUFFICES ASSUME Init PROVE IInv
    OBVIOUS
  <1>1. TypeOK
    BY DEF Init, TypeOK, Phases
  <1> QED BY <1>1 DEF Init, IInv, LeaseInv, Waiting, StepInv, AliveInv, WriterAlone, FenceHolds, Standing, Needs

(* Every step preserves the invariant.                                     *)
LEMMA InductiveStep == IInv /\ [Next]_vars => IInv'
  BY TypeStep, LeaseStep, PlaceStep, WriterStep, FenceStep DEF IInv

-----------------------------------------------------------------------------
(* The inductive invariant, for any runs, resources and batches.           *)
THEOREM InductiveInvariant == Spec => []IInv
  BY InitialInv, InductiveStep, PTL DEF Spec

(* Nobody runs, or gets ready to, where something is being written.        *)
THEOREM WritersAreAlone == Spec => []WriterAlone
  BY InductiveInvariant, PTL DEF IInv

(* Processes have a reservation and an owner record, whatever failed.      *)
THEOREM EverythingAccounted == Spec => []Accounted
  <1>1. IInv => Accounted
    BY DEF IInv, AliveInv, Accounted, Ended
  <1> QED BY <1>1, InductiveInvariant, PTL

(* A standing setup selected everything that uses its resources.           *)
THEOREM FencesHold == Spec => []FenceHolds
  BY InductiveInvariant, PTL DEF IInv

(* Ends are final, and an unknown run lets nobody else pass.               *)
THEOREM EndsAreFinal == Spec => Final
  <1>1. ASSUME IInv, [Next]_vars, NEW r \in Runs
        PROVE  /\ phase[r] \in {"released", "cancelled", "unknown"} => phase'[r] = phase[r]
               /\ record[r] # None /\ record[r].state # "active" => record'[r] = record[r]
    <2>1. CASE UNCHANGED <<phase[r], record[r]>>
      BY <2>1
    <2>2. ASSUME NEW q \in Runs, DomainStep(q) \/ LocalStep(q)
          PROVE  UNCHANGED <<phase[r], record[r]>> \/ DomainStep(r)
      BY <1>1, <2>2, RunEffect, LocalEffect DEF IInv
    <2> QED BY <1>1, <2>1, <2>2, PhaseMoves, NextKinds, OperatorEffect DEF IInv, vars, domainVars
  <1>2. ASSUME IInv, [Next]_vars, NEW r \in Runs, phase[r] = "unknown"
        PROVE  writing' \cap Needs(r) \subseteq writing
    <2>1. CASE OtherStep
      <3>1. ASSUME NEW x \in Resources, NEW b \in Batches \cup {None}, BeginWrite(x, b)
            PROVE  writing' \cap Needs(r) \subseteq writing
        <4>1. Active({x}) = {} /\ writing' = writing \cup {x}
          BY <3>1 DEF BeginWrite
        <4>2. x \notin Needs(r)
          BY <1>2, <4>1 DEF Active, Ended
        <4> QED BY <4>1, <4>2
      <3>2. CASE ~\E x \in Resources, b \in Batches \cup {None} : BeginWrite(x, b)
        BY <2>1, <3>2 DEF OtherStep, TakeExclusive, DropExclusive, Bookkeeping, IntentStep, Review, Accept,
           DispatchIntent, CancelIntent, IntentUnknown, Complete, Transition, writeVars
      <3> QED BY <3>1, <3>2
    <2> QED BY <1>2, <2>1, NextKinds, RunEffect DEF IInv, vars, writeVars
  <1>3. ASSUME IInv, [Next]_vars, NEW r \in Runs, phase[r] = "unknown",
               NEW b \in Batches, intents[b] = None, intents'[b] # None
        PROVE  intents'[b].resources \cap Needs(r) = {}
    <2>1. OtherStep
      BY <1>3, NextKinds, RunEffect DEF IInv, vars, domainVars
    <2>2. PICK c \in Batches : IntentStep(c)
      BY <1>3, <2>1 DEF OtherStep, TakeExclusive, DropExclusive, BeginWrite, Bookkeeping, domainVars
    <2>3. Accept(b)
      BY <1>3, <2>2 DEF IntentStep, Review, Accept, DispatchIntent, CancelIntent, IntentUnknown, Complete,
         Transition, domainVars, IInv, TypeOK
    <2>4. r \notin Active(reviewed[b].resources)
      BY <1>3, <2>3 DEF Accept, Selectable
    <2> QED BY <1>3, <2>3, <2>4 DEF Accept, Active, Ended, IInv, TypeOK
  <1>4. IInv /\ [Next]_vars =>
     [/\ \A r \in Runs : /\ phase[r] \in {"released", "cancelled", "unknown"} => phase'[r] = phase[r]
                         /\ record[r] # None /\ record[r].state # "active" => record'[r] = record[r]
      /\ \A r \in Runs : phase[r] = "unknown" =>
           /\ writing' \cap Needs(r) \subseteq writing
           /\ \A b \in Batches : intents[b] = None /\ intents'[b] # None =>
                intents'[b].resources \cap Needs(r) = {}]_vars
    BY <1>1, <1>2, <1>3
  <1> QED BY <1>4, InductiveInvariant, PTL DEF Spec, Final
=============================================================================
