------------------------ MODULE SetupMaintenanceProofs ------------------------
(***************************************************************************)
(* Proofs about SetupMaintenance for any runs, resources, batches and      *)
(* operators.  The inductive invariant MaintInv takes the coordination's   *)
(* and adds what a batch that stands excludes, what an operator in the     *)
(* middle of a setup knows, and what has been installed by then.           *)
(***************************************************************************)
EXTENDS SetupMaintenance, OmpCoordinationProofs

(* Intents are setups of some runs, and those that stand share nothing.    *)
IntentInv ==
  /\ \A b \in Batches : reviewed[b] # None => reviewed[b] \in SetupSelection
  /\ \A b \in Batches : intents[b] # None => intents[b].op = "setup" /\ intents[b].runs # {}
  /\ \A b, c \in Batches : b # c /\ Standing(b) /\ Standing(c) => Target(b) \cap Target(c) = {}

(* What is recorded of the dispatch follows the phase of the batch.        *)
DispatchInv ==
  \A b \in Batches : batch[b] # None =>
    /\ batch[b].phase \in {"accepted", "stop_requested", "stopped_confirmed"} => batch[b].dispatch = "not_dispatched"
    /\ batch[b].phase = "maintenance_dispatch_intent" => batch[b].dispatch = "dispatch_intent"
    /\ batch[b].phase = "maintenance_running" => batch[b].dispatch = "dispatched"

(* The leases of a call in each of its stages, and its batch; from its     *)
(* review on, that batch has one target.                                   *)
Unleased == {"idle", "reviewed", "permitted", "prepared", "synced", "applied", "failed", "handing"}
Setup == {"reviewed", "dispatching", "issued", "permitted", "prepared", "sync_entering", "sync_admitted"} \cup Started
MineOf(m) ==
  /\ at[m] \in Unleased => mine[m] = {}
  /\ at[m] \in {"sync_entering", "sync_admitted", "sync_running", "sync_done"} => mine[m] = Target(on[m])
  /\ at[m] \in {"apply_ready", "apply_running", "apply_done"} => mine[m] = Target(on[m]) \cap Scopes
  /\ on[m] # None => intents[on[m]] # None
  /\ at[m] \in Setup => on[m] # None /\ OneTarget(on[m])

(* From its admission on, a setup knows what is recorded, nobody else uses *)
(* or writes its target, and no other setup of its batch gets that far.    *)
Admitted == Started \cup {"sync_admitted"}
AloneOf(m) ==
  at[m] \in Admitted =>
    /\ batch[on[m]] = seen[m] /\ seen[m].phase = "maintenance_running" /\ Open(on[m])
    /\ Active(Target(on[m])) = {}
    /\ writing \cap Target(on[m]) \subseteq mine[m]
Unique == \A m, n \in Operators : m # n /\ at[m] \in Admitted /\ at[n] \in Admitted => on[m] # on[n]

(* What a setup has installed and applied when it gets there.              *)
ContentOf(m) ==
  /\ at[m] = "sync_running" => Target(on[m]) \cap Packages \subseteq writing
  /\ at[m] \in {"sync_done", "synced", "apply_ready", "apply_running", "apply_done", "applied"} =>
       \A x \in Target(on[m]) \cap Packages : content[x] = "target"
  /\ at[m] = "apply_running" => Target(on[m]) \cap Scopes \subseteq writing
  /\ at[m] \in {"apply_done", "applied"} => \A x \in Target(on[m]) \cap Scopes : content[x] = "target"

PlaceInv == \A m \in Operators : MineOf(m) /\ AloneOf(m) /\ ContentOf(m)
MaintInv == IInv /\ MaintTypeOK /\ IntentInv /\ OutcomeKept /\ DispatchInv /\ PlaceInv /\ Unique /\ SuccessHolds

-----------------------------------------------------------------------------
(* The steps of a call: it reads and leases, works under its leases,       *)
(* commits, and lets its leases go.                                        *)
Reads(m) == \E b \in Batches : ReadStopped(m, b) \/ ReviewSetup(m, b) \/ ReadSucceeded(m, b)
Leases(m) == \/ LeaseStopped(m) \/ LeaseSetup(m) \/ LeaseSync(m) \/ LeaseApply(m) \/ LeaseHandoff(m)
             \/ \E x \in Resources : LeaseWrite(m, x)
Enters(m) == Reads(m) \/ Leases(m)
Works(m) == Prepare(m) \/ Install(m) \/ FinishSync(m) \/ Apply(m) \/ FinishApply(m) \/ WriteOther(m)
Commits(m) == Confirm(m) \/ Dispatch(m) \/ BeginSync(m) \/ Finish(m) \/ FinishUnknown(m) \/ CompleteManual(m)
Leaves(m) == DropLeases(m) \/ FailSetup(m) \/ Close(m)

(* Every step of a call is of one of these kinds.                          *)
LEMMA CallKinds == ASSUME NEW m, OperatorStep(m) PROVE Enters(m) \/ Works(m) \/ Commits(m) \/ Leaves(m)
  BY DEF OperatorStep, Enters, Reads, Leases, Works, Commits, Leaves

-----------------------------------------------------------------------------
(* Every step is one of the coordination.                                  *)

(* Where nothing is active and every run is accounted for, all is idle.    *)
LEMMA ReleasedIsIdle ==
  ASSUME IInv, NEW R \in SUBSET Resources, Active(R) = {}, ScopeConsistent(R), NEW x \in R
  PROVE  AllIdle(x)
  BY DEF IInv, TypeOK, ScopeConsistent, Consistent, AllIdle, Active, Ended, Needs

(* A write of its target by an admitted setup is one of its own intent's.  *)
LEMMA AdmittedWrite ==
  ASSUME MaintInv, NEW m \in Operators, at[m] \in Admitted, NEW x \in Target(on[m]), x \in mine[m],
         AllIdle(x), writing' = writing \cup {x},
         UNCHANGED <<domainVars, record, runVars, exclusive, reviewed>>
  PROVE  [Next]_vars
  <1>1. on[m] \in Batches /\ intents[on[m]] # None /\ Open(on[m]) /\ Active(Target(on[m])) = {}
    BY DEF MaintInv, PlaceInv, MineOf, AloneOf, MaintTypeOK, Admitted, Setup
  <1>2. x \in Resources /\ x \in exclusive
    BY DEF MaintInv, MaintTypeOK
  <1>3. MayPass(on[m], x)
    BY <1>1 DEF MayPass, Open, MaintInv, IntentInv, Target
  <1>4. UnfencedBut(on[m], {x})
    BY <1>1 DEF UnfencedBut, Open, Standing, MaintInv, IntentInv, Target
  <1>5. Active({x}) = {}
    BY <1>1 DEF Active
  <1>6. CASE x \in writing
    BY <1>6 DEF vars, writeVars, domainVars, runVars
  <1>7. CASE x \notin writing
    BY <1>1, <1>2, <1>3, <1>4, <1>5, <1>7 DEF Next, BeginWrite
  <1> QED BY <1>6, <1>7

(* Every step of the maintenance is one of the coordination.               *)
LEMMA CoordinationStep ==
  ASSUME MaintInv, [MaintNext]_allVars PROVE [Next]_vars
  <1> USE DEF callVars, maintVars
  <1>1. CASE UNCHANGED allVars
    BY <1>1 DEF allVars
  <1>2. ASSUME NEW r \in Runs, RunStep(r) PROVE Next
    BY <1>2 DEF Next
  <1>3. ASSUME NEW b \in Batches, NEW sel \in SetupSelection, Review(b, sel) PROVE Next
    BY <1>3 DEF Next, IntentStep, SetupSelection
  <1>4. ASSUME NEW b \in Batches, BatchStep(b) PROVE [Next]_vars
    BY <1>4 DEF BatchStep, AcceptSnapshot, StopUnknown, CancelBatch, DispatchBatch, RecordStop, RecordExit,
       Next, IntentStep
  <1>5. ASSUME NEW m \in Operators, OperatorStep(m) PROVE [Next]_vars
    <2>0. /\ mine[m] \in SUBSET Resources /\ on[m] \in Batches \cup {None}
          /\ on[m] # None => Target(on[m]) \in SUBSET Resources
          /\ mine[m] \subseteq exclusive
      BY DEF MaintInv, PlaceInv, MineOf, MaintTypeOK, IInv, TypeOK, Intents, Target
    <2>1. CASE Reads(m)
      BY <2>1 DEF Reads, ReadStopped, ReviewSetup, ReadSucceeded, Read
    <2>2. CASE Leases(m)
      <3>1. PICK R \in SUBSET Resources : TakeExclusive(R)
        BY <2>0, <2>2 DEF Leases, LeaseStopped, LeaseSetup, LeaseSync, LeaseApply, LeaseHandoff, LeaseWrite, Lease
      <3> QED BY <3>1 DEF Next
    <2>4. CASE Confirm(m) \/ Dispatch(m) \/ BeginSync(m) \/ Finish(m)
      BY <2>4 DEF Confirm, Dispatch, BeginSync, Finish, Next
    <2>5. CASE FinishUnknown(m)
      BY <2>0, <2>5 DEF FinishUnknown, Next, IntentStep, Commit, Current
    <2>6. CASE CompleteManual(m)
      BY <2>0, <2>6 DEF CompleteManual, Next, IntentStep, Commit, Current
    <2>7. CASE Leaves(m)
      BY <2>0, <2>7 DEF Leaves, DropLeases, FailSetup, Close, Unlease, Next
    <2>8. CASE Prepare(m) \/ FinishSync(m) \/ FinishApply(m)
      BY <2>8 DEF Prepare, FinishSync, FinishApply
    <2>9. CASE WriteOther(m)
      BY <2>0, <2>9 DEF WriteOther, Next
    <2>10. CASE Install(m)
      <3>1. PICK x \in Target(on[m]) \cap Packages : Write(x, "partial")
        BY <2>10 DEF Install
      <3>2. at[m] = "sync_admitted" /\ x \in mine[m]
        BY <2>10 DEF Install, Stage, MaintInv, PlaceInv, MineOf
      <3>3. AllIdle(x)
        BY CoordinationAssumption DEF AllIdle
      <3> QED BY <3>1, <3>2, <3>3, AdmittedWrite DEF Write, Admitted
    <2>11. CASE Apply(m)
      <3>1. PICK x \in Target(on[m]) \cap Scopes : Write(x, "partial")
        BY <2>11 DEF Apply
      <3>2. at[m] = "apply_ready" /\ x \in mine[m]
        BY <2>11 DEF Apply, Stage, MaintInv, PlaceInv, MineOf
      <3>3. AllIdle(x)
        BY <2>0, <2>11, ReleasedIsIdle DEF Apply, HoldReleased, Current, MaintInv
      <3> QED BY <3>1, <3>2, <3>3, AdmittedWrite DEF Write, Admitted, Started
    <2> QED BY <1>5, <2>1, <2>2, <2>4, <2>5, <2>6, <2>7, <2>8, <2>9, <2>10, <2>11, CallKinds DEF Enters, Works, Commits
  <1> QED BY <1>1, <1>2, <1>3, <1>4, <1>5 DEF MaintNext

-----------------------------------------------------------------------------
(* What a step can do to a batch and to its intent.                        *)
Kept(b) ==
  /\ batch'[b] = batch[b]
  /\ \/ intents'[b] = intents[b]
     \/ Open(b) /\ Open(b)'
     \/ batch[b] = Initial /\ intents'[b].phase = "cancelled"
Accepted(b) == /\ batch[b] = None /\ batch'[b] = Initial /\ b \in snapshots'
               /\ intents'[b] # None /\ intents'[b].phase = "active"
Same(b) == batch'[b].dispatch = batch[b].dispatch /\ batch'[b].manual = batch[b].manual
Recorded(b) ==
  /\ Stopping(b) /\ batch'[b].phase \in {"accepted", "stop_requested", "stopped_confirmed"} /\ Same(b)
  /\ intents'[b] = intents[b]
LostTrack(b) == Stopping(b) /\ batch'[b].phase = "unknown" /\ Same(b) /\ intents'[b].phase = "unknown"
Moved(b, from, to, dispatch) ==
  /\ Open(b) /\ batch[b].phase = from /\ batch'[b].phase = to
  /\ batch'[b].dispatch = dispatch /\ batch'[b].manual = batch[b].manual
  /\ intents'[b] = intents[b]
Succeeded(b) ==
  /\ Moved(b, "maintenance_running", "maintenance_succeeded", "confirmed")
  /\ \E m \in Operators : at[m] = "applied" /\ on[m] = b /\ at'[m] = "closing"
Failed(b) ==
  /\ Open(b) /\ batch[b].phase = "maintenance_running" /\ batch'[b].phase \in {"unknown", "partial"}
  /\ batch'[b].dispatch \in {"unknown", "confirmed"} /\ batch'[b].manual = batch[b].manual
  /\ intents'[b].phase = "unknown"
  /\ \E m \in Operators : at[m] \in {"failed", "synced"} /\ on[m] = b /\ at'[m] = "closing"
Completed(b) ==
  /\ Open(b) /\ batch[b].phase = "maintenance_succeeded" /\ batch'[b].phase = "maintenance_succeeded"
  /\ batch'[b].dispatch = batch[b].dispatch /\ batch'[b].manual /\ intents'[b].phase = "completed"
BatchMove(b) ==
  \/ Kept(b) \/ Accepted(b) \/ Recorded(b) \/ LostTrack(b)
  \/ Moved(b, "stopped_confirmed", "maintenance_dispatch_intent", "dispatch_intent")
  \/ Moved(b, "maintenance_dispatch_intent", "maintenance_running", "dispatched")
  \/ Succeeded(b) \/ Failed(b) \/ Completed(b)

(* The commits of a call.                                                  *)
LEMMA CommitMoves ==
  ASSUME MaintInv, NEW b \in Batches, NEW m \in Operators,
         Confirm(m) \/ Dispatch(m) \/ BeginSync(m) \/ Finish(m) \/ FinishUnknown(m) \/ CompleteManual(m)
  PROVE  BatchMove(b)
  <1> DEFINE c == on[m]
  <1> USE DEF Commit, Current, Stage
  <1>1. c \in Batches /\ batch[c] \in Progress /\ seen[m] = batch[c] /\ Open(c) /\ intents[c] \in Intents
    BY DEF Confirm, Dispatch, BeginSync, Finish, FinishUnknown, CompleteManual, Open, MaintInv, MaintTypeOK,
       IInv, TypeOK
  <1>2. /\ at \in [Operators -> Stages] /\ batch \in [Batches -> Progress \cup {None}]
        /\ intents \in [Batches -> Intents \cup {None}]
    BY DEF MaintInv, MaintTypeOK, IInv, TypeOK
  <1>3. at[m] \in {"applied", "failed", "synced"} => batch[c].phase = "maintenance_running"
    BY <1>1 DEF MaintInv, PlaceInv, AloneOf, Admitted, Started
  <1>4. CASE b # c
    <2>1. batch'[b] = batch[b] /\ intents'[b] = intents[b]
      BY <1>1, <1>2, <1>4 DEF Confirm, Dispatch, BeginSync, Finish, FinishUnknown, CompleteManual, Bookkeeping,
         IntentUnknown, Complete, Transition, domainVars
    <2> QED BY <2>1 DEF BatchMove, Kept
  <1>5. CASE b = c
    <2>1. CASE Confirm(m)
      BY <1>1, <1>2, <1>5, <2>1 DEF Confirm, BatchMove, Recorded, Same, Bookkeeping, domainVars, Progress,
         MayConfirm
    <2>2. CASE Dispatch(m)
      BY <1>1, <1>2, <1>5, <2>2 DEF Dispatch, BatchMove, Moved, Bookkeeping, domainVars, Progress
    <2>3. CASE BeginSync(m)
      BY <1>1, <1>2, <1>5, <2>3 DEF BeginSync, BatchMove, Moved, Bookkeeping, domainVars, Progress
    <2>4. CASE Finish(m)
      BY <1>1, <1>2, <1>3, <1>5, <2>4 DEF Finish, BatchMove, Succeeded, Moved, Bookkeeping, domainVars, Progress
    <2>5. CASE FinishUnknown(m)
      <3>1. intents'[b].phase = "unknown"
        BY <1>1, <1>2, <1>5, <2>5 DEF FinishUnknown, IntentUnknown, Transition, Intents
      <3>2. at[m] \in {"failed", "synced"} /\ at'[m] = "closing"
        BY <1>2, <2>5 DEF FinishUnknown
      <3>3. /\ batch'[b].phase \in {"unknown", "partial"} /\ batch'[b].dispatch \in {"unknown", "confirmed"}
            /\ batch'[b].manual = batch[b].manual
        <4>1. \/ batch'[b] = [batch[b] EXCEPT !.phase = "unknown", !.dispatch = "unknown"]
              \/ batch'[b] = [batch[b] EXCEPT !.phase = "partial", !.dispatch = "confirmed"]
          BY <1>1, <1>2, <1>5, <2>5 DEF FinishUnknown
        <4> QED BY <1>1, <1>5, <4>1 DEF Progress
      <3> QED BY <1>1, <1>3, <1>5, <3>1, <3>2, <3>3 DEF BatchMove, Failed
    <2>6. CASE CompleteManual(m)
      <3>1. intents'[b].phase = "completed"
        BY <1>1, <1>2, <1>5, <2>6 DEF CompleteManual, Complete, Transition, Intents
      <3> QED BY <1>1, <1>2, <1>5, <2>6, <3>1 DEF CompleteManual, MayComplete, BatchMove, Completed, Progress
    <2> QED BY <2>1, <2>2, <2>3, <2>4, <2>5, <2>6
  <1> QED BY <1>4, <1>5

(* The facts that are recorded without a call, and the end of an intent.   *)
LEMMA RecordMoves ==
  ASSUME MaintInv, NEW b \in Batches, NEW c \in Batches, BatchStep(c)
  PROVE  BatchMove(b)
  <1>1. /\ batch \in [Batches -> Progress \cup {None}] /\ intents \in [Batches -> Intents \cup {None}]
        /\ batch[c] # None <=> intents[c] # None
    BY DEF MaintInv, MaintTypeOK, IInv, TypeOK
  <1>2. CASE b # c
    <2>1. batch'[b] = batch[b] /\ intents'[b] = intents[b]
      BY <1>1, <1>2 DEF BatchStep, AcceptSnapshot, StopUnknown, CancelBatch, DispatchBatch, RecordStop, RecordExit,
         Accept, DispatchIntent, CancelIntent, IntentUnknown, Transition, Record, Bookkeeping, vars, domainVars,
         maintVars
    <2> QED BY <2>1 DEF BatchMove, Kept
  <1>3. CASE b = c
    <2>1. CASE AcceptSnapshot(c)
      <3>1. CASE UNCHANGED <<vars, batch>>
        BY <3>1 DEF BatchMove, Kept, vars
      <3>2. CASE Accept(c) /\ batch' = [batch EXCEPT ![c] = Initial]
        <4> DEFINE new == [phase |-> "active", op |-> reviewed[c].op,
                           runs |-> reviewed[c].runs, resources |-> reviewed[c].resources]
        <4>1. reviewed[c] \in Selection
          BY <3>2 DEF Accept, MaintInv, IInv, TypeOK
        <4>2. new \in Intents /\ new # None /\ new.phase = "active"
          BY <4>1, MaintenanceAssumption DEF Selection, Intents
        <4>3. intents' = [intents EXCEPT ![c] = new] /\ intents[c] = None
          BY <3>2 DEF Accept
        <4> QED BY <1>1, <1>3, <2>1, <3>2, <4>2, <4>3 DEF AcceptSnapshot, BatchMove, Accepted
      <3> QED BY <2>1, <3>1, <3>2 DEF AcceptSnapshot
    <2>2. CASE \E r \in Runs : RecordStop(c, r) \/ RecordExit(c, r)
      BY <1>1, <1>3, <2>2 DEF RecordStop, RecordExit, Record, Stopping, BatchMove, Recorded, Same, Bookkeeping,
         domainVars, Progress
    <2>3. CASE StopUnknown(c)
      <3>1. intents'[b].phase = "unknown"
        BY <1>1, <1>3, <2>3 DEF StopUnknown, IntentUnknown, Transition, Intents
      <3> QED BY <1>1, <1>3, <2>3, <3>1 DEF StopUnknown, Record, Stopping, BatchMove, LostTrack, Same, Progress
    <2>4. CASE CancelBatch(c)
      <3>1. intents'[b].phase = "cancelled"
        BY <1>1, <1>3, <2>4 DEF CancelBatch, CancelIntent, Transition, Intents
      <3> QED BY <1>3, <2>4, <3>1 DEF CancelBatch, maintVars, BatchMove, Kept
    <2>5. CASE DispatchBatch(c)
      <3>1. Open(b) /\ intents'[b] = [intents[b] EXCEPT !.phase = "dispatched"] /\ intents[b] \in Intents
        BY <1>1, <1>3, <2>5 DEF DispatchBatch, DispatchIntent, Transition, Open
      <3>2. intents'[b] \in Intents /\ intents'[b].phase = "dispatched"
        BY <3>1 DEF Intents
      <3>3. Open(b)'
        BY <3>2, MaintenanceAssumption DEF Open
      <3> QED BY <1>3, <2>5, <3>1, <3>3 DEF DispatchBatch, maintVars, BatchMove, Kept
    <2> QED BY <1>3, <2>1, <2>2, <2>3, <2>4, <2>5 DEF BatchStep
  <1> QED BY <1>2, <1>3

(* The rest of a call leaves them alone.                                   *)
LEMMA CallsAreQuiet ==
  ASSUME NEW m \in Operators, OperatorStep(m), ~Commits(m)
  PROVE  UNCHANGED <<batch, intents, snapshots>>
  <1>1. CASE Enters(m)
    BY <1>1 DEF Enters, Reads, Leases, ReadStopped, ReviewSetup, ReadSucceeded, Read, vars, LeaseStopped, LeaseSetup,
       LeaseSync, LeaseApply, LeaseHandoff, LeaseWrite, Lease, TakeExclusive, domainVars
  <1>2. CASE Leaves(m)
    BY <1>2 DEF Leaves, DropLeases, FailSetup, Close, Unlease, DropExclusive, domainVars
  <1>3. CASE Works(m)
    BY <1>3 DEF Works, Prepare, FinishSync, FinishApply, WriteOther, BeginWrite, Install, Apply, Write, vars, domainVars
  <1> QED BY <1>1, <1>2, <1>3, CallKinds

(* Every step is one of these.                                             *)
LEMMA BatchMoves ==
  ASSUME MaintInv, [MaintNext]_allVars, NEW b \in Batches
  PROVE  BatchMove(b)
  <1> USE DEF callVars, maintVars
  <1>0. CASE batch' = batch /\ intents' = intents
    BY <1>0 DEF BatchMove, Kept
  <1>1. CASE UNCHANGED allVars
    BY <1>0, <1>1 DEF allVars, vars
  <1>2. ASSUME NEW r \in Runs, RunStep(r), UNCHANGED maintVars PROVE BatchMove(b)
    BY <1>0, <1>2, RunStepKinds, RunEffect DEF MaintInv, IInv
  <1>3. ASSUME NEW c \in Batches, NEW sel \in SetupSelection, Review(c, sel), UNCHANGED maintVars
        PROVE  BatchMove(b)
    BY <1>0, <1>3 DEF Review, domainVars
  <1>4. ASSUME NEW m \in Operators, OperatorStep(m) PROVE BatchMove(b)
    BY <1>0, <1>4, CommitMoves, CallsAreQuiet DEF Commits
  <1> QED BY <1>1, <1>2, <1>3, <1>4, RecordMoves DEF MaintNext

(* An intent keeps what it was accepted for, and never stands again.       *)
LEMMA IntentMoves ==
  ASSUME MaintInv, [Next]_vars, NEW b \in Batches
  PROVE  /\ intents[b] # None => /\ intents'[b] # None /\ intents'[b].op = intents[b].op
                                 /\ intents'[b].runs = intents[b].runs /\ intents'[b].resources = intents[b].resources
                                 /\ Standing(b)' => Standing(b)
         /\ intents[b] = None /\ intents'[b] # None => Accept(b)
  <1>1. CASE intents' = intents
    BY <1>1 DEF Standing
  <1>2. CASE intents' # intents
    <2>1. OtherStep
      BY <1>2, NextKinds, RunEffect DEF vars, domainVars, MaintInv, IInv
    <2>2. PICK c \in Batches : IntentStep(c)
      BY <1>2, <2>1 DEF OtherStep, TakeExclusive, DropExclusive, BeginWrite, Bookkeeping, domainVars
    <2>3. intents \in [Batches -> Intents \cup {None}]
      BY DEF MaintInv, IInv, TypeOK
    <2>4. CASE Accept(c)
      BY <2>3, <2>4 DEF Accept, Standing
    <2>5. CASE ~Accept(c)
      <3>1. PICK from \in SUBSET {"active", "dispatched", "unknown"},
                 to \in {"dispatched", "cancelled", "unknown", "completed"} : Transition(c, from, to)
        BY <1>2, <2>2, <2>5 DEF IntentStep, Review, DispatchIntent, CancelIntent, IntentUnknown, Complete, domainVars
      <3>2. /\ intents' = [intents EXCEPT ![c] = [intents[c] EXCEPT !.phase = to]]
            /\ intents[c] \in Intents /\ intents[c].phase \in from
        BY <2>3, <3>1 DEF Transition
      <3>3. [intents[c] EXCEPT !.phase = to] \in Intents
        BY <3>2 DEF Intents
      <3>4. [intents[c] EXCEPT !.phase = to] # None
        BY <3>3, MaintenanceAssumption
      <3>5. CASE b = c
        BY <2>3, <3>2, <3>4, <3>5, MaintenanceAssumption DEF Intents, Standing
      <3>6. CASE b # c
        BY <2>3, <3>2, <3>6 DEF Standing
      <3> QED BY <3>5, <3>6
    <2> QED BY <2>4, <2>5
  <1> QED BY <1>1, <1>2

(* Only setups are reviewed.                                               *)
LEMMA ReviewMoves ==
  ASSUME [MaintNext]_allVars
  PROVE  \/ reviewed' = reviewed \/ reviewed' = Outdated
         \/ \E b \in Batches, sel \in SetupSelection : Review(b, sel)
  <1> USE DEF callVars, maintVars
  <1>1. ASSUME NEW r \in Runs, RunStep(r) PROVE reviewed' = reviewed \/ reviewed' = Outdated
    BY <1>1 DEF RunStep, Reserve, TakeInstance, TakePackage, CheckLaunch, Fail, Cancel, AttachPending, AttachOwner,
       WriteRecord, DispatchOwner, Spawn, Exit, BindPending, BindHost, Observe, FinishOwner, ReleaseOwner,
       MarkUnknown, OwnerUnknown, Crash
  <1>2. ASSUME NEW b \in Batches, BatchStep(b) PROVE reviewed' = reviewed \/ reviewed' = Outdated
    BY <1>2 DEF BatchStep, AcceptSnapshot, Accept, StopUnknown, CancelBatch, DispatchBatch, DispatchIntent,
       CancelIntent, IntentUnknown, Transition, RecordStop, RecordExit, Bookkeeping, vars
  <1>3. ASSUME NEW m \in Operators, OperatorStep(m) PROVE reviewed' = reviewed \/ reviewed' = Outdated
    <2>1. CASE Enters(m) \/ Leaves(m)
      BY <2>1 DEF Enters, Reads, Leases, ReadStopped, ReviewSetup, ReadSucceeded, Read, vars, LeaseStopped, LeaseSetup,
         LeaseSync, LeaseApply, LeaseHandoff, LeaseWrite, Lease, TakeExclusive, Leaves, DropLeases, FailSetup, Close,
         Unlease, DropExclusive
    <2>2. CASE Works(m)
      BY <2>2 DEF Works, Prepare, FinishSync, FinishApply, WriteOther, BeginWrite, Install, Apply, Write, vars
    <2>3. CASE Commits(m)
      BY <2>3 DEF Commits, Confirm, Dispatch, BeginSync, Finish, FinishUnknown, CompleteManual, Complete, IntentUnknown,
         Transition, Bookkeeping
    <2> QED BY <1>3, <2>1, <2>2, <2>3, CallKinds
  <1> QED BY <1>1, <1>2, <1>3 DEF MaintNext, allVars, vars

(* Intents that stand stay apart.                                          *)
LEMMA IntentInvStep ==
  ASSUME MaintInv, [MaintNext]_allVars PROVE IntentInv'
  <1>0. [Next]_vars /\ TypeOK
    BY CoordinationStep DEF MaintInv, IInv
  <1>1. ASSUME NEW b \in Batches, reviewed'[b] # None PROVE reviewed'[b] \in SetupSelection
    BY <1>0, <1>1, ReviewMoves DEF MaintInv, IntentInv, Outdated, Review, TypeOK
  <1>2. ASSUME NEW b \in Batches, intents'[b] # None PROVE intents'[b].op = "setup" /\ intents'[b].runs # {}
    <2>1. CASE intents[b] # None
      BY <1>0, <2>1, IntentMoves DEF MaintInv, IntentInv
    <2>2. CASE intents[b] = None
      <3>1. Accept(b)
        BY <1>0, <1>2, <2>2, IntentMoves
      <3> QED BY <1>0, <3>1 DEF Accept, MaintInv, IntentInv, TypeOK, SetupSelection
    <2> QED BY <2>1, <2>2
  <1>3. ASSUME NEW b \in Batches, NEW c \in Batches, b # c, Accept(b), Standing(c)'
        PROVE  intents'[b].resources \cap intents'[c].resources = {}
    BY <1>0, <1>3 DEF Accept, Unfenced, Standing, TypeOK
  <1>4. ASSUME NEW b \in Batches, NEW c \in Batches, b # c, Standing(b)', Standing(c)'
        PROVE  intents'[b].resources \cap intents'[c].resources = {}
    <2>1. CASE intents[b] = None \/ intents[c] = None
      BY <1>0, <1>3, <1>4, <2>1, IntentMoves DEF Standing
    <2>2. CASE intents[b] # None /\ intents[c] # None
      BY <1>0, <1>4, <2>2, IntentMoves DEF MaintInv, IntentInv, Target
    <2> QED BY <2>1, <2>2
  <1> QED BY <1>1, <1>2, <1>4 DEF IntentInv, Target

(* The batch and its intent.                                               *)
LEMMA OutcomeStep ==
  ASSUME MaintInv, [MaintNext]_allVars PROVE OutcomeKept' /\ DispatchInv'
  <1> SUFFICES ASSUME NEW b \in Batches, batch'[b] # None
               PROVE  /\ batch'[b].phase \in {"unknown", "partial"} <=> intents'[b].phase = "unknown"
                      /\ intents'[b].phase = "completed" <=> batch'[b].manual
                      /\ batch'[b].manual => batch'[b].phase = "maintenance_succeeded"
                      /\ intents'[b].phase = "cancelled" => batch'[b] = Initial
                      /\ batch'[b].phase \in {"accepted", "stop_requested", "stopped_confirmed"}
                           => batch'[b].dispatch = "not_dispatched"
                      /\ batch'[b].phase = "maintenance_dispatch_intent" => batch'[b].dispatch = "dispatch_intent"
                      /\ batch'[b].phase = "maintenance_running" => batch'[b].dispatch = "dispatched"
    BY DEF OutcomeKept, DispatchInv
  <1>1. batch[b] \in Progress \cup {None} /\ (batch[b] # None <=> intents[b] # None)
    BY DEF MaintInv, MaintTypeOK
  <1>2. batch[b] # None =>
          /\ batch[b].phase \in {"unknown", "partial"} <=> intents[b].phase = "unknown"
          /\ intents[b].phase = "completed" <=> batch[b].manual
          /\ batch[b].manual => batch[b].phase = "maintenance_succeeded"
          /\ intents[b].phase = "cancelled" => batch[b] = Initial
          /\ batch[b].phase \in {"accepted", "stop_requested", "stopped_confirmed"}
               => batch[b].dispatch = "not_dispatched"
          /\ batch[b].phase = "maintenance_dispatch_intent" => batch[b].dispatch = "dispatch_intent"
          /\ batch[b].phase = "maintenance_running" => batch[b].dispatch = "dispatched"
    BY DEF MaintInv, OutcomeKept, DispatchInv
  <1>3. BatchMove(b)
    BY BatchMoves
  <1>4. CASE Kept(b)
    BY <1>1, <1>2, <1>4 DEF Kept, Open, Initial
  <1>5. CASE Accepted(b)
    BY <1>5 DEF Accepted, Initial
  <1>6. CASE Recorded(b) \/ LostTrack(b)
    BY <1>1, <1>2, <1>6 DEF Recorded, LostTrack, Stopping, Open, Same
  <1>7. CASE \/ Moved(b, "stopped_confirmed", "maintenance_dispatch_intent", "dispatch_intent")
             \/ Moved(b, "maintenance_dispatch_intent", "maintenance_running", "dispatched")
             \/ Succeeded(b)
    BY <1>1, <1>2, <1>7 DEF Moved, Succeeded, Open
  <1>8. CASE Failed(b) \/ Completed(b)
    BY <1>1, <1>2, <1>8 DEF Failed, Completed, Open
  <1> QED BY <1>3, <1>4, <1>5, <1>6, <1>7, <1>8 DEF BatchMove

-----------------------------------------------------------------------------
(* Types, and the leases of the calls.                                     *)
CallTypes ==
  /\ at \in [Operators -> Stages]
  /\ on \in [Operators -> Batches \cup {None}] /\ seen \in [Operators -> Progress \cup {None}]
  /\ mine \in [Operators -> SUBSET Resources]
  /\ exclusive = UNION {mine[m] : m \in Operators}
  /\ \A m, n \in Operators : m # n => mine[m] \cap mine[n] = {}
  /\ content \in [Resources -> {"before", "partial", "target", "other"}]

(* Leases are taken by a call that has none, and let go by the one that    *)
(* has them.                                                               *)
LEMMA LeaseTypes ==
  ASSUME CallTypes, NEW m \in Operators, mine[m] = {}, NEW R \in SUBSET Resources, R \cap exclusive = {},
         exclusive' = exclusive \cup R, mine' = [mine EXCEPT ![m] = R]
  PROVE  /\ mine' \in [Operators -> SUBSET Resources] /\ exclusive' = UNION {mine'[n] : n \in Operators}
         /\ \A n, o \in Operators : n # o => mine'[n] \cap mine'[o] = {}
  <1>1. \A n \in Operators : mine[n] \subseteq exclusive
    BY DEF CallTypes
  <1>2. \A n \in Operators : mine'[n] = IF n = m THEN R ELSE mine[n]
    BY DEF CallTypes
  <1>3. exclusive' = UNION {mine'[n] : n \in Operators}
    BY <1>2 DEF CallTypes
  <1> QED BY <1>1, <1>2, <1>3 DEF CallTypes

(* They stay apart when they are let go.                                   *)
LEMMA UnleaseTypes ==
  ASSUME CallTypes, NEW m \in Operators, Unlease(m)
  PROVE  /\ mine' \in [Operators -> SUBSET Resources] /\ exclusive' = UNION {mine'[n] : n \in Operators}
         /\ \A n, o \in Operators : n # o => mine'[n] \cap mine'[o] = {}
  <1>1. \A n \in Operators : mine'[n] = IF n = m THEN {} ELSE mine[n]
    BY DEF CallTypes, Unlease
  <1>2. exclusive' = UNION {mine'[n] : n \in Operators}
    BY <1>1 DEF CallTypes, Unlease, DropExclusive
  <1> QED BY <1>1, <1>2 DEF CallTypes, Unlease

(* The commits of a call go from one progress to another.                  *)
LEMMA CommitTypes ==
  ASSUME MaintInv, NEW m \in Operators, Commits(m)
  PROVE  /\ UNCHANGED <<on, mine, content, exclusive, writing, snapshots>>
         /\ on[m] \in Batches /\ seen[m] \in Progress
         /\ \E p \in Progress, from \in Stages, to \in Stages : Commit(m, p, from, to)
  <1>1. UNCHANGED <<on, mine, content, exclusive, writing, snapshots>>
    BY DEF Commits, Confirm, Dispatch, BeginSync, Finish, FinishUnknown, CompleteManual, Commit, Bookkeeping,
       Complete, IntentUnknown, Transition, writeVars
  <1>2. on[m] \in Batches /\ seen[m] \in Progress
    BY DEF Commits, Confirm, Dispatch, BeginSync, Finish, FinishUnknown, CompleteManual, Commit, Current,
       Open, MaintInv, MaintTypeOK
  <1>3. CASE Confirm(m) \/ Dispatch(m) \/ BeginSync(m) \/ Finish(m) \/ CompleteManual(m)
    BY <1>1, <1>2, <1>3 DEF Confirm, Dispatch, BeginSync, Finish, CompleteManual, Stages, Started, Progress, BatchPhases
  <1>4. CASE FinishUnknown(m)
    BY <1>1, <1>2, <1>4 DEF FinishUnknown, Stages, Started, Progress, BatchPhases
  <1> QED BY <1>1, <1>2, <1>3, <1>4 DEF Commits

(* The calls keep their types.                                             *)
LEMMA CallTypeStep ==
  ASSUME MaintInv, [MaintNext]_allVars PROVE CallTypes'
  <1> USE DEF callVars, maintVars
  <1>0. /\ CallTypes /\ batch \in [Batches -> Progress \cup {None}]
        /\ \A m \in Operators : on[m] # None => on[m] \in Batches /\ Target(on[m]) \in SUBSET Resources
        /\ \A m \in Operators : at[m] \in Unleased => mine[m] = {}
    BY DEF MaintInv, MaintTypeOK, CallTypes, PlaceInv, MineOf, IInv, TypeOK, Target, Intents
  <1>1. CASE UNCHANGED allVars
    BY <1>0, <1>1 DEF allVars, vars, writeVars, CallTypes
  <1>2. ASSUME NEW r \in Runs, RunStep(r), UNCHANGED maintVars PROVE CallTypes'
    BY <1>0, <1>2, RunStepKinds, RunEffect DEF MaintInv, IInv, writeVars, CallTypes
  <1>3. ASSUME NEW b \in Batches, NEW sel \in SetupSelection, Review(b, sel), UNCHANGED maintVars PROVE CallTypes'
    BY <1>0, <1>3 DEF Review, writeVars, CallTypes
  <1>4. ASSUME NEW b \in Batches, BatchStep(b) PROVE CallTypes'
    <2>1. UNCHANGED <<exclusive, callVars, content>>
      BY <1>4 DEF BatchStep, AcceptSnapshot, Accept, StopUnknown, CancelBatch, DispatchBatch, DispatchIntent, Record,
         CancelIntent, IntentUnknown, Transition, RecordStop, RecordExit, Bookkeeping, vars, writeVars
    <2> QED BY <1>0, <2>1 DEF CallTypes
  <1>5. ASSUME NEW m \in Operators, OperatorStep(m) PROVE CallTypes'
    <2>1. CASE Reads(m)
      <3>1. PICK b \in Batches, stage \in Stages : Read(m, b, stage)
        BY <2>1 DEF Reads, ReadStopped, ReviewSetup, ReadSucceeded, Stages
      <3> QED BY <1>0, <3>1 DEF Read, Stage, vars, CallTypes
    <2>2. CASE Leases(m)
      <3>1. PICK R \in SUBSET Resources, from \in Stages, to \in Stages : Lease(m, R, from, to)
        BY <1>0, <2>2 DEF Leases, LeaseStopped, LeaseSetup, LeaseSync, LeaseApply, LeaseHandoff, LeaseWrite, Stages, Started
      <3>2. mine[m] = {}
        BY <1>0, <2>2 DEF Leases, LeaseStopped, LeaseSetup, LeaseSync, LeaseApply, LeaseHandoff, LeaseWrite, Lease, Stage, Unleased
      <3>3. R \cap exclusive = {} /\ exclusive' = exclusive \cup R /\ mine' = [mine EXCEPT ![m] = R]
        BY <3>1 DEF Lease, TakeExclusive
      <3> QED BY <1>0, <3>1, <3>2, <3>3, LeaseTypes DEF Lease, Stage, CallTypes
    <2>3. CASE Leaves(m)
      <3>1. Unlease(m) /\ UNCHANGED content
        BY <2>3 DEF Leaves, DropLeases, FailSetup, Close
      <3>2. at' \in [Operators -> Stages] /\ on' \in [Operators -> Batches \cup {None}]
            /\ seen' \in [Operators -> Progress \cup {None}]
        BY <1>0, <2>3 DEF Leaves, DropLeases, FailSetup, Close, CallTypes, Stages, Started
      <3> QED BY <1>0, <3>1, <3>2, UnleaseTypes DEF CallTypes
    <2>4. CASE Commits(m)
      <3>1. PICK p \in Progress, from \in Stages, to \in Stages : Commit(m, p, from, to)
        BY <2>4, CommitTypes
      <3>2. at' \in [Operators -> Stages] /\ seen' \in [Operators -> Progress \cup {None}]
        BY <1>0, <3>1 DEF Commit, Stage, CallTypes, Stages
      <3> QED BY <1>0, <2>4, <3>2, CommitTypes DEF CallTypes
    <2>5. CASE Prepare(m) \/ FinishSync(m) \/ FinishApply(m)
      BY <1>0, <2>5 DEF Prepare, FinishSync, FinishApply, Stage, vars, CallTypes, Stages, Started
    <2>6. CASE WriteOther(m) \/ Install(m) \/ Apply(m)
      <3>1. PICK x \in Resources, to \in {"partial", "other"} :
              content' = [content EXCEPT ![x] = to] /\ UNCHANGED <<exclusive, on, seen, mine>>
        <4>1. CASE WriteOther(m)
          BY <1>0, <4>1 DEF WriteOther, BeginWrite, CallTypes
        <4>2. CASE Install(m) \/ Apply(m)
          BY <4>2 DEF Install, Apply, Write, Resources
        <4> QED BY <2>6, <4>1, <4>2
      <3>2. at' \in [Operators -> Stages]
        BY <1>0, <2>6 DEF WriteOther, Install, Apply, Stage, CallTypes, Stages, Started
      <3> QED BY <1>0, <3>1, <3>2 DEF CallTypes
    <2> QED BY <1>5, <2>1, <2>2, <2>3, <2>4, <2>5, <2>6, CallKinds DEF Enters, Works
  <1> QED BY <1>1, <1>2, <1>3, <1>4, <1>5 DEF MaintNext

(* A batch begins with its acceptance and is never forgotten.              *)
LEMMA InitialType == Initial \in Progress /\ Initial # None
  <1>1. Initial \in Progress
    <2>1. FALSE \in BOOLEAN /\ "accepted" \in BatchPhases
      BY DEF BatchPhases
    <2> QED BY <2>1 DEF Initial, Progress
  <1> QED BY <1>1, MaintenanceAssumption

(* What is recorded keeps its type and is not lost.                        *)
LEMMA BatchTypes ==
  ASSUME MaintInv, [MaintNext]_allVars
  PROVE  /\ batch' \in [Batches -> Progress \cup {None}] /\ snapshots' \subseteq Batches
         /\ snapshots \subseteq snapshots' /\ \A b \in Batches : batch[b] # None => batch'[b] # None
  <1> DEFINE Goal == /\ batch' \in [Batches -> Progress \cup {None}] /\ snapshots' \subseteq Batches
                     /\ snapshots \subseteq snapshots' /\ \A b \in Batches : batch[b] # None => batch'[b] # None
  <1>0. batch \in [Batches -> Progress \cup {None}] /\ snapshots \subseteq Batches
    BY DEF MaintInv, MaintTypeOK
  <1>1. CASE UNCHANGED <<batch, snapshots>>
    BY <1>0, <1>1
  <1>2. ASSUME NEW b \in Batches, NEW p \in Progress, batch' = [batch EXCEPT ![b] = p], snapshots' = snapshots PROVE Goal
    BY <1>0, <1>2, MaintenanceAssumption
  <1>3. ASSUME NEW b \in Batches, BatchStep(b) PROVE Goal
    <2>1. CASE AcceptSnapshot(b)
      BY <1>0, <2>1, InitialType DEF AcceptSnapshot
    <2>2. CASE (\E r \in Runs : RecordStop(b, r) \/ RecordExit(b, r)) \/ StopUnknown(b)
      <3>1. PICK p \in Progress : Record(b, p)
        BY <1>0, <2>2 DEF RecordStop, RecordExit, StopUnknown, Stopping, Progress, BatchPhases
      <3> QED BY <1>2, <3>1 DEF Record
    <2>3. CASE CancelBatch(b) \/ DispatchBatch(b)
      BY <1>1, <2>3 DEF CancelBatch, DispatchBatch, maintVars
    <2> QED BY <1>3, <2>1, <2>2, <2>3 DEF BatchStep
  <1>4. ASSUME NEW m \in Operators, OperatorStep(m) PROVE Goal
    <2>1. CASE Commits(m)
      <3>1. PICK p \in Progress, from \in Stages, to \in Stages : Commit(m, p, from, to)
        BY <2>1, CommitTypes
      <3> QED BY <1>2, <2>1, <3>1, CommitTypes DEF Commit
    <2> QED BY <1>1, <1>4, <2>1, CallsAreQuiet
  <1> QED BY <1>1, <1>3, <1>4 DEF MaintNext, maintVars, allVars

(* Every step preserves the types.                                         *)
LEMMA MaintTypeStep ==
  ASSUME MaintInv, [MaintNext]_allVars PROVE MaintTypeOK'
  <1>1. \A b \in Batches : batch[b] # None <=> intents[b] # None
    BY DEF MaintInv, MaintTypeOK
  <1>2. ASSUME NEW b \in Batches PROVE (batch'[b] # None <=> intents'[b] # None) /\ (batch'[b] # None => b \in snapshots')
    <2>1. CASE batch[b] # None
      BY <1>1, <2>1, BatchTypes, IntentMoves, CoordinationStep DEF MaintInv, MaintTypeOK
    <2>2. CASE batch[b] = None
      <3>1. Initial # None
        BY InitialType
      <3>2. (Kept(b) /\ intents'[b] = intents[b]) \/ Accepted(b)
        BY <1>1, <2>2, <3>1, BatchMoves DEF BatchMove, Kept, Open, Recorded, LostTrack, Stopping, Moved,
           Succeeded, Failed, Completed
      <3> QED BY <1>1, <2>2, <3>1, <3>2 DEF Kept, Accepted
    <2> QED BY <2>1, <2>2
  <1> QED BY <1>2, CallTypeStep, BatchTypes DEF MaintTypeOK, CallTypes

-----------------------------------------------------------------------------
(* What a step can write.                                                  *)

(* Where a batch stands, only an admitted setup of its own writes anything *)
(* that is not its target.                                                 *)
WritesAt(m, x) == \/ at[m] = "sync_admitted" /\ x \in Packages
                  \/ at[m] = "apply_ready" /\ x \in Scopes

(* Stated of one resource of one standing batch.                           *)
LEMMA WriteMoves ==
  ASSUME MaintInv, [MaintNext]_allVars, NEW b \in Batches, Standing(b), NEW x \in Target(b),
         \/ x \in writing' \ writing
         \/ content'[x] # content[x] /\ content'[x] # "target"
  PROVE  \E m \in Operators : on[m] = b /\ WritesAt(m, x) /\ OperatorStep(m)
  <1>0. x \in Resources
    BY DEF MaintInv, IInv, TypeOK, Intents, Target, Standing
  <1>1. ~(writing' \subseteq writing /\ content' = content)
    OBVIOUS
  <1>2. PICK m \in Operators : OperatorStep(m)
    <2>1. ASSUME NEW r \in Runs, RunStep(r), UNCHANGED maintVars PROVE FALSE
      BY <1>1, <2>1, RunStepKinds, RunEffect DEF MaintInv, IInv, writeVars, maintVars
    <2>2. ASSUME NEW c \in Batches, BatchStep(c) PROVE FALSE
      BY <1>1, <2>2 DEF BatchStep, AcceptSnapshot, Accept, StopUnknown, CancelBatch, DispatchBatch, DispatchIntent,
         Record, CancelIntent, IntentUnknown, Transition, RecordStop, RecordExit, Bookkeeping, vars, writeVars,
         maintVars
    <2>3. ASSUME NEW c \in Batches, NEW sel \in SetupSelection, Review(c, sel), UNCHANGED maintVars PROVE FALSE
      BY <1>1, <2>3 DEF Review, writeVars, maintVars
    <2> QED BY <1>1, <2>1, <2>2, <2>3 DEF MaintNext, allVars, vars, maintVars
  <1>3. ~Commits(m)
    BY <1>1, <1>2, CommitTypes
  <1>4. CASE Enters(m)
    BY <1>1, <1>4 DEF Enters, Reads, Leases, ReadStopped, ReviewSetup, ReadSucceeded, Read, vars, LeaseStopped, LeaseSetup, LeaseSync,
       LeaseApply, LeaseHandoff, LeaseWrite, Lease, TakeExclusive
  <1>5. CASE Leaves(m)
    BY <1>1, <1>5 DEF Leaves, DropLeases, FailSetup, Close, Unlease, DropExclusive
  <1>6. CASE Prepare(m) \/ FinishSync(m) \/ FinishApply(m)
    BY <1>0, <1>6 DEF Prepare, FinishSync, FinishApply, vars
  <1>7. CASE WriteOther(m)
    <2>1. PICK y \in mine[m] : BeginWrite(y, None) /\ content' = [content EXCEPT ![y] = "other"]
      BY <1>7 DEF WriteOther
    <2>2. x = y
      BY <2>1 DEF BeginWrite, MaintInv, MaintTypeOK
    <2> QED BY <2>1, <2>2, CoordinationAssumption DEF BeginWrite, UnfencedBut, Target
  <1>8. CASE Install(m) \/ Apply(m)
    <2>1. PICK y \in Target(on[m]) : /\ WritesAt(m, y) /\ writing' = writing \cup {y}
                                     /\ content' = [content EXCEPT ![y] = "partial"]
      <3>1. CASE Install(m)
        <4>1. PICK y \in Target(on[m]) \cap Packages : Write(y, "partial")
          BY <3>1 DEF Install
        <4>2. at[m] = "sync_admitted"
          BY <3>1 DEF Install, Stage
        <4>3. writing' = writing \cup {y} /\ content' = [content EXCEPT ![y] = "partial"]
          BY <4>1 DEF Write
        <4>4. y \in Target(on[m]) /\ WritesAt(m, y)
          BY <4>1, <4>2 DEF WritesAt
        <4> QED BY <4>3, <4>4
      <3>2. CASE Apply(m)
        <4>1. PICK y \in Target(on[m]) \cap Scopes : Write(y, "partial")
          BY <3>2 DEF Apply
        <4> QED BY <3>2, <4>1 DEF Apply, Stage, Write, WritesAt
      <3> QED BY <1>8, <3>1, <3>2
    <2>2. x = y
      BY <1>0, <2>1 DEF MaintInv, MaintTypeOK
    <2>3. on[m] \in Batches /\ Standing(on[m])
      BY <2>1 DEF WritesAt, MaintInv, PlaceInv, MineOf, AloneOf, Setup, Admitted, Started, Open, Standing, MaintTypeOK
    <2>4. on[m] = b
      BY <2>1, <2>2, <2>3 DEF MaintInv, IntentInv
    <2> QED BY <1>2, <2>1, <2>2, <2>4
  <1> QED BY <1>2, <1>3, <1>4, <1>5, <1>6, <1>7, <1>8, CallKinds DEF Works

(* What is being written stays so until the one who leased it lets go.     *)
LEMMA WritesEnd ==
  ASSUME MaintInv, [MaintNext]_allVars, NEW x \in writing, x \notin writing'
  PROVE  \E m \in Operators : x \in mine[m] /\ OperatorStep(m)
  <1>1. PICK m \in Operators : OperatorStep(m)
    <2>1. ASSUME NEW r \in Runs, RunStep(r), UNCHANGED maintVars PROVE FALSE
      BY <2>1, RunStepKinds, RunEffect DEF MaintInv, IInv, writeVars, maintVars
    <2>2. ASSUME NEW c \in Batches, BatchStep(c) PROVE FALSE
      BY <2>2 DEF BatchStep, AcceptSnapshot, Accept, StopUnknown, CancelBatch, DispatchBatch, DispatchIntent,
         Record, CancelIntent, IntentUnknown, Transition, RecordStop, RecordExit, Bookkeeping, vars, writeVars
    <2>3. ASSUME NEW c \in Batches, NEW sel \in SetupSelection, Review(c, sel), UNCHANGED maintVars PROVE FALSE
      BY <2>3 DEF Review, writeVars
    <2> QED BY <2>1, <2>2, <2>3 DEF MaintNext, allVars, vars
  <1>2. CASE Leaves(m)
    BY <1>1, <1>2 DEF Leaves, DropLeases, FailSetup, Close, Unlease, DropExclusive
  <1>3. CASE Enters(m)
    BY <1>3 DEF Enters, Reads, Leases, ReadStopped, ReviewSetup, ReadSucceeded, Read, vars, LeaseStopped, LeaseSetup, LeaseSync,
       LeaseApply, LeaseHandoff, LeaseWrite, Lease, TakeExclusive
  <1>4. CASE Works(m)
    BY <1>4 DEF Works, Prepare, FinishSync, FinishApply, WriteOther, BeginWrite, Install, Apply, Write, vars
  <1> QED BY <1>1, <1>2, <1>3, <1>4, CommitTypes, CallKinds

(* A call is changed by its own steps only.                                *)
LEMMA OwnSteps ==
  ASSUME MaintInv, [MaintNext]_allVars, NEW n \in Operators, ~OperatorStep(n)
  PROVE  UNCHANGED <<at[n], on[n], seen[n], mine[n]>>
  <1> DEFINE Goal == UNCHANGED <<at[n], on[n], seen[n], mine[n]>>
  <1>1. ASSUME NEW c \in Batches, BatchStep(c) PROVE Goal
    BY <1>1 DEF BatchStep, AcceptSnapshot, StopUnknown, CancelBatch, DispatchBatch, Record, RecordStop, RecordExit,
       callVars, maintVars
  <1>2. ASSUME NEW m \in Operators, OperatorStep(m) PROVE Goal
    <2>0. m # n /\ CallTypes
      BY <1>2 DEF MaintInv, MaintTypeOK, CallTypes
    <2>1. CASE Enters(m)
      BY <2>0, <2>1 DEF Enters, Reads, Leases, ReadStopped, ReviewSetup, ReadSucceeded, Read, LeaseStopped, LeaseSetup, LeaseSync,
         LeaseApply, LeaseHandoff, LeaseWrite, Lease, Stage, CallTypes
    <2>2. CASE Leaves(m)
      BY <2>0, <2>2 DEF Leaves, DropLeases, FailSetup, Close, Unlease, CallTypes
    <2>3. CASE Works(m)
      BY <2>0, <2>3 DEF Works, Prepare, FinishSync, FinishApply, WriteOther, Install, Apply, Write, Stage, callVars, CallTypes
    <2>4. CASE Commits(m)
      <3>1. PICK p \in Progress, from \in Stages, to \in Stages : Commit(m, p, from, to)
        BY <2>4, CommitTypes
      <3> QED BY <2>0, <3>1 DEF Commit, Stage, CallTypes
    <2> QED BY <1>2, <2>1, <2>2, <2>3, <2>4, CallKinds
  <1> QED BY <1>1, <1>2 DEF MaintNext, allVars, maintVars

-----------------------------------------------------------------------------
(* The calls keep what they know while others move.                        *)

(* A batch with one target has one instance and one package.               *)
LEMMA OneOfEach ==
  ASSUME MaintInv, NEW b \in Batches, intents[b] # None, OneTarget(b)
  PROVE  \E s \in Scopes, p \in Packages : Target(b) = {s, p}
  <1>1. PICK r \in intents[b].runs : TRUE
    BY DEF MaintInv, IntentInv
  <1>2. r \in Runs /\ Needs(r) = Target(b)
    BY <1>1 DEF OneTarget, MaintInv, IInv, TypeOK, Intents
  <1> QED BY <1>2, CoordinationAssumption DEF Needs

(* The target of a call that has a batch never changes.                    *)
LEMMA TargetKept ==
  ASSUME MaintInv, [MaintNext]_allVars, NEW b \in Batches, intents[b] # None
  PROVE  intents'[b] # None /\ Target(b)' = Target(b) /\ OneTarget(b)' = OneTarget(b)
  BY IntentMoves, CoordinationStep DEF Target, OneTarget

(* Its leases and its batch.                                               *)
LEMMA BystanderMine ==
  ASSUME MaintInv, [MaintNext]_allVars, NEW n \in Operators, ~OperatorStep(n)
  PROVE  MineOf(n)'
  <1>1. UNCHANGED <<at[n], on[n], seen[n], mine[n]>> /\ MineOf(n) /\ on[n] \in Batches \cup {None}
    BY OwnSteps DEF MaintInv, PlaceInv, MaintTypeOK
  <1>2. on[n] # None => intents'[on[n]] # None /\ Target(on[n])' = Target(on[n]) /\ OneTarget(on[n])' = OneTarget(on[n])
    BY <1>1, TargetKept DEF MineOf
  <1>3. at[n] \in {"sync_entering", "sync_admitted", "sync_running", "sync_done", "apply_ready", "apply_running",
                   "apply_done"} => at[n] \in Setup
    BY DEF Setup, Started
  <1> QED BY <1>1, <1>2, <1>3 DEF MineOf, Target, OneTarget

(* Nobody enters its target and nobody records over it.                    *)
LEMMA BystanderAlone ==
  ASSUME MaintInv, [MaintNext]_allVars, NEW n \in Operators, ~OperatorStep(n)
  PROVE  AloneOf(n)'
  <1>1. UNCHANGED <<at[n], on[n], seen[n], mine[n]>> /\ MineOf(n) /\ AloneOf(n) /\ on[n] \in Batches \cup {None}
    BY OwnSteps DEF MaintInv, PlaceInv, MaintTypeOK
  <1> SUFFICES ASSUME at[n] \in Admitted PROVE AloneOf(n)'
    BY <1>1 DEF AloneOf
  <1> DEFINE b == on[n]
  <1>2. b \in Batches /\ intents[b] # None /\ batch[b] # None /\ Open(b) /\ Standing(b)
    BY <1>1 DEF MineOf, AloneOf, Setup, Admitted, Open, Standing, MaintInv, MaintTypeOK
  <1>3. ~\E m \in Operators : on[m] = b /\ at[m] \in Admitted /\ m # n
    BY DEF MaintInv, Unique
  <1>4. batch[b] = seen[n] /\ batch[b].phase = "maintenance_running" /\ batch[b] # Initial
    BY <1>1 DEF AloneOf, Initial
  <1>5. Kept(b)
    <2>1. ~Succeeded(b) /\ ~Failed(b)
      BY <1>1, <1>3 DEF Succeeded, Failed, Admitted, Started
    <2> QED BY <1>2, <1>4, <2>1, BatchMoves DEF BatchMove, Accepted, Recorded, LostTrack, Stopping, Moved, Completed
  <1>6. batch'[b] = seen'[n] /\ seen'[n].phase = "maintenance_running" /\ Open(b)'
    BY <1>1, <1>2, <1>4, <1>5 DEF Kept, Open
  <1>7. intents'[b].resources = intents[b].resources
    BY <1>2, IntentMoves, CoordinationStep
  <1>8. Active(Target(b))' = {}
    <2>1. ASSUME NEW r \in Runs, Needs(r) \cap intents[b].resources # {} PROVE Ended(r)'
      <3>1. Ended(r)
        BY <1>1, <2>1 DEF AloneOf, Active, Target
      <3> QED BY <1>2, <2>1, <3>1, FenceEffect, CoordinationStep DEF MaintInv, IInv
    <2> QED BY <1>1, <1>7, <2>1 DEF Active, Target, Needs
  <1>9. writing' \cap Target(b) \subseteq mine[n]
    <2>1. ASSUME NEW x \in Target(b), x \in writing' \ writing PROVE FALSE
      BY <1>2, <1>3, <2>1, WriteMoves DEF WritesAt, Admitted, Started
    <2> QED BY <1>1, <2>1 DEF AloneOf
  <1> QED BY <1>1, <1>6, <1>7, <1>8, <1>9 DEF AloneOf, Target

(* What it installed stays.                                                *)
LEMMA BystanderContent ==
  ASSUME MaintInv, [MaintNext]_allVars, NEW n \in Operators, ~OperatorStep(n)
  PROVE  ContentOf(n)'
  <1>1. /\ UNCHANGED <<at[n], on[n], seen[n], mine[n]>> /\ on[n] \in Batches \cup {None}
        /\ MineOf(n) /\ AloneOf(n) /\ ContentOf(n)
    BY OwnSteps DEF MaintInv, PlaceInv, MaintTypeOK
  <1> SUFFICES ASSUME at[n] \in Started PROVE ContentOf(n)'
    BY <1>1 DEF ContentOf, Started
  <1> DEFINE b == on[n]
  <1>2. b \in Batches /\ intents[b] # None /\ Standing(b) /\ Target(b)' = Target(b)
    BY <1>1, TargetKept DEF MineOf, AloneOf, Setup, Admitted, Open, Standing
  <1>3. ~\E m \in Operators : on[m] = b /\ at[m] \in Admitted /\ m # n
    BY DEF MaintInv, Unique, Admitted
  <1>4. ASSUME NEW x \in Target(b), content[x] = "target" PROVE content'[x] = "target"
    BY <1>2, <1>3, <1>4, WriteMoves DEF WritesAt, Admitted, Started
  <1>5. ASSUME NEW x \in mine[n], x \in writing PROVE x \in writing'
    BY <1>5, WritesEnd DEF MaintInv, MaintTypeOK
  <1>6. at[n] = "sync_running" => Target(b) \cap Packages \subseteq mine[n] /\ Target(b) \cap Packages \subseteq writing
    BY <1>1 DEF MineOf, ContentOf
  <1>7. at[n] = "apply_running" => Target(b) \cap Scopes \subseteq mine[n] /\ Target(b) \cap Scopes \subseteq writing
    BY <1>1 DEF MineOf, ContentOf
  <1>8. /\ at[n] \in {"sync_done", "synced", "apply_ready", "apply_running", "apply_done", "applied"} =>
             \A x \in Target(b) \cap Packages : content'[x] = "target"
        /\ at[n] \in {"apply_done", "applied"} => \A x \in Target(b) \cap Scopes : content'[x] = "target"
    BY <1>1, <1>4 DEF ContentOf
  <1> QED BY <1>1, <1>2, <1>5, <1>6, <1>7, <1>8 DEF ContentOf, Target

-----------------------------------------------------------------------------
(* The calls keep what they know by their own steps.                       *)
PlaceOf(n) == MineOf(n) /\ AloneOf(n) /\ ContentOf(n)

(* What a call without leases, admitted or not, has to know.               *)
LEMMA ReadPlace ==
  ASSUME MaintInv, NEW n \in Operators, Reads(n)
  PROVE  PlaceOf(n)'
  <1>1. PICK b \in Batches : ReadStopped(n, b) \/ ReviewSetup(n, b) \/ ReadSucceeded(n, b)
    BY DEF Reads
  <1>2. /\ mine'[n] = {} /\ on'[n] = b /\ at'[n] \in {"confirming", "reviewed", "handing"}
        /\ intents' = intents /\ intents[b] # None
        /\ at'[n] = "reviewed" => OneTarget(b)
    BY <1>1 DEF ReadStopped, ReviewSetup, ReadSucceeded, MayConfirm, Stopping, Open, Read, Stage, vars, MaintInv,
       PlaceInv, MineOf, Unleased, MaintTypeOK
  <1>3. MineOf(n)'
    <2>1. on'[n] # None => intents'[on'[n]] # None
      BY <1>2
    <2>2. at'[n] \in Setup => on'[n] # None /\ OneTarget(on[n])'
      <3>1. b # None
        BY CoordinationAssumption
      <3> QED BY <1>2, <3>1 DEF Setup, Started, OneTarget, Target
    <2> QED BY <1>2, <2>1, <2>2 DEF MineOf
  <1> QED BY <1>2, <1>3 DEF PlaceOf, AloneOf, ContentOf, Admitted, Started

(* Leases, taken for the target or for a part of it.                       *)
LEMMA LeasePlace ==
  ASSUME MaintInv, NEW n \in Operators, Leases(n)
  PROVE  PlaceOf(n)'
  <1>1. PlaceOf(n) /\ at \in [Operators -> Stages] /\ mine \in [Operators -> SUBSET Resources]
    BY DEF MaintInv, PlaceInv, PlaceOf, MaintTypeOK
  <1>2. UNCHANGED <<phase, intents, writing, batch, on, seen, content>>
    BY DEF Leases, LeaseStopped, LeaseSetup, LeaseSync, LeaseApply, LeaseHandoff, LeaseWrite, Lease, TakeExclusive, domainVars
  <1>3. CASE LeaseStopped(n) \/ LeaseHandoff(n) \/ \E x \in Resources : LeaseWrite(n, x)
    <2>1. at'[n] \in {"confirming", "completing", "writing"}
      BY <1>1, <1>3 DEF LeaseStopped, LeaseHandoff, LeaseWrite, Lease, Stage
    <2> QED BY <1>1, <1>2, <2>1 DEF PlaceOf, MineOf, AloneOf, ContentOf, Unleased, Admitted, Setup, Started
  <1>4. CASE LeaseSetup(n) \/ LeaseSync(n)
    <2>1. /\ at[n] \in {"reviewed", "prepared"} /\ at'[n] \in {"dispatching", "sync_entering"}
          /\ mine'[n] = Target(on[n])
      BY <1>1, <1>4 DEF LeaseSetup, LeaseSync, Lease, Stage
    <2> QED BY <1>1, <1>2, <2>1 DEF PlaceOf, MineOf, AloneOf, ContentOf, Unleased, Admitted, Setup, Started, Target,
               OneTarget
  <1>5. CASE LeaseApply(n)
    <2>1. at[n] = "synced" /\ at'[n] = "apply_ready" /\ mine[n] = {} /\ mine'[n] = Target(on[n]) \cap Scopes
      BY <1>1, <1>5 DEF LeaseApply, Lease, Stage, PlaceOf, MineOf, Unleased
    <2>2. MineOf(n)'
      BY <1>1, <1>2, <2>1 DEF PlaceOf, MineOf, Unleased, Setup, Started, Target, OneTarget
    <2>3. AloneOf(n)'
      BY <1>1, <1>2, <2>1 DEF PlaceOf, AloneOf, Admitted, Started, Target, Open, Active, Ended, Needs
    <2>4. ContentOf(n)'
      BY <1>1, <1>2, <2>1 DEF PlaceOf, ContentOf, Target
    <2> QED BY <2>2, <2>3, <2>4 DEF PlaceOf
  <1> QED BY <1>3, <1>4, <1>5 DEF Leases

(* Leases let go: then nothing of the target is being written.             *)
LEMMA UnleasePlace ==
  ASSUME MaintInv, NEW n \in Operators, Leaves(n)
  PROVE  PlaceOf(n)'
  <1>1. PlaceOf(n) /\ at \in [Operators -> Stages] /\ mine \in [Operators -> SUBSET Resources]
        /\ on \in [Operators -> Batches \cup {None}]
    BY DEF MaintInv, PlaceInv, PlaceOf, MaintTypeOK
  <1>2. UNCHANGED <<phase, intents, batch, content>> /\ mine'[n] = {} /\ writing' = writing \ mine[n]
    BY <1>1 DEF Leaves, DropLeases, FailSetup, Close, Unlease, DropExclusive, domainVars
  <1>3. CASE Close(n)
    <2>1. at'[n] = "idle" /\ on'[n] = None
      BY <1>1, <1>3 DEF Close
    <2> QED BY <1>1, <1>2, <2>1 DEF PlaceOf, MineOf, AloneOf, ContentOf, Unleased, Admitted, Setup, Started
  <1>4. CASE DropLeases(n) \/ FailSetup(n)
    <2>1. /\ UNCHANGED <<on, seen>>
          /\ \/ at[n] = "issued" /\ at'[n] = "permitted"
             \/ at[n] = "sync_done" /\ at'[n] = "synced"
             \/ at[n] = "apply_done" /\ at'[n] = "applied"
             \/ at[n] \in Started /\ at'[n] = "failed"
      BY <1>1, <1>4 DEF DropLeases, FailSetup
    <2>2. MineOf(n)'
      BY <1>1, <1>2, <2>1 DEF PlaceOf, MineOf, Unleased, Setup, Started, Target, OneTarget
    <2>3. AloneOf(n)'
      BY <1>1, <1>2, <2>1 DEF PlaceOf, AloneOf, Admitted, Started, Target, Open, Active, Ended, Needs
    <2>4. ContentOf(n)'
      BY <1>1, <1>2, <2>1 DEF PlaceOf, ContentOf, Target
    <2> QED BY <2>2, <2>3, <2>4 DEF PlaceOf
  <1> QED BY <1>3, <1>4 DEF Leaves

(* Commits: an admission has checked that it is alone.                     *)
LEMMA CommitPlace ==
  ASSUME MaintInv, [MaintNext]_allVars, NEW n \in Operators, Commits(n)
  PROVE  PlaceOf(n)'
  <1>1. /\ PlaceOf(n) /\ at \in [Operators -> Stages] /\ batch \in [Batches -> Progress \cup {None}]
        /\ seen \in [Operators -> Progress \cup {None}] /\ on[n] \in Batches /\ UNCHANGED <<on, mine, content, writing>>
        /\ intents[on[n]] # None
    BY CommitTypes, CoordinationAssumption DEF MaintInv, PlaceInv, PlaceOf, MineOf, MaintTypeOK
  <1>2. intents'[on[n]] # None /\ Target(on[n])' = Target(on[n]) /\ OneTarget(on[n])' = OneTarget(on[n])
    BY <1>1, TargetKept
  <1>3. CASE at'[n] = "closing"
    BY <1>1, <1>2, <1>3 DEF PlaceOf, MineOf, AloneOf, ContentOf, Unleased, Admitted, Setup, Started
  <1>4. CASE Dispatch(n) /\ at'[n] # "closing"
    <2>1. at[n] = "dispatching" /\ at'[n] = "issued"
      BY <1>1, <1>4 DEF Dispatch, Commit, Stage
    <2> QED BY <1>1, <1>2, <2>1 DEF PlaceOf, MineOf, AloneOf, ContentOf, Unleased, Admitted, Setup, Started, OneTarget,
               Target
  <1>5. CASE BeginSync(n) /\ at'[n] # "closing"
    <2>1. at[n] = "sync_entering" /\ at'[n] = "sync_admitted" /\ Open(on[n]) /\ HoldReleased(on[n])
      BY <1>1, <1>5 DEF BeginSync, Current, Commit, Stage
    <2>2. UNCHANGED <<phase, intents>>
      BY <1>5 DEF BeginSync, Bookkeeping, domainVars
    <2>3. batch'[on[n]] = seen'[n] /\ seen'[n].phase = "maintenance_running"
      <3>1. seen[n] \in Progress
        BY CommitTypes
      <3>2. PICK p \in Progress : p.phase = "maintenance_running" /\ Commit(n, p, "sync_entering", "sync_admitted")
        BY <1>5, <3>1 DEF BeginSync, Progress, BatchPhases
      <3> QED BY <1>1, <1>5, <3>2 DEF Commit, Stage
    <2>4. MineOf(n)'
      BY <1>1, <1>2, <2>1 DEF PlaceOf, MineOf, Unleased, Setup, Started, OneTarget, Target
    <2>5. AloneOf(n)'
      BY <1>1, <1>2, <2>1, <2>2, <2>3 DEF PlaceOf, MineOf, AloneOf, HoldReleased, Open, Active, Ended, Needs, Target
    <2> QED BY <2>1, <2>4, <2>5 DEF PlaceOf, ContentOf
  <1>6. CASE ~(Dispatch(n) \/ BeginSync(n))
    BY <1>1, <1>3, <1>6 DEF Commits, Confirm, Finish, FinishUnknown, CompleteManual, Commit, Stage
  <1> QED BY <1>3, <1>4, <1>5, <1>6

(* Writing: the one package, then the one instance.                        *)
LEMMA WritePlace ==
  ASSUME MaintInv, NEW n \in Operators, Works(n)
  PROVE  PlaceOf(n)'
  <1>1. PlaceOf(n) /\ at \in [Operators -> Stages] /\ content \in [Resources -> {"before", "partial", "target", "other"}]
    BY DEF MaintInv, PlaceInv, PlaceOf, MaintTypeOK
  <1>2. UNCHANGED <<phase, intents, batch, on, seen, mine>>
    BY DEF Works, Prepare, Install, FinishSync, Apply, FinishApply, WriteOther, BeginWrite, Write, callVars, vars, domainVars
  <1>3. CASE Prepare(n) \/ WriteOther(n)
    <2>1. \/ at[n] = "permitted" /\ at'[n] = "prepared"
          \/ at[n] = "writing" /\ at'[n] = "writing"
      BY <1>1, <1>3 DEF Prepare, WriteOther, Stage, callVars
    <2> QED BY <1>1, <1>2, <2>1 DEF PlaceOf, MineOf, AloneOf, ContentOf, Unleased, Admitted, Setup, Started, OneTarget,
               Target
  <1>4. ASSUME Install(n) \/ FinishSync(n) \/ Apply(n) \/ FinishApply(n) PROVE PlaceOf(n)'
    <2>1. \/ Install(n) /\ at[n] = "sync_admitted" /\ at'[n] = "sync_running"
          \/ FinishSync(n) /\ at[n] = "sync_running" /\ at'[n] = "sync_done"
          \/ Apply(n) /\ at[n] = "apply_ready" /\ at'[n] = "apply_running"
          \/ FinishApply(n) /\ at[n] = "apply_running" /\ at'[n] = "apply_done"
      BY <1>1, <1>4 DEF Install, FinishSync, Apply, FinishApply, Stage
    <2>2. PICK s \in Scopes, p \in Packages : Target(on[n]) = {s, p} /\ s \notin Packages /\ p \notin Scopes
      <3>1. on[n] \in Batches /\ intents[on[n]] # None /\ OneTarget(on[n])
        BY <1>1, <2>1 DEF PlaceOf, MineOf, Setup, Started, MaintInv, MaintTypeOK
      <3> QED BY <3>1, OneOfEach, CoordinationAssumption
    <2>3. {s, p} \subseteq Resources
      BY DEF Resources
    <2>4. MineOf(n)'
      BY <1>1, <1>2, <2>1 DEF PlaceOf, MineOf, Unleased, Setup, Started, OneTarget, Target
    <2>5. writing' \cap Target(on[n]) \subseteq mine[n]
      <3>1. writing \cap Target(on[n]) \subseteq mine[n]
        BY <1>1, <2>1 DEF PlaceOf, AloneOf, Admitted, Started
      <3>2. CASE Install(n)
        BY <1>1, <3>1, <3>2 DEF Install, Stage, Write, PlaceOf, MineOf
      <3>3. CASE Apply(n)
        BY <1>1, <3>1, <3>3 DEF Apply, Stage, Write, PlaceOf, MineOf
      <3>4. CASE FinishSync(n) \/ FinishApply(n)
        BY <3>1, <3>4 DEF FinishSync, FinishApply, vars
      <3> QED BY <2>1, <3>2, <3>3, <3>4
    <2>6. AloneOf(n)'
      BY <1>1, <1>2, <2>1, <2>5 DEF PlaceOf, AloneOf, Admitted, Started, Target, Open, Active, Ended, Needs
    <2>7. Target(on[n])' = {s, p}
      BY <1>2, <2>2 DEF Target
    <2>8. CASE Install(n) /\ at'[n] = "sync_running"
      <3>1. p \in writing'
        BY <2>2, <2>8 DEF Install, Write
      <3> QED BY <2>2, <2>4, <2>6, <2>7, <2>8, <3>1 DEF PlaceOf, ContentOf
    <2>9. CASE FinishSync(n) /\ at[n] = "sync_running" /\ at'[n] = "sync_done"
      <3>1. p \in writing \cap mine[n]
        BY <1>1, <2>2, <2>9 DEF PlaceOf, MineOf, ContentOf
      <3>2. content'[p] = "target"
        BY <2>3, <2>9, <3>1 DEF FinishSync
      <3> QED BY <2>2, <2>4, <2>6, <2>7, <2>9, <3>2 DEF PlaceOf, ContentOf
    <2>10. CASE Apply(n) /\ at[n] = "apply_ready" /\ at'[n] = "apply_running"
      <3>1. s \in writing' /\ content'[p] = content[p]
        BY <1>1, <2>2, <2>3, <2>10 DEF Apply, Write
      <3>2. content[p] = "target"
        BY <1>1, <2>2, <2>10 DEF PlaceOf, ContentOf
      <3> QED BY <2>2, <2>4, <2>6, <2>7, <2>10, <3>1, <3>2 DEF PlaceOf, ContentOf
    <2>11. CASE FinishApply(n) /\ at[n] = "apply_running" /\ at'[n] = "apply_done"
      <3>1. s \in writing \cap mine[n] /\ content[p] = "target"
        BY <1>1, <2>2, <2>11 DEF PlaceOf, MineOf, ContentOf
      <3>2. content'[s] = "target" /\ content'[p] = "target"
        BY <2>3, <2>11, <3>1 DEF FinishApply
      <3> QED BY <2>2, <2>4, <2>6, <2>7, <2>11, <3>2 DEF PlaceOf, ContentOf
    <2> QED BY <2>1, <2>8, <2>9, <2>10, <2>11
  <1> QED BY <1>3, <1>4 DEF Works

(* Every call, whoever takes the step.                                     *)
LEMMA PlaceInvStep ==
  ASSUME MaintInv, [MaintNext]_allVars PROVE PlaceInv'
  <1>1. ASSUME NEW n \in Operators PROVE PlaceOf(n)'
    <2>1. CASE OperatorStep(n)
      BY <2>1, ReadPlace, LeasePlace, UnleasePlace, CommitPlace, WritePlace, CallKinds DEF Enters
    <2> QED BY <2>1, BystanderMine, BystanderAlone, BystanderContent DEF PlaceOf
  <1> QED BY <1>1 DEF PlaceInv, PlaceOf

-----------------------------------------------------------------------------
(* Two setups of one batch never get that far: only BeginSync admits one,  *)
(* and the batch it reads says that none has been.                         *)
LEMMA Admission ==
  ASSUME MaintInv, [MaintNext]_allVars, NEW m \in Operators, at'[m] \in Admitted
  PROVE  on'[m] = on[m] /\ (at[m] \in Admitted \/ (OperatorStep(m) /\ BeginSync(m)))
  <1>1. CASE ~OperatorStep(m)
    BY <1>1, OwnSteps
  <1>2. CASE OperatorStep(m)
    <2>0. at \in [Operators -> Stages]
      BY DEF MaintInv, MaintTypeOK
    <2>1. CASE Enters(m)
      BY <2>0, <2>1 DEF Enters, Reads, Leases, ReadStopped, ReviewSetup, ReadSucceeded, Read, LeaseStopped, LeaseSetup, LeaseSync, LeaseApply,
         LeaseHandoff, LeaseWrite, Lease, Stage, Admitted, Started
    <2>2. CASE Leaves(m)
      BY <2>0, <2>2 DEF Leaves, DropLeases, FailSetup, Close, Admitted, Started
    <2>3. CASE Works(m)
      BY <2>0, <2>3 DEF Works, Prepare, FinishSync, FinishApply, WriteOther, Install, Apply, Write, Stage, callVars, Admitted,
         Started
    <2>4. CASE Commits(m)
      <3>1. on' = on
        BY <2>4, CommitTypes
      <3>2. CASE ~BeginSync(m)
        BY <2>0, <2>4, <3>2 DEF Commits, Confirm, Dispatch, Finish, FinishUnknown, CompleteManual, Commit, Stage,
           Admitted, Started
      <3> QED BY <1>2, <3>1, <3>2
    <2> QED BY <1>2, <2>1, <2>2, <2>3, <2>4, CallKinds
  <1> QED BY <1>1, <1>2

(* No second setup of a batch is admitted.                                 *)
LEMMA UniqueStep ==
  ASSUME MaintInv, [MaintNext]_allVars PROVE Unique'
  <1> SUFFICES ASSUME NEW m \in Operators, NEW n \in Operators, m # n,
                      at'[m] \in Admitted, at'[n] \in Admitted, on'[m] = on'[n]
               PROVE  FALSE
    BY DEF Unique, Admitted, Started
  <1>0. at \in [Operators -> Stages] /\ on[m] = on[n]
    BY Admission DEF MaintInv, MaintTypeOK
  <1>1. ASSUME NEW k \in Operators, NEW l \in Operators, k # l, on[k] = on[l], at[l] \in Admitted, BeginSync(k)
        PROVE  FALSE
    BY <1>1 DEF BeginSync, Current, MaintInv, PlaceInv, AloneOf
  <1>2. CASE at[m] \in Admitted \/ at[n] \in Admitted
    BY <1>0, <1>1, <1>2, Admission DEF MaintInv, Unique
  <1>3. CASE at[m] \notin Admitted /\ at[n] \notin Admitted
    <2>1. BeginSync(m)
      BY <1>3, Admission
    <2>2. at'[n] = at[n]
      BY <1>0, <2>1 DEF BeginSync, Commit, Stage
    <2> QED BY <1>3, <2>2
  <1> QED BY <1>2, <1>3

(* What a setup installed is still there when it is recorded as a success, *)
(* and until the intent ends.                                              *)
LEMMA SuccessStep ==
  ASSUME MaintInv, [MaintNext]_allVars PROVE SuccessHolds'
  <1> SUFFICES ASSUME NEW b \in Batches, batch'[b] # None, batch'[b].phase = "maintenance_succeeded", Standing(b)',
                      NEW x \in Target(b)'
               PROVE  content'[x] = "target"
    BY DEF SuccessHolds, Standing, Target
  <1>1. batch[b] # None /\ intents[b] # None /\ Standing(b) /\ x \in Target(b)
    <2>1. intents[b] # None
      <3>1. ~Accepted(b)
        BY DEF Accepted, Initial
      <3> QED BY <3>1, BatchMoves DEF BatchMove, Kept, Recorded, LostTrack, Stopping, Moved, Succeeded, Failed,
                 Completed, Open, MaintInv, MaintTypeOK
    <2> QED BY <2>1, IntentMoves, TargetKept, CoordinationStep DEF MaintInv, MaintTypeOK
  <1>2. x \in Resources
    BY <1>1 DEF MaintInv, IInv, TypeOK, Intents, Target
  <1>3. ASSUME content[x] = "target", content'[x] # "target" 
        PROVE  \E m \in Operators : on[m] = b /\ at[m] \in {"sync_admitted", "apply_ready"}
    BY <1>1, <1>3, WriteMoves DEF WritesAt
  <1>4. CASE batch[b].phase = "maintenance_succeeded"
    <2>1. content[x] = "target"
      BY <1>1, <1>4 DEF MaintInv, SuccessHolds
    <2>2. ASSUME NEW m \in Operators, on[m] = b, at[m] \in {"sync_admitted", "apply_ready"} PROVE FALSE
      BY <1>4, <2>2 DEF MaintInv, PlaceInv, AloneOf, Admitted, Started
    <2> QED BY <1>3, <2>1, <2>2
  <1>5. CASE batch[b].phase # "maintenance_succeeded"
    <2>1. Succeeded(b)
      BY <1>1, <1>5, BatchMoves DEF BatchMove, Kept, Accepted, Initial, Recorded, LostTrack, Moved, Failed, Completed
    <2>2. PICK m \in Operators : at[m] = "applied" /\ on[m] = b
      BY <2>1 DEF Succeeded
    <2>3. content[x] = "target"
      BY <1>1, <1>2, <2>2 DEF MaintInv, PlaceInv, ContentOf, Resources
    <2>4. ASSUME NEW k \in Operators, on[k] = b, at[k] \in {"sync_admitted", "apply_ready"} PROVE FALSE
      BY <2>2, <2>4 DEF MaintInv, Unique, Admitted, Started
    <2> QED BY <1>3, <2>3, <2>4
  <1> QED BY <1>4, <1>5

-----------------------------------------------------------------------------
(* Every step of the runs and of maintenance keeps the invariant.          *)
LEMMA MaintStep == MaintInv /\ [MaintNext]_allVars => MaintInv'
  <1> SUFFICES ASSUME MaintInv, [MaintNext]_allVars PROVE MaintInv'
    OBVIOUS
  <1>1. IInv'
    BY CoordinationStep, InductiveStep DEF MaintInv
  <1> QED BY <1>1, MaintTypeStep, IntentInvStep, OutcomeStep, PlaceInvStep, UniqueStep, SuccessStep DEF MaintInv

(* The inductive invariant, for any runs, resources, batches and operators.*)
THEOREM MaintInvariant == MaintSpec => []MaintInv
  <1>1. MaintInit => MaintInv
    <2> SUFFICES ASSUME MaintInit PROVE MaintInv
      OBVIOUS
    <2>1. IInv
      BY InitialInv DEF MaintInit
    <2>2. MaintTypeOK
      BY DEF MaintInit, Init, MaintTypeOK, Stages
    <2>3. PlaceInv
      BY DEF MaintInit, PlaceInv, MineOf, AloneOf, ContentOf, Setup, Admitted, Started
    <2>4. IntentInv /\ OutcomeKept /\ DispatchInv /\ Unique /\ SuccessHolds
      BY DEF MaintInit, Init, IntentInv, OutcomeKept, DispatchInv, Unique, SuccessHolds, Standing, Admitted, Started
    <2> QED BY <2>1, <2>2, <2>3, <2>4 DEF MaintInv
  <1> QED BY <1>1, MaintStep, PTL DEF MaintSpec

(* From its start to its result a setup is alone with its resources.       *)
THEOREM SetupsAreAlone == MaintSpec => []SetupAlone
  <1>1. MaintInv => SetupAlone
    <2> SUFFICES ASSUME MaintInv, NEW m \in Operators, at[m] \in Started
                 PROVE  /\ batch[on[m]].phase = "maintenance_running" /\ Open(on[m])
                        /\ Active(Target(on[m])) = {}
                        /\ \A r \in Runs : Needs(r) \cap Target(on[m]) # {} => proc[r] # "alive"
                        /\ writing \cap Target(on[m]) \subseteq mine[m]
      BY DEF SetupAlone
    <2>1. AloneOf(m) /\ at[m] \in Admitted
      BY DEF MaintInv, PlaceInv, Admitted
    <2>2. \A r \in Runs : Needs(r) \cap Target(on[m]) # {} => proc[r] # "alive"
      BY <2>1 DEF AloneOf, Active, Ended, MaintInv, IInv, AliveInv
    <2> QED BY <2>1, <2>2 DEF AloneOf
  <1> QED BY <1>1, MaintInvariant, PTL

(* A recorded success stays true until a person completes the batch.       *)
THEOREM SuccessesHold == MaintSpec => []SuccessHolds
  BY MaintInvariant, PTL DEF MaintInv

(* An unknown outcome keeps its intent, a completed one had succeeded.     *)
THEOREM OutcomesAreKept == MaintSpec => []OutcomeKept
  BY MaintInvariant, PTL DEF MaintInv

(* A batch runs at most one setup, and its dispatch only moves forward.    *)
THEOREM SetupsRunOnce == MaintSpec => SetupOnce
  <1>1. ASSUME MaintInv, [MaintNext]_allVars, NEW b \in Batches, batch[b] # None
        PROVE  Advances(batch[b].dispatch, batch'[b].dispatch)
    <2>1. batch[b] \in Progress
      BY <1>1 DEF MaintInv, MaintTypeOK
    <2>2. batch'[b].dispatch = batch[b].dispatch => Advances(batch[b].dispatch, batch'[b].dispatch)
      BY <2>1 DEF Advances, Progress
    <2>3. Kept(b) \/ Recorded(b) \/ LostTrack(b) \/ Completed(b) => batch'[b].dispatch = batch[b].dispatch
      BY DEF Kept, Recorded, LostTrack, Same, Completed
    <2>4. CASE \/ Moved(b, "stopped_confirmed", "maintenance_dispatch_intent", "dispatch_intent")
               \/ Moved(b, "maintenance_dispatch_intent", "maintenance_running", "dispatched")
               \/ Succeeded(b) \/ Failed(b)
      BY <1>1, <2>4 DEF Moved, Succeeded, Failed, Advances, MaintInv, DispatchInv
    <2> QED BY <1>1, <2>2, <2>3, <2>4, BatchMoves DEF BatchMove, Accepted
  <1>2. ASSUME MaintInv, NEW m \in Operators, NEW n \in Operators, m # n, on[m] = on[n], at[m] = "sync_admitted"
        PROVE  at[n] \notin Admitted
    BY <1>2 DEF MaintInv, Unique, Admitted
  <1>3. MaintInv /\ [MaintNext]_allVars =>
     [/\ \A b \in Batches : batch[b] # None => Advances(batch[b].dispatch, batch'[b].dispatch)
      /\ \A m, n \in Operators : m # n /\ on[m] = on[n] /\ at[m] = "sync_admitted" /\ at'[m] = "sync_running" =>
           at[n] \notin Started \cup {"sync_admitted"}]_allVars
    BY <1>1, <1>2 DEF Admitted
  <1> QED BY <1>3, MaintInvariant, PTL DEF MaintSpec, SetupOnce

(* Maintenance takes only steps that the coordination allows.              *)
THEOREM MaintenanceIsCoordinated == MaintSpec => Coordinated
  <1>1. MaintInit => Init
    BY DEF MaintInit
  <1>2. MaintInv /\ [MaintNext]_allVars => [Next]_vars
    BY CoordinationStep
  <1> QED BY <1>1, <1>2, MaintInvariant, PTL DEF MaintSpec, Coordinated, Spec

-----------------------------------------------------------------------------
(* What a setup left halfway.                                              *)

(* What is half installed or half applied is fenced by the batch that did  *)
(* it, which has neither succeeded nor can it be cancelled any more, and   *)
(* no run is known to use its target.                                      *)
Begun == {"maintenance_running", "unknown", "partial"}
FencedBy(b, x) == /\ Standing(b) /\ x \in Target(b)
                  /\ batch[b].phase \in Begun
                  /\ Active(Target(b)) = {}
PartialInv == \A x \in Resources : content[x] = "partial" => \E b \in Batches : FencedBy(b, x)

(* Only the installation and the application of a setup leave something    *)
(* partial, and each in its own target.                                    *)
LEMMA PartialWrites ==
  ASSUME MaintInv, [MaintNext]_allVars, NEW x \in Resources,
         content[x] # "partial", content'[x] = "partial"
  PROVE  \E m \in Operators : /\ at[m] \in Admitted /\ x \in Target(on[m])
                              /\ UNCHANGED <<batch, intents, phase>>
  <1>0. content \in [Resources -> {"before", "partial", "target", "other"}] /\ content' # content
    BY DEF MaintInv, MaintTypeOK
  <1>1. PICK m \in Operators : OperatorStep(m)
    <2>1. ASSUME NEW c \in Batches, BatchStep(c) PROVE FALSE
      BY <1>0, <2>1 DEF BatchStep, AcceptSnapshot, StopUnknown, CancelBatch, DispatchBatch, RecordStop, RecordExit,
         Record, maintVars
    <2> QED BY <1>0, <2>1 DEF MaintNext, allVars, maintVars
  <1>2. CASE Enters(m) \/ Leaves(m)
    BY <1>0, <1>2 DEF Enters, Reads, Leases, ReadStopped, ReviewSetup, ReadSucceeded, Read, LeaseStopped, LeaseSetup,
       LeaseSync, LeaseApply, LeaseHandoff, LeaseWrite, Lease, Leaves, DropLeases, FailSetup, Close
  <1>3. CASE Commits(m)
    BY <1>0, <1>3, CommitTypes
  <1>4. CASE Prepare(m) \/ FinishSync(m) \/ FinishApply(m) \/ WriteOther(m)
    BY <1>0, <1>4 DEF Prepare, FinishSync, FinishApply, WriteOther
  <1>5. CASE Install(m) \/ Apply(m)
    <2>1. PICK y \in Target(on[m]) : Write(y, "partial")
      BY <1>5 DEF Install, Apply
    <2>2. x = y
      BY <1>0, <2>1 DEF Write
    <2>3. at[m] \in Admitted
      BY <1>5 DEF Install, Apply, Stage, Admitted, Started
    <2> QED BY <2>1, <2>2, <2>3 DEF Write, domainVars
  <1> QED BY <1>1, <1>2, <1>3, <1>4, <1>5, CallKinds DEF Works

(* The fence of what is partial stays as long as it is partial.            *)
LEMMA PartialStays ==
  ASSUME MaintInv, [MaintNext]_allVars, NEW x \in Resources, content[x] = "partial",
         NEW b \in Batches, FencedBy(b, x)
  PROVE  FencedBy(b, x)'
  <1>1. /\ Standing(b) /\ intents[b] # None /\ x \in Target(b) /\ batch[b].phase \in Begun
        /\ batch[b] # None /\ batch[b] # Initial
    BY DEF FencedBy, Standing, Begun, Initial, MaintInv, MaintTypeOK
  <1>2. ~Succeeded(b)
    <2>1. ASSUME NEW m \in Operators, at[m] = "applied", on[m] = b PROVE content[x] = "target"
      BY <1>1, <2>1 DEF MaintInv, PlaceInv, ContentOf, Resources
    <2> QED BY <2>1 DEF Succeeded
  <1>3. Kept(b) \/ Failed(b)
    BY <1>1, <1>2, BatchMoves DEF BatchMove, Begun, Accepted, Recorded, LostTrack, Stopping, Moved, Completed
  <1>4. intents'[b] # None /\ Target(b)' = Target(b) /\ intents'[b].resources = intents[b].resources
    BY <1>1, IntentMoves, CoordinationStep DEF Target
  <1>5. Standing(b)' /\ batch'[b].phase \in Begun
    BY <1>1, <1>3, <1>4 DEF Kept, Failed, Open, Standing, Begun
  <1>6. ASSUME NEW r \in Runs, Needs(r) \cap intents[b].resources # {} PROVE Ended(r)'
    <2>1. Ended(r)
      BY <1>6 DEF FencedBy, Active, Target
    <2> QED BY <1>1, <1>6, <2>1, FenceEffect, CoordinationStep DEF MaintInv, IInv
  <1>7. Active(Target(b))' = {}
    BY <1>4, <1>6 DEF Active, Target, Needs
  <1> QED BY <1>1, <1>4, <1>5, <1>7 DEF FencedBy

(* Every step keeps what is partial fenced.                                *)
LEMMA PartialStep == ASSUME MaintInv, PartialInv, [MaintNext]_allVars PROVE PartialInv'
  <1> SUFFICES ASSUME NEW x \in Resources, content'[x] = "partial"
               PROVE  \E b \in Batches : FencedBy(b, x)'
    BY DEF PartialInv, Resources
  <1>1. CASE content[x] = "partial"
    BY <1>1, PartialStays DEF PartialInv
  <1>2. CASE content[x] # "partial"
    <2>1. PICK m \in Operators : /\ at[m] \in Admitted /\ x \in Target(on[m])
                                 /\ UNCHANGED <<batch, intents, phase>>
      BY <1>2, PartialWrites
    <2>2. on[m] \in Batches /\ Open(on[m]) /\ Active(Target(on[m])) = {}
          /\ batch[on[m]].phase = "maintenance_running"
      BY <2>1 DEF MaintInv, PlaceInv, MineOf, AloneOf, MaintTypeOK, Setup, Admitted
    <2>3. FencedBy(on[m], x)
      BY <2>1, <2>2 DEF FencedBy, Open, Standing, Begun
    <2>4. PICK b \in Batches : b = on[m]
      BY <2>2
    <2>5. FencedBy(b, x)'
      BY <2>1, <2>3, <2>4 DEF FencedBy, Standing, Target, Active, Ended, Needs
    <2> QED BY <2>5
  <1> QED BY <1>1, <1>2

(* What a setup left half installed or half applied, because it failed or  *)
(* its process died, stays fenced until a person has dealt with it.        *)
THEOREM PartialIsFenced == MaintSpec => []PartialInv
  <1>1. MaintInit => PartialInv
    BY DEF MaintInit, PartialInv
  <1>2. MaintInv /\ PartialInv /\ [MaintNext]_allVars => PartialInv'
    BY PartialStep
  <1> QED BY <1>1, <1>2, MaintInvariant, PTL DEF MaintSpec

(* No process of a run ever lives on something half installed.             *)
NobodyRunsOnPartial ==
  \A r \in Runs : proc[r] = "alive" => \A x \in Needs(r) : content[x] # "partial"
THEOREM RunsFindWholeSetups == MaintSpec => []NobodyRunsOnPartial
  <1>1. ASSUME MaintInv, PartialInv, NEW r \in Runs, proc[r] = "alive", NEW x \in Needs(r)
        PROVE  content[x] # "partial"
    <2>1. x \in Resources
      BY CoordinationAssumption DEF Needs, Resources
    <2>2. ~Ended(r)
      BY <1>1 DEF MaintInv, IInv, AliveInv, Ended
    <2>3. ASSUME NEW b \in Batches, FencedBy(b, x) PROVE FALSE
      BY <2>2, <2>3 DEF FencedBy, Active
    <2> QED BY <1>1, <2>1, <2>3 DEF PartialInv
  <1>2. MaintInv /\ PartialInv => NobodyRunsOnPartial
    BY <1>1 DEF NobodyRunsOnPartial
  <1> QED BY <1>2, MaintInvariant, PartialIsFenced, PTL
=============================================================================
