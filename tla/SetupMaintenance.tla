--------------------------- MODULE SetupMaintenance ---------------------------
(***************************************************************************)
(* The maintenance of an OMP instance: an operator accepts a batch, which  *)
(* fences the resources of the selected runs; their stop and exit are      *)
(* recorded; the release is confirmed under exclusive leases; a setup is   *)
(* reviewed and its dispatch recorded; a permit, held in memory only, lets *)
(* the same process run that setup once; the result is recorded, and a     *)
(* person completes the batch.                                             *)
(*                                                                         *)
(* It extends OmpCoordination: runs launch, end and crash at any time.  A  *)
(* call works from the batch it read and commits only if that is unchanged *)
(* (expected_revision).  A call may fail, lose the response of its commit  *)
(* or crash between any two steps; leases do not outlive it.               *)
(***************************************************************************)
EXTENDS OmpCoordination

CONSTANT Operators   \* processes that maintain, or write explicitly

VARIABLES batch,     \* batch[b]: the progress saved with the intent
          snapshots, \* the acceptance files, written once before the intent
          at,        \* at[m]: where the call of operator m is
          on,        \* on[m]: the batch it works on, or None
          seen,      \* seen[m]: the progress that it read or last committed
          mine,      \* mine[m]: the exclusive leases of m
          content    \* content[x]: what the resource x was last written to be

maintVars == <<batch, snapshots, at, on, seen, mine, content>>
callVars == <<at, on, seen, mine>>
allVars == <<vars, maintVars>>

(* Where a call is: the stages of _Execution, and those before and after.  *)
Started == {"sync_running", "sync_done", "synced", "apply_ready", "apply_running", "apply_done",
            "applied", "failed"}
Stages == {"idle", "confirming", "reviewed", "dispatching", "issued", "permitted", "prepared",
           "sync_entering", "sync_admitted", "handing", "completing", "writing", "closing"} \cup Started
BatchPhases == {"accepted", "stop_requested", "unknown", "stopped_confirmed", "maintenance_dispatch_intent",
                "maintenance_running", "maintenance_succeeded", "partial"}
Progress == [phase : BatchPhases, asked : SUBSET Runs, exited : SUBSET Runs,
             dispatch : {"not_dispatched", "dispatch_intent", "dispatched", "confirmed", "unknown"},
             manual : BOOLEAN]
ASSUME MaintenanceAssumption == None \notin Progress \cup Intents
Initial == [phase |-> "accepted", asked |-> {}, exited |-> {}, dispatch |-> "not_dispatched", manual |-> FALSE]

MaintInit == /\ Init
             /\ batch = [b \in Batches |-> None]
             /\ snapshots = {}
             /\ at = [m \in Operators |-> "idle"]
             /\ on = [m \in Operators |-> None]
             /\ seen = [m \in Operators |-> None]
             /\ mine = [m \in Operators |-> {}]
             /\ content = [x \in Resources |-> "before"]

Stage(m, from, to) == at[m] = from /\ at' = [at EXCEPT ![m] = to]
Open(b) == intents[b] # None /\ intents[b].phase \in {"active", "dispatched"}
CurrentFaulty(m) == on[m] # None /\ Open(on[m])
Current(m) == on[m] # None /\ Open(on[m]) /\ batch[on[m]] = seen[m]
Target(b) == intents[b].resources

(* _hold_released and, before an acceptance, hold_stop_owners: every run   *)
(* that the registry or the domain knows of the scope is accounted for.    *)
Consistent(r) == \/ phase[r] = "none"
                 \/ phase[r] = "cancelled" /\ record[r] = None
                 \/ phase[r] = "dispatched" /\ Linked(r)
                 \/ phase[r] = "released" /\ record[r].state = "idle_confirmed"
ScopeConsistent(R) == \A r \in Runs : ScopeOf[r] \in R => Consistent(r)
HoldReleased(b) == /\ Active(Target(b)) = {}
                   /\ UnfencedBut(b, Target(b))
                   /\ ScopeConsistent(Target(b))
                   /\ \A r \in intents[b].runs : phase[r] = "released"

-----------------------------------------------------------------------------
(* Acceptance: the snapshot is written first, never over another one, then *)
(* the intent; in between, the batch's name is spent.                      *)
SetupSelection == {sel \in Selection : sel.op = "setup" /\ sel.runs # {}}
AcceptSnapshot(b) ==
  /\ b \notin snapshots /\ snapshots' = snapshots \cup {b}
  /\ reviewed[b] # None /\ reviewed[b].runs # {}
  /\ \A r \in reviewed[b].runs : phase[r] = "dispatched" /\ Linked(r)
  /\ ScopeConsistent(UNION {Needs(r) : r \in reviewed[b].runs})
  /\ \/ Accept(b) /\ batch' = [batch EXCEPT ![b] = Initial]
     \/ UNCHANGED <<vars, batch>>
  /\ UNCHANGED <<callVars, content>>

(* maintenance_progress: the facts of the stop.  An exit is recorded from a*)
(* complete observation of the run's descendants.                          *)
Stopping(b) == batch[b] # None /\ Open(b) /\ batch[b].phase \in {"accepted", "stop_requested"}
Record(b, p) == batch' = [batch EXCEPT ![b] = p] /\ UNCHANGED <<snapshots, callVars, content>>

RecordStop(b, r) ==
  /\ Stopping(b) /\ r \in intents[b].runs \ batch[b].asked
  /\ Record(b, [batch[b] EXCEPT !.asked = @ \cup {r}, !.phase = "stop_requested"])
  /\ Bookkeeping
RecordExit(b, r) ==
  /\ Stopping(b) /\ r \in intents[b].runs \ batch[b].exited
  /\ proc[r] = "exited" \/ (proc[r] = "unborn" /\ step[r] = "gone")
  /\ Record(b, [batch[b] EXCEPT !.exited = @ \cup {r}])
  /\ Bookkeeping
StopUnknown(b) ==
  /\ Stopping(b)
  /\ Record(b, [batch[b] EXCEPT !.phase = "unknown"])
  /\ IntentUnknown(b)

(* Only a batch about which nothing was recorded can be cancelled.         *)
CancelBatch(b) == /\ batch[b] = Initial /\ CancelIntent(b)
                  /\ UNCHANGED maintVars
DispatchBatch(b) == DispatchIntent(b) /\ UNCHANGED maintVars

-----------------------------------------------------------------------------
(* A call: what it reads, the leases it takes, the end.                    *)
Read(m, b, stage) == /\ Stage(m, "idle", stage)
                     /\ on' = [on EXCEPT ![m] = b] /\ seen' = [seen EXCEPT ![m] = batch[b]]
                     /\ UNCHANGED <<vars, batch, snapshots, mine, content>>
Lease(m, R, from, to) == /\ Stage(m, from, to) /\ TakeExclusive(R)
                         /\ mine' = [mine EXCEPT ![m] = R]
                         /\ UNCHANGED <<batch, snapshots, on, seen, content>>
Unlease(m) == DropExclusive(mine[m]) /\ mine' = [mine EXCEPT ![m] = {}]

(* A commit from the batch that was read; its response may be lost.        *)
Commit(m, p, from, to) ==
  /\ Current(m)
  /\ batch' = [batch EXCEPT ![on[m]] = p]
  /\ \/ Stage(m, from, to) /\ seen' = [seen EXCEPT ![m] = p]
     \/ Stage(m, from, "closing") /\ UNCHANGED seen
  /\ UNCHANGED <<snapshots, on, mine, content>>

(* The end of a call, or of its process, wherever it is: a started setup   *)
(* that has not failed stays recorded as running.                          *)
Close(m) == /\ at[m] # "idle" /\ at' = [at EXCEPT ![m] = "idle"]
            /\ on' = [on EXCEPT ![m] = None] /\ seen' = [seen EXCEPT ![m] = None]
            /\ Unlease(m)
            /\ UNCHANGED <<batch, snapshots, content>>

(* confirm_setup_release.                                                  *)
MayConfirm(b) == Stopping(b) /\ intents[b].op = "setup" /\ batch[b].exited = intents[b].runs
ReadStopped(m, b) == MayConfirm(b) /\ Read(m, b, "confirming")
LeaseStopped(m) == /\ on[m] # None /\ at[m] = "confirming" /\ mine[m] = {}
                   /\ Lease(m, Target(on[m]), "confirming", "confirming")
Confirm(m) ==
  /\ at[m] = "confirming" /\ mine[m] # {} /\ Current(m) /\ MayConfirm(on[m]) /\ HoldReleased(on[m])
  /\ Commit(m, [seen[m] EXCEPT !.phase = "stopped_confirmed"], "confirming", "closing")
  /\ Bookkeeping

(* review_and_dispatch_setup: reviewed without a lease, then leased again. *)
(* A setup has one instance and one package.                               *)
OneTarget(b) == \A r \in intents[b].runs : Needs(r) = Target(b)
ReviewSetup(m, b) ==
  /\ batch[b] # None /\ Open(b) /\ batch[b].phase = "stopped_confirmed" /\ OneTarget(b)
  /\ Read(m, b, "reviewed")
LeaseSetup(m) == on[m] # None /\ Lease(m, Target(on[m]), "reviewed", "dispatching")
Dispatch(m) ==
  /\ Current(m) /\ HoldReleased(on[m]) /\ seen[m].phase = "stopped_confirmed"
  /\ Commit(m, [seen[m] EXCEPT !.phase = "maintenance_dispatch_intent", !.dispatch = "dispatch_intent"],
            "dispatching", "issued")
  /\ Bookkeeping

-----------------------------------------------------------------------------
(* execute_setup.  Each lease of its own; in between the fence protects.   *)
DropLeases(m) == /\ at[m] \in {"issued", "sync_done", "apply_done"}
                 /\ at' = [at EXCEPT ![m] = CASE @ = "issued" -> "permitted"
                                              [] @ = "sync_done" -> "synced"
                                              [] @ = "apply_done" -> "applied"]
                 /\ Unlease(m)
                 /\ UNCHANGED <<batch, snapshots, on, seen, content>>

(* The guards of preflight and prepare take the instance and let it go.    *)
Prepare(m) ==
  /\ Stage(m, "permitted", "prepared") /\ Current(m)
  /\ LET R == Target(on[m]) \cap Scopes
     IN /\ \A s \in R : s \notin exclusive /\ ~Leased(s) /\ AllIdle(s)
        /\ Active(R) = {} /\ UnfencedBut(on[m], R)
  /\ UNCHANGED <<vars, batch, snapshots, on, seen, mine, content>>

LeaseSync(m) == on[m] # None /\ Lease(m, Target(on[m]), "prepared", "sync_entering")

(* begin_sync consumes the permit, then commits; only a response lets the  *)
(* installation begin.                                                     *)
BeginSync(m) ==
  /\ Current(m) /\ HoldReleased(on[m]) /\ seen[m].phase = "maintenance_dispatch_intent"
  /\ Commit(m, [seen[m] EXCEPT !.phase = "maintenance_running", !.dispatch = "dispatched"],
            "sync_entering", "sync_admitted")
  /\ Bookkeeping

Write(x, to) == /\ writing' = writing \cup {x}
                /\ content' = [content EXCEPT ![x] = to]
                /\ UNCHANGED <<domainVars, record, runVars, exclusive, reviewed,
                               batch, snapshots, on, seen, mine>>
Install(m) == /\ Stage(m, "sync_admitted", "sync_running")
              /\ \E x \in Target(on[m]) \cap Packages : Write(x, "partial")
FinishSync(m) == /\ Stage(m, "sync_running", "sync_done")
                 /\ content' = [x \in Resources |-> IF x \in writing \cap mine[m] THEN "target" ELSE content[x]]
                 /\ UNCHANGED <<vars, batch, snapshots, on, seen, mine>>

LeaseApplyFaulty(m) == /\ on[m] # None /\ Stage(m, "synced", "apply_ready")
                       /\ UNCHANGED <<vars, batch, snapshots, on, seen, mine, content>>
LeaseApply(m) == /\ on[m] # None
                 /\ Lease(m, Target(on[m]) \cap Scopes, "synced", "apply_ready")
Apply(m) == /\ Current(m) /\ HoldReleased(on[m])
            /\ Stage(m, "apply_ready", "apply_running")
            /\ \E x \in Target(on[m]) \cap Scopes : Write(x, "partial")
FinishApply(m) == /\ Stage(m, "apply_running", "apply_done")
                  /\ Current(m) /\ HoldReleased(on[m])
                  /\ content' = [x \in Resources |-> IF x \in writing \cap mine[m] THEN "target" ELSE content[x]]
                  /\ UNCHANGED <<vars, batch, snapshots, on, seen, mine>>

(* A failure once the setup has started; refused before apply, it may also *)
(* report that the plan changed.                                           *)
FailSetup(m) == /\ at[m] \in Started \ {"failed"}
                /\ at' = [at EXCEPT ![m] = "failed"]
                /\ Unlease(m)
                /\ UNCHANGED <<batch, snapshots, on, seen, content>>

(* finish, after the leases.                                               *)
Finish(m) == /\ Commit(m, [seen[m] EXCEPT !.phase = "maintenance_succeeded", !.dispatch = "confirmed"],
                       "applied", "closing")
             /\ Bookkeeping
FinishUnknownFaulty(m) ==
  /\ \/ Commit(m, [seen[m] EXCEPT !.phase = "unknown", !.dispatch = "unknown"], "failed", "closing")
     \/ Commit(m, [seen[m] EXCEPT !.phase = "partial", !.dispatch = "confirmed"], "synced", "closing")
  /\ Bookkeeping
FinishUnknown(m) ==
  /\ \/ Commit(m, [seen[m] EXCEPT !.phase = "unknown", !.dispatch = "unknown"], "failed", "closing")
     \/ Commit(m, [seen[m] EXCEPT !.phase = "partial", !.dispatch = "confirmed"], "synced", "closing")
  /\ IntentUnknown(on[m])

(* complete_setup_manual.                                                  *)
MayComplete(m) == /\ Current(m) /\ seen[m].phase = "maintenance_succeeded"
                  /\ HoldReleased(on[m])
                  /\ \A x \in Target(on[m]) \cap Scopes : content[x] = "target"
ReadSucceeded(m, b) == /\ batch[b] # None /\ Open(b) /\ batch[b].phase = "maintenance_succeeded"
                       /\ Read(m, b, "handing")
LeaseHandoff(m) == on[m] # None /\ Lease(m, Target(on[m]), "handing", "completing")
CompleteManual(m) ==
  /\ MayComplete(m)
  /\ Commit(m, [seen[m] EXCEPT !.manual = TRUE], "completing", "closing")
  /\ Complete(on[m])

(* An explicit apply, rollback or sync outside of any batch.               *)
LeaseWrite(m, x) == Lease(m, {x}, "idle", "writing")
WriteOtherFaulty(m) == \E x \in mine[m] : /\ at[m] = "writing" /\ writing' = writing \cup {x}
                                          /\ content' = [content EXCEPT ![x] = "other"]
                                          /\ UNCHANGED <<domainVars, record, runVars, exclusive, reviewed,
                                                         batch, snapshots, callVars>>
WriteOther(m) == \E x \in mine[m] : /\ at[m] = "writing" /\ BeginWrite(x, None)
                                    /\ content' = [content EXCEPT ![x] = "other"]
                                    /\ UNCHANGED <<batch, snapshots, callVars>>

OperatorStep(m) ==
  \/ \E b \in Batches : ReadStopped(m, b) \/ ReviewSetup(m, b) \/ ReadSucceeded(m, b)
  \/ \E x \in Resources : LeaseWrite(m, x)
  \/ LeaseStopped(m) \/ Confirm(m) \/ LeaseSetup(m) \/ Dispatch(m) \/ DropLeases(m)
  \/ Prepare(m) \/ LeaseSync(m) \/ BeginSync(m) \/ Install(m) \/ FinishSync(m)
  \/ LeaseApply(m) \/ Apply(m) \/ FinishApply(m) \/ FailSetup(m) \/ Finish(m) \/ FinishUnknown(m)
  \/ LeaseHandoff(m) \/ CompleteManual(m) \/ WriteOther(m) \/ Close(m)

BatchStep(b) == \/ AcceptSnapshot(b) \/ StopUnknown(b) \/ CancelBatch(b) \/ DispatchBatch(b)
                \/ \E r \in Runs : RecordStop(b, r) \/ RecordExit(b, r)

MaintNext ==
  \/ \E r \in Runs : RunStep(r) /\ UNCHANGED maintVars
  \/ \E b \in Batches : \E sel \in SetupSelection : Review(b, sel) /\ UNCHANGED maintVars
  \/ \E b \in Batches : BatchStep(b)
  \/ \E m \in Operators : OperatorStep(m)

MaintSpec == MaintInit /\ [][MaintNext]_allVars

-----------------------------------------------------------------------------
(* The types, and who holds what.                                          *)
MaintTypeOK ==
  /\ batch \in [Batches -> Progress \cup {None}]
  /\ snapshots \subseteq Batches
  /\ at \in [Operators -> Stages]
  /\ on \in [Operators -> Batches \cup {None}] /\ seen \in [Operators -> Progress \cup {None}]
  /\ mine \in [Operators -> SUBSET Resources]
  /\ exclusive = UNION {mine[m] : m \in Operators}
  /\ \A m, n \in Operators : m # n => mine[m] \cap mine[n] = {}
  /\ content \in [Resources -> {"before", "partial", "target", "other"}]
  /\ \A b \in Batches : /\ batch[b] # None <=> intents[b] # None
                        /\ batch[b] # None => b \in snapshots

(* From the start of a setup until its result is recorded, leases dropped  *)
(* and taken again in between: no run of its resources lives or is known   *)
(* to the domain, nobody else writes them, and the batch says it is running*)
SetupAlone ==
  \A m \in Operators : at[m] \in Started =>
    /\ batch[on[m]].phase = "maintenance_running" /\ Open(on[m])
    /\ Active(Target(on[m])) = {}
    /\ \A r \in Runs : Needs(r) \cap Target(on[m]) # {} => proc[r] # "alive"
    /\ writing \cap Target(on[m]) \subseteq mine[m]

(* A batch runs at most one setup, whoever else reviewed or dispatched it, *)
(* whatever response was lost: what is recorded of its dispatch only moves *)
(* forward, a result stays, and nobody else is past its admission when an  *)
(* installation begins.                                                    *)
Advances(d, e) == CASE d = "not_dispatched" -> TRUE
                    [] d = "dispatch_intent" -> e # "not_dispatched"
                    [] d = "dispatched" -> e \in {"dispatched", "confirmed", "unknown"}
                    [] OTHER -> e = d
SetupOnce ==
  [][/\ \A b \in Batches : batch[b] # None => Advances(batch[b].dispatch, batch'[b].dispatch)
     /\ \A m, n \in Operators : m # n /\ on[m] = on[n] /\ at[m] = "sync_admitted" /\ at'[m] = "sync_running" =>
          at[n] \notin Started \cup {"sync_admitted"}]_allVars

(* A result that was recorded as a success stays true until a person has   *)
(* completed the batch: what it installed and applied is still there.      *)
SuccessHolds ==
  \A b \in Batches : batch[b] # None /\ batch[b].phase = "maintenance_succeeded" /\ Standing(b) =>
    \A x \in Target(b) : content[x] = "target"

(* What the domain knows of a batch and the batch itself agree: an unknown *)
(* outcome keeps its intent standing for good, and one that is completed   *)
(* had succeeded.                                                          *)
OutcomeKept ==
  \A b \in Batches : batch[b] # None =>
    /\ batch[b].phase \in {"unknown", "partial"} <=> intents[b].phase = "unknown"
    /\ intents[b].phase = "completed" <=> batch[b].manual
    /\ batch[b].manual => batch[b].phase = "maintenance_succeeded"
    /\ intents[b].phase = "cancelled" => batch[b] = Initial

(* Every step of the maintenance is one the coordination allows: a setup   *)
(* writes only where an explicit writer of its own intent might.           *)
Coordinated == Spec
=============================================================================
