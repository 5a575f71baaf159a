----------------------------- MODULE RunRegistry -----------------------------
(***************************************************************************)
(* One instance directory shared by DSH/Pi runs, maintenance and stops:    *)
(* the physical lease (flock on the instance directory, inherited by the   *)
(* hosts), the registry of run owners, the descendant scope that may prove *)
(* a run's tree gone, and the stop fence.                                  *)
(*                                                                         *)
(* A run is one manager process executing runtime.run: take the lease      *)
(* shared, publish an owner record, spawn the host, wait, observe the      *)
(* descendants, settle the record, drop the lease.  Every step of the      *)
(* registry happens under its short exclusive metadata lock, so it is one  *)
(* action; what happens between two steps of one process is interleaved    *)
(* with everything else, and any process may crash between any two steps.  *)
(*                                                                         *)
(* An operator whose name ends in Faulty is a deliberately wrong variant   *)
(* of the operator that follows it; no specification uses it.  Replacing   *)
(* the operator by it shows that a property notices the mistake.           *)
(***************************************************************************)
EXTENDS FiniteSets

CONSTANTS Runs,         \* run identities (uuid), one manager process each
          Unregistered, \* runs that register nothing (DSH outside Linux)
          Maintainers,  \* processes that take the instance exclusively
          Descendants,  \* the kinds r's host forks: "holding" the lease, "detached"
          Batches,      \* stop batches (uuid), one client process each
          None          \* "no record", "no plan", "no fence", "not closed"

VARIABLES mgr,       \* mgr[r]: step of r's manager in runtime.run
          host,      \* host[r]: the spawned native host
          kids,      \* kids[r]: the host's descendants, and if they keep the lease
          armed,     \* armed[r]: the descendant scope covers the whole tree
          seen,      \* seen[r]: what the scope observed at the end
          rec,       \* rec[r]: the owner record on disk, or None
          maint,     \* maint[m]: step of maintainer m
          stop,      \* stop[b]: step of the client that executes b
          plan,      \* plan[b]: the records and the selection it reviewed
          snapshots, \* snapshots[b]: the plan in b's snapshot on disk, or None
          fence,     \* the batch whose stop fence is on disk, or None
          posted,    \* posted[r]: the batch whose request is in r's inbox
          closed     \* closed[b]: the reason in b's close record, or None

runVars == <<mgr, host, kids, armed, seen>>
stopVars == <<stop, plan, snapshots, fence, posted, closed>>
vars == <<mgr, host, kids, armed, seen, rec, maint, stop, plan, snapshots, fence, posted, closed>>

Record == [state : {"active", "unknown", "idle_confirmed"},
           bound : {"none", "host", "control"}]
Registry == [Runs -> Record \cup {None}]
Plan == [records : Registry, selected : SUBSET Runs]
ASSUME RegistryAssumption == /\ Unregistered \subseteq Runs
                             /\ Descendants \in [Runs -> SUBSET {"holding", "detached"}]
                             /\ None \notin Record \cup Batches \cup Plan \cup {"stopped", "cancelled"}

NoRecords == [r \in Runs |-> None]

(* The physical lease: the manager holds it between admission and exit, an *)
(* inherited descriptor keeps it after the manager is gone.                *)
ManagerHolds(r) == mgr[r] \in {"leased", "registered", "running", "leaving", "closing"}
SharedFaulty(r) == ManagerHolds(r)
Shared(r) == ManagerHolds(r) \/ host[r] = "alive" \/ kids[r] = "holding"
StopHolds(b) == stop[b] \in {"leased", "posting"}
Exclusive(m) == maint[m] \in {"leased", "inside"}
SharedFree == \A m \in Maintainers : ~Exclusive(m)
ExclusiveFree == /\ SharedFree
                 /\ \A r \in Runs : ~Shared(r)
                 /\ \A b \in Batches : ~StopHolds(b)

Recorded == {r \in Runs : rec[r] # None}
Tree(r) == host[r] = "alive" \/ kids[r] # "none"
AllIdle == \A r \in Recorded : rec[r].state = "idle_confirmed"
Unfenced == fence = None
Settled(r, s) == [rec EXCEPT ![r].state = s]

Init == /\ mgr = [r \in Runs |-> "idle"]
        /\ host = [r \in Runs |-> "none"]
        /\ kids = [r \in Runs |-> "none"]
        /\ armed = [r \in Runs |-> FALSE]
        /\ seen = [r \in Runs |-> "nothing"]
        /\ rec = NoRecords
        /\ maint = [m \in Maintainers |-> "idle"]
        /\ stop = [b \in Batches |-> "idle"]
        /\ plan = [b \in Batches |-> None]
        /\ snapshots = [b \in Batches |-> None]
        /\ fence = None
        /\ posted = [r \in Runs |-> None]
        /\ closed = [b \in Batches |-> None]

-----------------------------------------------------------------------------
(* The manager of a run.                                                   *)

Goto(r, from, to) == mgr[r] = from /\ mgr' = [mgr EXCEPT ![r] = to]

Admit(r) == /\ SharedFree
            /\ Goto(r, "idle", "leased")
            /\ UNCHANGED <<host, kids, armed, seen, rec, maint, stopVars>>

(* Any check of runtime.run may still refuse before the owner record.      *)
Refuse(r) == /\ Goto(r, "leased", "ended")
             /\ UNCHANGED <<host, kids, armed, seen, rec, maint, stopVars>>

(* The scope is entered first: it covers the tree only from a single-      *)
(* threaded manager without children.  The record is published unless a    *)
(* fence stands; a failure after the write (sync, readback) ends the run   *)
(* and leaves its record active.                                           *)
MayRegisterFaulty(r) == r \notin Unregistered
MayRegister(r) == r \notin Unregistered /\ Unfenced
Publish(r, covered) ==
  /\ MayRegister(r)
  /\ \/ Goto(r, "leased", "registered")
     \/ Goto(r, "leased", "ended")
  /\ rec' = [rec EXCEPT ![r] = [state |-> "active", bound |-> "none"]]
  /\ armed' = [armed EXCEPT ![r] = covered]
  /\ UNCHANGED <<host, kids, seen, maint, stopVars>>

ProceedUnregistered(r) ==
  /\ r \in Unregistered
  /\ Goto(r, "leased", "registered")
  /\ UNCHANGED <<host, kids, armed, seen, rec, maint, stopVars>>

Spawn(r) == /\ Goto(r, "registered", "running")
            /\ host' = [host EXCEPT ![r] = "alive"]
            /\ UNCHANGED <<kids, armed, seen, rec, maint, stopVars>>

(* bind_current_host, then bind_current_control: identity of the child     *)
(* while it is still running, and the stop endpoint; each may be skipped.  *)
Bind(r, from, to) ==
  /\ mgr[r] = "running" /\ host[r] = "alive"
  /\ r \in Recorded /\ rec[r] = [state |-> "active", bound |-> from]
  /\ rec' = [rec EXCEPT ![r].bound = to]
  /\ UNCHANGED <<runVars, maint, stopVars>>

(* waitpid with WNOHANG until ECHILD.  Only a covering scope whose tree is gone yields  *)
(* the complete observation; it may also fail to conclude at any time, and *)
(* the manager may be here with the host alive (wait failed, interrupt) or *)
(* never spawned.                                                          *)
ObservedCompleteFaulty(r) == armed[r] /\ host[r] # "alive"
ObservedComplete(r) == armed[r] /\ ~Tree(r)
ObserveFaulty(r) ==
  /\ mgr[r] \in {"registered", "running"} /\ r \notin Unregistered /\ ~Tree(r)
  /\ mgr' = [mgr EXCEPT ![r] = "leaving"]
  /\ seen' = [seen EXCEPT ![r] = "complete"]
  /\ UNCHANGED <<host, kids, armed, rec, maint, stopVars>>
Observe(r) ==
  /\ \/ Goto(r, "registered", "leaving")
     \/ Goto(r, "running", "leaving")
  /\ r \notin Unregistered
  /\ \E result \in {"complete", "unsure"} :
       /\ result = "complete" => ObservedComplete(r)
       /\ seen' = [seen EXCEPT ![r] = result]
  /\ UNCHANGED <<host, kids, armed, rec, maint, stopVars>>

LeaveUnregistered(r) ==
  /\ r \in Unregistered
  /\ \/ Goto(r, "registered", "closing")
     \/ Goto(r, "running", "closing")
  /\ UNCHANGED <<host, kids, armed, seen, rec, maint, stopVars>>

(* finish_current and mark_unknown; neither touches a record of another    *)
(* run, and an unconfirmed write is swallowed (the record stays as it is). *)
Finish(r) == /\ seen[r] = "complete" /\ rec[r].state = "active"
             /\ rec' = Settled(r, "idle_confirmed")
MarkUnknown(r) == /\ seen[r] = "unsure" /\ rec[r].state # "idle_confirmed"
                  /\ rec' = Settled(r, "unknown")
Settle(r) ==
  /\ Goto(r, "leaving", "closing")
  /\ Finish(r) \/ MarkUnknown(r) \/ UNCHANGED rec
  /\ UNCHANGED <<host, kids, armed, seen, maint, stopVars>>

(* With the process go its memory (the scope) and its lease.               *)
Forget(r) == /\ armed' = [armed EXCEPT ![r] = FALSE]
             /\ seen' = [seen EXCEPT ![r] = "nothing"]

Exit(r) == /\ Goto(r, "closing", "ended") /\ Forget(r)
           /\ UNCHANGED <<host, kids, rec, maint, stopVars>>

Crash(r) == /\ ManagerHolds(r) /\ Forget(r)
            /\ mgr' = [mgr EXCEPT ![r] = "ended"]
            /\ UNCHANGED <<host, kids, rec, maint, stopVars>>

-----------------------------------------------------------------------------
(* The process tree: the host inherits the lease; its descendants may have *)
(* closed it and outlive the host.                                         *)

HostForks(r) == /\ host[r] = "alive"
                /\ \E k \in Descendants[r] : kids' = [kids EXCEPT ![r] = k]
                /\ UNCHANGED <<mgr, host, armed, seen, rec, maint, stopVars>>

KidsDetach(r) == /\ kids[r] = "holding"
                 /\ kids' = [kids EXCEPT ![r] = "detached"]
                 /\ UNCHANGED <<mgr, host, armed, seen, rec, maint, stopVars>>

KidsExit(r) == /\ kids[r] # "none"
               /\ kids' = [kids EXCEPT ![r] = "none"]
               /\ UNCHANGED <<mgr, host, armed, seen, rec, maint, stopVars>>

HostExits(r) == /\ host[r] = "alive"
                /\ host' = [host EXCEPT ![r] = "gone"]
                /\ UNCHANGED <<mgr, kids, armed, seen, rec, maint, stopVars>>

-----------------------------------------------------------------------------
(* Maintenance (inactive_guard) and reconciliation, both under the         *)
(* exclusive lease.                                                        *)

TakeExclusive(m) == /\ maint[m] = "idle" /\ ExclusiveFree
                    /\ maint' = [maint EXCEPT ![m] = "leased"]
                    /\ UNCHANGED <<runVars, rec, stopVars>>

MayMaintain == Unfenced /\ AllIdle
AssertInactive(m) == /\ maint[m] = "leased" /\ MayMaintain
                     /\ maint' = [maint EXCEPT ![m] = "inside"]
                     /\ UNCHANGED <<runVars, rec, stopVars>>

DropExclusive(m) == /\ Exclusive(m)
                    /\ maint' = [maint EXCEPT ![m] = "idle"]
                    /\ UNCHANGED <<runVars, rec, stopVars>>

(* The observer's complete receipt is truthful: the whole tree is gone.    *)
Reconcile(m, r) == /\ maint[m] = "leased"
                   /\ r \in Recorded /\ ~Tree(r)
                   /\ rec' = Settled(r, "idle_confirmed")
                   /\ maint' = [maint EXCEPT ![m] = "idle"]
                   /\ UNCHANGED <<runVars, stopVars>>

-----------------------------------------------------------------------------
(* A stop.  The client reads the records under the shared lease, lets the  *)
(* user review the plan without it, takes the lease again, installs the    *)
(* fence if the registry still is exactly what was reviewed, posts one     *)
(* request per selected run, and drops the lease to wait.                  *)

StopGoto(b, from, to) == stop[b] = from /\ stop' = [stop EXCEPT ![b] = to]
StopEnds(b) == /\ stop' = [stop EXCEPT ![b] = "idle"]
               /\ plan' = [plan EXCEPT ![b] = None]

(* The recorded manager and host are the processes observed now (a host    *)
(* that exited is still seen until its manager waits for it).              *)
Present(r) == ManagerHolds(r) /\ (host[r] = "alive" \/ (host[r] = "gone" /\ mgr[r] = "running"))

(* A run can be asked to stop if it is active, present, bound and has not  *)
(* been asked (a Pi or OMP endpoint is not in the record, hence "host").   *)
Available(r) == /\ rec[r].state = "active" /\ rec[r].bound # "none"
                /\ Present(r) /\ posted[r] = None

PlanStop(b) ==
  /\ SharedFree /\ Unfenced /\ StopGoto(b, "idle", "planned")
  /\ \E S \in SUBSET Recorded \ {{}} :
       /\ \A r \in S : Available(r)
       /\ plan' = [plan EXCEPT ![b] = [records |-> rec, selected |-> S]]
  /\ UNCHANGED <<runVars, rec, maint, snapshots, fence, posted, closed>>

LeaseStop(b) == /\ SharedFree /\ StopGoto(b, "planned", "leased")
                /\ UNCHANGED <<runVars, rec, maint, plan, snapshots, fence, posted, closed>>

(* The snapshot is durable before the fence: a failure between the two     *)
(* leaves an orphan snapshot, one after them leaves the fence unconfirmed. *)
(* A batch whose snapshot exists never installs again.                     *)
CurrentPlanFaulty(b) == snapshots[b] = None
CurrentPlanReusedFaulty(b) == plan[b].records = rec
CurrentPlan(b) == snapshots[b] = None /\ plan[b].records = rec
InstallFence(b) ==
  /\ stop[b] = "leased" /\ CurrentPlan(b) /\ Unfenced
  /\ snapshots' = [snapshots EXCEPT ![b] = plan[b]]
  /\ \/ StopGoto(b, "leased", "posting") /\ fence' = b /\ UNCHANGED plan
     \/ StopEnds(b) /\ fence' \in {None, b}
  /\ UNCHANGED <<runVars, rec, maint, posted, closed>>

(* publish_request compares the run's record with the snapshot under the   *)
(* owner lock; close_stop takes the same lock.                             *)
MayPostFaulty(b, r) == r \in plan[b].selected /\ rec[r] = plan[b].records[r] /\ Available(r)
MayPost(b, r) == /\ fence = b /\ closed[b] = None /\ r \in snapshots[b].selected
                 /\ rec[r] = snapshots[b].records[r] /\ Available(r)
PostRequest(b, r) ==
  /\ stop[b] = "posting" /\ MayPost(b, r)
  /\ UNCHANGED <<stop, plan>> \/ StopEnds(b)
  /\ posted' = [posted EXCEPT ![r] = b]
  /\ UNCHANGED <<runVars, rec, maint, snapshots, fence, closed>>

AwaitExit(b) == /\ StopGoto(b, "posting", "waiting")
                /\ \A r \in plan[b].selected : posted[r] = b
                /\ UNCHANGED <<runVars, rec, maint, plan, snapshots, fence, posted, closed>>

(* Failure, deadline, crash: what is on disk stays, and the same batch may *)
(* be executed again.                                                      *)
AbandonStop(b) == /\ stop[b] # "idle" /\ StopEnds(b)
                  /\ UNCHANGED <<runVars, rec, maint, snapshots, fence, posted, closed>>

(* close_stop: every selected run is the reviewed one and has ended, or is *)
(* active and was never asked if the reason is "cancelled".  The close     *)
(* record is durable before the fence is removed; a failure between the    *)
(* two is completed by a later call that gives the same reason.            *)
Reviewed(b, r) == r \in Recorded /\ rec[r].bound = snapshots[b].records[r].bound
ClosableExitedFaulty(r, reason) == mgr[r] = "ended" \/ (reason = "cancelled" /\ posted[r] = None)
Closable(r, reason) ==
  \/ rec[r].state = "idle_confirmed"
  \/ reason = "cancelled" /\ rec[r].state = "active" /\ posted[r] = None
CloseStop(b, reason) ==
  /\ SharedFree /\ fence = b /\ closed[b] \in {None, reason}
  /\ \A r \in snapshots[b].selected : Reviewed(b, r) /\ Closable(r, reason)
  /\ closed' = [closed EXCEPT ![b] = reason]
  /\ fence' \in {fence, None}
  /\ UNCHANGED <<runVars, rec, maint, snapshots, posted>>

(* The client closes once, when every selected manager has exited; anyone  *)
(* may cancel at any time, completing an earlier close if there is one.    *)
ConfirmStop(b) == /\ stop[b] = "waiting" /\ StopEnds(b)
                  /\ \A r \in snapshots[b].selected : mgr[r] = "ended"
                  /\ CloseStop(b, "stopped")

CancelStop(b) == /\ CloseStop(b, IF closed[b] = None THEN "cancelled" ELSE closed[b])
                 /\ UNCHANGED <<stop, plan>>

-----------------------------------------------------------------------------
ManagerStep(r) == \/ Admit(r) \/ Refuse(r) \/ ProceedUnregistered(r) \/ Spawn(r)
                  \/ \E covered \in BOOLEAN : Publish(r, covered)
                  \/ Bind(r, "none", "host") \/ Bind(r, "host", "control")
                  \/ Observe(r) \/ LeaveUnregistered(r) \/ Settle(r) \/ Exit(r)

TreeStep(r) == HostForks(r) \/ KidsDetach(r) \/ KidsExit(r) \/ HostExits(r)

MaintainerStep(m) == \/ TakeExclusive(m) \/ AssertInactive(m) \/ DropExclusive(m)
                     \/ \E r \in Runs : Reconcile(m, r)

StopStep(b) == \/ PlanStop(b) \/ LeaseStop(b) \/ InstallFence(b) \/ AwaitExit(b)
               \/ AbandonStop(b) \/ ConfirmStop(b) \/ CancelStop(b)
               \/ \E r \in Runs : PostRequest(b, r)

Next == \/ \E r \in Runs : ManagerStep(r) \/ TreeStep(r) \/ Crash(r)
        \/ \E m \in Maintainers : MaintainerStep(m)
        \/ \E b \in Batches : StopStep(b)

Spec == Init /\ [][Next]_vars

(* A manager whose host exited keeps being scheduled until it has closed   *)
(* its descriptors; nothing is assumed of a manager whose host is there,   *)
(* nor of hosts, descendants, maintainers or controllers.                  *)
WaitEnds(r) == host[r] = "gone" /\ (Observe(r) \/ LeaveUnregistered(r))
FairManager(r) == WF_vars(WaitEnds(r)) /\ WF_vars(Settle(r)) /\ WF_vars(Exit(r))
Fairness == \A r \in Runs : FairManager(r)
FairSpec == Spec /\ Fairness

-----------------------------------------------------------------------------
(* Properties.                                                             *)

TypeOK ==
  /\ mgr \in [Runs -> {"idle", "leased", "registered", "running", "leaving", "closing", "ended"}]
  /\ host \in [Runs -> {"none", "alive", "gone"}]
  /\ kids \in [Runs -> {"none", "holding", "detached"}]
  /\ armed \in [Runs -> BOOLEAN]
  /\ seen \in [Runs -> {"nothing", "complete", "unsure"}]
  /\ rec \in Registry
  /\ maint \in [Maintainers -> {"idle", "leased", "inside"}]
  /\ stop \in [Batches -> {"idle", "planned", "leased", "posting", "waiting"}]
  /\ plan \in [Batches -> Plan \cup {None}]
  /\ snapshots \in [Batches -> Plan \cup {None}]
  /\ fence \in Batches \cup {None}
  /\ posted \in [Runs -> Batches \cup {None}]
  /\ closed \in [Batches -> {"stopped", "cancelled", None}]

(* While maintenance is inside the instance no host runs, and no tree of a *)
(* registered run is left, even one that gave up the inherited lease after *)
(* its manager crashed (inactive_guard, registered_run).                   *)
MaintenanceExcludesTrees ==
  \A m \in Maintainers : maint[m] = "inside" =>
    \A r \in Runs : /\ host[r] # "alive"
                    /\ r \notin Unregistered => ~Tree(r)

(* An owner record says idle_confirmed only of a run whose whole process   *)
(* tree is gone and whose manager can no longer spawn (finish_current,     *)
(* reconcile): idle is never merely that the manager or host exited.       *)
IdleIsReleased ==
  \A r \in Recorded : rec[r].state = "idle_confirmed" =>
    ~Tree(r) /\ mgr[r] \in {"closing", "ended"}

(* While a stop fence stands, every registered run that is alive, or may   *)
(* still spawn, is in the record set that was reviewed and was not idle    *)
(* there (install compares the full set under the lock that registration   *)
(* publishes under).                                                       *)
FenceCoversLive ==
  fence # None => \A r \in Runs \ Unregistered :
    Tree(r) \/ mgr[r] = "registered" =>
      LET reviewed == snapshots[fence].records[r]
      IN  reviewed # None /\ reviewed.state # "idle_confirmed"

(* No maintenance is inside a fenced instance: the client holds the lease  *)
(* shared while it installs the fence, and the fence refuses every later   *)
(* entry.                                                                  *)
NoMaintenanceUnderFence == fence # None => \A m \in Maintainers : maint[m] # "inside"

(* A request that was posted to a run keeps the run protected by the fence *)
(* of its own batch until the run is confirmed idle, whoever cancels,      *)
(* fails or retries (publish_request against close_stop).                  *)
RequestsStayFenced ==
  \A r \in Runs, b \in Batches :
    posted[r] = b /\ rec[r].state # "idle_confirmed" => fence = b

(* A batch closed as stopped is one whose whole selection is gone, not     *)
(* merely signalled, and stays so.                                         *)
StoppedIsReleased ==
  \A b \in Batches : closed[b] = "stopped" =>
    \A r \in snapshots[b].selected : rec[r].state = "idle_confirmed" /\ ~Tree(r)

(* While the fence stands the registry neither gains nor loses a run, and  *)
(* only the durable close of its own batch lifts it; a batch that has been *)
(* lifted (or failed to install) never fences again, even if retried.      *)
FenceDiscipline ==
  [][/\ fence # None => /\ Recorded' = Recorded
                        /\ fence' \in {fence, None}
                        /\ fence' = None => closed'[fence] # None
     /\ \A b \in Batches : snapshots[b] # None /\ fence # b => fence' # b]_vars

(* A manager whose host exited leaves and drops its lease even when        *)
(* descendants never exit: it does not wait for what it may not kill, and  *)
(* a failed settlement does not keep it.                                   *)
LeavesAfterHost(r) == mgr[r] = "running" /\ host[r] = "gone" ~> mgr[r] = "ended"
ManagerLeaves == \A r \in Runs : LeavesAfterHost(r)

(* Nothing stands in the way of a manager that is to leave: no lock, no    *)
(* other process, no failure of a write.                                   *)
UnblockedManager(r) ==
  /\ mgr[r] = "running" /\ host[r] = "gone" => ENABLED <<WaitEnds(r)>>_vars
  /\ mgr[r] = "leaving" => ENABLED <<Settle(r)>>_vars
  /\ mgr[r] = "closing" => ENABLED <<Exit(r)>>_vars
Unblocked == \A r \in Runs : UnblockedManager(r)

(* The registry implements the admission gate.                             *)
Gate == INSTANCE AdmissionGate WITH
  Runs <- Runs \ Unregistered,
  alive <- {r \in Runs \ Unregistered : Tree(r)},
  inside <- {m \in Maintainers : maint[m] = "inside"},
  sealed <- fence # None,
  members <- IF fence = None THEN {}
             ELSE {r \in Runs \ Unregistered : snapshots[fence].records[r] # None}

(* Every behaviour of the registry is a behaviour of the admission gate:   *)
(* covered trees and maintenance exclude each other, and while the seal    *)
(* stands only its members start.                                          *)
ImplementsGate == Gate!GateSpec
=============================================================================
