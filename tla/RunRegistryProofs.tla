-------------------------- MODULE RunRegistryProofs --------------------------
(***************************************************************************)
(* Proofs about RunRegistry for any number of runs, maintainers and stop   *)
(* batches.  The inductive invariant IInv says who can hold the lease at   *)
(* once, that a registered tree never lacks a record, that an idle record  *)
(* and a complete observation are truthful, and what the fence knows.      *)
(***************************************************************************)
EXTENDS RunRegistry, TLAPS

(* An exclusive holder is alone: no run, no stop, no other maintainer.     *)
LeaseInv ==
  \A m \in Maintainers : Exclusive(m) =>
    /\ \A r \in Runs : ~Shared(r)
    /\ \A b \in Batches : ~StopHolds(b)
    /\ \A n \in Maintainers : Exclusive(n) => n = m

(* A tree exists only after its manager spawned, and a registered run has  *)
(* its record from before it can spawn, and not before it is admitted.     *)
TreeInv ==
  \A r \in Runs :
    /\ mgr[r] \in {"idle", "leased", "registered"} => ~Tree(r)
    /\ mgr[r] \in {"idle", "leased"} => r \notin Recorded
    /\ mgr[r] = "leaving" => r \notin Unregistered
    /\ r \notin Unregistered /\ (Tree(r) \/ mgr[r] \in {"registered", "running", "leaving"})
         => r \in Recorded

(* What the registry and the observation say is true of the tree.          *)
TruthInv ==
  /\ \A r \in Runs : mgr[r] = "leaving" /\ seen[r] = "complete" => ~Tree(r)
  /\ IdleIsReleased

(* Maintenance inside the instance saw an unfenced, idle registry, and     *)
(* nothing can have changed it since.                                      *)
InsideInv == \A m \in Maintainers : maint[m] = "inside" => Unfenced /\ AllIdle

(* The snapshot behind the fence lists exactly the recorded runs, and none *)
(* as idle that is not.                                                    *)
FenceInv ==
  fence # None =>
    /\ snapshots[fence] # None
    /\ \A r \in Runs : snapshots[fence].records[r] # None <=> r \in Recorded
    /\ \A r \in Recorded : snapshots[fence].records[r].state = "idle_confirmed"
                             => rec[r].state = "idle_confirmed"

(* A request goes to a recorded run that its batch's snapshot selected.    *)
RequestInv ==
  /\ \A r \in Runs, b \in Batches : posted[r] = b =>
       r \in Recorded /\ snapshots[b] # None /\ r \in snapshots[b].selected
  /\ RequestsStayFenced

(* Only a fenced batch is closed, as stopped only if its selection is idle.*)
CloseInv ==
  \A b \in Batches :
    /\ closed[b] # None => snapshots[b] # None
    /\ closed[b] = "stopped" => \A r \in snapshots[b].selected :
         r \in Recorded /\ rec[r].state = "idle_confirmed"

(* A client past planning has its plan; what it selects is recorded.       *)
PlanInv ==
  \A b \in Batches :
    /\ stop[b] # "idle" => plan[b] # None
    /\ plan[b] # None => plan[b].selected \subseteq Recorded

SelectionInv ==
  \A b \in Batches : snapshots[b] # None => snapshots[b].selected \subseteq Recorded

IInv == /\ TypeOK /\ LeaseInv /\ TreeInv /\ TruthInv
        /\ InsideInv /\ FenceInv /\ RequestInv /\ CloseInv
        /\ PlanInv /\ SelectionInv

(* A new record is a record.                                               *)
LEMMA Fresh == [state |-> "active", bound |-> "none"] \in Record \ {None}
  BY RegistryAssumption DEF Record

(* Settling or binding a recorded run leaves a record in its place and the *)
(* other records alone.                                                    *)
LEMMA Update ==
  ASSUME rec \in Registry, NEW r \in Recorded, NEW new \in Record,
         rec' = [rec EXCEPT ![r] = new]
  PROVE  /\ rec' \in Registry
         /\ \A q \in Runs : rec'[q] # None <=> rec[q] # None
         /\ \A q \in Runs : q # r => rec'[q] = rec[q]
         /\ rec'[r] = new
  BY RegistryAssumption DEF Registry, Recorded

(* What the three kinds of updates do to the record of their run.          *)
LEMMA BindEffect ==
  ASSUME IInv, NEW r \in Runs, NEW from, NEW to \in {"host", "control"}, Bind(r, from, to)
  PROVE  /\ rec' \in Registry
         /\ \A q \in Runs : rec'[q] # None <=> rec[q] # None
         /\ \A q \in Recorded : rec'[q].state = rec[q].state
  <1> DEFINE new == [rec[r] EXCEPT !.bound = to]
  <1>1. r \in Recorded /\ rec[r] \in Record /\ rec \in Registry
    BY DEF Bind, IInv, TypeOK, Registry, Recorded
  <1>2. new \in Record /\ new.state = rec[r].state
    BY <1>1 DEF Record
  <1>3. rec' = [rec EXCEPT ![r] = new]
    BY DEF Bind
  <1> HIDE DEF new
  <1> QED BY <1>1, <1>2, <1>3, Update DEF Recorded

(* Settling changes the state of one recorded run and nothing else.        *)
LEMMA SettledEffect ==
  ASSUME rec \in Registry, NEW r \in Recorded,
         NEW s \in {"active", "unknown", "idle_confirmed"}, rec' = Settled(r, s)
  PROVE  /\ rec' \in Registry
         /\ \A q \in Runs : rec'[q] # None <=> rec[q] # None
         /\ \A q \in Runs : q # r => rec'[q] = rec[q]
         /\ rec'[r].state = s
  <1> DEFINE new == [rec[r] EXCEPT !.state = s]
  <1>1. rec[r] \in Record
    BY DEF Registry, Recorded
  <1>2. new \in Record /\ new.state = s
    BY <1>1 DEF Record
  <1>3. rec' = [rec EXCEPT ![r] = new]
    BY DEF Settled
  <1> HIDE DEF new
  <1> QED BY <1>1, <1>2, <1>3, Update

(* A manager settles its own record: to idle only after it has seen the    *)
(* tree gone, and never away from idle.                                    *)
LEMMA SettleEffect ==
  ASSUME IInv, NEW r \in Runs, Settle(r)
  PROVE  /\ r \in Recorded
         /\ rec' \in Registry
         /\ \A q \in Runs : rec'[q] # None <=> rec[q] # None
         /\ \A q \in Runs : q # r => rec'[q] = rec[q]
         /\ rec'[r].state = "idle_confirmed" =>
              rec[r].state = "idle_confirmed" \/ seen[r] = "complete"
         /\ rec[r].state = "idle_confirmed" => rec'[r].state = "idle_confirmed"
  <1>1. r \in Recorded /\ rec \in Registry
    BY DEF IInv, TypeOK, TreeInv, Settle, Goto
  <1>2. CASE Finish(r)
    BY <1>1, <1>2, SettledEffect DEF Finish
  <1>3. CASE MarkUnknown(r)
    BY <1>1, <1>3, SettledEffect DEF MarkUnknown
  <1>4. CASE UNCHANGED rec
    BY <1>1, <1>4
  <1> QED BY <1>1, <1>2, <1>3, <1>4 DEF Settle

(* Reconciling settles one recorded run as idle.                           *)
LEMMA ReconcileEffect ==
  ASSUME IInv, NEW m \in Maintainers, NEW r \in Runs, Reconcile(m, r)
  PROVE  /\ r \in Recorded
         /\ rec' \in Registry
         /\ \A q \in Runs : rec'[q] # None <=> rec[q] # None
         /\ \A q \in Runs : q # r => rec'[q] = rec[q]
         /\ rec'[r].state = "idle_confirmed"
  BY SettledEffect DEF IInv, TypeOK, Reconcile

(* A stop client touches neither the runs nor the registry.                *)
LEMMA StopEffect ==
  ASSUME NEW b \in Batches, StopStep(b)
  PROVE  UNCHANGED <<mgr, host, kids, armed, seen, rec, maint>>
  BY DEF StopStep, PlanStop, LeaseStop, InstallFence, PostRequest, AwaitExit, AbandonStop,
         ConfirmStop, CancelStop, CloseStop, runVars

(* Closing settles the batch and may lift its fence.                       *)
LEMMA CloseEffect ==
  ASSUME IInv, NEW b \in Batches, ConfirmStop(b) \/ CancelStop(b)
  PROVE  /\ fence = b /\ fence' \in {fence, None}
         /\ \E reason \in {"stopped", "cancelled"} :
              /\ closed' = [closed EXCEPT ![b] = reason]
              /\ closed[b] \in {None, reason}
              /\ \A r \in snapshots[b].selected : r \in Recorded /\ Closable(r, reason)
         /\ SharedFree
         /\ UNCHANGED <<snapshots, posted>>
         /\ stop' = [stop EXCEPT ![b] = "idle"] \/ stop' = stop
         /\ plan' = [plan EXCEPT ![b] = None] \/ plan' = plan
  <1>1. CASE ConfirmStop(b)
    BY <1>1 DEF ConfirmStop, CloseStop, StopEnds, Reviewed
  <1>2. CASE CancelStop(b)
    <2> DEFINE why == IF closed[b] = None THEN "cancelled" ELSE closed[b]
    <2>1. why \in {"stopped", "cancelled"}
      BY DEF IInv, TypeOK
    <2>2. CloseStop(b, why) /\ UNCHANGED <<stop, plan>>
      BY <1>2 DEF CancelStop
    <2> HIDE DEF why
    <2> QED BY <2>1, <2>2 DEF CloseStop, Reviewed
  <1> QED BY <1>1, <1>2

(* The inductive invariant holds initially.                                *)
LEMMA InitIInv == Init => IInv
  <1> SUFFICES ASSUME Init PROVE IInv
    OBVIOUS
  <1> USE RegistryAssumption DEF Init
  <1>1. TypeOK
    BY DEF TypeOK, Registry, NoRecords
  <1>2. LeaseInv /\ TreeInv /\ InsideInv /\ FenceInv /\ RequestInv /\ CloseInv /\ PlanInv /\ SelectionInv
    BY DEF LeaseInv, TreeInv, InsideInv, FenceInv, RequestInv, RequestsStayFenced, CloseInv,
           PlanInv, SelectionInv, Exclusive, Tree, Recorded, NoRecords
  <1>3. TruthInv
    BY DEF TruthInv, IdleIsReleased, Recorded, NoRecords
  <1> QED BY <1>1, <1>2, <1>3 DEF IInv

(* Every step keeps the types.                                             *)
LEMMA TypeStep == IInv /\ [Next]_vars => TypeOK'
  <1> SUFFICES ASSUME IInv, [Next]_vars PROVE TypeOK'
    OBVIOUS
  <1> USE DEF IInv, TypeOK
  <1>1. ASSUME NEW r \in Runs, Admit(r) PROVE TypeOK'
    BY <1>1 DEF Admit, Goto, runVars, stopVars
  <1>2. ASSUME NEW r \in Runs, Refuse(r) PROVE TypeOK'
    BY <1>2 DEF Refuse, Goto, runVars, stopVars
  <1>3. ASSUME NEW r \in Runs, ProceedUnregistered(r) PROVE TypeOK'
    BY <1>3 DEF ProceedUnregistered, Goto, runVars, stopVars
  <1>4. ASSUME NEW r \in Runs, Spawn(r) PROVE TypeOK'
    BY <1>4 DEF Spawn, Goto, runVars, stopVars
  <1>5. ASSUME NEW r \in Runs, NEW covered \in BOOLEAN, Publish(r, covered) PROVE TypeOK'
    BY <1>5, Fresh DEF Publish, MayRegister, Goto, Registry, runVars, stopVars
  <1>6. ASSUME NEW r \in Runs,
                NEW from \in {"none", "host"}, NEW to \in {"host", "control"}, Bind(r, from, to) PROVE TypeOK'
    BY <1>6, BindEffect DEF Bind, runVars, stopVars
  <1>7. ASSUME NEW r \in Runs, Observe(r) PROVE TypeOK'
    BY <1>7 DEF Observe, ObservedComplete, Goto, runVars, stopVars
  <1>8. ASSUME NEW r \in Runs, LeaveUnregistered(r) PROVE TypeOK'
    BY <1>8 DEF LeaveUnregistered, Goto, runVars, stopVars
  <1>9. ASSUME NEW r \in Runs, Settle(r) PROVE TypeOK'
    BY <1>9, SettleEffect DEF Settle, Goto, runVars, stopVars
  <1>10. ASSUME NEW r \in Runs, Exit(r) PROVE TypeOK'
    BY <1>10 DEF Exit, Forget, Goto, runVars, stopVars
  <1>11. ASSUME NEW r \in Runs, Crash(r) PROVE TypeOK'
    BY <1>11 DEF Crash, Forget, runVars, stopVars
  <1>12. ASSUME NEW r \in Runs, HostForks(r) PROVE TypeOK'
    <2>1. Descendants[r] \subseteq {"none", "holding", "detached"}
      BY RegistryAssumption
    <2>2. PICK k \in {"none", "holding", "detached"} : kids' = [kids EXCEPT ![r] = k]
      BY <1>12, <2>1 DEF HostForks
    <2> QED BY <1>12, <2>2 DEF HostForks, stopVars
  <1>13. ASSUME NEW r \in Runs, KidsDetach(r) PROVE TypeOK'
    BY <1>13 DEF KidsDetach, runVars, stopVars
  <1>14. ASSUME NEW r \in Runs, KidsExit(r) PROVE TypeOK'
    BY <1>14 DEF KidsExit, runVars, stopVars
  <1>15. ASSUME NEW r \in Runs, HostExits(r) PROVE TypeOK'
    BY <1>15 DEF HostExits, runVars, stopVars
  <1>16. ASSUME NEW m \in Maintainers, TakeExclusive(m) PROVE TypeOK'
    BY <1>16 DEF TakeExclusive, runVars, stopVars
  <1>17. ASSUME NEW m \in Maintainers, AssertInactive(m) PROVE TypeOK'
    BY <1>17 DEF AssertInactive, MayMaintain, runVars, stopVars
  <1>18. ASSUME NEW m \in Maintainers, DropExclusive(m) PROVE TypeOK'
    BY <1>18 DEF DropExclusive, runVars, stopVars
  <1>19. ASSUME NEW m \in Maintainers, NEW r \in Runs, Reconcile(m, r) PROVE TypeOK'
    BY <1>19, ReconcileEffect DEF Reconcile, runVars, stopVars
  <1>20. ASSUME NEW b \in Batches, StopStep(b) PROVE TypeOK'
    <2>0. UNCHANGED <<mgr, host, kids, armed, seen, rec, maint>>
      BY <1>20, StopEffect
    <2>1. CASE PlanStop(b)
      <3>1. PICK S \in SUBSET Recorded : plan' = [plan EXCEPT ![b] = [records |-> rec, selected |-> S]]
        BY <2>1 DEF PlanStop
      <3>2. [records |-> rec, selected |-> S] \in Plan
        BY DEF Plan, Recorded
      <3>3. plan' \in [Batches -> Plan \cup {None}]
        BY <3>1, <3>2
      <3> QED BY <2>0, <2>1, <3>3 DEF PlanStop, StopGoto
    <2>2. CASE LeaseStop(b)
      BY <2>0, <2>2 DEF LeaseStop, StopGoto
    <2>3. CASE InstallFence(b)
      BY <2>0, <2>3 DEF InstallFence, StopGoto, StopEnds
    <2>4. ASSUME NEW r \in Runs, PostRequest(b, r) PROVE TypeOK'
      BY <2>0, <2>4 DEF PostRequest, StopEnds
    <2>5. CASE AwaitExit(b)
      BY <2>0, <2>5 DEF AwaitExit, StopGoto
    <2>6. CASE AbandonStop(b)
      BY <2>0, <2>6 DEF AbandonStop, StopEnds
    <2>7. CASE ConfirmStop(b) \/ CancelStop(b)
      BY <2>0, <2>7, CloseEffect
    <2> QED BY <1>20, <2>1, <2>2, <2>3, <2>4, <2>5, <2>6, <2>7 DEF StopStep
  <1>21. CASE UNCHANGED vars
    BY <1>21 DEF vars
  <1> QED BY <1>1, <1>2, <1>3, <1>4, <1>5, <1>6, <1>7, <1>8, <1>9, <1>10, <1>11,
         <1>12, <1>13, <1>14, <1>15, <1>16, <1>17, <1>18, <1>19, <1>20, <1>21
         DEF Next, ManagerStep, TreeStep, MaintainerStep

(* The lease stays exclusive: a shared holder is admitted only while no     *)
(* exclusive one exists, and the tree only inherits what its manager holds. *)
LEMMA LeaseStep == IInv /\ [Next]_vars => LeaseInv'
  <1> SUFFICES ASSUME IInv, [Next]_vars PROVE LeaseInv'
    OBVIOUS
  <1> USE DEF IInv, TypeOK, LeaseInv, SharedFree, ExclusiveFree, Exclusive, Shared, StopHolds, ManagerHolds
  <1>1. ASSUME NEW r \in Runs, Admit(r) PROVE LeaseInv'
    BY <1>1 DEF Admit, Goto, runVars, stopVars
  <1>2. ASSUME NEW r \in Runs, Refuse(r) PROVE LeaseInv'
    BY <1>2 DEF Refuse, Goto, runVars, stopVars
  <1>3. ASSUME NEW r \in Runs, ProceedUnregistered(r) PROVE LeaseInv'
    BY <1>3 DEF ProceedUnregistered, Goto, runVars, stopVars
  <1>4. ASSUME NEW r \in Runs, Spawn(r) PROVE LeaseInv'
    BY <1>4 DEF Spawn, Goto, runVars, stopVars
  <1>5. ASSUME NEW r \in Runs, NEW covered \in BOOLEAN, Publish(r, covered) PROVE LeaseInv'
    BY <1>5, Fresh DEF Publish, MayRegister, Goto, Registry, runVars, stopVars
  <1>6. ASSUME NEW r \in Runs, Observe(r) PROVE LeaseInv'
    BY <1>6 DEF Observe, ObservedComplete, Goto, runVars, stopVars
  <1>7. ASSUME NEW r \in Runs, LeaveUnregistered(r) PROVE LeaseInv'
    BY <1>7 DEF LeaveUnregistered, Goto, runVars, stopVars
  <1>8. ASSUME NEW r \in Runs, Settle(r) PROVE LeaseInv'
    BY <1>8, SettleEffect DEF Settle, Goto, runVars, stopVars
  <1>9. ASSUME NEW r \in Runs, Exit(r) PROVE LeaseInv'
    BY <1>9 DEF Exit, Forget, Goto, runVars, stopVars
  <1>10. ASSUME NEW r \in Runs, Crash(r) PROVE LeaseInv'
    BY <1>10 DEF Crash, Forget, runVars, stopVars
  <1>11. ASSUME NEW r \in Runs, HostForks(r) PROVE LeaseInv'
    BY <1>11 DEF HostForks, runVars, stopVars
  <1>12. ASSUME NEW r \in Runs, KidsDetach(r) PROVE LeaseInv'
    BY <1>12 DEF KidsDetach, runVars, stopVars
  <1>13. ASSUME NEW r \in Runs, KidsExit(r) PROVE LeaseInv'
    BY <1>13 DEF KidsExit, runVars, stopVars
  <1>14. ASSUME NEW r \in Runs, HostExits(r) PROVE LeaseInv'
    BY <1>14 DEF HostExits, runVars, stopVars
  <1>15. ASSUME NEW m \in Maintainers, TakeExclusive(m) PROVE LeaseInv'
    BY <1>15 DEF TakeExclusive, runVars, stopVars
  <1>16. ASSUME NEW m \in Maintainers, AssertInactive(m) PROVE LeaseInv'
    BY <1>16 DEF AssertInactive, MayMaintain, runVars, stopVars
  <1>17. ASSUME NEW m \in Maintainers, DropExclusive(m) PROVE LeaseInv'
    BY <1>17 DEF DropExclusive, runVars, stopVars
  <1>18. ASSUME NEW m \in Maintainers, NEW r \in Runs, Reconcile(m, r) PROVE LeaseInv'
    BY <1>18, ReconcileEffect DEF Reconcile, runVars, stopVars
  <1>19. ASSUME NEW b \in Batches, StopStep(b) PROVE LeaseInv'
    <2>0. UNCHANGED <<mgr, host, kids, maint>>
      BY <1>19, StopEffect
    <2>1. CASE LeaseStop(b)
      BY <2>0, <2>1 DEF LeaseStop, StopGoto
    <2>2. CASE ~LeaseStop(b)
      <3>1. \A c \in Batches : StopHolds(c)' => StopHolds(c)
        BY <1>19, <2>2, CloseEffect DEF StopStep, PlanStop, InstallFence, PostRequest,
           AwaitExit, AbandonStop, StopGoto, StopEnds
      <3> QED BY <2>0, <3>1
    <2> QED BY <2>1, <2>2
  <1>20. ASSUME UNCHANGED <<mgr, host, kids, maint, stop>> PROVE LeaseInv'
    BY <1>20
  <1> QED BY <1>1, <1>2, <1>3, <1>4, <1>5, <1>6, <1>7, <1>8, <1>9, <1>10, <1>11,
         <1>12, <1>13, <1>14, <1>15, <1>16, <1>17, <1>18, <1>19, <1>20 DEF Next,
         ManagerStep, TreeStep, MaintainerStep, vars, Bind, runVars, stopVars

(* A registered run is recorded before it can spawn, and records stay.      *)
LEMMA TreesStep == IInv /\ [Next]_vars => TreeInv'
  <1> SUFFICES ASSUME IInv, [Next]_vars PROVE TreeInv'
    OBVIOUS
  <1> USE DEF IInv, TypeOK, TreeInv, Tree, Recorded
  <1>1. ASSUME NEW r \in Runs, Admit(r) PROVE TreeInv'
    BY <1>1 DEF Admit, Goto, runVars, stopVars
  <1>2. ASSUME NEW r \in Runs, Refuse(r) PROVE TreeInv'
    BY <1>2 DEF Refuse, Goto, runVars, stopVars
  <1>3. ASSUME NEW r \in Runs, ProceedUnregistered(r) PROVE TreeInv'
    BY <1>3 DEF ProceedUnregistered, Goto, runVars, stopVars
  <1>4. ASSUME NEW r \in Runs, Spawn(r) PROVE TreeInv'
    BY <1>4 DEF Spawn, Goto, runVars, stopVars
  <1>5. ASSUME NEW r \in Runs, NEW covered \in BOOLEAN, Publish(r, covered) PROVE TreeInv'
    BY <1>5, Fresh DEF Publish, MayRegister, Goto, Registry, runVars, stopVars
  <1>6. ASSUME NEW r \in Runs,
                NEW from \in {"none", "host"}, NEW to \in {"host", "control"}, Bind(r, from, to) PROVE TreeInv'
    BY <1>6, BindEffect DEF Bind, runVars, stopVars
  <1>7. ASSUME NEW r \in Runs, Observe(r) PROVE TreeInv'
    BY <1>7 DEF Observe, ObservedComplete, Goto, runVars, stopVars
  <1>8. ASSUME NEW r \in Runs, LeaveUnregistered(r) PROVE TreeInv'
    BY <1>8 DEF LeaveUnregistered, Goto, runVars, stopVars
  <1>9. ASSUME NEW r \in Runs, Settle(r) PROVE TreeInv'
    BY <1>9, SettleEffect DEF Settle, Goto, runVars, stopVars
  <1>10. ASSUME NEW r \in Runs, Exit(r) PROVE TreeInv'
    BY <1>10 DEF Exit, Forget, Goto, runVars, stopVars
  <1>11. ASSUME NEW r \in Runs, Crash(r) PROVE TreeInv'
    BY <1>11 DEF Crash, Forget, runVars, stopVars
  <1>12. ASSUME NEW r \in Runs, HostForks(r) PROVE TreeInv'
    BY <1>12 DEF HostForks, runVars, stopVars
  <1>13. ASSUME NEW r \in Runs, KidsDetach(r) PROVE TreeInv'
    BY <1>13 DEF KidsDetach, runVars, stopVars
  <1>14. ASSUME NEW r \in Runs, KidsExit(r) PROVE TreeInv'
    BY <1>14 DEF KidsExit, runVars, stopVars
  <1>15. ASSUME NEW r \in Runs, HostExits(r) PROVE TreeInv'
    BY <1>15 DEF HostExits, runVars, stopVars
  <1>16. ASSUME NEW m \in Maintainers, NEW r \in Runs, Reconcile(m, r) PROVE TreeInv'
    BY <1>16, ReconcileEffect DEF Reconcile, runVars, stopVars
  <1>17. ASSUME UNCHANGED <<mgr, host, kids, seen, rec>> PROVE TreeInv'
    BY <1>17
  <1>18. ASSUME NEW b \in Batches, StopStep(b) PROVE TreeInv'
    BY <1>17, <1>18, StopEffect
  <1> QED BY <1>1, <1>2, <1>3, <1>4, <1>5, <1>6, <1>7, <1>8, <1>9, <1>10, <1>11,
         <1>12, <1>13, <1>14, <1>15, <1>16, <1>17, <1>18 DEF Next, ManagerStep,
         TreeStep, MaintainerStep, vars, TakeExclusive, AssertInactive,
         DropExclusive, runVars

(* A complete observation and an idle record stay true.                     *)
LEMMA TruthStep == IInv /\ [Next]_vars => TruthInv'
  <1> SUFFICES ASSUME IInv, [Next]_vars PROVE TruthInv'
    OBVIOUS
  <1> USE DEF IInv, TypeOK, TreeInv, Tree, Recorded, TruthInv, IdleIsReleased, LeaseInv, Exclusive, Shared, ManagerHolds
  <1>1. ASSUME NEW r \in Runs, Admit(r) PROVE TruthInv'
    BY <1>1 DEF Admit, Goto, runVars, stopVars
  <1>2. ASSUME NEW r \in Runs, Refuse(r) PROVE TruthInv'
    BY <1>2 DEF Refuse, Goto, runVars, stopVars
  <1>3. ASSUME NEW r \in Runs, ProceedUnregistered(r) PROVE TruthInv'
    BY <1>3 DEF ProceedUnregistered, Goto, runVars, stopVars
  <1>4. ASSUME NEW r \in Runs, Spawn(r) PROVE TruthInv'
    BY <1>4 DEF Spawn, Goto, runVars, stopVars
  <1>5. ASSUME NEW r \in Runs, NEW covered \in BOOLEAN, Publish(r, covered) PROVE TruthInv'
    BY <1>5, Fresh DEF Publish, MayRegister, Goto, Registry, runVars, stopVars
  <1>6. ASSUME NEW r \in Runs,
                NEW from \in {"none", "host"}, NEW to \in {"host", "control"}, Bind(r, from, to) PROVE TruthInv'
    BY <1>6, BindEffect DEF Bind, runVars, stopVars
  <1>7. ASSUME NEW r \in Runs, Observe(r) PROVE TruthInv'
    BY <1>7 DEF Observe, ObservedComplete, Goto, runVars, stopVars
  <1>8. ASSUME NEW r \in Runs, LeaveUnregistered(r) PROVE TruthInv'
    BY <1>8 DEF LeaveUnregistered, Goto, runVars, stopVars
  <1>9. ASSUME NEW r \in Runs, Settle(r) PROVE TruthInv'
    <2>1. /\ UNCHANGED <<host, kids, seen>>
          /\ mgr[r] = "leaving" /\ mgr'[r] = "closing"
          /\ \A q \in Runs : q # r => mgr'[q] = mgr[q]
      BY <1>9 DEF Settle, Goto
    <2>2. \A q \in Runs : q # r => rec'[q] = rec[q]
      BY <1>9, SettleEffect
    <2>3. rec'[r].state = "idle_confirmed" => ~Tree(r)
      BY <1>9, <2>1, SettleEffect
    <2> QED BY <2>1, <2>2, <2>3
  <1>10. ASSUME NEW r \in Runs, Exit(r) PROVE TruthInv'
    BY <1>10 DEF Exit, Forget, Goto, runVars, stopVars
  <1>11. ASSUME NEW r \in Runs, Crash(r) PROVE TruthInv'
    BY <1>11 DEF Crash, Forget, runVars, stopVars
  <1>12. ASSUME NEW r \in Runs, HostForks(r) PROVE TruthInv'
    BY <1>12 DEF HostForks, runVars, stopVars
  <1>13. ASSUME NEW r \in Runs, KidsDetach(r) PROVE TruthInv'
    BY <1>13 DEF KidsDetach, runVars, stopVars
  <1>14. ASSUME NEW r \in Runs, KidsExit(r) PROVE TruthInv'
    BY <1>14 DEF KidsExit, runVars, stopVars
  <1>15. ASSUME NEW r \in Runs, HostExits(r) PROVE TruthInv'
    BY <1>15 DEF HostExits, runVars, stopVars
  <1>16. ASSUME NEW m \in Maintainers, NEW r \in Runs, Reconcile(m, r) PROVE TruthInv'
    <2>1. UNCHANGED <<mgr, host, kids, seen>> /\ ~Tree(r)
      BY <1>16 DEF Reconcile, runVars
    <2>2. ~Shared(r)
      BY <1>16 DEF Reconcile
    <2>3. \A q \in Runs : q # r => rec'[q] = rec[q]
      BY <1>16, ReconcileEffect
    <2>4. mgr[r] \in {"closing", "ended"}
      BY <1>16, <2>2, ReconcileEffect
    <2> QED BY <2>1, <2>3, <2>4
  <1>17. ASSUME UNCHANGED <<mgr, host, kids, seen, rec>> PROVE TruthInv'
    BY <1>17
  <1>18. ASSUME NEW b \in Batches, StopStep(b) PROVE TruthInv'
    BY <1>17, <1>18, StopEffect
  <1> QED BY <1>1, <1>2, <1>3, <1>4, <1>5, <1>6, <1>7, <1>8, <1>9, <1>10, <1>11,
         <1>12, <1>13, <1>14, <1>15, <1>16, <1>17, <1>18 DEF Next, ManagerStep,
         TreeStep, MaintainerStep, vars, TakeExclusive, AssertInactive,
         DropExclusive, runVars

(* Nothing registers, settles or fences while maintenance is inside.        *)
LEMMA InsideStep == IInv /\ [Next]_vars => InsideInv'
  <1> SUFFICES ASSUME IInv, [Next]_vars PROVE InsideInv'
    OBVIOUS
  <1> USE DEF IInv, TypeOK, Recorded, InsideInv, Unfenced, AllIdle, LeaseInv, Exclusive, Shared, StopHolds, ManagerHolds
  <1>1. ASSUME NEW r \in Runs, NEW covered \in BOOLEAN, Publish(r, covered) PROVE InsideInv'
    BY <1>1, Fresh DEF Publish, MayRegister, Goto, Registry, runVars, stopVars
  <1>2. ASSUME NEW r \in Runs,
                NEW from \in {"none", "host"}, NEW to \in {"host", "control"}, Bind(r, from, to) PROVE InsideInv'
    BY <1>2, BindEffect DEF Bind, runVars, stopVars
  <1>3. ASSUME NEW r \in Runs, Settle(r) PROVE InsideInv'
    BY <1>3, SettleEffect DEF Settle, Goto, runVars, stopVars
  <1>4. ASSUME NEW m \in Maintainers, TakeExclusive(m) PROVE InsideInv'
    BY <1>4 DEF TakeExclusive, runVars, stopVars
  <1>5. ASSUME NEW m \in Maintainers, AssertInactive(m) PROVE InsideInv'
    BY <1>5 DEF AssertInactive, MayMaintain, runVars, stopVars
  <1>6. ASSUME NEW m \in Maintainers, DropExclusive(m) PROVE InsideInv'
    BY <1>6 DEF DropExclusive, runVars, stopVars
  <1>7. ASSUME NEW m \in Maintainers, NEW r \in Runs, Reconcile(m, r) PROVE InsideInv'
    BY <1>7, ReconcileEffect DEF Reconcile, runVars, stopVars
  <1>8. ASSUME NEW b \in Batches, StopStep(b) PROVE InsideInv'
    <2>0. UNCHANGED <<rec, maint>>
      BY <1>8, StopEffect
    <2>1. CASE InstallFence(b)
      BY <2>0, <2>1 DEF InstallFence
    <2>2. CASE ~InstallFence(b)
      <3>1. fence' \in {fence, None}
        BY <1>8, <2>2, CloseEffect DEF StopStep, PlanStop, LeaseStop, PostRequest, AwaitExit, AbandonStop
      <3> QED BY <2>0, <3>1
    <2> QED BY <2>1, <2>2
  <1>9. ASSUME UNCHANGED <<rec, maint, fence>> PROVE InsideInv'
    BY <1>9
  <1> QED BY <1>1, <1>2, <1>3, <1>4, <1>5, <1>6, <1>7, <1>8, <1>9 DEF Next,
         ManagerStep, TreeStep, MaintainerStep, vars, Admit, Refuse,
         ProceedUnregistered, Spawn, Observe, LeaveUnregistered, Exit, Crash,
         HostForks, KidsDetach, KidsExit, HostExits, runVars, stopVars

(* Apart from publication and the stop clients, a step only moves records  *)
(* towards idle.                                                           *)
LEMMA RecordsSettle ==
  ASSUME IInv, [Next]_vars,
         \A r \in Runs, covered \in BOOLEAN : ~Publish(r, covered),
         \A b \in Batches : ~StopStep(b)
  PROVE  /\ UNCHANGED stopVars
         /\ \A q \in Runs : rec'[q] # None <=> rec[q] # None
         /\ \A q \in Recorded : rec[q].state = "idle_confirmed" => rec'[q].state = "idle_confirmed"
  <1>1. ASSUME NEW r \in Runs,
                NEW from \in {"none", "host"}, NEW to \in {"host", "control"}, Bind(r, from, to)
        PROVE  /\ UNCHANGED stopVars
               /\ \A q \in Runs : rec'[q] # None <=> rec[q] # None
               /\ \A q \in Recorded : rec'[q].state = rec[q].state
    BY <1>1, BindEffect DEF Bind
  <1>2. ASSUME NEW r \in Runs, Settle(r)
        PROVE  /\ UNCHANGED stopVars
               /\ \A q \in Runs : rec'[q] # None <=> rec[q] # None
               /\ \A q \in Runs : rec[q].state = "idle_confirmed" => rec'[q].state = "idle_confirmed"
    BY <1>2, SettleEffect DEF Settle
  <1>3. ASSUME NEW m \in Maintainers, NEW r \in Runs, Reconcile(m, r)
        PROVE  /\ UNCHANGED stopVars
               /\ \A q \in Runs : rec'[q] # None <=> rec[q] # None
               /\ \A q \in Runs : rec[q].state = "idle_confirmed" => rec'[q].state = "idle_confirmed"
    BY <1>3, ReconcileEffect DEF Reconcile
  <1>4. CASE UNCHANGED <<rec, stopVars>>
    BY <1>4
  <1> QED BY <1>1, <1>2, <1>3, <1>4 DEF Recorded, Next, ManagerStep, TreeStep, MaintainerStep,
         vars, Admit, Refuse, ProceedUnregistered, Spawn,
         Observe, LeaveUnregistered, Exit, Crash, HostForks, KidsDetach, KidsExit,
         HostExits, TakeExclusive, AssertInactive, DropExclusive, runVars, stopVars

(* Publishing adds one active record, and only while no fence stands.      *)
LEMMA PublishEffect ==
  ASSUME IInv, NEW r \in Runs, NEW covered \in BOOLEAN, Publish(r, covered)
  PROVE  /\ UNCHANGED stopVars /\ fence = None
         /\ r \notin Recorded
         /\ \A q \in Runs : q # r => rec'[q] = rec[q]
  BY DEF Publish, MayRegister, Unfenced, Goto, IInv, TypeOK, TreeInv, Registry

(* The fence is installed against the full record set and admits no other. *)
LEMMA FenceStep == IInv /\ [Next]_vars => FenceInv'
  <1> SUFFICES ASSUME IInv, [Next]_vars PROVE FenceInv'
    OBVIOUS
  <1>1. ASSUME NEW r \in Runs, NEW covered \in BOOLEAN, Publish(r, covered) PROVE FenceInv'
    BY <1>1, PublishEffect DEF FenceInv, stopVars
  <1>2. ASSUME NEW b \in Batches, StopStep(b) PROVE FenceInv'
    <2>0. UNCHANGED rec
      BY <1>2, StopEffect
    <2>1. CASE InstallFence(b)
      <3>1. snapshots' = [snapshots EXCEPT ![b] = plan[b]] /\ plan[b].records = rec
        BY <2>1 DEF InstallFence, CurrentPlan
      <3>2. fence' \in {None, b}
        BY <2>1 DEF InstallFence
      <3>3. plan[b] # None
        BY <2>1 DEF InstallFence, IInv, PlanInv
      <3> QED BY <2>0, <3>1, <3>2, <3>3 DEF FenceInv, Recorded, IInv, TypeOK
    <2>2. CASE ~InstallFence(b)
      <3>1. fence' \in {fence, None} /\ UNCHANGED snapshots
        BY <1>2, <2>2, CloseEffect DEF StopStep, PlanStop, LeaseStop, PostRequest, AwaitExit, AbandonStop
      <3> QED BY <2>0, <3>1 DEF IInv, FenceInv, Recorded
    <2> QED BY <2>1, <2>2
  <1>3. CASE /\ \A r \in Runs, covered \in BOOLEAN : ~Publish(r, covered)
             /\ \A b \in Batches : ~StopStep(b)
    BY <1>3, RecordsSettle DEF IInv, FenceInv, Recorded, stopVars
  <1> QED BY <1>1, <1>2, <1>3

(* A request is posted under its batch's fence, which only the close of    *)
(* that batch lifts, and the close is refused while the run is not idle.   *)
LEMMA RequestStep == IInv /\ [Next]_vars => RequestInv'
  <1> SUFFICES ASSUME IInv, [Next]_vars PROVE RequestInv'
    OBVIOUS
  <1>1. ASSUME NEW r \in Runs, NEW covered \in BOOLEAN, Publish(r, covered) PROVE RequestInv'
    BY <1>1, PublishEffect DEF IInv, RequestInv, RequestsStayFenced, Recorded, stopVars
  <1>2. ASSUME NEW b \in Batches, StopStep(b) PROVE RequestInv'
    <2>0. UNCHANGED rec
      BY <1>2, StopEffect
    <2>1. CASE InstallFence(b)
      <3>1. snapshots[b] = None /\ fence = None /\ UNCHANGED posted
        BY <2>1 DEF InstallFence, CurrentPlan, Unfenced
      <3>2. \A c \in Batches : c # b => snapshots'[c] = snapshots[c]
        BY <2>1 DEF InstallFence, IInv, TypeOK
      <3>3. \A r \in Runs : posted[r] # b
        BY <3>1 DEF IInv, RequestInv
      <3> QED BY <2>0, <3>1, <3>2, <3>3, RegistryAssumption
              DEF IInv, RequestInv, RequestsStayFenced, Recorded
    <2>2. ASSUME NEW r \in Runs, PostRequest(b, r) PROVE RequestInv'
      <3>1. /\ fence = b /\ r \in snapshots[b].selected
            /\ posted' = [posted EXCEPT ![r] = b]
            /\ UNCHANGED <<snapshots, fence>>
        BY <2>2 DEF PostRequest, MayPost
      <3>2. snapshots[b] # None /\ r \in Recorded
        BY <3>1, RegistryAssumption DEF IInv, SelectionInv, FenceInv
      <3> QED BY <2>0, <3>1, <3>2 DEF IInv, TypeOK, RequestInv, RequestsStayFenced, Recorded
    <2>3. CASE ConfirmStop(b) \/ CancelStop(b)
      <3>1. PICK reason \in {"stopped", "cancelled"} :
              \A r \in snapshots[b].selected : r \in Recorded /\ Closable(r, reason)
        BY <2>3, CloseEffect
      <3>2. fence = b /\ UNCHANGED <<snapshots, posted>>
        BY <2>3, CloseEffect
      <3>3. \A r \in Runs : posted[r] = b => rec[r].state = "idle_confirmed"
        BY <3>1, RegistryAssumption DEF Closable, IInv, RequestInv
      <3>4. \A r \in Runs, c \in Batches : posted[r] = c /\ rec[r].state # "idle_confirmed" => FALSE
        BY <3>2, <3>3 DEF IInv, RequestInv, RequestsStayFenced
      <3> QED BY <2>0, <3>2, <3>4 DEF IInv, RequestInv, RequestsStayFenced, Recorded
    <2>4. CASE UNCHANGED <<snapshots, fence, posted>>
      BY <2>0, <2>4 DEF IInv, RequestInv, RequestsStayFenced, Recorded
    <2> QED BY <1>2, <2>1, <2>2, <2>3, <2>4 DEF StopStep, PlanStop, LeaseStop, AwaitExit, AbandonStop
  <1>3. CASE /\ \A r \in Runs, covered \in BOOLEAN : ~Publish(r, covered)
             /\ \A b \in Batches : ~StopStep(b)
    BY <1>3, RecordsSettle DEF IInv, RequestInv, RequestsStayFenced, Recorded, stopVars
  <1> QED BY <1>1, <1>2, <1>3

(* A batch is closed as stopped over an idle selection, which stays idle.  *)
LEMMA CloseStep == IInv /\ [Next]_vars => CloseInv'
  <1> SUFFICES ASSUME IInv, [Next]_vars PROVE CloseInv'
    OBVIOUS
  <1>1. ASSUME NEW r \in Runs, NEW covered \in BOOLEAN, Publish(r, covered) PROVE CloseInv'
    BY <1>1, PublishEffect DEF IInv, CloseInv, Recorded, stopVars
  <1>2. ASSUME NEW b \in Batches, StopStep(b) PROVE CloseInv'
    <2>0. UNCHANGED rec
      BY <1>2, StopEffect
    <2>1. CASE InstallFence(b)
      <3>1. snapshots[b] = None /\ UNCHANGED closed
        BY <2>1 DEF InstallFence, CurrentPlan
      <3>2. \A c \in Batches : c # b => snapshots'[c] = snapshots[c]
        BY <2>1 DEF InstallFence, IInv, TypeOK
      <3>3. closed[b] = None
        BY <3>1 DEF IInv, CloseInv
      <3>4. closed[b] # "stopped"
        BY <3>3, RegistryAssumption
      <3> QED BY <2>0, <3>1, <3>2, <3>3, <3>4 DEF IInv, CloseInv, Recorded
    <2>2. CASE ConfirmStop(b) \/ CancelStop(b)
      <3>1. PICK reason \in {"stopped", "cancelled"} :
              /\ closed' = [closed EXCEPT ![b] = reason]
              /\ \A r \in snapshots[b].selected : r \in Recorded /\ Closable(r, reason)
        BY <2>2, CloseEffect
      <3>2. fence = b /\ UNCHANGED snapshots /\ snapshots[b] # None
        BY <2>2, CloseEffect, RegistryAssumption DEF IInv, FenceInv
      <3>3. closed'[b] = reason /\ \A c \in Batches : c # b => closed'[c] = closed[c]
        BY <3>1 DEF IInv, TypeOK
      <3> QED BY <2>0, <3>1, <3>2, <3>3 DEF IInv, CloseInv, Closable, Recorded
    <2>3. CASE UNCHANGED <<snapshots, closed>>
      BY <2>0, <2>3 DEF IInv, CloseInv, Recorded
    <2> QED BY <1>2, <2>1, <2>2, <2>3
            DEF StopStep, PlanStop, LeaseStop, PostRequest, AwaitExit, AbandonStop
  <1>3. CASE /\ \A r \in Runs, covered \in BOOLEAN : ~Publish(r, covered)
             /\ \A b \in Batches : ~StopStep(b)
    BY <1>3, RecordsSettle DEF IInv, CloseInv, Recorded, stopVars
  <1> QED BY <1>1, <1>2, <1>3

(* A client that holds the lease has a plan, made of recorded runs.        *)
LEMMA PlanStep == IInv /\ [Next]_vars => PlanInv' /\ SelectionInv'
  <1> SUFFICES ASSUME IInv, [Next]_vars PROVE PlanInv' /\ SelectionInv'
    OBVIOUS
  <1>1. ASSUME \A b \in Batches : ~StopStep(b)
        PROVE  UNCHANGED stopVars /\ \A q \in Recorded : q \in Recorded'
    <2>1. ASSUME NEW r \in Runs, NEW covered \in BOOLEAN, Publish(r, covered)
          PROVE  UNCHANGED stopVars /\ \A q \in Recorded : q \in Recorded'
      BY <2>1, PublishEffect DEF Recorded
    <2> QED BY <1>1, <2>1, RecordsSettle DEF Recorded
  <1>2. CASE \A b \in Batches : ~StopStep(b)
    BY <1>1, <1>2 DEF IInv, PlanInv, SelectionInv, stopVars
  <1>3. ASSUME NEW b \in Batches, StopStep(b) PROVE PlanInv' /\ SelectionInv'
    <2>0. UNCHANGED rec /\ Recorded' = Recorded
      BY <1>3, StopEffect DEF Recorded
    <2>1. CASE PlanStop(b)
      <3>1. PICK S \in SUBSET Recorded : plan' = [plan EXCEPT ![b] = [records |-> rec, selected |-> S]]
        BY <2>1 DEF PlanStop
      <3>2. [records |-> rec, selected |-> S] # None
        BY RegistryAssumption DEF Plan, Recorded, IInv, TypeOK
      <3>3. plan'[b] # None /\ plan'[b].selected \subseteq Recorded
        BY <3>1, <3>2 DEF IInv, TypeOK
      <3>4. \A c \in Batches : c # b => plan'[c] = plan[c] /\ stop'[c] = stop[c]
        BY <2>1, <3>1 DEF PlanStop, StopGoto, IInv, TypeOK
      <3> QED BY <2>0, <2>1, <3>3, <3>4 DEF IInv, TypeOK, PlanStop, PlanInv, SelectionInv
    <2>2. CASE LeaseStop(b)
      BY <2>0, <2>2 DEF LeaseStop, StopGoto, IInv, TypeOK, PlanInv, SelectionInv
    <2>3. CASE InstallFence(b)
      BY <2>0, <2>3 DEF InstallFence, StopGoto, StopEnds, IInv, TypeOK, PlanInv, SelectionInv
    <2>4. ASSUME NEW r \in Runs, PostRequest(b, r) PROVE PlanInv' /\ SelectionInv'
      BY <2>0, <2>4 DEF PostRequest, StopEnds, IInv, TypeOK, PlanInv, SelectionInv
    <2>5. CASE AwaitExit(b)
      BY <2>0, <2>5 DEF AwaitExit, StopGoto, IInv, TypeOK, PlanInv, SelectionInv
    <2>6. CASE AbandonStop(b)
      BY <2>0, <2>6 DEF AbandonStop, StopEnds, IInv, TypeOK, PlanInv, SelectionInv
    <2>7. CASE ConfirmStop(b)
      BY <2>0, <2>7 DEF ConfirmStop, CloseStop, StopEnds, IInv, TypeOK, PlanInv, SelectionInv
    <2>8. CASE CancelStop(b)
      BY <2>0, <2>8 DEF CancelStop, CloseStop, IInv, TypeOK, PlanInv, SelectionInv
    <2> QED BY <1>3, <2>1, <2>2, <2>3, <2>4, <2>5, <2>6, <2>7, <2>8 DEF StopStep
  <1> QED BY <1>2, <1>3

(* Every step keeps the inductive invariant, so it always holds.           *)
THEOREM InductiveInvariant == Spec => []IInv
  <1>1. IInv /\ [Next]_vars => IInv'
    BY TypeStep, LeaseStep, TreesStep, TruthStep, InsideStep, FenceStep, RequestStep,
       CloseStep, PlanStep DEF IInv
  <1> QED BY InitIInv, <1>1, PTL DEF Spec

(* The state always has its type.                                          *)
THEOREM TypeCorrect == Spec => []TypeOK
  <1>1. IInv => TypeOK
    BY DEF IInv
  <1> QED BY InductiveInvariant, <1>1, PTL

(* What maintenance saw when it entered (an unfenced, idle registry) still *)
(* holds, an idle record is truthful and a registered tree has a record.   *)
LEMMA InsideExcludes == IInv => MaintenanceExcludesTrees /\ NoMaintenanceUnderFence
  <1> SUFFICES ASSUME IInv, NEW m \in Maintainers, maint[m] = "inside"
               PROVE  /\ fence = None
                      /\ \A r \in Runs : host[r] # "alive" /\ (r \notin Unregistered => ~Tree(r))
    BY DEF MaintenanceExcludesTrees, NoMaintenanceUnderFence
  <1>1. fence = None /\ AllIdle
    BY DEF IInv, InsideInv, Unfenced
  <1>2. \A r \in Runs : ~Shared(r)
    BY DEF IInv, LeaseInv, Exclusive
  <1>3. \A r \in Runs : r \notin Unregistered => ~Tree(r)
    BY <1>1 DEF IInv, TreeInv, TruthInv, IdleIsReleased, AllIdle
  <1> QED BY <1>1, <1>2, <1>3 DEF Shared

(* Maintenance never overlaps a process tree, however managers crash.      *)
THEOREM Exclusion == Spec => []MaintenanceExcludesTrees
  BY InductiveInvariant, InsideExcludes, PTL

(* Maintenance is never inside a fenced instance.                          *)
THEOREM FenceBlocks == Spec => []NoMaintenanceUnderFence
  BY InductiveInvariant, InsideExcludes, PTL

(* An idle record is always truthful.                                      *)
THEOREM Release == Spec => []IdleIsReleased
  <1>1. IInv => IdleIsReleased
    BY DEF IInv, TruthInv
  <1> QED BY InductiveInvariant, <1>1, PTL

(* The fence always covers the live registered runs.                       *)
LEMMA CoveredByFence == IInv => FenceCoversLive
  BY DEF IInv, FenceCoversLive, FenceInv, TreeInv, TruthInv, IdleIsReleased

(* While the fence stands it covers every live registered run.             *)
THEOREM Coverage == Spec => []FenceCoversLive
  BY InductiveInvariant, CoveredByFence, PTL

(* A posted request keeps its run fenced until the run is idle.            *)
THEOREM Requests == Spec => []RequestsStayFenced
  <1>1. IInv => RequestsStayFenced
    BY DEF IInv, RequestInv
  <1> QED BY InductiveInvariant, <1>1, PTL

(* A batch closed as stopped has its whole selection gone.                 *)
THEOREM Stopped == Spec => []StoppedIsReleased
  <1>1. IInv => StoppedIsReleased
    BY DEF IInv, CloseInv, StoppedIsReleased, TruthInv, IdleIsReleased
  <1> QED BY InductiveInvariant, <1>1, PTL

(* The fence keeps the registry's membership, is lifted by the close of    *)
(* its own batch and never stands twice for one batch.                     *)
THEOREM Discipline == Spec => FenceDiscipline
  <1> DEFINE Keeps == /\ fence # None => /\ Recorded' = Recorded
                                         /\ fence' \in {fence, None}
                                         /\ fence' = None => closed'[fence] # None
                      /\ \A b \in Batches : snapshots[b] # None /\ fence # b => fence' # b
  <1>1. IInv /\ [Next]_vars => [Keeps]_vars
    <2> SUFFICES ASSUME IInv, [Next]_vars PROVE Keeps
      OBVIOUS
    <2>1. ASSUME NEW r \in Runs, NEW covered \in BOOLEAN, Publish(r, covered) PROVE Keeps
      BY <2>1, PublishEffect, RegistryAssumption DEF stopVars
    <2>2. ASSUME NEW b \in Batches, StopStep(b) PROVE Keeps
      <3>0. Recorded' = Recorded
        BY <2>2, StopEffect DEF Recorded
      <3>1. CASE InstallFence(b)
        BY <3>1, RegistryAssumption DEF InstallFence, CurrentPlan, Unfenced
      <3>2. CASE ConfirmStop(b) \/ CancelStop(b)
        <4>1. fence = b /\ fence' \in {fence, None}
          BY <3>2, CloseEffect
        <4>2. closed'[b] # None
          BY <3>2, CloseEffect, RegistryAssumption DEF IInv, TypeOK
        <4> QED BY <3>0, <4>1, <4>2, RegistryAssumption
      <3>3. CASE UNCHANGED fence
        BY <3>0, <3>3
      <3> QED BY <2>2, <3>1, <3>2, <3>3
              DEF StopStep, PlanStop, LeaseStop, PostRequest, AwaitExit, AbandonStop
    <2>3. CASE /\ \A r \in Runs, covered \in BOOLEAN : ~Publish(r, covered)
               /\ \A b \in Batches : ~StopStep(b)
      BY <2>3, RecordsSettle, RegistryAssumption DEF Recorded, stopVars
    <2> QED BY <2>1, <2>2, <2>3
  <1> QED BY InductiveInvariant, <1>1, PTL DEF FenceDiscipline, Spec

-----------------------------------------------------------------------------
(* Refinement of the admission gate.                                       *)

GateAlive == {r \in Runs \ Unregistered : Tree(r)}
GateInside == {m \in Maintainers : maint[m] = "inside"}
GateMembers == IF fence = None THEN {}
               ELSE {r \in Runs \ Unregistered : snapshots[fence].records[r] # None}
GateState == <<GateAlive, GateInside, fence # None, GateMembers>>

(* The gate's variables are these four functions of the registry's.        *)
LEMMA GateStutter ==
  ASSUME UNCHANGED GateState
  PROVE  UNCHANGED Gate!gateVars
  BY DEF Gate!gateVars, GateState, GateAlive, GateInside, GateMembers

(* The seal is a function of the fence and its snapshot.                   *)
LEMMA SealKept ==
  ASSUME UNCHANGED <<fence, snapshots>>
  PROVE  UNCHANGED GateMembers /\ UNCHANGED (fence # None)
  BY DEF GateMembers

(* Spawning a host starts a tree, or nothing abstract if it is uncovered.  *)
LEMMA SpawnStarts ==
  ASSUME IInv, NEW r \in Runs, Spawn(r)
  PROVE  [Gate!GateNext]_Gate!gateVars
  <1>1. UNCHANGED GateInside /\ UNCHANGED GateMembers /\ UNCHANGED (fence # None)
    BY SealKept DEF Spawn, GateInside, stopVars
  <1>2. CASE r \in Unregistered
    <2>1. UNCHANGED GateAlive
      BY <1>2 DEF Spawn, GateAlive, Tree, IInv, TypeOK
    <2> QED BY <1>1, <2>1, GateStutter DEF GateState
  <1>3. CASE r \notin Unregistered
    <2>1. GateAlive' = GateAlive \cup {r}
      BY <1>3 DEF Spawn, GateAlive, Tree, IInv, TypeOK
    <2>2. GateInside = {}
      BY DEF GateInside, IInv, LeaseInv, Exclusive, Shared, ManagerHolds, Spawn, Goto
    <2>3. fence # None => r \in GateMembers
      BY <1>3 DEF GateMembers, IInv, FenceInv, TreeInv, Spawn, Goto
    <2>4. Gate!Start(r)
      BY <1>1, <2>1, <2>2, <2>3 DEF Gate!Start, GateAlive, GateInside, GateMembers
    <2> QED BY <1>3, <2>4 DEF Gate!GateNext
  <1> QED BY <1>2, <1>3

(* An exit ends the tree only if nothing else of it is left.               *)
LEMMA ExitStops ==
  ASSUME IInv, NEW r \in Runs, KidsExit(r) \/ HostExits(r)
  PROVE  [Gate!GateNext]_Gate!gateVars
  <1>1. UNCHANGED GateInside /\ UNCHANGED GateMembers /\ UNCHANGED (fence # None)
    BY SealKept DEF KidsExit, HostExits, GateInside, stopVars
  <1>2. GateAlive' \in {GateAlive, GateAlive \ {r}}
    BY DEF KidsExit, HostExits, GateAlive, Tree, IInv, TypeOK
  <1>3. CASE GateAlive' = GateAlive
    BY <1>1, <1>3, GateStutter DEF GateState
  <1>4. CASE GateAlive' # GateAlive
    <2>1. r \in GateAlive /\ GateAlive' = GateAlive \ {r}
      BY <1>2, <1>4
    <2>2. Gate!Stop(r)
      BY <1>1, <2>1 DEF Gate!Stop, GateAlive, GateInside, GateMembers
    <2> QED BY <2>1, <2>2 DEF Gate!GateNext, GateAlive
  <1> QED BY <1>3, <1>4

(* Forking and giving up the lease leave the tree alive.                   *)
LEMMA ForkStutters ==
  ASSUME IInv, NEW r \in Runs, HostForks(r) \/ KidsDetach(r)
  PROVE  [Gate!GateNext]_Gate!gateVars
  <1>1. UNCHANGED GateAlive /\ UNCHANGED GateInside
    BY DEF HostForks, KidsDetach, GateAlive, GateInside, Tree, IInv, TypeOK
  <1>2. UNCHANGED GateMembers /\ UNCHANGED (fence # None)
    BY SealKept DEF HostForks, KidsDetach, stopVars
  <1> QED BY <1>1, <1>2, GateStutter DEF GateState

(* Entering maintenance finds no covered tree and no other maintainer.     *)
LEMMA AssertEnters ==
  ASSUME IInv, NEW m \in Maintainers, AssertInactive(m)
  PROVE  [Gate!GateNext]_Gate!gateVars
  <1>1. UNCHANGED GateAlive /\ UNCHANGED GateMembers /\ UNCHANGED (fence # None) /\ fence = None
    BY SealKept DEF AssertInactive, MayMaintain, Unfenced, GateAlive, Tree, runVars, stopVars
  <1>2. GateAlive = {}
    BY DEF AssertInactive, MayMaintain, AllIdle, GateAlive, IInv, TreeInv, TruthInv, IdleIsReleased
  <1>3. GateInside = {} /\ GateInside' = {m}
    BY DEF AssertInactive, GateInside, IInv, TypeOK, LeaseInv, Exclusive
  <1>4. Gate!Enter(m)
    BY <1>1, <1>2, <1>3 DEF Gate!Enter, GateAlive, GateInside, GateMembers
  <1> QED BY <1>4 DEF Gate!GateNext

(* Dropping the exclusive lease leaves maintenance if it was entered.      *)
LEMMA DropLeaves ==
  ASSUME IInv, NEW m \in Maintainers, DropExclusive(m)
  PROVE  [Gate!GateNext]_Gate!gateVars
  <1>1. UNCHANGED GateAlive /\ UNCHANGED GateMembers /\ UNCHANGED (fence # None)
    BY SealKept DEF DropExclusive, GateAlive, Tree, runVars, stopVars
  <1>2. GateInside' = GateInside \ {m}
    BY DEF DropExclusive, GateInside, IInv, TypeOK
  <1>3. CASE m \in GateInside
    <2>1. Gate!Leave(m)
      BY <1>1, <1>2, <1>3 DEF Gate!Leave, GateAlive, GateInside, GateMembers
    <2> QED BY <2>1 DEF Gate!GateNext
  <1>4. CASE m \notin GateInside
    <2>1. GateInside' = GateInside
      BY <1>2, <1>4
    <2> QED BY <1>1, <2>1, GateStutter DEF GateState
  <1> QED BY <1>3, <1>4

(* Installing the fence seals the instance around every live tree; an      *)
(* orphan snapshot changes nothing abstract.                               *)
LEMMA FenceSeals ==
  ASSUME IInv, NEW b \in Batches, InstallFence(b)
  PROVE  [Gate!GateNext]_Gate!gateVars
  <1>1. UNCHANGED GateAlive /\ UNCHANGED GateInside /\ fence = None
    BY DEF InstallFence, Unfenced, GateAlive, GateInside, Tree, runVars
  <1>2. CASE fence' = None
    <2>1. UNCHANGED GateMembers /\ UNCHANGED (fence # None)
      BY <1>1, <1>2 DEF GateMembers
    <2> QED BY <1>1, <2>1, GateStutter DEF GateState
  <1>3. CASE fence' # None
    <2>1. fence' = b /\ snapshots'[b].records = rec
      BY <1>3 DEF InstallFence, CurrentPlan, IInv, TypeOK
    <2>2. GateMembers' = {r \in Runs \ Unregistered : rec[r] # None}
      BY <1>3, <2>1 DEF GateMembers
    <2>3. GateAlive \subseteq GateMembers'
      BY <2>2 DEF GateAlive, IInv, TreeInv, Recorded
    <2>4. GateInside = {}
      BY DEF GateInside, IInv, LeaseInv, Exclusive, StopHolds, InstallFence
    <2>5. PICK S \in SUBSET (Runs \ Unregistered) : S = GateMembers'
      BY <2>2
    <2>6. Gate!Seal(S)
      BY <1>1, <1>3, <2>3, <2>4, <2>5 DEF Gate!Seal, GateAlive, GateInside, GateMembers
    <2> QED BY <2>6 DEF Gate!GateNext
  <1> QED BY <1>2, <1>3

(* Closing a batch lifts the seal, or changes nothing abstract if the      *)
(* fence could not be removed.                                             *)
LEMMA CloseUnseals ==
  ASSUME IInv, NEW b \in Batches, ConfirmStop(b) \/ CancelStop(b)
  PROVE  [Gate!GateNext]_Gate!gateVars
  <1>1. UNCHANGED GateAlive /\ UNCHANGED GateInside
    BY StopEffect DEF StopStep, GateAlive, GateInside, Tree
  <1>2. fence = b /\ fence' \in {fence, None} /\ UNCHANGED snapshots
    BY CloseEffect
  <1>3. CASE fence' = None
    <2>1. fence # None
      BY <1>2, RegistryAssumption
    <2>2. Gate!Unseal
      BY <1>1, <1>3, <2>1 DEF Gate!Unseal, GateAlive, GateInside, GateMembers
    <2> QED BY <2>2 DEF Gate!GateNext
  <1>4. CASE fence' = fence
    BY <1>1, <1>2, <1>4, SealKept, GateStutter DEF GateState
  <1> QED BY <1>2, <1>3, <1>4

(* The steps that move neither trees, nor insiders, nor the fence and its  *)
(* snapshot.                                                               *)
LEMMA QuietStutters ==
  ASSUME UNCHANGED <<host, kids, fence, snapshots>>, UNCHANGED GateInside
  PROVE  [Gate!GateNext]_Gate!gateVars
  <1>1. UNCHANGED GateAlive
    BY DEF GateAlive, Tree
  <1> QED BY <1>1, SealKept, GateStutter DEF GateState

(* The registry implements the admission gate, for every set of runs,      *)
(* maintainers and batches.                                                *)
THEOREM Refinement == Spec => ImplementsGate
  <1>1. Init => Gate!GateInit
    BY DEF Init, Gate!GateInit, Tree
  <1>2. IInv /\ [Next]_vars => [Gate!GateNext]_Gate!gateVars
    <2> SUFFICES ASSUME IInv, [Next]_vars PROVE [Gate!GateNext]_Gate!gateVars
      OBVIOUS
    <2>1. ASSUME NEW r \in Runs, ManagerStep(r) \/ Crash(r) PROVE [Gate!GateNext]_Gate!gateVars
      <3>1. CASE Spawn(r)
        BY <3>1, SpawnStarts
      <3>2. CASE ~Spawn(r)
        <4>1. UNCHANGED <<host, kids, fence, snapshots, maint>>
          BY <2>1, <3>2 DEF ManagerStep, Crash, Admit, Refuse, ProceedUnregistered, Publish,
             Bind, Observe, LeaveUnregistered, Settle, Exit, runVars, stopVars
        <4>2. UNCHANGED GateInside
          BY <4>1 DEF GateInside
        <4> QED BY <4>1, <4>2, QuietStutters
      <3> QED BY <3>1, <3>2
    <2>2. ASSUME NEW r \in Runs, TreeStep(r) PROVE [Gate!GateNext]_Gate!gateVars
      BY <2>2, ExitStops, ForkStutters DEF TreeStep
    <2>3. ASSUME NEW m \in Maintainers, MaintainerStep(m) PROVE [Gate!GateNext]_Gate!gateVars
      <3>1. CASE TakeExclusive(m) \/ \E r \in Runs : Reconcile(m, r)
        <4>1. UNCHANGED <<host, kids, fence, snapshots>>
          BY <3>1 DEF TakeExclusive, Reconcile, runVars, stopVars
        <4>2. UNCHANGED GateInside
          BY <3>1 DEF TakeExclusive, Reconcile, GateInside, IInv, TypeOK
        <4> QED BY <4>1, <4>2, QuietStutters
      <3> QED BY <2>3, <3>1, AssertEnters, DropLeaves DEF MaintainerStep
    <2>4. ASSUME NEW b \in Batches, StopStep(b) PROVE [Gate!GateNext]_Gate!gateVars
      <3>1. CASE \/ PlanStop(b) \/ LeaseStop(b) \/ AwaitExit(b) \/ AbandonStop(b)
                 \/ \E r \in Runs : PostRequest(b, r)
        <4>1. UNCHANGED <<host, kids, fence, snapshots, maint>>
          BY <3>1 DEF PlanStop, LeaseStop, PostRequest, AwaitExit, AbandonStop, runVars
        <4>2. UNCHANGED GateInside
          BY <4>1 DEF GateInside
        <4> QED BY <4>1, <4>2, QuietStutters
      <3> QED BY <2>4, <3>1, FenceSeals, CloseUnseals DEF StopStep
    <2>5. CASE UNCHANGED vars
      <3>1. UNCHANGED <<host, kids, fence, snapshots>> /\ UNCHANGED GateInside
        BY <2>5 DEF vars, GateInside
      <3> QED BY <3>1, QuietStutters
    <2> QED BY <2>1, <2>2, <2>3, <2>4, <2>5 DEF Next
  <1> QED BY InductiveInvariant, <1>1, <1>2, PTL DEF Spec, ImplementsGate, Gate!GateSpec

-----------------------------------------------------------------------------
(* Liveness.  The prover takes ENABLED as a predicate that it knows        *)
(* nothing of: that the steps whose fairness is assumed can be taken is    *)
(* the premise Unblocked, and what they achieve is proved.                 *)

(* Only its own steps and its end move a manager past its wait, and a host *)
(* that exited does not come back.                                         *)
LEMMA LeavingSteps ==
  ASSUME TypeOK, [Next]_vars, NEW r \in Runs
  PROVE  /\ mgr[r] = "running" /\ host[r] = "gone" =>
              (mgr'[r] = "running" /\ host'[r] = "gone") \/ mgr'[r] \in {"leaving", "closing", "ended"}
         /\ mgr[r] = "leaving" => mgr'[r] \in {"leaving", "closing", "ended"}
         /\ mgr[r] = "closing" => mgr'[r] \in {"closing", "ended"}
  <1> USE DEF TypeOK
  <1>1. ASSUME NEW q \in Runs, ManagerStep(q) \/ Crash(q)
        PROVE  /\ (mgr'[r] = mgr[r] /\ host'[r] = host[r]) \/ q = r
               /\ q = r => \/ mgr[r] \in {"idle", "leased", "registered", "ended"}
                           \/ mgr'[r] = mgr[r] /\ host'[r] = host[r]
                           \/ mgr[r] = "running" /\ mgr'[r] \in {"leaving", "closing"}
                           \/ mgr[r] = "leaving" /\ mgr'[r] = "closing"
                           \/ mgr'[r] = "ended"
    <2>1. CASE Admit(q) \/ Refuse(q) \/ ProceedUnregistered(q) \/ Spawn(q)
      BY <2>1 DEF Admit, Refuse, ProceedUnregistered, Spawn, Goto
    <2>2. CASE \E covered \in BOOLEAN : Publish(q, covered)
      BY <2>2 DEF Publish, Goto
    <2>3. CASE Bind(q, "none", "host") \/ Bind(q, "host", "control")
      BY <2>3 DEF Bind, runVars
    <2>4. CASE Observe(q) \/ LeaveUnregistered(q) \/ Settle(q) \/ Exit(q) \/ Crash(q)
      BY <2>4 DEF Observe, LeaveUnregistered, Settle, Exit, Crash, Goto
    <2> QED BY <1>1, <2>1, <2>2, <2>3, <2>4 DEF ManagerStep
  <1>2. ASSUME NEW q \in Runs, TreeStep(q)
        PROVE  mgr' = mgr /\ (host[r] = "gone" => host'[r] = "gone")
    BY <1>2 DEF TreeStep, HostForks, KidsDetach, KidsExit, HostExits
  <1>3. ASSUME NEW m \in Maintainers, MaintainerStep(m) PROVE mgr' = mgr /\ host' = host
    BY <1>3 DEF MaintainerStep, TakeExclusive, AssertInactive, DropExclusive, Reconcile, runVars
  <1>4. ASSUME NEW b \in Batches, StopStep(b) PROVE mgr' = mgr /\ host' = host
    BY <1>4 DEF StopStep, PlanStop, LeaseStop, InstallFence, AwaitExit, AbandonStop, ConfirmStop,
       CancelStop, CloseStop, PostRequest, runVars
  <1>5. CASE UNCHANGED vars
    BY <1>5 DEF vars
  <1> QED BY <1>1, <1>2, <1>3, <1>4, <1>5 DEF Next

(* What the fair steps achieve.                                            *)
LEMMA LeavingProgress ==
  ASSUME TypeOK, NEW r \in Runs
  PROVE  /\ WaitEnds(r) => mgr'[r] \in {"leaving", "closing"}
         /\ Settle(r) => mgr'[r] = "closing"
         /\ Exit(r) => mgr'[r] = "ended"
  BY DEF TypeOK, WaitEnds, Observe, LeaveUnregistered, Settle, Exit, Goto

(* A manager whose host exited leaves and drops its lease, under the       *)
(* fairness of its own steps and whatever all others do.                   *)
LEMMA OneManagerLeaves ==
  ASSUME NEW r \in Runs
  PROVE  Spec /\ FairManager(r) /\ []UnblockedManager(r) => LeavesAfterHost(r)
  <1> DEFINE Waits == mgr[r] = "running" /\ host[r] = "gone"
             At(where) == mgr[r] = where
  <1>1. TypeOK /\ [Next]_vars =>
          /\ Waits => Waits' \/ At("leaving")' \/ At("closing")' \/ At("ended")'
          /\ At("leaving") => At("leaving")' \/ At("closing")' \/ At("ended")'
          /\ At("closing") => At("closing")' \/ At("ended")'
    BY LeavingSteps
  <1>2. TypeOK /\ <<WaitEnds(r)>>_vars => At("leaving")' \/ At("closing")'
    BY LeavingProgress
  <1>3. TypeOK /\ <<Settle(r)>>_vars => At("closing")'
    BY LeavingProgress
  <1>4. TypeOK /\ <<Exit(r)>>_vars => At("ended")'
    BY LeavingProgress
  <1>5. UnblockedManager(r) => /\ Waits => ENABLED <<WaitEnds(r)>>_vars
                               /\ At("leaving") => ENABLED <<Settle(r)>>_vars
                               /\ At("closing") => ENABLED <<Exit(r)>>_vars
    BY DEF UnblockedManager
  <1>6. LeavesAfterHost(r) <=> (Waits ~> At("ended"))
    BY DEF LeavesAfterHost
  <1> HIDE DEF Waits, At
  <1> QED BY <1>1, <1>2, <1>3, <1>4, <1>5, <1>6, TypeCorrect, PTL DEF Spec, FairManager

(* A manager whose host exited leaves and drops its lease although its     *)
(* descendants never exit (runtime.run, registered_run).                   *)
THEOREM ManagersLeave == FairSpec /\ []Unblocked => ManagerLeaves
  <1>1. ASSUME NEW r \in Runs PROVE FairSpec /\ []Unblocked => LeavesAfterHost(r)
    <2>1. Fairness => FairManager(r)
      BY DEF Fairness
    <2>2. Unblocked => UnblockedManager(r)
      BY DEF Unblocked
    <2> QED BY <2>1, <2>2, OneManagerLeaves, PTL DEF FairSpec
  <1> QED BY <1>1 DEF ManagerLeaves
=============================================================================
