------------------------- MODULE ToolMaintenanceProofs -------------------------
(***************************************************************************)
(* Proofs about ToolMaintenance, and about the resumes that it is built    *)
(* on, for any runs, sessions, targets and callers.                        *)
(*                                                                         *)
(* The resumes come first: ResumeInv says what the place of a call implies *)
(* about its owner record, its request and its processes, and that a       *)
(* session has one request that stands.                                    *)
(***************************************************************************)
EXTENDS ToolMaintenance, FiniteSetTheorems, TLAPS

(* Before the claim there is neither a request nor a process; a request is *)
(* there before a process; and a record that is idle stays so.             *)
StateOf(r) ==
  /\ at[r] = "idle" => want[r] = None /\ owner[r] = "none"
  /\ at[r] # "idle" => want[r] \in Sessions
  /\ at[r] \in {"registered", "admitted", "claimed", "spawned", "waiting", "leaving", "ended"} => owner[r] = "active"
  /\ at[r] \in {"idle", "registered", "admitted"} => attempt[r] = None
  /\ at[r] \in {"idle", "registered", "admitted", "claimed"} => tree[r] = "unborn"
  /\ at[r] \in {"claimed", "spawned"} => attempt[r] # None /\ attempt[r].dispatch = "intent"
  /\ at[r] \in {"spawned", "waiting"} => tree[r] # "unborn"
  /\ at[r] \in {"claimed", "spawned", "waiting"} => attempt[r] # None /\ ~attempt[r].exited
  /\ at[r] = "ended" => tree[r] \in {"kids", "over"}
  /\ owner[r] = "idle" => at[r] = "gone" /\ ~Living(r)
  /\ tree[r] # "unborn" => attempt[r] # None
  /\ attempt[r] # None =>
       /\ attempt[r].exited => attempt[r].dispatch = "launched" /\ tree[r] \in {"kids", "over"}
       /\ attempt[r].dispatch = "launched" => tree[r] # "unborn"
OneClaim == \A r, q \in Runs : Standing(r) /\ Standing(q) /\ want[r] = want[q] => r = q
ResumeInv == ResumeTypeOK /\ (\A r \in Runs : StateOf(r)) /\ SnapshotSafe /\ OneClaim

-----------------------------------------------------------------------------
RunStep(r) == Proceed(r) \/ Around(r) \/ Crash(r) \/ \E s \in Sessions : Register(r, s)

(* What becomes of a request, for any of its values.                       *)
New == [dispatch |-> "intent", exited |-> FALSE]
Ended == [dispatch |-> "launched", exited |-> TRUE]
(* The two requests that are written whole.                                *)
LEMMA NewRequests ==
  /\ New \in Requests /\ New # None /\ New.dispatch = "intent" /\ ~New.exited
  /\ Ended \in Requests /\ Ended # None /\ Ended.dispatch = "launched" /\ Ended.exited
  <1>1. TRUE \in BOOLEAN /\ FALSE \in BOOLEAN
    OBVIOUS
  <1>2. New \in Requests /\ New.dispatch = "intent" /\ ~New.exited
    BY <1>1 DEF New, Requests
  <1>3. Ended \in Requests /\ Ended.dispatch = "launched" /\ Ended.exited
    BY <1>1 DEF Ended, Requests
  <1> QED BY <1>2, <1>3, ResumeAssumption

(* A request of the right type keeps it.                                   *)
LEMMA RequestTypes ==
  ASSUME ResumeTypeOK, NEW r \in Runs, attempt[r] # None
  PROVE  [attempt[r] EXCEPT !.dispatch = "launched"] \in Requests /\ attempt[r] \in Requests
  BY DEF ResumeTypeOK, Requests

(* A step of a run keeps the types and leaves the other runs alone.        *)
LEMMA ResumeTypes ==
  ASSUME ResumeTypeOK, NEW r \in Runs, StateOf(r), RunStep(r)
  PROVE  /\ ResumeTypeOK'
         /\ \A q \in Runs \ {r} : UNCHANGED <<want[q], owner[q], attempt[q], at[q], free[q], tree[q]>>
  <1> USE DEF ResumeTypeOK, Goto
  <1>1. CASE (\E s \in Sessions : Register(r, s)) \/ Crash(r) \/ Around(r)
    BY <1>1 DEF Register, Crash, Around, HostExits, KidsExit, Reconcile
  <1>2. CASE Snapshot(r) \/ Busy(r) \/ Refuse(r) \/ Spawn(r) \/ WaitFails(r) \/ Settle(r)
    BY <1>2 DEF Snapshot, Busy, Refuse, Spawn, WaitFails, Settle
  <1>3. CASE Claim(r)
    <2>1. attempt' = [attempt EXCEPT ![r] = New]
      BY <1>3 DEF Claim, New
    <2>2. attempt' \in [Runs -> Requests \cup {None}] /\ \A q \in Runs \ {r} : attempt'[q] = attempt[q]
      BY <2>1, NewRequests
    <2>3. at' = [at EXCEPT ![r] = "claimed"] \/ at' = [at EXCEPT ![r] = "leaving"]
      BY <1>3 DEF Claim
    <2> QED BY <1>3, <2>2, <2>3 DEF Claim
  <1>4. CASE Launched(r)
    <2>1. attempt' = attempt \/ attempt' = [attempt EXCEPT ![r] = [attempt[r] EXCEPT !.dispatch = "launched"]]
      BY <1>4 DEF Launched
    <2>2. attempt[r] # None
      BY <1>4 DEF Launched, StateOf
    <2> QED BY <1>4, <2>1, <2>2, RequestTypes DEF Launched
  <1>5. CASE Exited(r)
    <2>1. attempt' = attempt \/ attempt' = [attempt EXCEPT ![r] = Ended]
      BY <1>5 DEF Exited, Ended
    <2> QED BY <1>5, <2>1, NewRequests DEF Exited
  <1> QED BY <1>1, <1>2, <1>3, <1>4, <1>5 DEF RunStep, Proceed

(* It keeps its own state consistent.                                      *)
LEMMA StateStep ==
  ASSUME ResumeTypeOK, NEW r \in Runs, StateOf(r), RunStep(r)
  PROVE  StateOf(r)'
  <1> USE DEF ResumeTypeOK, StateOf, Goto, Living
  <1>1. CASE \E s \in Sessions : Register(r, s)
    BY <1>1, ResumeAssumption DEF Register
  <1>2. CASE Crash(r) \/ Reconcile(r)
    BY <1>2 DEF Crash, Reconcile
  <1>3. CASE HostExits(r) \/ KidsExit(r)
    BY <1>3 DEF HostExits, KidsExit
  <1>4. CASE Snapshot(r) \/ Busy(r) \/ Refuse(r) \/ WaitFails(r)
    BY <1>4 DEF Snapshot, Busy, Refuse, WaitFails
  <1>5. CASE Claim(r)
    <2>1. /\ attempt' = [attempt EXCEPT ![r] = New] /\ at[r] = "admitted"
          /\ at'[r] \in {"claimed", "leaving"} /\ UNCHANGED <<want, owner, tree>>
      BY <1>5 DEF Claim, New
    <2> QED BY <2>1, NewRequests
  <1>6. CASE Spawn(r)
    BY <1>6 DEF Spawn
  <1>7. CASE Launched(r)
    <2>1. /\ at[r] = "spawned" /\ at'[r] = "waiting" /\ UNCHANGED <<want, owner, free, tree>>
          /\ attempt' = attempt \/ attempt' = [attempt EXCEPT ![r] = [attempt[r] EXCEPT !.dispatch = "launched"]]
      BY <1>7 DEF Launched
    <2>2. /\ attempt'[r] \in Requests /\ attempt'[r].exited = attempt[r].exited
      BY <2>1, RequestTypes DEF Requests
    <2>3. attempt'[r] # None
      BY <2>2, ResumeAssumption
    <2> QED BY <2>1, <2>2, <2>3
  <1>8. CASE Exited(r)
    <2>1. /\ at[r] = "waiting" /\ at'[r] = "ended" /\ UNCHANGED <<want, owner, free, tree>> /\ tree[r] # "host"
          /\ attempt' = attempt \/ attempt' = [attempt EXCEPT ![r] = Ended]
      BY <1>8 DEF Exited, Ended
    <2> QED BY <2>1, NewRequests
  <1>9. CASE Settle(r)
    BY <1>9 DEF Settle, Complete
  <1> QED BY <1>1, <1>2, <1>3, <1>4, <1>5, <1>6, <1>7, <1>8, <1>9 DEF RunStep, Proceed, Around

(* A snapshot is never wrong about a release: it is final.                 *)
LEMMA SnapshotStep ==
  ASSUME ResumeInv, NEW r \in Runs, RunStep(r), ResumeTypeOK', \A q \in Runs : StateOf(q)'
  PROVE  SnapshotSafe'
  <1>1. \A q \in Runs \ {r} : UNCHANGED <<want[q], owner[q], attempt[q], at[q], free[q], tree[q]>>
    BY ResumeTypes DEF ResumeInv
  <1>2. owner[r] = "idle" => owner'[r] = "idle"
    BY DEF ResumeInv, ResumeTypeOK, StateOf, RunStep, Proceed, Around, Register, Snapshot, Busy, Claim, Refuse, Spawn,
       Launched, Exited, WaitFails, Settle, HostExits, KidsExit, Crash, Reconcile, Goto
  <1>3. \A q \in Runs : owner[q] = "idle" => owner'[q] = "idle"
    BY <1>1, <1>2
  <1>4. free' = free \/ Snapshot(r)
    BY DEF RunStep, Proceed, Around, Register, Busy, Claim, Refuse, Spawn, Launched, Exited, WaitFails, Settle,
       HostExits, KidsExit, Crash, Reconcile
  <1>5. ASSUME NEW p \in Runs, NEW q \in free'[p] PROVE q \in Runs /\ owner'[q] = "idle"
    <2>1. CASE free' = free
      BY <1>3, <1>5, <2>1 DEF ResumeInv, SnapshotSafe, ResumeTypeOK
    <2>2. CASE Snapshot(r)
      <3>1. free'[p] \subseteq {k \in Runs : owner[k] = "idle"} \cup free[p]
        BY <2>2 DEF Snapshot, ResumeInv, ResumeTypeOK
      <3> QED BY <1>3, <1>5, <3>1 DEF ResumeInv, SnapshotSafe, ResumeTypeOK
    <2> QED BY <1>4, <2>1, <2>2
  <1> QED BY <1>5 DEF SnapshotSafe, StateOf, Living

(* A claim finds every other request for its session over.                 *)
LEMMA ClaimStep ==
  ASSUME ResumeInv, NEW r \in Runs, RunStep(r)
  PROVE  OneClaim' /\ (Standing(r)' /\ ~Standing(r) => Claim(r))
  <1>0. /\ ResumeTypeOK /\ \A q \in Runs : StateOf(q)
        /\ \A q \in Runs \ {r} : UNCHANGED <<want[q], owner[q], attempt[q], at[q], free[q], tree[q]>>
    BY ResumeTypes DEF ResumeInv
  <1>1. ASSUME Standing(r)', ~Standing(r) PROVE Claim(r)
    <2>1. CASE \/ (\E s \in Sessions : Register(r, s)) \/ Crash(r) \/ HostExits(r) \/ KidsExit(r)
               \/ Snapshot(r) \/ Busy(r) \/ Refuse(r) \/ WaitFails(r) \/ Spawn(r)
      BY <1>1, <2>1 DEF Register, Crash, HostExits, KidsExit, Snapshot, Busy, Refuse, WaitFails, Spawn, Goto, Standing,
         StateOf, ResumeInv, ResumeTypeOK
    <2>2. CASE Launched(r) \/ Exited(r)
      BY <1>0, <1>1, <2>2 DEF Launched, Exited, Goto, Standing, StateOf
    <2>3. CASE Settle(r) \/ Reconcile(r)
      BY <1>0, <1>1, <2>3 DEF Settle, Reconcile, Standing, StateOf
    <2> QED BY <2>1, <2>2, <2>3 DEF RunStep, Proceed, Around
  <1>2. ASSUME NEW q \in Runs, q # r, Standing(q)', Standing(r)', want'[q] = want'[r] PROVE FALSE
    <2>1. Standing(q)
      BY <1>0, <1>2 DEF Standing
    <2>2. CASE Standing(r)
      <3>1. want'[r] = want[r]
        BY <1>0, <2>2 DEF Standing, StateOf, RunStep, Proceed, Around, Register, Snapshot, Busy, Claim, Refuse, Spawn,
           Launched, Exited, WaitFails, Settle, HostExits, KidsExit, Crash, Reconcile, Goto
      <3> QED BY <1>0, <1>2, <2>1, <2>2, <3>1 DEF ResumeInv, OneClaim
    <2>3. CASE ~Standing(r)
      <3>1. Claim(r)
        BY <1>1, <1>2, <2>3
      <3>2. q \notin Pending(r) /\ want[q] = want[r] /\ attempt[q] # None
        BY <1>0, <1>2, <2>1, <3>1 DEF Claim, Standing
      <3>3. Over(r, q)
        BY <3>2 DEF Pending
      <3> QED BY <2>1, <3>3 DEF Over, Standing, ResumeInv, SnapshotSafe
    <2> QED BY <2>2, <2>3
  <1>3. OneClaim'
    <2> SUFFICES ASSUME NEW p \in Runs, NEW q \in Runs, Standing(p)', Standing(q)', want'[p] = want'[q], p # q
                 PROVE  FALSE
      BY DEF OneClaim, Standing
    <2>1. CASE p # r /\ q # r
      BY <1>0, <2>1 DEF ResumeInv, OneClaim, Standing
    <2> QED BY <1>2, <2>1
  <1> QED BY <1>1, <1>3

(* Every step of the resumes keeps their invariant.                        *)
LEMMA ResumeStepInv == ResumeInv /\ [ResumeNext]_resumeVars => ResumeInv'
  <1> SUFFICES ASSUME ResumeInv, [ResumeNext]_resumeVars PROVE ResumeInv'
    OBVIOUS
  <1>1. ASSUME NEW r \in Runs, RunStep(r) PROVE ResumeInv'
    <2>1. ResumeTypeOK'
      BY <1>1, ResumeTypes DEF ResumeInv
    <2>2. ASSUME NEW q \in Runs PROVE StateOf(q)'
      <3>1. CASE q = r
        BY <1>1, <3>1, StateStep DEF ResumeInv
      <3>2. CASE q # r
        BY <1>1, <3>2, ResumeTypes DEF ResumeInv, StateOf, Living
      <3> QED BY <3>1, <3>2
    <2> QED BY <1>1, <2>1, <2>2, SnapshotStep, ClaimStep DEF ResumeInv
  <1>2. CASE UNCHANGED resumeVars
    BY <1>2 DEF resumeVars, ResumeInv, ResumeTypeOK, StateOf, Living, SnapshotSafe, OneClaim, Standing
  <1> QED BY <1>1, <1>2 DEF ResumeNext, RunStep

(* It holds before any call.                                               *)
LEMMA ResumeInitInv == ResumeInit => ResumeInv
  <1> SUFFICES ASSUME ResumeInit PROVE ResumeInv
    OBVIOUS
  <1>1. ResumeTypeOK
    BY DEF ResumeInit, ResumeTypeOK
  <1> QED BY <1>1 DEF ResumeInit, ResumeInv, StateOf, Living, SnapshotSafe, OneClaim, Standing

-----------------------------------------------------------------------------
(* What a caller knows follows from where it is.                           *)
SetupJobs == {"setup", "applying", "applied"}
PlainJobs == {"idle", "reviewed"} \cup SetupJobs
RestoreJobs == {"restoring", "launching", "restored"}
JobInv ==
  \A m \in Callers :
    /\ base[m] <= Len(log)
    /\ job[m] \in PlainJobs => target[m] = None
    /\ job[m] \notin PlainJobs \cup {"done"} => target[m] \in Targets
    /\ job[m] \in {"launching", "restored"} => call[m] # None
    /\ call[m] # None => job[m] \in {"launching", "restored", "done"}
    /\ call[m] # None => restores[call[m]] = target[m] /\ target[m] \in Targets
    /\ job[m] = "restored" => tree[call[m]] \in {"kids", "over"}
    /\ job[m] = "done" /\ call[m] # None => Has(Len(log), "restore-result", target[m])

(* A target is restored by the one that appended its intent, or that took  *)
(* its handoff: the right to do so is in one place, or was used.           *)
Waiting(m, t) == target[m] = t /\ job[m] \in {"locating", "consumed", "restoring"}
Travelling(t) == receipt[t] \in {"prepared", "dispatched", "ready", "committed", "handoff"}
Started(t) == \E r \in Runs : restores[r] = t
OneRight ==
  \A t \in Targets :
    /\ \A m, n \in Callers : Waiting(m, t) /\ Waiting(n, t) => m = n
    /\ \A m \in Callers : ~(Waiting(m, t) /\ Travelling(t)) /\ ~(Waiting(m, t) /\ Started(t))
    /\ ~(Travelling(t) /\ Started(t))
    /\ Travelling(t) \/ Started(t) \/ (\E m \in Callers : Waiting(m, t)) => Has(Len(log), "restore-intent", t)
CallsInv ==
  /\ \A r \in Runs : restores[r] # None => at[r] # "idle"
  /\ \A m, n \in Callers : call[m] # None /\ call[m] = call[n] => m = n

(* Intents are appended once; a setup that is open has one caller, and was *)
(* not followed by another; and restores come after the setup.             *)
IsSetup(i) == log[i].action \in {"setup-intent", "setup-result"}
LastIs(i) == i \in 1..Len(log) /\ IsSetup(i) /\ \A j \in 1..Len(log) : IsSetup(j) => j <= i
Settled == \E i \in 1..Len(log) : LastIs(i) /\ log[i].action = "setup-result" /\ log[i].code = 0
LogInv ==
  /\ \A i \in 1..Len(log) : log[i].target # None <=> log[i].action \in {"restore-intent", "restore-result"}
  /\ \A i, j \in 1..Len(log) :
       log[i].action = "restore-intent" /\ log[j].action = "restore-intent" /\ log[i].target = log[j].target => i = j
  /\ (\E i \in 1..Len(log) : IsSetup(i)) => \E i \in 1..Len(log) : LastIs(i)
  /\ (\E i \in 1..Len(log) : log[i].action = "restore-intent") => Settled
  /\ \A m \in Callers : job[m] = "reserving" /\ base[m] = Len(log) => Settled
DisputeInv ==
  /\ \A m \in Callers : job[m] \in SetupJobs => LastIs(base[m]) /\ log[base[m]].action = "setup-intent"
  /\ \A m, n \in Callers : job[m] \in SetupJobs /\ job[n] \in SetupJobs => m = n
  /\ \A m \in Callers : job[m] \in RestoreJobs => Undisputed(m)

(* The instance is not deployed to while a run is there.                   *)
DeployInv ==
  /\ ~NoneApplies => \A r \in Runs : at[r] \in {"idle", "gone"}
  /\ \A r \in Runs : restores[r] # None /\ at[r] \notin {"idle", "gone"} => deployed = "target"
ToolInv == /\ ToolTypeOK /\ ResumeInv /\ JobInv /\ OneRight /\ CallsInv /\ LogInv /\ DisputeInv /\ DeployInv
           /\ RestoredOnce /\ ResultsTrue

-----------------------------------------------------------------------------
(* An event that is appended leaves the others in their place.             *)
LEMMA Events1 ==
  ASSUME ToolTypeOK, NEW e \in Events, Append1(e)
  PROVE  /\ log' \in Seq(Events) /\ Len(log') = Len(log) + 1 /\ Len(log) \in Nat /\ Len(log') <= MaxLog
         /\ \A i \in 1..Len(log) : log'[i] = log[i]
         /\ log'[Len(log) + 1] = e
  <1>1. log \in Seq(Events) /\ log' = Append(log, e) /\ Len(log) < MaxLog /\ MaxLog \in Nat
    BY ToolAssumption DEF ToolTypeOK, Append1
  <1> QED BY <1>1

(* The events are of the right form.                                       *)
LEMMA EventTypes ==
  ASSUME ToolTypeOK, NEW m \in Callers
  PROVE  /\ Event("cancel", None, None) \in Events /\ Event("setup-intent", None, None) \in Events
         /\ Event("setup-result", None, result[m]) \in Events
         /\ Event("restore-intent", target[m], None) \in Events
         /\ Event("restore-result", target[m], result[m]) \in Events
  BY DEF ToolTypeOK, Event, Events, Actions

(* A step appends one event or none.                                       *)
LEMMA LogStep ==
  ASSUME ToolTypeOK, [ToolNext]_allVars
  PROVE  log' = log \/ \E e \in Events : Append1(e)
  <1>1. CASE \E m \in Callers : CallerStep(m)
    <2> PICK m \in Callers : CallerStep(m)
      BY <1>1
    <2>1. CASE AppendSetup(m) \/ RecordSetup(m) \/ AppendRestore(m) \/ RecordRestore(m)
      BY <2>1, EventTypes DEF AppendSetup, RecordSetup, AppendRestore, RecordRestore
    <2> QED BY <2>1 DEF CallerStep, ReadSetup, BeginApply, Apply, RefuseApply, ReadRestore, ReadHandoff, Read, Launch,
         Return, CreateLocation, Consume, Recheck, CloseLocation, LeaveCaller, AbandonLaunch
  <1>2. CASE CancelWorkflow
    <2>1. Event("cancel", None, None) \in Events
      BY DEF Event, Events, Actions
    <2> QED BY <1>2, <2>1 DEF CancelWorkflow
  <1> QED BY <1>1, <1>2 DEF ToolNext, allVars, toolVars, Travel, StopEnds, Redeploy, CloseStop

(* Before the intents and results that are there, others are not lost.     *)
LEMMA LogKeeps ==
  ASSUME ToolTypeOK, [ToolNext]_allVars, NEW a, NEW t, Has(Len(log), a, t)
  PROVE  Has(Len(log), a, t)'
  <1>1. CASE log' = log
    BY <1>1 DEF Has
  <1>2. CASE \E e \in Events : Append1(e)
    <2> PICK e \in Events : Append1(e)
      BY <1>2
    <2>1. PICK i \in 1..Len(log) : log[i].action = a /\ log[i].target = t
      BY DEF Has
    <2>2. i \in 1..Len(log') /\ log'[i] = log[i]
      BY <2>1, Events1
    <2> QED BY <2>1, <2>2 DEF Has
  <1> QED BY <1>1, <1>2, LogStep

-----------------------------------------------------------------------------
(* To the resumes, every step of the workflow is one of theirs, or none.   *)
LEMMA Resumes ==
  ASSUME ToolTypeOK, JobInv, [ToolNext]_allVars
  PROVE  [ResumeNext]_resumeVars
  <1>1. ASSUME NEW r \in Runs, ResumeStep(r) PROVE ResumeNext
    BY <1>1 DEF ResumeStep, ResumeNext, Proceed
  <1>2. ASSUME NEW m \in Callers, CallerStep(m) PROVE [ResumeNext]_resumeVars
    <2>1. ASSUME NEW r \in Runs, Launch(m, r) PROVE ResumeNext
      <3>1. target[m] \in Targets
        BY <2>1 DEF Launch, Step, JobInv, PlainJobs, SetupJobs
      <3>2. SessionOf[target[m]] \in Sessions
        BY <3>1, ToolAssumption
      <3> QED BY <2>1, <3>2 DEF Launch, ResumeNext
    <2>2. CASE Return(m)
      <3>1. call[m] \in Runs /\ Settle(call[m])
        BY <2>2 DEF Return, ToolTypeOK
      <3> QED BY <3>1 DEF ResumeNext, Proceed
    <2> QED BY <1>2, <2>1, <2>2 DEF CallerStep, ReadSetup, AppendSetup, BeginApply, Apply, RefuseApply, RecordSetup,
         ReadRestore, ReadHandoff, Read, AppendRestore, RecordRestore, CreateLocation, Consume, Recheck, CloseLocation,
         LeaveCaller, AbandonLaunch
  <1>3. CASE StopEnds \/ Redeploy \/ CancelWorkflow \/ CloseStop \/ \E t \in Targets : Travel(t)
    BY <1>3 DEF Travel, StopEnds, Redeploy, CancelWorkflow, CloseStop
  <1> QED BY <1>1, <1>2, <1>3 DEF ToolNext, allVars

(* A location request only becomes what may follow, and no other changes.  *)
LEMMA Moves ==
  ASSUME ToolTypeOK, NEW t, NEW from \in Receipts, NEW to, Transition(t, from, to)
  PROVE  /\ receipt' \in [Targets -> Receipts \cup {None}]
         /\ \A u \in Targets : u # t => receipt'[u] = receipt[u]
         /\ t \in Targets => receipt[t] = from /\ receipt'[t] = to /\ to \in Following[from]
         /\ to \in Receipts
  <1>1. Following[from] \subseteq Receipts
    BY DEF Following, Receipts
  <1> QED BY <1>1 DEF Transition, ToolTypeOK

(* The child that rechecks finds the intent of its target.                 *)
LEMMA IntentFound ==
  ASSUME ToolInv, NEW m \in Callers, Recheck(m)
  PROVE  /\ target[m] \in Targets
         /\ IntentOf(target[m]) \in 1..Len(log)
         /\ log[IntentOf(target[m])].action = "restore-intent" /\ log[IntentOf(target[m])].target = target[m]
  <1>1. Waiting(m, target[m]) /\ target[m] \in Targets
    BY DEF Recheck, Step, Waiting, ToolInv, JobInv, PlainJobs, SetupJobs
  <1>2. Has(Len(log), "restore-intent", target[m])
    BY <1>1 DEF ToolInv, OneRight
  <1> QED BY <1>1, <1>2 DEF Has, IntentOf

(* The types.                                                              *)
LEMMA ToolTypes ==
  ASSUME ToolInv, [ToolNext]_allVars
  PROVE  ToolTypeOK'
  <1> USE DEF ToolInv
  <1>0. /\ log' \in Seq(Events) /\ Len(log') <= MaxLog /\ Len(log) \in Nat /\ Len(log) \in 0..MaxLog
        /\ MaxLog \in Nat
    BY Events1, LogStep, ToolAssumption DEF ToolTypeOK
  <1>1. CASE (\E r \in Runs : ResumeStep(r)) /\ UNCHANGED toolVars
    BY <1>1 DEF toolVars, ToolTypeOK
  <1>2. ASSUME NEW m \in Callers, CallerStep(m) PROVE ToolTypeOK'
    <2> USE <1>0 DEF ToolTypeOK, Step
    <2>1. CASE ReadSetup(m) \/ BeginApply(m) \/ Apply(m) \/ RefuseApply(m)
      BY <2>1 DEF ReadSetup, Read, BeginApply, Apply, RefuseApply
    <2>2. CASE AppendSetup(m) \/ RecordSetup(m) \/ AppendRestore(m) \/ RecordRestore(m)
      <3>1. Len(log) < MaxLog
        BY <2>2 DEF AppendSetup, RecordSetup, AppendRestore, RecordRestore, Append1
      <3>2. Len(log) + 1 \in 0..MaxLog
        BY <1>0, <3>1
      <3>3. CASE AppendSetup(m) \/ AppendRestore(m)
        BY <3>2, <3>3 DEF AppendSetup, AppendRestore
      <3>4. CASE RecordSetup(m) \/ RecordRestore(m)
        BY <3>4 DEF RecordSetup, RecordRestore
      <3> QED BY <2>2, <3>3, <3>4
    <2>3. ASSUME NEW t \in Targets, ReadRestore(m, t) \/ ReadHandoff(m, t) PROVE ToolTypeOK'
      BY <2>3 DEF ReadRestore, ReadHandoff, Read
    <2>4. ASSUME NEW r \in Runs, Launch(m, r) PROVE ToolTypeOK'
      BY <2>4 DEF Launch
    <2>5. CASE Return(m) \/ CreateLocation(m)
      BY <2>5 DEF Return, CreateLocation, Receipts
    <2>6. CASE Consume(m) \/ CloseLocation(m) \/ LeaveCaller(m) \/ AbandonLaunch(m)
      <3>1. receipt' \in [Targets -> Receipts \cup {None}]
        BY <2>6, Moves DEF Consume, CloseLocation, LeaveCaller, AbandonLaunch, Receipts
      <3>2. CASE Consume(m) \/ CloseLocation(m)
        BY <3>1, <3>2 DEF Consume, CloseLocation, callerVars
      <3>3. CASE LeaveCaller(m)
        BY <3>1, <3>3 DEF LeaveCaller
      <3>4. CASE AbandonLaunch(m)
        BY <3>1, <3>4 DEF AbandonLaunch
      <3> QED BY <2>6, <3>2, <3>3, <3>4
    <2>7. CASE Recheck(m)
      <3>1. IntentOf(target[m]) \in 1..Len(log)
        BY <2>7, IntentFound
      <3> QED BY <2>7, <3>1 DEF Recheck
    <2> QED BY <1>2, <2>1, <2>2, <2>3, <2>4, <2>5, <2>6, <2>7 DEF CallerStep
  <1>3. CASE \/ StopEnds \/ Redeploy \/ CancelWorkflow \/ CloseStop \/ (\E t \in Targets : Travel(t))
    BY <1>0, <1>3 DEF Travel, Transition, Receipts, StopEnds, Redeploy, CancelWorkflow, CloseStop, callerVars, ToolTypeOK
  <1>4. CASE UNCHANGED allVars
    BY <1>4 DEF allVars, toolVars, ToolTypeOK
  <1> QED BY <1>1, <1>2, <1>3, <1>4 DEF ToolNext

(* Other callers, and the processes of what they called, are not affected. *)
LEMMA OthersStay ==
  ASSUME ToolTypeOK, NEW m \in Callers, CallerStep(m)
  PROVE  \A n \in Callers : n # m => UNCHANGED <<job[n], base[n], target[n], call[n], result[n]>>
  BY DEF ToolTypeOK, CallerStep, Step, ReadSetup, Read, AppendSetup, BeginApply, Apply, RefuseApply, RecordSetup,
     ReadRestore, ReadHandoff, AppendRestore, RecordRestore, Launch, Return, CreateLocation, Consume, Recheck,
     CloseLocation, LeaveCaller, AbandonLaunch, callerVars

(* A host that has exited stays so.                                        *)
LEMMA ExitStays ==
  ASSUME ResumeInv, [ResumeNext]_resumeVars, NEW r \in Runs, tree[r] \in {"kids", "over"}
  PROVE  tree'[r] \in {"kids", "over"}
  <1>1. ASSUME NEW q \in Runs, RunStep(q) PROVE tree'[r] \in {"kids", "over"}
    <2>1. CASE q # r
      BY <1>1, <2>1, ResumeTypes DEF ResumeInv
    <2>2. CASE q = r
      BY <1>1, <2>2 DEF ResumeInv, ResumeTypeOK, StateOf, RunStep, Proceed, Around, Register, Snapshot, Busy, Claim, Refuse,
         Spawn, Launched, Exited, WaitFails, Settle, HostExits, KidsExit, Crash, Reconcile, Goto
    <2> QED BY <2>1, <2>2
  <1> QED BY <1>1 DEF ResumeNext, RunStep, resumeVars

(* A run that was called stays called.                                     *)
LEMMA CalledStays ==
  ASSUME ResumeInv, [ResumeNext]_resumeVars, NEW r \in Runs
  PROVE  /\ at[r] # "idle" => at'[r] # "idle"
         /\ at[r] = "gone" => at'[r] = "gone"
         /\ at[r] = "idle" /\ at'[r] # "idle" => \E s \in Sessions : Register(r, s)
  <1>1. ASSUME NEW q \in Runs, RunStep(q)
        PROVE  /\ at[r] # "idle" => at'[r] # "idle"
               /\ at[r] = "gone" => at'[r] = "gone"
               /\ at[r] = "idle" /\ at'[r] # "idle" => \E s \in Sessions : Register(r, s)
    <2>1. CASE q # r
      BY <1>1, <2>1, ResumeTypes DEF ResumeInv
    <2>2. CASE q = r
      BY <1>1, <2>2 DEF ResumeInv, ResumeTypeOK, StateOf, RunStep, Proceed, Around, Register, Snapshot, Busy, Claim, Refuse,
         Spawn, Launched, Exited, WaitFails, Settle, HostExits, KidsExit, Crash, Reconcile, Goto
    <2> QED BY <2>1, <2>2
  <1> QED BY <1>1 DEF ResumeNext, RunStep, resumeVars

(* JobInv, of one caller.                                                  *)
JobOf(m) ==
  /\ base[m] <= Len(log)
  /\ job[m] \in PlainJobs => target[m] = None
  /\ job[m] \notin PlainJobs \cup {"done"} => target[m] \in Targets
  /\ job[m] \in {"launching", "restored"} => call[m] # None
  /\ call[m] # None => job[m] \in {"launching", "restored", "done"}
  /\ call[m] # None => restores[call[m]] = target[m] /\ target[m] \in Targets
  /\ job[m] = "restored" => tree[call[m]] \in {"kids", "over"}
  /\ job[m] = "done" /\ call[m] # None => Has(Len(log), "restore-result", target[m])
(* Each caller knows what it did.                                          *)
LEMMA JobSteps ==
  ASSUME ToolInv, [ToolNext]_allVars
  PROVE  JobInv'
  <1> USE DEF ToolInv
  <1>0. /\ Len(log) \in Nat /\ Len(log') \in Nat /\ Len(log) <= Len(log')
        /\ ToolTypeOK' /\ [ResumeNext]_resumeVars
    BY Events1, LogStep, ToolTypes, Resumes DEF ToolTypeOK
  <1>1. \A m \in Callers : JobOf(m)
    BY DEF JobInv, JobOf
  <1>2. ASSUME NEW r \in Runs, restores[r] # None PROVE restores'[r] = restores[r]
    <2>1. ASSUME NEW m \in Callers, NEW q \in Runs, Launch(m, q) PROVE restores'[r] = restores[r]
      BY <1>2, <2>1 DEF Launch, Register, Goto, CallsInv, ToolTypeOK
    <2> QED BY <2>1 DEF ToolNext, allVars, toolVars, callerVars, CallerStep, ReadSetup, Read, AppendSetup, BeginApply, Apply,
         RefuseApply, RecordSetup, ReadRestore, ReadHandoff, AppendRestore, RecordRestore, Return, CreateLocation, Consume,
         Recheck, CloseLocation, LeaveCaller, AbandonLaunch, Travel, StopEnds, Redeploy, CancelWorkflow, CloseStop
  <1>3. ASSUME NEW m \in Callers, UNCHANGED <<job[m], base[m], target[m], call[m]>> PROVE JobOf(m)'
    <2>1. base'[m] <= Len(log')
      BY <1>0, <1>1, <1>3 DEF JobOf, ToolTypeOK
    <2>2. call[m] # None => call[m] \in Runs /\ restores'[call[m]] = restores[call[m]]
      <3>1. call[m] # None => call[m] \in Runs /\ restores[call[m]] # None
        BY <1>1, ToolAssumption DEF JobOf, ToolTypeOK
      <3> QED BY <1>2, <3>1
    <2>3. job[m] = "restored" => tree'[call[m]] \in {"kids", "over"}
      BY <1>0, <1>1, <2>2, ExitStays DEF JobOf
    <2>4. job[m] = "done" /\ call[m] # None => Has(Len(log), "restore-result", target[m])'
      BY <1>1, <1>3, LogKeeps DEF JobOf, Has
    <2> QED BY <1>1, <1>3, <2>1, <2>2, <2>3, <2>4 DEF JobOf
  <1>4. ASSUME NEW m \in Callers, CallerStep(m) PROVE JobOf(m)'
    <2> USE <1>0, <1>1 DEF Step, JobOf, ToolTypeOK, PlainJobs, SetupJobs
    <2>1. CASE ReadSetup(m) \/ BeginApply(m) \/ Apply(m) \/ RefuseApply(m) \/ CreateLocation(m) \/ Consume(m)
      BY <2>1 DEF ReadSetup, Read, BeginApply, Apply, RefuseApply, CreateLocation, Consume
    <2>2. CASE AppendSetup(m) \/ AppendRestore(m)
      <3>1. Len(log') = Len(log) + 1
        BY <2>2 DEF AppendSetup, AppendRestore, Append1
      <3> QED BY <2>2, <3>1 DEF AppendSetup, AppendRestore
    <2>3. ASSUME NEW t \in Targets, ReadRestore(m, t) \/ ReadHandoff(m, t) PROVE JobOf(m)'
      BY <2>3 DEF ReadRestore, ReadHandoff, Read
    <2>4. ASSUME NEW r \in Runs, Launch(m, r) PROVE JobOf(m)'
      <3>1. target[m] \in Targets /\ r # None
        BY <2>4, ResumeAssumption DEF Launch
      <3> QED BY <2>4, <3>1 DEF Launch
    <2>5. CASE Return(m)
      <3>1. call[m] \in Runs /\ tree[call[m]] \in {"kids", "over"} /\ tree' = tree /\ restores' = restores
        BY <2>5 DEF Return, ResumeInv, StateOf, Settle
      <3> QED BY <2>5, <3>1 DEF Return
    <2>6. CASE RecordRestore(m)
      <3>1. /\ Append1(Event("restore-result", target[m], result[m]))
            /\ Event("restore-result", target[m], result[m]) \in Events
        BY <2>6, EventTypes DEF RecordRestore
      <3>2. Len(log') = Len(log) + 1 /\ log'[Len(log) + 1] = Event("restore-result", target[m], result[m])
        BY <3>1, Events1
      <3>3. Has(Len(log), "restore-result", target[m])'
        BY <2>6, <3>2 DEF Has, Event, RecordRestore
      <3> QED BY <2>6, <3>3 DEF RecordRestore
    <2>7. CASE RecordSetup(m)
      <3>1. call'[m] = None /\ target'[m] = None /\ base'[m] = base[m] /\ job'[m] = "done"
        BY <2>7 DEF RecordSetup
      <3> QED BY <3>1
    <2>8. CASE Recheck(m)
      <3>3. IntentOf(target[m]) \in 1..Len(log) /\ target[m] \in Targets
        BY <2>8, IntentFound
      <3>4. /\ base'[m] = IntentOf(target[m]) /\ job'[m] = "restoring" /\ call[m] = None
            /\ UNCHANGED <<log, call, target>>
        BY <2>8 DEF Recheck
      <3>5. base'[m] <= Len(log')
        BY <3>3, <3>4
      <3> QED BY <3>3, <3>4, <3>5
    <2>9. CASE CloseLocation(m)
      BY <1>3, <2>9 DEF CloseLocation, callerVars
    <2>10. CASE LeaveCaller(m) \/ AbandonLaunch(m)
      BY <2>10 DEF LeaveCaller, AbandonLaunch
    <2> QED BY <1>4, <2>1, <2>2, <2>3, <2>4, <2>5, <2>6, <2>7, <2>8, <2>9, <2>10 DEF CallerStep
  <1>5. \A m \in Callers : JobOf(m)'
    <2>1. ASSUME NEW m \in Callers, CallerStep(m) PROVE \A n \in Callers : JobOf(n)'
      BY <1>3, <1>4, <2>1, OthersStay
    <2>2. CASE UNCHANGED callerVars
      BY <1>3, <2>2 DEF callerVars
    <2> QED BY <2>1, <2>2 DEF ToolNext, allVars, toolVars, callerVars, Travel, StopEnds, Redeploy, CancelWorkflow, CloseStop
  <1> QED BY <1>5 DEF JobInv, JobOf

(* Only a launch gives a run a target, and to a run that had none.         *)
LEMMA RestoresStep ==
  ASSUME ToolInv, [ToolNext]_allVars
  PROVE  \/ restores' = restores
         \/ \E m \in Callers, r \in Runs : /\ Launch(m, r) /\ target[m] \in Targets
                                           /\ restores[r] = None /\ restores'[r] = target[m] /\ at'[r] # "idle"
                                           /\ \A q \in Runs : q # r => restores'[q] = restores[q]
  <1>1. ASSUME NEW m \in Callers, NEW r \in Runs, Launch(m, r)
        PROVE /\ Launch(m, r) /\ target[m] \in Targets
              /\ restores[r] = None /\ restores'[r] = target[m] /\ at'[r] # "idle"
              /\ \A q \in Runs : q # r => restores'[q] = restores[q]
    BY <1>1 DEF Launch, Register, Goto, CallsInv, ToolTypeOK, Step, ToolInv, JobInv, PlainJobs, SetupJobs, ResumeInv,
       ResumeTypeOK
  <1> QED BY <1>1 DEF ToolNext, allVars, toolVars, callerVars, CallerStep, ReadSetup, Read, AppendSetup, BeginApply, Apply,
       RefuseApply, RecordSetup, ReadRestore, ReadHandoff, AppendRestore, RecordRestore, Return, CreateLocation, Consume,
       Recheck, CloseLocation, LeaveCaller, AbandonLaunch, Travel, StopEnds, Redeploy, CancelWorkflow, CloseStop

(* A run that has a target was called, by one caller.                      *)
LEMMA CallsSteps ==
  ASSUME ToolInv, [ToolNext]_allVars
  PROVE  CallsInv'
  <1> USE DEF ToolInv
  <1>1. ASSUME NEW r \in Runs, restores'[r] # None PROVE at'[r] # "idle"
    BY <1>1, RestoresStep, CalledStays, Resumes DEF CallsInv
  <1>2. ASSUME NEW m \in Callers, NEW n \in Callers, m # n, call'[m] # None, call'[m] = call'[n] PROVE FALSE
    <2>1. ASSUME NEW k \in Callers, call'[k] # call[k], call'[k] # None
          PROVE  call'[k] \in Runs /\ at[call'[k]] = "idle" /\ CallerStep(k)
      <3>1. \E r \in Runs : Launch(k, r)
        BY <2>1, OthersStay DEF ToolNext, allVars, toolVars, callerVars, CallerStep, ReadSetup, Read, AppendSetup, BeginApply,
           Apply, RefuseApply, RecordSetup, ReadRestore, ReadHandoff, AppendRestore, RecordRestore, Return, CreateLocation,
           Consume, Recheck, CloseLocation, LeaveCaller, AbandonLaunch, Travel, StopEnds, Redeploy, CancelWorkflow,
           CloseStop, ToolTypeOK
      <3> QED BY <3>1 DEF Launch, Register, Goto, ToolTypeOK, CallerStep
    <2>2. ASSUME NEW k \in Callers, call[k] # None PROVE at[call[k]] # "idle"
      BY <2>2, ToolAssumption DEF JobInv, CallsInv, ToolTypeOK
    <2>3. CASE call'[m] = call[m] /\ call'[n] = call[n]
      BY <1>2, <2>3 DEF CallsInv
    <2>4. CASE call'[m] # call[m] /\ call'[n] = call[n]
      BY <1>2, <2>1, <2>2, <2>4
    <2>5. CASE call'[m] = call[m] /\ call'[n] # call[n]
      BY <1>2, <2>1, <2>2, <2>5
    <2>6. CASE call'[m] # call[m] /\ call'[n] # call[n]
      <3>1. CallerStep(m) /\ call'[n] = call[n]
        BY <1>2, <2>1, <2>6, OthersStay
      <3> QED BY <2>6, <3>1
    <2> QED BY <2>3, <2>4, <2>5, <2>6
  <1> QED BY <1>1, <1>2 DEF CallsInv

(* The right to restore a target moves, and is used up.                    *)
RightOf(t) ==
  /\ \A m, n \in Callers : Waiting(m, t) /\ Waiting(n, t) => m = n
  /\ \A m \in Callers : ~(Waiting(m, t) /\ Travelling(t)) /\ ~(Waiting(m, t) /\ Started(t))
  /\ ~(Travelling(t) /\ Started(t))
  /\ Travelling(t) \/ Started(t) \/ (\E m \in Callers : Waiting(m, t)) => Has(Len(log), "restore-intent", t)
NoMore(t) == /\ \A m \in Callers : Waiting(m, t)' => Waiting(m, t)
             /\ Travelling(t)' => Travelling(t)
             /\ Started(t)' => Started(t)

(* Only four steps give somebody a right that was not there.               *)
LEMMA NoMoreRights ==
  ASSUME ToolInv, [ToolNext]_allVars, NEW t \in Targets,
         \A m \in Callers : target[m] = t => /\ ~AppendRestore(m) /\ ~Consume(m) /\ ~CreateLocation(m)
                                             /\ \A r \in Runs : ~Launch(m, r)
  PROVE  NoMore(t)
  <1> USE DEF ToolInv
  <1>1. Started(t)' => Started(t)
    <2>1. t # None
      BY ToolAssumption
    <2> QED BY <2>1, RestoresStep DEF Started
  <1>2. ASSUME NEW m \in Callers, CallerStep(m)
        PROVE  (Waiting(m, t)' => Waiting(m, t)) /\ (Travelling(t)' => Travelling(t))
    <2> USE DEF Waiting, Travelling, Step, ToolTypeOK
    <2>1. CASE ReadSetup(m) \/ BeginApply(m) \/ Apply(m) \/ RefuseApply(m) \/ AppendSetup(m) \/ RecordSetup(m) \/ RecordRestore(m)
      BY <2>1 DEF ReadSetup, Read, BeginApply, Apply, RefuseApply, AppendSetup, RecordSetup, RecordRestore
    <2>2. ASSUME NEW u \in Targets, ReadRestore(m, u) \/ ReadHandoff(m, u)
          PROVE  (Waiting(m, t)' => Waiting(m, t)) /\ (Travelling(t)' => Travelling(t))
      BY <2>2 DEF ReadRestore, ReadHandoff, Read
    <2>3. CASE AppendRestore(m)
      BY <2>3 DEF AppendRestore
    <2>4. CASE (\E r \in Runs : Launch(m, r)) \/ Return(m)
      BY <2>4 DEF Launch, Return
    <2>5. CASE CreateLocation(m)
      BY <2>5 DEF CreateLocation
    <2>6. CASE Consume(m)
      BY <2>6 DEF Consume, Transition
    <2>7. CASE Recheck(m)
      BY <2>7 DEF Recheck
    <2>8. CASE CloseLocation(m)
      BY <2>8 DEF CloseLocation, callerVars, Transition
    <2>9. CASE LeaveCaller(m) \/ AbandonLaunch(m)
      <3>1. Travelling(t)' => Travelling(t)
        BY <2>9 DEF LeaveCaller, AbandonLaunch, Transition
      <3>2. job'[m] = "idle"
        BY <2>9 DEF LeaveCaller, AbandonLaunch
      <3> QED BY <3>1, <3>2
    <2> QED BY <1>2, <2>1, <2>2, <2>3, <2>4, <2>5, <2>6, <2>7, <2>8, <2>9 DEF CallerStep
  <1>3. CASE \E m \in Callers : CallerStep(m)
    BY <1>1, <1>2, <1>3, OthersStay DEF NoMore, Waiting
  <1>4. ASSUME NEW u \in Targets, Travel(u) PROVE NoMore(t)
    <2>1. Travelling(t)' => Travelling(t)
      BY <1>4 DEF Travel, Transition, Travelling, ToolTypeOK
    <2> QED BY <1>1, <1>4, <2>1 DEF NoMore, Travel, callerVars, Waiting
  <1> QED BY <1>1, <1>3, <1>4 DEF NoMore, ToolNext, allVars, toolVars, callerVars, StopEnds, Redeploy, CancelWorkflow,
       CloseStop, Waiting, Travelling

(* Whatever moves a right leaves it in one place.                          *)
LEMMA RightSteps ==
  ASSUME ToolInv, [ToolNext]_allVars
  PROVE  OneRight' /\ RestoredOnce'
  <1> USE DEF ToolInv
  <1>1. ASSUME NEW t \in Targets PROVE RightOf(t)'
    <2>0. RightOf(t) /\ t # None
      BY ToolAssumption DEF OneRight, RightOf
    <2>1. CASE NoMore(t)
      BY <2>0, <2>1, LogKeeps DEF RightOf, NoMore
    <2>2. ASSUME NEW m \in Callers, target[m] = t, CallerStep(m) PROVE \A n \in Callers : n # m => Waiting(n, t)' = Waiting(n, t)
      BY <2>2, OthersStay DEF Waiting
    <2>3. ASSUME NEW m \in Callers, target[m] = t, AppendRestore(m) PROVE RightOf(t)'
      <3>1. ~Travelling(t) /\ ~Started(t) /\ \A n \in Callers : ~Waiting(n, t)
        BY <2>0, <2>3 DEF AppendRestore, Unrestored, RightOf
      <3>2. UNCHANGED <<restores, receipt>> /\ CallerStep(m)
        BY <2>3 DEF AppendRestore, CallerStep
      <3>3. \A n \in Callers : Waiting(n, t)' => n = m
        BY <2>2, <2>3, <3>1, <3>2
      <3>4. Has(Len(log), "restore-intent", t)'
        <4>1. Len(log') = Len(log) + 1 /\ log'[Len(log) + 1] = Event("restore-intent", t, None) /\ Len(log) \in Nat
          BY <2>3, Events1, EventTypes DEF AppendRestore
        <4> QED BY <4>1 DEF Has, Event
      <3> QED BY <3>1, <3>2, <3>3, <3>4 DEF RightOf, Travelling, Started
    <2>4. ASSUME NEW m \in Callers, target[m] = t, CreateLocation(m) PROVE RightOf(t)'
      <3>1. Waiting(m, t) /\ ~Waiting(m, t)' /\ CallerStep(m) /\ UNCHANGED <<log, restores>>
        BY <2>4 DEF CreateLocation, Waiting, Step, CallerStep, ToolTypeOK
      <3>2. \A n \in Callers : ~Waiting(n, t)'
        BY <2>0, <2>2, <2>4, <3>1 DEF RightOf
      <3> QED BY <2>0, <3>1, <3>2 DEF RightOf, Started, Has
    <2>5. ASSUME NEW m \in Callers, target[m] = t, Consume(m) PROVE RightOf(t)'
      <3>1. Travelling(t) /\ ~Travelling(t)' /\ CallerStep(m) /\ UNCHANGED <<log, restores>>
        BY <2>5 DEF Consume, Transition, Travelling, CallerStep, ToolTypeOK
      <3>2. \A n \in Callers : Waiting(n, t)' => n = m
        BY <2>0, <2>2, <2>5, <3>1 DEF RightOf
      <3> QED BY <2>0, <3>1, <3>2 DEF RightOf, Started, Has
    <2>6. ASSUME NEW m \in Callers, target[m] = t, NEW r \in Runs, Launch(m, r) PROVE RightOf(t)'
      <3>1. Waiting(m, t) /\ ~Waiting(m, t)' /\ CallerStep(m) /\ UNCHANGED <<log, receipt>>
        BY <2>6 DEF Launch, Waiting, Step, CallerStep, ToolTypeOK
      <3>2. \A n \in Callers : ~Waiting(n, t)'
        BY <2>0, <2>2, <2>6, <3>1 DEF RightOf
      <3> QED BY <2>0, <3>1, <3>2 DEF RightOf, Travelling, Has
    <2> QED BY <2>1, <2>3, <2>4, <2>5, <2>6, NoMoreRights
  <1>2. RestoredOnce'
    <2>1. CASE restores' = restores
      BY <2>1 DEF RestoredOnce
    <2>2. ASSUME NEW m \in Callers, NEW r \in Runs, Launch(m, r), target[m] \in Targets, restores'[r] = target[m],
                 \A q \in Runs : q # r => restores'[q] = restores[q]
          PROVE  RestoredOnce'
      <3>1. ~Started(target[m])
        BY <2>2 DEF Launch, Step, OneRight, Waiting
      <3> QED BY <2>2, <3>1 DEF RestoredOnce, Started
    <2> QED BY <2>1, <2>2, RestoresStep
  <1> QED BY <1>1, <1>2 DEF OneRight, RightOf

-----------------------------------------------------------------------------
(* The setup that was last in the log is what the log says of the setup.   *)
LEMMA LastFound ==
  ASSUME NEW i, LastIs(i), Len(log) \in Nat
  PROVE  LastSetup = log[i]
  <1>1. i \in SetupEvents /\ \A j \in SetupEvents : j <= i
    BY DEF LastIs, IsSetup, SetupEvents
  <1>2. \A k \in SetupEvents : (\A j \in SetupEvents : j <= k) => k = i
    BY <1>1 DEF SetupEvents
  <1>3. (CHOOSE k \in SetupEvents : \A j \in SetupEvents : j <= k) = i
    BY <1>1, <1>2
  <1> QED BY <1>1, <1>3 DEF LastSetup

(* The log is settled when its last setup was recorded as done.            *)
LEMMA SettledMeans ==
  ASSUME ToolTypeOK, LogInv
  PROVE  Updated <=> Settled
  <1>0. Len(log) \in Nat /\ \A i \in 1..Len(log) : log[i] \in Events
    BY DEF ToolTypeOK
  <1>1. \A i \in 1..Len(log) : log[i] # None
    BY <1>0, LocationAssumption
  <1>2. ASSUME Settled PROVE Updated
    <2>1. PICK i \in 1..Len(log) : LastIs(i) /\ log[i].action = "setup-result" /\ log[i].code = 0
      BY <1>2 DEF Settled
    <2> QED BY <1>0, <1>1, <2>1, LastFound DEF Updated
  <1>3. ASSUME Updated PROVE Settled
    <2>1. SetupEvents # {}
      BY <1>3 DEF Updated, LastSetup
    <2>2. PICK i \in 1..Len(log) : LastIs(i)
      BY <2>1 DEF SetupEvents, IsSetup, LogInv
    <2> QED BY <1>0, <1>3, <2>2, LastFound DEF Updated, Settled
  <1> QED BY <1>2, <1>3

(* What an event does to the last setup.                                   *)
LEMMA LastSteps ==
  ASSUME ToolTypeOK, NEW e \in Events, Append1(e)
  PROVE  /\ \A i : e.action \notin {"setup-intent", "setup-result"} /\ LastIs(i) => LastIs(i)'
         /\ e.action \in {"setup-intent", "setup-result"} => LastIs(Len(log))'
         /\ e.action \notin {"setup-intent", "setup-result"} /\ Settled => Settled'
  <1>0. /\ Len(log') = Len(log) + 1 /\ Len(log) \in Nat
        /\ \A i \in 1..Len(log) : log'[i] = log[i]
        /\ log'[Len(log) + 1] = e
    BY Events1
  <1>1. ASSUME NEW i, e.action \notin {"setup-intent", "setup-result"}, LastIs(i) PROVE LastIs(i)'
    BY <1>0, <1>1 DEF LastIs, IsSetup
  <1>2. e.action \in {"setup-intent", "setup-result"} => LastIs(Len(log))'
    BY <1>0 DEF LastIs, IsSetup
  <1>3. e.action \notin {"setup-intent", "setup-result"} /\ Settled => Settled'
    BY <1>0, <1>1 DEF Settled
  <1> QED BY <1>1, <1>2, <1>3

(* Which events are appended, and when.                                    *)
LEMMA LogCases ==
  ASSUME ToolInv, [ToolNext]_allVars
  PROVE  \/ log' = log
         \/ \E e \in Events :
              /\ Append1(e)
              /\ \/ CancelWorkflow /\ e = Event("cancel", None, None)
                 \/ \E m \in Callers : \/ AppendSetup(m) /\ e = Event("setup-intent", None, None)
                                       \/ RecordSetup(m) /\ e = Event("setup-result", None, result[m])
                                       \/ AppendRestore(m) /\ e = Event("restore-intent", target[m], None)
                                       \/ RecordRestore(m) /\ e = Event("restore-result", target[m], result[m])
  <1>1. CASE \E m \in Callers : CallerStep(m)
    <2> PICK m \in Callers : CallerStep(m)
      BY <1>1
    <2>1. CASE AppendSetup(m) \/ RecordSetup(m) \/ AppendRestore(m) \/ RecordRestore(m)
      BY <2>1, EventTypes DEF AppendSetup, RecordSetup, AppendRestore, RecordRestore, ToolInv
    <2> QED BY <2>1 DEF CallerStep, ReadSetup, BeginApply, Apply, RefuseApply, ReadRestore, ReadHandoff, Read, Launch,
         Return, CreateLocation, Consume, Recheck, CloseLocation, LeaveCaller, AbandonLaunch
  <1>2. CASE CancelWorkflow
    <2>1. Event("cancel", None, None) \in Events
      BY DEF Event, Events, Actions
    <2> QED BY <1>2, <2>1 DEF CancelWorkflow
  <1> QED BY <1>1, <1>2 DEF ToolNext, allVars, toolVars, Travel, StopEnds, Redeploy, CloseStop

(* Who reserves read a log that was settled.                               *)
LEMMA ReservingStep ==
  ASSUME ToolInv, [ToolNext]_allVars, NEW m \in Callers, job'[m] = "reserving"
  PROVE  \/ base'[m] = base[m] /\ job[m] = "reserving"
         \/ log' = log /\ Settled
  <1>1. CASE CallerStep(m)
    <2>1. ASSUME NEW t \in Targets, ReadRestore(m, t) PROVE log' = log /\ Settled
      BY <2>1, SettledMeans DEF ReadRestore, Read, ToolInv
    <2> QED BY <1>1, <2>1 DEF CallerStep, ToolInv, ToolTypeOK, Step, ReadSetup, Read, AppendSetup, BeginApply, Apply,
         RefuseApply, RecordSetup, ReadHandoff, AppendRestore, RecordRestore, Launch, Return, CreateLocation, Consume,
         Recheck, CloseLocation, LeaveCaller, AbandonLaunch, callerVars
  <1>2. CASE \E n \in Callers : n # m /\ CallerStep(n)
    BY <1>2, OthersStay DEF ToolInv
  <1> QED BY <1>1, <1>2 DEF ToolNext, allVars, toolVars, callerVars, Travel, StopEnds, Redeploy, CancelWorkflow, CloseStop

(* An event that is appended fits the log.                                 *)
LEMMA LogSteps ==
  ASSUME ToolInv, [ToolNext]_allVars
  PROVE  LogInv'
  <1> USE DEF ToolInv
  <1>1. CASE log' = log
    <2>1. UNCHANGED Settled
      BY <1>1 DEF Settled, LastIs, IsSetup
    <2>2. \A m \in Callers : job'[m] = "reserving" /\ base'[m] = Len(log') => Settled'
      BY <1>1, <2>1, ReservingStep DEF LogInv
    <2> QED BY <1>1, <2>1, <2>2 DEF LogInv, LastIs, IsSetup
  <1>2. ASSUME NEW e \in Events, Append1(e),
               \/ CancelWorkflow /\ e = Event("cancel", None, None)
               \/ \E m \in Callers : \/ AppendSetup(m) /\ e = Event("setup-intent", None, None)
                                     \/ RecordSetup(m) /\ e = Event("setup-result", None, result[m])
                                     \/ AppendRestore(m) /\ e = Event("restore-intent", target[m], None)
                                     \/ RecordRestore(m) /\ e = Event("restore-result", target[m], result[m])
        PROVE  LogInv'
    <2>0. /\ Len(log') = Len(log) + 1 /\ Len(log) \in Nat
          /\ \A i \in 1..Len(log) : log'[i] = log[i]
          /\ log'[Len(log) + 1] = e
      BY <1>2, Events1
    <2>1. e.target # None <=> e.action \in {"restore-intent", "restore-result"}
      <3>1. ASSUME NEW m \in Callers, AppendRestore(m) \/ RecordRestore(m) PROVE target[m] # None
        BY <3>1, ToolAssumption DEF AppendRestore, RecordRestore, Step, JobInv, PlainJobs, SetupJobs
      <3>2. CASE e.action \in {"restore-intent", "restore-result"}
        BY <1>2, <3>1, <3>2 DEF Event
      <3>3. CASE e.action \notin {"restore-intent", "restore-result"}
        BY <1>2, <3>3 DEF Event
      <3> QED BY <3>2, <3>3
    <2>2. \A i \in 1..Len(log') : log'[i].target # None <=> log'[i].action \in {"restore-intent", "restore-result"}
      BY <2>0, <2>1 DEF LogInv
    <2>3. e.action = "restore-intent" => \A i \in 1..Len(log) : ~(log[i].action = "restore-intent" /\ log[i].target = e.target)
      <3>1. ASSUME NEW m \in Callers, AppendRestore(m)
            PROVE \A i \in 1..Len(log) : ~(log[i].action = "restore-intent" /\ log[i].target = target[m])
        BY <3>1 DEF AppendRestore, Unrestored, Has
      <3>2. e.action = "restore-intent" => \E m \in Callers : AppendRestore(m) /\ e.target = target[m]
        BY <1>2 DEF Event
      <3> QED BY <3>1, <3>2
    <2>4. \A i, j \in 1..Len(log') :
             log'[i].action = "restore-intent" /\ log'[j].action = "restore-intent" /\ log'[i].target = log'[j].target => i = j
      BY <2>0, <2>3 DEF LogInv
    <2>5. (\E i \in 1..Len(log') : IsSetup(i)') => \E i \in 1..Len(log') : LastIs(i)'
      <3>1. CASE e.action \in {"setup-intent", "setup-result"}
        BY <1>2, <2>0, <3>1, LastSteps
      <3>2. CASE e.action \notin {"setup-intent", "setup-result"}
        BY <1>2, <2>0, <3>2, LastSteps DEF LogInv, IsSetup
      <3> QED BY <3>1, <3>2
    <2>6. (\E i \in 1..Len(log') : log'[i].action = "restore-intent") => Settled'
      <3>1. CASE e.action \in {"setup-intent", "setup-result"}
        <4>1. \A i \in 1..Len(log) : log[i].action # "restore-intent"
          <5>1. ASSUME NEW m \in Callers, AppendSetup(m) PROVE \A i \in 1..Len(log) : log[i].action # "restore-intent"
            BY <5>1 DEF AppendSetup, MayIntendSetup
          <5>2. ASSUME NEW m \in Callers, RecordSetup(m) PROVE ~Settled
            <6>1. LastIs(base[m]) /\ log[base[m]].action = "setup-intent"
              BY <5>2 DEF RecordSetup, Step, DisputeInv, SetupJobs
            <6>2. \A i \in 1..Len(log) : LastIs(i) => i = base[m]
              BY <2>0, <6>1 DEF LastIs
            <6> QED BY <6>1, <6>2 DEF Settled
          <5> QED BY <1>2, <3>1, <5>1, <5>2 DEF Event, LogInv
        <4> QED BY <2>0, <3>1, <4>1
      <3>2. CASE e.action \notin {"setup-intent", "setup-result"}
        <4>1. ASSUME NEW m \in Callers, AppendRestore(m) PROVE Settled
          BY <4>1 DEF AppendRestore, Step, Unchanged, LogInv
        <4>2. e.action = "restore-intent" => Settled
          BY <1>2, <4>1 DEF Event
        <4> QED BY <1>2, <2>0, <3>2, <4>2, LastSteps DEF LogInv
      <3> QED BY <3>1, <3>2
    <2>7. \A m \in Callers : job'[m] = "reserving" => base'[m] # Len(log')
      <3>1. \A m \in Callers : base[m] <= Len(log) /\ base[m] \in Nat
        BY ToolAssumption DEF JobInv, ToolTypeOK
      <3> QED BY <2>0, <3>1, ReservingStep
    <2> QED BY <2>2, <2>4, <2>5, <2>6, <2>7 DEF LogInv
  <1> QED BY <1>1, <1>2, LogCases

-----------------------------------------------------------------------------
(* Who has an intent of its own appended it, or found it in its handoff.   *)
LEMMA JobStep ==
  ASSUME ToolInv, [ToolNext]_allVars, NEW m \in Callers
  PROVE  /\ job'[m] \in SetupJobs => (job[m] \in SetupJobs /\ base'[m] = base[m]) \/ AppendSetup(m)
         /\ job'[m] \in RestoreJobs =>
              \/ job[m] \in RestoreJobs /\ base'[m] = base[m] /\ target'[m] = target[m]
              \/ AppendRestore(m) \/ Recheck(m)
  <1> USE DEF SetupJobs, RestoreJobs
  <1>1. CASE CallerStep(m)
    <2> USE DEF ToolInv, ToolTypeOK, Step
    <2>1. CASE ReadSetup(m) \/ BeginApply(m) \/ Apply(m) \/ RefuseApply(m) \/ RecordSetup(m)
      BY <2>1 DEF ReadSetup, Read, BeginApply, Apply, RefuseApply, RecordSetup
    <2>2. CASE Return(m) \/ RecordRestore(m) \/ \E r \in Runs : Launch(m, r)
      BY <2>2 DEF Return, RecordRestore, Launch
    <2>3. CASE \E t \in Targets : ReadRestore(m, t) \/ ReadHandoff(m, t)
      BY <2>3 DEF ReadRestore, ReadHandoff, Read
    <2>4. CASE CreateLocation(m) \/ Consume(m) \/ CloseLocation(m) \/ LeaveCaller(m) \/ AbandonLaunch(m)
      BY <2>4 DEF CreateLocation, Consume, CloseLocation, LeaveCaller, AbandonLaunch, callerVars
    <2>5. CASE AppendSetup(m) \/ AppendRestore(m) \/ Recheck(m)
      BY <2>5 DEF AppendSetup, AppendRestore, Recheck
    <2> QED BY <1>1, <2>1, <2>2, <2>3, <2>4, <2>5 DEF CallerStep
  <1>2. CASE \E n \in Callers : n # m /\ CallerStep(n)
    BY <1>2, OthersStay DEF ToolInv
  <1> QED BY <1>1, <1>2 DEF ToolNext, allVars, toolVars, callerVars, Travel, StopEnds, Redeploy, CancelWorkflow, CloseStop

(* A setup that is open keeps others from another.                         *)
LEMMA OpenSetup ==
  ASSUME ToolInv, NEW m \in Callers, job[m] \in SetupJobs
  PROVE  \A k \in Callers : ~AppendSetup(k)
  <1>1. /\ Len(log) \in Nat /\ LastIs(base[m]) /\ log[base[m]].action = "setup-intent"
        /\ log[base[m]] \in Events
    BY DEF ToolInv, ToolTypeOK, DisputeInv, LastIs
  <1>2. SetupOpen
    BY <1>1, LastFound, LocationAssumption DEF SetupOpen
  <1> QED BY <1>2 DEF AppendSetup, MayIntendSetup

(* A setup that was begun stays the last until its result.                 *)
LEMMA SetupSteps ==
  ASSUME ToolInv, [ToolNext]_allVars
  PROVE  /\ \A m \in Callers : job'[m] \in SetupJobs => LastIs(base[m])' /\ log'[base'[m]].action = "setup-intent"
         /\ \A m, n \in Callers : job'[m] \in SetupJobs /\ job'[n] \in SetupJobs => m = n
  <1> USE DEF ToolInv
  <1>1. ASSUME NEW m \in Callers, AppendSetup(m), NEW n \in Callers, job'[n] \in SetupJobs PROVE n = m
    <2>1. job[n] \notin SetupJobs
      BY <1>1, OpenSetup
    <2>2. AppendSetup(n) \/ n = m
      BY <1>1, <2>1, JobStep
    <2>3. n # m => job'[n] = job[n]
      BY <1>1, OthersStay DEF CallerStep
    <2> QED BY <1>1, <2>1, <2>3
  <1>2. \A m, n \in Callers : job'[m] \in SetupJobs /\ job'[n] \in SetupJobs => m = n
    BY <1>1, JobStep DEF DisputeInv
  <1>3. ASSUME NEW m \in Callers, job'[m] \in SetupJobs PROVE LastIs(base[m])' /\ log'[base'[m]].action = "setup-intent"
    <2>1. CASE AppendSetup(m)
      <3>1. /\ Append1(Event("setup-intent", None, None)) /\ Event("setup-intent", None, None) \in Events
            /\ base'[m] = Len(log) + 1
        BY <2>1, EventTypes DEF AppendSetup, ToolTypeOK
      <3>2. /\ Len(log') = Len(log) + 1 /\ log'[Len(log) + 1] = Event("setup-intent", None, None)
            /\ LastIs(Len(log))'
        BY <3>1, Events1, LastSteps DEF Event
      <3> QED BY <3>1, <3>2 DEF Event, LastIs, IsSetup
    <2>2. CASE ~AppendSetup(m)
      <3>1. job[m] \in SetupJobs /\ base'[m] = base[m] /\ LastIs(base[m]) /\ log[base[m]].action = "setup-intent"
        BY <1>3, <2>2, JobStep DEF DisputeInv
      <3>2. CASE log' = log
        BY <3>1, <3>2 DEF LastIs, IsSetup
      <3>3. ASSUME NEW e \in Events, Append1(e),
                   \/ CancelWorkflow /\ e = Event("cancel", None, None)
                   \/ \E k \in Callers : \/ AppendSetup(k) /\ e = Event("setup-intent", None, None)
                                         \/ RecordSetup(k) /\ e = Event("setup-result", None, result[k])
                                         \/ AppendRestore(k) /\ e = Event("restore-intent", target[k], None)
                                         \/ RecordRestore(k) /\ e = Event("restore-result", target[k], result[k])
            PROVE  e.action \notin {"setup-intent", "setup-result"}
        <4>1. ASSUME NEW k \in Callers, RecordSetup(k) PROVE FALSE
          <5>1. k = m
            BY <3>1, <4>1 DEF RecordSetup, Step, SetupJobs, DisputeInv
          <5> QED BY <1>3, <4>1, <5>1 DEF RecordSetup, Step, SetupJobs, ToolTypeOK
        <4>2. \A k \in Callers : ~AppendSetup(k)
          BY <3>1, OpenSetup
        <4> QED BY <3>3, <4>1, <4>2 DEF Event
      <3>4. ASSUME NEW e \in Events, Append1(e), e.action \notin {"setup-intent", "setup-result"}
            PROVE  LastIs(base[m])' /\ log'[base'[m]].action = "setup-intent"
        <4>1. LastIs(base[m])'
          BY <3>1, <3>4, LastSteps DEF LastIs, IsSetup
        <4>2. log'[base[m]] = log[base[m]]
          BY <3>1, <3>4, Events1 DEF LastIs
        <4> QED BY <3>1, <4>1, <4>2
      <3> QED BY <3>2, <3>3, <3>4, LogCases
    <2> QED BY <2>1, <2>2
  <1> QED BY <1>2, <1>3

(* Nobody but its caller appends an event of a target that it restores.    *)
LEMMA RestoreSteps ==
  ASSUME ToolInv, [ToolNext]_allVars, NEW m \in Callers, job'[m] \in RestoreJobs
  PROVE  Undisputed(m)'
  <1> USE DEF ToolInv
  <1>0. Len(log) \in Nat
    BY DEF ToolTypeOK
  <1>1. CASE AppendRestore(m)
    <2>1. Append1(Event("restore-intent", target[m], None)) /\ Event("restore-intent", target[m], None) \in Events
      BY <1>1, EventTypes DEF AppendRestore
    <2>2. Len(log') = Len(log) + 1
      BY <2>1, Events1
    <2>3. base'[m] = Len(log')
      BY <1>1, <2>2 DEF AppendRestore, ToolTypeOK
    <2> QED BY <1>0, <2>2, <2>3 DEF Undisputed
  <1>2. CASE Recheck(m)
    <2>1. /\ base'[m] \in 1..Len(log) /\ log' = log /\ target' = target /\ target[m] # None
          /\ log[base'[m]].action = "restore-intent" /\ log[base'[m]].target = target[m]
          /\ ~Has(Len(log), "restore-result", target[m])
      BY <1>2, IntentFound, ToolAssumption DEF Recheck, ToolTypeOK
    <2>2. ASSUME NEW i \in (base'[m] + 1)..Len(log), log[i].target = target[m] PROVE FALSE
      <3>1. i \in 1..Len(log) /\ i # base'[m]
        BY <1>0, <2>1
      <3>2. log[i].action = "restore-intent"
        BY <2>1, <2>2, <3>1 DEF LogInv, Has
      <3> QED BY <2>1, <2>2, <3>1, <3>2 DEF LogInv
    <2> QED BY <2>1, <2>2 DEF Undisputed
  <1>3. CASE ~AppendRestore(m) /\ ~Recheck(m)
    <2>1. /\ job[m] \in RestoreJobs /\ base'[m] = base[m] /\ target'[m] = target[m] /\ Undisputed(m)
          /\ target[m] \in Targets /\ target[m] # None
      BY <1>3, JobStep, ToolAssumption DEF DisputeInv, JobInv, RestoreJobs, PlainJobs, SetupJobs
    <2>2. Has(Len(log), "restore-intent", target[m])
      BY <2>1 DEF OneRight, RestoreJobs, Waiting, Started, JobInv, ToolTypeOK
    <2>3. CASE log' = log
      BY <2>1, <2>3 DEF Undisputed
    <2>4. ASSUME NEW e \in Events, Append1(e),
                 \/ CancelWorkflow /\ e = Event("cancel", None, None)
                 \/ \E k \in Callers : \/ AppendSetup(k) /\ e = Event("setup-intent", None, None)
                                       \/ RecordSetup(k) /\ e = Event("setup-result", None, result[k])
                                       \/ AppendRestore(k) /\ e = Event("restore-intent", target[k], None)
                                       \/ RecordRestore(k) /\ e = Event("restore-result", target[k], result[k])
          PROVE  e.target # target[m]
      <3>1. ASSUME NEW k \in Callers, AppendRestore(k), target[k] = target[m] PROVE FALSE
        BY <2>2, <3>1 DEF AppendRestore, Unrestored
      <3>2. ASSUME NEW k \in Callers, RecordRestore(k), target[k] = target[m] PROVE FALSE
        <4>1. call[k] \in Runs /\ restores[call[k]] = target[m]
          BY <3>2 DEF RecordRestore, Step, JobInv, ToolTypeOK
        <4>2. ~Waiting(m, target[m])
          BY <2>1, <4>1 DEF OneRight, Started
        <4>3. call[m] \in Runs /\ restores[call[m]] = target[m]
          BY <2>1, <4>2 DEF RestoreJobs, Waiting, JobInv, ToolTypeOK
        <4>4. k = m
          BY <2>1, <4>1, <4>3, ResumeAssumption DEF RestoredOnce, CallsInv
        <4> QED BY <3>2, <4>4 DEF RecordRestore, Step, RestoreJobs, ToolTypeOK
      <3> QED BY <2>1, <2>4, <3>1, <3>2 DEF Event
    <2>5. ASSUME NEW e \in Events, Append1(e), e.target # target[m] PROVE Undisputed(m)'
      <3>1. /\ Len(log') = Len(log) + 1 /\ log'[Len(log) + 1] = e
            /\ \A i \in 1..Len(log) : log'[i] = log[i]
        BY <2>5, Events1
      <3>2. base[m] \in 1..Len(log) /\ \A i \in (base[m] + 1)..Len(log) : log[i].target # target[m]
        BY <2>1 DEF Undisputed
      <3> QED BY <1>0, <2>1, <2>5, <3>1, <3>2 DEF Undisputed
    <2> QED BY <2>3, <2>4, <2>5, LogCases
  <1> QED BY <1>1, <1>2, <1>3

-----------------------------------------------------------------------------
(* A setup that is applied finds the instance free, and it stays free.     *)
LEMMA FreeStays ==
  ASSUME ToolInv, [ToolNext]_allVars, NEW r \in Runs, ~NoneApplies, at[r] \in {"idle", "gone"}
  PROVE  at'[r] \in {"idle", "gone"}
  <1>1. CASE at[r] = "gone"
    BY <1>1, CalledStays, Resumes DEF ToolInv
  <1>2. CASE at[r] = "idle"
    <2>1. ASSUME NEW q \in Runs, ResumeStep(q) PROVE at'[r] = "idle"
      <3>1. at[q] # "idle" \/ at' = at
        BY <2>1 DEF ResumeStep, Snapshot, Busy, Claim, Refuse, Spawn, Launched, Exited, WaitFails, Around, HostExits,
           KidsExit, Reconcile, Crash, Settle, Goto
      <3>2. CASE at[q] # "idle"
        <4>1. RunStep(q) /\ q # r
          BY <1>2, <2>1, <3>2 DEF ResumeStep, RunStep, Proceed
        <4> QED BY <1>2, <4>1, ResumeTypes DEF ToolInv, ResumeInv
      <3> QED BY <1>2, <3>1, <3>2
    <2>2. ASSUME NEW m \in Callers, CallerStep(m) PROVE at'[r] = "idle"
      <3>1. CASE Return(m)
        <4>1. at[call[m]] # "idle" /\ call[m] \in Runs /\ RunStep(call[m])
          BY <3>1 DEF Return, RunStep, Proceed, ToolInv, ToolTypeOK
        <4> QED BY <1>2, <4>1, ResumeTypes DEF ToolInv, ResumeInv
      <3> QED BY <1>2, <2>2, <3>1 DEF resumeVars, CallerStep, ReadSetup, AppendSetup, BeginApply, Apply, RefuseApply, RecordSetup,
           ReadRestore, ReadHandoff, Read, AppendRestore, RecordRestore, Launch, CreateLocation, Consume, Recheck,
           CloseLocation, LeaveCaller, AbandonLaunch
    <2> QED BY <1>2, <2>1, <2>2 DEF ToolNext, allVars, resumeVars, Travel, StopEnds, Redeploy, CancelWorkflow, CloseStop
  <1> QED BY <1>1, <1>2

(* Nothing is deployed under a run, and a restore finds its target.        *)
LEMMA DeploySteps ==
  ASSUME ToolInv, [ToolNext]_allVars
  PROVE  DeployInv'
  <1> USE DEF ToolInv
  <1>1. ASSUME ~NoneApplies', NEW r \in Runs PROVE at'[r] \in {"idle", "gone"}
    <2>1. CASE ~NoneApplies
      BY <2>1, FreeStays DEF DeployInv
    <2>2. CASE NoneApplies
      <3>1. PICK m \in Callers : job'[m] = "applying"
        BY <1>1 DEF NoneApplies
      <3>2. ASSUME NEW n \in Callers, CallerStep(n) PROVE BeginApply(m)
        <4>1. n = m
          BY <2>2, <3>1, <3>2, OthersStay DEF NoneApplies
        <4> QED BY <2>2, <3>1, <3>2, <4>1 DEF NoneApplies, ToolTypeOK, Step, CallerStep, ReadSetup, AppendSetup, Apply, RefuseApply,
             RecordSetup, ReadRestore, ReadHandoff, Read, AppendRestore, RecordRestore, Launch, Return, CreateLocation,
             Consume, Recheck, CloseLocation, LeaveCaller, AbandonLaunch, callerVars
      <3>3. BeginApply(m)
        BY <2>2, <3>1, <3>2 DEF NoneApplies, ToolNext, allVars, toolVars, callerVars, Travel, StopEnds, Redeploy, CancelWorkflow,
           CloseStop
      <3> QED BY <3>3 DEF BeginApply, InstanceFree, resumeVars
    <2> QED BY <2>1, <2>2
  <1>2. ASSUME NEW r \in Runs, restores'[r] # None, at'[r] \notin {"idle", "gone"} PROVE deployed' = "target"
    <2>1. ASSUME NEW m \in Callers, NEW q \in Runs, Launch(m, q) PROVE deployed' = deployed /\ deployed = "target"
      BY <2>1 DEF Launch, Expected
    <2>2. CASE restores'[r] = restores[r] /\ \A m \in Callers, q \in Runs : ~Launch(m, q)
      <3>1. at[r] \notin {"idle", "gone"} /\ deployed = "target"
        BY <1>2, <2>2, CalledStays, Resumes DEF DeployInv, CallsInv
      <3>2. ~InstanceFree /\ NoneApplies
        BY <3>1 DEF InstanceFree, DeployInv
      <3>3. ASSUME NEW m \in Callers, CallerStep(m) PROVE deployed' = "target"
        BY <2>2, <3>1, <3>2, <3>3 DEF NoneApplies, CallerStep, ReadSetup, AppendSetup, BeginApply, Apply, RefuseApply, RecordSetup,
           ReadRestore, ReadHandoff, Read, AppendRestore, RecordRestore, Return, CreateLocation, Consume, Recheck,
           CloseLocation, LeaveCaller, AbandonLaunch
      <3> QED BY <3>1, <3>2, <3>3 DEF ToolNext, allVars, toolVars, Travel, StopEnds, Redeploy, CancelWorkflow, CloseStop
    <2> QED BY <2>1, <2>2, RestoresStep
  <1> QED BY <1>1, <1>2 DEF DeployInv

(* A result is recorded by the caller that saw the exit.                   *)
LEMMA ResultSteps ==
  ASSUME ToolInv, [ToolNext]_allVars
  PROVE  ResultsTrue'
  <1> USE DEF ToolInv
  <1>1. ASSUME NEW t \in Targets, NEW r \in Runs, restores[r] = t, tree[r] \in {"kids", "over"}
        PROVE  restores'[r] = t /\ tree'[r] \in {"kids", "over"}
    <2>1. restores[r] # None
      BY <1>1, ToolAssumption
    <2> QED BY <1>1, <2>1, RestoresStep, ExitStays, Resumes
  <1>2. ASSUME NEW t \in Targets, Has(Len(log), "restore-result", t)', ~Has(Len(log), "restore-result", t)
        PROVE  \E m \in Callers : RecordRestore(m) /\ target[m] = t
    <2>1. log' # log
      BY <1>2 DEF Has
    <2>2. PICK e \in Events :
              /\ Append1(e)
              /\ \/ CancelWorkflow /\ e = Event("cancel", None, None)
                 \/ \E m \in Callers : \/ AppendSetup(m) /\ e = Event("setup-intent", None, None)
                                       \/ RecordSetup(m) /\ e = Event("setup-result", None, result[m])
                                       \/ AppendRestore(m) /\ e = Event("restore-intent", target[m], None)
                                       \/ RecordRestore(m) /\ e = Event("restore-result", target[m], result[m])
      BY <2>1, LogCases
    <2>3. /\ Len(log') = Len(log) + 1 /\ log'[Len(log) + 1] = e /\ Len(log) \in Nat
          /\ \A i \in 1..Len(log) : log'[i] = log[i]
      BY <2>2, Events1
    <2>4. e.action = "restore-result" /\ e.target = t
      BY <1>2, <2>3 DEF Has
    <2> QED BY <2>2, <2>4 DEF Event
  <1>3. ASSUME NEW t \in Targets, Has(Len(log), "restore-result", t)'
        PROVE  \E r \in Runs : restores'[r] = t /\ tree'[r] \in {"kids", "over"}
    <2>1. CASE Has(Len(log), "restore-result", t)
      BY <1>1, <2>1 DEF ResultsTrue
    <2>2. CASE ~Has(Len(log), "restore-result", t)
      <3>1. PICK m \in Callers : RecordRestore(m) /\ target[m] = t
        BY <1>2, <1>3, <2>2
      <3>2. call[m] \in Runs /\ restores[call[m]] = t /\ tree[call[m]] \in {"kids", "over"}
        BY <3>1 DEF RecordRestore, Step, JobInv, ToolTypeOK
      <3> QED BY <1>1, <3>2
    <2> QED BY <2>1, <2>2
  <1>4. ASSUME NEW t \in Targets, receipt'[t] = "exited" PROVE Has(Len(log), "restore-result", t)'
    <2>1. CASE receipt[t] = "exited"
      BY <2>1, LogKeeps DEF ResultsTrue
    <2>2. CASE receipt[t] # "exited"
      <3>1. ASSUME NEW m \in Callers, CallerStep(m) PROVE CloseLocation(m) /\ target[m] = t
        BY <1>4, <2>2, <3>1 DEF ToolTypeOK, Transition, CallerStep, ReadSetup, AppendSetup, BeginApply, Apply, RefuseApply,
           RecordSetup, ReadRestore, ReadHandoff, Read, AppendRestore, RecordRestore, Launch, Return, CreateLocation,
           Consume, Recheck, CloseLocation, LeaveCaller, AbandonLaunch
      <3>2. ASSUME NEW u \in Targets, Travel(u) PROVE FALSE
        BY <1>4, <2>2, <3>2 DEF ToolTypeOK, Travel, Transition
      <3>3. PICK m \in Callers : CloseLocation(m) /\ target[m] = t
        BY <1>4, <2>2, <3>1, <3>2 DEF ToolNext, allVars, toolVars, StopEnds, Redeploy, CancelWorkflow, CloseStop
      <3>4. Has(Len(log), "restore-result", t)
        BY <3>3 DEF CloseLocation, JobInv
      <3> QED BY <3>4, LogKeeps
    <2> QED BY <2>1, <2>2
  <1> QED BY <1>3, <1>4 DEF ResultsTrue

-----------------------------------------------------------------------------
(* Every step keeps the invariant.                                         *)
LEMMA ToolStep == ToolInv /\ [ToolNext]_allVars => ToolInv'
  <1> SUFFICES ASSUME ToolInv, [ToolNext]_allVars PROVE ToolInv'
    OBVIOUS
  <1>1. ResumeInv'
    BY Resumes, ResumeStepInv DEF ToolInv
  <1>2. DisputeInv'
    BY SetupSteps, RestoreSteps DEF DisputeInv
  <1> QED BY <1>1, <1>2, ToolTypes, JobSteps, RightSteps, CallsSteps, LogSteps, DeploySteps, ResultSteps DEF ToolInv

(* Before anything happens, the log is empty and nobody is anywhere.       *)
LEMMA ToolStart == ToolInit => ToolInv
  <1> SUFFICES ASSUME ToolInit PROVE ToolInv
    OBVIOUS
  <1>1. ToolTypeOK /\ Len(log) = 0
    BY ToolAssumption DEF ToolInit, ToolTypeOK
  <1>2. JobInv /\ OneRight /\ CallsInv /\ RestoredOnce
    BY <1>1, ToolAssumption, LocationAssumption DEF ToolInit, ResumeInit, JobInv, PlainJobs, SetupJobs, OneRight, CallsInv,
       RestoredOnce, Waiting, Travelling, Started, Receipts
  <1>3. LogInv /\ DisputeInv /\ DeployInv
    BY <1>1 DEF ToolInit, ResumeInit, LogInv, DisputeInv, DeployInv, NoneApplies, SetupJobs, RestoreJobs
  <1>4. ResultsTrue
    BY <1>1, LocationAssumption DEF ToolInit, ResultsTrue, Has, Receipts
  <1> QED BY <1>1, <1>2, <1>3, <1>4, ResumeInitInv DEF ToolInit, ToolInv

-----------------------------------------------------------------------------
(* Every reachable state of the workflow satisfies the invariant.          *)
THEOREM ToolInvariant == ToolSpec => []ToolInv
  <1> QED BY ToolStart, ToolStep, PTL DEF ToolSpec

(* The snapshot that a resume decides by, although it was taken before the *)
(* lock, only shows runs as released that are, processes and all.          *)
THEOREM SnapshotsAreSafe == ToolSpec => []SnapshotSafe
  <1>1. ToolInv => SnapshotSafe
    BY DEF ToolInv, ResumeInv
  <1> QED BY <1>1, ToolInvariant, PTL

(* The launch and exit on record took place, whichever writes failed.      *)
THEOREM RequestsAreTrue == ToolSpec => []RecordsTrue
  <1>1. ToolInv => RecordsTrue
    BY DEF ToolInv, ResumeInv, StateOf, RecordsTrue
  <1> QED BY <1>1, ToolInvariant, PTL

(* A target is restored by one run at most, wherever it is asked for.      *)
THEOREM TargetsRestoredOnce == ToolSpec => []RestoredOnce
  <1>1. ToolInv => RestoredOnce
    BY DEF ToolInv
  <1> QED BY <1>1, ToolInvariant, PTL

(* What a caller did under its intent can be recorded whatever else was    *)
(* appended since.                                                         *)
THEOREM ResultsFit == ToolSpec => []Recordable
  <1>1. ToolInv => Recordable
    <2> SUFFICES ASSUME ToolInv, NEW m \in Callers,
                        job[m] \in {"setup", "applying", "applied", "restoring", "launching", "restored"}
                 PROVE  Undisputed(m)
      BY DEF Recordable
    <2> USE DEF ToolInv
    <2>1. CASE job[m] \in RestoreJobs
      BY <2>1 DEF DisputeInv
    <2>2. CASE job[m] \in SetupJobs
      <3>1. target[m] = None /\ LastIs(base[m]) /\ Len(log) \in Nat
        BY <2>2 DEF DisputeInv, JobInv, PlainJobs, ToolTypeOK
      <3> QED BY <3>1 DEF LastIs, IsSetup, Undisputed
    <2> QED BY <2>1, <2>2 DEF RestoreJobs, SetupJobs
  <1> QED BY <1>1, ToolInvariant, PTL

(* A recorded result is that of a host that has exited, and a location that*)
(* is closed has its result.                                               *)
THEOREM ResultsAreTrue == ToolSpec => []ResultsTrue
  <1>1. ToolInv => ResultsTrue
    BY DEF ToolInv
  <1> QED BY <1>1, ToolInvariant, PTL

(* The host of a restore starts in the deployment that the setup recorded. *)
THEOREM RestoresOnTarget == ToolSpec => StartsOnTarget
  <1>1. ToolInv /\ [ToolNext]_allVars =>
          [\A r \in Runs : restores[r] # None /\ tree[r] = "unborn" /\ tree'[r] = "host" =>
             deployed = "target" /\ Updated]_allVars
    <2> SUFFICES ASSUME ToolInv, [ToolNext]_allVars, NEW r \in Runs, restores[r] # None, tree[r] = "unborn",
                        tree'[r] = "host"
                 PROVE  deployed = "target" /\ Updated
      OBVIOUS
    <2> USE DEF ToolInv
    <2>1. ASSUME NEW q \in Runs, RunStep(q) PROVE at[r] = "claimed"
      <3>1. q = r
        BY <2>1, ResumeTypes DEF ResumeInv
      <3> QED BY <2>1, <3>1 DEF ResumeInv, ResumeTypeOK, RunStep, Proceed, Around, Register, Snapshot, Busy, Claim, Refuse, Spawn,
           Launched, Exited, WaitFails, Settle, HostExits, KidsExit, Crash, Reconcile, Goto
    <2>2. at[r] = "claimed"
      BY <2>1, Resumes DEF ResumeNext, RunStep, resumeVars
    <2>3. restores[r] \in Targets /\ Started(restores[r])
      BY DEF ToolTypeOK, Started
    <2>4. Settled
      BY <2>3 DEF OneRight, Has, LogInv
    <2> QED BY <2>2, <2>4, SettledMeans DEF DeployInv
  <1> QED BY <1>1, ToolInvariant, PTL DEF ToolSpec, StartsOnTarget

-----------------------------------------------------------------------------
(* The only member of a set, if it has one.                                *)
Only(C) == IF Cardinality(C) = 1 THEN CHOOSE r \in C : TRUE ELSE None
(* It is found if there is exactly one, and None if there is none.         *)
LEMMA OnlyOne ==
  ASSUME NEW C
  PROVE  (\A r : C = {r} => Only(C) = r) /\ (C = {} => Only(C) = None)
  <1>1. ASSUME NEW r, C = {r} PROVE Only(C) = r
    <2>1. Cardinality({r}) = 1 /\ (CHOOSE q \in {r} : TRUE) = r
      BY FS_Singleton
    <2> QED BY <1>1, <2>1 DEF Only
  <1>2. ASSUME C = {} PROVE Only(C) = None
    <2>1. Cardinality({}) = 0
      BY FS_EmptySet
    <2> QED BY <1>2, <2>1 DEF Only
  <1> QED BY <1>1, <1>2

(* The holder of a session is the run whose request stands.                *)
Claimants(s) == {r \in Runs : Standing(r) /\ want[r] = s}
HoldsFor(s) ==
  /\ \A r \in Runs : Standing(r) /\ want[r] = s => HolderOf(s) = r
  /\ (\A r \in Runs : ~(Standing(r) /\ want[r] = s)) => HolderOf(s) = None
  /\ HolderOf(s) # None => HolderOf(s) \in Runs /\ Standing(HolderOf(s)) /\ want[HolderOf(s)] = s
(* In every state that satisfies the invariant, and in the next.           *)
LEMMA HolderIs ==
  ASSUME ResumeInv, NEW s
  PROVE  HoldsFor(s) /\ (ResumeInv' => HoldsFor(s)')
  <1>1. HolderOf(s) = Only(Claimants(s))
    BY DEF HolderOf, Claimants, Only
  <1>2. \A r \in Runs : Standing(r) /\ want[r] = s => Claimants(s) = {r}
    BY DEF Claimants, ResumeInv, OneClaim
  <1>3. (\A r \in Runs : ~(Standing(r) /\ want[r] = s)) => Claimants(s) = {}
    BY DEF Claimants
  <1>4. HoldsFor(s)
    BY <1>1, <1>2, <1>3, OnlyOne DEF HoldsFor
  <1>5. HolderOf(s)' = Only(Claimants(s)')
    BY DEF HolderOf, Claimants, Only
  <1>6. ResumeInv' => \A r \in Runs : Standing(r)' /\ want'[r] = s => Claimants(s)' = {r}
    BY DEF Claimants, ResumeInv, OneClaim
  <1>7. (\A r \in Runs : ~(Standing(r)' /\ want'[r] = s)) => Claimants(s)' = {}
    BY DEF Claimants
  <1>8. ResumeInv' => HoldsFor(s)'
    BY <1>5, <1>6, <1>7, OnlyOne DEF HoldsFor
  <1> QED BY <1>4, <1>8

(* While the requests that stand and their sessions stay, so do holders.   *)
LEMMA HoldersStay ==
  ASSUME NEW r \in Runs, \A q \in Runs \ {r} : UNCHANGED <<want[q], owner[q], attempt[q]>>,
         Standing(r)' = Standing(r), Standing(r) => want'[r] = want[r]
  PROVE  \A s : HolderOf(s)' = HolderOf(s)
  <1>1. ASSUME NEW s PROVE Claimants(s)' = Claimants(s)
    <2>1. \A q \in Runs : (Standing(q) /\ want[q] = s)' = (Standing(q) /\ want[q] = s)
      BY DEF Standing
    <2> QED BY <2>1 DEF Claimants
  <1>2. ASSUME NEW s PROVE HolderOf(s) = Only(Claimants(s)) /\ HolderOf(s)' = Only(Claimants(s)')
    BY DEF HolderOf, Claimants, Only
  <1> QED BY <1>1, <1>2

TreeOf(r) == IF Living(r) THEN "alive" ELSE tree[r]
Holders == [s \in Sessions |-> HolderOf(s)]
Trees == [r \in Runs |-> TreeOf(r)]
(* No session is claimed before any call.                                  *)
LEMMA ClaimsStart == ResumeInit => Claims!Init
  <1> SUFFICES ASSUME ResumeInit PROVE Claims!Init
    OBVIOUS
  <1>1. \A s : HolderOf(s) = None
    BY ResumeInitInv, HolderIs DEF HoldsFor, ResumeInit, Standing
  <1> QED BY <1>1 DEF ResumeInit, Claims!Init, Living

(* A step of the resumes is a step of the claims, or none.                 *)
LEMMA ClaimsStep ==
  ASSUME ResumeInv, NEW r \in Runs, RunStep(r)
  PROVE  [Claims!Next]_(Claims!vars)
  <1> USE DEF Holders, Trees, TreeOf
  <1>0. /\ ResumeTypeOK /\ StateOf(r) /\ ResumeTypeOK' /\ StateOf(r)'
        /\ \A q \in Runs \ {r} : UNCHANGED <<want[q], owner[q], attempt[q], at[q], free[q], tree[q]>>
        /\ ResumeInv'
    BY ResumeTypes, StateStep, ResumeStepInv DEF ResumeInv, ResumeNext, RunStep
  <1>1. \A q \in Runs \ {r} : TreeOf(q)' = TreeOf(q)
    BY <1>0 DEF Living
  <1>2. Standing(r) => want'[r] = want[r]
    BY <1>0 DEF Standing, StateOf, RunStep, Proceed, Around, Register, Snapshot, Busy, Claim, Refuse, Spawn,
       Launched, Exited, WaitFails, Settle, HostExits, KidsExit, Crash, Reconcile, Goto, ResumeTypeOK
  <1>3. CASE Standing(r)' = Standing(r) /\ TreeOf(r)' = TreeOf(r)
    <2>1. Holders' = Holders /\ Trees' = Trees
      BY <1>0, <1>1, <1>2, <1>3, HoldersStay
    <2> QED BY <2>1 DEF Claims!vars
  <1>4. CASE Standing(r)' /\ ~Standing(r)
    <2>1. Claim(r) /\ at[r] = "admitted"
      BY <1>4, ClaimStep DEF Claim
    <2>2. tree[r] = "unborn" /\ tree' = tree /\ want' = want /\ want[r] \in Sessions
      BY <1>0, <2>1 DEF Claim, StateOf
    <2>3. HolderOf(want[r])' = r
      BY <1>0, <1>4, <2>2, HolderIs DEF HoldsFor
    <2>4. ASSUME NEW s \in Sessions, s # want[r] PROVE HolderOf(s)' = HolderOf(s)
      <3>1. CASE HolderOf(s) # None
        <4>1. PICK q \in Runs : q = HolderOf(s) /\ Standing(q) /\ want[q] = s
          BY <3>1, HolderIs DEF HoldsFor
        <4>2. Standing(q)' /\ want'[q] = s
          BY <1>0, <1>4, <4>1 DEF Standing
        <4> QED BY <1>0, <4>1, <4>2, HolderIs DEF HoldsFor
      <3>2. CASE HolderOf(s) = None
        <4>1. \A q \in Runs : ~(Standing(q) /\ want[q] = s)
          BY <3>2, HolderIs, ResumeAssumption DEF HoldsFor
        <4>2. \A q \in Runs : ~(Standing(q)' /\ want'[q] = s)
          BY <1>0, <2>2, <2>4, <4>1 DEF Standing
        <4> QED BY <1>0, <3>2, <4>2, HolderIs DEF HoldsFor
      <3> QED BY <3>1, <3>2
    <2>5. HolderOf(want[r]) = None
      <3>1. ASSUME NEW q \in Runs, Standing(q), want[q] = want[r] PROVE FALSE
        <4>1. q # r /\ Standing(q)' /\ want'[q] = want'[r]
          BY <1>0, <1>4, <2>2, <3>1 DEF Standing
        <4> QED BY <1>0, <1>4, <4>1 DEF ResumeInv, OneClaim
      <3> QED BY <3>1, HolderIs DEF HoldsFor
    <2>6. \A s \in Sessions : HolderOf(s) # r
      BY <1>4, HolderIs, ResumeAssumption DEF HoldsFor
    <2>7. Holders' = [Holders EXCEPT ![want[r]] = r]
      BY <2>2, <2>3, <2>4
    <2>8. Trees' = Trees /\ TreeOf(r) = "unborn"
      BY <2>2 DEF Living
    <2>9. Claims!Claim(r, want[r])
      BY <2>2, <2>5, <2>6, <2>7, <2>8 DEF Claims!Claim
    <2> QED BY <2>2, <2>9 DEF Claims!Next
  <1>5. CASE ~Standing(r)' /\ Standing(r)
    <2>1. Settle(r) /\ owner'[r] = "idle" /\ attempt[r].dispatch = "launched" /\ attempt[r].exited /\ tree' = tree /\ want' = want
      <3>1. CASE Launched(r) \/ Exited(r)
        BY <1>0, <1>5, <3>1 DEF Launched, Exited, Goto, Standing, StateOf
      <3>2. CASE Claim(r) \/ Settle(r) \/ Reconcile(r)
        BY <1>0, <1>5, <3>2 DEF Claim, Settle, Reconcile, Standing, StateOf, ResumeTypeOK
      <3>3. CASE (\E s \in Sessions : Register(r, s)) \/ Crash(r) \/ Snapshot(r) \/ Busy(r) \/ Refuse(r) \/ Spawn(r)
                 \/ WaitFails(r) \/ HostExits(r) \/ KidsExit(r)
        BY <1>0, <1>5, <3>3 DEF Register, Crash, Snapshot, Busy, Refuse, Spawn, WaitFails, HostExits, KidsExit, Standing,
           StateOf, Goto
      <3> QED BY <3>1, <3>2, <3>3 DEF RunStep, Proceed, Around
    <2>2. TreeOf(r) = "over" /\ Trees' = Trees
      <3>1. tree[r] \in {"kids", "over"} /\ ~Living(r)
        BY <1>0, <1>5, <2>1 DEF StateOf, Standing, Living
      <3> QED BY <2>1, <3>1 DEF Living
    <2>3. want[r] \in Sessions /\ HolderOf(want[r]) = r
      BY <1>0, <1>5, HolderIs DEF HoldsFor, StateOf, Standing
    <2>4. ASSUME NEW s \in Sessions, s # want[r] PROVE HolderOf(s)' = HolderOf(s)
      <3>1. CASE HolderOf(s) # None
        <4>1. PICK q \in Runs : q = HolderOf(s) /\ Standing(q) /\ want[q] = s
          BY <3>1, HolderIs DEF HoldsFor
        <4>2. Standing(q)' /\ want'[q] = s
          BY <1>0, <2>4, <4>1 DEF Standing
        <4> QED BY <1>0, <4>1, <4>2, HolderIs DEF HoldsFor
      <3>2. CASE HolderOf(s) = None
        <4>1. \A q \in Runs : ~(Standing(q) /\ want[q] = s)
          BY <3>2, HolderIs, ResumeAssumption DEF HoldsFor
        <4>2. \A q \in Runs : ~(Standing(q)' /\ want'[q] = s)
          BY <1>0, <2>1, <2>4, <4>1 DEF Standing
        <4> QED BY <1>0, <3>2, <4>2, HolderIs DEF HoldsFor
      <3> QED BY <3>1, <3>2
    <2>5. HolderOf(want[r])' = None
      <3>1. ASSUME NEW q \in Runs, Standing(q)', want'[q] = want[r] PROVE FALSE
        <4>1. q # r /\ Standing(q) /\ want[q] = want[r]
          BY <1>0, <1>5, <2>1, <3>1 DEF Standing
        <4> QED BY <1>5, <4>1 DEF ResumeInv, OneClaim
      <3> QED BY <1>0, <2>1, <3>1, HolderIs DEF HoldsFor
    <2>6. Holders' = [Holders EXCEPT ![want[r]] = None]
      BY <2>1, <2>3, <2>4, <2>5
    <2>7. Claims!Free(want[r])
      BY <2>2, <2>3, <2>6, ResumeAssumption DEF Claims!Free
    <2> QED BY <2>3, <2>7 DEF Claims!Next
  <1>6. CASE Standing(r)' = Standing(r) /\ TreeOf(r)' # TreeOf(r)
    <2>1. Holders' = Holders
      BY <1>0, <1>2, <1>6, HoldersStay
    <2>2. CASE Spawn(r)
      <3>1. Standing(r) /\ want[r] \in Sessions /\ tree[r] = "unborn" /\ tree'[r] = "host"
        BY <1>0, <2>2 DEF Spawn, Goto, StateOf, Standing, ResumeTypeOK
      <3>2. HolderOf(want[r]) = r /\ TreeOf(r) = "unborn" /\ TreeOf(r)' = "alive"
        BY <3>1, HolderIs DEF HoldsFor, Living
      <3>3. Trees' = [Trees EXCEPT ![r] = "alive"]
        BY <1>1, <3>2
      <3>4. Claims!Start(r)
        BY <2>1, <3>1, <3>2, <3>3 DEF Claims!Start
      <3> QED BY <3>4 DEF Claims!Next
    <2>3. CASE HostExits(r) \/ KidsExit(r)
      <3>1. TreeOf(r) = "alive" /\ TreeOf(r)' = "over"
        BY <1>0, <1>6, <2>3 DEF HostExits, KidsExit, Living, ResumeTypeOK
      <3>2. Trees' = [Trees EXCEPT ![r] = "over"]
        BY <1>1, <3>1
      <3>3. Claims!End(r)
        BY <2>1, <3>1, <3>2 DEF Claims!End
      <3> QED BY <3>3 DEF Claims!Next
    <2>4. tree' = tree \/ Spawn(r) \/ HostExits(r) \/ KidsExit(r)
      BY DEF RunStep, Proceed, Around, Register, Snapshot, Busy, Claim, Refuse, Launched, Exited, WaitFails, Settle,
         Crash, Reconcile
    <2> QED BY <1>6, <2>2, <2>3, <2>4 DEF Living
  <1>7. Standing(r) \in BOOLEAN /\ Standing(r)' \in BOOLEAN
    BY DEF Standing
  <1> QED BY <1>3, <1>4, <1>5, <1>6, <1>7

(* A session has one writer at a time: the workflow and the resumes beside *)
(* it implement the claims.                                                *)
THEOREM Refinement == ToolSpec => ImplementsClaims
  <1>1. ToolInit => Claims!Init
    BY ClaimsStart DEF ToolInit
  <1>2. ToolInv /\ [ToolNext]_allVars => [Claims!Next]_(Claims!vars)
    <2> SUFFICES ASSUME ToolInv, [ToolNext]_allVars PROVE [Claims!Next]_(Claims!vars)
      OBVIOUS
    <2>1. CASE UNCHANGED resumeVars
      BY <2>1 DEF resumeVars, Claims!vars, HolderOf, Standing, Living
    <2> QED BY <2>1, Resumes, ClaimsStep DEF ToolInv, ResumeNext, RunStep
  <1> QED BY <1>1, <1>2, ToolInvariant, PTL DEF ToolSpec, ImplementsClaims, Claims!Spec

-----------------------------------------------------------------------------
(* The log tells a workflow.                                               *)

(* A session never has the processes of two runs at the same time.         *)
OneWriter == \A r, q \in Runs : Living(r) /\ Living(q) /\ want[r] = want[q] => r = q
THEOREM OneWriterEach == ToolSpec => []OneWriter
  <1>1. ASSUME ToolInv, NEW r \in Runs, Living(r) PROVE Standing(r)
    BY <1>1 DEF ToolInv, ResumeInv, StateOf, Standing, Living
  <1>2. ToolInv => OneWriter
    BY <1>1 DEF ToolInv, ResumeInv, OneClaim, OneWriter
  <1> QED BY <1>2, ToolInvariant, PTL

(* What event e requires of the first n events.  A setup: it is not begun  *)
(* after a cancel, a restore or a success, nor before the result of another*)
(* setup, and its result follows its intent.                               *)
Succeeds(i) == log[i].action = "setup-result" /\ log[i].code = 0
SetupFits(n, e) ==
  /\ e.action = "setup-intent" =>
       \A k \in 1..n : /\ log[k].action \notin {"cancel", "restore-intent", "restore-result"}
                       /\ ~Succeeds(k)
                       /\ log[k].action = "setup-intent" => \E l \in (k + 1)..n : log[l].action = "setup-result"
  /\ e.action = "setup-result" =>
       \E j \in 1..n : log[j].action = "setup-intent" /\ \A k \in (j + 1)..n : ~IsSetup(k)
(* A restore: it is reserved after the success of a setup, once, not after *)
(* a cancel, and it is answered once, after it was reserved.               *)
RestoreFits(n, e) ==
  /\ e.action = "restore-intent" => /\ \E j \in 1..n : Succeeds(j)
                                    /\ ~Has(n, "cancel", None) /\ ~Has(n, "restore-intent", e.target)
  /\ e.action = "restore-result" => /\ Has(n, "restore-intent", e.target)
                                    /\ ~Has(n, "restore-result", e.target)
(* There is one cancel at most.                                            *)
Fits(n, e) == /\ SetupFits(n, e) /\ RestoreFits(n, e)
              /\ e.action = "cancel" => ~Has(n, "cancel", None)

(* The log is in order; and who restores has not been answered before.     *)
LogInOrder == \A i \in 1..Len(log) : Fits(i - 1, log[i])
Unanswered == \A m \in Callers : job[m] \in RestoreJobs => ~Has(Len(log), "restore-result", target[m])

(* A setup may be begun: the last one has a result, and none succeeded.    *)
LEMMA SetupIntentFits ==
  ASSUME ToolInv, LogInOrder, MayIntendSetup
  PROVE  SetupFits(Len(log), Event("setup-intent", None, None))
  <1> USE DEF ToolInv
  <1>0. Len(log) \in Nat /\ \A i \in 1..Len(log) : log[i] \in Events /\ log[i] # None
    BY LocationAssumption DEF ToolTypeOK
  <1> SUFFICES ASSUME NEW k \in 1..Len(log)
               PROVE  /\ log[k].action \notin {"cancel", "restore-intent", "restore-result"}
                      /\ ~Succeeds(k)
                      /\ log[k].action = "setup-intent" =>
                           \E l \in (k + 1)..Len(log) : log[l].action = "setup-result"
    BY DEF SetupFits, Event
  <1>1. log[k].action \notin {"cancel", "restore-intent", "restore-result"}
    <2>1. log[k].action = "cancel" => log[k].target = None
      BY DEF LogInv
    <2> QED BY <2>1 DEF MayIntendSetup, Cancelled, Has
  <1>2. CASE IsSetup(k)
    <2>1. PICK l \in 1..Len(log) : LastIs(l)
      BY <1>2 DEF LogInv
    <2>2. LastSetup = log[l] /\ IsSetup(l) /\ k <= l
      BY <1>0, <1>2, <2>1, LastFound DEF LastIs
    <2>3. log[l].action = "setup-result"
      BY <1>0, <2>2 DEF MayIntendSetup, SetupOpen, IsSetup
    <2>4. ~Succeeds(l)
      BY <1>0, <2>2 DEF MayIntendSetup, Updated, Succeeds
    <2>5. ASSUME Succeeds(k) PROVE FALSE
      <3>1. ASSUME NEW j \in (k + 1)..Len(log), log[j].action = "setup-intent" PROVE FALSE
        <4>1. SetupFits(j - 1, log[j]) /\ k \in 1..(j - 1)
          BY <1>0, <3>1 DEF LogInOrder, Fits
        <4> QED BY <2>5, <3>1, <4>1 DEF SetupFits
      <3>2. k < l
        BY <1>0, <2>2, <2>4, <2>5
      <3>3. SetupFits(l - 1, log[l])
        BY DEF LogInOrder, Fits
      <3>4. PICK j \in 1..(l - 1) : log[j].action = "setup-intent" /\ \A i \in (j + 1)..(l - 1) : ~IsSetup(i)
        BY <2>3, <3>3 DEF SetupFits
      <3>5. k \notin (j + 1)..(l - 1) /\ k # j
        BY <1>2, <2>5, <3>4 DEF Succeeds
      <3>6. j \in (k + 1)..Len(log)
        BY <1>0, <3>2, <3>5
      <3> QED BY <3>1, <3>4, <3>6
    <2>6. log[k].action = "setup-intent" => l \in (k + 1)..Len(log)
      BY <1>0, <2>2, <2>3
    <2> QED BY <1>1, <2>3, <2>5, <2>6
  <1> QED BY <1>1, <1>2 DEF IsSetup, Succeeds

(* Every event that is appended fits.                                      *)
LEMMA EventFits ==
  ASSUME ToolInv, LogInOrder, Unanswered, NEW e,
         \/ CancelWorkflow /\ e = Event("cancel", None, None)
         \/ \E m \in Callers : \/ AppendSetup(m) /\ e = Event("setup-intent", None, None)
                               \/ RecordSetup(m) /\ e = Event("setup-result", None, result[m])
                               \/ AppendRestore(m) /\ e = Event("restore-intent", target[m], None)
                               \/ RecordRestore(m) /\ e = Event("restore-result", target[m], result[m])
  PROVE  Fits(Len(log), e)
  <1> USE DEF ToolInv
  <1>1. CASE CancelWorkflow /\ e = Event("cancel", None, None)
    BY <1>1 DEF CancelWorkflow, Cancelled, Fits, SetupFits, RestoreFits, Event
  <1>2. ASSUME NEW m \in Callers, AppendSetup(m), e = Event("setup-intent", None, None)
        PROVE  Fits(Len(log), e)
    BY <1>2, SetupIntentFits DEF AppendSetup, Fits, RestoreFits, Event
  <1>3. ASSUME NEW m \in Callers, RecordSetup(m), e = Event("setup-result", None, result[m])
        PROVE  Fits(Len(log), e)
    <2>1. LastIs(base[m]) /\ log[base[m]].action = "setup-intent" /\ Len(log) \in Nat
      BY <1>3 DEF RecordSetup, Step, DisputeInv, SetupJobs, ToolTypeOK
    <2>2. \A k \in (base[m] + 1)..Len(log) : ~IsSetup(k)
      BY <2>1 DEF LastIs
    <2> QED BY <1>3, <2>1, <2>2 DEF LastIs, Fits, SetupFits, RestoreFits, Event
  <1>4. ASSUME NEW m \in Callers, AppendRestore(m), e = Event("restore-intent", target[m], None)
        PROVE  Fits(Len(log), e)
    <2>1. Settled
      BY <1>4 DEF AppendRestore, Step, Unchanged, LogInv
    <2>2. \E j \in 1..Len(log) : Succeeds(j)
      BY <2>1 DEF Settled, Succeeds
    <2> QED BY <1>4, <2>2 DEF AppendRestore, Cancelled, Unrestored, Fits, SetupFits, RestoreFits, Event
  <1>5. ASSUME NEW m \in Callers, RecordRestore(m), e = Event("restore-result", target[m], result[m])
        PROVE  Fits(Len(log), e)
    <2>1. /\ job[m] \in RestoreJobs
          /\ call[m] \in Runs /\ restores[call[m]] = target[m] /\ target[m] \in Targets
      BY <1>5 DEF RecordRestore, Step, RestoreJobs, JobInv, ToolTypeOK
    <2>2. Has(Len(log), "restore-intent", target[m])
      BY <2>1 DEF OneRight, Started
    <2> QED BY <1>5, <2>1, <2>2 DEF Unanswered, Fits, SetupFits, RestoreFits, Event
  <1> QED BY <1>1, <1>2, <1>3, <1>4, <1>5

(* What came before stays as it is.                                        *)
LEMMA FitsStays ==
  ASSUME NEW n \in Nat, NEW e, \A i \in 1..n : log'[i] = log[i], Fits(n, e)
  PROVE  Fits(n, e)'
  <1>1. \A a, t : Has(n, a, t)' <=> Has(n, a, t)
    BY DEF Has
  <1>2. \A i \in 1..n : (Succeeds(i)' <=> Succeeds(i)) /\ (IsSetup(i)' <=> IsSetup(i))
    BY DEF Succeeds, IsSetup
  <1>3. \A j \in 1..n : (j + 1)..n \subseteq 1..n
    OBVIOUS
  <1> QED BY <1>1, <1>2, <1>3 DEF Fits, SetupFits, RestoreFits

(* Every step keeps the log in order.                                      *)
LEMMA OrderStep ==
  ASSUME ToolInv, LogInOrder, Unanswered, [ToolNext]_allVars
  PROVE  LogInOrder'
  <1>0. Len(log) \in Nat
    BY DEF ToolInv, ToolTypeOK
  <1>1. ASSUME NEW i \in 1..Len(log), \A j \in 1..Len(log) : log'[j] = log[j]
        PROVE  Fits(i - 1, log[i])'
    <2>1. PICK e : e = log[i]
      OBVIOUS
    <2>2. log'[i] = e
      BY <1>1, <2>1
    <2>3. Fits(i - 1, e)
      BY <2>1 DEF LogInOrder
    <2>4. Fits(i - 1, e)'
      BY <1>0, <1>1, <2>3, FitsStays
    <2> QED BY <2>2, <2>4 DEF Fits, SetupFits, RestoreFits
  <1>2. CASE log' = log
    BY <1>1, <1>2 DEF LogInOrder
  <1>3. ASSUME NEW e \in Events, Append1(e), Fits(Len(log), e)
        PROVE  LogInOrder'
    <2>1. /\ Len(log') = Len(log) + 1 /\ log'[Len(log) + 1] = e
          /\ \A i \in 1..Len(log) : log'[i] = log[i]
      BY <1>3, Events1 DEF ToolInv
    <2>2. PICK n : n = Len(log)
      OBVIOUS
    <2>3. Fits(n, e)'
      BY <1>0, <1>3, <2>1, <2>2, FitsStays
    <2>4. ASSUME NEW i \in 1..Len(log') PROVE Fits(i - 1, log[i])'
      <3>1. CASE i \in 1..Len(log)
        BY <1>1, <2>1, <3>1
      <3>2. CASE i = n + 1
        <4>1. log'[i] = e /\ i - 1 = n
          BY <1>0, <2>1, <2>2, <3>2
        <4> QED BY <2>3, <4>1 DEF Fits, SetupFits, RestoreFits
      <3> QED BY <1>0, <2>1, <2>2, <3>1, <3>2
    <2> QED BY <2>4 DEF LogInOrder
  <1> QED BY <1>2, <1>3, LogCases, EventFits

(* Every step keeps a restore unanswered until its result is recorded.     *)
LEMMA UnansweredStep ==
  ASSUME ToolInv, LogInOrder, Unanswered, [ToolNext]_allVars
  PROVE  Unanswered'
  <1> USE DEF ToolInv
  <1>0. Len(log) \in Nat
    BY DEF ToolTypeOK
  <1> SUFFICES ASSUME NEW m \in Callers, job'[m] \in RestoreJobs
               PROVE  ~Has(Len(log), "restore-result", target[m])'
    BY DEF Unanswered
  <1>1. CASE AppendRestore(m)
    <2>1. ~Has(Len(log), "restore-intent", target[m]) /\ target'[m] = target[m]
      BY <1>1 DEF AppendRestore, Unrestored
    <2>2. ASSUME NEW i \in 1..Len(log), log[i].action = "restore-result", log[i].target = target[m] PROVE FALSE
      <3>1. Has(i - 1, "restore-intent", target[m])
        BY <2>2 DEF LogInOrder, Fits, RestoreFits
      <3> QED BY <1>0, <2>1, <3>1 DEF Has
    <2>3. PICK e \in Events : Append1(e) /\ e = Event("restore-intent", target[m], None)
      BY <1>1, EventTypes DEF AppendRestore
    <2>4. /\ Len(log') = Len(log) + 1 /\ log'[Len(log) + 1] = e /\ e.action = "restore-intent"
          /\ \A i \in 1..Len(log) : log'[i] = log[i]
      BY <2>3, Events1 DEF Event
    <2> QED BY <1>0, <2>1, <2>2, <2>4 DEF Has
  <1>2. CASE Recheck(m)
    BY <1>2 DEF Recheck, Has
  <1>3. CASE ~AppendRestore(m) /\ ~Recheck(m)
    <2>1. /\ job[m] \in RestoreJobs /\ base'[m] = base[m] /\ target'[m] = target[m]
          /\ base[m] \in Nat /\ base[m] <= Len(log) /\ target[m] # None
      BY <1>3, JobStep, ToolAssumption DEF JobInv, ToolTypeOK, RestoreJobs, PlainJobs, SetupJobs
    <2>2. ~Has(Len(log), "restore-result", target[m])
      BY <2>1 DEF Unanswered
    <2>3. CASE log' = log
      BY <2>1, <2>2, <2>3 DEF Has
    <2>4. ASSUME NEW e \in Events, Append1(e) PROVE ~Has(Len(log), "restore-result", target[m])'
      <3>1. /\ Len(log') = Len(log) + 1 /\ \A i \in 1..Len(log) : log'[i] = log[i]
        BY <2>4, Events1
      <3>2. Undisputed(m)'
        BY RestoreSteps
      <3>3. log'[Len(log) + 1].target # target[m]
        BY <1>0, <2>1, <3>1, <3>2 DEF Undisputed
      <3> QED BY <1>0, <2>1, <2>2, <3>1, <3>3 DEF Has
    <2> QED BY <2>3, <2>4, LogStep
  <1> QED BY <1>1, <1>2, <1>3

(* Whoever calls, dies, cancels or deploys, and in whatever order results  *)
(* arrive: the log reads as one workflow that was carried out in order.    *)
THEOREM WorkflowInOrder == ToolSpec => []LogInOrder
  <1>1. ToolInit => LogInOrder /\ Unanswered
    BY DEF ToolInit, LogInOrder, Unanswered, RestoreJobs
  <1>2. ToolInv /\ (LogInOrder /\ Unanswered) /\ [ToolNext]_allVars => (LogInOrder /\ Unanswered)'
    BY OrderStep, UnansweredStep
  <1> QED BY <1>1, <1>2, ToolInvariant, PTL DEF ToolSpec
=============================================================================
