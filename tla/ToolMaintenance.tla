---------------------------- MODULE ToolMaintenance ----------------------------
(***************************************************************************)
(* The maintenance workflow of one tool: a batch of runs is stopped, the   *)
(* instance is set up, and the session of each run is restored in the      *)
(* current terminal, or in a tab that is created or a pane that was kept   *)
(* for it.  The workflow is a log of events, appended from the state that  *)
(* the caller read; what was done may be recorded after other events.      *)
(*                                                                         *)
(* It extends ResumeAttempts: a restore resumes the session of its target; *)
(* other resumes take place at any time.  A caller may die anywhere.       *)
(***************************************************************************)
EXTENDS ResumeAttempts, Sequences

CONSTANTS Targets,   \* the stopped runs of the batch
          SessionOf, \* the session that each of them is to restore
          Callers,   \* processes that execute, restore, cancel or redeploy
          MaxLog     \* bound: events of the log

ASSUME ToolAssumption == /\ SessionOf \in [Targets -> Sessions]
                         /\ \A t, u \in Targets : SessionOf[t] = SessionOf[u] => t = u
                         /\ None \notin Targets \cup Callers
                         /\ MaxLog \in Nat

VARIABLES log,       \* the events of the workflow
          stopped,   \* the stop batch: "pending", "stopped" or "cancelled"
          deployed,  \* what the instance holds: "before", "target", "other" or "unsettled"
          receipt,   \* receipt[t]: the phase of the location request, or None
          job,       \* job[m]: where the caller is
          base,      \* base[m]: the length of the log that it read, or its intent
          target,    \* target[m]: the target that it restores, or None
          call,      \* call[m]: the resume it made, or None
          restores,  \* restores[r]: the target that the run restores, or None
          result     \* result[m]: the exit code it has to record, 0 or 1

toolVars == <<log, stopped, deployed, receipt, job, base, target, call, restores, result>>
callerVars == <<job, base, target, call, restores, result>>
allVars == <<resumeVars, toolVars>>

Actions == {"setup-intent", "setup-result", "restore-intent", "restore-result", "cancel"}
Event(a, t, c) == [action |-> a, target |-> t, code |-> c]
Events == [action : Actions, target : Targets \cup {None}, code : {None, 0, 1}]

ToolInit == /\ ResumeInit
            /\ log = <<>> /\ stopped = "pending" /\ deployed = "before"
            /\ receipt = [t \in Targets |-> None]
            /\ job = [m \in Callers |-> "idle"]
            /\ base = [m \in Callers |-> 0]
            /\ target = [m \in Callers |-> None]
            /\ call = [m \in Callers |-> None]
            /\ restores = [r \in Runs |-> None]
            /\ result = [m \in Callers |-> 0]

(* What the log says.                                                      *)
Has(n, a, t) == \E i \in 1..n : log[i].action = a /\ log[i].target = t
Cancelled == Has(Len(log), "cancel", None)
SetupEvents == {i \in 1..Len(log) : log[i].action \in {"setup-intent", "setup-result"}}
LastSetup == IF SetupEvents = {} THEN None
             ELSE log[CHOOSE i \in SetupEvents : \A j \in SetupEvents : j <= i]
Updated == LastSetup # None /\ LastSetup.action = "setup-result" /\ LastSetup.code = 0
SetupOpen == LastSetup # None /\ LastSetup.action = "setup-intent"

Step(m, from, to) == job[m] = from /\ job' = [job EXCEPT ![m] = to]
Append1(e) == Len(log) < MaxLog /\ log' = Append(log, e)
(* Store.append: the log must be the one that was read; the entry may fail *)
(* to be read back although it was written.                                *)
Unchanged(m) == base[m] = Len(log)

-----------------------------------------------------------------------------
(* The stop batch (StopDelivery), seen from here, and deployments of others*)
(* which need the instance free of runs; one of them may fail halfway.     *)
NoneApplies == \A m \in Callers : job[m] # "applying"
InstanceFree == /\ NoneApplies
                /\ \A r \in Runs : at[r] \in {"idle", "gone"} /\ owner[r] \in {"none", "idle"} /\ ~Living(r)
StopEnds == /\ stopped = "pending" /\ stopped' = "stopped"
            /\ UNCHANGED <<resumeVars, log, deployed, receipt, callerVars>>
Redeploy == /\ InstanceFree /\ deployed' \in {"target", "other", "unsettled"} \ {deployed}
            /\ UNCHANGED <<resumeVars, log, stopped, receipt, callerVars>>

(* cancel: the event, unless there is one, then the stop batch if it is    *)
(* still open; that second step may not come.                              *)
CancelWorkflow == /\ ~Cancelled
                  /\ Append1(Event("cancel", None, None))
                  /\ UNCHANGED <<resumeVars, stopped, deployed, receipt, callerVars>>
CloseStop == /\ Cancelled /\ stopped = "pending" /\ stopped' = "cancelled"
             /\ UNCHANGED <<resumeVars, log, deployed, receipt, callerVars>>

-----------------------------------------------------------------------------
(* execute: the log and the status are read, the setup is reviewed, its    *)
(* intent appended, and then it is applied.                                *)
Read(m, next) == /\ Step(m, "idle", next)
                 /\ base' = [base EXCEPT ![m] = Len(log)]
                 /\ UNCHANGED <<resumeVars, log, stopped, deployed, receipt, call, restores, result>>
ReadSetup(m) == /\ ~Cancelled /\ stopped = "stopped" /\ ~Updated /\ ~SetupOpen
                /\ Read(m, "reviewed") /\ UNCHANGED target
MayIntendSetup == /\ ~Cancelled /\ ~SetupOpen /\ ~Updated
                  /\ \A i \in 1..Len(log) : log[i].action \notin {"restore-intent", "restore-result"}
AppendSetup(m) == /\ Unchanged(m) /\ MayIntendSetup
                  /\ Step(m, "reviewed", "setup")
                  /\ Append1(Event("setup-intent", None, None))
                  /\ base' = [base EXCEPT ![m] = Len(log) + 1]
                  /\ UNCHANGED <<resumeVars, stopped, deployed, receipt, target, call, restores, result>>
BeginApply(m) == /\ Step(m, "setup", "applying") /\ InstanceFree
                 /\ UNCHANGED <<resumeVars, log, stopped, deployed, receipt, base, target, call, restores, result>>
(* It is written, or the review proves stale and it ends with an exit code;*)
(* when it fails otherwise, no result is recorded (LeaveCaller).           *)
Apply(m) == /\ Step(m, "applying", "applied")
            /\ deployed' = "target" /\ result' = [result EXCEPT ![m] = 0]
            /\ UNCHANGED <<resumeVars, log, stopped, receipt, base, target, call, restores>>
RefuseApply(m) == /\ Step(m, "setup", "applied")
                  /\ result' = [result EXCEPT ![m] = 1]
                  /\ UNCHANGED <<resumeVars, log, stopped, deployed, receipt, base, target, call, restores>>

(* _complete: the log still begins with the intent, and nothing about the  *)
(* same setup or target was appended since.                                *)
Undisputed(m) == /\ base[m] \in 1..Len(log)
                 /\ \A i \in (base[m] + 1)..Len(log) :
                      IF target[m] = None THEN log[i].action \notin {"setup-intent", "setup-result"}
                                          ELSE log[i].target # target[m]
RecordSetup(m) == /\ Undisputed(m) /\ Step(m, "applied", "done")
                  /\ Append1(Event("setup-result", None, result[m]))
                  /\ UNCHANGED <<resumeVars, stopped, deployed, receipt, base, target, call, restores, result>>

-----------------------------------------------------------------------------
(* reserve_restore: read, checked against the deployment, appended.        *)
UnrestoredFaulty(t) == ~Has(Len(log), "restore-result", t)
Unrestored(t) == ~Has(Len(log), "restore-intent", t)
ReadRestore(m, t) == /\ ~Cancelled /\ Updated /\ Unrestored(t)
                     /\ deployed = "target"
                     /\ Read(m, "reserving") /\ target' = [target EXCEPT ![m] = t]
AppendRestore(m) == /\ \/ Step(m, "reserving", "restoring")
                       \/ Step(m, "reserving", "locating") /\ receipt[target[m]] = None
                    /\ Unchanged(m) /\ ~Cancelled /\ Unrestored(target[m])
                    /\ Append1(Event("restore-intent", target[m], None))
                    /\ base' = [base EXCEPT ![m] = Len(log) + 1]
                    /\ UNCHANGED <<resumeVars, stopped, deployed, receipt, target, call, restores, result>>

(* The launch: the run that resumes starts only in the deployment that was *)
(* set up (expected_deployment, read under the lease of the run).          *)
ExpectedFaulty == TRUE
Expected == deployed = "target"
Launch(m, r) == /\ Step(m, "restoring", "launching") /\ Expected /\ NoneApplies
                /\ Register(r, SessionOf[target[m]])
                /\ call' = [call EXCEPT ![m] = r]
                /\ restores' = [restores EXCEPT ![r] = target[m]]
                /\ UNCHANGED <<log, stopped, deployed, receipt, base, target, result>>
(* Only the exit of the host is a result; a resume that was refused, or    *)
(* whose outcome is not known, leaves the intent as it is.                 *)
ReturnFaulty(m) == /\ call[m] # None /\ at[call[m]] \in {"leaving", "ended"} /\ Settle(call[m])
                   /\ Step(m, "launching", "restored")
                   /\ \E c \in {0, 1} : result' = [result EXCEPT ![m] = c]
                   /\ UNCHANGED <<log, stopped, deployed, receipt, base, target, call, restores>>
Return(m) == /\ call[m] # None /\ at[call[m]] = "ended" /\ Settle(call[m])
             /\ Step(m, "launching", "restored")
             /\ \E c \in {0, 1} : result' = [result EXCEPT ![m] = c]
             /\ UNCHANGED <<log, stopped, deployed, receipt, base, target, call, restores>>
RecordRestore(m) == /\ Undisputed(m) /\ Step(m, "restored", "done")
                    /\ Append1(Event("restore-result", target[m], result[m]))
                    /\ UNCHANGED <<resumeVars, stopped, deployed, receipt, base, target, call, restores, result>>

-----------------------------------------------------------------------------
(* restore_locations: the request is created behind the intent, dispatched *)
(* once, handed off once by the tab or pane that received it, and executed *)
(* once by the child that it started.                                      *)
Receipts == {"prepared", "dispatched", "ready", "committed", "handoff", "executing", "exited", "failed", "unknown"}
ASSUME LocationAssumption == None \notin Receipts \cup Events
Following == [prepared |-> {"dispatched", "failed", "unknown"},
              dispatched |-> {"ready", "handoff", "failed", "unknown"},
              ready |-> {"committed", "failed", "unknown"},
              committed |-> {"handoff", "failed", "unknown"},
              handoff |-> {"executing", "failed", "unknown"},
              executing |-> {"exited", "failed", "unknown"},
              exited |-> {}, failed |-> {}, unknown |-> {}]
(* LocationStore.transition, from a receipt read just before; of callers   *)
(* that read the same one, the first wins.                                 *)
TransitionFaulty(t, from, to) == /\ receipt[t] \notin {None, "exited"} /\ to \in Following[from]
                                 /\ receipt' = [receipt EXCEPT ![t] = to]
Transition(t, from, to) == /\ receipt[t] = from /\ to \in Following[from]
                           /\ receipt' = [receipt EXCEPT ![t] = to]

CreateLocation(m) == /\ Step(m, "locating", "done") /\ receipt[target[m]] = None
                     /\ receipt' = [receipt EXCEPT ![target[m]] = "prepared"]
                     /\ UNCHANGED <<resumeVars, log, stopped, deployed, base, target, call, restores, result>>
Travel(t) == /\ \/ Transition(t, "prepared", "dispatched")
                \/ \E to \in {"ready", "handoff"} : Transition(t, "dispatched", to)
                \/ Transition(t, "ready", "committed")
                \/ Transition(t, "committed", "handoff")
                \/ \E from \in {"dispatched", "ready", "committed", "handoff", "executing"} : Transition(t, from, "unknown")
                \/ \E from \in {"ready", "committed", "handoff"} : Transition(t, from, "failed")
             /\ UNCHANGED <<resumeVars, log, stopped, deployed, callerVars>>

(* restore_child.execute: it reads the handoff, consumes it, and checks the*)
(* workflow again: the intent it was created behind, no cancel, no other   *)
(* event of the target, the deployment.                                    *)
ReadHandoff(m, t) == /\ receipt[t] = "handoff"
                     /\ Read(m, "handed") /\ target' = [target EXCEPT ![m] = t]
Consume(m) == /\ Step(m, "handed", "consumed")
              /\ Transition(target[m], "handoff", "executing")
              /\ UNCHANGED <<resumeVars, log, stopped, deployed, base, target, call, restores, result>>
IntentOf(t) == CHOOSE i \in 1..Len(log) : log[i].action = "restore-intent" /\ log[i].target = t
Recheck(m) == /\ Step(m, "consumed", "restoring")
              /\ ~Cancelled /\ ~Has(Len(log), "restore-result", target[m]) /\ Expected
              /\ base' = [base EXCEPT ![m] = IntentOf(target[m])]
              /\ UNCHANGED <<resumeVars, log, stopped, deployed, receipt, target, call, restores, result>>
CloseLocation(m) == /\ job[m] = "done" /\ target[m] # None /\ call[m] # None
                    /\ Transition(target[m], "executing", "exited")
                    /\ UNCHANGED <<resumeVars, log, stopped, deployed, callerVars>>

(* A caller ends, by its own doing or not, and the resume it made with it; *)
(* a child that ends early says so in the receipt, if it still can.        *)
LeaveCaller(m) == /\ job[m] \notin {"idle", "launching"}
                  /\ job' = [job EXCEPT ![m] = "idle"]
                  /\ target' = [target EXCEPT ![m] = None]
                  /\ base' = [base EXCEPT ![m] = 0] /\ call' = [call EXCEPT ![m] = None]
                  /\ result' = [result EXCEPT ![m] = 0]
                  /\ \/ UNCHANGED receipt
                     \/ /\ job[m] \in {"handed", "consumed", "restoring", "restored", "done"} /\ target[m] # None
                        /\ \E from \in {"handoff", "executing"} : \E to \in {"failed", "unknown"} :
                             Transition(target[m], from, to)
                  /\ \/ UNCHANGED deployed
                     \/ job[m] = "applying" /\ deployed' \in {"unsettled", "target"}
                  /\ UNCHANGED <<resumeVars, log, stopped, restores>>
AbandonLaunch(m) == /\ job[m] = "launching" /\ at[call[m]] = "gone"
                    /\ job' = [job EXCEPT ![m] = "idle"]
                    /\ target' = [target EXCEPT ![m] = None]
                    /\ base' = [base EXCEPT ![m] = 0] /\ call' = [call EXCEPT ![m] = None]
                    /\ \/ UNCHANGED receipt
                       \/ \E to \in {"failed", "unknown"} : Transition(target[m], "executing", to)
                    /\ UNCHANGED <<resumeVars, log, stopped, deployed, restores, result>>

-----------------------------------------------------------------------------
CallerStep(m) ==
  \/ ReadSetup(m) \/ AppendSetup(m) \/ BeginApply(m) \/ Apply(m) \/ RefuseApply(m) \/ RecordSetup(m)
  \/ \E t \in Targets : ReadRestore(m, t) \/ ReadHandoff(m, t)
  \/ AppendRestore(m) \/ (\E r \in Runs : Launch(m, r)) \/ Return(m) \/ RecordRestore(m)
  \/ CreateLocation(m) \/ Consume(m) \/ Recheck(m) \/ CloseLocation(m)
  \/ LeaveCaller(m) \/ AbandonLaunch(m)

(* What a restore started goes on as any resume; the user makes others too.*)
ResumeStep(r) == \/ Snapshot(r) \/ Busy(r) \/ Claim(r) \/ Refuse(r) \/ Spawn(r) \/ Launched(r)
                 \/ Exited(r) \/ WaitFails(r) \/ Around(r) \/ Crash(r)
                 \/ Settle(r)
                 \/ NoneApplies /\ \E s \in Sessions : Register(r, s)

ToolNext == \/ (\E r \in Runs : ResumeStep(r)) /\ UNCHANGED toolVars
            \/ \E m \in Callers : CallerStep(m)
            \/ \E t \in Targets : Travel(t)
            \/ StopEnds \/ Redeploy \/ CancelWorkflow \/ CloseStop
ToolSpec == ToolInit /\ [][ToolNext]_allVars

-----------------------------------------------------------------------------
(* The types, and a log that begins as it must.                            *)
ToolTypeOK ==
  /\ log \in Seq(Events) /\ Len(log) <= MaxLog
  /\ stopped \in {"pending", "stopped", "cancelled"}
  /\ deployed \in {"before", "target", "other", "unsettled"}
  /\ receipt \in [Targets -> Receipts \cup {None}]
  /\ job \in [Callers -> {"idle", "reviewed", "setup", "applying", "applied", "reserving", "restoring", "locating",
                          "launching", "restored", "handed", "consumed", "done"}]
  /\ base \in [Callers -> 0..MaxLog]
  /\ target \in [Callers -> Targets \cup {None}]
  /\ call \in [Callers -> Runs \cup {None}]
  /\ restores \in [Runs -> Targets \cup {None}]
  /\ result \in [Callers -> {0, 1}]

(* A target is restored by one run at most, in this terminal, in a tab or  *)
(* in its pane, however often it is asked for and whoever dies.            *)
RestoredOnce == \A r, q \in Runs : restores[r] = restores[q] /\ restores[r] # None => r = q

(* What was done can be recorded: neither a cancel nor other targets that  *)
(* were recorded meanwhile stand in the way, and nobody else records it.   *)
Recordable ==
  \A m \in Callers : job[m] \in {"setup", "applying", "applied", "restoring", "launching", "restored"} => Undisputed(m)

(* A result in the log is one that took place: the host of the target has  *)
(* exited, and a location that is said to have exited has its result.      *)
ResultsTrue ==
  \A t \in Targets :
    /\ Has(Len(log), "restore-result", t) =>
         \E r \in Runs : restores[r] = t /\ tree[r] \in {"kids", "over"}
    /\ receipt[t] = "exited" => Has(Len(log), "restore-result", t)

(* The host of a restore starts in the deployment that the setup of the    *)
(* batch recorded, although others deploy between its reservation and now. *)
StartsOnTarget ==
  [][\A r \in Runs : restores[r] # None /\ tree[r] = "unborn" /\ tree'[r] = "host" =>
       deployed = "target" /\ Updated]_allVars
=============================================================================
