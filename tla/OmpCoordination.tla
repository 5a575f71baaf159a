---------------------------- MODULE OmpCoordination ----------------------------
(***************************************************************************)
(* The coordination domain of OMP: runs reserve their resources in         *)
(* coordination.json, take shared leases on them, link an owner record and *)
(* account for their end; an operator fences resources by an intent; an    *)
(* explicit write of an instance must exclude all of them.                 *)
(*                                                                         *)
(* Each transaction of the domain is one step: it holds the domain lock    *)
(* and, inside it, the lock of the owner records.  It may fail before its  *)
(* commit, or after it, when the caller sees an error and the change       *)
(* stays, or in between, when the owner record is written and the domain   *)
(* is not.  A manager may crash between any two steps; what it started     *)
(* then lives on, and may hold the leases or not.                          *)
(***************************************************************************)
EXTENDS FiniteSets

CONSTANTS Runs,       \* run identifiers, each used by one launch
          Scopes,     \* an instance with its state and native home
          Packages,   \* runtime packages
          ScopeOf, PackageOf, \* the resources of each run
          Batches,    \* identifiers of intents
          None

Resources == Scopes \cup Packages
Needs(r) == {ScopeOf[r], PackageOf[r]}

(* An owner record: the state of the run, and whether its host is bound.   *)
Owners == [state : {"active", "unknown", "idle_confirmed"}, host : BOOLEAN]

ASSUME CoordinationAssumption ==
  /\ ScopeOf \in [Runs -> Scopes] /\ PackageOf \in [Runs -> Packages]
  /\ Scopes \cap Packages = {} /\ None \notin Batches \cup Owners

VARIABLES phase,    \* phase[r]: of the reservation, "none" before there is one
          link,     \* link[r]: the owner record whose digest the reservation holds
          record,   \* record[r]: the owner record on disk
          step,     \* step[r]: where the manager of r is in cooperative_run
          holds,    \* holds[r]: the resources leased by r's manager or processes
          proc,     \* proc[r]: r's host and its descendants
          exclusive, \* the resources leased exclusively
          writing,  \* the resources whose explicit write has been admitted
          intents,  \* intents[b]: phase, operation, selected runs and resources
          reviewed  \* reviewed[b]: selections read at the current revision

domainVars == <<phase, link, intents>>
runVars == <<step, holds, proc>>
writeVars == <<exclusive, writing>>
vars == <<phase, link, record, step, holds, proc, exclusive, writing, intents, reviewed>>

Phases == {"none", "reserved", "owner_pending", "owner_attached", "dispatched",
           "release_pending", "unknown", "released", "cancelled"}
New == [state |-> "active", host |-> FALSE]
Selection == [op : {"setup", "stop_only"}, runs : SUBSET Runs, resources : SUBSET Resources]
Intents == [phase : {"active", "dispatched", "unknown", "cancelled", "completed"},
            op : {"setup", "stop_only"}, runs : SUBSET Runs, resources : SUBSET Resources]

Init == /\ phase = [r \in Runs |-> "none"]
        /\ link = [r \in Runs |-> None]
        /\ record = [r \in Runs |-> None]
        /\ step = [r \in Runs |-> "new"]
        /\ holds = [r \in Runs |-> {}]
        /\ proc = [r \in Runs |-> "unborn"]
        /\ exclusive = {} /\ writing = {}
        /\ intents = [b \in Batches |-> None]
        /\ reviewed = [b \in Batches |-> None]

Goto(r, from, to) == step[r] = from /\ step' = [step EXCEPT ![r] = to]

(* Every committed transaction increments the revision, so that what was   *)
(* read before is no longer what an acceptance expects.                    *)
Outdated == [b \in Batches |-> None]

EndedFaulty(r) == phase[r] \in {"none", "cancelled", "released", "unknown"}
Ended(r) == phase[r] \in {"none", "cancelled", "released"}
StandingFaulty(b) == intents[b] # None /\ intents[b].phase \in {"dispatched", "unknown"}
Standing(b) == intents[b] # None /\ intents[b].phase \notin {"cancelled", "completed"}
Active(R) == {r \in Runs : ~Ended(r) /\ Needs(r) \cap R # {}}

Unfenced(R) == \A b \in Batches : Standing(b) => intents[b].resources \cap R = {}

(* _check_link: the record on disk is the one the reservation names.       *)
Linked(r) == record[r] # None /\ record[r].state = "active" /\ record[r] = link[r]

-----------------------------------------------------------------------------
(* cooperative_run.  The reservation comes before the leases; a reservation*)
(* whose response is lost has no token and is never cancelled.             *)
Reserve(r) ==
  /\ phase[r] = "none" /\ Unfenced(Needs(r))
  /\ \E to \in {"reserved", "gone"} : Goto(r, "new", to)
  /\ phase' = [phase EXCEPT ![r] = "reserved"]
  /\ reviewed' = Outdated
  /\ UNCHANGED <<link, record, holds, proc, writeVars, intents>>

(* The leases are shared and are refused while somebody writes.            *)
TakeInstanceFaulty(r) ==
  /\ Goto(r, "reserved", "instance")
  /\ holds' = [holds EXCEPT ![r] = {ScopeOf[r]}]
  /\ UNCHANGED <<domainVars, record, proc, writeVars, reviewed>>
TakeInstance(r) ==
  /\ Goto(r, "reserved", "instance") /\ ScopeOf[r] \notin exclusive
  /\ holds' = [holds EXCEPT ![r] = {ScopeOf[r]}]
  /\ UNCHANGED <<domainVars, record, proc, writeVars, reviewed>>

TakePackage(r) ==
  /\ Goto(r, "instance", "package") /\ PackageOf[r] \notin exclusive
  /\ holds' = [holds EXCEPT ![r] = Needs(r)]
  /\ UNCHANGED <<domainVars, record, proc, writeVars, reviewed>>

CheckLaunch(r) ==
  /\ Goto(r, "package", "attach") /\ phase[r] = "reserved" /\ Unfenced(Needs(r))
  /\ UNCHANGED <<domainVars, record, holds, proc, writeVars, reviewed>>

(* A launch that fails before it tried to attach an owner is cancelled.    *)
Fail(r) ==
  /\ \/ step[r] \in {"reserved", "instance", "package"} /\ step' = [step EXCEPT ![r] = "cancel"]
     \/ step[r] \in {"running", "binding"} /\ step' = [step EXCEPT ![r] = "closing"]
  /\ UNCHANGED <<domainVars, record, holds, proc, writeVars, reviewed>>

Cancel(r) ==
  /\ Goto(r, "cancel", "gone") /\ phase[r] = "reserved" /\ link[r] = None
  /\ phase' = [phase EXCEPT ![r] = "cancelled"]
  /\ holds' = [holds EXCEPT ![r] = {}]
  /\ reviewed' = Outdated
  /\ UNCHANGED <<link, record, proc, writeVars, intents>>

-----------------------------------------------------------------------------
(* attach_owner: the digest of a record to come, then the record.          *)
AttachPending(r) ==
  /\ Goto(r, "attach", "publish")
  /\ phase[r] = "reserved" /\ record[r] = None /\ Unfenced(Needs(r))
  /\ phase' = [phase EXCEPT ![r] = "owner_pending"]
  /\ link' = [link EXCEPT ![r] = New]
  /\ reviewed' = Outdated
  /\ UNCHANGED <<record, holds, proc, writeVars, intents>>

(* The second transaction of a pair writes the record, then commits: it    *)
(* ends in between, or goes on to the given step.                          *)
WriteRecord(r, new, digest, from, to, next) ==
  /\ record' = [record EXCEPT ![r] = new]
  /\ \/ /\ Goto(r, from, to)
        /\ phase' = [phase EXCEPT ![r] = next]
        /\ link' = [link EXCEPT ![r] = digest]
        /\ reviewed' = Outdated
     \/ /\ Goto(r, from, IF from = "binding" THEN "closing" ELSE "gone")
        /\ UNCHANGED <<phase, link, reviewed>>

(* The manager is gone; its processes, if any, keep the leases they        *)
(* inherited or have closed them.                                          *)
Dropped(r) == holds' \in IF proc[r] = "alive" THEN {holds, [holds EXCEPT ![r] = {}]}
                         ELSE {[holds EXCEPT ![r] = {}]}
KeepsLeases(r) == IF step'[r] = "gone" THEN Dropped(r) ELSE UNCHANGED holds

AttachOwner(r) ==
  /\ phase[r] = "owner_pending" /\ record[r] = None /\ link[r] = New /\ Unfenced(Needs(r))
  /\ WriteRecord(r, New, link[r], "publish", "owned", "owner_attached")
  /\ KeepsLeases(r)
  /\ UNCHANGED <<proc, writeVars, intents>>

(* A lost response ends the launch: nothing was started.                   *)
DispatchOwner(r) ==
  /\ phase[r] = "owner_attached" /\ Linked(r) /\ Unfenced(Needs(r))
  /\ \E to \in {"running", "gone"} : Goto(r, "owned", to)
  /\ phase' = [phase EXCEPT ![r] = "dispatched"]
  /\ KeepsLeases(r)
  /\ reviewed' = Outdated
  /\ UNCHANGED <<link, record, proc, writeVars, intents>>

Spawn(r) ==
  /\ step[r] = "running" /\ proc[r] = "unborn"
  /\ proc' = [proc EXCEPT ![r] = "alive"]
  /\ UNCHANGED <<domainVars, record, step, holds, writeVars, reviewed>>

Exit(r) ==
  /\ proc[r] = "alive" /\ proc' = [proc EXCEPT ![r] = "exited"]
  /\ holds' = [holds EXCEPT ![r] = IF step[r] = "gone" THEN {} ELSE @]
  /\ UNCHANGED <<domainVars, record, step, writeVars, reviewed>>

(* _bind records the host that was spawned; a fence refuses it.            *)
BindPending(r) ==
  /\ phase[r] = "dispatched" /\ Linked(r) /\ ~record[r].host /\ Unfenced(Needs(r))
  /\ proc[r] # "unborn"
  /\ Goto(r, "running", "binding")
  /\ phase' = [phase EXCEPT ![r] = "owner_pending"]
  /\ link' = [link EXCEPT ![r].host = TRUE]
  /\ reviewed' = Outdated
  /\ UNCHANGED <<record, holds, proc, writeVars, intents>>

BindHost(r) ==
  /\ phase[r] = "owner_pending" /\ record[r] = New /\ link[r].host /\ Unfenced(Needs(r))
  /\ WriteRecord(r, link[r], link[r], "binding", "running", "dispatched")
  /\ UNCHANGED <<holds, proc, writeVars, intents>>

-----------------------------------------------------------------------------
(* The end of the run: the manager observes its descendants.  A complete   *)
(* observation that all have exited releases; an incomplete one, whatever  *)
(* happened, makes the run unknown.                                        *)
ObserveFaulty(r) ==
  /\ Goto(r, "closing", "marking") \/ Goto(r, "closing", "finishing")
  /\ UNCHANGED <<domainVars, record, holds, proc, writeVars, reviewed>>
Observe(r) ==
  /\ \/ Goto(r, "closing", "marking")
     \/ Goto(r, "closing", "finishing") /\ proc[r] # "alive"
  /\ UNCHANGED <<domainVars, record, holds, proc, writeVars, reviewed>>

FinishOwner(r) ==
  /\ Goto(r, "finishing", "releasing") /\ phase[r] = "dispatched" /\ Linked(r)
  /\ phase' = [phase EXCEPT ![r] = "release_pending"]
  /\ reviewed' = Outdated
  /\ UNCHANGED <<link, record, holds, proc, writeVars, intents>>

(* reconcile_owner_release, which keeps the digest of the active record.   *)
ReleaseOwner(r) ==
  /\ phase[r] = "release_pending" /\ Linked(r)
  /\ WriteRecord(r, [record[r] EXCEPT !.state = "idle_confirmed"], link[r], "releasing", "gone", "released")
  /\ Dropped(r)
  /\ UNCHANGED <<proc, writeVars, intents>>

MarkUnknown(r) ==
  /\ Goto(r, "marking", "unknown") /\ phase[r] \in {"owner_attached", "dispatched"} /\ Linked(r)
  /\ phase' = [phase EXCEPT ![r] = "unknown"]
  /\ reviewed' = Outdated
  /\ UNCHANGED <<link, record, holds, proc, writeVars, intents>>

OwnerUnknown(r) ==
  /\ phase[r] = "unknown" /\ Linked(r)
  /\ LET new == [record[r] EXCEPT !.state = "unknown"]
     IN WriteRecord(r, new, new, "unknown", "gone", "unknown")
  /\ Dropped(r)
  /\ UNCHANGED <<proc, writeVars, intents>>

(* A crash, or an error that nothing handles.                              *)
Crash(r) ==
  /\ step[r] \notin {"new", "gone"} /\ step' = [step EXCEPT ![r] = "gone"]
  /\ Dropped(r)
  /\ UNCHANGED <<domainVars, record, proc, writeVars, reviewed>>

RunStep(r) ==
  \/ Reserve(r) \/ TakeInstance(r) \/ TakePackage(r) \/ CheckLaunch(r) \/ Fail(r) \/ Cancel(r)
  \/ AttachPending(r) \/ AttachOwner(r) \/ DispatchOwner(r) \/ Spawn(r) \/ Exit(r)
  \/ BindPending(r) \/ BindHost(r) \/ Observe(r) \/ FinishOwner(r) \/ ReleaseOwner(r)
  \/ MarkUnknown(r) \/ OwnerUnknown(r) \/ Crash(r)

-----------------------------------------------------------------------------
(* Exclusive leases, refused while anything holds the resource: for a      *)
(* write, or for a transaction of the maintenance.                         *)
Leased(x) == \E r \in Runs : x \in holds[r]
TakeExclusive(R) ==
  /\ R \cap exclusive = {} /\ \A x \in R : ~Leased(x)
  /\ exclusive' = exclusive \cup R
  /\ UNCHANGED <<domainVars, record, runVars, writing, reviewed>>
DropExclusive(R) ==
  /\ R \subseteq exclusive
  /\ exclusive' = exclusive \ R /\ writing' = writing \ R
  /\ UNCHANGED <<domainVars, record, runVars, reviewed>>

(* omp_scope_write_guard, held while an apply, a setup or a rollback writes*)
(* the instance, and the guard of a sync of the package; a maintenance     *)
(* passes its own intent and no other.                                     *)
AllIdle(x) == \A r \in Runs : ScopeOf[r] = x /\ record[r] # None => record[r].state = "idle_confirmed"
UnfencedBut(b, R) == \A c \in Batches \ {b} : Standing(c) => intents[c].resources \cap R = {}
MayPass(b, x) == b # None => /\ intents[b] # None /\ intents[b].phase \in {"active", "dispatched"}
                             /\ intents[b].op = "setup" /\ x \in intents[b].resources

BeginWrite(x, b) ==
  /\ x \in exclusive \ writing
  /\ MayPass(b, x) /\ UnfencedBut(b, {x})
  /\ Active({x}) = {} /\ AllIdle(x)
  /\ writing' = writing \cup {x}
  /\ UNCHANGED <<domainVars, record, runVars, exclusive, reviewed>>

-----------------------------------------------------------------------------
(* Intents.  A setup must select every run that uses its resources, a mere *)
(* stop some of them, and all must be known to be dispatched; the resources*)
(* are those of the selected runs.                                         *)
Selectable(sel) ==
  /\ sel.resources # {}
  /\ \A r \in Active(sel.resources) : phase[r] = "dispatched"
  /\ CASE sel.op = "setup" -> sel.runs = Active(sel.resources)
       [] sel.op = "stop_only" -> /\ sel.runs \subseteq Active(sel.resources)
                                  /\ Active(sel.resources) # {} => sel.runs # {}
  /\ sel.runs # {} => sel.resources = UNION {Needs(r) : r \in sel.runs}

Review(b, sel) ==
  /\ intents[b] = None /\ reviewed[b] = None /\ Selectable(sel)
  /\ reviewed' = [reviewed EXCEPT ![b] = sel]
  /\ UNCHANGED <<domainVars, record, runVars, writeVars>>

Accept(b) ==
  /\ intents[b] = None /\ reviewed[b] # None
  /\ Unfenced(reviewed[b].resources) /\ Selectable(reviewed[b])
  /\ intents' = [intents EXCEPT ![b] = [phase |-> "active", op |-> reviewed[b].op,
                                        runs |-> reviewed[b].runs, resources |-> reviewed[b].resources]]
  /\ reviewed' = Outdated
  /\ UNCHANGED <<phase, link, record, runVars, writeVars>>

Transition(b, from, to) ==
  /\ intents[b] # None /\ intents[b].phase \in from
  /\ intents' = [intents EXCEPT ![b].phase = to]
  /\ reviewed' = Outdated
  /\ UNCHANGED <<phase, link, record, runVars, writeVars>>

DispatchIntent(b) == /\ intents[b] # None
                     /\ Selectable([op |-> intents[b].op, runs |-> intents[b].runs,
                                    resources |-> intents[b].resources])
                     /\ Transition(b, {"active"}, "dispatched")
CancelIntent(b) == Transition(b, {"active"}, "cancelled")
IntentUnknown(b) == Transition(b, {"active", "dispatched", "unknown"}, "unknown")

(* A setup's intent is completed when all its runs are released; how that  *)
(* is established is the subject of SetupMaintenance.                      *)
Complete(b) == /\ intents[b] # None /\ intents[b].op = "setup"
               /\ Active(intents[b].resources) = {}
               /\ Transition(b, {"active", "dispatched"}, "completed")

(* Whatever else is recorded in the domain, and enrolments.                *)
Bookkeeping == reviewed' = Outdated /\ UNCHANGED <<domainVars, record, runVars, writeVars>>

IntentStep(b) == \/ \E sel \in Selection : Review(b, sel)
                 \/ Accept(b) \/ DispatchIntent(b) \/ CancelIntent(b) \/ IntentUnknown(b) \/ Complete(b)

Next == \/ \E r \in Runs : RunStep(r)
        \/ \E R \in SUBSET Resources : TakeExclusive(R) \/ DropExclusive(R)
        \/ \E x \in Resources : \E b \in Batches \cup {None} : BeginWrite(x, b)
        \/ Bookkeeping
        \/ \E b \in Batches : IntentStep(b)

Spec == Init /\ [][Next]_vars

-----------------------------------------------------------------------------
(* The types, and which phases name an owner record.                       *)
TypeOK ==
  /\ phase \in [Runs -> Phases]
  /\ link \in [Runs -> Owners \cup {None}] /\ record \in [Runs -> Owners \cup {None}]
  /\ step \in [Runs -> {"new", "reserved", "instance", "package", "cancel", "attach", "publish", "owned",
       "running", "binding", "closing", "finishing", "releasing", "marking", "unknown", "gone"}]
  /\ holds \in [Runs -> SUBSET Resources] /\ \A r \in Runs : holds[r] \subseteq Needs(r)
  /\ proc \in [Runs -> {"unborn", "alive", "exited"}]
  /\ exclusive \subseteq Resources /\ writing \subseteq exclusive
  /\ intents \in [Batches -> Intents \cup {None}] /\ reviewed \in [Batches -> Selection \cup {None}]
  /\ \A r \in Runs : link[r] = None <=> phase[r] \in {"none", "reserved", "cancelled"}
  /\ \A r \in Runs : record[r] # None => link[r] # None

(* While an instance or a package is being written none of its processes   *)
(* run and none of its runs goes on to attach an owner, not even one that  *)
(* reserved since, and not the leftover of a manager that crashed.         *)
WriterAlone == \A r \in Runs : Needs(r) \cap writing # {} =>
                 proc[r] # "alive" /\ step[r] \in {"new", "reserved", "instance", "cancel", "gone"}

(* The processes of a run are never without a reservation that blocks      *)
(* every other use, nor without an owner record that says so, whatever     *)
(* failed on the way.                                                      *)
Accounted == \A r \in Runs : proc[r] = "alive" =>
               ~Ended(r) /\ record[r] # None /\ record[r].state # "idle_confirmed"

(* While a setup's intent stands, the runs it selected are all that may    *)
(* use its resources: no launch slips in between the user's review of the  *)
(* revision and the acceptance, or after it.                               *)
FenceHolds == \A b \in Batches : Standing(b) /\ intents[b].op = "setup" =>
                Active(intents[b].resources) \subseteq intents[b].runs

(* An end is never taken back, and an unknown run neither becomes known    *)
(* again nor lets a new intent, a launch's setup or a write pass: only a   *)
(* person can clear it.                                                    *)
Final ==
  [][/\ \A r \in Runs : /\ phase[r] \in {"released", "cancelled", "unknown"} => phase'[r] = phase[r]
                        /\ record[r] # None /\ record[r].state # "active" => record'[r] = record[r]
     /\ \A r \in Runs : phase[r] = "unknown" =>
          /\ writing' \cap Needs(r) \subseteq writing
          /\ \A b \in Batches : intents[b] = None /\ intents'[b] # None =>
               intents'[b].resources \cap Needs(r) = {}]_vars
=============================================================================
