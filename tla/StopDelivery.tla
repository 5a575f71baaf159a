----------------------------- MODULE StopDelivery -----------------------------
(***************************************************************************)
(* What happens to a stop between the fence and the signal.  A client      *)
(* installs a batch and posts one request per selected run into the run's  *)
(* inbox; the run's manager, between two slices of waiting for its host,   *)
(* checks the request against the batch, writes a dispatch intent, checks  *)
(* again, signals the host through the handle it kept since the spawn, and *)
(* records that it did.  Clients, cancels, deadlines and hosts go on in    *)
(* between, every write may be unconfirmed, and any process may crash.     *)
(*                                                                         *)
(* RunRegistry models the lease, the record set behind the fence and the   *)
(* descendants; here a run starts with its host spawned, captured and      *)
(* recorded.  A request is named by its batch, which posts one per run.    *)
(* An operator whose name ends in Faulty is a wrong variant of the one     *)
(* that follows it; no specification uses it.                              *)
(***************************************************************************)
EXTENDS Naturals

CONSTANTS Runs,    \* runs, one manager process each
          Sidecar, \* the runs whose owner record does not name the endpoint (Pi, OMP)
          Batches, \* stop batches, one client process each
          None     \* no batch

ASSUME DeliveryAssumption == /\ Sidecar \subseteq Runs
                             /\ None \notin Batches \cup {"stopped", "cancelled"}
                             /\ \A S \in SUBSET Runs : None # S

VARIABLES mgr,      \* mgr[r]: step of r's manager
          host,     \* host[r]: the process behind the captured handle
          endpoint, \* endpoint[r]: the inbox endpoint, "bound" if the record names it
          rec,      \* rec[r]: lifecycle state in the owner record
          request,  \* request[r]: the request the manager handles, or None
          inbox,    \* inbox[r]: the requests in r's inbox
          intent,   \* intent[r]: the request in r's dispatch intent, or None
          sent,     \* sent[r]: the result file says "sent"
          signals,  \* signals[r]: how often the host was signalled
          client,   \* client[b]: step of the process that executes b
          selected, \* selected[b]: the selection in b's snapshot, or None
          fence,    \* the batch whose fence is on disk, or None
          closed,   \* closed[b]: the reason in b's close record, or None
          expired   \* expired[b]: the common deadline of b's requests has passed

runVars == <<mgr, host, endpoint, rec, request, intent, sent, signals>>
batchVars == <<client, selected, fence, closed>>
facts == <<host, endpoint, rec, intent, sent, signals>>
world == <<inbox, batchVars, expired>>
vars == <<mgr, host, endpoint, rec, request, inbox, intent, sent, signals,
          client, selected, fence, closed, expired>>

Init == /\ mgr = [r \in Runs |-> "starting"]
        /\ host = [r \in Runs |-> "alive"]
        /\ endpoint = [r \in Runs |-> "none"]
        /\ rec = [r \in Runs |-> "active"]
        /\ request = [r \in Runs |-> None]
        /\ inbox = [r \in Runs |-> {}]
        /\ intent = [r \in Runs |-> None]
        /\ sent = [r \in Runs |-> FALSE]
        /\ signals = [r \in Runs |-> 0]
        /\ client = [b \in Batches |-> "idle"]
        /\ selected = [b \in Batches |-> None]
        /\ fence = None
        /\ closed = [b \in Batches |-> None]
        /\ expired = [b \in Batches |-> FALSE]

Usable(r) == endpoint[r] = IF r \in Sidecar THEN "created" ELSE "bound"
Unposted(r) == inbox[r] = {} /\ intent[r] = None
InForce(b) == fence = b /\ closed[b] = None

-----------------------------------------------------------------------------
(* The manager builds its stop service, at most once.  A failure at any    *)
(* point leaves what was written and only waits for the host.              *)

Goto(r, from, to) == mgr[r] = from /\ mgr' = [mgr EXCEPT ![r] = to]
(* A write that may be unconfirmed: the manager goes on, or stops serving. *)
GotoOrFail(r, from, to) == Goto(r, from, to) \/ Goto(r, from, "waiting")

CreateEndpoint(r) ==
  /\ GotoOrFail(r, "starting", "created")
  /\ host[r] = "alive"
  /\ endpoint' = [endpoint EXCEPT ![r] = "created"]
  /\ UNCHANGED <<host, rec, request, intent, sent, signals, world>>

BindControl(r) ==
  /\ r \notin Sidecar /\ endpoint[r] = "created" /\ host[r] = "alive"
  /\ GotoOrFail(r, "created", "created")
  /\ endpoint' = [endpoint EXCEPT ![r] = "bound"]
  /\ UNCHANGED <<host, rec, request, intent, sent, signals, world>>

Serve(r) == /\ Goto(r, "created", "serving") /\ Usable(r) /\ host[r] = "alive"
            /\ UNCHANGED <<facts, request, world>>

WithoutService(r) ==
  /\ Goto(r, "starting", "waiting") \/ Goto(r, "created", "waiting")
  /\ UNCHANGED <<facts, request, world>>

-----------------------------------------------------------------------------
(* The service handles one request, once.                                  *)

(* A poll that meets a held inbox lock sees nothing; otherwise it takes    *)
(* the first request in the order of their (random) ids.                   *)
Poll(r) == /\ Goto(r, "serving", "checking")
           /\ \E b \in inbox[r] : request' = [request EXCEPT ![r] = b]
           /\ UNCHANGED <<host, endpoint, rec, intent, sent, signals, world>>

(* The handle still answers, the deadline is ahead, and the owner lock     *)
(* shows the fence of the reviewed batch, no close, and the unchanged      *)
(* record of a selected run.                                               *)
Approved(r, b) == /\ host[r] = "alive" /\ ~expired[b]
                  /\ InForce(b) /\ r \in selected[b] /\ rec[r] = "active"
Check(r, from, to) == /\ Goto(r, from, to) /\ Approved(r, request[r])
                      /\ UNCHANGED <<facts, request, world>>

(* The intent is written once per run, before its deadline.                *)
BeginFaulty(r) ==
  /\ \/ Goto(r, "approved", "begun") /\ UNCHANGED intent
     \/ GotoOrFail(r, "approved", "begun") /\ intent' = [intent EXCEPT ![r] = request[r]]
  /\ intent[r] = None /\ ~expired[request[r]]
  /\ UNCHANGED <<host, endpoint, rec, request, sent, signals, world>>
Begin(r) ==
  /\ GotoOrFail(r, "approved", "begun")
  /\ intent[r] = None /\ ~expired[request[r]]
  /\ intent' = [intent EXCEPT ![r] = request[r]]
  /\ UNCHANGED <<host, endpoint, rec, request, sent, signals, world>>

(* pidfd_send_signal; its return may be lost.                              *)
Send(r) == /\ GotoOrFail(r, "confirmed", "delivered")
           /\ signals' = [signals EXCEPT ![r] = @ + 1]
           /\ UNCHANGED <<host, endpoint, rec, request, intent, sent, world>>

(* What has been sent is recorded even after the deadline.                 *)
RecordSent(r) == /\ Goto(r, "delivered", "waiting")
                 /\ sent' = [sent EXCEPT ![r] = TRUE]
                 /\ UNCHANGED <<host, endpoint, rec, request, intent, signals, world>>

(* Any exception disables the service for good; the manager goes back to   *)
(* wait for its host.                                                      *)
Handling == {"checking", "approved", "begun", "confirmed", "delivered"}
AfterFailureFaulty(r) == IF signals[r] = 0 THEN "serving" ELSE "waiting"
AfterFailure(r) == "waiting"
Fail(r) == /\ mgr[r] \in {"serving"} \cup Handling
           /\ mgr' = [mgr EXCEPT ![r] = AfterFailure(r)]
           /\ UNCHANGED <<facts, request, world>>

-----------------------------------------------------------------------------
(* The end of the host, the manager and the record.                        *)

HostExits(r) == /\ host[r] = "alive"
                /\ host' = [host EXCEPT ![r] = "gone"]
                /\ UNCHANGED <<mgr, endpoint, rec, request, intent, sent, signals, world>>

ReapingFaulty(r) == mgr[r] = "serving"
Reaping(r) == mgr[r] \in {"serving", "waiting"}
Leave(r) == /\ Reaping(r) /\ host[r] = "gone"
            /\ mgr' = [mgr EXCEPT ![r] = "leaving"]
            /\ UNCHANGED <<facts, request, world>>

(* An interrupt ends the wait, or the handling of a request, anywhere.     *)
Interrupt(r) == /\ mgr[r] \notin {"leaving", "ended"}
                /\ mgr' = [mgr EXCEPT ![r] = "leaving"]
                /\ UNCHANGED <<facts, request, world>>

(* The record ends as idle_confirmed only if the observation found the     *)
(* tree gone, else as unknown, or stays as it was.                         *)
Settle(r) == /\ Goto(r, "leaving", "ended")
             /\ \E s \in {"idle_confirmed", "unknown", rec[r]} :
                  /\ s = "idle_confirmed" => host[r] = "gone"
                  /\ rec' = [rec EXCEPT ![r] = s]
             /\ UNCHANGED <<host, endpoint, request, intent, sent, signals, world>>

Crash(r) == /\ mgr[r] # "ended"
            /\ mgr' = [mgr EXCEPT ![r] = "ended"]
            /\ UNCHANGED <<facts, request, world>>

(* Reconciliation needs the instance exclusively.                          *)
Reconcile(r) == /\ \A q \in Runs : mgr[q] = "ended" /\ host[q] = "gone"
                /\ \A b \in Batches : client[b] # "posting"
                /\ rec' = [rec EXCEPT ![r] = "idle_confirmed"]
                /\ UNCHANGED <<mgr, host, endpoint, request, intent, sent, signals, world>>

-----------------------------------------------------------------------------
(* The client of a batch.                                                  *)

Selectable(r) == rec[r] = "active" /\ Usable(r) /\ Unposted(r)
Install(b) ==
  /\ client[b] = "idle" /\ selected[b] = None /\ fence = None
  /\ \E S \in SUBSET {r \in Runs : Selectable(r)} \ {{}} :
       selected' = [selected EXCEPT ![b] = S]
  /\ \/ client' = [client EXCEPT ![b] = "posting"] /\ fence' = b
     \/ UNCHANGED client /\ fence' \in {None, b}
  /\ UNCHANGED <<runVars, inbox, closed, expired>>

(* Under the owner lock: the batch is in force, the record is the reviewed *)
(* one, manager and host are there, and nobody has asked the run.          *)
Present(r) == mgr[r] # "ended" /\ (host[r] = "alive" \/ mgr[r] # "leaving")
MayPostFaulty(b, r) == rec[r] = "active" /\ r \in selected[b] /\ Present(r) /\ Unposted(r) /\ ~expired[b]
MayPost(b, r) == /\ InForce(b) /\ r \in selected[b] /\ rec[r] = "active"
                 /\ Present(r) /\ Unposted(r) /\ ~expired[b]
Post(b, r) == /\ client[b] = "posting" /\ MayPost(b, r)
              /\ inbox' = [inbox EXCEPT ![r] = @ \cup {b}]
              /\ client' \in {client, [client EXCEPT ![b] = "idle"]}
              /\ UNCHANGED <<runVars, selected, fence, closed, expired>>

AwaitExit(b) == /\ client[b] = "posting" /\ \A r \in selected[b] : b \in inbox[r]
                /\ client' = [client EXCEPT ![b] = "waiting"]
                /\ UNCHANGED <<runVars, inbox, selected, fence, closed, expired>>

Abandon(b) == /\ client[b] # "idle"
              /\ client' = [client EXCEPT ![b] = "idle"]
              /\ UNCHANGED <<runVars, inbox, selected, fence, closed, expired>>

Expire(b) == /\ selected[b] # None
             /\ expired' = [expired EXCEPT ![b] = TRUE]
             /\ UNCHANGED <<runVars, inbox, batchVars>>

(* close_stop, under the owner lock; the close record comes first and the  *)
(* removal of the fence may fail.                                          *)
ClosableFaulty(r, reason) == rec[r] = "idle_confirmed" \/ (reason = "cancelled" /\ rec[r] = "active")
ClosableJournalFaulty(r, reason) ==
  rec[r] = "idle_confirmed" \/ (reason = "cancelled" /\ rec[r] = "active" /\ intent[r] = None)
Closable(r, reason) ==
  rec[r] = "idle_confirmed" \/ (reason = "cancelled" /\ rec[r] = "active" /\ Unposted(r))
CloseStop(b, reason) ==
  /\ fence = b /\ closed[b] \in {None, reason}
  /\ \A r \in selected[b] : Closable(r, reason)
  /\ closed' = [closed EXCEPT ![b] = reason]
  /\ fence' \in {fence, None}
  /\ UNCHANGED <<runVars, inbox, selected, expired>>

ConfirmStop(b) == /\ client[b] = "waiting" /\ ~expired[b]
                  /\ \A r \in selected[b] : mgr[r] = "ended"
                  /\ CloseStop(b, "stopped")
                  /\ client' = [client EXCEPT ![b] = "idle"]

CancelStop(b) == /\ CloseStop(b, IF closed[b] = None THEN "cancelled" ELSE closed[b])
                 /\ UNCHANGED client

-----------------------------------------------------------------------------
ServiceStep(r) == \/ Check(r, "checking", "approved") \/ Begin(r)
                  \/ Check(r, "begun", "confirmed")
                  \/ Send(r) \/ RecordSent(r) \/ Fail(r)
RunStep(r) == \/ CreateEndpoint(r) \/ BindControl(r) \/ Serve(r) \/ WithoutService(r)
              \/ Poll(r) \/ ServiceStep(r) \/ Leave(r) \/ Settle(r)
              \/ HostExits(r) \/ Interrupt(r) \/ Crash(r) \/ Reconcile(r)
BatchStep(b) == \/ Install(b) \/ AwaitExit(b) \/ Abandon(b) \/ Expire(b)
                \/ ConfirmStop(b) \/ CancelStop(b)
                \/ \E r \in Runs : Post(b, r)

Next == \/ \E r \in Runs : RunStep(r)
        \/ \E b \in Batches : BatchStep(b)

Spec == Init /\ [][Next]_vars

(* A manager that is not stuck in its own start goes on: its loop returns  *)
(* to the service every tenth of a second and does not always find the     *)
(* inbox locked, the handling of a request waits for locks no longer than  *)
(* the deadline, and the wait returns once the host has exited.            *)
Handles(r) == mgr[r] \in Handling /\ ServiceStep(r)
FairManager(r) == WF_vars(Poll(r)) /\ WF_vars(Handles(r)) /\ WF_vars(Leave(r))
Fairness == \A r \in Runs : FairManager(r)
FairSpec == Spec /\ Fairness

-----------------------------------------------------------------------------
(* Properties.                                                             *)

TypeOK ==
  /\ mgr \in [Runs -> {"starting", "created", "serving", "waiting", "leaving", "ended"} \cup Handling]
  /\ host \in [Runs -> {"alive", "gone"}]
  /\ endpoint \in [Runs -> {"none", "created", "bound"}]
  /\ rec \in [Runs -> {"active", "unknown", "idle_confirmed"}]
  /\ request \in [Runs -> Batches \cup {None}]
  /\ inbox \in [Runs -> SUBSET Batches]
  /\ intent \in [Runs -> Batches \cup {None}]
  /\ sent \in [Runs -> BOOLEAN]
  /\ signals \in [Runs -> Nat]
  /\ client \in [Batches -> {"idle", "posting", "waiting"}]
  /\ selected \in [Batches -> {None} \cup SUBSET Runs]
  /\ fence \in Batches \cup {None}
  /\ closed \in [Batches -> {"stopped", "cancelled", None}]
  /\ expired \in [Batches -> BOOLEAN]

(* A host is signalled at most once, by a manager whose request's batch    *)
(* is in force at that moment, selected the run, and has the run active:   *)
(* no cancel slips between the last check and the signal, although the     *)
(* manager holds no lock when it signals.                                  *)
SignalInForce ==
  [][\A r \in Runs : signals'[r] # signals[r] =>
       /\ signals[r] = 0 /\ signals'[r] = 1
       /\ InForce(intent[r]) /\ r \in selected[intent[r]] /\ rec[r] = "active"]_vars

(* What status_stop prints of a dispatch is true whatever was lost: a run  *)
(* that was signalled is never "not_observed", one that is "signal_sent"   *)
(* was signalled, and a dispatch belongs to a posted request.              *)
DispatchTruthful ==
  \A r \in Runs : /\ signals[r] > 0 => intent[r] # None
                  /\ sent[r] => signals[r] > 0
                  /\ intent[r] # None => intent[r] \in inbox[r]

(* status_stop refuses a batch if a selected run holds requests of other   *)
(* batches.  While a batch protects its runs that cannot happen, so that   *)
(* its state can always be read and its close decided.                     *)
Readable(b) == \A r \in selected[b] : inbox[r] \subseteq {b}
ProtectedIsReadable == fence # None => Readable(fence)

(* Cancelling a batch ends its remaining actions only: a target that it    *)
(* has stopped stays on the list it saved, which resume reads through      *)
(* status_stop.                                                            *)
StoppedStayListed ==
  \A b \in Batches :
    closed[b] # None /\ (\E r \in Runs : b \in inbox[r] /\ rec[r] = "idle_confirmed")
      => Readable(b)

(* A request that reaches a serving manager is answered: the host is       *)
(* signalled, or the service is gone for good and says so by its silence;  *)
(* the manager does not try the request over and over.                     *)
Answered(r) == signals[r] > 0 \/ mgr[r] \in {"waiting", "leaving", "ended"}
AnswersRequest(r) == mgr[r] = "serving" /\ inbox[r] # {} ~> Answered(r)
AskedIsAnswered == \A r \in Runs : AnswersRequest(r)

(* The stop service never keeps the manager from noticing that its host    *)
(* exited, whatever became of the request.                                 *)
Unnoticed(r) == host[r] = "gone" /\ mgr[r] \in {"serving", "waiting"} \cup Handling
NoticesExit(r) == Unnoticed(r) ~> mgr[r] \in {"leaving", "ended"}
ExitIsNoticed == \A r \in Runs : NoticesExit(r)

(* A manager that has something to do is not kept from it: not by another  *)
(* manager, a client, a deadline or a write that fails.                    *)
UnblockedManager(r) ==
  /\ mgr[r] = "serving" /\ inbox[r] # {} => ENABLED <<Poll(r)>>_vars
  /\ mgr[r] \in Handling => ENABLED <<Handles(r)>>_vars
  /\ mgr[r] \in {"serving", "waiting"} /\ host[r] = "gone" => ENABLED <<Leave(r)>>_vars
Unblocked == \A r \in Runs : UnblockedManager(r)

(* Delivery implements a stop order in force at most once at a time, under *)
(* which each run is told to end at most once ever.                        *)
OrderNow == IF fence # None /\ InForce(fence) THEN fence ELSE None
OrdersIssued == {b \in Batches : selected[b] # None}
Asker(requests) == IF requests = {} THEN None ELSE CHOOSE b \in requests : TRUE
AskedUnder == [r \in Runs |-> Asker(inbox[r])]
RunsOver == {r \in Runs : rec[r] = "idle_confirmed"}
Order == INSTANCE StopOrder WITH
  Orders <- Batches, Nobody <- None, order <- OrderNow, issued <- OrdersIssued,
  asked <- AskedUnder, told <- signals, over <- RunsOver
ImplementsOrder == Order!OrderSpec
=============================================================================
