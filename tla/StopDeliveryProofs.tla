-------------------------- MODULE StopDeliveryProofs --------------------------
(***************************************************************************)
(* Proofs about StopDelivery for any number of runs and batches.  The      *)
(* inductive invariant IInv ties the manager's place in the handling of a  *)
(* request to its files, and keeps a batch in force while a run that it    *)
(* asked is about to be signalled.                                         *)
(***************************************************************************)
EXTENDS StopDelivery, TLAPS

(* A manager that has not ended has not settled its record.                *)
LiveInv == \A r \in Runs : mgr[r] # "ended" => rec[r] = "active"

(* Who asks a run has selected it.                                         *)
AskInv == \A r \in Runs : \A b \in inbox[r] : selected[b] # None /\ r \in selected[b]

(* The handled request comes from the inbox.  The journal is empty until   *)
(* the request is approved, then has the handled request, before the       *)
(* signal, which comes before the result.                                  *)
JournalInv ==
  \A r \in Runs :
    /\ mgr[r] \in Handling => request[r] \in inbox[r]
    /\ intent[r] # None => intent[r] \in inbox[r]
    /\ mgr[r] \in {"begun", "confirmed", "delivered"} => intent[r] = request[r]
    /\ mgr[r] \in {"starting", "created", "serving", "checking", "approved"} => intent[r] = None
    /\ signals[r] > 0 => intent[r] # None
    /\ mgr[r] \in {"begun", "confirmed"} => signals[r] = 0
    /\ mgr[r] = "delivered" => signals[r] > 0
    /\ sent[r] => signals[r] > 0

(* The batch behind the fence has a snapshot and asks its runs alone.      *)
FenceInv == fence # None => selected[fence] # None /\ Readable(fence)

(* No close comes between the second check and the signal.                 *)
ConfirmedInv == \A r \in Runs : mgr[r] = "confirmed" => InForce(request[r])

IInv == TypeOK /\ LiveInv /\ AskInv /\ JournalInv /\ FenceInv /\ ConfirmedInv

(* Nothing is asked, journalled or fenced in the beginning.                *)
LEMMA InitIInv == Init => IInv
  BY DeliveryAssumption DEF Init, IInv, TypeOK, LiveInv, AskInv, JournalInv, FenceInv, ConfirmedInv,
     Handling, Readable, InForce

(* Every step of a run keeps the types.                                    *)
LEMMA RunTypes == ASSUME TypeOK, NEW r \in Runs, RunStep(r) PROVE TypeOK'
  <1>1. CASE CreateEndpoint(r)
    BY <1>1 DEF TypeOK, Handling, CreateEndpoint, GotoOrFail, Goto, facts, world, batchVars
  <1>2. CASE BindControl(r)
    BY <1>2 DEF TypeOK, Handling, BindControl, GotoOrFail, Goto, facts, world, batchVars
  <1>3. CASE Serve(r)
    BY <1>3 DEF TypeOK, Handling, Serve, Goto, facts, world, batchVars
  <1>4. CASE WithoutService(r)
    BY <1>4 DEF TypeOK, Handling, WithoutService, Goto, facts, world, batchVars
  <1>5. CASE Poll(r)
    BY <1>5 DEF TypeOK, Handling, Poll, Goto, facts, world, batchVars
  <1>6. CASE Check(r, "checking", "approved")
    BY <1>6 DEF TypeOK, Handling, Check, Goto, facts, world, batchVars
  <1>7. CASE Check(r, "begun", "confirmed")
    BY <1>7 DEF TypeOK, Handling, Check, Goto, facts, world, batchVars
  <1>8. CASE Begin(r)
    BY <1>8 DEF TypeOK, Handling, Begin, GotoOrFail, Goto, facts, world, batchVars
  <1>9. CASE Send(r)
    BY <1>9 DEF TypeOK, Handling, Send, GotoOrFail, Goto, facts, world, batchVars
  <1>10. CASE RecordSent(r)
    BY <1>10 DEF TypeOK, Handling, RecordSent, Goto, facts, world, batchVars
  <1>11. CASE Fail(r)
    BY <1>11 DEF TypeOK, Handling, Fail, AfterFailure, facts, world, batchVars
  <1>12. CASE Leave(r)
    BY <1>12 DEF TypeOK, Handling, Leave, Reaping, facts, world, batchVars
  <1>13. CASE Settle(r)
    BY <1>13 DEF TypeOK, Handling, Settle, Goto, facts, world, batchVars
  <1>14. CASE HostExits(r)
    BY <1>14 DEF TypeOK, Handling, HostExits, facts, world, batchVars
  <1>15. CASE Interrupt(r)
    BY <1>15 DEF TypeOK, Handling, Interrupt, facts, world, batchVars
  <1>16. CASE Crash(r)
    BY <1>16 DEF TypeOK, Handling, Crash, facts, world, batchVars
  <1>17. CASE Reconcile(r)
    BY <1>17 DEF TypeOK, Handling, Reconcile, facts, world, batchVars
  <1> QED BY <1>1, <1>2, <1>3, <1>4, <1>5, <1>6, <1>7, <1>8, <1>9, <1>10, <1>11, <1>12, <1>13, <1>14, <1>15, <1>16, <1>17 DEF RunStep, ServiceStep

(* Every step of a batch keeps the types.                                  *)
LEMMA BatchTypes == ASSUME TypeOK, NEW b \in Batches, BatchStep(b) PROVE TypeOK'
  <1>1. CASE Install(b)
    BY <1>1 DEF TypeOK, Install, runVars
  <1>2. CASE AwaitExit(b)
    BY <1>2 DEF TypeOK, AwaitExit, runVars
  <1>3. CASE Abandon(b)
    BY <1>3 DEF TypeOK, Abandon, runVars
  <1>4. CASE Expire(b)
    BY <1>4 DEF TypeOK, Expire, runVars, batchVars
  <1>5. CASE ConfirmStop(b) \/ CancelStop(b)
    BY <1>5 DEF TypeOK, ConfirmStop, CancelStop, CloseStop, runVars
  <1>6. CASE \E r \in Runs : Post(b, r)
    BY <1>6 DEF TypeOK, Post, runVars
  <1> QED BY <1>1, <1>2, <1>3, <1>4, <1>5, <1>6 DEF BatchStep

(* Every step keeps the types.                                             *)
LEMMA TypeStep == IInv /\ [Next]_vars => TypeOK'
  <1>1. ASSUME TypeOK, UNCHANGED vars PROVE TypeOK'
    BY <1>1 DEF TypeOK, vars, batchVars
  <1> QED BY <1>1, RunTypes, BatchTypes DEF IInv, Next

(* What a batch leaves alone: managers, hosts, records and journals.       *)
LEMMA BatchEffect ==
  ASSUME NEW b \in Batches, BatchStep(b)
  PROVE  UNCHANGED runVars
  BY DEF BatchStep, Install, Post, AwaitExit, Abandon, Expire, ConfirmStop, CancelStop, CloseStop

(* What a run leaves alone: inboxes, fences and snapshots.                 *)
LEMMA RunEffect ==
  ASSUME NEW r \in Runs, RunStep(r)
  PROVE  UNCHANGED <<inbox, client, selected, fence, closed>>
  BY DEF RunStep, ServiceStep, CreateEndpoint, BindControl, Serve, WithoutService, Poll, Check,
     Begin, Send, RecordSent, Fail, Leave, Settle, HostExits, Interrupt, Crash, Reconcile,
     world, batchVars

(* A record is settled by its leaving manager, or reconciled when every    *)
(* manager has ended; nobody starts a manager again.                       *)
LEMMA LiveStep == IInv /\ [Next]_vars => LiveInv'
  <1> SUFFICES ASSUME IInv, [Next]_vars PROVE LiveInv'
    OBVIOUS
  <1> USE DEF IInv, TypeOK, LiveInv
  <1>1. ASSUME NEW r \in Runs, Settle(r) PROVE LiveInv'
    BY <1>1 DEF Settle, Goto
  <1>2. ASSUME NEW r \in Runs, Reconcile(r) PROVE LiveInv'
    BY <1>2 DEF Reconcile
  <1>3. ASSUME NEW r \in Runs, RunStep(r), ~Settle(r), ~Reconcile(r) PROVE LiveInv'
    <2>1. UNCHANGED rec /\ \A q \in Runs : mgr[q] = "ended" => mgr'[q] = "ended"
      BY <1>3 DEF RunStep, ServiceStep, CreateEndpoint, BindControl, Serve, WithoutService, Poll,
         Check, Begin, Send, RecordSent, Fail, Leave, HostExits, Interrupt, Crash, Goto,
         GotoOrFail, AfterFailure, Handling, Reaping, facts
    <2> QED BY <2>1
  <1>4. ASSUME NEW b \in Batches, BatchStep(b) PROVE LiveInv'
    BY <1>4, BatchEffect DEF runVars
  <1>5. CASE UNCHANGED vars
    BY <1>5 DEF vars
  <1> QED BY <1>1, <1>2, <1>3, <1>4, <1>5 DEF Next

(* A request is posted only under the fence of a batch that selected the   *)
(* run, and no snapshot is written over a selected batch.                  *)
LEMMA AskStep == IInv /\ [Next]_vars => AskInv'
  <1> SUFFICES ASSUME IInv, [Next]_vars PROVE AskInv'
    OBVIOUS
  <1> USE DEF IInv, TypeOK, AskInv
  <1>1. ASSUME NEW r \in Runs, RunStep(r) PROVE AskInv'
    BY <1>1, RunEffect
  <1>2. ASSUME NEW b \in Batches, NEW r \in Runs, Post(b, r) PROVE AskInv'
    BY <1>2, DeliveryAssumption DEF Post, MayPost, InForce, FenceInv
  <1>3. ASSUME NEW b \in Batches, Install(b) PROVE AskInv'
    BY <1>3 DEF Install
  <1>4. ASSUME NEW b \in Batches,
               AwaitExit(b) \/ Abandon(b) \/ Expire(b) \/ ConfirmStop(b) \/ CancelStop(b)
        PROVE  AskInv'
    BY <1>4 DEF AwaitExit, Abandon, Expire, ConfirmStop, CancelStop, CloseStop, batchVars
  <1>5. CASE UNCHANGED vars
    BY <1>5 DEF vars, batchVars
  <1> QED BY <1>1, <1>2, <1>3, <1>4, <1>5 DEF Next, BatchStep

(* The journal of a run follows its manager.                               *)
LEMMA JournalStep == IInv /\ [Next]_vars => JournalInv'
  <1> SUFFICES ASSUME IInv, [Next]_vars PROVE JournalInv'
    OBVIOUS
  <1> USE DEF IInv, TypeOK, JournalInv, Handling
  <1>1. ASSUME NEW r \in Runs, Poll(r) PROVE JournalInv'
    BY <1>1 DEF Poll, Goto, world
  <1>2. ASSUME NEW r \in Runs, NEW from, NEW to, Check(r, from, to),
               <<from, to>> \in {<<"checking", "approved">>, <<"begun", "confirmed">>}
        PROVE  JournalInv'
    BY <1>2 DEF Check, Goto, facts, world
  <1>3. ASSUME NEW r \in Runs, Begin(r) PROVE JournalInv'
    BY <1>3, DeliveryAssumption DEF Begin, Goto, GotoOrFail, world
  <1>4. ASSUME NEW r \in Runs, Send(r) PROVE JournalInv'
    BY <1>4, DeliveryAssumption DEF Send, Goto, GotoOrFail, world
  <1>5. ASSUME NEW r \in Runs, RecordSent(r) PROVE JournalInv'
    BY <1>5 DEF RecordSent, Goto, world
  <1>6. ASSUME NEW r \in Runs, Fail(r) \/ Leave(r) \/ Interrupt(r) \/ Crash(r) PROVE JournalInv'
    BY <1>6 DEF Fail, AfterFailure, Leave, Interrupt, Crash, facts, world
  <1>7. ASSUME NEW r \in Runs,
               CreateEndpoint(r) \/ BindControl(r) \/ Serve(r) \/ WithoutService(r)
        PROVE  JournalInv'
    BY <1>7 DEF CreateEndpoint, BindControl, Serve, WithoutService, GotoOrFail, Goto, facts, world
  <1>8. ASSUME NEW r \in Runs, Settle(r) \/ HostExits(r) \/ Reconcile(r) PROVE JournalInv'
    BY <1>8 DEF Settle, HostExits, Reconcile, Goto, world
  <1>9. ASSUME NEW b \in Batches, BatchStep(b) PROVE JournalInv'
    <2>1. UNCHANGED <<mgr, request, intent, sent, signals>>
      BY <1>9, BatchEffect DEF runVars
    <2>2. \A r \in Runs : inbox[r] \subseteq inbox'[r]
      BY <1>9 DEF BatchStep, Install, Post, AwaitExit, Abandon, Expire, ConfirmStop, CancelStop,
         CloseStop
    <2> QED BY <2>1, <2>2
  <1>10. CASE UNCHANGED vars
    BY <1>10 DEF vars
  <1> QED BY <1>1, <1>2, <1>3, <1>4, <1>5, <1>6, <1>7, <1>8, <1>9, <1>10
      DEF Next, RunStep, ServiceStep

(* A batch closes only if each selected run is over or was never asked.    *)
LEMMA CloseEffect ==
  ASSUME NEW b \in Batches, ConfirmStop(b) \/ CancelStop(b)
  PROVE  /\ fence = b /\ fence' \in {fence, None}
         /\ \A r \in selected[b] : rec[r] = "idle_confirmed" \/ inbox[r] = {}
         /\ \E reason \in {"stopped", "cancelled"} \cup {closed[b]} :
              /\ reason # None
              /\ closed' = [closed EXCEPT ![b] = reason]
         /\ UNCHANGED <<inbox, selected, runVars>>
  BY DeliveryAssumption DEF ConfirmStop, CancelStop, CloseStop, Closable, Unposted

(* While a fence stands, only its batch asks, and only runs of its own.    *)
LEMMA FenceStep == IInv /\ [Next]_vars => FenceInv'
  <1> SUFFICES ASSUME IInv, [Next]_vars PROVE FenceInv'
    OBVIOUS
  <1> USE DEF IInv, TypeOK, FenceInv, Readable
  <1>1. ASSUME NEW r \in Runs, RunStep(r) PROVE FenceInv'
    BY <1>1, RunEffect
  <1>2. ASSUME NEW b \in Batches, NEW r \in Runs, Post(b, r) PROVE FenceInv'
    BY <1>2 DEF Post, MayPost, InForce
  <1>3. ASSUME NEW b \in Batches, Install(b) PROVE FenceInv'
    BY <1>3, DeliveryAssumption DEF Install, Selectable, Unposted
  <1>4. ASSUME NEW b \in Batches, ConfirmStop(b) \/ CancelStop(b) PROVE FenceInv'
    BY <1>4, CloseEffect
  <1>5. ASSUME NEW b \in Batches, AwaitExit(b) \/ Abandon(b) \/ Expire(b) PROVE FenceInv'
    BY <1>5 DEF AwaitExit, Abandon, Expire, batchVars
  <1>6. CASE UNCHANGED vars
    BY <1>6 DEF vars, batchVars
  <1> QED BY <1>1, <1>2, <1>3, <1>4, <1>5, <1>6 DEF Next, BatchStep

(* A confirmed run is selected, asked and active: its batch cannot close.  *)
LEMMA ConfirmedHolds ==
  ASSUME IInv, NEW r \in Runs, mgr[r] = "confirmed"
  PROVE  /\ InForce(request[r]) /\ request[r] \in inbox[r] /\ intent[r] = request[r]
         /\ request[r] \in Batches /\ r \in selected[request[r]] /\ rec[r] = "active"
         /\ signals[r] = 0
  BY DEF IInv, TypeOK, LiveInv, AskInv, JournalInv, ConfirmedInv, Handling

(* The second check saw the batch in force, and it stays so.               *)
LEMMA ConfirmedStep == IInv /\ [Next]_vars => ConfirmedInv'
  <1> SUFFICES ASSUME IInv, [Next]_vars, NEW q \in Runs, mgr'[q] = "confirmed"
               PROVE  InForce(request[q])'
    BY DEF ConfirmedInv
  <1>1. ASSUME NEW r \in Runs, Check(r, "begun", "confirmed") PROVE InForce(request[q])'
    BY <1>1 DEF Check, Goto, Approved, IInv, TypeOK, ConfirmedInv, InForce, facts, world, batchVars
  <1>2. ASSUME NEW r \in Runs, RunStep(r), ~Check(r, "begun", "confirmed")
        PROVE  InForce(request[q])'
    <2>1. UNCHANGED <<fence, closed>>
      BY <1>2, RunEffect
    <2>2. mgr[q] = "confirmed" /\ request'[q] = request[q]
      BY <1>2 DEF RunStep, ServiceStep, CreateEndpoint, BindControl, Serve, WithoutService, Poll,
         Check, Begin, Send, RecordSent, Fail, Leave, Settle, HostExits, Interrupt, Crash,
         Reconcile, Goto, GotoOrFail, AfterFailure, Handling, Reaping, facts, IInv, TypeOK
    <2> QED BY <2>1, <2>2, ConfirmedHolds DEF InForce
  <1>3. ASSUME NEW b \in Batches, BatchStep(b) PROVE InForce(request[q])'
    <2>1. mgr[q] = "confirmed" /\ request'[q] = request[q]
      BY <1>3, BatchEffect DEF runVars
    <2>2. CASE Install(b)
      BY <2>1, <2>2, ConfirmedHolds, DeliveryAssumption DEF Install, InForce
    <2>3. CASE ConfirmStop(b) \/ CancelStop(b)
      BY <2>1, <2>3, ConfirmedHolds, CloseEffect DEF InForce
    <2>4. CASE ~Install(b) /\ ~ConfirmStop(b) /\ ~CancelStop(b)
      <3>1. UNCHANGED <<fence, closed>>
        BY <1>3, <2>4 DEF BatchStep, AwaitExit, Abandon, Expire, Post, batchVars
      <3> QED BY <2>1, <3>1, ConfirmedHolds DEF InForce
    <2> QED BY <2>2, <2>3, <2>4
  <1>4. CASE UNCHANGED vars
    BY <1>4, ConfirmedHolds DEF vars, InForce, batchVars
  <1> QED BY <1>1, <1>2, <1>3, <1>4 DEF Next

(* IInv holds in every reachable state, whatever the runs and batches.     *)
THEOREM InductiveInvariant == Spec => []IInv
  <1>1. IInv /\ [Next]_vars => IInv'
    BY TypeStep, LiveStep, AskStep, JournalStep, FenceStep, ConfirmedStep DEF IInv
  <1> QED BY <1>1, InitIInv, PTL DEF Spec

(* Every variable keeps its type.                                          *)
THEOREM TypeCorrect == Spec => []TypeOK
  BY InductiveInvariant, PTL DEF IInv

(* What status prints of a dispatch is true.                               *)
THEOREM Truthful == Spec => []DispatchTruthful
  <1>1. IInv => DispatchTruthful
    BY DEF IInv, JournalInv, DispatchTruthful
  <1> QED BY <1>1, InductiveInvariant, PTL

(* The batch behind the fence can always be read.                          *)
THEOREM AlwaysReadable == Spec => []ProtectedIsReadable
  <1>1. IInv => ProtectedIsReadable
    BY DEF IInv, FenceInv, ProtectedIsReadable
  <1> QED BY <1>1, InductiveInvariant, PTL

(* Only a confirmed manager signals, and its run was never signalled.      *)
LEMMA SignalEffect ==
  ASSUME IInv, [Next]_vars, NEW r \in Runs, signals'[r] # signals[r]
  PROVE  Send(r)
  <1>1. ASSUME NEW q \in Runs, RunStep(q), ~Send(q) PROVE UNCHANGED signals
    BY <1>1 DEF RunStep, ServiceStep, CreateEndpoint, BindControl, Serve, WithoutService, Poll,
       Check, Begin, RecordSent, Fail, Leave, Settle, HostExits, Interrupt, Crash, Reconcile, facts
  <1>2. ASSUME NEW q \in Runs, Send(q), q # r PROVE signals'[r] = signals[r]
    BY <1>2 DEF Send, IInv, TypeOK
  <1>3. ASSUME NEW b \in Batches, BatchStep(b) PROVE UNCHANGED signals
    BY <1>3, BatchEffect DEF runVars
  <1> QED BY <1>1, <1>2, <1>3 DEF Next, vars

(* A host is signalled at most once, under a batch in force that selected  *)
(* the run, although the manager holds no lock when it signals.            *)
THEOREM SignalledInForce == Spec => SignalInForce
  <1>1. ASSUME IInv, [Next]_vars, NEW r \in Runs, signals'[r] # signals[r]
        PROVE  /\ signals[r] = 0 /\ signals'[r] = 1
               /\ InForce(intent[r]) /\ r \in selected[intent[r]] /\ rec[r] = "active"
    <2>1. Send(r)
      BY <1>1, SignalEffect
    <2>2. mgr[r] = "confirmed"
      BY <2>1 DEF Send, GotoOrFail, Goto
    <2>3. signals'[r] = signals[r] + 1
      BY <1>1, <2>1 DEF Send, IInv, TypeOK
    <2> QED BY <1>1, <2>2, <2>3, ConfirmedHolds
  <1>2. IInv /\ [Next]_vars => [\A r \in Runs : signals'[r] # signals[r] =>
          /\ signals[r] = 0 /\ signals'[r] = 1
          /\ InForce(intent[r]) /\ r \in selected[intent[r]] /\ rec[r] = "active"]_vars
    BY <1>1
  <1> QED BY <1>2, InductiveInvariant, PTL DEF Spec, SignalInForce

-----------------------------------------------------------------------------
(* Refinement of the stop order.                                           *)

OrderState == <<OrderNow, OrdersIssued, AskedUnder, signals, RunsOver>>

(* The order's variables are these functions of the delivery's.            *)
LEMMA OrderStutter ==
  ASSUME UNCHANGED OrderState
  PROVE  [Order!OrderNext]_Order!stopVars
  BY DEF Order!stopVars, OrderState

(* Each function reads its own files only.                                 *)
LEMMA OrderKept ==
  /\ UNCHANGED <<fence, closed>> => UNCHANGED OrderNow
  /\ UNCHANGED selected => UNCHANGED OrdersIssued
  /\ UNCHANGED inbox => UNCHANGED AskedUnder
  /\ UNCHANGED rec => UNCHANGED RunsOver
  BY DEF OrderNow, InForce, OrdersIssued, AskedUnder, RunsOver

(* The order in force is the batch in force.                               *)
LEMMA InForceIsOrder ==
  ASSUME NEW b \in Batches, InForce(b)
  PROVE  OrderNow = b /\ b # None
  BY DeliveryAssumption DEF OrderNow, InForce

(* A run with one request was asked under it, a run with none by nobody.   *)
LEMMA AskedAlone ==
  /\ Asker({}) = None
  /\ \A b : Asker({b}) = b
  /\ \A S : Asker(S) = None \/ Asker(S) \in S
  BY DEF Asker

(* A snapshot issues an order, also if its fence was not written.          *)
LEMMA InstallIssues ==
  ASSUME IInv, NEW b \in Batches, Install(b)
  PROVE  [Order!OrderNext]_Order!stopVars
  <1>1. UNCHANGED <<inbox, signals, rec, closed>> /\ fence = None /\ fence' \in {None, b}
    BY DEF Install, runVars
  <1>2. OrderNow = None /\ OrderNow' \in {None, b}
    BY <1>1 DEF OrderNow
  <1>3. b \notin OrdersIssued /\ OrdersIssued' = OrdersIssued \cup {b}
    BY DeliveryAssumption DEF Install, OrdersIssued, IInv, TypeOK
  <1>4. Order!Issue(b)
    BY <1>1, <1>2, <1>3, OrderKept DEF Order!Issue
  <1> QED BY <1>4 DEF Order!OrderNext

(* Posting asks a run under the batch in force.                            *)
LEMMA PostAsks ==
  ASSUME IInv, NEW b \in Batches, NEW r \in Runs, Post(b, r)
  PROVE  [Order!OrderNext]_Order!stopVars
  <1>1. InForce(b) /\ inbox[r] = {} /\ rec[r] = "active"
    BY DEF Post, MayPost, Unposted
  <1>2. inbox' = [inbox EXCEPT ![r] = {b}] /\ UNCHANGED <<fence, closed, selected, signals, rec>>
    BY <1>1 DEF Post, runVars, IInv, TypeOK
  <1>3. AskedUnder[r] = None /\ r \notin RunsOver
    BY <1>1, AskedAlone DEF AskedUnder, RunsOver
  <1>4. AskedUnder' = [AskedUnder EXCEPT ![r] = b]
    BY <1>2, AskedAlone DEF AskedUnder, IInv, TypeOK
  <1>5. Order!Ask(r)
    BY <1>1, <1>2, <1>3, <1>4, InForceIsOrder, OrderKept DEF Order!Ask
  <1> QED BY <1>5 DEF Order!OrderNext

(* The signal tells a run to end, under the order that asked it.           *)
LEMMA SendTells ==
  ASSUME IInv, NEW r \in Runs, Send(r)
  PROVE  [Order!OrderNext]_Order!stopVars
  <1>1. mgr[r] = "confirmed" /\ UNCHANGED <<rec, inbox, selected, fence, closed>>
    BY DEF Send, GotoOrFail, Goto, world, batchVars
  <1>2. /\ InForce(request[r]) /\ request[r] \in Batches /\ request[r] \in inbox[r]
        /\ r \in selected[request[r]] /\ signals[r] = 0
    BY <1>1, ConfirmedHolds
  <1>3. inbox[r] = {request[r]}
    BY <1>2, InForceIsOrder DEF IInv, FenceInv, Readable, InForce
  <1>4. AskedUnder[r] = OrderNow /\ OrderNow # None
    BY <1>2, <1>3, AskedAlone, InForceIsOrder DEF AskedUnder
  <1>5. signals' = [signals EXCEPT ![r] = 1]
    BY <1>2 DEF Send, IInv, TypeOK
  <1>6. Order!Tell(r)
    BY <1>1, <1>2, <1>4, <1>5, OrderKept DEF Order!Tell
  <1> QED BY <1>6 DEF Order!OrderNext

(* Settling and reconciling end a run or change nothing abstract: a record *)
(* is idle only when its manager has ended.                                *)
LEMMA SettleEnds ==
  ASSUME IInv, NEW r \in Runs, Settle(r) \/ Reconcile(r)
  PROVE  [Order!OrderNext]_Order!stopVars
  <1>1. UNCHANGED <<inbox, selected, fence, closed, signals>>
    BY DEF Settle, Reconcile, world, batchVars
  <1>2. PICK s \in {"idle_confirmed", "unknown", "active"} :
          /\ rec' = [rec EXCEPT ![r] = s]
          /\ rec[r] = "idle_confirmed" => s = "idle_confirmed"
    BY DEF Settle, Reconcile, Goto, IInv, LiveInv, TypeOK
  <1>3. CASE s = "idle_confirmed"
    <2>1. RunsOver' = RunsOver \cup {r}
      BY <1>2, <1>3 DEF RunsOver, IInv, TypeOK
    <2>2. Order!End(r)
      BY <1>1, <2>1, OrderKept DEF Order!End
    <2> QED BY <2>2 DEF Order!OrderNext
  <1>4. CASE s # "idle_confirmed"
    <2>1. RunsOver' = RunsOver
      BY <1>2, <1>4 DEF RunsOver, IInv, TypeOK
    <2> QED BY <1>1, <2>1, OrderKept, OrderStutter DEF OrderState
  <1> QED BY <1>3, <1>4

(* The first close of a batch lifts its order, a later one changes nothing.*)
LEMMA CloseLifts ==
  ASSUME IInv, NEW b \in Batches, ConfirmStop(b) \/ CancelStop(b)
  PROVE  [Order!OrderNext]_Order!stopVars
  <1>1. UNCHANGED <<inbox, selected, signals, rec>>
    BY CloseEffect DEF runVars
  <1>2. OrderNow' = None
    BY CloseEffect, DeliveryAssumption DEF OrderNow, InForce, IInv, TypeOK
  <1>3. CASE OrderNow = None
    BY <1>1, <1>2, <1>3, OrderKept, OrderStutter DEF OrderState
  <1>4. CASE OrderNow # None
    <2>1. OrderNow = b
      BY <1>4, CloseEffect DEF OrderNow
    <2>2. ASSUME NEW r \in Runs, AskedUnder[r] = b PROVE r \in RunsOver
      <3>1. b \in inbox[r]
        BY <2>2, AskedAlone, DeliveryAssumption DEF AskedUnder
      <3> QED BY <3>1, CloseEffect DEF RunsOver, IInv, AskInv
    <2>3. Order!Lift
      BY <1>1, <1>2, <1>4, <2>1, <2>2, OrderKept DEF Order!Lift
    <2> QED BY <2>3 DEF Order!OrderNext
  <1> QED BY <1>3, <1>4

(* Delivery implements the stop order, for any runs and batches.           *)
THEOREM Refinement == Spec => ImplementsOrder
  <1>1. Init => Order!OrderInit
    BY DeliveryAssumption DEF Init, Order!OrderInit, OrderNow, OrdersIssued, AskedUnder, Asker, RunsOver
  <1>2. IInv /\ [Next]_vars => [Order!OrderNext]_Order!stopVars
    <2> SUFFICES ASSUME IInv, [Next]_vars PROVE [Order!OrderNext]_Order!stopVars
      OBVIOUS
    <2>1. ASSUME NEW r \in Runs, RunStep(r), ~Send(r), ~Settle(r), ~Reconcile(r)
          PROVE  [Order!OrderNext]_Order!stopVars
      <3>1. UNCHANGED <<signals, rec>>
        BY <2>1 DEF RunStep, ServiceStep, CreateEndpoint, BindControl, Serve, WithoutService, Poll,
           Check, Begin, RecordSent, Fail, Leave, HostExits, Interrupt, Crash, facts
      <3> QED BY <2>1, <3>1, RunEffect, OrderKept, OrderStutter DEF OrderState
    <2>2. ASSUME NEW b \in Batches, AwaitExit(b) \/ Abandon(b) \/ Expire(b)
          PROVE  [Order!OrderNext]_Order!stopVars
      <3>1. UNCHANGED <<inbox, selected, fence, closed, signals, rec>>
        BY <2>2 DEF AwaitExit, Abandon, Expire, runVars, batchVars
      <3> QED BY <3>1, OrderKept, OrderStutter DEF OrderState
    <2>3. CASE UNCHANGED vars
      <3>1. UNCHANGED <<inbox, selected, fence, closed, signals, rec>>
        BY <2>3 DEF vars, batchVars
      <3> QED BY <3>1, OrderKept, OrderStutter DEF OrderState
    <2> QED BY <2>1, <2>2, <2>3, InstallIssues, PostAsks, SendTells, SettleEnds, CloseLifts
        DEF Next, BatchStep
  <1> QED BY InductiveInvariant, <1>1, <1>2, PTL DEF Spec, ImplementsOrder, Order!OrderSpec

-----------------------------------------------------------------------------
(* Liveness.  The prover takes ENABLED as a predicate that it knows        *)
(* nothing of: that the steps whose fairness is assumed can be taken is    *)
(* the premise Unblocked, and what they achieve is proved.                 *)

(* Where a manager that no longer serves may be, for good.                 *)
Done == {"waiting", "leaving", "ended"}

(* How a step of anyone moves a manager: it serves, handles one request in *)
(* the order of the checks, and never serves again.                        *)
LEMMA ManagerMoves ==
  ASSUME TypeOK, [Next]_vars, NEW r \in Runs
  PROVE  \/ mgr'[r] = mgr[r]
         \/ mgr[r] \in {"starting", "created"}
         \/ mgr'[r] \in {"leaving", "ended"}
         \/ mgr'[r] = "waiting" /\ mgr[r] \in {"serving"} \cup Handling
         \/ mgr[r] = "serving" /\ mgr'[r] = "checking"
         \/ mgr[r] = "checking" /\ mgr'[r] = "approved"
         \/ mgr[r] = "approved" /\ mgr'[r] = "begun"
         \/ mgr[r] = "begun" /\ mgr'[r] = "confirmed"
         \/ mgr[r] = "confirmed" /\ mgr'[r] = "delivered"
  <1> USE DEF TypeOK, Goto, GotoOrFail
  <1> DEFINE Same == mgr'[r] = mgr[r]
  <1>1. ASSUME NEW q \in Runs, q # r, RunStep(q) PROVE Same
    <2>1. CASE \/ CreateEndpoint(q) \/ BindControl(q) \/ Serve(q) \/ WithoutService(q)
               \/ Poll(q) \/ Leave(q) \/ Settle(q)
      BY <1>1, <2>1 DEF CreateEndpoint, BindControl, Serve, WithoutService, Poll, Leave, Settle
    <2>2. CASE HostExits(q) \/ Interrupt(q) \/ Crash(q) \/ Reconcile(q)
      BY <1>1, <2>2 DEF HostExits, Interrupt, Crash, Reconcile
    <2>3. CASE ServiceStep(q)
      BY <1>1, <2>3 DEF ServiceStep, Check, Begin, Send, RecordSent, Fail
    <2> QED BY <1>1, <2>1, <2>2, <2>3 DEF RunStep
  <1>2. CASE \/ CreateEndpoint(r) \/ BindControl(r) \/ Serve(r) \/ WithoutService(r)
             \/ Poll(r) \/ Leave(r) \/ Settle(r)
    BY <1>2 DEF CreateEndpoint, BindControl, Serve, WithoutService, Poll, Leave, Settle
  <1>3. CASE HostExits(r) \/ Interrupt(r) \/ Crash(r) \/ Reconcile(r)
    BY <1>3 DEF HostExits, Interrupt, Crash, Reconcile
  <1>4. CASE ServiceStep(r)
    BY <1>4 DEF ServiceStep, Check, Begin, Send, RecordSent, Fail, AfterFailure, Handling
  <1>5. ASSUME NEW b \in Batches, BatchStep(b) PROVE Same
    BY <1>5, BatchEffect DEF runVars
  <1>6. CASE UNCHANGED vars
    BY <1>6 DEF vars
  <1> QED BY <1>1, <1>2, <1>3, <1>4, <1>5, <1>6 DEF Next, RunStep

(* A host that exited does not come back, and requests are not removed.    *)
LEMMA FactsStay ==
  ASSUME TypeOK, [Next]_vars, NEW r \in Runs
  PROVE  /\ host[r] = "gone" => host'[r] = "gone"
         /\ inbox[r] # {} => inbox'[r] # {}
  <1>1. ASSUME NEW q \in Runs, RunStep(q) PROVE host[r] = "gone" => host'[r] = "gone"
    BY <1>1 DEF TypeOK, RunStep, ServiceStep, CreateEndpoint, BindControl, Serve, WithoutService, Poll,
       Check, Begin, Send, RecordSent, Fail, Leave, Settle, HostExits, Interrupt, Crash, Reconcile, facts
  <1>2. ASSUME NEW b \in Batches, BatchStep(b) PROVE inbox[r] # {} => inbox'[r] # {}
    BY <1>2 DEF TypeOK, BatchStep, Install, Post, AwaitExit, Abandon, Expire, ConfirmStop, CancelStop,
       CloseStop, batchVars
  <1> QED BY <1>1, <1>2, RunEffect, BatchEffect DEF Next, vars, runVars

(* What the fair steps achieve.                                            *)
LEMMA FairProgress ==
  ASSUME TypeOK, NEW r \in Runs
  PROVE  /\ Poll(r) => mgr'[r] = "checking"
         /\ Handles(r) => \/ mgr'[r] = "waiting"
                          \/ mgr[r] = "checking" /\ mgr'[r] = "approved"
                          \/ mgr[r] = "approved" /\ mgr'[r] = "begun"
                          \/ mgr[r] = "begun" /\ mgr'[r] = "confirmed"
                          \/ mgr[r] = "confirmed" /\ mgr'[r] = "delivered"
         /\ Leave(r) => mgr'[r] = "leaving"
  BY DEF TypeOK, Poll, Leave, Handles, ServiceStep, Check, Begin, Send, RecordSent, Fail,
     AfterFailure, Goto, GotoOrFail

(* A manager that handles a request is done with it in the end: five steps *)
(* at most, each of which the fairness of its own handling brings about.   *)
LEMMA HandlingEnds ==
  ASSUME NEW r \in Runs
  PROVE  Spec /\ FairManager(r) /\ []UnblockedManager(r) => (mgr[r] \in Handling ~> mgr[r] \in Done)
  <1> DEFINE At(where) == mgr[r] = where
             Ends == mgr[r] \in Done
             Handled == mgr[r] \in Handling
  <1>1. TypeOK /\ [Next]_vars =>
          /\ At("checking") => At("checking")' \/ At("approved")' \/ Ends'
          /\ At("approved") => At("approved")' \/ At("begun")' \/ Ends'
          /\ At("begun") => At("begun")' \/ At("confirmed")' \/ Ends'
          /\ At("confirmed") => At("confirmed")' \/ At("delivered")' \/ Ends'
          /\ At("delivered") => At("delivered")' \/ Ends'
    BY ManagerMoves DEF Done
  <1>2. TypeOK /\ <<Handles(r)>>_vars =>
          /\ At("checking") => At("approved")' \/ Ends'
          /\ At("approved") => At("begun")' \/ Ends'
          /\ At("begun") => At("confirmed")' \/ Ends'
          /\ At("confirmed") => At("delivered")' \/ Ends'
          /\ At("delivered") => Ends'
    BY FairProgress DEF Done
  <1>3. UnblockedManager(r) => (Handled => ENABLED <<Handles(r)>>_vars)
    BY DEF UnblockedManager
  <1>4. Handled <=> At("checking") \/ At("approved") \/ At("begun") \/ At("confirmed") \/ At("delivered")
    BY DEF Handling
  <1> HIDE DEF At, Ends, Handled
  <1>5. Spec /\ FairManager(r) /\ []UnblockedManager(r) => (Handled ~> Ends)
    BY <1>1, <1>2, <1>3, <1>4, TypeCorrect, PTL DEF Spec, FairManager
  <1> QED BY <1>5 DEF Handled, Ends

(* A request that reaches a serving manager is answered: by a signal, or   *)
(* by a service that is gone for good.                                     *)
LEMMA OneAnswers ==
  ASSUME NEW r \in Runs
  PROVE  Spec /\ FairManager(r) /\ []UnblockedManager(r) => AnswersRequest(r)
  <1> DEFINE Asked == mgr[r] = "serving" /\ inbox[r] # {}
             Handled == mgr[r] \in Handling
             Ends == mgr[r] \in Done
             Answer == Answered(r)
  <1>1. TypeOK /\ [Next]_vars => (Asked => Asked' \/ Handled' \/ Ends')
    BY ManagerMoves, FactsStay DEF Done, Handling
  <1>2. TypeOK /\ <<Poll(r)>>_vars => Handled'
    BY FairProgress DEF Handling
  <1>3. UnblockedManager(r) => (Asked => ENABLED <<Poll(r)>>_vars)
    BY DEF UnblockedManager
  <1>4. Spec /\ FairManager(r) /\ []UnblockedManager(r) => (Handled ~> Ends)
    BY HandlingEnds
  <1>5. Ends => Answer
    BY DEF Done, Answered
  <1>6. AnswersRequest(r) <=> (Asked ~> Answer)
    BY DEF AnswersRequest
  <1> HIDE DEF Asked, Handled, Ends, Answer
  <1> QED BY <1>1, <1>2, <1>3, <1>4, <1>5, <1>6, TypeCorrect, PTL DEF Spec, FairManager

(* The exit of the host is noticed, although the manager may be anywhere   *)
(* in the handling of a request when it happens.                           *)
LEMMA OneNotices ==
  ASSUME NEW r \in Runs
  PROVE  Spec /\ FairManager(r) /\ []UnblockedManager(r) => NoticesExit(r)
  <1> DEFINE Gone == host[r] = "gone"
             Serves == mgr[r] = "serving"
             Waits == mgr[r] = "waiting"
             Handled == mgr[r] \in Handling
             Ends == mgr[r] \in Done
             Leaves == mgr[r] \in {"leaving", "ended"}
  <1>1. TypeOK /\ [Next]_vars =>
          /\ Serves => Serves' \/ Handled' \/ Ends'
          /\ Waits => Waits' \/ Leaves'
          /\ Gone => Gone'
    BY ManagerMoves, FactsStay DEF Done, Handling
  <1>2. TypeOK /\ <<Leave(r)>>_vars => Leaves'
    BY FairProgress
  <1>3. UnblockedManager(r) => (Gone /\ (Serves \/ Waits) => ENABLED <<Leave(r)>>_vars)
    BY DEF UnblockedManager
  <1>4. Spec /\ FairManager(r) /\ []UnblockedManager(r) => (Handled ~> Ends)
    BY HandlingEnds
  <1>5. Ends <=> Waits \/ Leaves
    BY DEF Done
  <1>6. NoticesExit(r) <=> (Gone /\ (Serves \/ Waits \/ Handled) ~> Leaves)
    <2>1. Unnoticed(r) <=> Gone /\ (Serves \/ Waits \/ Handled)
      BY DEF Unnoticed
    <2> QED BY <2>1, PTL DEF NoticesExit
  <1> HIDE DEF Gone, Serves, Waits, Handled, Ends, Leaves
  <1> QED BY <1>1, <1>2, <1>3, <1>4, <1>5, <1>6, TypeCorrect, PTL DEF Spec, FairManager

(* Every request that reaches a serving manager is answered, and is not    *)
(* tried over and over (stop_service.poll).                                *)
THEOREM RequestsAreAnswered == FairSpec /\ []Unblocked => AskedIsAnswered
  <1>1. ASSUME NEW r \in Runs PROVE FairSpec /\ []Unblocked => AnswersRequest(r)
    <2>1. Fairness => FairManager(r)
      BY DEF Fairness
    <2>2. Unblocked => UnblockedManager(r)
      BY DEF Unblocked
    <2> QED BY <2>1, <2>2, OneAnswers, PTL DEF FairSpec
  <1> QED BY <1>1 DEF AskedIsAnswered

(* The stop service never keeps a manager from noticing that its host      *)
(* exited (managed_wait.wait).                                             *)
THEOREM ExitsAreNoticed == FairSpec /\ []Unblocked => ExitIsNoticed
  <1>1. ASSUME NEW r \in Runs PROVE FairSpec /\ []Unblocked => NoticesExit(r)
    <2>1. Fairness => FairManager(r)
      BY DEF Fairness
    <2>2. Unblocked => UnblockedManager(r)
      BY DEF Unblocked
    <2> QED BY <2>1, <2>2, OneNotices, PTL DEF FairSpec
  <1> QED BY <1>1 DEF ExitIsNoticed
=============================================================================
