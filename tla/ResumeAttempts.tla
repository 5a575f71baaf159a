---------------------------- MODULE ResumeAttempts ----------------------------
(***************************************************************************)
(* The resume of a session by a new run.  The run registers its owner      *)
(* record, takes a snapshot of all owner records, lets go of their lock,   *)
(* and under the lock of the attempts claims the session: it writes its    *)
(* request, unless another request for the session is pending.  Then it    *)
(* starts the host, records that it did, waits, records the exit, and      *)
(* settles its owner record from what it observed of the descendants.      *)
(*                                                                         *)
(* A write may fail before or after it took place, the process may die     *)
(* between any two steps, and the host and its descendants outlive it.     *)
(***************************************************************************)
EXTENDS Naturals, FiniteSets

CONSTANTS Runs,      \* calls of resume, each with a run of its own
          Sessions,  \* native sessions of the instance
          None

VARIABLES want,      \* want[r]: the session that r resumes, or None
          owner,     \* owner[r]: the state of its owner record
          attempt,   \* attempt[r]: its request on disk, or None
          at,        \* at[r]: where the call is
          free,      \* free[r]: the runs its snapshot shows as released
          tree       \* tree[r]: the host, and what the host left behind

resumeVars == <<want, owner, attempt, at, free, tree>>

Requests == [dispatch : {"intent", "launched"}, exited : BOOLEAN]
ASSUME ResumeAssumption == None \notin Sessions \cup Runs \cup Requests

ResumeInit ==
  /\ want = [r \in Runs |-> None]
  /\ owner = [r \in Runs |-> "none"]
  /\ attempt = [r \in Runs |-> None]
  /\ at = [r \in Runs |-> "idle"]
  /\ free = [r \in Runs |-> {}]
  /\ tree = [r \in Runs |-> "unborn"]

(* What _pending finds in the directory of the attempts, with the snapshot *)
(* of r: a request for the session is over once its run is released and    *)
(* its launch and exit are on record.                                      *)
OverFaulty(r, q) == attempt[q].dispatch = "launched" /\ attempt[q].exited
Over(r, q) == q \in free[r] /\ attempt[q].dispatch = "launched" /\ attempt[q].exited
Pending(r) == {q \in Runs : attempt[q] # None /\ want[q] = want[r] /\ ~Over(r, q)}

Goto(r, from, to) == at[r] = from /\ at' = [at EXCEPT ![r] = to]
Living(r) == tree[r] \in {"host", "kids"}

-----------------------------------------------------------------------------
(* runtime.run and registered_run: the owner record comes first.           *)
Register(r, s) == /\ Goto(r, "idle", "registered")
                  /\ want' = [want EXCEPT ![r] = s]
                  /\ owner' = [owner EXCEPT ![r] = "active"]
                  /\ UNCHANGED <<attempt, free, tree>>

(* _admission: the snapshot, taken again while the attempts' lock is busy. *)
Snapshot(r) == /\ Goto(r, "registered", "admitted")
               /\ free' = [free EXCEPT ![r] = {q \in Runs : owner[q] = "idle"}]
               /\ UNCHANGED <<want, owner, attempt, tree>>
Busy(r) == Goto(r, "admitted", "registered") /\ UNCHANGED <<want, owner, attempt, free, tree>>

(* begin: a request that was written and then failed to be synced or read  *)
(* back stays, and its call starts nothing.                                *)
Claim(r) == /\ at[r] = "admitted" /\ Pending(r) = {}
            /\ attempt' = [attempt EXCEPT ![r] = [dispatch |-> "intent", exited |-> FALSE]]
            /\ at' \in {[at EXCEPT ![r] = "claimed"], [at EXCEPT ![r] = "leaving"]}
            /\ UNCHANGED <<want, owner, free, tree>>
Refuse(r) == /\ \/ Goto(r, "admitted", "leaving")
                \/ Goto(r, "registered", "leaving")
                \/ Goto(r, "claimed", "leaving")
             /\ UNCHANGED <<want, owner, attempt, free, tree>>

Spawn(r) == /\ Goto(r, "claimed", "spawned")
            /\ tree' = [tree EXCEPT ![r] = "host"]
            /\ UNCHANGED <<want, owner, attempt, free>>

(* _Attempt.launched and exited.  Either record may fail to be written; the*)
(* exit records the launch too, for the call remembers that it took place. *)
Launched(r) == /\ Goto(r, "spawned", "waiting")
               /\ \/ attempt' = [attempt EXCEPT ![r].dispatch = "launched"]
                  \/ UNCHANGED attempt
               /\ UNCHANGED <<want, owner, free, tree>>
ExitedFaulty(r) == /\ Goto(r, "waiting", "ended") /\ tree[r] # "host"
                   /\ attempt' = [attempt EXCEPT ![r].exited = TRUE]
                   /\ UNCHANGED <<want, owner, free, tree>>
Exited(r) == /\ Goto(r, "waiting", "ended") /\ tree[r] # "host"
             /\ \/ attempt' = [attempt EXCEPT ![r] = [dispatch |-> "launched", exited |-> TRUE]]
                \/ UNCHANGED attempt
             /\ UNCHANGED <<want, owner, free, tree>>
WaitFails(r) == /\ Goto(r, "waiting", "leaving")
                /\ UNCHANGED <<want, owner, attempt, free, tree>>

(* The host, and descendants that survive it.                              *)
HostExits(r) == /\ tree[r] = "host"
                /\ tree' \in {[tree EXCEPT ![r] = "kids"], [tree EXCEPT ![r] = "over"]}
                /\ UNCHANGED <<want, owner, attempt, at, free>>
KidsExit(r) == /\ tree[r] = "kids"
               /\ tree' = [tree EXCEPT ![r] = "over"]
               /\ UNCHANGED <<want, owner, attempt, at, free>>

(* registered_run: a complete observation releases the run, any other makes*)
(* it unknown, and either record may fail to be written.                   *)
CompleteFaulty(r) == tree[r] # "host"
Complete(r) == ~Living(r)
Settle(r) == /\ at[r] \in {"leaving", "ended"} /\ at' = [at EXCEPT ![r] = "gone"]
             /\ \/ Complete(r) /\ owner' = [owner EXCEPT ![r] = "idle"]
                \/ owner' = [owner EXCEPT ![r] = "unknown"]
                \/ UNCHANGED owner
             /\ UNCHANGED <<want, attempt, free, tree>>

(* The process dies; reconcile later finds its record active and marks it. *)
Crash(r) == /\ at[r] \notin {"idle", "gone"} /\ at' = [at EXCEPT ![r] = "gone"]
            /\ UNCHANGED <<want, owner, attempt, free, tree>>
Reconcile(r) == /\ at[r] = "gone" /\ owner[r] = "active"
                /\ owner' = [owner EXCEPT ![r] = "unknown"]
                /\ UNCHANGED <<want, attempt, at, free, tree>>

Proceed(r) == \/ Snapshot(r) \/ Busy(r) \/ Claim(r) \/ Refuse(r) \/ Spawn(r) \/ Launched(r)
              \/ Exited(r) \/ WaitFails(r) \/ Settle(r)
Around(r) == HostExits(r) \/ KidsExit(r) \/ Reconcile(r)

ResumeNext == \E r \in Runs : Proceed(r) \/ Around(r) \/ Crash(r) \/ \E s \in Sessions : Register(r, s)
ResumeSpec == ResumeInit /\ [][ResumeNext]_resumeVars

-----------------------------------------------------------------------------
(* The types.                                                              *)
ResumeTypeOK ==
  /\ want \in [Runs -> Sessions \cup {None}]
  /\ owner \in [Runs -> {"none", "active", "unknown", "idle"}]
  /\ attempt \in [Runs -> Requests \cup {None}]
  /\ at \in [Runs -> {"idle", "registered", "admitted", "claimed", "spawned", "waiting", "leaving", "ended", "gone"}]
  /\ free \in [Runs -> SUBSET Runs]
  /\ tree \in [Runs -> {"unborn", "host", "kids", "over"}]

(* A snapshot that is out of date only ever errs towards refusal: whatever *)
(* it shows as released is released, and so are all its processes.         *)
SnapshotSafe == \A r \in Runs : \A q \in free[r] :
                  owner[q] = "idle" /\ ~Living(q) /\ at[q] = "gone"

(* What is on record is what took place, although launch and exit may each *)
(* fail to be recorded.                                                    *)
RecordsTrue ==
  \A r \in Runs : attempt[r] # None =>
    /\ attempt[r].exited => attempt[r].dispatch = "launched" /\ tree[r] \in {"kids", "over"}
    /\ attempt[r].dispatch = "launched" => tree[r] # "unborn"

(* A session has one writer at a time: claims, with the request that is not*)
(* over as their holder, are those of SessionClaims.                       *)
Standing(r) == attempt[r] # None /\ ~(owner[r] = "idle" /\ attempt[r].dispatch = "launched" /\ attempt[r].exited)
HolderOf(s) == LET H == {r \in Runs : Standing(r) /\ want[r] = s}
               IN IF Cardinality(H) = 1 THEN CHOOSE r \in H : TRUE ELSE None
Claims == INSTANCE SessionClaims WITH
            holder <- [s \in Sessions |-> HolderOf(s)],
            tree <- [r \in Runs |-> IF Living(r) THEN "alive" ELSE tree[r]]
ImplementsClaims == Claims!Spec
=============================================================================
