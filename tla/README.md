# A verification of rotom

rotom manages coding agents (DSH, Pi and OMP) on a user's machine: it renders and
deploys their configuration, installs their dependencies, starts and observes their
processes, stops and resumes groups of runs so that the installation can be
maintained, and keeps terminal configuration. The code is Python, in
`src/agentcfg` (agents), `src/rotom` (the command), and `src/termcfg` (terminals).
Almost everything it must get right lies between processes: several managers, stop
clients and maintainers work on one instance directory with file locks and small
JSON records, any of them may crash between two writes, and the native hosts they
start, and the user, obey none of their locks.

This directory holds TLA+ models of that part, the TLC configurations that check
them, and proofs of the properties that the TLAPS proof system checks. Source paths
below are relative to the repository, line numbers refer to the commit beside it.

## The parts of the system

| part | state it keeps | operations | what is hard | correct means |
|---|---|---|---|---|
| run registry and lease (`run_owners`, `lifecycle`, `storage`, `runtime`) | `flock` on the instance directory; one owner record per run | run, publish, bind, settle, reconcile; take the lease shared or exclusively | managers crash and leave hosts; descendants close the inherited lease; writes fail after the rename | maintenance never overlaps a process tree; an idle record is true |
| descendant observation (`descendants`, `dsh_process`) | subreaper flag, children of the manager | arm, wait, conclude | detached grandchildren | "complete" only when the whole tree is gone; the manager never waits forever |
| stop fence and client (`run_stop_fence`, `run_stop_snapshot`, `dsh_stop*`) | fence, snapshot, close record, request inboxes | review, install, post, wait, close, cancel | the registry changes after the review; crashes between two files; retries; cancel against post | a fence covers what lives; a posted request stays protected; stopped means released |
| stop delivery (`stop_inbox`, `stop_service`, `stop_executor`, `stop_dispatches`) | request, dispatch record, one-shot flags | receive, verify, record, signal | lost answers, deadlines, restarts | at most one signal per run and batch |
| deployment (`deployment`, `native_projection`) | `deployment.json`, `pending.json`, native files | plan, apply, recover, rollback | crashes between files; edits by the user at any time | all or nothing; user values survive; the backup leads back |
| resource coordination (`resource_*`, `omp_*`, Pi) | domain registry with revisions, owner records, intents | reserve, attach, dispatch, bind, observe, release, mark unknown | two transactions per step, lost responses, stale revisions | one launch per reservation; nothing released while in use |
| setup maintenance (`maintenance_*`) | batches, permits, progress | review, release, permit, execute, confirm, hand off | permits reused, live observation stale | setup runs only when everything selected was released |
| tool maintenance (`tool_maintenance`, `rotom/maintenance`, `rotom/stopped`) | an append-only workflow per batch | stop, setup, restore, cancel | crash between intent and result | each step at most once, restore after setup |
| session resume (`resume_attempts`, `rotom/resume`, `sessions`) | attempt files, owner records | claim, launch, account, continue | two resumes of one session | a session is driven by one run at a time |
| lock publication (`publication`) | journal, replaced lock files, manifest | publish, recover, read | crash between files, readers | a reader sees an old or a new lock, never a mixture |
| terminal transactions (`termcfg/transaction`, `state`, `lease`) | phase journal, backups, file identities | apply, recover, rollback | drift, ambiguous renames | recovery returns to the old files or keeps the new ones |
| configuration input and rendering (`config`, `schema`, `merge`, `render`, `model_*`, ...) | none | load, merge, validate, render | formats | pure functions |
| dependencies and launch (`backends`, `dependencies`, `omp_download`, `toolchain`, ...) | caches | download, verify, install | input and output | digests |
| native adapters (`dsh`, `pi*`, `omp*`) | none | translate profiles | formats | round trips |
| command line, workspace, presentation, terminal tool | none | parse, show | wording | - |

How they interact. A manager (`runtime.run`) holds the lease shared while it
checks, publishes its owner record, spawns the host (which inherits the lease),
waits, observes, and settles the record. Maintenance (`apply`, `setup`, `sync`)
takes the lease exclusively and then asserts that no fence stands and every record
is idle. A stop client reads the records, lets the user review a plan, installs the
fence over exactly the reviewed records, posts a request into each selected run's
inbox, where the manager's stop service verifies it and signals its own host, and
finally closes the batch. Deployment runs under a second, exclusive lock of the
state directory that every run holds shared.

OMP runs account for themselves differently: they reserve their instance and package
in the coordination domain, lease each, and link an owner record to the reservation.
Maintenance of an OMP setup fences resources by an intent in that domain, proves the
release under exclusive leases, and runs one setup on a permit that exists in memory
only. Maintenance from the terminal tool is a log of events: it asks for the stop,
applies the setup, and restores each stopped session, in the terminal, a tab or a
pane, by a resume that must claim its session first. Lock files in the repository and
files in HOME are replaced one by one under journals of their own.

## Modules

| module | models | checked by | proofs |
|---|---|---|---|
| `AdmissionGate` | what instance protection promises | refined by `RunRegistry` | |
| `RunRegistry` | lease, owner records, descendants, stop fence and client | `MCRunRegistry` | `RunRegistryProofs` |
| `StopOrder` | what a stop promises | refined by `StopDelivery` | |
| `StopDelivery` | inbox, stop service, dispatch journal, signal, and the stop client between fence and close | `MCStopDelivery` | `StopDeliveryProofs` |
| `AtomicDeployment` | what deploying promises | refined by `Deployment` | |
| `Deployment` | plan, transaction, recovery, rollback, run admission | `MCDeployment` | `DeploymentProofs` |
| `AtomicLocks` | what publishing lock files promises | refined by `LockPublication` | |
| `LockPublication` | journalled replacement of an adapter's lock files, recovery, readers | `MCLockPublication` | `LockPublicationProofs` |
| `AtomicHome` | what applying terminal configuration promises | refined by `TermTransaction` | |
| `TermTransaction` | apply, rollback, recover in HOME, with backups | `MCTermTransaction` | `TermTransactionProofs` |
| `OmpCoordination` | reservations, leases, owner records, intents and explicit writes of OMP | `MCOmpCoordination` | `OmpCoordinationProofs` |
| `SetupMaintenance` | a maintenance batch from acceptance to completion; extends `OmpCoordination` | `MCSetupMaintenance` | `SetupMaintenanceProofs` |
| `SessionClaims` | what a resume request promises of its session | refined by `ResumeAttempts` | |
| `ResumeAttempts` | owner snapshot, claim, launch, exit and settlement of a resume | through `ToolMaintenance` | `ToolMaintenanceProofs` |
| `ToolMaintenance` | the workflow of stop, setup and restore; extends `ResumeAttempts` | `MCToolMaintenance` | `ToolMaintenanceProofs` |

### RunRegistry

State and code:

- `mgr[r]` is the program counter of run r's manager in `runtime.run`: `leased`
  after `lifecycle.guard`, `registered` inside `registered_run`, `running` after
  the spawn, `leaving` after the descendants were observed, `closing` after the
  record was settled, `ended` when its descriptors are closed. A run is used once,
  like its uuid.
- `host[r]`, `kids[r]` are the native process tree: the host holds the inherited
  lease while it lives; descendants (`Descendants[r]`) either still hold it or closed it
  (`detached`). They are the environment: they fork, detach and exit at will, and
  a descendant never starts a host.
- `rec[r]` is the owner record (`run_owners._records`): its state and how far it
  is bound (child identity, stop endpoint). Updates happen under the short
  exclusive metadata lock, so each is one action; a publication whose write is
  unconfirmed leaves the record and ends the run, a settlement whose write fails
  leaves the record as it was.
- `armed[r]`, `seen[r]` are the manager's memory: whether the descendant scope
  covers the tree, and what it observed.
- `Shared(r)` is who keeps the lease shared: the manager, its host, or a holding
  descendant. `ExclusiveFree`, `SharedFree` are the two non-blocking lock attempts
  of `lifecycle.guard`; a failed attempt refuses the operation, which the model
  shows as the action not being taken.
- `maint[m]` is a process in `inactive_guard` (`inside` once the registry was
  found unfenced and idle), or in a reconciliation.
- `stop[b]`, `plan[b]` are the client of batch b and the plan it reviewed;
  `snapshots[b]`, `fence`, `posted[r]`, `closed[b]` are its files. Each write is
  followed by a possible failure, so every prefix of the writes of one operation
  is reachable, and a batch can be executed again with the same identity.

An unregistered run (DSH outside Linux, `lifecycle.registered_run`) publishes
nothing; only the inherited lease protects it.

`AdmissionGate` is the specification an operator would write: covered trees and
maintenance exclude each other, and while the instance is sealed only members of
the seal start. `ImplementsGate` is the refinement: `alive` is the set of
registered runs with a live tree, `members` the runs in the snapshot of the fence.

### StopDelivery

`RunRegistry` treats a posted request as something that may make the host exit.
`StopDelivery` opens that step: what the manager does with the request while it
waits for its host, under clients that time out, cancel and follow each other. It
leaves out what `RunRegistry` has (leases, the whole record set behind the fence,
descendants) and starts with the host spawned, captured and recorded.

- `mgr[r]` is where the manager is in `dsh_process.launch` and, while it serves, in
  `StopService.__call__` and `StopRequestHandler.handle`: `starting`, `created` (the
  inbox endpoint exists), `serving`, then for the one request it handles `checking`,
  `approved`, `begun` (the intent is in the journal), `confirmed` (checked again),
  `delivered` (signalled), `waiting` (no service any more, or its one request done),
  `leaving`, `ended`.
- `request[r]` is the manager's memory; `inbox[r]`, `intent[r]`, `sent[r]` are the
  files: requests, `<run>.json` and `<run>.sent.json` of the journal. `endpoint[r]`
  tells whether the inbox exists and whether the owner record names it, which a DSH
  run needs and a Pi or OMP run (`Sidecar`) does without.
- `signals[r]` counts `pidfd_send_signal`; it is what the properties are about and
  no file of the code.
- `client[b]`, `selected[b]`, `fence`, `closed[b]` are the client of batch b, the
  snapshot, the fence and the close record. `expired[b]` says that the absolute
  deadline of the batch, the same number in all its requests, has passed; it may
  happen at any step.
- The code guards against a second signal three times over (the one-shot handle, the
  one-shot handler, the journal that refuses a second intent). The model carries the
  journal and the program counter, the two that survive in the files and in the
  control flow.
- Every write has an outcome in which it is on disk and the caller saw an error
  (`GotoOrFail`, the disjuncts of `Install` and `Post`, the fence that `CloseStop`
  may leave), and `Fail` is any exception without a write.

A check is one action because the code makes it under the owner lock, which every
writer of the fence, the close record and the owner record takes as well. The signal
is not under that lock; `SignalInForce` says that this is harmless, because nobody
can close a batch while one of its runs is asked and active.

`StopOrder` is the promise without files: one order in force at a time, each run
asked once and told to end once, both under that order, and the order lifted only
when all it asked are over.

### Deployment

- `native[f]` is the value of a field; a field is a managed item
  (`item_key`: a path and a selector, or a whole file), or a native field nobody
  manages. `FileOf` groups fields into files, because a file is replaced
  atomically (`Tree.replace`) and the set of files is not.
- `state` is `deployment.json` (current manifest, one backup, owner with the known
  shared files), `pending` is `pending.json`.
- `phase`, `task`, `todo` are the one operation that holds the exclusive instance
  lock: recover first, then plan and write the journal (`Apply`, `Rollback`), then
  `Prepare`, `WriteFile`, `Commit`, and recovery again, which after a commit only
  prepares the launch resources and removes the journal.
- `Planned`, `TakeoverConflict`, `Preference`, `Initialized`, `Updates`, `Drifted`
  and `BothChanged` are the branches of `deployment.plan`, item by item, including
  the tombstones that a retired item leaves for one generation.
- `Abort` is any exception in `transact` (its handler recovers at once), `GiveUp`
  a refused plan, an error in the recovery, or a crash in any phase.
- `Edit` is the user or the native tool: at any time, any field, any value,
  without a lock. `authored` is an auxiliary variable, the fields whose last
  writer is not a deployment.

Abstractions: an empty structured file is the same as none, parents of selectors
are not modelled (so neither is pruning them), and the guards on credential
references only refuse. `Tree.replace` compares the file with what was read right
before the rename; the window between that comparison and the rename, which the
code's own comment calls unavoidable, is closed in the model (`WriteFile` is one
step), so the result holds for edits outside it.

`AtomicDeployment` states the promise: fields and record switch together, in one
step, while nobody runs, and a field becomes the user's only by the user.
`ImplementsAtomic` maps a field to what a recovery would leave in it (`Restored`).

### LockPublication

- `disk[f]` is a lock file of one adapter, `journal` is `pending.json` with what each
  file was and is to be. `pub[p]` is the step of a publisher in `publisher_lease`:
  `recovering`, `ready`, `writing`, `undoing`, and `todo` the files its loop has left.
- A publisher recovers first (`StartRestore`, `RestoreFile`, `EndRestore`), then writes
  the journal, replaces the files in order with the manifest last, and removes the
  journal. An exception restores at once (`Undo`); a crash, or an exception in the
  restoration, leaves all as it is (`Leave`).
- `moved` is what the comparison of identities in `replace` notices: the files that
  somebody changed since the loop read them. `edited` is an auxiliary variable, the files
  changed by others since the journal was written.
- `Edit` is the user, or git: any file, at any time, without a lease. `BeginRead`
  refuses while a journal is there.
- `replace` compares a file with what was read right before it renames the new one over
  it; as in `Deployment`, the window between the two is closed (the steps that replace a
  file are one action each), so the results hold for edits outside it.

`AtomicLocks` replaces all files in one step. It says openly what the code cannot know:
a user who wrote the very content that is being published loses it to a cancellation.

### TermTransaction

- `file[t]` is a file or link in HOME. `mark[t]` is what its identity (inode, time, digest)
  tells the code: the file from `before` the transaction; the one `written`, whose
  identity is in the journal before the rename (`intended_after`), so that a crash around
  the rename leaves no doubt; the one `taken`, which is not what was written but was found
  in its place after the rename (`after`); the one `restored`; or, with `theirs`, anything
  else.
- `state` is `state.json`: the managed targets and, for each component, the backup that
  its last change can be taken back to. `journal` is `journal.json`, with what was found
  of each target after its rename in `found`; `backups[s][t]` are the directories of
  backups.
- `phase` and `todo` are the one operation that holds the lease: `backing`, `writing`,
  `checking` (a file was renamed into place and is to be inspected), `committing`,
  `committed`, `cleaning`, or a recovery (`restoring`, `closing`).
- A write is two steps. `WriteTarget` compares the old file and renames the new one over
  it; `InspectTarget` records what is there then, whoever made it. An apply whose file is
  not what it wrote ends (`RefuseTarget`, `write_verify_failed`), with what it found in
  the journal, which its handler saves (`transaction.py:332-336`); when that save fails as
  well, it is `Stop`. A rollback does not compare (571-578): it takes what it found into
  the state.
- `Stop` is an exception or a crash at any step, also between a rename and its inspection,
  where it is what an identity that admission refuses leads to too. Only while the backups
  are being made does an exception remove the journal (`AbortBackup`).

What the user does to a file between its rename and its inspection therefore becomes the
transaction's own. `KeepsEdits` speaks of all other files of the user, those whose identity
neither the state nor the journal has; the rest is under "Findings".

Two windows are closed in the model. `home_targets.py:150-151` compares a file with the
expected one and then renames; as in `Deployment`, that is one step (`WriteTarget`,
`RestoreTarget`), and an edit in between is lost. And a recovery looks again at each target
after it was restored or kept (`transaction.py:449-451`), which `RestoreTarget` and
`KeepTarget` contain: an edit there ends the recovery, as `Stop` does, but that the file was
removed again could be recorded in the state where the journal expects an absent file.

`AtomicHome` has no files but the contents: an order takes effect at once on files,
record and what a rollback brings back, or has no effect. It too looks once at each of its
files before it takes effect (`Look`), and an installation takes effect only when each is
found as it made it. So the promise is plain about the exception: what the user made of a
file until the order looked at it belongs to the order.

### OmpCoordination

- `phase[r]`, `link[r]` and `intents[b]` are `coordination.json`; `record[r]` the owner
  record. A committed transaction raises the revision; instead of a number, `reviewed[b]`
  holds what was read at the present one and is emptied by every commit (`Outdated`).
- `step[r]` is the manager in `cooperative_run`: `reserved`, `instance` and `package` for
  the leases it has, `attach`, `publish`, `owned`, `running`, `binding`, then the release
  (`finishing`, `releasing`, `closing`) or the unknown end (`marking`, `unknown`).
- The pairs of transactions are two actions: first the domain takes the digest of a record
  to come, then the record is written and the domain commits (`WriteRecord`). The second
  may end in between, with the record on disk and the domain as it was; and a manager may
  crash, or fail, before and after each (`Crash`).
- `proc[r]` is the host with its descendants, which may keep the inherited leases or have
  closed them (`Dropped`) when the manager is gone.
- `exclusive` and `writing` belong to explicit writes and to the maintenance,
  `BeginWrite` is `omp_scope_write_guard`.

### SetupMaintenance

- `batch[b]` is the progress saved with the intent: the phase, what is recorded of stop
  and exit, the dispatch and the result. `snapshots` are the acceptance files, written
  before the intent and never overwritten.
- `at[m]`, `on[m]`, `seen[m]`, `mine[m]` are a call of an operator: where it is, its
  batch, the progress it read, its leases. `Commit` compares `seen` with what is saved
  (`expected_revision`); a commit whose answer is lost ends the call.
- `execute_setup` takes the leases of the preflight, of the sync of the package and of the
  apply of the instance one after the other, drops each, and records the result without
  any. Taking and dropping are actions, so every other process may act in between.
- `content[x]` is what a resource was last written to be; `WriteOther` is an explicit
  apply, sync or rollback of somebody else.

`Coordinated` says that all this is a user of `OmpCoordination`: every step is one that
the coordination allows, or leaves its state alone.

### ResumeAttempts and ToolMaintenance

- `owner[r]` is the owner record of the run that resumes, `attempt[r]` its request on
  disk, `free[r]` the snapshot of owner records taken before the lock of the attempts,
  `tree[r]` the host and what it left.
- `Claim` decides from that snapshot under the lock of the attempts. `Launched`, `Exited`
  and `Settle` may each fail to be written, and the process may die anywhere.
- `log` is the workflow, one event per file. `Append1` adds one; `Unchanged` is the append
  that requires the log as it was read (`Store.append`), `Undisputed` the one that
  accepts later events about other things (`Store._complete`).
- `job[m]`, `base[m]`, `target[m]`, `call[m]`, `result[m]` are a caller: where it is, how
  much of the log it read or where its intent is, what it restores, by which resume, and
  the exit code it is to record.
- `receipt[t]` is the phase of the location request (`restore_locations._NEXT`), moved by
  the tab, the pane, and the child that consumes it.
- `deployed` is what the instance holds; `Redeploy` is somebody else who deploys, which
  needs the instance free of runs, and `LeaveCaller` from `applying` a setup that dies
  halfway.

A module checked through another: `ToolSpec` contains every step of `ResumeAttempts`, with
resumes that the user makes beside the workflow.

## Runs

| run | instance | question |
|---|---|---|
| `stop` | 2 registered runs, 1 maintainer, detached descendants, 1 batch | does the fence cover what lives, is stopped released, and does the registry implement the gate |
| `batches` | 1 registered run with both kinds of descendants, 1 unregistered run, 1 maintainer, 2 batches, fair managers | do lease and records exclude maintenance from trees, and is idle true; retries, half done installs, cancels, closes: which fence stands when; and does a manager leave although descendants stay |
| `delivery` | 2 runs (one whose record names its endpoint, one sidecar), 2 batches | is a host signalled at most once and only under a batch in force, are the dispatch files true, and is the batch in force always readable |
| `delivery_live` | 1 run, 2 batches, fair managers | is a request answered or the service given up, and is the exit of the host always noticed |
| `stop_history` | 2 runs, 2 batches | does a stopped target stay on the list to resume (it does not, see Findings) |
| `deployment` | 3 fields in 2 files, 2 values, 3 configurations (one retires a field and changes the launch contract), a path declared as shared, 1 run | is every interruption recoverable, do runs find finished deployments, does the backup lead back, are user values kept, is the transaction atomic |
| `locks` | 2 lock files and the manifest, 2 contents, 2 publishers, 1 reader | do edits survive publication and recovery, is publishing atomic |
| `home` | 1 component of 2 files, 2 contents, 2 versions that differ in one file, 2 directories for backups | are backups kept until nothing needs them, are the user's files left alone, is the transaction atomic |
| `home_recover` | the same | does a recovery replace only what the transaction wrote (it does not, see Findings) |
| `omp` | 2 runs of 2 instances that share a package, 1 batch | is a writer alone, is every process accounted for, does a fence hold what it selected, are ends final |
| `setup` | 2 runs of one instance and package, 1 batch, 2 operators | is a setup alone, does it run once, does its recorded result stay true, is everything a step of the coordination |
| `tool` | 1 target, 2 runs that want its session, 2 callers, a log of at most 6 events (`MaxLog`) | is a target restored once and on its deployment, are results true and recordable, has a session one writer |

Why these bounds are enough: two registered runs are needed for a stop that selects
one and leaves the other, and for a record that changes while another is reviewed;
an unregistered run shares nothing but the lease, and
is beside a registered one in `batches`; it forks nothing there, because nothing is claimed
of its descendants once they drop the lease. `stop` leaves out descendants that hold the
lease (a manager or host does, too); `batches` has both kinds. One batch shows every
order of its own steps against runs; two batches are needed for fences that follow
each other and for retries. A second maintainer adds nothing that the exclusive
lease does not already exclude (the proofs cover any number). Delivery needs two
batches for a cancel that is followed by another stop of the same run, and two runs
for a batch that asked only one of them; requests are named by their batch, because a
batch posts once per run. A deployment needs two files for a write that stops halfway,
two fields in one of them for the merge and the known-file rule, two values besides
absence for edits that collide with neither side, and three configurations so that a
backup rotates twice.

A publication needs two files besides the manifest for an order among them that is left
open, and two publishers for one that recovers what the other left. A transaction in HOME
needs two versions that share a file, so that an apply lists one target that it leaves
alone, and two directories for backups, because a rollback leads from one to the other. The
directories are interchangeable, so `home` is checked up to their symmetry, like the runs
and maintainers of `stop`.
The coordination needs two runs that share one resource and not the other; the
maintenance needs a run that is selected and one that is launched meanwhile, and two
operators of one batch. The workflow needs two callers for everything that may be done
twice, and a second run that resumes the same session from elsewhere; the longest
undisturbed log for one target has four events (setup and restore, each with its result),
and six leave room for a cancel, or for a setup that failed before. With one target no
result meets an event about another target; that case of `Recordable` is covered by its
theorem (`ResultsFit`), which holds for any number of targets.

Apart from the log there are no counters: every run is finite without state constraints.
No run checks for deadlock, because every process may end, and does, when no work is left
(`CHECK_DEADLOCK FALSE`).

Fairness (`batches`): for each manager, weak fairness of its own steps after its host
has exited (`FairManager`): `WaitEnds`, which is `child.wait` returning and the
observation that follows, then `Settle` and `Exit`. The code justifies it:
`DescendantScope.observe` is a bounded, non-blocking loop (`WNOHANG`, at most 4096
children) and the settlement swallows its failures, so a scheduled manager always gets
on. While the host lives nothing moves the manager. Nothing is assumed of hosts,
descendants, maintainers or stop clients; in particular descendants may live on
forever and a batch may be abandoned.

Fairness (`delivery_live`): for each manager, weak fairness of three things. A serving
manager polls a
non-empty inbox in the end: its loop comes back every tenth of a second, and the inbox
lock that a poll does not wait for is held for a few file operations only. The
handling of a request goes on: every lock it waits for, it waits for until the
request's deadline at most, and `Fail` is what happens then. A manager that waits
leaves once its host is gone, which is `child.wait` returning. Nothing is assumed of
hosts and clients, and a manager that is still starting its service may stay there.

The other specifications state no fairness, and no liveness is claimed of them. None
would hold: a maintenance whose outcome is unknown waits for a person, by design, and so
does a run whose end nobody observed.

Every property comes with a mutant: an operator named `...Faulty` next to the one it
replaces, which TLC shows to break the property (for example, counting only the
manager as holder of the lease, or restoring only the files that were not yet
written).

## Findings

Two runs are refuted by TLC, each about a line of the repository's documentation.

**A closed batch may become unreadable** (`stop_history`). `status_stop` raises when a selected run
holds a request of another batch (`src/src/agentcfg/dsh_stop_client.py:105`). That is
right for the batch in force (`ProtectedIsReadable` shows that it never happens to
it), but the same function serves the history of closed batches. If a batch stops
r1, is cancelled before it asked r2, and a later batch asks r2, the first batch can
no longer be read: `stopped_sessions.history` reports `batch-unavailable` and its
stopped run r1 is missing from the list that resume offers. FR-035
(`src/specs/008-rotom-command-experience/spec.md:259`) says that a cancel ends only the
remaining actions and that stopped targets stay on the list to resume. No file is
lost; the snapshot still names the run.

**A recovery may replace a file the user made** (`home_recover`). An apply renames a file
into place, and the user replaces it before it is inspected, by a link or by lines that the
admission lets pass. `_commit_apply` stores what it finds as `after`
(`src/src/termcfg/transaction.py:307`) before it compares it (308), refuses to go on, and
saves the journal with it (332-336). `recover` takes `after` for the transaction's own (188,
423, 441-446) and puts the backup in place of the user's file. Its docstring (399) says that
only targets that still match the bytes written by the transaction, or their identity
before it, are restored (`RestoresOwn`), and FR-010
(`src/specs/003-sync-terminal-tools/spec.md:99`) that a recovery keeps a target the user
changed. TLC's trace has seven steps: `Apply`, `StartWriting`, `WriteTarget`, `Edit`,
`RefuseTarget`, `StartRecover`, `RestoreTarget`. A rollback takes such a file into the state
without any comparison (573-578), as the intact managed one, which a later apply may
replace after a backup. Comparing before storing (and storing only what compares equal)
would close both.

## Proofs

`RunRegistryProofs` proves, for any sets of runs, maintainers and batches, every
safety property of `RunRegistry` and the refinement of `AdmissionGate`. The only
assumption is `RegistryAssumption` (which runs are unregistered, the kinds of
descendants of each, and that the "nothing there" value is none of the values).

None of the properties is inductive alone. The inductive invariant `IInv` adds:

- `LeaseInv`: an exclusive holder excludes every shared one. It gives the
  exclusion of maintenance from hosts and managers.
- `TreeInv`: a tree belongs to a manager past its registration, and a registered run that
  got there has a record. So a tree that dropped the lease still has a record that is
  not idle, which is what keeps maintenance out after a crash.
- `TruthInv`: idle records and complete observations are true.
- `InsideInv`: while a maintainer is inside, everything is idle and unfenced.
- `FenceInv`: the standing fence has a snapshot that contains all records.
- `RequestInv`, `CloseInv`, `PlanInv`, `SelectionInv`: what is posted, closed,
  planned and selected relates to the snapshots.

Each conjunct has a lemma that every step preserves it, one case per action; the
theorems follow from `InductiveInvariant` and the refinement from the invariant at
each step.

`StopDeliveryProofs` does the same for `StopDelivery`, from `DeliveryAssumption`
(which runs have no control endpoint, and the "nothing there" value). Its `IInv` adds
to the types:

- `LiveInv`: a manager that has not ended has an active record.
- `AskInv`: whoever asks a run has selected it.
- `JournalInv`: the dispatch journal follows the manager's place in the handling of a
  request. Nothing is signalled before the intent, and no result precedes the signal.
- `FenceInv`: the batch behind the fence has a snapshot and asks its runs alone.
- `ConfirmedInv`: between the manager's last check and its signal the batch stays in
  force, though no lock is held. The reason is that a run so far is asked and its record
  is active (`AskInv`, `LiveInv`), and neither a cancel nor a completion closes a batch
  with such a run.

`SignalInForce` needs all of them; `ProtectedIsReadable` and `DispatchTruthful` come from
single conjuncts. `Refinement` shows that every step is a step of `StopOrder` or leaves
its state alone.

`DeploymentProofs` proves every property of `Deployment` and the refinement of
`AtomicDeployment`, from `DeploymentAssumption` (the types of the constants, and that
"none" and "absent" are no values). Its `IInv` adds to the types and `RecoversToRecord`:

- `JournalInv`: an uncommitted journal ends at the record it will commit, and starts at
  the present record or, in a rollback, at the other end of the backup. What it does not
  change is the same in both records, or the user's.
- `BackupInv`: the same link between a record and its backup, for the deployed state and
  for the one in the journal. A journal that changes a field has its changes as backup, so
  the fields a commit takes back from the user are linked again.
- `PhaseInv`: a transaction never lacks its journal; a journal equal to the deployed state
  before the commit changes nothing (a plan with an update has another record); a
  committed journal restores nothing.
- `DoneInv`: the files no longer to do are at their new end, or a user edited them.
- `RunInv`: without a journal the resources are prepared, and only then somebody runs.

`RecoversToRecord` is not inductive alone: at the commit it needs `DoneInv` (all changes
are written) and `JournalInv` (they end at the record), and at a rollback `BackupInv`.

`LockPublicationProofs` proves `KeepsEdits` and the refinement of `AtomicLocks` from
`PublicationAssumption`. `LeaseInv` (one publisher, and readers only without a journal),
`EditInv` (how `moved` and `edited` relate), `FileInv` (a file nobody edited is what it was
or is to be) and `LoopInv` (what the loops have done) are inductive together.

`TermTransactionProofs` proves the three properties of `TermTransaction`, from
`TermAssumption` and `OrderAssumption`. `MarkInv` says what an identity tells of a file: as
before, as written, as found (`MarkGood`); a file marked `written` is what the journal meant
to write, and one marked `taken` is what the inspection recorded. `LoopInv` says that all
targets the writing loop has left behind were inspected (`Inspected`), but for the one that
is being checked, and that an apply found each as it wrote it. `BackupInv` says that the
state and the state before the transaction lead back to complete backups, `JournalInv` what
a journal was written from, `StateInv` that what a last change replaced is still managed
(`Replaced`). With `PhaseInv` they show that the cleaning never removes a backup that is
still needed, and that a rollback returns what the last change replaced. The inspections
map to `Look` of `AtomicHome`, the renames to no step (where nothing was there, to
`TakeBack` if the user removed it): until the commit the mapped `home` is what was there
before.

`OmpCoordinationProofs` proves the four properties of `OmpCoordination` from
`CoordinationAssumption`. `WriterAlone` and `FenceHolds` are part of the inductive
invariant; they need `LeaseInv` (which leases each place implies), `StepInv` (what reservation
and owner record are at each place) and `AliveInv` (a living process has both).

`SetupMaintenanceProofs` continues with that invariant: `MaintInv` adds `IntentInv` (standing
intents are disjoint setups), `DispatchInv` (the dispatch follows the phase), and `PlaceInv`,
which says for each place of a call which leases it has (`MineOf`), who else may be there
(`AloneOf`) and what has been written (`ContentOf`), and that no two calls are past the
admission of one batch. Between the leases of `execute_setup` it is `FenceHolds` and the
phase of the batch that keep others out; this is why `SetupAlone` needs the invariant of the
coordination. `MaintenanceAssumption` says that the "nothing there" value is none of the
others.

`ToolMaintenanceProofs` proves the seven properties of the `tool` run, from
`ToolAssumption`, `ResumeAssumption` and `LocationAssumption` (the sessions of the targets
differ; "nothing there" is none of the values). `ResumeInv` comes first: what the place of a
resume implies about its records and processes, and that a session has one request that
stands. Every step of the workflow is a step of the resumes or none (`Resumes`), so the
invariant holds there as well. `ToolInv` adds `JobInv` (what a caller knows), `OneRight` (the
right to restore a target is with one caller or in the receipt, or was used), `LogInv`
(intents are appended once, a setup is settled before any restore), `DisputeInv` (a caller's
intent is not followed by another event about the same thing) and `DeployInv` (nothing is
deployed under a run). The proofs hold for any number of targets and any `MaxLog`.

### Consequences

Beyond the properties of the runs, the invariants prove what a user would ask next:

- `RecordsAreRendered`: what `deployment.json` records, what its backup leads to, and what
  a journal will record are complete renderings of one configuration each, never a mixture
  of two, although plans are made item by item and rollbacks exchange the two sides.
- `RedeployedQuietly`: applying the deployed configuration again has no conflict and writes
  nothing, whatever the user did to the fields. `RollbackIsOpen`: a rollback is refused only
  for fields that the user wrote.
- `RunsFindWholeSetups`: nobody runs on a resource that a setup left halfway. The invariant
  behind it (`PartialInv`) is that such a resource is the target of a standing intent whose
  batch began its setup, has neither succeeded nor been cancelled, and whose target no
  run is known to use; only a person ends that.
- `OneWriterEach`: a session never has living processes of two runs. `WorkflowInOrder`:
  every event of a maintenance log fits those before it (`Fits`), whoever appended in
  between; the proof goes through the two ways of appending, since an intent requires the
  log as it was read and a result only that nobody disputes it.

### Liveness

`ManagersLeave`, `RequestsAreAnswered` and `ExitsAreNoticed` prove `ManagerLeaves`,
`AskedIsAnswered` and `ExitIsNoticed` from fairness, for any constants. Each follows the
manager step by step: while it is at a place it stays there or moves on, a fair step takes
it to the next place, and the places end. The prover has no rules for ENABLED, which weak
fairness is defined by, so that part is a premise that the theorems state: `[]Unblocked`,
in which each fair step is enabled where its guard holds. It adds nothing about the order of
steps or about anyone else. It is true, and it is itself a claim about the code: no lock,
other process, closed batch or failed write keeps a manager from its next step. TLC finds
`Unblocked` invariant on the instances of `stop`, `batches`, `delivery` and
`delivery_live` (add it to the INVARIANTS of their configurations); without the premise, the
three properties are checked by `batches` and `delivery_live` alone.

### What the proofs changed

Two definitions were wrong in a way that TLC did not show, and proof attempts did. The
fairness of a manager was once stated over its observation whenever that is possible; for an
unregistered run that included steps taken while the host lives, and so assumed more than
`child.wait` gives. It now begins with the exit of the host. And the planned value of a
deployed field was a CASE whose guards overlapped, where TLC takes the first that holds and
the logic leaves the choice open; the order of the code is now in the guards (`PlannedItem`).

### What is only model-checked

Each inductive invariant, and each invariant under "Consequences", was model-checked on the
instances under "Runs" before it was proved. Every property that a passing run checks is
stated by a theorem. What TLC alone establishes is `Unblocked`, the premise above, and
that `StoppedStayListed` and `RestoresOwn` do not hold (see Findings).

### What the properties do not say

- `RecordsTrue` is safety only: the launch and the exit on record took place. That an attempt
  is accounted for in the end, and its session free again, is not claimed.
- `ResultsTrue` speaks of restores. Of a setup whose process died, `Recordable` says that
  its result still fits the log.
- That nothing new starts after a cancel is not a property of a run; it follows from
  `WorkflowInOrder`, which is only proved.

## What is not modelled

Of the modelled components:

- run registry: the checks of a manager's input are one refusal; deployment: pruning of
  empty parents, the preview comparison and the guards on credential references, which
  refuse or change layout only;
- stop delivery: the codecs and identity checks that only refuse, and the limit of the
  inbox, which a client that posts once per run does not reach;
- coordination: enrolment and claims of resources, keys and digests of descriptors, which
  only refuse; Pi, which registers its runs as `RunRegistry` models it;
- maintenance of a setup: the layout of the plan, digests of the deployment, the read-only
  status, and the waiting for an exit with its deadline;
- workflow: how its plan is built and previewed, session headers, and the stop, which is
  one step there because `StopDelivery` models it;
- resumes: lookup and listing of sessions, the writer guard inside the native Pi process,
  and the sockets and deadlines of tabs and panes, whose effect is the receipt;
- `mark_intent_unknown` (`resource_coordination.py:357`): nothing under `src/` outside the
  tests calls it. `OmpCoordination` lets anybody mark a standing intent unknown; in
  `SetupMaintenance` an intent becomes unknown only with its batch, while it is stopping or
  dispatched;
- terminal transactions: the two windows under `TermTransaction`, the generated binding, the migration of older private state, and
  the validation of permissions.

Components that are not modelled: configuration input, rendering and native adapters (pure
data conversion with no interleaving), dependencies and launch environments (input and
output around digests, but for the publication of their locks), command lines and
presentation, the terminal tool's git and shell helpers, and the TypeScript permission
extension of the OMP host, which shares no state with the lifecycle code. `PROJECT.json`
lists each part with its files, and every hazard with the properties that are about it.
