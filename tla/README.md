# A verification project for marimohub

marimohub stores notebooks, runs them in sandboxes and serves them, from any
number of replicas that share nothing but an object store. There is no database
and no lock server: every guarantee rests on conditional PUTs of single objects
(create-if-absent, and If-Match on an ETag), on the order in which a service
makes its requests, and on a few grace periods. That is the part of the program
this project models, checks with TLC and proves with TLAPS.

Contents: [inventory](#inventory), [plan](#plan), [Catalog](#catalog),
[Lease](#lease), [warm pool](#warm-pool), [editor sessions](#editor-sessions),
[jobs](#jobs), [notebook moves](#notebook-moves), [app pools](#app-pools),
[notebook content](#notebook-content), [runs](#runs), [theorems](#theorems),
[what stays with TLC](#what-stays-with-tlc), [not modelled](#not-modelled).

## Inventory

Paths are relative to `src/`; `services/` is `packages/core/src/services/`.

### Components that keep shared state

| component | state in the store | operations | what makes it correct |
|---|---|---|---|
| Catalog commit protocol (`services/catalog/CatalogService.ts`, `cas.ts`) | `catalog.json`, one object per snapshot | `initialize`, `mutateSnapshot` (all catalog edits go through it), `recover`; `withCasRetry` around them | calls are atomic; the pointer never dangles; a lost `catalog.json` is never replaced by an empty one; the audit log is truthful |
| Snapshot retention (`MaintenanceService.ts`) | the same snapshots | `expireSnapshots`, `pruneEvents` | current and previous snapshot survive, also when commits overtake the sweep |
| Maintenance lease and loops (`MaintenanceLock.ts`, `apps/server/src/backgroundLoops.ts`, `cron.ts`) | one lock object per loop | acquire / renew / steal, release; attempts with a deadline, stop, drain | one sweep at a time; a lease left behind blocks nobody for ever |
| Idempotency (`IdempotencyService.ts`, `packages/api/src/idempotency.ts`) | one record per key | lookup, record, prune | a replayed create returns the first answer |
| Sessions and the editor claim (`services/runtime/SessionService.ts`, `SessionRetirer.ts`, `ReconciliationService.ts`) | a record per session, one claim per notebook with a transfer record, a prune cutoff | create, provision, heartbeat, terminate, expire, reap; claim, release, takeover and its drain | one live editor per notebook; a new editor starts from what the previous one saved; no sandbox is forgotten |
| Session routes (`packages/api/src/routes/sessions.ts`, `saga.ts`) | none of its own | the create saga with its compensations, takeover | every failure path undoes what was done, and nothing else |
| Warm pool (`WarmPoolService.ts`, `WarmPoolStore.ts`) | one pool object per profile | claim, reserve, probe, handoff, sweep, fill | a member is handed out once; booted sandboxes are bounded and never forgotten |
| App pools (`AppPoolService.ts`, `AppPoolRouter.ts`, `AppPoolStore.ts`) | one pool object per published app | admit, restart and stop a session; presence of visits; drain on a new version; sweep | the version a session runs is kept; a visit keeps its session; sandboxes that nobody visits are destroyed |
| Notebook content (`services/content/NotebookService.ts`, `NotebookWorkspaceService.ts`) | records, versions and workspace of a notebook | create saga, save, publish, soft delete and sweep, version pruning, workspace mutations under a lease | catalog and records agree in the end; a version in use is not pruned; a workspace has one writer |
| Notebook moves (`NotebookMoveService.ts`, `moveObjects.ts`) | a move record with a lease, a fence in the metadata, two copies | fence, drain, copy, publish, clean up, resume, cancel | the listed copy is complete and holds every acknowledged write; the notebook becomes readable again |
| Proposals, previews, synced notebooks, resumable uploads | one record each | small life cycles | each stage at most once |
| Jobs (`services/jobs/`) | job heads, run records, occurrence markers, mutation claims | schedule, claim, run, cancel, watchdog, prune | an occurrence runs at most once, every run ends |
| Tokens, CLI and OAuth codes | one record each | issue, exchange, revoke | a code is exchanged once |

### Components without shared state of their own

Storage adapters turn the `Bucket` port into S3, GCS, Azure, R2 or file
operations; what matters of them is whether a PUT whose answer is lost is sent
again. Compute adapters boot and destroy sandboxes. The authorization policy is a
pure decision. The web interface and the command line client are clients of the
API. Integrations, secrets, identity, chat, notifications, search, source
control, configuration, images and charts are data handling and I/O.

### How components interact

* Every content operation ends in one `mutateSnapshot`; a notebook's own records
  are written before its entry and removed before its entry.
* The create-session route provisions a sandbox (from the warm pool or fresh),
  writes the session record, then takes the editor claim; the claim decides
  liveness by reading session records. Reconciliation compares records with what
  the compute provider lists.
* The background loops run under maintenance leases and call retention, notebook
  sweeps, session expiry, reconciliation, pool sweeps, job scheduling and pruning.
* Version pruning and session creation meet at the prune cutoff.

### What is hard

Steps of different replicas interleave between any two requests. A request may
take effect with its answer lost, or after its caller gave up. Replicas die
between two requests. Timers (lease deadlines, heartbeats, grace periods) race
with slow work. `PROJECT.json` lists each of these at the line where it bites,
with the property that would notice.

## Plan

In this order; "done" means modelled, checked and proved as described below.

1. `Catalog`, `CatalogAbs`, `CatalogProofs`: the commit protocol,
   recovery and retention; `Catalog` implements `CatalogAbs`. Done.
2. `Lease`, `LeaseProofs`: the maintenance lease and the loops under it. Done.
3. `WarmPool`: the pool object, fill, claim and handoff, sweep, with the part of
   the session route and of reconciliation they depend on. `WarmPoolProofs`: types
   and all its safety properties. Done.
4. `EditorSession`: session records, sandboxes, the editor claim and its transfer,
   the create saga, stop, takeover drain, expiry, sweep and reconciler, for one
   notebook. `EditorProofs`: types, `OneTimelyEditor`, `FencedSaves`,
   `DisplacedGone`. Done.
5. `Jobs`: occurrences, runs, markers, the mutation lease, tick, execution,
   watchdog, retries, cancellation, deletion. `JobsProofs`: types and all
   its invariants. Done.
6. `NotebookMove`: the move of a notebook against the writers of its content.
   `MoveProofs`: types, `ReadableIsListed`, `NothingLost`. Done.
7. `AppPool`: the pool of one published app, its sessions, and the pruning of the
   versions they run. `AppPoolProofs`: types, `VersionKept`, `VisitsKept`. Done.
8. `NotebookContent`: records and catalog entries of notebooks, the create saga,
   label changes, deletion and its sweep, idempotency keys. `ContentProofs`: types
   and all its invariants. Done.
9. Smaller records: resumable uploads, single-use codes, proposals and previews.

## Catalog

`Catalog.tla` models the three writers of `catalog.json` and the retention sweep,
one action per request to the store.

| model | code |
|---|---|
| `catalog`, `snapshots`, `body` | `catalog.json`, the snapshot objects and their contents (`CatalogSchema`, `SnapshotSchema`) |
| `records` | notebook records under `projects/`, as far as `initialize` and recovery look at them |
| `pc`, `job`, `loc`, `last` | one running call each: next request, request, local variables, answer |
| `rpc`, `sweep` | one run of `expireSnapshots` each |
| `events`, `moves`, `lost`, `losses` | history: audit events per commit, changes of `catalog.json`, a lost catalog that listed something |
| `InitializeGet`, `InitializeList`, `InitializeRecheck`, `InitializeGiveUp` | `initialize` up to its decision to create a catalog |
| `MutateRead` | one attempt of `mutateSnapshot` up to the result of the callback |
| `RecoverPlan`, `RecoverCheck` | `planCatalogRecovery`, `recover` and the ETag check of `commitRecovery` |
| `PutSnapshot`, `SwapPointer`, `DropSnapshot`, `RethrowUnsure`, `AppendAudit` | the shared tail of all three: upload, conditional PUT, clean-up, rethrow, audit |
| `SettleAbandoned`, `Crash` | a request that outlives its caller; death of a replica |
| `SweepRead`, `SweepList`, `SweepDelete`, `SweepCrash` | `expireSnapshots` |
| `LoseCatalog` | the disaster `initialize` guards against |

Abstractions. A snapshot is the set of notebooks it lists. Its random id is its
upload order, which is what retention sorts by. The ETag of `catalog.json` is its
contents: each commit names a fresh snapshot. Reading the pointer and the
immutable snapshot it names is one step. The mutation callbacks are those of
`appendNotebookEntry` with `ifAbsent` and of the notebook sweep (`notebook.gc`);
the others differ in the fields they edit. In recovery, a snapshot source is
accepted if all its notebooks still have their records; the rest of the report is
the nondeterministic choice between going on, being refused and being stale.

`CatalogAbs.tla` is what callers are promised: a single value, calls that take
effect atomically and at most once between invocation and answer, truthful
answers, and no empty catalog over data that was lost but is still there. The
refinement mapping takes the abstract value to be the contents of the snapshot
`catalog.json` names; a call is applied from the moment its pointer PUT commits.

`AdapterRetries` is the one behaviour of an adapter that matters. It is FALSE for
GCS (`storage-gcs` sets `retry: 0` on conditional writes) and TRUE for S3, whose
client keeps the SDK's default retries.

## Lease

`Lease.tla` models `MaintenanceLock` and an attempt of a loop in
`BackgroundLoops`.

| model | code |
|---|---|
| `lock` | the lock object: holder and time to expiry |
| `phase`, `left`, `aborted` | an attempt: next step, time to its deadline, whether its signal has fired |
| `stopped` | `state.stopped` of the loop |
| `match`, `late` | whether the ETag an attempt (or its abandoned release) holds is still the lock's |
| `Begin`, `TryCreate`, `ReadLock`, `Steal` | `tick`, `attempt`, `tryAcquire` |
| `StartStep`, `EndStep`, `EndSweep` | `LoopContext.step` and the end of `work` |
| `ReleaseRead`, `ReleasePut`, `ReleaseAbandon`, `LateRelease` | the `finally` block, `release` and `withAbortSignal` |
| `Stop`, `Restart`, `Crash`, `Tick` | `stop`, a restarted process, its death, the clock |

Times are what is left of them, so the clock needs no bound. A holder id is
unique per attempt; in the model a record whose attempt is over belongs to
`Ghost`. The loop keeps one attempt at a time: an attempt past its deadline whose
step is still running keeps `phase` at `"step"`. Replicas are assumed to agree on
the time; a record that does not parse is treated by the code like an expired one
and is not modelled apart.

## Warm pool

`WarmPool.tla` models `WarmPoolService` over `WarmPoolStore`, with what its members
pass through: the create-session route, the end of a session, and the orphan rule
of reconciliation. The three meet in a sandbox that the pool, a session record or
nobody owns, which is why they are one module.

| model | code |
|---|---|
| `mem`, `late`, `stale`, `cooling` | the pool object: members, whether `operation_until` and `ready_until` have passed, whether `retry_at` is ahead |
| `up`, `flight` | the provider: running sandboxes, creations in flight and who waits for them |
| `fpc`, `by`, `fresh` | `fill` per member, and the late `reclaimCreation` of its boot promise |
| `rec`, `spc`, `claim`, `probe` | session records, and the route of each session |
| `wpc`, `seen`, `cur` | one `sweep` per replica, with its snapshot of the pool |
| `opc`, `listed`, `owned` | `ReconciliationService.reconcile`, rule 3 |
| `clean` | a running `cleanup`, one per sweep, route and filler |
| `Trim`, `Scan`, `Item*`, `ReserveCreations`, `EndSweep` | `sweep` and `reserveCreations` |
| `Boot`, `BootTimeout`, `BackOff`, `PublishReady`, `ResetFailures`, `ReclaimCreation` | `fill`, `reclaimCreation` |
| `Reserve`, `RetireClaim`, `ProbeSucceeds`, `ProbeFails`, `HandoffRead`, `HandoffAssign`, `Abandon` | the methods of those names |
| `CreateSession`, `AwaitProbe`, `SetRunning`, `Finish`, `ReplaceSandbox`, `MarkFailed` | the steps of the saga in `routes/sessions.ts` |
| `Clean*` | the four requests of `cleanup` |
| `ListActive`, `ListSessions`, `ListPools`, `ReapOrphan` | `reconcile` |
| `EndSession`, `ReclaimSession`, `ReapSession` | any end of a session, its reclaim, `reapTerminated` |

Abstractions. There is one profile. A mutation of the pool is one step, because
`withCasRetry` applies it to the value it read or not at all; it may fail and it
may take effect with its answer lost. Deadlines pass at any moment, so no duration
is assumed, not even the orphan grace period: what holds does not depend on it. A
member is claimed at most once, so its tokens are the one of its creation and the
one of its claim. A session with a sandbox of its own has `box = None`, and its
own sandbox is not followed. `terminating` and the terminal statuses are one
status. A destroy call does not stop a creation still in flight: this is what
`compute-fargate` does when it finds no task. Reservations of app pools are left
out. Several sweeps at once are real although the loop holds a lease: a step in
flight is not interrupted at its attempt's deadline, when the lease expires.

## Editor sessions

`EditorSession.tla` models the persistent editors of one notebook: everything that
reads or writes a session record, its sandbox or the editor claim.

| model | code |
|---|---|
| `rec`, `stale` | session records (`SessionSchema`); whether a starting one is older than `HEARTBEAT_TTL_MS` |
| `box`, `head` | the provider's sandboxes with their kernels; whose save the stored notebook is |
| `attach` | whether the provider implements `connectExisting` |
| `claim`, `lapsed`, `fresh` | the editor claim with its transfer and drain lease; the sagas whose ETag of it is current |
| `saga` | `createNotebookSession`: the next step, the takeover it started from, whose save its prefetched workspace is |
| `work` | a running teardown of a session: its stop, or a reclaim by a loop |
| `kpc`, `goal` | a takeover request, or a retry of one |
| `missing` | the sandboxes that the provider listing of `reconcile` lacked |
| `Preflight`, `CreateRecord`, `Admission`, `Provision`, `SetRunning`, `Recheck`, `Compensate`, `AdmissionFails`, `SagaCrashes` | the saga, its compensations, its death |
| `Stop`, `Owns`, `Save`, `Destroy`, `Finish`, `Mark*`, `Release*` | `SessionRetirer` |
| `ReserveTakeover`, `BeginDrain`, `Drain*`, `AcquireDrainLease` | `requestTakeover`, `completeTakeoverDrain` and its lease |
| `GoStale`, `ExpireStale`, `Reclaim`, `Snapshot`, `ListActive`, `MarkDead`, `ReapOrphan`, `ReapTerminated` | the lifecycle sweep and the reconciler |
| `ReclaimBlocked`, `ReclaimProbes`, `ReclaimPlan` | the early exits of `reclaim` (`not_terminal`, the two graces, `attachment_unsupported`, `attachment_failed`, `kernel_unreachable`, `kernel_active`) and what it does otherwise |
| `BootDone`, `BoxDies`, `KernelUse` | the provider; a kernel that is used, or stops answering, and the other way round |

Abstractions. What a notebook contains is whose save it is. A capture reads a
sandbox and commits in one step; the destroy of a saga's clean-up and its marker
are one step. The graces (teardown, provision, orphan, retention) are
assumptions: the reaper of orphans waits for the saga to be over. `claimEditor` is
two steps, because it reads the holder's record in between. Applications,
temporary and shared editors, secondary surfaces, relaunch, the sandbox deadline
and the administrator's reclaim are left out. `FencedSaves` is about sessions that
were handed to their user.

`Slow` is the set of sessions whose provision may outlive `HEARTBEAT_TTL_MS`, which
the code expects of some (`SessionRetirer.ts:25`). A session in it goes stale while it
starts; a rival reads that and may replace the claim, whose ETag has not changed,
although the session turns running in between. Two editors then run, against "A live
holder always wins" (`SessionService.ts:1158`): run `editor_slow` violates `OneEditor`.
The other runs allow slow starts too. Their properties say what still holds of the
sessions that did start in time (`Timely`): of these one runs at a time
(`OneTimelyEditor`), they save only as holders of the claim (`FencedSaves`), and a
takeover leaves no sandbox of theirs (`DisplacedGone`), whatever a slow one does beside
them.

Both loops want to know that nobody uses an expired session before they reclaim it, so
they attach to its sandbox and ask its kernel. If the creation died between the boot
and the kernel, there is never an answer, and a provider without `connectExisting` cannot
be asked: the sandbox stays up for good (`Kept`), as the tests of `SessionRetirer`
want it. `NothingForgotten` excepts these two cases, and kernels that are
in use from some time on.

`TakeoverContinuity` is about one takeover at a time. With a second one it fails, as
the code does: a takeover reserved against a starting session x, whose creation has
died, is cancelled after `TAKEOVER_REQUEST_TTL_MS`; x goes stale and another session y
gets the claim; a second takeover displaces y and is ready, and its session starts from
the stored notebook; then the request of the first goes on to `beginTerminating` and
saves x, since `retireForTakeover` (`SessionRetirer.ts:217`) does not look at the claim
again. The attempt to prove the property showed this; TLC confirmed the behaviour, of
36 steps. `DisplacedGone` holds of any number of takeovers.

A stop of a starting session captures a sandbox whose workspace is not restored
yet (`SessionRetirer.ts:488`), against what the comments at lines 107-109 and at
`sessionLifecycle.ts:106` say of the reclaim and of the sweep. The model takes that
step, and no property of the runs depends on it.

## Jobs

`Jobs.tla` models one notebook job.

| model | code |
|---|---|
| `job` | the definition: live, being deleted, notebook hidden, gone |
| `due`, `occ` | the schedule and the occurrence claims |
| `run`, `marker` | run records; markers with their continuation id |
| `op` | the operation under the job mutation lease, with its next step |
| `leader`, `tick` | the process whose scheduler ticks, and its tick with the listing it works from |
| `exec`, `box` | executions in a process; sandboxes |
| `api` | a request that deletes the job or its notebook |
| `audited`, `notified` | the audit log and the delivered notifications |
| `pruner`, `doubted` | `pruneStaleMarkers` per marker; history: runs whose record a HEAD missed behind an old marker |
| `Tick*`, `Fire`, `ClaimOccurrence`, `PutMarker`, `PutRecord`, `Admitted`, `Dispatch` | `JobScheduler.tick`, `fire`, `admit`, `JobRunService.enqueue` |
| `Provision`, `Prepared`, `Export`, `Destroy`, `LateBoot` | `JobRunner.execute` |
| `Finish`, `Audit`, `Notify`, `AfterRunFails`, `Unmark` | `dispatch` and `afterRun`: audit, retry, notification, removal of the marker |
| `Trigger`, `Cancel`, `Delete*`, `Hide*` | the API requests |
| `TickYoung`, `TickMissing`, `TickPrune` | the tick at a marker without a record: its age, the HEAD of the record (`runExists`), `pruneDanglingMarker` |
| `PruneList`, `PruneCheck`, `PruneStale` | `pruneStaleMarkers`, which takes no job lease: listing, HEAD, delete |
| `Crash`, `CrashApi`, `Handover`, `Expire`, `Reap` | deaths, handover, the end of a dead holder's lease, the reconciler |

Abstractions. One job, with a backoff of 0. `failed` stands for failed and timed
out; notifications are wanted for both outcomes. A listing is one step, and its
entries are stale afterwards. Loading the context is one step with the provision
update, the preparation of the sandbox with the start update. A live holder does
not lose the mutation lease (it renews every 10 s for a TTL of 30 s); a dead one
keeps it until `Expire`. A marker that the enqueue in progress put itself is young, so
`DANGLING_GRACE_MS` outlives an enqueue; a marker it found there may have any age. The
grace of orphaned sandboxes outlives the clean-up of an execution. The audit events of a
cancel and of a delete are taken to succeed. The forbid policy applies at the
moment of a fire only, as documented. Updates of the definition, run retention,
outputs, unreadable records, the per-project cap and the queue limit are left out.

A prune and an enqueue that is repeated after a crash can miss each other: the HEAD finds
no record, the enqueue finds the old marker, keeps it and puts the record, and then
the marker is deleted, so that a run lives which no tick, watchdog or reconciler sees.
`doubted` remembers the runs whose record a HEAD missed. `LiveRunsMarked`,
`EndedRunsSettled` and `WithinCap` are about the others; nothing else separates a live
run from its marker. `OccurrenceOnce`, `ExecutedOnce`, `RunsSettle` and `DeletedStops`
are about all runs.

`OneRetry` says that a run is retried at most once. TLC finds it true with one retry and
fails with two (`Jobs_retry.cfg`): the marker of a failed run survives its
finalization, so the run is finalized again after its retry has ended; `enqueue`
gives the ended retry a new marker with a new continuation id, and that retry is
retried a second time. The comment at `JobRunService.ts:241-243` has a repeated
enqueue converge on the record that exists, and the test at
`JobScheduler.test.ts:615` has concurrent finalizers create one retry, of a job
with `max_retries` 1.

## Notebook moves

`NotebookMove.tla` models the move of one notebook, with the requests that may
write to it meanwhile.

| model | code |
|---|---|
| `nb` | the notebook's objects in both projects: metadata with its fence, update token and status; the other objects as the set of writes they hold; the version in `source.json` |
| `cat` | its catalog entry: project, `move_id`, status |
| `rec`, `lapsed` | the move record, and whether the lease in it has expired |
| `ex` | a running `move` or `cancel` |
| `ws`, `wr` | the workspace mutation lease, and a save, file write, editor session or delete each |
| `acked` | writes whose caller was told that they succeeded |
| `lifted`, `late` | history: moves whose source a cancel unfenced although their record was there; moves that an executor fenced after it had lost the lease |
| `Post`, `TakeLease`, `Save` | `context`, `lease`, `save` in `runLeased` |
| `Check`, `Ready`, `Fence`, `Drain`, `Settle`, `Abort`, `Release` | phase `preparing` and its error path |
| `CopyFiles`, `CopyMeta`, `Renew`, `Verify`, `Publish`, `Published` | phase `copying` |
| `Open`, `Keep`, `Remove`, `FinishMove`, `Drop` | phase `published` and the error path |
| `CancelLease`, `Look`, `Wipe` | `cancel` of a pending move |
| `CancelRead`, `FindOrphan`, `Repair` | `cancel` without one: its read of the record, its read of the metadata, the removal of the fence |
| `AcquireWorkspace` ... `FreeWorkspace`, `AdmitSession` ... `EndSession`, `DeleteEntry` | `withMutation`, `updateNotebook`, `writeUnlocked`, `commitSession`, `deleteNotebook` |

Abstractions. The objects other than the metadata are copied, written and removed
as one. A cancel that is refused changes nothing and is no step. An executor that is alive loses its lease
only in a step that waits for long (three renewals must fail); not in the two
requests between the last `save` and the publication, and a cancel, which never
asks for its lease again, keeps it. Previews, jobs, proposals, uploads, pools,
deep links and thumbnails pass through the same phases and are left out, and so
are the `moving` stamp, which only lists show, and a move back. An executor that
lost its lease may leave objects in the destination after a cancel, and a write
whose lease lapsed may leave objects in the source after a move: neither was
acknowledged, and neither can be read.

`StalePosts` says whether a post that has read its context may reach the lease
after another one has completed the move. The code does not rule it out, and
`move_cancel` shows what follows; `move_runs` excludes it to check the rest.

Two things the runs made plain. A save that has written the metadata and not yet
`source.json` when a move captures both is drained later, so the capture never
matches: every retry is refused at the verification with "Start a new move", and
only a cancel ends the move. The same goes for a copy that met a late write.
`NotebookReturns` therefore needs clients that cancel.

Two races of the code lose the protection of the fence; the properties except the
moves that met one of them, and nothing else.

* `cancel` reads the record (`NotebookMoveService.ts:556`) and then the metadata (561).
  If a move takes the lease and sets the fence in between, the cancel takes that fence
  for one without a record ("A fence without a record cannot belong to a live move",
  line 562) and removes it, perhaps after the publication. The source can then be read
  besides the listed copy, after 16 states, and a write to it is removed with it, after
  20. It takes no failure; the model counts such a sighting among the faults,
  which bounds how often it happens. `lifted` remembers the move.
* An executor that hangs before `fence` may stamp the fence after its lease was taken,
  its move released (the source unfenced) and the release cut short before the record
  was deleted: there is no save between `assertReadyForMove` and the fence. If the next
  executor is by then past the drain, a file uploaded in the meantime is not in the
  copy, and the verification does not notice, because an upload leaves `updated_at` and
  `source.json` as they are. It takes three faults and 29 states. `late` remembers the
  move, and only uploads are excepted: a save, a session's commit and a delete change
  the update token, which the verification compares. The safety properties also pass
  with three faults, in nine million states, which is beyond the bounds of the run.

## App pools

`AppPool.tla` models the pool of one published notebook, the sessions in it, and
the saves of the notebook, which meet the sessions at the versions they run.

| model | code |
|---|---|
| `source`, `ver`, `cutoff`, `saver` | the head version, the version objects, the prune cutoff, a running save with its pruning |
| `pool` | the pool object (`AppPoolSchema`): members with state and predecessor, assignments, idle members, head version, deletion |
| `pin`, `rec`, `checked`, `box` | a session: its version, its record, whether it passed the cutoff, its sandbox |
| `req`, `sweep` | a request of a client; the pass of `sweepAppPools` over the pool |
| `late`, `lapsed`, `due` | which startup deadlines, visits and idle timeouts have run out |
| `Open`, `Synchronize`, `Route`, `Confirm` | `admit` and `route` with its two conditional PUTs |
| `Restart`, `Stop`, `RouteRestart`, `Terminate`, `InvalidateOld`, `DestroyOld` | `reserveAppReplacement`, `retireSelectedSession` |
| `Boot`, `Record`, `Check`, `Run`, `Complete`, `Fail`, `Undo*`, `Crash` | the create saga of an app session, its failures and its undoing |
| `Presence`, `Lapse`, `Late`, `IdlePasses` | `heartbeat` and `leave`; time |
| `SweepSync`, `SweepMark`, `SweepRead`, `SweepDestroy`, `SweepRemove`, `SweepFails` | `reconcile` and the retirement of one member after another |
| `Save`, `Prune`, `ScanSessions`, `ReadPool`, `DeleteVersions`, `PruneFails` | a save, `pruneVersions` and `listProtectedVersionIds` |
| `retireForDeletion`, `expireStale`, `Reclaim` | deletion of the notebook; the stale pass and the reconciler, as far as they touch app sessions: `Reclaim` with the exits of `reclaim` for expired ones |
| `KernelUse`, `ReapOrphan` | a tab at the kernel of an expired session; the orphan rule |

Abstractions. A read of the pool and the conditional PUT that relies on it are one
step, because `withCasRetry` applies a change to the value it read or not at all.
Deadlines pass at any moment; they are sets, not times. A save is one step up to
its pruning. `Route` reads `source.json` and reserves in one
step, although the two share no conditional PUT; `Confirm` reads it again and refuses a
version that was saved over in between. The orphan grace of the reconciler outlives a request. Left out:
members of the legacy layout, previews, sandboxes from the warm pool, deadlines of
authorization, sandboxes the provider loses, and the fence of a move.

Why a version in use is kept. `createSession` writes its record and reads the
cutoff afterwards; `pruneVersions` advances the cutoff and scans the records
afterwards. Whichever comes second sees the other. The reservation in the pool
protects the version before there is a record, but not alone: it may be swept
while the saga still boots the sandbox, and then only the cutoff stands between the
new session and a version that has been deleted.

What is never destroyed. A session can leave the pool before it runs: the sweep finds a
reservation without a record past its deadline, and the saga, still at work,
boots and records it afterwards. If its replica dies then, the stale pass marks the
session expired, and the reclaim wants an answer of its kernel first, which may never
come. `NothingIdles` excepts these sandboxes, and those of expired sessions with a provider
that cannot attach.

## Notebook content

`NotebookContent.tla` models the records of the notebooks of a project and their
entries in the catalog. The record is authoritative, the entry a projection that
every writer brings up to date after it has written the record.

| model | code |
|---|---|
| `rec`, `files` | `meta.json` (status, title, labels); the other objects of a notebook |
| `entry`, `count`, `fresh` | catalog entries and `notebook_count`; the requests whose read of `catalog.json` is current |
| `idem`, `next` | idempotency records; fresh notebook ids |
| `req`, `sweep`, `aged` | running requests; `sweepDeletedNotebooks`; deletions older than the retention |
| `hurt`, `unsure`, `told`, `overlaps` | history: notebooks a request failed on, creations that failed after their append took effect, answers given per key, notebooks of which two label changes ran at once |
| `Lookup`, `WriteFiles`, `WriteMeta`, `Append`, `Undo`, `RecordAnswer`, `PruneKey` | `idempotentOperation` around the saga of `createNotebookWithLabels`; `prune` |
| `Park`, `WriteRecord`, `Reject`, `ReadEntry`, `CommitPatch` | `setSecurityLabels`, `updateNotebookFrom`, `deleteNotebookWithMutation` and the `updateNotebookEntry` they share |
| `SweepList`, `Purge`, `SweepGc` | `sweepDeletedNotebooks`, `hardDeleteNotebook` |
| `Fail`, `Crash`, `SweepFails` | a request that fails with or without effect, or is the last attempt; a death |

Abstractions. A commit of the catalog is one step that happens or not, which is
what `Catalog` shows. Where the callback reads the record, the reads are one step
and the commit another, refused if the catalog has changed. Reading the catalog
and then the record is one step because a change of the catalog between the two
refuses the commit. A title stands for everything an update changes; a version of
a record is its contents. The code, workspace and versions of a notebook are one
set of files.

What the checks made plain:

* `setSecurityLabels` says that "a crash between writes leaves the projection
  indeterminate, never wrong" (`NotebookService.ts:719`). It takes no lease, so two label
  changes of a notebook may overlap, and they share one pending marker: the first to
  finish clears it, and the record the second then writes disagrees with the entry
  until its own finalization, or for good if it dies. `NeverWrongAtAll` is the comment
  as it stands, and fails in nine states (`NotebookContent_labels.cfg`).
  `LabelsNeverWrong` says it of every notebook whose label changes have not
  overlapped, however the clients behave.
* The same comment says that "routine projections self-heal it". They do not: a
  routine projection leaves a pending entry indeterminate, as
  `catalogProjection.ts` demands, until a later label change.
* A delete that dies between the record and the catalog is not completed by its
  retry, which finds the record deleted and leaves the catalog alone. The entry
  stays active until another writer projects the record. `RecordsSettle` excepts
  notebooks a request failed on.
* A creation whose append took effect although it failed is compensated: the entry
  stays without a record. `ListedExists` excepts these (`unsure`).

## Runs

| run | properties | instance |
|---|---|---|
| `catalog_commit` | `TypeOK`, `ConflictMeansProgress`, `AuditOnce`, `PointerResolves`, `RollbackAvailable`, `ImplementsCatalogAbs` | 2 calls at a time, 2 attempts each, 6 snapshots, 1 notebook, a retention sweep, clock to 4, retention 2, `catalog.json` lost once and recovered in both modes |
| `catalog_s3` | `PointerResolves`, violated | 2 calls, `AdapterRetries` TRUE |
| `lease_sweeps` | `TypeOK`, `OneWorker`, `OrderlyEndFreesLease`, `MaintenanceRecurs` | 3 replicas, deadline 2, 2 faults, under `FairSpec` |
| `pool_runs` | `TypeOK`, `HandedOutOnce`, `SessionKeepsSandbox`, `WithinSize`, `ClaimedMembersTracked`, `NothingLeaks` | 2 sandboxes, 2 sessions, 1 sweeper, pool size 1, 1 fault, under `FairSpec` |
| `editor_safety` | `OneTimelyEditor`, `FencedSaves`, `TakeoverContinuity`, `DisplacedGone` | a session of each of 2 users, the first of which may start slowly, a takeover and its retry, the lifecycle sweep, 2 operations at once, 1 fault |
| `editor_slow` | `OneEditor`, violated | as `editor_safety` |
| `editor_live` | `NothingForgotten` | 1 session that may start slowly, a takeover and its retry, the reconciler, a provider that attaches or not, 3 operations at once, 2 faults, under `FairSpec` |
| `jobs_runs` | `OccurrenceOnce`, `WithinCap`, `ExecutedOnce`, `LiveRunsMarked`, `EndedRunsSettled`, `RunsSettle`, `DeletedStops` | 2 processes, 2 occurrences, cap 1, 0 or 1 retries, 4 requests and faults, under `FairSpec` |
| `move_runs` | `NothingLost`, `ReadableIsListed`, `NotebookReturns`, `PublicationCompletes` | 2 clients that move and 1 that cancels, 1 write of any kind, 2 move ids, 1 fault, under `FairSpec` |
| `move_cancel` | `NothingLost`, violated | as `move_runs`, `StalePosts` TRUE |
| `app_pool` | `VersionKept`, `VisitsKept`, `NothingIdles` | 2 visits, 1 administrator, 1 saver, 2 sessions, 2 versions of which 1 is kept, 1 visit per session, 1 session per version, 2 requests and faults, from an empty pool or an open app, under `MCSpec` |
| `content_records` | `LabelsNeverWrong`, `RecordsSettle`, `ListedExists`, `RetryCreatesNothing`, `DeletedPurged` | 2 clients, 2 notebooks, 1 title, 1 label, 1 key, 4 requests and faults, from an empty project or one with a notebook, under `MCSpec` |

**Bounds.** Two calls suffice for every race on one pointer: a call sees the
others only through `catalog.json`, and one that commits can begin again, so a
call may lose to any number of commits of the other one. Two attempts reach the
retry and its exhaustion. `MaxSnap` bounds uploads in a behaviour; a call starts
only if the ids its attempts may need are left, so the bound cuts no call short.
Retention 2 with attempts and sweeps of at most 1 is the tightest instance of
`RetentionAssumption`, so the property is checked with no slack; `KeepLast` is 0
because a floor only protects more. `ScanLimit` 1 makes a truncated listing
reachable. For the lease, three replicas give an owner, a thief and a late
release at once, and a deadline of 2 separates "before", "at" and "after";
`MaxFaults` bounds failures, not time. The theorems remove all of these bounds.
`catalog_commit` keeps to three families of behaviours (`Cases` in `MCCatalog`): many
commits without a sweep; a sweep with at most three uploads and one writer
between calls at a time; and the loss and recovery of `catalog.json` with at most
four uploads and no second attempts.

Members of a pool meet only in the count of `WithinSize`. `pool_runs` therefore
follows one sandbox through routes, sweeps, creation, reconciliation and expiry,
with a second one only where filling needs it; `Cases` in `MCWarmPool` names the
families: one route and the reconciler with a fault, two routes with a fault or
with a sweep, and filling without claims. Liveness is about the first family: none
of its fair steps leaves it, so the constraint hides no fair behaviour of one
route. Two fillers that race on the size, replicas that disagree about it, and
faults of two routes with everything else at once are left to the theorems, which
hold for any `Size`, `Sweepers` and `MaxFaults`. One fault is one failed or
unanswered request or one crash, at any point.

Two sessions and one takeover are the least with a holder, a rival and a
replacement; one slow session meets the rival that takes its claim and the takeover
that displaces either. Session and takeover ids are used once. `MaxBusy` bounds the
operations in progress, not how often one starts: two give every pairwise race.
For jobs, two occurrences give an overlap for the forbid policy, two processes a
handover with an execution left behind, one retry the finalization of two linked
runs; `MaxEvents` bounds requests, occurrences, faults and retries together. For
moves, two executors and a cancel give an owner, a successor and a canceller; a
second move id is a new attempt after a released one. The one fault is a crash, a failed
request, a lost lease, or a cancel that takes the fence of a running move for an orphan.

In `app_pool`, `MaxEvents` bounds visits, restarts, stops, saves, the deletion and
faults together; heartbeats, deadlines, sweeps and the passes of the loops are not
counted. `Established` in `MCAppPool` starts with a session that serves a visit, so
that both events are left for what disturbs it. A limit of one visit per session,
one session per version and one version kept makes every limit bite: a second
visit is refused or gets a session of its own, and each save prunes the version
before it.

In `content_records`, a second client is needed for every race on a record or an
entry, a second notebook for `notebook_count`; four events are three overlapping
requests and a fault, or two and two. Sweeps and the passing of time are not
counted.

**Deadlock.** The catalog, editor, job, move, app pool and content runs switch deadlock checking off:
once ids, sessions or requests are used up nothing need happen, which is the
bounds' doing. The lease and pool runs check for deadlock.

**Fairness.** `FairSpec` of `Lease` is weak fairness of the clock and of each
replica's steps (intervals fire, requests and sweep steps settle, a stopped
process is started again by its supervisor). Whether a sweep goes on or ends is
left open, and so are crashes, stops and late releases. `FairSpec` of `WarmPool`
is weak fairness of each creation, clean-up, route, sweep, of the reclaim of ended
sessions, of reconciliation and of the deadlines: requests settle and the loops
recur. Nothing makes a session end, a probe succeed or a creation meet its
deadline. `FairSpec` of `EditorSession` is weak fairness of sagas, boots, teardowns,
the loops and takeover requests, and of time for sessions that start or end;
`Reclaim` is strongly fair because `MaxBusy`, which the code does not have, may
disable it now and then, and because the loops probe an expired session at every
round: if its kernel is idle again and again, some round finds it so. `FairSpec` of `Jobs` is weak fairness of the operation
under the lease, the tick, deletions, clean-up and executions; the watchdog is
strongly fair because a deadline that has passed stays passed, so a run that is
found again and again is found overdue. `FairSpec` of `NotebookMove` is weak
fairness of running requests, of writers and of the expiry of dead holders'
leases. Clients that post and cancel again are strongly fair: a user retries at
times unrelated to the others', and is not beaten to the lease for ever.
`Fairness` of `AppPool` asks less than the code gives: while requests are running
some request goes on, the sweep of the pool recurs, and deadlines and loops go on.
Nothing makes a visit begin, end or be renewed, or a save prune. `Fairness` of
`NotebookContent` is weak fairness of time and of the recurring sweep; no request
need go on.

**What the violated runs show.** The findings in `PROJECT.json` quote the comments
and tests that say otherwise.

* `catalog_s3`: with an adapter that re-sends a conditional PUT after losing its
  answer, the second PUT is refused because the first one committed; the writer
  takes that as proof that it lost and deletes the snapshot `catalog.json` now
  names.
* `editor_slow`: a session is still starting after `HEARTBEAT_TTL_MS`, a second user's
  session replaces the claim, and the first comes up all the same: its update to
  running is conditional on its record, which nobody has touched. Both run, and both
  may be asked to save until one is torn down.
* `move_cancel`: a second post of a move reads its context, the first one completes,
  and the second then opens a new record over the completed one. If its process
  dies or hangs there, a cancel takes that record, finds no publication under its
  id, and deletes the destination, which holds the only copy.

Three more disagreements are described above with the exceptions they force on
the properties, and have no run of their own: overlapping label changes
(`NotebookContent_labels.cfg`), a run retried twice (`Jobs_retry.cfg`), and a cancel that
unfences a running move (the exception `lifted`).

## Theorems

`BoundsAssumption`, `LeaseAssumption`, `PoolAssumption`, `ContentAssumption`,
`EditorAssumption`, `JobsAssumption`, `MoveAssumption` and `AppPoolAssumption` give the
constants their types.
`RetentionAssumption` (an attempt followed by a sweep is shorter than the
retention window: minutes against days) is needed only where retention is.

**Catalog** (`CatalogProofs`). `TypeCorrect` and
`SnapshotsImmutableHolds` (the contents of a snapshot never change) need nothing else. `PointerResolvesHolds`,
`RollbackAvailableHolds`, `ConflictMeansProgressHolds` and `AuditOnceHolds` are
proved under `AdapterRetries = FALSE`; run `catalog_s3` shows that the first fails
without it. They follow from one inductive invariant, `IInv`, whose parts are:

* `IdsInv`, `OwnInv`: ids in use are below `nextId`, and no two calls own the same
  uploaded snapshot;
* `UncommittedInv`: what a call has uploaded and not committed is not named by
  `catalog.json`, nor expected by any other call. This makes the clean-up after
  a lost race safe;
* `NeededExist`: the snapshots the pointer needs exist, `PendingInv`: those a
  call in flight would need after its commit exist as well;
* `SweepInv`: what a sweep has doomed is neither needed by the pointer nor can
  become so, because any attempt that would publish it is younger than the
  retention window. Without it, the sweep's stale view of the pointer breaks
  induction;
* `LostInv`, `DraftInv`: where the contents a call will publish come from;
* `ProgressInv`, `AuditInv`: the counting behind `ConflictMeansProgressHolds` and
  `AuditOnceHolds`.

`ImplementsCatalogAbsHolds` is the refinement, from the same invariant and under the
same hypothesis: the initial states map to initial ones (`InitMaps`) and every step to a
step of `CatalogAbs` or to none (`NextMaps`). The conditional PUT of the pointer is the
instant at which a call takes effect (`CommitMaps`): `DraftInv` says that what it
publishes is the effect on the value then current, and `LostInv` that `initialize` does
not get there once a catalog was lost. Uploads, sweeps and clean-ups are hidden, because
`NeededExist` and `BodiesKept` keep the current value (`SameValue`).

**Lease** (`LeaseProofs`). `TypeCorrect`, `OneWorkerHolds`,
`StepsStartUnderLeaseHolds` (a sweep starts a step only while the lease names it)
and `OrderlyEndFreesLeaseHolds`, for any set of
replicas, any deadline and any number of faults. `OneWorker` is not inductive:
the strengthening says that an attempt within its deadline that acquired the
lease is named by the record, whose expiry is the attempt's deadline
(`WorkUnderLease`, `DeadlineAhead`), that an attempt still acquiring is not named
by it (`AcquiringInv`), and what a release, punctual or late, may match
(`ReleasingInv`, `LateInv`).

**Warm pool** (`WarmPoolProofs`), under `PoolAssumption`, for any
finite set of sandboxes and any sessions, replicas, sizes and number of faults.

* `TypeCorrect`. `TypeOK` is not inductive: `Shape` adds that a route past its
  claim, a sweep at a member and a running clean-up each know a sandbox, not
  `None`.
* `SandboxHandedOutOnce`. `HandedOutOnce` speaks of session records only. The
  invariant adds that a record names what its route claimed (`RecordInv`), that a
  claimed sandbox has one claimant and is never on offer again (`ClaimInv`), and
  that an unused id is not on offer (`UnusedInv`), so that no step can offer a
  claimed sandbox as a new one. `OutStays` carries it: only the step that uses an
  id for the first time puts it on offer, however stale the view of a sweep, a
  clean-up or a late creation is.
* `PoolWithinSize`, if there is a replica at all. Every step but
  `ReserveCreations` can only shrink the set of available members, and
  `ReserveCreations` counts them in the same conditional PUT that adds to them.

* `SessionKeepsSandboxHolds`. A sandbox is destroyed by a clean-up, by the retirer of an
  ended session or by the orphan reaper, each some requests after it looked. `KInv` says
  what is still true by then. A clean-up past its second look (`CleanInv`) and the reaper
  past its listing of the pools (`ReapInv`) act on a sandbox that is `Doomed`: used, and
  retiring or not listed, which no step undoes. A sweep removes a claimed member only if
  the sandbox is down and `Spent`, that is, doomed or claimed for a session that is over
  (`SweepInv`), although what it has read may be old (`SeenInv`); that rests on what an
  assigned member says of its session (`HandInv`) and on a record saying that its sandbox
  was reclaimed being right (`ReclaimedInv`). What is on offer, or claimed for a session
  that lives, is up (`MemberInv`, `FillInv`), and nobody brings it up again once it has
  `Landed`. So a session that was given its sandbox owns a member that is claimed,
  assigned and up (`KeptInv`): only its own route may retire it. The effects of a step on
  a member, a sandbox, a session, a clean-up, a sweep and the reaper are stated first
  (`MemChanges` to `ReapChanges`); the parts of the invariant are shown against those.
* `ClaimedMembersTrackedHolds`, an action property, from the same invariant: a claimed
  member leaves the object by a clean-up that has destroyed the sandbox, or by a sweep
  that found its session over and the sandbox down.

**Notebook content** (`ContentProofs`), under `ContentAssumption`, for any number of
clients, notebooks, keys, requests and faults. `StepEffect` first says what each step
changes of the store and of the requests, a failed request to the store included, so
that each invariant is shown against sixteen effects instead of twenty-three actions.

* `TypeCorrect`. `Shape` adds to `TypeOK` what a request knows at each of its steps.
* `ListedExistsHolds`. `ListedExists` is not inductive. `ListedInv` adds that an id not
  given out names nothing (`IdsInv`), that a creation is alone with its notebook until
  the append, which finds record and files in place (`CreateInv`), that what is listed as
  deleted has no active record (`DeadInv`), that what a sweep is about to purge is
  neither active nor being created (`SweepInv`), and that a projection a writer has read
  and may still commit does not revive an entry (`PatchInv`): it is committed only if
  the catalog has not changed since, and the record may only have gone further.
* `LabelsNeverWrongHolds`: an entry with the marker of a label
  change shows no labels; unless label changes of the notebook have overlapped, there is
  one at a time and its marker is there while the record is written
  (`MarkerInv`), and a projection still to be committed keeps the marker and shows the
  labels of the record or none (`LabelPatchInv`).
* `RetryCreatesNothingHolds`: what was answered under a key is recorded under it
  (`RetryInv`), and a request that began after the answer meets the record.
* `RecordsSettleHolds`, with label changes that overlap as well. The property is about
  the end of the requests, so `SettleInv` has to say what is outstanding before it.
  `EntryInv`: an entry agrees with the record, or some request still owes it (it has yet
  to read, or its commit will be refused, or what it read is still exact); of several
  that are about to commit, one whose projection is out of date has another behind it; a
  marker belongs to a label change under way. `DeleteInv`: one request at a time deletes
  a notebook, and the entry stays active only until that request has committed.
  `CountInv`: the project counts the active notebooks and those whose deletion is still
  to be counted, a finite set that a step changes by one element at most. `PurgedInv`,
  `BlankInv` and `UndoInv` tie the sweep, the entries that are gone and the undoing of a
  creation to this. A step touches one notebook, or none, but for the last
  one of a sweep; `Apart` disposes of the others.
  TLC has checked `SettleInv` on the instance of `content_records`, with overlapping label
  changes too, and with three clients.

**Jobs** (`JobsProofs`), under `JobsAssumption`, for any number of
processes, runs, occurrences, retries, requests and faults. `StepEffect` says what each
step changes of the records, the markers and the lease; each part of `RunsInv` is shown
against its fifteen effects.

* `TypeCorrect`. `Shape` adds to `TypeOK` what the operation under the lease knows at
  each of its steps.
* `LiveRunsMarkedHolds`, `OccurrenceOnceHolds`. A prune deletes only the marker of a run whose
  record a HEAD has missed (`DoubtInv`), and no other run has to fear it. A run id is given out once, to a claim, a
  request or a marker (`IdsInv`); nothing is enqueued once the job is being deleted
  (`DeleteInv`); what a finalizer, a stale listing or a deletion takes for ended has
  ended (`OverInv`), so none of them removes the marker of a live run; an enqueue finds
  its marker in place and its record missing (`EnqueueInv`); the first attempt of an
  occurrence is the run its claim names (`FirstInv`).
* `ExecutedOnceHolds`. A process past the update to provisioning has left a run that is
  no longer queued, which is the only state that update starts from (`ExecInv`).
* `EndedRunsSettledHolds`. The operation that will remove a marker has done, step by
  step, what is owed to the run (`FinalInv`); the id of the retry is that of the marker,
  so a retry cut short is found again (`LinkInv`).
* `WithinCapHolds` needs most. The records count in the order of their creation
  (`AtInv`). A process dispatches no run before the older ones (`LoadInv`). What the
  listing of a tick has missed is younger than all that waits, and nobody has
  dispatched it (`ListInv`). While a tick sorts its listing, a set that fits the cap
  covers all that is in use, and with a waiting run all older ones (`RoomInv`): then
  either that set covers also what the tick admits, or all that is in use is among what
  the tick has counted and admitted.

**Editor sessions** (`EditorProofs`), under `EditorAssumption`, for any number of
sessions, users, takeovers, retries, operations at once and faults, and with any of the
provisions slow. `StepEffect` says what each step does to the saga, record and sandbox of a session, to
the claim, to a teardown and to a takeover request.

* `OneTimelyEditorHolds`. Not inductive: the claim moves while sessions still end. `HolderInv`
  says that a timely editor that runs holds the claim or waits to complete a takeover that is
  ready, and that whoever has read the claim and may still replace it found a holder
  that went stale or stays dead (`StaleIsDead`), so that the one who loses the claim is
  never a timely one. What a takeover has begun to end, only it ends
  (`DrainedInv`); its goal stays the holder it found (`GoalInv`).
* `FencedSavesHolds`, an action property. Five kinds of teardown ask for the claim, and
  save some requests later. `SaveInv`: whoever may still save a session finds it holding
  the claim, or nothing is left to save. It rests on `TornInv`, once a destroy is
  confirmed the sandbox has gone, was never handed over, or is that of a slow start
  (`Safe`), and on `RetireInv`, a stop
  that may still save comes before any other teardown; so a session loses the claim only
  when its sandbox has gone or its saga has given up (`HolderLeaves`, `TornSaving`).
* `DisplacedGoneHolds`, an action property: past the mark the record of the displaced
  session says that it was reclaimed (`ReclaimInv`), and `TornInv` again.

**Notebook moves** (`MoveProofs`), under `MoveAssumption`, for any number of clients,
writers, moves and faults. `StepEffect` says what each step of a client or a writer
changes. All but `TypeCorrect` are proved under `StalePosts = FALSE`, which
`move_cancel` shows to be necessary.

* `ReadableIsListedHolds`, `ListedIsWholeHolds` (the listed copy has its metadata and
  files, also while files are uploaded). An executor that lost its lease may go on, so
  `PlaceInv` says what holds of all of them: a client in a step that could destroy
  something (`Sure`) is the one the record names (`LeaseInv`); ids are given out once
  (`IdInv`); the catalog, the phase of the record and the step of every client past the
  publication agree (`PhaseInv`); unless a cancel lifted the fence, the source is fenced
  under the published id from the verification on, and in any case the copy until then
  (`FenceInv`); what is listed, or about to be, was copied (`WholeInv`).
* `NothingLostHolds`, uploads included. Each write at its objects has the workspace lease
  or knows that it lost it (`WriterInv`); the captured token is never ahead of the
  source's, and an executor of the record has the record's capture (`CaptureInv`). Two
  things say that the source has not changed: for saves, commits and deletes that the
  two tokens agree (`AsCaptured`), for uploads that the fence of the record is in place
  and was never stamped late (`Shielded`). While they hold, no write admitted before the
  fence is still at its objects once the drain has passed (`DrainInv`), so the copy holds
  what was acknowledged (`AckInv`).

**App pools** (`AppPoolProofs`), under `AppPoolAssumption`, for any finite set of
visitors and any admins, saves, sessions, versions and number of faults. `StepEffect`
again says what each step does. Most only let sessions fade (`Fades`): no member joins
the pool, none that retires comes back, no session comes to life.

* `TypeCorrect`, `VersionKeptHolds`. `VersionKept` is not inductive; `AppInv` adds why a
  session and a save cannot miss each other. A session id is given out once, to one
  request, which alone writes the record and reads the cutoff (`OwnerInv`). Versions are
  written in order, and the head is one of the kept (`HeadInv`). What is pruned, or about
  to be, is older than the head and not above the cutoff (`PruneInv`), so a session reserved
  at the head, or checked against the cutoff after it moved, runs none of it. What a save
  has read so far protects every member and every checked session that still runs
  (`ProtInv`).
* `VisitsKeptHolds`, an action property. The part of `AppInv` it needs is `MarkInv`: the
  member that the sweep has marked is retiring or gone, so what the sweep removes at the
  end of its turn is not in use, although it decided several requests earlier.

## What stays with TLC

Liveness (`MaintenanceRecurs`, `NothingLeaks`, `NothingForgotten`,
`RunsSettle`, `DeletedStops`, `NotebookReturns`, `PublicationCompletes`, `NothingIdles`, `DeletedPurged`): fairness and
`ENABLED` are outside what the proof system supports. The violated runs.
`TakeoverContinuity` of `EditorSession`, which holds of one takeover only.

## Not modelled

Beyond the components listed under [plan](#plan) as still to come: the wire
protocols of the adapters, caches that are validated by ETag before use, metrics,
logging and tracing, schema upgrades of stored records, and clock skew between
replicas. Most of the repository's lines are the web interface, a generated client
schema, configuration, adapters and data handling, which keep no shared state and
have nothing to interleave; the models cover the services that do. Retention of
audit events deletes folders of days that are over, which
no writer touches. The components that are not worth modelling are listed in
`PROJECT.json` with the reason.
