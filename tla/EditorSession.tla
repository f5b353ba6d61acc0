--------------------------- MODULE EditorSession ---------------------------
(***************************************************************************)
(* The persistent editor sessions of one notebook: their records and       *)
(* sandboxes, the editor claim and its transfer to another user, the saga  *)
(* that creates a session, teardown, reclaim, the takeover drain with its  *)
(* lease, expiry and reconciliation (SessionService.ts, SessionRetirer.ts, *)
(* ReconciliationService.ts, sessionLifecycle.ts, routes/sessions.ts).     *)
(*                                                                         *)
(* One action is one request to the store or to the compute provider.  A   *)
(* conditional update of an object (mutateObject) is one step; claimEditor *)
(* is two, because it reads the holder's record between reading the claim  *)
(* and replacing it.  A capture reads a sandbox and commits what it read   *)
(* in one step.  What a notebook contains is reduced to whose save it is.  *)
(***************************************************************************)
EXTENDS Naturals, FiniteSets

CONSTANTS
    Sessions,   \* session ids; each is used once
    Users,
    Owner,      \* Owner[s]: the user who opens s
    Takeovers,  \* takeover ids; each is used once
    Requester,  \* Requester[t]: the user who takes over
    Loops,      \* the maintenance loops that run: "reconcile", "sweep"
    Drivers,    \* requests that retry a takeover whose drain has failed
    Attachment, \* values of attach: does the provider implement connectExisting?
    Slow,       \* bound: the sessions whose provision may outlive HEARTBEAT_TTL_MS
    MaxBusy,    \* bound on the operations in progress at once
    MaxFaults,  \* bound on crashes and failed requests
    None

ASSUME EditorAssumption ==
    /\ Owner \in [Sessions -> Users]
    /\ Requester \in [Takeovers -> Users]
    /\ Takeovers \intersect Drivers = {}
    /\ Loops \subseteq {"reconcile", "sweep"}
    /\ Attachment \subseteq BOOLEAN /\ Slow \subseteq Sessions
    /\ MaxBusy \in Nat /\ MaxFaults \in Nat
    /\ None \notin Sessions \union Takeovers \union Drivers

VARIABLES
    rec,        \* rec[s]: the session record
    stale,      \* sessions that were still starting HEARTBEAT_TTL_MS after their start
    box,        \* box[s]: the sandbox of s at the provider
    head,       \* whose save the stored notebook is
    claim,      \* the editor claim with its transfer
    lapsed,     \* the drain lease in the claim has expired
    fresh,      \* sagas that read the claim since it was last written
    saga,       \* saga[s]: the request that creates s
    work,       \* work[k][s]: the next step of teardown k of session s
    missing,    \* sandboxes that reconcile's provider listing lacked
    kpc,        \* kpc[k]: the next step of takeover request k
    goal,       \* goal[k]: the takeover it is about and the session it displaces
    attach,     \* this deployment's provider can attach to a sandbox that exists
    faults

recVars == <<rec, stale>>
boxVars == <<box, head>>
claimVars == <<claim, lapsed, fresh>>
takeVars == <<kpc, goal>>
vars == <<recVars, boxVars, claimVars, saga, work, missing, takeVars, attach, faults>>

Terminal == {"terminated", "failed", "expired"}
Absent == {"none", "reaped"}
Status == Absent \union Terminal \union {"starting", "running", "terminating"}

\* SessionSchema: status, sandbox_url, terminating_at,
\* takeover_capture_completed_at, sandbox_reclaimed_at.
Record == [st : Status, url : BOOLEAN, stop : BOOLEAN, cap : BOOLEAN, rcl : BOOLEAN]
NoRecord == [st |-> "none", url |-> FALSE, stop |-> FALSE, cap |-> FALSE, rcl |-> FALSE]

\* A sandbox is booting, up, up with the workspace restored and an idle kernel (ready)
\* or one that is in use or does not answer (busy), or gone.
Box == {"none", "boot", "up", "ready", "busy", "gone"}
Present == {"up", "ready", "busy"}

Phases == {"none", "requested", "draining", "ready"}
Claim == [holder : Sessions \union {None}, t : Takeovers \union {None}, phase : Phases,
          repl : Sessions \union {None}, lease : Drivers \union {None}]
NoClaim == [holder |-> None, t |-> None, phase |-> "none", repl |-> None, lease |-> None]

\* Teardowns of a session: the one its stop started, and the reclaims of the
\* reconciler and of the lifecycle sweep, which may run at once.
Kinds == {"retire"} \union Loops
Requests == Takeovers \union Drivers
Goal == [t : Takeovers \union {None}, s : Sessions \union {None}]
NoGoal == [t |-> None, s |-> None]

SagaSteps == {"idle", "record", "claim", "put", "provision", "running", "recheck", "reput",
              "done", "unclaim", "drop", "undo", "destroy", "release", "mark", "over"}
SagaOver == {"done", "over"}
\* The next step; the ready takeover the request started from; whose save the
\* prefetched workspace was; whether it failed with EditorClaimLostError.
Saga == [pc : SagaSteps, knew : Takeovers \union {None}, base : Sessions \union {None},
         lost : BOOLEAN]
NoSaga == [pc |-> "idle", knew |-> None, base |-> None, lost |-> FALSE]
WorkSteps == {"no", "owns", "capture", "destroy", "mark", "reclaim", "release", "end",
              "snapowns", "snap"}
TakeSteps == {"idle", "begin", "read", "capture", "keep", "captured", "advance", "destroy",
              "gone", "reclaim", "final", "mark", "finish", "fail", "over"}

TypeOK ==
    /\ rec \in [Sessions -> Record]
    /\ stale \subseteq Sessions
    /\ box \in [Sessions -> Box]
    /\ head \in Sessions \union {None}
    /\ claim \in Claim
    /\ lapsed \in BOOLEAN
    /\ fresh \subseteq Sessions
    /\ saga \in [Sessions -> Saga]
    /\ work \in [Kinds -> [Sessions -> WorkSteps]]
    /\ missing \subseteq Sessions
    /\ kpc \in [Requests -> TakeSteps]
    /\ goal \in [Requests -> Goal]
    /\ attach \in BOOLEAN
    /\ faults \in 0..MaxFaults

Init ==
    /\ rec = [s \in Sessions |-> NoRecord]
    /\ stale = {} /\ missing = {} /\ fresh = {}
    /\ box = [s \in Sessions |-> "none"]
    /\ head = None
    /\ claim = NoClaim /\ lapsed = FALSE
    /\ saga = [s \in Sessions |-> NoSaga]
    /\ work = [k \in Kinds |-> [s \in Sessions |-> "no"]]
    /\ kpc = [k \in Requests |-> "idle"]
    /\ goal = [k \in Requests |-> NoGoal]
    /\ attach \in Attachment
    /\ faults = 0

Fault == faults < MaxFaults /\ faults' = faults + 1
NoFault == UNCHANGED faults

\* The bound on what runs at once: sagas, teardowns and takeover requests.
Busy ==
    Cardinality({s \in Sessions : saga[s].pc \notin {"idle"} \union SagaOver})
    + Cardinality({w \in Kinds \X Sessions : work[w[1]][w[2]] # "no"})
    + Cardinality({k \in Requests : kpc[k] \notin {"idle", "over"}})
MayStart == Busy < MaxBusy

-----------------------------------------------------------------------------
(* Records.                                                                *)

\* isReusableSession: a caller may attach to it.
IsReusableSession(s) ==
    \/ rec[s].st = "running"
    \/ rec[s].st = "starting" /\ s \notin stale

\* getLiveEditorHolder: it keeps the claim also while its sandbox may be there.
LiveEditorHolder(s) ==
    /\ s # None
    /\ \/ IsReusableSession(s)
       \/ rec[s].st \in Terminal \union {"terminating"} /\ ~rec[s].rcl

\* isLivePersistingEditor.
LivePersistingEditor(s) == rec[s].st \in {"starting", "running"}

\* beginTerminating: nextStatus(status, 'terminate') is not null.
MayBeginTerminating(s) == rec[s].st \in {"starting", "running"}
BeginTerminating(s) ==
    rec' = [rec EXCEPT ![s].st = "terminating", ![s].stop = TRUE]

\* markTerminated: a terminal status stays as it is.
MarkTerminated(s) ==
    rec' = IF rec[s].st \in Absent THEN rec
           ELSE [rec EXCEPT ![s].st = IF @ \in Terminal THEN @ ELSE "terminated",
                            ![s].stop = FALSE]

\* markFailed: never downgrades a stop.
MarkFailed(s) ==
    rec' = IF rec[s].st \in {"starting", "running"} THEN [rec EXCEPT ![s].st = "failed"] ELSE rec

\* markSandboxReclaimed, markTakeoverCaptureCompleted: whatever the status is.
MarkSandboxReclaimed(s) ==
    rec' = IF rec[s].st \in Absent THEN rec ELSE [rec EXCEPT ![s].rcl = TRUE]
MarkCaptureCompleted(s) ==
    rec' = IF rec[s].st \in Absent THEN rec ELSE [rec EXCEPT ![s].cap = TRUE]

\* Time: a starting record, which gets no heartbeat, is HEARTBEAT_TTL_MS old.  Its
\* provision may still be on its way.
GoStale(s) ==
    /\ s \notin stale
    /\ rec[s].st = "starting" /\ (s \in Slow \/ saga[s].pc = "over")
    /\ stale' = stale \union {s}
    /\ UNCHANGED <<rec, boxVars, claimVars, saga, work, missing, takeVars, attach, faults>>

\* expireStale.  Nobody sends heartbeats for a running session, or its teardown
\* hangs: the heartbeat grows old at any time.
ExpireStale(s) ==
    /\ \/ rec[s].st = "starting" /\ s \in stale
       \/ rec[s].st \in {"running", "terminating"}
    /\ rec' = [rec EXCEPT ![s].st = IF @ = "terminating" THEN "terminated" ELSE "expired"]
    /\ UNCHANGED <<stale, boxVars, claimVars, saga, work, missing, takeVars, attach, faults>>

\* reapTerminated: the record goes TERMINAL_RETENTION_MS later, if its sandbox has
\* gone.  Nothing that works on the session takes that long.
ReapTerminated(s) ==
    /\ rec[s].st \in Terminal /\ rec[s].rcl
    /\ saga[s].pc \in SagaOver /\ \A k \in Kinds : work[k][s] = "no"
    /\ \A k \in Requests : goal[k].s # s
    /\ rec' = [rec EXCEPT ![s] = [NoRecord EXCEPT !.st = "reaped"]]
    /\ UNCHANGED <<stale, boxVars, claimVars, saga, work, missing, takeVars, attach, faults>>

-----------------------------------------------------------------------------
(* The provider.                                                           *)

BootDone(s) ==
    /\ box[s] = "boot"
    /\ box' = [box EXCEPT ![s] = "up"]
    /\ UNCHANGED <<recVars, head, claimVars, saga, work, missing, takeVars, attach, faults>>

\* A sandbox dies by itself.
BoxDies(s) ==
    /\ box[s] \in Present
    /\ box' = [box EXCEPT ![s] = "gone"]
    /\ Fault
    /\ UNCHANGED <<recVars, head, claimVars, saga, work, missing, takeVars, attach>>

\* Users reach the kernel of an expired session, whose heartbeats come another way, or
\* it stops answering; and the other way round.  Of other sessions nobody asks.
KernelUse(s) ==
    /\ rec[s].st = "expired" /\ ~rec[s].rcl
    /\ \/ box[s] = "ready" /\ box' = [box EXCEPT ![s] = "busy"]
       \/ box[s] = "busy" /\ box' = [box EXCEPT ![s] = "ready"]
    /\ UNCHANGED <<recVars, head, claimVars, saga, work, missing, takeVars, attach, faults>>

\* destroy: confirmed also when there is nothing yet to destroy.
Destroyed(s) == box' = IF box[s] = "boot" THEN box ELSE [box EXCEPT ![s] = "gone"]

\* captureSession: the stored notebook becomes what the sandbox holds.
Capture(s) == box[s] \in Present /\ head' = s

-----------------------------------------------------------------------------
(* The claim.                                                              *)

\* Any write changes the ETag, so whoever read the claim before must retry.
PutClaim(c) == claim' = c /\ fresh' = {}

\* editorClaimHolder throws TakeoverInProgressError for everybody but the
\* requester of a takeover that is ready.
TransferBars(s) ==
    claim.t # None /\ (claim.phase # "ready" \/ Requester[claim.t] # Owner[s])
ClaimHolder == IF claim.t = None THEN claim.holder ELSE claim.repl

\* Mutant: a claim that somebody else holds is taken for a claim that was won.
ClaimGrantedToLoser(s) == claim.holder # None /\ ~TransferBars(s)

\* claimEditor up to its decision.
ClaimGranted(s) == claim.holder = s \/ (~TransferBars(s) /\ ClaimHolder = s)
ClaimRefused(s) == ~ClaimGranted(s) /\ ~TransferBars(s) /\ LiveEditorHolder(ClaimHolder)
ClaimStale(s) == ~ClaimGranted(s) /\ ~TransferBars(s) /\ ~LiveEditorHolder(ClaimHolder)

\* claimEditor's conditional PUT.
Claimed(s) ==
    IF claim.t = None THEN [claim EXCEPT !.holder = s] ELSE [claim EXCEPT !.repl = s]

\* releaseEditorFor: only the holder, and never under a transfer.
ReleaseEditorFor(s) ==
    IF claim.holder = s /\ claim.t = None
    THEN PutClaim([claim EXCEPT !.holder = None])
    ELSE UNCHANGED <<claim, fresh>>

\* findReusableEditor: a request that finds no claim adopts the one live editor.
AdoptEditor(s) ==
    /\ claim.holder = None /\ claim.t = None
    /\ {x \in Sessions : IsReusableSession(x)} = {s}
    /\ PutClaim(Claimed(s))
    /\ UNCHANGED <<recVars, boxVars, lapsed, saga, work, missing, takeVars, attach, faults>>

\* cancelRequestedTakeover, by getEditorClaim once TAKEOVER_REQUEST_TTL_MS has
\* passed, or by a second request with the same id: the drain may be running.
CancelRequested ==
    /\ claim.phase = "requested"
    /\ PutClaim([claim EXCEPT !.t = None, !.phase = "none"])
    /\ UNCHANGED <<recVars, boxVars, lapsed, saga, work, missing, takeVars, attach, faults>>

-----------------------------------------------------------------------------
(* The saga that creates a session (createNotebookSession).                *)

sagaOnly == <<work, missing, takeVars, attach>>
At(s, step) == saga[s].pc = step
Becomes(s, r) == saga' = [saga EXCEPT ![s] = r]
Goes(s, step) ==
    Becomes(s, IF step \in SagaOver THEN [NoSaga EXCEPT !.pc = step]
               ELSE [saga[s] EXCEPT !.pc = step])

\* Mutant: the requester of a takeover need not wait for the drain.
PreflightDuringDrain(s) ==
    /\ MayStart
    /\ At(s, "idle")
    /\ claim.t # None => Requester[claim.t] = Owner[s]
    /\ ~LiveEditorHolder(ClaimHolder)
    /\ claim.holder = None => \A x \in Sessions : ~IsReusableSession(x)
    /\ box' = [box EXCEPT ![s] = "boot"]
    /\ Becomes(s, [saga[s] EXCEPT !.pc = "record", !.knew = claim.t])
    /\ UNCHANGED <<recVars, head, claimVars, sagaOnly, faults>>

\* The checks of a request up to the start of the saga, and its sandbox_boot
\* step.  A live holder is attached to or named in the refusal, a retiring one
\* refuses; a takeover in progress refuses all but its requester.
Preflight(s) ==
    /\ MayStart
    /\ At(s, "idle")
    /\ ~TransferBars(s)
    /\ ~LiveEditorHolder(ClaimHolder)
    /\ claim.holder = None => \A x \in Sessions : ~IsReusableSession(x)
    /\ box' = [box EXCEPT ![s] = "boot"]
    /\ Becomes(s, [saga[s] EXCEPT !.pc = "record", !.knew = claim.t])
    /\ UNCHANGED <<recVars, head, claimVars, sagaOnly, faults>>

\* session_record: createSession, then the prefetch of the workspace begins.
CreateRecord(s) ==
    /\ At(s, "record")
    /\ \/ /\ rec' = [rec EXCEPT ![s].st = "starting"]
          /\ Becomes(s, [saga[s] EXCEPT !.pc = "claim", !.base = head]) /\ NoFault
       \/ /\ rec' \in {rec, [rec EXCEPT ![s].st = "starting"]}
          /\ Goes(s, "undo") /\ Fault
    /\ UNCHANGED <<stale, box, head, claimVars, sagaOnly>>

\* claimEditor's read and decision, in the admission step and in running_rechecks.
ClaimRead(s, read, put, won, failed) ==
    /\ At(s, read)
    /\ \/ ClaimGranted(s) /\ Goes(s, won) /\ UNCHANGED fresh
       \/ /\ ClaimRefused(s)
          /\ Becomes(s, [saga[s] EXCEPT !.pc = failed, !.lost = TRUE]) /\ UNCHANGED fresh
       \/ ~ClaimGranted(s) /\ TransferBars(s) /\ Goes(s, failed) /\ UNCHANGED fresh
       \/ ClaimStale(s) /\ Goes(s, put) /\ fresh' = fresh \union {s}
    /\ NoFault
    /\ UNCHANGED <<recVars, boxVars, claim, lapsed, sagaOnly>>

\* claimEditor's conditional PUT; when the ETag has moved on it reads again.
ClaimPut(s, read, put, won) ==
    /\ At(s, put)
    /\ IF s \in fresh
       THEN PutClaim(Claimed(s)) /\ Goes(s, won)
       ELSE Goes(s, read) /\ UNCHANGED <<claim, fresh>>
    /\ NoFault
    /\ UNCHANGED <<recVars, boxVars, lapsed, sagaOnly>>

Admission(s) ==
    \/ ClaimRead(s, "claim", "put", "provision", "unclaim")
    \/ ClaimPut(s, "claim", "put", "provision")

\* The other checks of the admission step may fail when the claim has been won.
AdmissionFails(s) ==
    /\ At(s, "provision") /\ box[s] # "ready"
    /\ Goes(s, "unclaim") /\ Fault
    /\ UNCHANGED <<recVars, boxVars, claimVars, sagaOnly>>

\* sandbox_provision restores the workspace into the sandbox once it is up.
Provision(s) ==
    /\ At(s, "provision")
    /\ \/ /\ box[s] = "up"
          /\ box' = [box EXCEPT ![s] = "ready"]
          /\ Goes(s, "running") /\ NoFault
       \/ box[s] = "gone" /\ Goes(s, "destroy") /\ NoFault /\ UNCHANGED box
       \/ box[s] = "up" /\ Goes(s, "destroy") /\ Fault /\ UNCHANGED box
    /\ UNCHANGED <<recVars, head, claimVars, sagaOnly>>

\* mark_running: setRunning leaves a record alone that is not starting any more.
SetRunning(s) ==
    /\ At(s, "running")
    /\ rec' = IF rec[s].st = "starting"
              THEN [rec EXCEPT ![s].st = "running", ![s].url = TRUE] ELSE rec
    /\ Goes(s, "recheck") /\ NoFault
    /\ UNCHANGED <<stale, boxVars, claimVars, sagaOnly>>

\* completeTakeover.
CompleteTakeover(s) ==
    /\ At(s, "recheck") /\ saga[s].knew # None
    /\ IF claim.t = saga[s].knew /\ claim.phase = "ready" /\ claim.repl = s
       THEN PutClaim([NoClaim EXCEPT !.holder = s]) /\ Goes(s, "done")
       ELSE Goes(s, "destroy") /\ UNCHANGED <<claim, fresh>>
    /\ NoFault
    /\ UNCHANGED <<recVars, boxVars, lapsed, sagaOnly>>

\* running_rechecks: the claim may have been lost while the sandbox started.
Recheck(s) ==
    \/ CompleteTakeover(s)
    \/ saga[s].knew = None /\ ClaimRead(s, "recheck", "reput", "done", "destroy")
    \/ ClaimPut(s, "recheck", "reput", "done")

\* cleanupColdSandbox waits for the boot, destroys and then marks the record.  A
\* failure is logged and the compensations go on.
Cleanup(s, from, to) ==
    /\ At(s, from) /\ box[s] # "boot"
    /\ \/ /\ box' = [box EXCEPT ![s] = "gone"]
          /\ MarkSandboxReclaimed(s) /\ NoFault
       \/ UNCHANGED <<box, rec>> /\ Fault
    /\ Goes(s, to)
    /\ UNCHANGED <<stale, head, claimVars, sagaOnly>>

Release(s, from, to) ==
    /\ At(s, from)
    /\ ReleaseEditorFor(s)
    /\ Goes(s, to) /\ NoFault
    /\ UNCHANGED <<recVars, boxVars, lapsed, sagaOnly>>

\* The catch block's last word on the record.
MarkEnded(s) ==
    /\ At(s, "mark")
    /\ IF saga[s].lost THEN MarkTerminated(s) ELSE MarkFailed(s)
    /\ Goes(s, "over") /\ NoFault
    /\ UNCHANGED <<stale, boxVars, claimVars, sagaOnly>>

\* A failed admission releases the claim before it cleans up, a failed provision
\* or recheck after it; without a record there is nothing to mark.
Compensate(s) ==
    \/ Release(s, "unclaim", "drop")
    \/ Cleanup(s, "drop", "mark")
    \/ Cleanup(s, "destroy", "release")
    \/ Release(s, "release", "mark")
    \/ Cleanup(s, "undo", "over")
    \/ MarkEnded(s)

\* The process that ran the saga is gone.
SagaCrashes(s) ==
    /\ saga[s].pc \notin {"idle"} \union SagaOver
    /\ Goes(s, "over") /\ Fault
    /\ UNCHANGED <<recVars, boxVars, claimVars, sagaOnly>>

SagaStep(s) ==
    \/ CreateRecord(s) \/ Admission(s) \/ Provision(s) \/ SetRunning(s)
    \/ Recheck(s) \/ Compensate(s)

-----------------------------------------------------------------------------
(* Teardown (SessionRetirer) and its callers.                              *)

workOnly == <<saga, missing, takeVars, attach>>
Does(k, s, step) == work' = [work EXCEPT ![k][s] = step]
Doing(k, s, step) == work[k][s] = step

\* retireSelectedSession and the sweep's gracefulTeardown: who wins the
\* terminating transition retires.  Past the authorization deadline nothing is saved.
Stop(s) ==
    /\ MayStart
    /\ MayBeginTerminating(s)
    /\ BeginTerminating(s)
    /\ \E step \in {"owns", "destroy"} :
          /\ step = "destroy" => rec[s].st = "running"
          /\ Does("retire", s, step)
    /\ NoFault
    /\ UNCHANGED <<stale, boxVars, claimVars, workOnly>>

\* reclaimCaptures, with supersededByLiveEditor; past is isPastAuthorizationDeadline.
ReclaimCaptures(s, past) ==
    /\ rec[s].st = "expired" \/ rec[s].stop
    /\ rec[s].st # "failed"
    /\ rec[s].url /\ ~past
    /\ \A x \in Sessions \ {s} : ~LivePersistingEditor(x)

\* reclaimProbes.  Both loops ask for an idle kernel: the sweep has probed it already,
\* or passes requireIdle.
ReclaimProbes(s, past) == rec[s].st = "expired" /\ ~past
Attaches(s, past) == ReclaimCaptures(s, past) \/ ReclaimProbes(s, past)

\* A stop's own teardown ends within RECLAIM_TEARDOWN_GRACE_MS, if it ends at all.
TearingDown(s) ==
    \/ work["retire"][s] # "no" \/ box[s] = "boot"
    \/ \E t \in Takeovers : goal[t].s = s /\ kpc[t] # "begin"

\* reclaimBlockedReason: not_terminal, teardown_grace, provision_grace (a provision ends
\* within RECLAIM_PROVISION_GRACE_MS) and attachment_unsupported.
ReclaimBlocked(s, past) ==
    \/ rec[s].st \notin Terminal \union {"terminating"}
    \/ /\ ~rec[s].rcl
       /\ \/ rec[s].stop /\ TearingDown(s)
          \/ rec[s].st = "expired" /\ ~past /\ ~rec[s].url /\ saga[s].pc \notin SagaOver
          \/ ~attach /\ Attaches(s, past)

\* What reclaim does next.  A sandbox that has gone shows when it attaches or when it
\* probes; a kernel that is in use or does not answer (kernel_active, kernel_unreachable)
\* ends the attempt, as does a failure to attach.
ReclaimPlan(s, past) ==
    IF rec[s].rcl THEN {"mark"}
    ELSE IF ~Attaches(s, past) THEN {"destroy"}
    ELSE IF box[s] \notin Present
    THEN {"mark", IF ReclaimProbes(s, past) THEN "destroy" ELSE "owns"}
    ELSE IF ReclaimProbes(s, past) /\ box[s] # "ready" THEN {}
    ELSE {IF ReclaimCaptures(s, past) THEN "owns" ELSE "destroy"}

\* Mutant: a session that never got a URL is not reclaimed.
ReclaimReachable(k, s, past) ==
    /\ MayStart
    /\ Doing(k, s, "no")
    /\ ~ReclaimBlocked(s, past)
    /\ rec[s].url
    /\ k = "sweep" => rec[s].st \in Terminal /\ ~rec[s].rcl
    /\ rec[s].rcl => rec[s].stop \/ (claim.holder = s /\ claim.t = None)
    /\ \E step \in ReclaimPlan(s, past) : Does(k, s, step)
    /\ NoFault
    /\ UNCHANGED <<recVars, boxVars, claimVars, workOnly>>

\* reclaim, by the reconciler and by the lifecycle sweep.  The reconciler comes
\* back to a reclaimed record only to finish what a crash left undone.
Reclaim(k, s, past) ==
    /\ MayStart
    /\ Doing(k, s, "no")
    /\ ~ReclaimBlocked(s, past)
    /\ k = "sweep" => rec[s].st \in Terminal /\ ~rec[s].rcl
    /\ rec[s].rcl => rec[s].stop \/ (claim.holder = s /\ claim.t = None)
    /\ \E step \in ReclaimPlan(s, past) : Does(k, s, step)
    /\ NoFault
    /\ UNCHANGED <<recVars, boxVars, claimVars, workOnly>>

\* The sweep's periodic snapshot of a running session, or of an expired one that
\* editors are still connected to.
Snapshot(s) ==
    /\ MayStart
    /\ "sweep" \in Loops /\ Doing("sweep", s, "no")
    /\ \/ rec[s].st = "running"
       \/ /\ rec[s].st = "expired" /\ ~rec[s].rcl /\ box[s] = "busy"
          /\ \A x \in Sessions : ~LivePersistingEditor(x)
    /\ Does("sweep", s, "snapowns")
    /\ NoFault
    /\ UNCHANGED <<recVars, boxVars, claimVars, workOnly>>

\* The sessions ownsEditorClaim takes for candidates when nobody holds the claim.
Candidates(s) ==
    {x \in Sessions :
        /\ rec[x].st \notin Absent /\ ~rec[x].rcl
        /\ x = s \/ rec[x].st \notin Terminal \/ rec[x].st = "expired"}

\* ownsEditorClaim: only the holder saves; a lone session adopts a free claim.
Owns(k, s, from, yes, no) ==
    /\ Doing(k, s, from)
    /\ \/ claim.holder = s /\ Does(k, s, yes) /\ UNCHANGED <<claim, fresh>>
       \/ /\ claim.holder = None /\ claim.t = None /\ Candidates(s) = {s}
          /\ PutClaim(Claimed(s)) /\ Does(k, s, yes)
       \/ /\ claim.holder # s
          /\ claim.holder = None => claim.t # None \/ Candidates(s) # {s}
          /\ Does(k, s, no) /\ UNCHANGED <<claim, fresh>>
    /\ NoFault
    /\ UNCHANGED <<recVars, boxVars, lapsed, workOnly>>

\* captureSession: a failed one is logged, and the teardown goes on.
Save(k, s, from, to) ==
    /\ Doing(k, s, from)
    /\ \/ Capture(s) /\ NoFault
       \/ box[s] \notin Present /\ NoFault /\ UNCHANGED head
       \/ Fault /\ UNCHANGED head
    /\ Does(k, s, to)
    /\ UNCHANGED <<recVars, box, claimVars, workOnly>>

\* Mutant: a failed destroy is taken for a confirmed one.
DestroyUnconfirmed(k, s) ==
    /\ Doing(k, s, "destroy")
    /\ \/ Destroyed(s) /\ NoFault
       \/ Fault /\ UNCHANGED box
    /\ Does(k, s, "mark")
    /\ UNCHANGED <<recVars, head, claimVars, workOnly>>

\* destroySandbox: a failed one leaves the marker and the claim to a later sweep.
Destroy(k, s) ==
    /\ Doing(k, s, "destroy")
    /\ \/ Destroyed(s) /\ Does(k, s, "mark") /\ NoFault
       \/ Does(k, s, IF k = "retire" THEN "end" ELSE "no") /\ Fault /\ UNCHANGED box
    /\ UNCHANGED <<recVars, head, claimVars, workOnly>>

\* retire's tail and finishReclaim.
Finish(k, s) ==
    /\ \/ /\ Doing(k, s, "mark") /\ MarkTerminated(s)
          /\ Does(k, s, "reclaim") /\ UNCHANGED claimVars
       \/ /\ Doing(k, s, "end") /\ MarkTerminated(s)
          /\ Does(k, s, "no") /\ UNCHANGED claimVars
       \/ /\ Doing(k, s, "reclaim") /\ MarkSandboxReclaimed(s)
          /\ Does(k, s, "release") /\ UNCHANGED claimVars
       \/ /\ Doing(k, s, "release") /\ ReleaseEditorFor(s)
          /\ Does(k, s, "no") /\ UNCHANGED <<rec, lapsed>>
    /\ NoFault
    /\ UNCHANGED <<stale, boxVars, workOnly>>

WorkCrashes(k, s) ==
    /\ ~Doing(k, s, "no")
    /\ Does(k, s, "no") /\ Fault
    /\ UNCHANGED <<recVars, boxVars, claimVars, workOnly>>

WorkStep(k, s) ==
    \/ Owns(k, s, "owns", "capture", "destroy")
    \/ Save(k, s, "capture", "destroy")
    \/ Destroy(k, s) \/ Finish(k, s)
    \/ Owns(k, s, "snapowns", "snap", "no")
    \/ Save(k, s, "snap", "no")

-----------------------------------------------------------------------------
(* Takeover by another user (takeOverNotebookEditor) and its retries, which *)
(* finish a failed drain under a lease in the claim (completeTakeoverDrain).*)

takeOnly == <<saga, work, missing, attach>>
Moves(k, step) ==
    /\ kpc' = [kpc EXCEPT ![k] = step]
    /\ goal' = IF step = "over" THEN [goal EXCEPT ![k] = NoGoal] ELSE goal
In(k, step) == kpc[k] = step
Target(k) == goal[k].s

\* reserveTakeover.  It is another user's editor that is taken over.
ReserveTakeover(t) ==
    /\ MayStart
    /\ In(t, "idle")
    /\ claim.holder # None /\ claim.t = None
    /\ Owner[claim.holder] # Requester[t]
    /\ PutClaim([claim EXCEPT !.t = t, !.phase = "requested"])
    /\ goal' = [goal EXCEPT ![t] = [t |-> t, s |-> claim.holder]]
    /\ kpc' = [kpc EXCEPT ![t] = "begin"] /\ NoFault
    /\ UNCHANGED <<recVars, boxVars, lapsed, takeOnly>>

\* cancelRequestedTakeover.
Cancelled(t) ==
    IF claim.t = t /\ claim.phase = "requested"
    THEN PutClaim([claim EXCEPT !.t = None, !.phase = "none"])
    ELSE UNCHANGED <<claim, fresh>>

\* The activity has changed, or another request already ends the session.
TakeoverRefused(t) ==
    /\ In(t, "begin")
    /\ Cancelled(t)
    /\ Moves(t, "over") /\ NoFault
    /\ UNCHANGED <<recVars, boxVars, lapsed, takeOnly>>

\* retireForTakeover begins: from here on a failure leaves a drain to finish.
BeginDrain(t) ==
    /\ In(t, "begin")
    /\ MayBeginTerminating(Target(t))
    /\ BeginTerminating(Target(t))
    /\ Moves(t, "capture") /\ NoFault
    /\ UNCHANGED <<stale, boxVars, claimVars, takeOnly>>

\* acquireTakeoverDrainLease, by a retry of the same request.
AcquireDrainLease(d) ==
    /\ MayStart
    /\ In(d, "idle")
    /\ claim.phase = "draining"
    /\ claim.lease = None \/ lapsed
    /\ PutClaim([claim EXCEPT !.lease = d])
    /\ lapsed' = FALSE
    /\ goal' = [goal EXCEPT ![d] = [t |-> claim.t, s |-> claim.holder]]
    /\ kpc' = [kpc EXCEPT ![d] = "read"] /\ NoFault
    /\ UNCHANGED <<recVars, boxVars, takeOnly>>

\* TAKEOVER_DRAIN_LEASE_MS passes while its holder is paused or stuck.
DrainLeaseLapses ==
    /\ claim.lease # None /\ ~lapsed
    /\ lapsed' = TRUE
    /\ UNCHANGED <<recVars, boxVars, claim, fresh, saga, work, missing, takeVars, attach, faults>>

\* A retry goes on where the record says the drain has come to.
ReadDrain(d) ==
    /\ In(d, "read")
    /\ Moves(d, IF rec[Target(d)].rcl THEN "final"
                ELSE IF rec[Target(d)].cap THEN "advance" ELSE "capture")
    /\ NoFault
    /\ UNCHANGED <<recVars, boxVars, claimVars, takeOnly>>

\* renewTakeoverDrainLease and advanceTakeoverDrainLease; the request that began
\* the drain holds no lease.
HoldsLease(d) ==
    claim.t = goal[d].t /\ claim.phase = "draining" /\ claim.lease = d /\ ~lapsed
AfterAssert ==
    [keep |-> "captured", advance |-> "destroy", gone |-> "reclaim", final |-> "mark"]
AssertLease(d) ==
    /\ kpc[d] \in DOMAIN AfterAssert
    /\ Moves(d, IF HoldsLease(d) THEN AfterAssert[kpc[d]] ELSE "fail")
    /\ NoFault
    /\ UNCHANGED <<recVars, boxVars, claimVars, takeOnly>>

\* teardownForTakeover: save, mark it, destroy, mark it.  A save that fails ends
\* this attempt.
DrainCapture(k) ==
    /\ In(k, "capture")
    /\ \/ Capture(Target(k)) /\ Moves(k, IF k \in Drivers THEN "keep" ELSE "captured") /\ NoFault
       \/ box[Target(k)] \notin Present /\ Moves(k, "fail") /\ NoFault /\ UNCHANGED head
       \/ Moves(k, "fail") /\ Fault /\ UNCHANGED head
    /\ UNCHANGED <<recVars, box, claimVars, takeOnly>>

\* Mutant: the drain stops at the save and leaves the sandbox to the sweeps.
DrainLeavesSandbox(k) ==
    /\ In(k, "captured")
    /\ MarkCaptureCompleted(Target(k))
    /\ Moves(k, IF k \in Drivers THEN "final" ELSE "mark") /\ NoFault
    /\ UNCHANGED <<stale, boxVars, claimVars, takeOnly>>

DrainMarkCaptured(k) ==
    /\ In(k, "captured")
    /\ MarkCaptureCompleted(Target(k))
    /\ Moves(k, IF k \in Drivers THEN "advance" ELSE "destroy") /\ NoFault
    /\ UNCHANGED <<stale, boxVars, claimVars, takeOnly>>

DrainDestroy(k) ==
    /\ In(k, "destroy")
    /\ \/ /\ Destroyed(Target(k)) /\ NoFault
          /\ Moves(k, IF k \in Drivers THEN "gone" ELSE "reclaim")
       \/ Moves(k, "fail") /\ Fault /\ UNCHANGED box
    /\ UNCHANGED <<recVars, head, claimVars, takeOnly>>

DrainMarkReclaimed(k) ==
    /\ In(k, "reclaim")
    /\ MarkSandboxReclaimed(Target(k))
    /\ Moves(k, IF k \in Drivers THEN "final" ELSE "mark") /\ NoFault
    /\ UNCHANGED <<stale, boxVars, claimVars, takeOnly>>

DrainMarkTerminated(k) ==
    /\ In(k, "mark")
    /\ MarkTerminated(Target(k))
    /\ Moves(k, "finish") /\ NoFault
    /\ UNCHANGED <<stale, boxVars, claimVars, takeOnly>>

\* setTakeoverPhase('ready'), which asks only for the takeover id, and
\* finishTakeoverDrainLease, which asks for the lease too.
FinishDrain(k) ==
    /\ In(k, "finish")
    /\ IF k \in Takeovers
       THEN /\ IF claim.t = k
               THEN PutClaim([claim EXCEPT !.phase = "ready", !.lease = None])
               ELSE UNCHANGED <<claim, fresh>>
            /\ Moves(k, "over")
       ELSE IF claim.t = goal[k].t /\ claim.phase = "draining" /\ claim.lease = k
            THEN PutClaim([claim EXCEPT !.phase = "ready", !.lease = None]) /\ Moves(k, "over")
            ELSE Moves(k, "fail") /\ UNCHANGED <<claim, fresh>>
    /\ NoFault
    /\ UNCHANGED <<recVars, boxVars, lapsed, takeOnly>>

\* A failed drain leaves the phase draining, a failed retry gives the lease back.
FailDrain(k) ==
    /\ In(k, "fail")
    /\ \/ /\ k \in Takeovers /\ claim.t = k
          /\ PutClaim([claim EXCEPT !.phase = "draining"])
       \/ /\ k \in Drivers /\ claim.lease = k
          /\ PutClaim([claim EXCEPT !.lease = None])
       \/ /\ claim.t # k /\ claim.lease # k
          /\ UNCHANGED <<claim, fresh>>
    /\ Moves(k, "over") /\ NoFault
    /\ UNCHANGED <<recVars, boxVars, lapsed, takeOnly>>

TakeoverCrashes(k) ==
    /\ kpc[k] \notin {"idle", "over"}
    /\ Moves(k, "over") /\ Fault
    /\ UNCHANGED <<recVars, boxVars, claimVars, takeOnly>>

DrainStep(k) ==
    \/ DrainCapture(k) \/ DrainMarkCaptured(k) \/ DrainDestroy(k) \/ DrainMarkReclaimed(k)
    \/ DrainMarkTerminated(k) \/ FinishDrain(k) \/ FailDrain(k)

-----------------------------------------------------------------------------
(* The reconciler's two rules about sandboxes and records that do not match. *)

\* listActive, read before the records are.
ListActive ==
    /\ "reconcile" \in Loops
    /\ missing' = {s \in Sessions : box[s] \notin Present /\ saga[s].pc # "idle"
                                   /\ rec[s].st \notin Terminal \union {"reaped"}}
    /\ missing' # missing
    /\ UNCHANGED <<recVars, boxVars, claimVars, saga, work, takeVars, attach, faults>>

\* Rule 2: a live record whose sandbox the listing lacked.  A starting one has
\* RECLAIM_PROVISION_GRACE_MS, by when its saga has ended.
MarkDead(s) ==
    /\ s \in missing
    /\ rec[s].st = "running" \/ (rec[s].st = "starting" /\ saga[s].pc \in SagaOver)
    /\ MarkFailed(s)
    /\ UNCHANGED <<stale, boxVars, claimVars, saga, work, missing, takeVars, attach, faults>>

\* Rule 3: a sandbox without a record, after the orphan grace.
ReapOrphan(s) ==
    /\ "reconcile" \in Loops
    /\ s \notin missing /\ box[s] \in Present
    /\ rec[s].st \in Absent /\ saga[s].pc \in SagaOver
    /\ Destroyed(s)
    /\ UNCHANGED <<recVars, head, claimVars, saga, work, missing, takeVars, attach, faults>>

-----------------------------------------------------------------------------
Next ==
    \/ \E s \in Sessions :
          \/ Preflight(s) \/ SagaStep(s) \/ AdmissionFails(s) \/ SagaCrashes(s)
          \/ GoStale(s) \/ ExpireStale(s) \/ ReapTerminated(s)
          \/ BootDone(s) \/ BoxDies(s) \/ KernelUse(s)
          \/ AdoptEditor(s) \/ Stop(s) \/ Snapshot(s)
          \/ MarkDead(s) \/ ReapOrphan(s)
          \/ \E k \in Loops, past \in BOOLEAN : Reclaim(k, s, past)
          \/ \E k \in Kinds : WorkStep(k, s) \/ WorkCrashes(k, s)
    \/ \E t \in Takeovers : ReserveTakeover(t) \/ TakeoverRefused(t) \/ BeginDrain(t)
    \/ \E d \in Drivers : AcquireDrainLease(d) \/ ReadDrain(d) \/ AssertLease(d)
    \/ \E k \in Requests : DrainStep(k) \/ TakeoverCrashes(k)
    \/ CancelRequested \/ DrainLeaseLapses \/ ListActive

Spec == Init /\ [][Next]_vars

\* A process that has not crashed goes on; the loops run again and again; time
\* passes for a session that is starting or ending; a boot ends.
Fairness ==
    \A s \in Sessions :
        /\ WF_vars(SagaStep(s)) /\ WF_vars(BootDone(s))
        /\ WF_vars(GoStale(s)) /\ WF_vars(ExpireStale(s) /\ rec[s].st # "running")
        /\ WF_vars(ReapTerminated(s))
        /\ WF_vars(ListActive) /\ WF_vars(MarkDead(s)) /\ WF_vars(ReapOrphan(s))
        /\ \A k \in Loops : SF_vars(Reclaim(k, s, FALSE))
        /\ \A k \in Kinds : WF_vars(WorkStep(k, s))
        /\ \A t \in Takeovers : WF_vars(TakeoverRefused(t) \/ DrainStep(t))
        /\ \A d \in Drivers : WF_vars(ReadDrain(d) \/ AssertLease(d) \/ DrainStep(d))
FairSpec == Spec /\ Fairness

-----------------------------------------------------------------------------
(* Properties.                                                             *)

\* "A live holder always wins" (claimEditor): two sessions that were handed to their
\* users as the notebook's editor are never running at once.
OneEditor ==
    \A s, x \in Sessions :
        /\ saga[s].pc = "done" /\ rec[s].st = "running"
        /\ saga[x].pc = "done" /\ rec[x].st = "running"
        => s = x

\* A session that was handed to its user and whose start did not take longer than
\* HEARTBEAT_TTL_MS.
Timely(s) == saga[s].pc = "done" /\ s \notin stale

\* No two timely editors run at once: claimEditor's read, decision and conditional PUT,
\* the recheck after setRunning and the destroy-before-release of every teardown,
\* together.  A start that outlives HEARTBEAT_TTL_MS may lose its claim and come up.
OneTimelyEditor ==
    \A s, x \in Sessions :
        Timely(s) /\ rec[s].st = "running" /\ Timely(x) /\ rec[x].st = "running" => s = x

\* A timely editor replaces the stored notebook only while it holds the claim, although
\* ownsEditorClaim is asked some time before the capture commits: the claim moves on
\* only when the sandbox that might save is gone.
FencedSaves ==
    [][head' # head /\ Timely(head') => claim.holder = head']_vars

\* When completeTakeover hands the claim over, the new editor started from the last
\* save there is, whichever of the drain, its retries, the sweeps and a stop saved last.
\* Of one takeover: the late request of a cancelled one may save what it displaced.
TakeoverContinuity ==
    [][\A s \in Sessions : CompleteTakeover(s) /\ saga'[s].pc = "done" => saga[s].base = head]_vars

\* The claim is handed over only when the displaced session is marked as reclaimed, or
\* reaped, and no sandbox is left that its user was given in time: ready follows the
\* destroy and the mark, whoever of the request, its retries and the sweeps came to them.
DisplacedGone ==
    [][\A s \in Sessions : CompleteTakeover(s) /\ saga'[s].pc = "done" =>
          /\ rec[claim.holder].st \in Absent \/ rec[claim.holder].rcl
          /\ Timely(claim.holder) => box[claim.holder] = "gone"]_vars

\* A session that was stopped, has failed or expired, or whose creation died, is in
\* the end without a sandbox, and its record says so: what one teardown leaves
\* undone, the reclaim, rule 2, rule 3 or the reaper finishes.  An expired session must
\* be found idle again and again; reclaim keeps it for good when its kernel never came
\* up, and when it would have to attach to the sandbox and the provider cannot.
Ended(s) ==
    \/ rec[s].st \in Terminal \union {"terminating"}
    \/ saga[s].pc = "over" /\ rec[s].st # "running"
Kept(s) ==
    /\ rec[s].st \in Terminal /\ ~rec[s].rcl
    /\ \/ rec[s].st = "expired" /\ box[s] = "up"
       \/ ~attach /\ Attaches(s, FALSE)
NothingForgotten ==
    \A s \in Sessions :
        []<>(box[s] # "busy") =>
            (Ended(s) ~> \/ box[s] \in {"none", "gone"} /\ (rec[s].st \in Absent \/ rec[s].rcl)
                         \/ Kept(s))

=============================================================================
