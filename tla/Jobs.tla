-------------------------------- MODULE Jobs --------------------------------
(***************************************************************************)
(* The runs of one notebook job: the scheduler tick that fires due         *)
(* occurrences, dispatches queued runs and enforces deadlines              *)
(* (JobScheduler.ts), the runner that executes one run in a sandbox        *)
(* (JobRunner.ts), the records they share (JobRunService.ts), and the      *)
(* requests that trigger, cancel and delete (routes/jobs.ts, shared.ts).   *)
(*                                                                         *)
(* One action is one request to the store or to the compute provider; a    *)
(* conditional update (JobRunService.transition) is one step.  The job     *)
(* mutation lease is op: the operation that holds it, its next step and    *)
(* its arguments.  A holder that dies keeps the lease until its TTL ends.  *)
(***************************************************************************)
EXTENDS Naturals, FiniteSets

CONSTANTS
    Procs,       \* the processes that may run the job scheduler, one at a time
    Settings,    \* the values that retry.max_retries of the job may have
    Forbid,      \* its concurrency_policy is 'forbid'
    Cap,         \* maxConcurrentRuns
    MaxDue,      \* bound on the occurrences of the schedule
    MaxRuns,     \* bound on run ids
    MaxEvents    \* bound on occurrences, requests and faults, with max_retries

ASSUME JobsAssumption ==
    /\ Procs # {}
    /\ Settings \subseteq Nat /\ Forbid \in BOOLEAN /\ Cap \in Nat
    /\ MaxDue \in Nat /\ MaxRuns \in Nat /\ MaxEvents \in Nat

VARIABLES
    job,         \* the definition: live, deleting (claimed), hidden (notebook deleted), gone
    due,         \* the latest occurrence of the schedule
    occ,         \* occ[o]: the claim of occurrence o
    run,         \* run[r]: the run record
    marker,      \* marker[r]: the continuation id in the marker of r, 0 for no marker
    nextId,      \* the next unused run id
    op,          \* the operation under the job mutation lease
    leader,      \* the process whose job scheduler ticks
    tick,        \* its tick
    exec,        \* exec[p][r]: the execution of r in process p
    box,         \* box[r]: the sandbox of r at the provider
    api,         \* the request that deletes the job or its notebook
    audited,     \* runs whose finish event is in the audit log
    notified,    \* runs whose outcome was delivered to the alert destinations
    pruner,      \* pruner[r]: how far pruneStaleMarkers is with the marker of r
    doubted,     \* runs that a HEAD missed behind an old marker (history)
    retries,     \* retry.max_retries
    events       \* requests and faults so far

store == <<occ, run, marker, nextId>>
outside == <<audited, notified>>
pruning == <<pruner, doubted>>
config == <<pruning, retries, events>>
vars == <<job, due, store, op, leader, tick, exec, box, api, outside, config>>

Runs == 1..MaxRuns
Occurrences == 1..MaxDue

-----------------------------------------------------------------------------
(* Run states. *)

(* failed stands for failed and timed_out, which are treated alike. *)
Terminal == {"succeeded", "failed", "cancelled", "skipped"}
Active == {"provisioning", "running"}
Live == Active \union {"queued"}

NoRun == [status |-> "absent", attempt |-> 0, of |-> 0, occ |-> 0, at |-> 0]
NoClaim == [run |-> 0, outcome |-> "run"]
NoOp == [kind |-> "none", by |-> "nobody", pc |-> "free", run |-> 0, new |-> 0,
         occ |-> 0, skip |-> FALSE, fresh |-> FALSE]
NoTick == [pc |-> "idle", now |-> 0, busy |-> FALSE, todo |-> {}, seen |-> [r \in {} |-> ""],
           queue |-> {}, held |-> {}]
NoRequest == [pc |-> "idle", runs |-> {}]
NoExec == [pc |-> "idle", ext |-> FALSE]

(* nextRunStatus; an illegal edge leaves the record as it is. *)
Edge == [provision |-> "provisioning", start |-> "running", succeed |-> "succeeded",
         fail |-> "failed", cancel |-> "cancelled"]
From == [provision |-> {"queued"}, start |-> {"provisioning"}, succeed |-> {"running"},
         fail |-> Live, cancel |-> Live]
Legal(r, e) == run[r].status \in From[e]
Transition(r, e) == IF Legal(r, e) THEN [run EXCEPT ![r].status = Edge[e]] ELSE run
CancelAll(S) == [r \in Runs |-> IF r \in S /\ Legal(r, "cancel")
                                  THEN [run[r] EXCEPT !.status = "cancelled"] ELSE run[r]]

Marked == {r \in Runs : marker[r] # 0}
(* The enqueue in progress has put the marker of r itself: that marker is less *)
(* than DANGLING_GRACE_MS old, which is taken to be longer than an enqueue.    *)
Young(r) == op.pc = "record" /\ op.new = r /\ op.fresh
(* listActiveSnapshot: the markers with the status of their records. *)
Listed == [r \in Marked |-> CASE run[r].status \in Active -> "active"
                               [] run[r].status \in Terminal -> "ended"
                               [] run[r].status = "absent" /\ Young(r) -> "young"
                               [] OTHER -> run[r].status]
(* loadJob finds the definition; isDeleting is job = "deleting". *)
Loadable == job \in {"live", "deleting"}
(* The execution is in the map of the process that ticks. *)
Executing(r) == exec[leader][r].pc # "idle" /\ ~exec[leader][r].ext
(* The tick awaits its own operations. *)
TickFree == op.by \notin {"tick", "watchdog"}

(* Occurrences, requests and faults are bounded together; an occurrence, *)
(* a trigger and a handover weigh 2.                                     *)
Room(n) == 2 * due + retries + events + n <= MaxEvents
Event == Room(1) /\ events' = events + 1 /\ UNCHANGED <<pruning, retries>>

RunRecords == [status : Terminal \union Live \union {"absent"}, attempt : Nat,
               of : 0..MaxRuns, occ : 0..MaxDue, at : Nat]
Claims == [run : 0..MaxRuns, outcome : {"run", "skip"}]
Operations == [kind : {"none", "fire", "final", "trigger", "delete"},
               by : {"nobody", "tick", "watchdog", "api"} \union Procs,
               pc : {"free", "mark", "record", "check", "audit", "notify", "unmark",
                     "cancel", "dead"},
               run : 0..MaxRuns, new : 0..MaxRuns, occ : 0..MaxDue, skip : BOOLEAN,
               fresh : BOOLEAN]
Sightings == {"active", "ended", "queued", "young", "absent", "missing"}
Ticks == [pc : {"idle", "fire", "list", "sweep"}, now : 0..MaxDue, busy : BOOLEAN,
          todo : SUBSET Runs, queue : SUBSET Runs, held : SUBSET Runs,
          seen : UNION {[S -> Sightings] : S \in SUBSET Runs}]
Executions == [pc : {"idle", "load", "prepare", "export", "destroy", "final"}, ext : BOOLEAN]
Requests == [pc : {"idle", "drain", "unmark", "destroy", "finish"}, runs : SUBSET Runs]

TypeOK ==
    /\ job \in {"live", "deleting", "hidden", "gone"}
    /\ due \in 0..MaxDue
    /\ occ \in [Occurrences -> Claims]
    /\ run \in [Runs -> RunRecords]
    /\ marker \in [Runs -> 0..MaxRuns]
    /\ nextId \in 1..MaxRuns + 1
    /\ op \in Operations
    /\ leader \in Procs
    /\ tick \in Ticks
    /\ exec \in [Procs -> [Runs -> Executions]]
    /\ box \in [Runs -> {"none", "booting", "up", "gone"}]
    /\ api \in Requests
    /\ audited \subseteq Runs /\ notified \subseteq Runs
    /\ pruner \in [Runs -> {"idle", "listed", "missing"}] /\ doubted \subseteq Runs
    /\ retries \in Settings /\ events \in 0..MaxEvents

Init ==
    /\ job = "live" /\ due = 0
    /\ occ = [o \in Occurrences |-> NoClaim]
    /\ run = [r \in Runs |-> NoRun]
    /\ marker = [r \in Runs |-> 0] /\ nextId = 1
    /\ op = NoOp
    /\ leader = CHOOSE p \in Procs : TRUE
    /\ tick = NoTick
    /\ exec = [p \in Procs |-> [r \in Runs |-> NoExec]]
    /\ box = [r \in Runs |-> "none"]
    /\ api = NoRequest
    /\ audited = {} /\ notified = {}
    /\ pruner = [r \in Runs |-> "idle"] /\ doubted = {}
    /\ retries \in Settings /\ events = 0

-----------------------------------------------------------------------------
(* Firing an occurrence (JobScheduler.fire). *)

(* Time passes an occurrence of the schedule. *)
BecomeDue ==
    /\ due < MaxDue /\ Room(2)
    /\ due' = due + 1
    /\ UNCHANGED <<job, store, op, leader, tick, exec, box, api, outside, config>>

(* tick reads the clock and which jobs are active before it fires. *)
TickStart ==
    /\ tick.pc = "idle" /\ TickFree
    /\ tick' = [NoTick EXCEPT !.pc = "fire", !.now = due,
                              !.busy = \E r \in Marked : run[r].status \in Live]
    /\ UNCHANGED <<job, due, store, op, leader, exec, box, api, outside, config>>

FireOp(r, o, skip) ==
    [NoOp EXCEPT !.kind = "fire", !.by = "tick", !.pc = "mark", !.new = r, !.occ = o,
                 !.skip = skip]

(* Variant: a repair allots a run of its own instead of the claimed one. *)
ClaimOccurrenceAfresh(o) ==
    /\ nextId \in Runs
    /\ occ' = [occ EXCEPT ![o] = [run |-> nextId, outcome |-> "run"]]
    /\ op' = FireOp(nextId, o, FALSE)
    /\ nextId' = nextId + 1

(* claimOccurrence creates the claim, or finds it and repairs a run whose *)
(* record was never written.                                              *)
ClaimOccurrence(o) ==
    IF occ[o].run = 0
      THEN LET skip == Forbid /\ tick.busy IN
           /\ nextId \in Runs
           /\ occ' = [occ EXCEPT ![o] = [run |-> nextId,
                                         outcome |-> IF skip THEN "skip" ELSE "run"]]
           /\ op' = FireOp(nextId, o, skip)
           /\ nextId' = nextId + 1
      ELSE /\ op' = IF run[occ[o].run].status # "absent" THEN op
                    ELSE FireOp(occ[o].run, o, occ[o].outcome = "skip")
           /\ UNCHANGED <<occ, nextId>>

Fire ==
    /\ tick.pc = "fire" /\ op = NoOp
    /\ tick' = [NoTick EXCEPT !.pc = "list"]
    /\ IF job = "live" /\ tick.now > 0
         THEN ClaimOccurrence(tick.now)
         ELSE UNCHANGED <<op, occ, nextId>>
    /\ UNCHANGED <<job, due, run, marker, leader, exec, box, api, outside, config>>

(* withJobMutation gives up after its attempts: the tick goes on. *)
FireBusy ==
    /\ tick.pc = "fire" /\ op # NoOp
    /\ tick' = [NoTick EXCEPT !.pc = "list"]
    /\ UNCHANGED <<job, due, store, op, leader, exec, box, api, outside, config>>

-----------------------------------------------------------------------------
(* Writing a run: enqueue, writeSkipped. *)

(* The marker lands first, create-if-absent, with a new continuation id. *)
PutMarker ==
    /\ op.pc = "mark"
    /\ IF marker[op.new] = 0
         THEN /\ nextId \in Runs
              /\ marker' = [marker EXCEPT ![op.new] = nextId] /\ nextId' = nextId + 1
         ELSE UNCHANGED <<marker, nextId>>
    /\ op' = [op EXCEPT !.pc = "record", !.fresh = marker[op.new] = 0]
    /\ UNCHANGED <<job, due, occ, run, leader, tick, exec, box, api, outside, config>>

NewRun == [status |-> IF op.skip THEN "skipped" ELSE "queued",
           attempt |-> IF op.kind = "final" THEN run[op.run].attempt + 1 ELSE 1,
           of |-> op.run, occ |-> op.occ,
           at |-> 1 + Cardinality({r \in Runs : run[r].status # "absent"})]

(* A skipped run is finalized under the same lease. *)
PutRecord ==
    /\ op.pc = "record"
    /\ run' = IF run[op.new].status = "absent" THEN [run EXCEPT ![op.new] = NewRun] ELSE run
    /\ op' = CASE op.kind = "trigger" -> NoOp
               [] op.skip -> [op EXCEPT !.kind = "final", !.pc = "audit", !.run = op.new]
               [] OTHER -> [op EXCEPT !.pc = "check"]
    /\ UNCHANGED <<job, due, occ, marker, nextId, leader, tick, exec, box, api, outside, config>>

(* cancelRunIfDeleted after the record. *)
CheckDeleted ==
    /\ op.pc = "check"
    /\ run' = IF Loadable THEN run ELSE Transition(op.new, "cancel")
    /\ op' = IF op.kind = "final" THEN [op EXCEPT !.pc = "unmark"] ELSE NoOp
    /\ UNCHANGED <<job, due, occ, marker, nextId, leader, tick, exec, box, api, outside, config>>

-----------------------------------------------------------------------------
(* Finalizing a run that has ended (JobScheduler.finalizeLocked, afterRun). *)

FinalOp(r, by) == [NoOp EXCEPT !.kind = "final", !.by = by, !.pc = "audit", !.run = r,
                               !.new = marker[r], !.occ = run[r].occ]

(* finalize acquires the lease; without a marker there is nothing left to do. *)
Finalize(r, by) == op = NoOp /\ op' = IF marker[r] = 0 THEN op ELSE FinalOp(r, by)

(* What follows the audit event: a retry, a notification, or nothing. *)
AfterAudit(r) ==
    CASE ~Loadable \/ run[r].status \notin {"failed", "succeeded"} -> "unmark"
      [] Loadable /\ run[r].status = "failed" /\ run[r].attempt <= retries ->
           IF job = "deleting" THEN "unmark" ELSE "mark"
      [] OTHER -> "notify"

Audit ==
    /\ op.pc = "audit"
    /\ audited' = audited \union {op.run}
    /\ op' = [op EXCEPT !.pc = AfterAudit(op.run)]
    /\ UNCHANGED <<job, due, store, leader, tick, exec, box, api, notified, config>>

Notify ==
    /\ op.pc = "notify"
    /\ notified' = notified \union {op.run}
    /\ op' = [op EXCEPT !.pc = "unmark"]
    /\ UNCHANGED <<job, due, store, leader, tick, exec, box, api, audited, config>>

(* Variant: the failure is logged and the marker removed. *)
AfterRunFailsLogged ==
    /\ op.pc \in {"audit", "notify"}
    /\ Event
    /\ op' = [op EXCEPT !.pc = "unmark"]
    /\ UNCHANGED <<job, due, store, leader, tick, exec, box, api, outside>>

(* A failed append or delivery leaves the marker for a later tick; thrown *)
(* out of the watchdog it ends the tick.                                  *)
AfterRunFails ==
    /\ op.pc \in {"audit", "notify"}
    /\ Event
    /\ op' = NoOp
    /\ tick' = IF op.by = "watchdog" THEN NoTick ELSE tick
    /\ UNCHANGED <<job, due, store, leader, exec, box, api, outside>>

Unmark ==
    /\ op.pc = "unmark"
    /\ marker' = [marker EXCEPT ![op.run] = 0]
    /\ op' = NoOp
    /\ UNCHANGED <<job, due, occ, run, nextId, leader, tick, exec, box, api, outside, config>>

(* deleteMarker logs its failure and returns. *)
UnmarkFails ==
    /\ op.pc = "unmark"
    /\ Event
    /\ op' = NoOp
    /\ UNCHANGED <<job, due, store, leader, tick, exec, box, api, outside>>

-----------------------------------------------------------------------------
(* The rest of the tick: one entry of the listing at a time, then dispatch. *)

List ==
    /\ tick.pc = "list" /\ TickFree
    /\ tick' = [tick EXCEPT !.pc = "sweep", !.todo = Marked, !.seen = Listed]
    /\ UNCHANGED <<job, due, store, op, leader, exec, box, api, outside, config>>

(* In the order of the keys. *)
Entry(r) == /\ tick.pc = "sweep" /\ TickFree
            /\ r \in tick.todo /\ \A q \in tick.todo : r <= q
Done(r) == [tick EXCEPT !.todo = @ \ {r}, !.seen = [q \in tick.todo \ {r} |-> @[q]]]

(* Variant: the listing is taken for the record's absence. *)
DanglingUnchecked(r) == TRUE

(* runExists: the record is looked up again before its marker is pruned. *)
Dangling(r) == run[r].status = "absent"
Doubt(r) == doubted' = IF run[r].status = "absent" THEN doubted \union {r} ELSE doubted

(* A marker listed without a record, and old, is looked at; a young one is not. *)
TickYoung(r) ==
    /\ Entry(r) /\ tick.seen[r] = "young"
    /\ tick' = Done(r)
    /\ UNCHANGED <<job, due, store, op, leader, exec, box, api, outside, config>>

TickMissing(r) ==
    /\ Entry(r) /\ tick.seen[r] = "absent"
    /\ Doubt(r)
    /\ tick' = IF Dangling(r) THEN [tick EXCEPT !.seen[r] = "missing"] ELSE Done(r)
    /\ UNCHANGED <<job, due, store, op, leader, exec, box, api, outside, pruner, retries, events>>

(* pruneDanglingMarker, by then whatever the marker stands for. *)
TickPrune(r) ==
    /\ Entry(r) /\ tick.seen[r] = "missing"
    /\ marker' = [marker EXCEPT ![r] = 0]
    /\ tick' = Done(r)
    /\ UNCHANGED <<job, due, occ, run, nextId, op, leader, exec, box, api, outside, config>>

TickFinalize(r) ==
    /\ Entry(r) /\ tick.seen[r] = "ended"
    /\ Finalize(r, "tick")
    /\ tick' = Done(r)
    /\ UNCHANGED <<job, due, store, leader, exec, box, api, outside, config>>

TickBusy(r) ==
    /\ Entry(r) /\ tick.seen[r] = "ended" /\ op # NoOp
    /\ tick' = Done(r)
    /\ UNCHANGED <<job, due, store, op, leader, exec, box, api, outside, config>>

(* Variant: a run that is dispatched and still queued does not count. *)
TickQueuedUncounted(r) ==
    /\ Entry(r) /\ tick.seen[r] = "queued"
    /\ tick' = CASE Executing(r) \/ ~Loadable -> Done(r)
                 [] OTHER -> [Done(r) EXCEPT !.queue = @ \union {r}]
    /\ run' = IF Executing(r) \/ Loadable THEN run ELSE Transition(r, "cancel")
    /\ UNCHANGED <<job, due, occ, marker, nextId, op, leader, exec, box, api, outside, config>>

(* A queued run that this process executes counts as running; one whose job *)
(* is deleted is cancelled; any other waits for admission.                  *)
TickQueued(r) ==
    /\ Entry(r) /\ tick.seen[r] = "queued"
    /\ tick' = CASE Executing(r) -> [Done(r) EXCEPT !.held = @ \union {r}]
                 [] ~Executing(r) /\ Loadable -> [Done(r) EXCEPT !.queue = @ \union {r}]
                 [] OTHER -> Done(r)
    /\ run' = IF Executing(r) \/ Loadable THEN run ELSE Transition(r, "cancel")
    /\ UNCHANGED <<job, due, occ, marker, nextId, op, leader, exec, box, api, outside, config>>

TickRunning(r) ==
    /\ Entry(r) /\ tick.seen[r] = "active"
    /\ tick' = [Done(r) EXCEPT !.held = @ \union {r}]
    /\ UNCHANGED <<job, due, store, op, leader, exec, box, api, outside, config>>

Destroyed(r) == IF box[r] = "up" THEN [box EXCEPT ![r] = "gone"] ELSE box

(* Variant: runs still provisioning are not watched. *)
TickWatchdogRunning(r) ==
    /\ Entry(r) /\ tick.seen[r] = "active" /\ run[r].status = "running"
    /\ \/ box' = Destroyed(r) /\ UNCHANGED config
       \/ UNCHANGED box /\ box[r] = "up" /\ Event
    /\ run' = Transition(r, "fail")
    /\ IF Legal(r, "fail")
         THEN /\ exec' = IF Executing(r) THEN [exec EXCEPT ![leader][r].ext = TRUE] ELSE exec
              /\ \/ Finalize(r, "watchdog") /\ tick' = Done(r)
                 \/ op # NoOp /\ tick' = NoTick /\ UNCHANGED op
         ELSE tick' = [Done(r) EXCEPT !.held = @ \union {r}] /\ UNCHANGED <<exec, op>>
    /\ UNCHANGED <<job, due, occ, marker, nextId, leader, api, outside>>

(* watchdog, once the deadline and its grace have passed: destroy, which may *)
(* fail, then time the run out and finalize it.  A busy lease ends the tick. *)
TickWatchdog(r) ==
    /\ Entry(r) /\ tick.seen[r] = "active"
    /\ \/ box' = Destroyed(r) /\ UNCHANGED config
       \/ UNCHANGED box /\ box[r] = "up" /\ Event
    /\ run' = Transition(r, "fail")
    /\ IF Legal(r, "fail")
         THEN /\ exec' = IF Executing(r) THEN [exec EXCEPT ![leader][r].ext = TRUE] ELSE exec
              /\ \/ Finalize(r, "watchdog") /\ tick' = Done(r)
                 \/ op # NoOp /\ tick' = NoTick /\ UNCHANGED op
         ELSE tick' = [Done(r) EXCEPT !.held = @ \union {r}] /\ UNCHANGED <<exec, op>>
    /\ UNCHANGED <<job, due, occ, marker, nextId, leader, api, outside>>

(* admit: the oldest queued runs that the cap leaves room for. *)
Admitted ==
    {r \in tick.queue :
       Cardinality(tick.held) + Cardinality({q \in tick.queue : run[q].at < run[r].at}) < Cap}

Dispatch ==
    /\ tick.pc = "sweep" /\ TickFree /\ tick.todo = {}
    /\ exec' = [exec EXCEPT ![leader] = [r \in Runs |->
                   IF r \in Admitted THEN [NoExec EXCEPT !.pc = "load"] ELSE @[r]]]
    /\ tick' = NoTick
    /\ UNCHANGED <<job, due, store, op, leader, box, api, outside, config>>

-----------------------------------------------------------------------------
(* One execution (JobRunner.execute). *)

At(p, r, pc) == exec[p][r].pc = pc
Goto(p, r, pc) == exec' = [exec EXCEPT ![p][r].pc = pc]

(* loadContext fails: the record is failed, whatever process executes it. *)
LoadFails(p, r) ==
    /\ At(p, r, "load")
    /\ \/ ~Loadable /\ UNCHANGED config
       \/ Loadable /\ Event
    /\ run' = Transition(r, "fail")
    /\ Goto(p, r, "final")
    /\ UNCHANGED <<job, due, occ, marker, nextId, op, leader, tick, box, api, outside>>

(* Variant: the execution goes on whatever the update returns. *)
ProvisionAnyway(p, r) ==
    /\ At(p, r, "load") /\ Loadable
    /\ run' = Transition(r, "provision")
    /\ Goto(p, r, "prepare") /\ box' = [box EXCEPT ![r] = "booting"]
    /\ UNCHANGED <<job, due, occ, marker, nextId, op, leader, tick, api, outside, config>>

(* The conditional update to provisioning admits one execution of the run. *)
Provision(p, r) ==
    /\ At(p, r, "load") /\ Loadable
    /\ run' = Transition(r, "provision")
    /\ IF Legal(r, "provision")
         THEN Goto(p, r, "prepare") /\ box' = [box EXCEPT ![r] = "booting"]
         ELSE Goto(p, r, "final") /\ UNCHANGED box
    /\ UNCHANGED <<job, due, occ, marker, nextId, op, leader, tick, api, outside, config>>

(* The sandbox is up and the run starts, unless it has been ended meanwhile. *)
Prepared(p, r) ==
    /\ At(p, r, "prepare")
    /\ box' = [box EXCEPT ![r] = "up"]
    /\ run' = Transition(r, "start")
    /\ Goto(p, r, IF Legal(r, "start") THEN "export" ELSE "destroy")
    /\ UNCHANGED <<job, due, occ, marker, nextId, op, leader, tick, api, outside, config>>

(* prepare fails and cleans up, or outlives the deadline: then its sandbox *)
(* may still come up (LateBoot).                                           *)
PrepareFails(p, r) ==
    /\ At(p, r, "prepare")
    /\ Event
    /\ run' = Transition(r, "fail")
    /\ box' \in {box, [box EXCEPT ![r] = "gone"]}
    /\ Goto(p, r, "final")
    /\ UNCHANGED <<job, due, occ, marker, nextId, op, leader, tick, api, outside>>

(* The handler of a late sandbox destroys it, unless that fails or the *)
(* process is gone.                                                    *)
LateBoot(r) ==
    /\ box[r] = "booting" /\ \A p \in Procs : ~At(p, r, "prepare")
    /\ \E b \in {"up", "gone"} : box' = [box EXCEPT ![r] = b]
    /\ UNCHANGED <<job, due, store, op, leader, tick, exec, api, outside, config>>

(* The export ends, or the deadline does; a sandbox destroyed under it fails it. *)
Export(p, r) ==
    /\ At(p, r, "export")
    /\ \E e \in {"succeed", "fail"} :
         /\ e = "succeed" => box[r] = "up"
         /\ run' = Transition(r, e)
    /\ Goto(p, r, "destroy")
    /\ UNCHANGED <<job, due, occ, marker, nextId, op, leader, tick, box, api, outside, config>>

Destroy(p, r) ==
    /\ At(p, r, "destroy")
    /\ \/ box' = Destroyed(r) /\ UNCHANGED config
       \/ UNCHANGED box /\ Event
    /\ Goto(p, r, "final")
    /\ UNCHANGED <<job, due, store, op, leader, tick, api, outside>>

(* The execution settles and is finalized, unless the watchdog did that. *)
Finish(p, r) ==
    /\ At(p, r, "final")
    /\ IF exec[p][r].ext \/ run[r].status \notin Terminal
         THEN UNCHANGED op
         ELSE Finalize(r, p)
    /\ exec' = [exec EXCEPT ![p][r] = NoExec]
    /\ UNCHANGED <<job, due, store, leader, tick, box, api, outside, config>>

FinishBusy(p, r) ==
    /\ At(p, r, "final") /\ op # NoOp
    /\ exec' = [exec EXCEPT ![p][r] = NoExec]
    /\ UNCHANGED <<job, due, store, op, leader, tick, box, api, outside, config>>

-----------------------------------------------------------------------------
(* Requests: run now, cancel, delete the job, delete the notebook. *)

(* isDeleting and getJob do not look at the notebook: that was loaded before. *)
Trigger ==
    /\ op = NoOp /\ job \in {"live", "hidden"}
    /\ Room(2) /\ events' = events + 2 /\ UNCHANGED <<pruning, retries>>
    /\ nextId \in Runs
    /\ op' = [NoOp EXCEPT !.kind = "trigger", !.by = "api", !.pc = "mark", !.new = nextId]
    /\ nextId' = nextId + 1
    /\ UNCHANGED <<job, due, occ, run, marker, leader, tick, exec, box, api, outside>>

(* The sandbox is destroyed on a best effort, and the outcome audited. *)
Cancel(r) ==
    /\ Loadable /\ Legal(r, "cancel")
    /\ Event
    /\ run' = Transition(r, "cancel")
    /\ box' \in {box, Destroyed(r)}
    /\ audited' = audited \union {r}
    /\ UNCHANGED <<job, due, occ, marker, nextId, op, leader, tick, exec, api, notified>>

(* beginDelete: the deletion claim stops fires, triggers and retries. *)
DeleteBegin ==
    /\ op = NoOp /\ Loadable /\ api.pc = "idle"
    /\ Event
    /\ job' = "deleting"
    /\ op' = [NoOp EXCEPT !.kind = "delete", !.by = "api", !.pc = "cancel"]
    /\ UNCHANGED <<due, store, leader, tick, exec, box, api, outside>>

(* cancelRunsOfJob, then the lease is released. *)
DeleteCancel ==
    /\ op.pc = "cancel"
    /\ run' = CancelAll(Marked)
    /\ api' = [pc |-> "unmark", runs |-> {r \in Marked : run[r].status # "absent"}]
    /\ op' = NoOp
    /\ UNCHANGED <<job, due, occ, marker, nextId, leader, tick, exec, box, outside, config>>

DeleteUnmark ==
    /\ api.pc = "unmark"
    /\ audited' = audited \union api.runs
    /\ marker' = [r \in Runs |-> IF r \in api.runs THEN 0 ELSE marker[r]]
    /\ api' = [api EXCEPT !.pc = "destroy"]
    /\ UNCHANGED <<job, due, occ, run, nextId, op, leader, tick, exec, box, notified, config>>

(* destroySandboxes; a failure is logged and left to the reconciler. *)
DestroyAll ==
    /\ api.pc = "destroy"
    /\ \/ /\ box' = [r \in Runs |-> IF r \in api.runs THEN Destroyed(r)[r] ELSE box[r]]
          /\ UNCHANGED config
       \/ UNCHANGED box /\ Event
    /\ api' = IF job = "deleting" THEN [api EXCEPT !.pc = "finish"] ELSE NoRequest
    /\ UNCHANGED <<job, due, store, op, leader, tick, exec, outside>>

(* finishDelete removes everything below the job, then the claim. *)
DeleteFinish ==
    /\ api.pc = "finish"
    /\ run' = [r \in Runs |-> NoRun]
    /\ occ' = [o \in Occurrences |-> NoClaim]
    /\ job' = "gone"
    /\ api' = NoRequest
    /\ UNCHANGED <<due, marker, nextId, op, leader, tick, exec, box, outside, config>>

(* The notebook is marked deleted; then cancelJobRuns waits for the lease,  *)
(* gives up on a busy one, and cancels what is active.                      *)
HideNotebook ==
    /\ job = "live" /\ api.pc = "idle" /\ op.kind # "delete"
    /\ Event
    /\ job' = "hidden"
    /\ api' = [api EXCEPT !.pc = "drain"]
    /\ UNCHANGED <<due, store, op, leader, tick, exec, box, outside>>

HideCancel ==
    /\ api.pc = "drain"
    /\ run' = CancelAll(Marked)
    /\ api' = [pc |-> "destroy", runs |-> {r \in Marked : Legal(r, "cancel")}]
    /\ audited' = audited \union {r \in Marked : Legal(r, "cancel")}
    /\ UNCHANGED <<job, due, occ, marker, nextId, op, leader, tick, exec, box, notified, config>>

-----------------------------------------------------------------------------
(* Failures, and the loops that clean up. *)

Dead(by) == [NoOp EXCEPT !.kind = op.kind, !.by = by, !.pc = "dead"]

(* A scheduler process dies with its tick, its executions and its lease.  In  *)
(* a tick it also holds the scheduler's lock, which outlives the job mutation *)
(* lease: no tick starts before that is free again.                           *)
Crash(p) ==
    LET ticking == leader = p /\ tick.pc # "idle" IN
    /\ Event
    /\ exec' = [exec EXCEPT ![p] = [r \in Runs |-> NoExec]]
    /\ op' = IF op.by = p \/ (ticking /\ ~TickFree)
               THEN Dead(IF ticking THEN "tick" ELSE p) ELSE op
    /\ tick' = IF ticking THEN NoTick ELSE tick
    /\ UNCHANGED <<job, due, store, leader, box, api, outside>>

CrashApi ==
    /\ op.by = "api" \/ api.pc # "idle"
    /\ Event
    /\ op' = IF op.by = "api" THEN Dead("api") ELSE op
    /\ api' = NoRequest
    /\ UNCHANGED <<job, due, store, leader, tick, exec, box, outside>>

(* JOB_OPERATION_TTL_MS after the last renewal the lease may be taken again. *)
Expire ==
    /\ op.pc = "dead"
    /\ op' = NoOp
    /\ UNCHANGED <<job, due, store, leader, tick, exec, box, api, outside, config>>

(* Another process takes the scheduler's lock; the old one drains its runs. *)
Handover(p) ==
    /\ tick.pc = "idle" /\ p # leader
    /\ Room(2) /\ events' = events + 2 /\ UNCHANGED <<pruning, retries>>
    /\ leader' = p
    /\ UNCHANGED <<job, due, store, op, tick, exec, box, api, outside>>

(* pruneStaleMarkers, from the maintenance cycle and without the job lease: it *)
(* lists the old markers without a record, looks for each record, and deletes. *)
PruneList(r) ==
    /\ pruner[r] = "idle"
    /\ marker[r] # 0 /\ run[r].status = "absent" /\ ~Young(r)
    /\ pruner' = [pruner EXCEPT ![r] = "listed"]
    /\ UNCHANGED <<job, due, store, op, leader, tick, exec, box, api, outside, doubted, retries, events>>

PruneCheck(r) ==
    /\ pruner[r] = "listed"
    /\ Doubt(r)
    /\ pruner' = [pruner EXCEPT ![r] = IF Dangling(r) THEN "missing" ELSE "idle"]
    /\ UNCHANGED <<job, due, store, op, leader, tick, exec, box, api, outside, retries, events>>

PruneStale(r) ==
    /\ pruner[r] = "missing"
    /\ marker' = [marker EXCEPT ![r] = 0]
    /\ pruner' = [pruner EXCEPT ![r] = "idle"]
    /\ UNCHANGED <<job, due, occ, run, nextId, op, leader, tick, exec, box, api, outside, doubted, retries, events>>

(* Variant: a sandbox is collected only while its run record exists. *)
ReapRecorded(r) ==
    /\ box[r] = "up" /\ run[r].status \in Terminal
    /\ \A q \in Marked : run[q].status # "absent"
    /\ box' = [box EXCEPT ![r] = "gone"]
    /\ UNCHANGED <<job, due, store, op, leader, tick, exec, api, outside, config>>

(* The reconciler destroys a sandbox that no marked run owns; a marker without *)
(* a record keeps it from judging.                                             *)
Reap(r) ==
    /\ box[r] = "up" /\ ~(marker[r] # 0 /\ run[r].status \in Active)
    /\ \A q \in Marked : run[q].status # "absent"
    /\ box' = [box EXCEPT ![r] = "gone"]
    /\ UNCHANGED <<job, due, store, op, leader, tick, exec, api, outside, config>>

-----------------------------------------------------------------------------
OpStep == \/ PutMarker \/ PutRecord \/ CheckDeleted \/ Audit \/ Notify
          \/ AfterRunFails \/ Unmark \/ UnmarkFails \/ Expire
EntryStep(r) == \/ TickYoung(r) \/ TickMissing(r) \/ TickPrune(r)
                \/ TickFinalize(r) \/ TickBusy(r) \/ TickQueued(r)
                \/ TickRunning(r) \/ TickWatchdog(r)
TickStep == \/ TickStart \/ Fire \/ FireBusy \/ List \/ Dispatch
            \/ \E r \in Runs : EntryStep(r)
ExecStep(p, r) == \/ LoadFails(p, r) \/ Provision(p, r) \/ Prepared(p, r) \/ PrepareFails(p, r)
                  \/ Export(p, r) \/ Destroy(p, r)
                  \/ Finish(p, r) \/ FinishBusy(p, r)
DeleteStep == DeleteCancel \/ DeleteUnmark \/ DestroyAll \/ DeleteFinish \/ HideCancel
CleanUp == \E r \in Runs : \/ LateBoot(r) \/ Reap(r)
                           \/ PruneList(r) \/ PruneCheck(r) \/ PruneStale(r)

Next ==
    \/ BecomeDue \/ Trigger \/ DeleteBegin \/ HideNotebook \/ CrashApi
    \/ OpStep \/ TickStep \/ DeleteStep
    \/ \E p \in Procs : Crash(p) \/ Handover(p) \/ \E r \in Runs : ExecStep(p, r)
    \/ CleanUp \/ \E r \in Runs : Cancel(r)

Spec == Init /\ [][Next]_vars

(* Every loop and request that is alive goes on; a deadline is passed in the *)
(* end, so a tick finds an active run overdue if it finds it again and again. *)
Fairness ==
    /\ WF_vars(OpStep) /\ WF_vars(TickStep) /\ WF_vars(DeleteStep \/ CleanUp)
    /\ WF_vars(\E p \in Procs, r \in Runs : ExecStep(p, r))
    /\ SF_vars(\E r \in Runs : TickWatchdog(r))

FairSpec == Spec /\ Fairness

-----------------------------------------------------------------------------
(* A scheduled occurrence has at most one first attempt, and a fire that was *)
(* declined never runs: claims are create-if-absent, and a repair after a    *)
(* crash follows the claim it finds.                                         *)
OccurrenceOnce ==
    \A o \in Occurrences :
      LET first == {r \in Runs : run[r].occ = o /\ run[r].attempt = 1} IN
      /\ Cardinality(first) <= 1
      /\ occ[o].outcome = "skip" => \A r \in first : run[r].status = "skipped"

(* The runs that hold a sandbox never exceed the cap (admit), although a     *)
(* dispatched run is still queued in the store.  A doubted run may have lost *)
(* its marker, and with it its place in the count.                           *)
WithinCap == Cardinality({r \in Runs \ doubted : run[r].status \in Active}) <= Cap

(* A run is never executed twice: of two processes that dispatch it around a *)
(* handover, one wins the update to provisioning and the other stops.        *)
ExecutedOnce ==
    \A r \in Runs : Cardinality({p \in Procs : exec[p][r].pc \in {"prepare", "export"}}) <= 1

(* A run that has not ended has its marker, which makes it visible to the    *)
(* tick, the watchdog and the reconciler, unless its enqueue was cut short   *)
(* and repeated: then the record may be put after the HEAD that missed it    *)
(* and before the delete that follows, which takes the marker of a run that  *)
(* lives.  Nothing else separates the two.                                   *)
LiveRunsMarked == \A r \in Runs \ doubted : run[r].status \in Live => marker[r] # 0

(* A run whose marker is gone was settled, while the job lives: audited,     *)
(* and retried while attempts are left or notified after the last one.       *)
EndedRunsSettled ==
    job = "live" =>
      \A r \in Runs \ doubted : run[r].status \in {"failed", "succeeded"} /\ marker[r] = 0 =>
        /\ r \in audited
        /\ IF run[r].status # "succeeded" /\ run[r].attempt <= retries
             THEN \E c \in Runs : run[c].of = r
             ELSE r \in notified

(* Again and again no marker is left: each run ends and is finalized, and an *)
(* enqueue cut short is completed or cleaned up.                             *)
RunsSettle == []<>(Marked = {})

(* A deleted job or notebook stops computing for good: its runs end, but for *)
(* doubted ones, which no longer execute, and no sandbox is left.            *)
DeletedStops ==
    job # "live" ~>
      [](/\ \A r \in Runs : box[r] \notin {"booting", "up"}
         /\ \A r \in Runs \ doubted : run[r].status \notin Live)

(* A failed run has at most one retry (JobScheduler.test.ts: 'serializes     *)
(* concurrent finalizers so a failed run creates one retry').                *)
OneRetry == \A r \in Runs : Cardinality({c \in Runs : run[c].of = r}) <= 1

=============================================================================
