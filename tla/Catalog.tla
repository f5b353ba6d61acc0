------------------------------ MODULE Catalog ------------------------------
(***************************************************************************)
(* The catalog of marimohub: an immutable snapshot object per commit and   *)
(* one mutable object, catalog.json, that points at the current snapshot.  *)
(* The only synchronisation is the object store's conditional PUT.         *)
(*                                                                         *)
(* The module models CatalogService (initialize, mutateSnapshot as used by *)
(* appendNotebookEntry and by the notebook sweep, recover), the CAS retry  *)
(* loop they run in, and MaintenanceService.expireSnapshots, one action    *)
(* per request to the object store: any number of calls in any number of   *)
(* replicas interleave between requests, crash, lose an answer, or give up *)
(* on a request that is still in flight.                                   *)
(*                                                                         *)
(* Conventions.                                                            *)
(*   - Snapshot ids are random and never reused; here they are the order   *)
(*     of upload, which is what expireSnapshots sorts by.                  *)
(*   - The ETag of catalog.json is its contents: every commit points at a  *)
(*     fresh snapshot, so no two versions of it are equal.                 *)
(*   - Reading the pointer and the snapshot it names is one step: the      *)
(*     snapshot is immutable.                                              *)
(*   - An in-flight attempt takes at most MaxAttempt from the upload of    *)
(*     its snapshot to the end of its pointer PUT; a sweep takes at most   *)
(*     MaxSweep from reading the pointer to listing the snapshots.         *)
(***************************************************************************)
EXTENDS Integers, FiniteSets

CONSTANTS
    Procs,          \* concurrent calls into CatalogService, over all replicas
    Reapers,        \* maintenance sweeps that may run at the same time
    Entries,        \* notebooks
    Work,           \* kinds of calls that are made (bound: all of them, or some)
    NoEntry,        \* the entry of a job that is not about a notebook
    Retries,        \* attempts of a CAS loop (DEFAULT_RETRIES)
    ScanLimit,      \* INITIALIZE_SNAPSHOT_SCAN_LIMIT
    KeepLast,       \* expireSnapshots: floor of most recent snapshots
    Retention,      \* expireSnapshots: retention window
    MaxAttempt,     \* longest time between a snapshot's upload and its pointer PUT
    MaxSweep,       \* longest time between a sweep's pointer read and its listing
    AdapterRetries, \* TRUE: the storage adapter re-sends a PUT whose answer it lost
    MaxSnap,        \* bound: snapshots ever uploaded
    MaxTime,        \* bound: clock
    MaxLosses       \* bound: times the environment loses catalog.json

ASSUME BoundsAssumption ==
    /\ Retries \in Nat \ {0}
    /\ ScanLimit \in Nat /\ KeepLast \in Nat
    /\ Retention \in Nat /\ MaxAttempt \in Nat /\ MaxSweep \in Nat
    /\ AdapterRetries \in BOOLEAN
    /\ Work \subseteq {"init", "append", "remove", "recover"}
    /\ MaxSnap \in Nat /\ MaxTime \in Nat /\ MaxLosses \in Nat

\* Retention outlives the longest attempt followed by the longest sweep.
ASSUME RetentionAssumption == MaxAttempt + MaxSweep <= Retention

VARIABLES
    \* The object store.
    catalog,    \* contents of catalog.json, or Absent
    snapshots,  \* ids of the snapshot objects that exist
    body,       \* body[s]: contents and upload time of snapshot s, once uploaded
    nextId,     \* the next snapshot id
    records,    \* notebooks whose own records exist under projects/
    now,        \* the clock
    \* The calls.
    pc,         \* pc[p]: the next step of call p
    job,        \* job[p]: what p was asked to do
    loc,        \* loc[p]: the local variables of p
    last,       \* last[p]: the answer to p's last call
    \* The sweeps.
    rpc,        \* rpc[r]: the next step of sweep r
    sweep,      \* sweep[r]: its local variables
    \* History.
    events,     \* events[s]: audit events appended for the commit of snapshot s
    moves,      \* number of changes of catalog.json
    lost,       \* the snapshot a lost catalog.json pointed at, if it listed something
    losses

store == <<catalog, snapshots, body, nextId, records, now>>
calls == <<pc, job, loc, last>>
sweeps == <<rpc, sweep>>
history == <<events, moves, lost, losses>>
vars == <<store, calls, sweeps, history>>

-----------------------------------------------------------------------------
(* State.                                                                  *)

NoSnap == 0
SnapIds == 1 .. MaxSnap
MaybeSnap == 0 .. MaxSnap

\* catalog.json: current_snapshot_id and previous_snapshot_id.
Pointers == [current : MaybeSnap, previous : MaybeSnap]
Absent == [current |-> NoSnap, previous |-> NoSnap]

MutateKinds == {"append", "remove"}
Kinds == MutateKinds \union {"init", "recover"}
Jobs == [kind : MutateKinds, entry : Entries] \union [kind : {"init", "recover"}, entry : {NoEntry}]
NoJob == [kind |-> "init", entry |-> NoEntry]

\* A snapshot object: the entries it lists, the operation that wrote it, its upload time.
Bodies == [entries : SUBSET Entries, kind : Kinds, at : Nat]
NoBody == [entries |-> {}, kind |-> "init", at |-> 0]

(***************************************************************************)
(* Locals of a call: the catalog.json it read (its ETag), the previous     *)
(* snapshot and the entries it will publish, the snapshot it uploaded, the *)
(* number of conflicts so far, and, as history, the number of pointer      *)
(* moves when it was invoked and when it last read the pointer.            *)
(***************************************************************************)
Locals == [seen : Pointers, prior : MaybeSnap, draft : SUBSET Entries,
           mine : MaybeSnap, tries : Nat, since : Nat, mark : Nat]
NoLocals == [seen |-> Absent, prior |-> NoSnap, draft |-> {},
             mine |-> NoSnap, tries |-> 0, since |-> 0, mark |-> 0]

Sweeps == [protected : SUBSET MaybeSnap, started : Nat, doomed : SUBSET SnapIds]
NoSweep == [protected |-> {}, started |-> 0, doomed |-> {}]

Steps == {"idle", "get", "list", "recheck", "sleep", "read", "plan", "check",
          "put", "swap", "abandoned", "unsure", "drop", "audit"}
Answers == {"none", "ok", "noop", "conflict", "refused", "error", "crashed"}

\* Steps during which call p may still make the pointer name the snapshot it uploaded.
InFlight(p) == pc[p] \in {"swap", "abandoned"}

\* The catalog exists and the snapshot it names exists.
Resolves == catalog # Absent /\ catalog.current \in snapshots

Init ==
    /\ catalog = Absent
    /\ snapshots = {}
    /\ body = [s \in SnapIds |-> NoBody]
    /\ nextId = 1
    /\ records = {}
    /\ now = 0
    /\ pc = [p \in Procs |-> "idle"]
    /\ job = [p \in Procs |-> NoJob]
    /\ loc = [p \in Procs |-> NoLocals]
    /\ last = [p \in Procs |-> "none"]
    /\ rpc = [r \in Reapers |-> "idle"]
    /\ sweep = [r \in Reapers |-> NoSweep]
    /\ events = [s \in SnapIds |-> 0]
    /\ moves = 0
    /\ lost = NoSnap
    /\ losses = 0

-----------------------------------------------------------------------------
(* Calls.                                                                  *)

Goto(p, step) ==
    /\ pc' = [pc EXCEPT ![p] = step]
    /\ UNCHANGED <<job, last>>

Return(p, answer) ==
    /\ pc' = [pc EXCEPT ![p] = "idle"]
    /\ last' = [last EXCEPT ![p] = answer]
    /\ job' = [job EXCEPT ![p] = NoJob]
    /\ loc' = [loc EXCEPT ![p] = NoLocals]

\* getCurrentSnapshot: the committed state, or NotInitializedError.
ReturnCurrent(p) == Return(p, IF Resolves THEN "ok" ELSE "refused")

\* Ids the running calls may still use up; a call starts only if its own are left.
Reserved == Retries * Cardinality({p \in Procs : pc[p] # "idle"})

\* Faulty variant: every call but a removal writes a notebook record first.
BeginAlwaysWrites(p, j) ==
    /\ pc[p] = "idle"
    /\ nextId + Reserved + Retries <= MaxSnap + 1
    /\ job' = [job EXCEPT ![p] = j]
    /\ pc' = [pc EXCEPT ![p] = CASE j.kind = "init" -> "get"
                                 [] j.kind = "recover" -> "plan"
                                 [] OTHER -> "read"]
    /\ last' = [last EXCEPT ![p] = "none"]
    /\ loc' = [loc EXCEPT ![p] = [NoLocals EXCEPT !.since = moves, !.mark = moves]]
    /\ records' = IF j.kind = "remove" THEN records \ {j.entry} ELSE records \union {j.entry}
    /\ UNCHANGED <<catalog, snapshots, body, nextId, now, sweeps, history>>

(***************************************************************************)
(* A request reaches CatalogService. A notebook's own records are written  *)
(* before its entry is appended, and deleted before its entry is removed.  *)
(***************************************************************************)
Begin(p, j) ==
    /\ pc[p] = "idle"
    /\ nextId + Reserved + Retries <= MaxSnap + 1
    /\ job' = [job EXCEPT ![p] = j]
    /\ pc' = [pc EXCEPT ![p] = CASE j.kind = "init" -> "get"
                                 [] j.kind = "recover" -> "plan"
                                 [] OTHER -> "read"]
    /\ last' = [last EXCEPT ![p] = "none"]
    /\ loc' = [loc EXCEPT ![p] = [NoLocals EXCEPT !.since = moves, !.mark = moves]]
    /\ records' = CASE j.kind = "append" -> records \union {j.entry}
                    [] j.kind = "remove" -> records \ {j.entry}
                    [] OTHER -> records
    /\ UNCHANGED <<catalog, snapshots, body, nextId, now, sweeps, history>>

\* initialize: an existing catalog is returned as it is.
InitializeGet(p) ==
    /\ pc[p] = "get"
    /\ IF catalog # Absent
         THEN ReturnCurrent(p)
         ELSE Goto(p, "list") /\ UNCHANGED loc
    /\ UNCHANGED <<store, sweeps, history>>

\* Every listed snapshot is an empty system.initialize one and the listing is complete.
OnlyEmptyInitializeSnapshots ==
    /\ Cardinality(snapshots) <= ScanLimit
    /\ \A s \in snapshots : body[s].kind = "init" /\ body[s].entries = {}

\* Faulty variant: initialize trusts the missing pointer and ignores stored data.
InitializeListBlind(p) ==
    /\ pc[p] = "list"
    /\ Goto(p, "put")
    /\ UNCHANGED <<loc, store, sweeps, history>>

\* initialize proceeds only on a bucket that holds no data.
InitializeList(p) ==
    /\ pc[p] = "list"
    /\ Goto(p, IF records = {} /\ OnlyEmptyInitializeSnapshots THEN "put" ELSE "recheck")
    /\ UNCHANGED <<loc, store, sweeps, history>>

InitializeRecheck(p) ==
    /\ pc[p] = "recheck"
    /\ IF catalog # Absent
         THEN ReturnCurrent(p)
         ELSE Goto(p, "sleep") /\ UNCHANGED loc
    /\ UNCHANGED <<store, sweeps, history>>

InitializeGiveUp(p) ==
    /\ pc[p] = "sleep"
    /\ IF catalog # Absent THEN ReturnCurrent(p) ELSE Return(p, "refused")
    /\ UNCHANGED <<store, sweeps, history>>

\* What the mutation callback makes of the entries it is given.
Effect(j, old) ==
    CASE j.kind = "append" -> old \union {j.entry}
      [] j.kind = "remove" -> old \ {j.entry}
      [] OTHER -> {}

\* Faulty variant: a retry keeps the ETag of the first attempt.
MutateReadStale(p) ==
    /\ pc[p] = "read"
    /\ \/ /\ ~Resolves
          /\ Return(p, "refused")
       \/ /\ Resolves
          /\ Goto(p, "put")
          /\ loc' = [loc EXCEPT ![p].seen = IF loc[p].tries = 0 THEN catalog ELSE @,
                                ![p].prior = catalog.current,
                                ![p].draft = Effect(job[p], body[catalog.current].entries),
                                ![p].mark = moves]
    /\ UNCHANGED <<store, sweeps, history>>

(***************************************************************************)
(* mutateSnapshot, one attempt: read the pointer and the snapshot it names *)
(* and run the callback. appendNotebookEntry with ifAbsent stops at an     *)
(* entry that exists.                                                      *)
(***************************************************************************)
MutateRead(p) ==
    /\ pc[p] = "read"
    /\ \/ /\ ~Resolves
          /\ Return(p, "refused")
       \/ /\ Resolves
          /\ job[p].kind = "append" /\ job[p].entry \in body[catalog.current].entries
          /\ Return(p, "noop")
       \/ /\ Resolves
          /\ ~(job[p].kind = "append" /\ job[p].entry \in body[catalog.current].entries)
          /\ Goto(p, "put")
          /\ loc' = [loc EXCEPT ![p] = [loc[p] EXCEPT
                        !.seen = catalog,
                        !.prior = catalog.current,
                        !.draft = Effect(job[p], body[catalog.current].entries),
                        !.mark = moves]]
    /\ UNCHANGED <<store, sweeps, history>>

\* What recovery lists: every stored notebook, or the notebooks of the chosen snapshot.
RecoveredEntries(source) == IF source = NoSnap THEN records ELSE body[source].entries

(***************************************************************************)
(* recover: plan again, from every record ("rebuild") or from a surviving  *)
(* snapshot all of whose notebooks still have their records. A report that *)
(* differs from the one the operator reviewed is a conflict.               *)
(***************************************************************************)
RecoverPlan(p) ==
    /\ pc[p] = "plan"
    /\ \/ \E source \in snapshots \union {NoSnap} :
            IF RecoveredEntries(source) \subseteq records
              THEN /\ Goto(p, "check")
                   /\ loc' = [loc EXCEPT ![p] = [loc[p] EXCEPT
                                 !.seen = catalog,
                                 !.prior = IF Resolves THEN catalog.current ELSE source,
                                 !.draft = RecoveredEntries(source),
                                 !.mark = moves]]
              ELSE Return(p, "refused")
       \/ Return(p, "conflict")
    /\ UNCHANGED <<store, sweeps, history>>

\* commitRecovery: the pointer must still be the inspected one.
RecoverCheck(p) ==
    /\ pc[p] = "check"
    /\ IF catalog = loc[p].seen
         THEN Goto(p, "put") /\ UNCHANGED loc
         ELSE Return(p, "conflict")
    /\ UNCHANGED <<store, sweeps, history>>

(***************************************************************************)
(* Upload the new snapshot. A failed upload ends the call, whether or not  *)
(* the object was written.                                                 *)
(***************************************************************************)
Upload(p) ==
    /\ nextId <= MaxSnap
    /\ snapshots' = snapshots \union {nextId}
    /\ body' = [body EXCEPT ![nextId] =
                    [entries |-> loc[p].draft, kind |-> job[p].kind, at |-> now]]
    /\ nextId' = nextId + 1
    /\ UNCHANGED <<catalog, records, now>>

\* Faulty variant: the audit event is appended per attempt, before the pointer moves.
PutSnapshotAudited(p) ==
    /\ pc[p] = "put"
    /\ Upload(p)
    /\ Goto(p, "swap")
    /\ loc' = [loc EXCEPT ![p].mine = nextId]
    /\ events' = [events EXCEPT ![nextId] = @ + 1]
    /\ UNCHANGED <<sweeps, moves, lost, losses>>

PutSnapshot(p) ==
    /\ pc[p] = "put"
    /\ \/ /\ Upload(p)
          /\ Goto(p, "swap")
          /\ loc' = [loc EXCEPT ![p].mine = nextId]
       \/ /\ Upload(p)
          /\ Return(p, "error")
       \/ /\ UNCHANGED store
          /\ Return(p, "error")
    /\ UNCHANGED <<sweeps, history>>

\* Faulty variant: an unconditional PUT of the pointer.
CommitPointerBlind(p) ==
    /\ catalog' = [current |-> loc[p].mine, previous |-> loc[p].prior]
    /\ moves' = moves + 1
    /\ lost' = IF job[p].kind = "recover" THEN NoSnap ELSE lost
    /\ UNCHANGED <<snapshots, body, nextId, records, now, events, losses>>

(***************************************************************************)
(* The conditional PUT of catalog.json takes effect: If-Match on the ETag  *)
(* that was read, or create-if-absent.                                     *)
(***************************************************************************)
CommitPointer(p) ==
    /\ catalog = loc[p].seen
    /\ catalog' = [current |-> loc[p].mine, previous |-> loc[p].prior]
    /\ moves' = moves + 1
    /\ lost' = IF job[p].kind = "recover" THEN NoSnap ELSE lost
    /\ UNCHANGED <<snapshots, body, nextId, records, now, events, losses>>

(***************************************************************************)
(* The pointer PUT commits and is acknowledged; or commits and its answer  *)
(* is lost; or is refused with 412; or the call gives up on it while it is *)
(* in flight. With AdapterRetries the adapter answers a lost reply by      *)
(* sending the PUT again, which the store refuses: the ETag has changed.   *)
(***************************************************************************)
SwapPointer(p) ==
    /\ pc[p] = "swap"
    /\ \/ /\ CommitPointer(p)
          /\ \/ Goto(p, "audit")
             \/ Goto(p, "unsure")
             \/ AdapterRetries /\ Goto(p, "drop")
       \/ /\ catalog # loc[p].seen
          /\ Goto(p, "drop")
          /\ UNCHANGED <<store, history>>
       \/ /\ pc' = [pc EXCEPT ![p] = "abandoned"]
          /\ last' = [last EXCEPT ![p] = "error"]
          /\ UNCHANGED <<job, store, history>>
    /\ UNCHANGED <<loc, sweeps>>

\* A request nobody waits for any more reaches the store, or never does.
SettleAbandoned(p) ==
    /\ pc[p] = "abandoned"
    /\ \/ CommitPointer(p)
       \/ UNCHANGED <<store, history>>
    /\ Return(p, last[p])
    /\ UNCHANGED sweeps

\* An error other than a failed precondition is rethrown; the snapshot is kept.
RethrowUnsure(p) ==
    /\ pc[p] = "unsure"
    /\ Return(p, "error")
    /\ UNCHANGED <<store, sweeps, history>>

(***************************************************************************)
(* A failed precondition: delete the snapshot just uploaded, best effort.  *)
(* initialize then returns the committed state, recover reports a          *)
(* conflict, mutateSnapshot tries again until its attempts are used up.    *)
(***************************************************************************)
DropSnapshot(p) ==
    /\ pc[p] = "drop"
    /\ snapshots' \in {snapshots, snapshots \ {loc[p].mine}}
    /\ CASE job[p].kind = "init" -> ReturnCurrent(p)
         [] job[p].kind = "recover" -> Return(p, "conflict")
         [] OTHER ->
              IF loc[p].tries + 1 < Retries
                THEN /\ Goto(p, "read")
                     /\ loc' = [loc EXCEPT ![p] = [NoLocals EXCEPT !.tries = loc[p].tries + 1,
                                                                  !.since = loc[p].since,
                                                                  !.mark = moves]]
                ELSE Return(p, "conflict")
    /\ UNCHANGED <<catalog, body, nextId, records, now, sweeps, history>>

\* One audit event per winning commit, best effort; initialize writes none.
AppendAudit(p) ==
    /\ pc[p] = "audit"
    /\ Return(p, "ok")
    /\ \/ UNCHANGED events
       \/ /\ job[p].kind # "init"
          /\ events' = [events EXCEPT ![loc[p].mine] = @ + 1]
    /\ UNCHANGED <<store, sweeps, moves, lost, losses>>

\* The replica dies.
Crash(p) ==
    /\ pc[p] \notin {"idle", "abandoned"}
    /\ Return(p, "crashed")
    /\ UNCHANGED <<store, sweeps, history>>

-----------------------------------------------------------------------------
(* MaintenanceService.expireSnapshots.                                     *)

\* Faulty variant: only the current snapshot is protected.
SweepReadCurrent(r) ==
    /\ rpc[r] = "idle"
    /\ catalog # Absent
    /\ rpc' = [rpc EXCEPT ![r] = "list"]
    /\ sweep' = [sweep EXCEPT ![r] =
                    [NoSweep EXCEPT !.protected = {catalog.current}, !.started = now]]
    /\ UNCHANGED <<store, calls, history>>

SweepRead(r) ==
    /\ rpc[r] = "idle"
    /\ catalog # Absent
    /\ rpc' = [rpc EXCEPT ![r] = "list"]
    /\ sweep' = [sweep EXCEPT ![r] =
                    [NoSweep EXCEPT !.protected = {catalog.current, catalog.previous} \ {NoSnap},
                                    !.started = now]]
    /\ UNCHANGED <<store, calls, history>>

\* Faulty variant: age and the keepLast floor alone decide.
ExpiredByAge(r) ==
    {s \in snapshots :
        /\ Cardinality({t \in snapshots : t > s}) >= KeepLast
        /\ now - body[s].at > Retention}

\* Beyond the keepLast newest, not protected, and older than the retention window.
Expired(r) ==
    {s \in snapshots :
        /\ Cardinality({t \in snapshots : t > s}) >= KeepLast
        /\ s \notin sweep[r].protected
        /\ now - body[s].at > Retention}

SweepList(r) ==
    /\ rpc[r] = "list"
    /\ IF Expired(r) = {}
         THEN /\ rpc' = [rpc EXCEPT ![r] = "idle"]
              /\ sweep' = [sweep EXCEPT ![r] = NoSweep]
         ELSE /\ rpc' = [rpc EXCEPT ![r] = "delete"]
              /\ sweep' = [sweep EXCEPT ![r].doomed = Expired(r)]
    /\ UNCHANGED <<store, calls, history>>

\* The bulk delete removes its keys in any order.
SweepDelete(r) ==
    /\ rpc[r] = "delete"
    /\ \E s \in sweep[r].doomed :
        /\ snapshots' = snapshots \ {s}
        /\ IF sweep[r].doomed = {s}
             THEN /\ rpc' = [rpc EXCEPT ![r] = "idle"]
                  /\ sweep' = [sweep EXCEPT ![r] = NoSweep]
             ELSE /\ sweep' = [sweep EXCEPT ![r].doomed = @ \ {s}]
                  /\ UNCHANGED rpc
    /\ UNCHANGED <<catalog, body, nextId, records, now, calls, history>>

\* The sweep's process dies, or its delete fails half way.
SweepCrash(r) ==
    /\ rpc[r] # "idle"
    /\ rpc' = [rpc EXCEPT ![r] = "idle"]
    /\ sweep' = [sweep EXCEPT ![r] = NoSweep]
    /\ UNCHANGED <<store, calls, history>>

-----------------------------------------------------------------------------
(* The environment.                                                        *)

Tick ==
    /\ now < MaxTime
    /\ \A p \in Procs : InFlight(p) => now < body[loc[p].mine].at + MaxAttempt
    /\ \A r \in Reapers : rpc[r] = "list" => now < sweep[r].started + MaxSweep
    /\ now' = now + 1
    /\ UNCHANGED <<catalog, snapshots, body, nextId, records, calls, sweeps, history>>

\* catalog.json disappears (an operator's mistake, a bad restore), not while a replica boots.
LoseCatalog ==
    /\ losses < MaxLosses
    /\ catalog # Absent
    /\ \A p \in Procs : pc[p] # "idle" => job[p].kind # "init"
    /\ catalog' = Absent
    /\ moves' = moves + 1
    /\ losses' = losses + 1
    /\ lost' = IF body[catalog.current].entries # {} THEN catalog.current ELSE lost
    /\ UNCHANGED <<snapshots, body, nextId, records, now, calls, sweeps, events>>

Step(p) ==
    \/ InitializeGet(p) \/ InitializeList(p) \/ InitializeRecheck(p) \/ InitializeGiveUp(p)
    \/ MutateRead(p)
    \/ RecoverPlan(p) \/ RecoverCheck(p)
    \/ PutSnapshot(p) \/ SwapPointer(p) \/ SettleAbandoned(p) \/ RethrowUnsure(p)
    \/ DropSnapshot(p) \/ AppendAudit(p)

SweepStep(r) == SweepRead(r) \/ SweepList(r) \/ SweepDelete(r) \/ SweepCrash(r)

Next ==
    \/ \E p \in Procs : (\E j \in Jobs : j.kind \in Work /\ Begin(p, j)) \/ Step(p) \/ Crash(p)
    \/ \E r \in Reapers : SweepStep(r)
    \/ Tick
    \/ LoseCatalog

Spec == Init /\ [][Next]_vars

-----------------------------------------------------------------------------
(* Properties.                                                             *)

\* Every variable has its type.
TypeOK ==
    /\ catalog \in Pointers
    /\ snapshots \subseteq SnapIds
    /\ body \in [SnapIds -> Bodies]
    /\ nextId \in 1 .. (MaxSnap + 1)
    /\ records \subseteq Entries
    /\ now \in Nat
    /\ pc \in [Procs -> Steps]
    /\ job \in [Procs -> Jobs]
    /\ loc \in [Procs -> Locals]
    /\ last \in [Procs -> Answers]
    /\ rpc \in [Reapers -> {"idle", "list", "delete"}]
    /\ sweep \in [Reapers -> Sweeps]
    /\ events \in [SnapIds -> Nat]
    /\ moves \in Nat
    /\ lost \in MaybeSnap
    /\ losses \in Nat

(***************************************************************************)
(* catalog.json never names a snapshot that does not exist: no writer and  *)
(* no sweep deletes a committed current snapshot, whatever fails in        *)
(* between (the corruption-safety invariant of CatalogService.initialize   *)
(* and of MaintenanceService.expireSnapshots).                             *)
(***************************************************************************)
PointerResolves == catalog # Absent => catalog.current \in snapshots

(***************************************************************************)
(* After a mutation the snapshot it replaced still exists, so an operator  *)
(* can go back to it: expireSnapshots keeps previous_snapshot_id, and a    *)
(* writer that lost its race cannot have deleted it.                       *)
(***************************************************************************)
RollbackAvailable ==
    catalog # Absent /\ body[catalog.current].kind \in MutateKinds
        => catalog.previous \in snapshots

(***************************************************************************)
(* The retry loop of mutateSnapshot gives way only to progress: each lost  *)
(* attempt of a call is paid for by a different change of catalog.json     *)
(* since the call began, so "max retries exceeded" means that many others  *)
(* got through.                                                            *)
(***************************************************************************)
ConflictMeansProgress ==
    \A p \in Procs : pc[p] # "idle" =>
        loc[p].since + loc[p].tries + (IF pc[p] = "drop" THEN 1 ELSE 0) <= moves

(***************************************************************************)
(* The audit log tells the truth: an audit event is appended at most once  *)
(* per snapshot, never for one whose author was told it lost, and a        *)
(* snapshot about to be deleted by its writer was never audited.           *)
(***************************************************************************)
AuditOnce ==
    /\ \A s \in SnapIds : events[s] <= 1
    /\ \A p \in Procs : pc[p] \in {"swap", "drop", "abandoned"} => events[loc[p].mine] = 0

(***************************************************************************)
(* A snapshot object is immutable, and an id is never written twice: what  *)
(* a reader cached under a snapshot key stays right for ever.              *)
(***************************************************************************)
SnapshotsImmutable ==
    [][\A s \in SnapIds : s < nextId => body'[s] = body[s] /\ (s \in snapshots' => s \in snapshots)]_vars

(***************************************************************************)
(* The catalog the callers see: calls take effect atomically and at most   *)
(* once, each on the value the previous one left, and the answers are      *)
(* truthful.                                                               *)
(***************************************************************************)
CallState(p) ==
    CASE pc[p] = "idle" -> "idle"
      [] pc[p] \in {"audit", "unsure"} -> "applied"
      [] pc[p] = "abandoned" -> "abandoned"
      [] OTHER -> "pending"

CurrentValue ==
    IF Resolves THEN [exists |-> TRUE, entries |-> body[catalog.current].entries]
                ELSE [exists |-> FALSE, entries |-> {}]

Abs == INSTANCE CatalogAbs WITH
    value <- CurrentValue,
    lost <- (lost # NoSnap),
    state <- [p \in Procs |-> CallState(p)]

\* CatalogService implements the atomic catalog of CatalogAbs.
ImplementsCatalogAbs == Abs!Spec

=============================================================================
