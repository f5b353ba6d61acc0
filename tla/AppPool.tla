------------------------------ MODULE AppPool ------------------------------
(***************************************************************************)
(* The app pool of one notebook (AppPoolService.ts, AppPoolRouter.ts,      *)
(* AppPoolStore.ts): visits are assigned to app sessions that run one      *)
(* version of the notebook, up to a number of visits per session and of    *)
(* sessions per version; a new version drains the sessions of the old one. *)
(* With it: the requests that create, restart and stop app sessions        *)
(* (routes/sessions.ts), the sweep of the pools (appPools.ts), and the     *)
(* saves of the notebook, which prune old versions (NotebookService.ts)    *)
(* but must keep those that a session runs (SessionService.ts).            *)
(*                                                                         *)
(* One action is one request to the store or to the provider, or a read    *)
(* together with the compare-and-swap that relies on it.                   *)
(***************************************************************************)
EXTENDS Naturals, FiniteSets

CONSTANTS
    Visitors,       \* browser tabs; each is one visit
    Admins,         \* users that restart or stop a session of the app
    Savers,         \* editors of the notebook
    MaxVisits,      \* policy.maxVisitsPerSession
    MaxPerVersion,  \* policy.maxSessionsPerVersion
    KeepVersions,   \* MAX_VERSIONS
    Attachment,     \* whether the provider has connectExisting
    MaxSessions,    \* bound on session ids
    MaxVersions,    \* bound on version ids
    MaxEvents       \* bound on the events below

ASSUME AppPoolAssumption ==
    /\ {MaxVisits, MaxPerVersion, KeepVersions, MaxVersions} \subseteq Nat \ {0}
    /\ {MaxSessions, MaxEvents} \subseteq Nat
    /\ Visitors \intersect Admins = {} /\ IsFiniteSet(Visitors)
    /\ Attachment \in BOOLEAN

VARIABLES
    source,     \* current_version_id of source.json
    ver,        \* ver[v]: the objects of version v
    cutoff,     \* the version prune cutoff; 0 if there is none
    saver,      \* saver[w]: the save w is in
    pool,       \* the pool object
    pin,        \* pin[s]: the version reserved for session s
    rec,        \* rec[s]: the status in the session record; failed and terminated are ended
    checked,    \* sessions whose version was found above the cutoff
    box,        \* box[s]: the sandbox of s, and its kernel
    req,        \* req[c]: the request of client c
    sweep,      \* the sweep of the pool
    late,       \* reservations whose startup deadline has passed
    lapsed,     \* visits whose lease or reconnect grace has passed
    due,        \* sessions that have been idle for the idle timeout
    events      \* visits, restarts, stops, saves, deletions and faults so far

versions == <<source, ver, cutoff, saver>>
clock == <<late, lapsed, due>>
runtime == <<pin, rec, checked, box>>
vars == <<versions, pool, runtime, req, sweep, clock, events>>

Clients == Visitors \union Admins
Sessions == 1..MaxSessions
Versions == 1..MaxVersions

\* AppPoolSchema.  A visitor that has no assignment is assigned to 0; idle are the
\* members with idle_since.
MemberStates == {"none", "starting", "ready", "draining", "retiring"}
Pools == [st : [Sessions -> MemberStates],  \* member.state
          rep : [Sessions -> 0..MaxSessions],   \* member.replaces_session_id
          asg : [Visitors -> 0..MaxSessions],
          idle : SUBSET Sessions, latest : 0..MaxVersions, deleted : BOOLEAN]

Present == {"starting", "running", "terminating"}
Over == {"ended", "expired"}

\* A sandbox is up; its kernel is ready; or, of an expired session, in use.
Standing == {"up", "ready", "busy"}
NoSave == [pc |-> "idle", keep |-> 0, cand |-> {}, prot |-> {}]
NoRequest == [pc |-> "idle", v |-> 0, s |-> 0, old |-> 0, own |-> "none", tear |-> FALSE]
NoSweep == [pc |-> "idle", todo |-> {}]

TypeOK ==
    /\ source \in Versions
    /\ ver \in [Versions -> {"none", "kept", "pruned"}]
    /\ cutoff \in 0..MaxVersions
    /\ saver \in [Savers -> [pc : {"idle", "prune", "scan", "pool", "delete"},
                             keep : 0..MaxVersions, cand : SUBSET Versions,
                             prot : SUBSET (0..MaxVersions)]]
    /\ pool \in Pools
    /\ pin \in [Sessions -> 0..MaxVersions]
    /\ rec \in [Sessions -> {"none"} \union Over \union Present]
    /\ checked \subseteq Sessions
    /\ box \in [Sessions -> {"none", "down"} \union Standing]
    /\ req \in [Clients -> [pc : {"idle", "sync", "route", "confirm", "terminate", "invalidate",
                                  "destroy", "boot", "record", "check", "run", "complete",
                                  "undobox", "undopool", "undorec"},
                            v : 0..MaxVersions, s : 0..MaxSessions, old : 0..MaxSessions,
                            own : {"none", "assign", "reserve", "record"}, tear : BOOLEAN]]
    /\ sweep \in [pc : {"idle", "mark", "read", "missing", "destroy", "remove"},
                  todo : SUBSET Sessions]
    /\ late \subseteq Sessions /\ due \subseteq Sessions
    /\ lapsed \subseteq Visitors
    /\ events \in 0..MaxEvents

Init ==
    /\ source = 1 /\ cutoff = 0
    /\ ver = [v \in Versions |-> IF v = 1 THEN "kept" ELSE "none"]
    /\ saver = [w \in Savers |-> NoSave]
    /\ pool = [st |-> [s \in Sessions |-> "none"], rep |-> [s \in Sessions |-> 0],
               asg |-> [u \in Visitors |-> 0], idle |-> {}, latest |-> 0, deleted |-> FALSE]
    /\ pin = [s \in Sessions |-> 0]
    /\ rec = [s \in Sessions |-> "none"]
    /\ checked = {}
    /\ box = [s \in Sessions |-> "none"]
    /\ req = [c \in Clients |-> NoRequest]
    /\ sweep = NoSweep
    /\ late = {} /\ lapsed = {} /\ due = {}
    /\ events = 0

Event == events < MaxEvents /\ events' = events + 1

-----------------------------------------------------------------------------
(* The pool object: AppPoolRouter.ts, and AppPoolService.ts inside a CAS. *)

Members(p) == {s \in Sessions : p.st[s] # "none"}
Occupants(p, s) == {u \in Visitors : p.asg[u] = s}

isReusableMember(p, s) ==
    p.st[s] \in {"ready", "draining"} \/ (p.st[s] = "starting" /\ s \notin late)

\* Assignments end with their visit and with their member; a member that nobody is
\* assigned to is idle from then on.
expireAppPresence(p) ==
    LET asg == [u \in Visitors |->
                  IF /\ p.asg[u] # 0 /\ u \notin lapsed
                     /\ isReusableMember(p, p.asg[u]) THEN p.asg[u] ELSE 0]
    IN [p EXCEPT !.asg = asg, !.idle = {s \in Members(p) : \A u \in Visitors : asg[u] # s}]

\* The sessions of older versions take no new visits.
observeVersion(p, v) ==
    [p EXCEPT !.latest = v,
              !.st = [s \in Sessions |-> IF p.st[s] = "ready" /\ pin[s] # v THEN "draining"
                                                                        ELSE p.st[s]]]

currentVersionMembers(p, v) ==
    {s \in Sessions : pin[s] = v /\ p.st[s] # "draining" /\ isReusableMember(p, s)}

Retired(p, S) == [p EXCEPT !.st = [s \in Sessions |-> IF s \in S THEN "retiring" ELSE p.st[s]]]
Dropped(p, s) == [p EXCEPT !.st[s] = "none", !.rep[s] = 0, !.idle = @ \ {s}]
Unassigned(p, s) == [p EXCEPT !.asg = [u \in Visitors |-> IF p.asg[u] = s THEN 0 ELSE p.asg[u]]]

\* A member retires once its record is missing or ends, or its startup is overdue.
synchronize(p) ==
    expireAppPresence(Retired(p, {s \in Members(p) :
        \/ p.st[s] # "starting" /\ rec[s] = "none"
        \/ p.st[s] = "starting" /\ s \in late
        \/ rec[s] \in {"terminating"} \union Over}))

\* Mutant: only a ready session is ever idle.
ReadyOnly(p, s) ==
    \/ p.st[s] = "retiring"
    \/ p.st[s] = "starting" /\ s \in late
    \/ p.st[s] = "ready" /\ Occupants(p, s) = {} /\ s \in p.idle /\ s \in due
\* routeAppRetirement other than 'retain'.
MayRetire(p, s) ==
    \/ p.st[s] = "retiring"
    \/ p.st[s] = "starting" /\ s \in late
    \/ /\ p.st[s] \in {"ready", "draining"} /\ Occupants(p, s) = {}
       /\ s \in p.idle /\ s \in due

releaseReservation(p, s) ==
    IF p.st[s] \in {"starting", "retiring"} THEN Unassigned(Dropped(p, s), s) ELSE p

invalidate(p, s) == Unassigned(Retired(p, Members(p) \intersect {s}), s)

\* The write of p; the visits in fresh begin or are renewed.
Put(p, fresh) ==
    /\ pool' = p
    /\ lapsed' = {u \in lapsed \ fresh : pool'.asg[u] # 0}
    /\ due' = {s \in due \intersect Members(pool') : Occupants(pool', s) \subseteq lapsed'}
    /\ late' = {s \in late : pool'.st[s] = "starting"}
Keep == UNCHANGED <<pool, clock>>

-----------------------------------------------------------------------------
(* A visit: admit. *)

At(c, step) == req[c].pc = step
Goto(c, step) == req' = [req EXCEPT ![c] = IF step = "idle" THEN NoRequest ELSE [@ EXCEPT !.pc = step]]

Ask(c, r) ==
    /\ At(c, "idle") /\ Event
    /\ req' = [req EXCEPT ![c] = r]
    /\ UNCHANGED <<versions, pool, runtime, sweep, clock>>

\* The caller reads the notebook, and with it the version to run.
Open(u) == ~pool.deleted /\ Ask(u, [NoRequest EXCEPT !.pc = "sync", !.v = source])

\* A request to restart session s at the current version, or only to stop it.
Restart(a, s) ==
    /\ ~pool.deleted /\ rec[s] # "none"
    /\ Ask(a, [NoRequest EXCEPT !.pc = "sync", !.v = source, !.old = s])
Stop(a, s) == rec[s] # "none" /\ Ask(a, [NoRequest EXCEPT !.pc = "terminate", !.old = s])

\* route, first CAS.
Synchronize(c) ==
    /\ At(c, "sync")
    /\ Put(synchronize(pool), {})
    /\ Goto(c, "route")
    /\ UNCHANGED <<versions, runtime, sweep, events>>

Unused == {s \in Sessions : pin[s] = 0}
NextSession == CHOOSE s \in Unused : \A t \in Unused : s <= t
Reserve(p, s, r) == [p EXCEPT !.st[s] = "starting", !.rep[s] = r, !.idle = @ \ {s}]

\* A session with room for the visit, best first: ready, fullest, oldest.
Preferred(p, S) ==
    LET Rank(s) == (IF p.st[s] = "ready" THEN 0 ELSE (Cardinality(Visitors) + 1) * (MaxSessions + 1))
                   + (Cardinality(Visitors) - Cardinality(Occupants(p, s))) * (MaxSessions + 1) + s
    IN CHOOSE s \in S : \A t \in S : Rank(s) <= Rank(t)

WithRoom(p, v) ==
    {s \in currentVersionMembers(p, v) : Cardinality(Occupants(p, s)) < MaxVisits}

\* route, second CAS (routeApp): keep the visit where it is, give it a slot, reserve a
\* session for it, or refuse.  Requests for a version that is no longer the head fail.
\* Refused, too, are those for which no session id is left.
Route(u) ==
    LET v == req[u].v
        p == observeVersion(expireAppPresence(pool), v)
    IN
    /\ At(u, "route") /\ u \in Visitors
    /\ IF pool.deleted \/ source # v THEN Goto(u, "idle") /\ Keep /\ UNCHANGED pin
       ELSE \/ /\ p.asg[u] # 0
               /\ Put(p, {u}) /\ Goto(u, "idle") /\ UNCHANGED pin
            \/ /\ p.asg[u] = 0 /\ WithRoom(p, v) # {}
               /\ LET s == Preferred(p, WithRoom(p, v)) IN
                    Put([p EXCEPT !.asg[u] = s, !.idle = @ \ {s}], {u})
               /\ req' = [req EXCEPT ![u].pc = "confirm", ![u].own = "assign"]
               /\ UNCHANGED pin
            \/ /\ p.asg[u] = 0 /\ WithRoom(p, v) = {}
               /\ Cardinality(currentVersionMembers(p, v)) < MaxPerVersion
               /\ Unused # {}
               /\ LET s == NextSession IN
                    /\ Put([Reserve(p, s, 0) EXCEPT !.asg[u] = s], {u})
                    /\ req' = [req EXCEPT ![u].pc = "confirm", ![u].own = "reserve", ![u].s = s]
                    /\ pin' = [pin EXCEPT ![s] = v]
            \/ /\ p.asg[u] = 0 /\ WithRoom(p, v) = {}
               /\ Cardinality(currentVersionMembers(p, v)) >= MaxPerVersion \/ Unused = {}
               /\ Put(p, {}) /\ Goto(u, "idle") /\ UNCHANGED pin
    /\ UNCHANGED <<versions, rec, checked, box, sweep, events>>

\* The same for a restart (reserveAppReplacement): the session to be replaced does not
\* count, and a second request finds the replacement of the first.
RouteRestart(a) ==
    LET v == req[a].v
        r == req[a].old
        p == observeVersion(expireAppPresence(pool), v)
        current == currentVersionMembers(p, v)
        previous == {s \in current : p.rep[s] = r}
        room == Cardinality(current \ {r}) < MaxPerVersion /\ Unused # {}
    IN
    /\ At(a, "route") /\ a \in Admins
    /\ IF pool.deleted \/ source # v THEN Goto(a, "idle") /\ Keep /\ UNCHANGED pin
       ELSE \/ /\ previous # {} \/ ~room
               /\ Put(p, {}) /\ Goto(a, "idle") /\ UNCHANGED pin
            \/ /\ previous = {} /\ room
               /\ LET s == NextSession IN
                    /\ Put(Reserve(p, s, r), {})
                    /\ req' = [req EXCEPT ![a].pc = "confirm", ![a].own = "reserve", ![a].s = s]
                    /\ pin' = [pin EXCEPT ![s] = v]
    /\ UNCHANGED <<versions, rec, checked, box, sweep, events>>

\* The version must still be the head after the CAS; if not, undo the CAS.
Confirm(c) ==
    /\ At(c, "confirm")
    /\ IF source = req[c].v
         THEN Keep /\ Goto(c, IF req[c].own = "assign" THEN "idle"
                              ELSE IF req[c].old = 0 THEN "boot" ELSE "terminate")
         ELSE /\ Goto(c, "idle")
              /\ Put(IF req[c].own = "reserve" THEN releaseReservation(pool, req[c].s)
                     ELSE expireAppPresence([pool EXCEPT !.asg[c] = 0]), {})
    /\ UNCHANGED <<versions, runtime, sweep, events>>

-----------------------------------------------------------------------------
(* retireSelectedSession: a stop, and the first part of a restart. *)

Terminate(c) ==
    LET r == req[c].old IN
    /\ At(c, "terminate")
    /\ rec' = [rec EXCEPT ![r] = IF @ \in {"starting", "running"} THEN "terminating" ELSE @]
    /\ req' = [req EXCEPT ![c].pc = "invalidate", ![c].tear = rec[r] # "terminating"]
    /\ UNCHANGED <<versions, pool, pin, checked, box, sweep, clock, events>>

InvalidateOld(c) ==
    /\ At(c, "invalidate")
    /\ Put(invalidate(pool, req[c].old), {})
    /\ Goto(c, "destroy")
    /\ UNCHANGED <<versions, runtime, sweep, events>>

\* Only who began or found the end of the session tears it down.
TearDown(c) ==
    LET r == req[c].old IN
    IF req[c].tear
      THEN box' = [box EXCEPT ![r] = "down"] /\ rec' = [rec EXCEPT ![r] = "ended"]
      ELSE UNCHANGED <<box, rec>>

\* A restart goes on once the sandbox is gone.
DestroyOld(c) ==
    /\ At(c, "destroy")
    /\ TearDown(c)
    /\ Goto(c, CASE req[c].s = 0 -> "idle"
                 [] req[c].s # 0 /\ box'[req[c].old] = "down" -> "boot"
                 [] OTHER -> "undopool")
    /\ UNCHANGED <<versions, pool, pin, checked, sweep, clock, events>>

-----------------------------------------------------------------------------
(* The create saga, from the boot of the sandbox to complete. *)

Boot(c) ==
    /\ At(c, "boot")
    /\ box' = [box EXCEPT ![req[c].s] = "up"]
    /\ Goto(c, "record")
    /\ UNCHANGED <<versions, pool, pin, rec, checked, sweep, clock, events>>

\* createSession: the record first, then the cutoff.
Record(c) ==
    /\ At(c, "record")
    /\ rec' = [rec EXCEPT ![req[c].s] = "starting"]
    /\ req' = [req EXCEPT ![c].pc = "check", ![c].own = "record"]
    /\ UNCHANGED <<versions, pool, pin, checked, box, sweep, clock, events>>

\* Mutant: the version at the cutoff is still open.
CutoffOpen(v) == v >= cutoff
AboveCutoff(v) == v > cutoff

Check(c) ==
    LET s == req[c].s IN
    /\ At(c, "check")
    /\ IF AboveCutoff(pin[s])
         THEN checked' = checked \union {s} /\ Goto(c, "run") /\ UNCHANGED rec
         ELSE /\ rec' = [rec EXCEPT ![s] = IF @ = "starting" THEN "ended" ELSE @]
              /\ Goto(c, "undobox") /\ UNCHANGED checked
    /\ UNCHANGED <<versions, pool, pin, box, sweep, clock, events>>

\* The kernel has come up.
Provisioned(s) == [box EXCEPT ![s] = IF @ = "up" THEN "ready" ELSE @]

\* sandbox_provision, mark_running and running_rechecks: the session may have been stopped
\* meanwhile, and the notebook deleted.
Run(c) ==
    LET s == req[c].s IN
    /\ At(c, "run")
    /\ box' = Provisioned(s)
    /\ rec' = [rec EXCEPT ![s] = IF @ = "starting" THEN "running" ELSE @]
    /\ Goto(c, IF rec'[s] = "running" /\ ~pool.deleted THEN "complete" ELSE "undobox")
    /\ UNCHANGED <<versions, pool, pin, checked, sweep, clock, events>>

Completed(p, s) == [p EXCEPT !.st[s] = IF pin[s] = p.latest THEN "ready" ELSE "draining"]
InTime(s) == pool.st[s] = "starting" /\ s \notin late

Complete(c) ==
    LET s == req[c].s IN
    /\ At(c, "complete")
    /\ IF InTime(s) THEN Put(Completed(pool, s), {}) /\ Goto(c, "idle")
                    ELSE Keep /\ Goto(c, "undobox")
    /\ UNCHANGED <<versions, runtime, sweep, events>>

\* A step fails, with or without effect; a session is torn down though its invalidation
\* failed.
Fail(c) ==
    LET s == req[c].s IN
    /\ Event
    /\ \/ /\ At(c, "boot")
          /\ box' \in {box, [box EXCEPT ![s] = "up"]}
          /\ Goto(c, "undobox") /\ UNCHANGED rec /\ Keep
       \/ /\ At(c, "record")
          /\ rec' \in {rec, [rec EXCEPT ![s] = "starting"]}
          /\ req' = [req EXCEPT ![c].pc = "undobox", ![c].own = "record"]
          /\ UNCHANGED box /\ Keep
       \/ /\ \/ /\ At(c, "check") /\ UNCHANGED box
                /\ rec' \in {rec, [rec EXCEPT ![s] = IF @ = "starting" THEN "ended" ELSE @]}
             \/ /\ At(c, "run") /\ box' \in {box, Provisioned(s)} /\ UNCHANGED rec
             \/ /\ At(c, "run") /\ box' = Provisioned(s)
                /\ rec' = [rec EXCEPT ![s] = IF @ = "starting" THEN "running" ELSE @]
          /\ Goto(c, "undobox") /\ Keep
       \/ /\ At(c, "complete")
          /\ Keep \/ (InTime(s) /\ Put(Completed(pool, s), {}))
          /\ Goto(c, "undobox") /\ UNCHANGED <<rec, box>>
       \/ /\ \/ req[c].pc \in {"terminate", "destroy"} /\ UNCHANGED <<rec, box>>
             \/ At(c, "invalidate") /\ TearDown(c)
          /\ Goto(c, IF req[c].s = 0 THEN "idle" ELSE "undopool") /\ Keep
    /\ UNCHANGED <<versions, pin, checked, sweep>>

\* The saga's compensation, then the catch block: the reservation is released only if
\* the record was never attempted, and a session that was created fails.
UndoBox(c) ==
    /\ At(c, "undobox")
    /\ box' = [box EXCEPT ![req[c].s] = IF @ \in Standing THEN "down" ELSE @]
    /\ Goto(c, "undopool")
    /\ UNCHANGED <<versions, pool, pin, rec, checked, sweep, clock, events>>

UndoPool(c) ==
    /\ At(c, "undopool")
    /\ Put(IF req[c].own = "record" THEN invalidate(pool, req[c].s)
                                    ELSE releaseReservation(pool, req[c].s), {})
    /\ Goto(c, "undorec")
    /\ UNCHANGED <<versions, runtime, sweep, events>>

UndoRecord(c) ==
    LET s == req[c].s IN
    /\ At(c, "undorec")
    /\ rec' = [rec EXCEPT ![s] = IF s \in checked /\ @ \in {"starting", "running"} THEN "ended" ELSE @]
    /\ Goto(c, "idle")
    /\ UNCHANGED <<versions, pool, pin, checked, box, sweep, clock, events>>

\* A clean-up is best effort.
UndoFails(c) ==
    /\ Event
    /\ \/ At(c, "undobox") /\ Goto(c, "undopool")
       \/ At(c, "undopool") /\ Goto(c, "undorec")
       \/ At(c, "undorec") /\ Goto(c, "idle")
    /\ UNCHANGED <<versions, pool, runtime, sweep, clock>>

Crash(c) ==
    /\ ~At(c, "idle") /\ Event
    /\ Goto(c, "idle")
    /\ UNCHANGED <<versions, pool, runtime, sweep, clock>>

-----------------------------------------------------------------------------
(* The visits. *)

\* heartbeat and leave: the visit is renewed or, with its goodbye, left its reconnect
\* grace, unless it has lapsed already.
Presence(u) ==
    /\ pool.asg[u] # 0
    /\ Put(expireAppPresence(pool), {})
    /\ UNCHANGED <<versions, runtime, req, sweep, events>>

\* The lease of the visit passes, or the grace after its goodbye.
Lapse(u) ==
    /\ pool.asg[u] # 0 /\ u \notin lapsed
    /\ lapsed' = lapsed \union {u}
    /\ UNCHANGED <<versions, pool, runtime, req, sweep, late, due, events>>

\* operation_expires_at of the reservation of s passes.
Late(s) ==
    /\ pool.st[s] = "starting" /\ s \notin late
    /\ late' = late \union {s}
    /\ UNCHANGED <<versions, pool, runtime, req, sweep, lapsed, due, events>>

\* idleMs pass since the last visit of s ended.
IdlePasses(s) ==
    /\ pool.st[s] \in {"starting", "ready", "draining"} /\ s \notin due
    /\ Occupants(pool, s) \subseteq lapsed
    /\ due' = due \union {s}
    /\ UNCHANGED <<versions, pool, runtime, req, sweep, late, lapsed, events>>

-----------------------------------------------------------------------------
(* The sweep of the pool: reconcile, and what sweepAppPools has it do. *)

\* The candidates of the snapshot take turns in the order of the pool.
Candidate == CHOOSE s \in sweep.todo : \A t \in sweep.todo : s <= t
SweepOf(todo) == sweep' = IF todo = {} THEN NoSweep ELSE [pc |-> "mark", todo |-> todo]
SweepTo(step) == sweep' = [sweep EXCEPT !.pc = step]
EndTurn == SweepOf(sweep.todo \ {Candidate})

SweepSync ==
    LET p == synchronize(pool) IN
    /\ sweep.pc = "idle"
    /\ Put(p, {})
    /\ SweepOf({s \in Members(p) : MayRetire(p, s)})
    /\ UNCHANGED <<versions, runtime, req, events>>

\* Mutant: the decision taken from the snapshot stands.
MarkFromSnapshot ==
    LET p == expireAppPresence(pool) IN
    /\ sweep.pc = "mark"
    /\ Put(expireAppPresence(Retired(p, Members(p) \intersect {Candidate})), {})
    /\ IF Candidate \in Members(p) THEN SweepTo("read") ELSE EndTurn
    /\ UNCHANGED <<versions, runtime, req, events>>
\* The decision is taken again inside the CAS that marks the member.  The probe of a
\* sandbox that no visit is assigned to finds no connection.
SweepMark ==
    LET p == expireAppPresence(pool) IN
    /\ sweep.pc = "mark"
    /\ IF MayRetire(p, Candidate)
         THEN Put(expireAppPresence(Retired(p, {Candidate})), {}) /\ SweepTo("read")
         ELSE Put(p, {}) /\ EndTurn
    /\ UNCHANGED <<versions, runtime, req, events>>

\* getSession and beginTerminating: a session that somebody else is ending is left alone.
SweepRead ==
    LET s == Candidate IN
    /\ sweep.pc = "read"
    /\ rec' = [rec EXCEPT ![s] = IF @ \in {"starting", "running"} THEN "terminating" ELSE @]
    /\ CASE rec[s] = "none" -> SweepTo("missing")
         [] rec[s] = "terminating" -> EndTurn
         [] rec[s] \in Over /\ box[s] = "down" -> SweepTo("remove")
         [] OTHER -> SweepTo("destroy")
    /\ UNCHANGED <<versions, pool, pin, checked, box, req, clock, events>>

SweepDestroy ==
    LET s == Candidate IN
    /\ sweep.pc \in {"missing", "destroy"}
    /\ box' = [box EXCEPT ![s] = "down"]
    /\ rec' = [rec EXCEPT ![s] = IF sweep.pc = "destroy" THEN "ended" ELSE @]
    /\ SweepTo("remove")
    /\ UNCHANGED <<versions, pool, pin, checked, req, clock, events>>

SweepRemove ==
    /\ sweep.pc = "remove"
    /\ Put(expireAppPresence(Dropped(pool, Candidate)), {})
    /\ EndTurn
    /\ UNCHANGED <<versions, runtime, req, events>>

\* A failed request ends the turn of its member, a crash the sweep.
SweepFails ==
    /\ sweep.pc # "idle" /\ Event
    /\ EndTurn \/ sweep' = NoSweep
    /\ UNCHANGED <<versions, pool, runtime, req, clock>>

-----------------------------------------------------------------------------
(* A save of the notebook, and the pruning of its versions. *)

Saving(w, step) == saver[w].pc = step
SaverAt(w, r) == saver' = [saver EXCEPT ![w] = r]

\* updateNotebook or commitSession writes a version and makes it the head.
Save(w) ==
    /\ Saving(w, "idle") /\ ~pool.deleted /\ Event
    /\ \E v \in Versions :
         /\ ver[v] = "none" /\ \A x \in Versions : x < v => ver[x] # "none"
         /\ source' = v
         /\ ver' = [ver EXCEPT ![v] = "kept"]
         /\ SaverAt(w, [NoSave EXCEPT !.pc = "prune", !.keep = v])
    /\ UNCHANGED <<cutoff, pool, runtime, req, sweep, clock>>

\* pruneVersions lists the versions and advances the cutoff to the newest that may go.
Prune(w) ==
    LET kept == {v \in Versions : ver[v] = "kept"}
        cand == {v \in kept : Cardinality({x \in kept : x > v}) >= KeepVersions}
    IN
    /\ Saving(w, "prune")
    /\ cutoff' = CHOOSE v \in cand \union {cutoff} : \A x \in cand \union {cutoff} : x <= v
    /\ SaverAt(w, IF cand = {} THEN NoSave ELSE [saver[w] EXCEPT !.pc = "scan", !.cand = cand])
    /\ UNCHANGED <<source, ver, pool, runtime, req, sweep, clock, events>>

\* listProtectedVersionIds: first the sessions, then the pool.
ScanSessions(w) ==
    /\ Saving(w, "scan")
    /\ SaverAt(w, [saver[w] EXCEPT !.pc = "pool",
                                   !.prot = {pin[s] : s \in {t \in Sessions : rec[t] \in Present}}])
    /\ UNCHANGED <<source, ver, cutoff, pool, runtime, req, sweep, clock, events>>

ReadPool(w) ==
    /\ Saving(w, "pool")
    /\ SaverAt(w, [saver[w] EXCEPT !.pc = "delete",
                                   !.prot = @ \union {saver[w].keep} \union {pin[s] : s \in Members(pool)}])
    /\ UNCHANGED <<source, ver, cutoff, pool, runtime, req, sweep, clock, events>>

DeleteVersions(w) ==
    /\ Saving(w, "delete")
    /\ ver' = [v \in Versions |-> IF v \in saver[w].cand \ saver[w].prot THEN "pruned" ELSE ver[v]]
    /\ SaverAt(w, NoSave)
    /\ UNCHANGED <<source, cutoff, pool, runtime, req, sweep, clock, events>>

PruneFails(w) ==
    /\ ~Saving(w, "idle") /\ Event
    /\ SaverAt(w, NoSave)
    /\ UNCHANGED <<source, ver, cutoff, pool, runtime, req, sweep, clock>>

\* retireForDeletion, when the notebook is deleted.
retireForDeletion ==
    /\ ~pool.deleted /\ Event
    /\ Put([Retired(pool, Members(pool)) EXCEPT !.deleted = TRUE, !.asg = [u \in Visitors |-> 0]], {})
    /\ UNCHANGED <<versions, runtime, req, sweep>>

-----------------------------------------------------------------------------
(* The other background passes, as far as they touch app sessions. *)

\* expireStale leaves the members of a pool to the pool, unless their end hangs.
expireStale(s) ==
    /\ rec[s] = "terminating" \/ (rec[s] \in {"starting", "running"} /\ s \notin Members(pool))
    /\ rec' = [rec EXCEPT ![s] = IF @ = "terminating" THEN "ended" ELSE "expired"]
    /\ UNCHANGED <<versions, pool, pin, checked, box, req, sweep, clock, events>>

\* A tab reaches the kernel of an expired session by its URL, or the kernel stops
\* answering; and the other way round.  Of other sessions nobody asks.
KernelUse(s) ==
    /\ rec[s] = "expired"
    /\ \/ box[s] = "ready" /\ box' = [box EXCEPT ![s] = "busy"]
       \/ box[s] = "busy" /\ box' = [box EXCEPT ![s] = "ready"]
    /\ UNCHANGED <<versions, pool, pin, rec, checked, req, sweep, clock, events>>

\* reclaimProbes: of an expired session both loops want to know that nobody uses it,
\* unless its authorization is past its deadline.
ReclaimProbes(s, past) == rec[s] = "expired" /\ ~past

\* reclaim, by the reconciler and by the lifecycle sweep.  A probe needs a provider that
\* attaches (attachment_unsupported) and a kernel that answers and is idle
\* (kernel_unreachable, kernel_active).  The kernel of a sandbox that is merely up may
\* have come up before its replica died.
Reclaim(s, past) ==
    /\ rec[s] \in Over /\ box[s] \in Standing
    /\ ReclaimProbes(s, past) => Attachment /\ box[s] # "busy"
    /\ box' = [box EXCEPT ![s] = "down"]
    /\ UNCHANGED <<versions, pool, pin, rec, checked, req, sweep, clock, events>>

\* The reconciler destroys a sandbox without a record that is older than its grace.
ReapOrphan(s) ==
    /\ rec[s] = "none" /\ box[s] \in Standing
    /\ \A c \in Clients : req[c].s # s
    /\ box' = [box EXCEPT ![s] = "down"]
    /\ UNCHANGED <<versions, pool, pin, rec, checked, req, sweep, clock, events>>

-----------------------------------------------------------------------------
ClientStep(c) ==
    \/ Synchronize(c) \/ Route(c) \/ RouteRestart(c) \/ Confirm(c)
    \/ Terminate(c) \/ InvalidateOld(c) \/ DestroyOld(c)
    \/ Boot(c) \/ Record(c) \/ Check(c) \/ Run(c) \/ Complete(c)
    \/ UndoBox(c) \/ UndoPool(c) \/ UndoRecord(c)
\* Deadlines and background passes.
Passing(s) ==
    \/ Late(s) \/ IdlePasses(s) \/ expireStale(s) \/ ReapOrphan(s)
    \/ (box[s] = "up" => rec[s] = "ended") /\ Reclaim(s, FALSE)
SweepStep == SweepSync \/ SweepMark \/ SweepRead \/ SweepDestroy \/ SweepRemove

Next ==
    \/ \E u \in Visitors : Open(u) \/ Presence(u) \/ Lapse(u)
    \/ \E a \in Admins, s \in Sessions : Restart(a, s) \/ Stop(a, s)
    \/ \E c \in Clients : ClientStep(c) \/ Fail(c) \/ UndoFails(c) \/ Crash(c)
    \/ SweepStep \/ SweepFails
    \/ \E w \in Savers : \/ Save(w) \/ Prune(w) \/ ScanSessions(w) \/ ReadPool(w)
                         \/ DeleteVersions(w) \/ PruneFails(w)
    \/ \E s \in Sessions : Passing(s) \/ KernelUse(s) \/ \E past \in BOOLEAN : Reclaim(s, past)
    \/ retireForDeletion

Spec == Init /\ [][Next]_vars

\* While requests are pending some request goes on, the sweep of the pool recurs, and so
\* do deadlines and the other passes.
Fairness ==
    /\ WF_vars(\E c \in Clients : ClientStep(c))
    /\ WF_vars(SweepStep)
    /\ WF_vars(\E s \in Sessions : Passing(s))

FairSpec == Spec /\ Fairness

-----------------------------------------------------------------------------
(* Properties *)

\* The version that a session runs is never pruned: not while the session is in the pool
\* ("Reservations protect source before a session exists; retiring members protect it
\* until reclamation"), and not while a session that was let past the cutoff has not
\* ended, in the pool or no longer.  createSession writes its record and then reads the
\* cutoff; pruneVersions moves the cutoff and then reads the records and the pool.
VersionKept ==
    \A s \in Sessions :
        \/ s \in Members(pool)
        \/ s \in checked /\ rec[s] \in Present
        => ver[pin[s]] # "pruned"

\* A visit keeps its session as long as it is renewed and the session runs: neither a new
\* version, nor the sweep, nor the visits of others take it away.  Only its own admission
\* (to a version that is no longer the head), the end of the notebook, or a request to
\* stop, replace or undo that very session do.
VisitsKept ==
    [][\A u \in Visitors :
         LET s == pool.asg[u] IN
         /\ s # 0 /\ u \notin lapsed
         /\ pool.st[s] \in {"ready", "draining"} /\ rec[s] = "running"
         =>
               \/ pool'.asg[u] = s
               \/ pool'.deleted
               \/ req[u].pc = "confirm"
               \/ \E c \in Clients : req[c].old = s \/ req[c].s = s]_vars

\* A sandbox that nobody uses is destroyed in the end, whatever failed: its creation, the
\* undoing of it, a restart, a sweep.  Kept are those of expired sessions that no loop can
\* ask: a replica died before it had told that their kernel was up, or the provider does
\* not attach ("automatic reclaim requires confirmed idle").
Kept(s) == rec[s] = "expired" /\ (box[s] = "up" \/ ~Attachment)
Used(s) == Occupants(pool, s) \ lapsed # {} \/ box[s] = "busy"
NothingIdles == \A s \in Sessions : box[s] \in Standing ~> (box[s] = "down" \/ Used(s) \/ Kept(s))

=============================================================================
