------------------------------ MODULE WarmPool ------------------------------
(***************************************************************************)
(* The warm pool: sandboxes booted ahead of time and handed to sessions.   *)
(*                                                                         *)
(* The module models WarmPoolService over WarmPoolStore (one CAS-updated   *)
(* object that lists the members), the part of the session route that      *)
(* claims a member and hands it over, the end of a session, and the orphan *)
(* rule of ReconciliationService; one action per request to the store or   *)
(* to the compute provider.                                                *)
(*                                                                         *)
(* Conventions.                                                            *)
(*   - One profile, hence one pool. Sandbox ids are never reused.          *)
(*   - A mutation of the pool object is one step: withCasRetry applies it  *)
(*     to the value it read or not at all. It may fail, and it may take    *)
(*     effect with its answer lost.                                        *)
(*   - Deadlines pass at any time: late and stale are the operation and    *)
(*     the readiness deadlines of a member. No duration is assumed.        *)
(*   - A member is claimed at most once, so it has two tokens in its life: *)
(*     the one of its creation and the one of its claim.                   *)
(*   - A sandbox dies only by a destroy call.                              *)
(***************************************************************************)
EXTENDS Integers, FiniteSets

CONSTANTS
    Boxes,          \* sandbox ids the pool may use (bound)
    Sessions,       \* session ids
    Sweepers,       \* replicas that run sweeps
    Size,           \* Size[r]: the pool size configured on r, 0 if r has the pool disabled
    MaxCreations,   \* MAX_CONCURRENT_CREATIONS
    CanList,        \* the provider can list its sandboxes (listActive)
    None,           \* no sandbox, no session, nobody
    MaxFaults       \* bound: failed requests, lost answers, crashes

ASSUME PoolAssumption ==
    /\ Size \in [Sweepers -> Nat]
    /\ MaxCreations \in Nat \ {0}
    /\ CanList \in BOOLEAN
    /\ MaxFaults \in Nat
    /\ None \notin Boxes \union Sessions \union Sweepers
    /\ IsFiniteSet(Boxes)

VARIABLES
    \* The pool object.
    mem,        \* mem[b]: the member for sandbox b
    late,       \* late[b]: its operation_until has passed
    stale,      \* stale[b]: its ready_until has passed
    cooling,    \* the pool's retry_at is in the future
    \* The provider.
    up,         \* up[b]: sandbox b runs
    flight,     \* flight[b]: the call that creates b is in flight, and who waits for it
    \* Creations, one per sandbox: the fill itself, and the reclaim of its late result.
    fresh,      \* ids not used yet (bound: any set of them at first)
    by,         \* by[b]: the replica whose sweep creates b
    fpc,        \* fpc[f]: the next step of filler f
    \* Session records and the routes that create the sessions.
    rec,        \* rec[s]: the session record
    spc,        \* spc[s]: the next step of the route
    claim,      \* claim[s]: the member it claimed
    probe,      \* probe[s]: the readiness probe of that member
    \* Sweeps.
    wpc,        \* wpc[r]: the next step of r's sweep
    seen,       \* seen[r]: the members it read and has not dealt with yet
    cur,        \* cur[r]: the one it is dealing with
    \* Reconciliation.
    opc, listed, owned,
    \* cleanup() calls: one per sweep, route and filler.
    clean,
    faults

pool == <<mem, late, stale, cooling>>
provider == <<up, flight>>
fillers == <<fresh, by, fpc>>
routes == <<spc, claim, probe>>
sweeps == <<wpc, seen, cur>>
reaper == <<opc, listed, owned>>
vars == <<pool, provider, fillers, rec, routes, sweeps, reaper, clean, faults>>

-----------------------------------------------------------------------------
(* State.                                                                  *)

Fillers == Boxes \X {"fill", "late"}
Actors == Sweepers \union Sessions \union Fillers

Members == [st : {"none", "creating", "ready", "claimed", "retiring"},
            tok : {"none", "fill", "claim"},
            dest : Sessions \union {None},
            assigned : BOOLEAN]
NoMember == [st |-> "none", tok |-> "none", dest |-> None, assigned |-> FALSE]
NewMember == [st |-> "creating", tok |-> "fill", dest |-> None, assigned |-> FALSE]
LateMember == [NewMember EXCEPT !.st = "retiring"]
Claimed(m, s) == [m EXCEPT !.st = "claimed", !.tok = "claim", !.dest = s]

\* A session's sandbox is None when it was booted for that session alone.
Records == [st : {"none", "starting", "running", "terminal"},
            box : Boxes \union {None},
            reclaimed : BOOLEAN]
NoRecord == [st |-> "none", box |-> None, reclaimed |-> FALSE]
Starting(b) == [st |-> "starting", box |-> b, reclaimed |-> FALSE]

Cleanups == [step : {"off", "read", "destroy", "mark", "remove"},
             box : Boxes \union {None},
             tok : {"none", "fill", "claim"},
             dest : Sessions \union {None}]
NoCleanup == [step |-> "off", box |-> None, tok |-> "none", dest |-> None]
CleanupOf(b, tok) == [step |-> "read", box |-> b, tok |-> tok, dest |-> None]
Destroying(c, d) == [c EXCEPT !.step = "destroy", !.dest = d]

RouteSteps == {"idle", "unclaim", "cold", "publish", "provision", "handoff", "assign", "run", "recheck",
               "done", "replace", "swap", "abandon", "mark", "failed", "crashed"}

Init ==
    /\ mem = [b \in Boxes |-> NoMember]
    /\ late = [b \in Boxes |-> FALSE]
    /\ stale = [b \in Boxes |-> FALSE]
    /\ cooling = FALSE
    /\ up = [b \in Boxes |-> FALSE]
    /\ flight = [b \in Boxes |-> "no"]
    /\ fresh \in SUBSET Boxes
    /\ by = [b \in Boxes |-> None]
    /\ fpc = [f \in Fillers |-> "off"]
    /\ rec = [s \in Sessions |-> NoRecord]
    /\ spc = [s \in Sessions |-> "idle"]
    /\ claim = [s \in Sessions |-> None]
    /\ probe = [s \in Sessions |-> "none"]
    /\ wpc = [r \in Sweepers |-> "idle"]
    /\ seen = [r \in Sweepers |-> [b \in Boxes |-> NoMember]]
    /\ cur = [r \in Sweepers |-> None]
    /\ opc = "idle" /\ listed = {} /\ owned = {}
    /\ clean = [a \in Actors |-> NoCleanup]
    /\ faults = 0

Fault == faults < MaxFaults /\ faults' = faults + 1
NoFault == UNCHANGED faults

\* Members that count towards the size of the pool.
Available == {b \in Boxes : mem[b].st \in {"creating", "ready"}}

\* WarmPoolService.isExpired.
Expired(b) == late[b] \/ stale[b]

-----------------------------------------------------------------------------
(* WarmPoolStore: updates of one member, conditional on its state and      *)
(* token.                                                                  *)

\* retire: the pool with member b retired, if it still is what the caller saw.
Retired(b, st, tok, abandonAssigned) ==
    IF mem[b].st = st /\ mem[b].tok = tok /\ (abandonAssigned \/ ~mem[b].assigned)
      THEN [mem EXCEPT ![b].st = "retiring"]
      ELSE mem

\* removeMember.
Removed(b, tok) == IF mem[b].tok = tok THEN [mem EXCEPT ![b] = NoMember] ELSE mem

StartCleanup(a, b, tok) == clean' = [clean EXCEPT ![a] = CleanupOf(b, tok)]

CleanupOver(a) == clean[a].step = "off"

\* Faulty variant: the member is not looked at again before its sandbox is destroyed.
CleanReadBlind(a) ==
    /\ clean[a].step = "read"
    /\ clean' = [clean EXCEPT ![a].step = "destroy", ![a].dest = mem[clean[a].box].dest]
    /\ UNCHANGED <<pool, provider, fillers, rec, routes, sweeps, reaper, faults>>

(***************************************************************************)
(* cleanup: look at the member again, destroy its sandbox, record that on  *)
(* the session it was meant for, remove the member.                        *)
(***************************************************************************)
CleanRead(a) ==
    /\ clean[a].step = "read"
    /\ LET m == mem[clean[a].box] IN
        clean' = [clean EXCEPT ![a] =
            IF m.st = "retiring" /\ m.tok = clean[a].tok
              THEN Destroying(@, m.dest) ELSE NoCleanup]
    /\ UNCHANGED <<pool, provider, fillers, rec, routes, sweeps, reaper, faults>>

CleanDestroy(a) ==
    /\ clean[a].step = "destroy"
    /\ up' = [up EXCEPT ![clean[a].box] = FALSE]
    /\ clean' = [clean EXCEPT ![a].step = IF clean[a].dest = None THEN "remove" ELSE "mark"]
    /\ UNCHANGED <<pool, flight, fillers, rec, routes, sweeps, reaper, faults>>

CleanMark(a) ==
    /\ clean[a].step = "mark"
    /\ LET d == clean[a].dest IN
        rec' = IF rec[d].st # "none" /\ rec[d].box = clean[a].box
                 THEN [rec EXCEPT ![d].reclaimed = TRUE] ELSE rec
    /\ clean' = [clean EXCEPT ![a].step = "remove"]
    /\ UNCHANGED <<pool, provider, fillers, routes, sweeps, reaper, faults>>

CleanRemove(a) ==
    /\ clean[a].step = "remove"
    /\ mem' = Removed(clean[a].box, clean[a].tok)
    /\ clean' = [clean EXCEPT ![a] = NoCleanup]
    /\ UNCHANGED <<late, stale, cooling, provider, fillers, rec, routes, sweeps, reaper, faults>>

CleanFails(a) ==
    /\ ~CleanupOver(a)
    /\ Fault
    /\ clean' = [clean EXCEPT ![a] = NoCleanup]
    /\ UNCHANGED <<pool, provider, fillers, rec, routes, sweeps, reaper>>

Cleanup(a) == CleanRead(a) \/ CleanDestroy(a) \/ CleanMark(a) \/ CleanRemove(a) \/ CleanFails(a)

-----------------------------------------------------------------------------
(* fill: create, publish or reclaim one member.                            *)

FillStep(f, step) == fpc' = [fpc EXCEPT ![f] = step]

\* The provider finishes creating b. A late result is reclaimed by whoever still waits for it.
CreateLands(b) ==
    /\ flight[b] # "no"
    /\ up' = [up EXCEPT ![b] = TRUE]
    /\ flight' = [flight EXCEPT ![b] = "no"]
    /\ IF flight[b] = "late" THEN FillStep(<<b, "late">>, "reclaim") ELSE UNCHANGED fpc
    /\ UNCHANGED <<pool, fresh, by, rec, routes, sweeps, reaper, clean, faults>>

\* The create call fails; nothing was created.
CreateFails(b) ==
    /\ flight[b] # "no"
    /\ Fault
    /\ flight' = [flight EXCEPT ![b] = "no"]
    /\ fpc' = [fpc EXCEPT ![<<b, "late">>] = IF flight[b] = "late" THEN "reclaim" ELSE @,
                          ![<<b, "fill">>] = IF flight[b] = "fill" THEN "fail" ELSE @]
    /\ UNCHANGED <<pool, up, fresh, by, rec, routes, sweeps, reaper, clean>>

\* The sandbox is created and answers its first command, or the command fails.
Boot(b) ==
    /\ fpc[<<b, "fill">>] = "boot" /\ flight[b] = "no"
    /\ FillStep(<<b, "fill">>, "publish") \/ FillStep(<<b, "fill">>, "fail")
    /\ UNCHANGED <<pool, provider, fresh, by, rec, routes, sweeps, reaper, clean, faults>>

(***************************************************************************)
(* The local deadline passes first. The boot goes on and reclaims what it  *)
(* creates.                                                                *)
(***************************************************************************)
BootTimeout(b) ==
    /\ fpc[<<b, "fill">>] = "boot"
    /\ \/ /\ flight[b] = "fill"
          /\ flight' = [flight EXCEPT ![b] = "late"]
          /\ FillStep(<<b, "fill">>, "fail")
       \/ /\ flight[b] = "no"
          /\ fpc' = [fpc EXCEPT ![<<b, "fill">>] = "fail", ![<<b, "late">>] = "reclaim"]
          /\ UNCHANGED flight
    /\ UNCHANGED <<pool, up, fresh, by, rec, routes, sweeps, reaper, clean, faults>>

\* A failed creation backs the pool off, best effort.
BackOff(b) ==
    /\ fpc[<<b, "fill">>] = "fail"
    /\ FillStep(<<b, "fill">>, "reclaim")
    /\ \/ cooling' = TRUE /\ NoFault
       \/ UNCHANGED cooling /\ Fault
    /\ UNCHANGED <<mem, late, stale, provider, fresh, by, rec, routes, sweeps, reaper, clean>>

\* The member becomes ready if the pool still expects it in time.
PublishReady(b) ==
    /\ fpc[<<b, "fill">>] = "publish"
    /\ LET expected == mem[b].st = "creating" /\ mem[b].tok = "fill" /\ ~Expired(b)
       IN  \/ /\ expected
              /\ mem' = [mem EXCEPT ![b].st = "ready"]
              /\ \/ FillStep(<<b, "fill">>, "reset") /\ NoFault
                 \/ FillStep(<<b, "fill">>, "reclaim") /\ Fault
           \/ /\ ~expected
              /\ FillStep(<<b, "fill">>, "reclaim")
              /\ UNCHANGED mem /\ NoFault
           \/ /\ FillStep(<<b, "fill">>, "reclaim")
              /\ UNCHANGED mem /\ Fault
    /\ UNCHANGED <<late, stale, cooling, provider, fresh, by, rec, routes, sweeps, reaper, clean>>

\* The pool's failure count is reset; if that fails, so does the creation.
ResetFailures(b) ==
    /\ fpc[<<b, "fill">>] = "reset"
    /\ \/ cooling' = FALSE /\ FillStep(<<b, "fill">>, "off") /\ NoFault
       \/ UNCHANGED cooling /\ FillStep(<<b, "fill">>, "reclaim") /\ Fault
    /\ UNCHANGED <<mem, late, stale, provider, fresh, by, rec, routes, sweeps, reaper, clean>>

\* reclaimCreation: list the sandbox as retiring, unless a session claimed it, and clean up.
ReclaimCreation(f) ==
    LET b == f[1] IN
    /\ fpc[f] = "reclaim"
    /\ CleanupOver(f)
    /\ FillStep(f, "off")
    /\ \/ /\ mem' = CASE mem[b].st = "none" -> [mem EXCEPT ![b] = LateMember]
                      [] mem[b].tok = "fill" -> [mem EXCEPT ![b].st = "retiring"]
                      [] OTHER -> mem
          /\ \/ StartCleanup(f, b, "fill") /\ NoFault
             \/ UNCHANGED clean /\ Fault
       \/ /\ UNCHANGED <<mem, clean>> /\ Fault
    /\ UNCHANGED <<late, stale, cooling, provider, fresh, by, rec, routes, sweeps, reaper>>

Fill(b) ==
    \/ Boot(b) \/ BootTimeout(b) \/ BackOff(b) \/ PublishReady(b) \/ ResetFailures(b)
    \/ \E k \in {"fill", "late"} : ReclaimCreation(<<b, k>>)

-----------------------------------------------------------------------------
(* The session route, from the claim of a member to the running session.   *)

RouteStep(s, step) == spc' = [spc EXCEPT ![s] = step]

\* Faulty variant: a member that another session has claimed may be claimed as well.
ReserveShared(s) ==
    /\ spc[s] = "idle"
    /\ \E b \in Boxes :
        /\ mem[b].st \in {"ready", "claimed"} /\ ~stale[b]
        /\ mem' = [mem EXCEPT ![b] = Claimed(@, s)]
        /\ late' = [late EXCEPT ![b] = FALSE]
        /\ claim' = [claim EXCEPT ![s] = b]
        /\ probe' = [probe EXCEPT ![s] = "running"]
        /\ RouteStep(s, "publish")
    /\ UNCHANGED <<stale, cooling, provider, fillers, rec, sweeps, reaper, clean, faults>>

(***************************************************************************)
(* reserve: claim a ready member, connect to it and start its probe, or go *)
(* on without one. If the answer is lost nobody knows the claim's token;   *)
(* if connecting fails the claim is given up.                              *)
(***************************************************************************)
Reserve(s) ==
    /\ spc[s] = "idle"
    /\ \/ \E b \in Boxes :
            /\ mem[b].st = "ready" /\ ~stale[b]
            /\ mem' = [mem EXCEPT ![b] = Claimed(@, s)]
            /\ late' = [late EXCEPT ![b] = FALSE]
            /\ \/ /\ claim' = [claim EXCEPT ![s] = b] /\ NoFault
                  /\ \/ /\ probe' = [probe EXCEPT ![s] = "running"]
                        /\ RouteStep(s, "publish")
                     \/ UNCHANGED probe /\ RouteStep(s, "unclaim")
               \/ /\ UNCHANGED <<claim, probe>>
                  /\ RouteStep(s, "cold") /\ Fault
       \/ /\ RouteStep(s, "cold")
          /\ UNCHANGED <<mem, late, claim, probe, faults>>
    /\ UNCHANGED <<stale, cooling, provider, fillers, rec, sweeps, reaper, clean>>

\* The claim that could not be connected to is retired, best effort.
RetireClaim(s) ==
    /\ spc[s] = "unclaim"
    /\ RouteStep(s, "cold")
    /\ claim' = [claim EXCEPT ![s] = None]
    /\ \/ mem' = Retired(claim[s], "claimed", "claim", FALSE) /\ NoFault
       \/ UNCHANGED mem /\ Fault
    /\ UNCHANGED <<late, stale, cooling, provider, fillers, rec, probe, sweeps, reaper, clean>>

\* A session with a sandbox of its own is none of the pool's business.
PublishCold(s) ==
    /\ spc[s] = "cold"
    /\ RouteStep(s, "done")
    /\ rec' = [rec EXCEPT ![s] = Starting(None)]
    /\ UNCHANGED <<pool, provider, fillers, claim, probe, sweeps, reaper, clean, faults>>

\* The probe runs beside the route. It succeeds if the sandbox answers in time.
ProbeSucceeds(s) ==
    /\ probe[s] = "running"
    /\ up[claim[s]] /\ ~Expired(claim[s])
    /\ probe' = [probe EXCEPT ![s] = "ok"]
    /\ UNCHANGED <<pool, provider, fillers, rec, spc, claim, sweeps, reaper, clean, faults>>

\* A failed probe retires the member, best effort.
ProbeFails(s) ==
    /\ probe[s] = "running"
    /\ probe' = [probe EXCEPT ![s] = "failed"]
    /\ \/ mem' = Retired(claim[s], "claimed", "claim", FALSE) /\ NoFault
       \/ UNCHANGED mem /\ Fault
    /\ UNCHANGED <<late, stale, cooling, provider, fillers, rec, spc, claim, sweeps, reaper, clean>>

\* createSession: the record names the claimed sandbox.
CreateSession(s) ==
    /\ spc[s] = "publish"
    /\ \/ /\ rec' = [rec EXCEPT ![s] = Starting(claim[s])]
          /\ \/ RouteStep(s, "provision") /\ NoFault
             \/ RouteStep(s, "abandon") /\ Fault
       \/ /\ UNCHANGED rec
          /\ RouteStep(s, "abandon") /\ Fault
    /\ UNCHANGED <<pool, provider, fillers, claim, probe, sweeps, reaper, clean>>

\* Any step up to the last may fail for reasons of its own (admission, provisioning, rechecks).
RouteFails(s) ==
    /\ spc[s] \in {"provision", "handoff", "run", "recheck"}
    /\ RouteStep(s, "abandon")
    /\ UNCHANGED <<pool, provider, fillers, rec, claim, probe, sweeps, reaper, clean, faults>>

AwaitProbe(s) ==
    /\ spc[s] = "provision"
    /\ \/ probe[s] = "ok" /\ RouteStep(s, "handoff")
       \/ probe[s] = "failed" /\ RouteStep(s, "replace")
    /\ UNCHANGED <<pool, provider, fillers, rec, claim, probe, sweeps, reaper, clean, faults>>

\* handoff, first request: the session must still be starting on this sandbox.
HandoffRead(s) ==
    /\ spc[s] = "handoff"
    /\ RouteStep(s, IF rec[s].st = "starting" /\ rec[s].box = claim[s] THEN "assign" ELSE "abandon")
    /\ UNCHANGED <<pool, provider, fillers, rec, claim, probe, sweeps, reaper, clean, faults>>

\* handoff, second request: the member is assigned unless the claim has expired or is gone.
HandoffAssign(s) ==
    LET b == claim[s]
        mine == mem[b].st = "claimed" /\ mem[b].tok = "claim" /\ ~Expired(b)
    IN
    /\ spc[s] = "assign"
    /\ \/ /\ mine
          /\ mem' = [mem EXCEPT ![b].assigned = TRUE]
          /\ \/ RouteStep(s, "run") /\ NoFault
             \/ RouteStep(s, "abandon") /\ Fault
       \/ /\ ~mine
          /\ UNCHANGED mem
          /\ RouteStep(s, "replace") /\ NoFault
       \/ /\ UNCHANGED mem
          /\ RouteStep(s, "abandon") /\ Fault
    /\ UNCHANGED <<late, stale, cooling, provider, fillers, rec, claim, probe, sweeps, reaper, clean>>

\* setRunning leaves a record that has ended as it is.
SetRunning(s) ==
    /\ spc[s] = "run"
    /\ rec' = IF rec[s].st = "starting" THEN [rec EXCEPT ![s].st = "running"] ELSE rec
    /\ \/ RouteStep(s, "recheck") /\ NoFault
       \/ RouteStep(s, "abandon") /\ Fault
    /\ UNCHANGED <<pool, provider, fillers, claim, probe, sweeps, reaper, clean>>

Finish(s) ==
    /\ spc[s] = "recheck"
    /\ RouteStep(s, "done")
    /\ UNCHANGED <<pool, provider, fillers, rec, claim, probe, sweeps, reaper, clean, faults>>

\* abandon: retire the claim even if assigned, then clean up; errors are ignored.
Abandon(s) ==
    /\ spc[s] \in {"replace", "abandon"}
    /\ probe[s] # "running"
    /\ CleanupOver(s)
    /\ RouteStep(s, IF spc[s] = "replace" THEN "swap" ELSE "mark")
    /\ \/ /\ mem' = Retired(claim[s], "claimed", "claim", TRUE)
          /\ \/ StartCleanup(s, claim[s], "claim") /\ NoFault
             \/ UNCHANGED clean /\ Fault
       \/ UNCHANGED <<mem, clean>> /\ Fault
    /\ UNCHANGED <<late, stale, cooling, provider, fillers, rec, claim, probe, sweeps, reaper>>

\* replaceStartingSandbox: the session goes on with a sandbox of its own, if it is still starting.
ReplaceSandbox(s) ==
    /\ spc[s] = "swap"
    /\ CleanupOver(s)
    /\ \/ /\ rec[s].st = "starting" /\ rec[s].box = claim[s]
          /\ rec' = [rec EXCEPT ![s].box = None, ![s].reclaimed = FALSE]
          /\ \/ /\ claim' = [claim EXCEPT ![s] = None]
                /\ RouteStep(s, "done") /\ NoFault
             \/ UNCHANGED claim /\ RouteStep(s, "abandon") /\ Fault
       \/ /\ ~(rec[s].st = "starting" /\ rec[s].box = claim[s])
          /\ RouteStep(s, "abandon")
          /\ UNCHANGED <<rec, claim>> /\ NoFault
    /\ UNCHANGED <<pool, provider, fillers, probe, sweeps, reaper, clean>>

\* markFailed, best effort; a record that has ended stays as it is.
MarkFailed(s) ==
    /\ spc[s] = "mark"
    /\ CleanupOver(s)
    /\ RouteStep(s, "failed")
    /\ \/ UNCHANGED rec
       \/ rec[s].st \in {"starting", "running"} /\ rec' = [rec EXCEPT ![s].st = "terminal"]
    /\ UNCHANGED <<pool, provider, fillers, claim, probe, sweeps, reaper, clean, faults>>

\* The replica that runs the route dies.
RouteCrash(s) ==
    /\ spc[s] \notin {"idle", "done", "failed", "crashed"}
    /\ Fault
    /\ RouteStep(s, IF spc[s] \in {"replace", "swap", "abandon", "mark"} THEN "failed" ELSE "crashed")
    /\ probe' = [probe EXCEPT ![s] = "none"]
    /\ clean' = [clean EXCEPT ![s] = NoCleanup]
    /\ UNCHANGED <<pool, provider, fillers, rec, claim, sweeps, reaper>>

Route(s) ==
    \/ Reserve(s) \/ RetireClaim(s) \/ PublishCold(s) \/ ProbeSucceeds(s) \/ ProbeFails(s)
    \/ CreateSession(s) \/ RouteFails(s) \/ AwaitProbe(s) \/ HandoffRead(s) \/ HandoffAssign(s)
    \/ SetRunning(s) \/ Finish(s) \/ Abandon(s) \/ ReplaceSandbox(s) \/ MarkFailed(s)

-----------------------------------------------------------------------------
(* The end of a session.                                                   *)

\* A session is stopped, expires or is found dead.
EndSession(s) ==
    /\ rec[s].st \in {"starting", "running"}
    /\ rec' = [rec EXCEPT ![s].st = "terminal"]
    /\ UNCHANGED <<pool, provider, fillers, routes, sweeps, reaper, clean, faults>>

\* Faulty variant: a reclaimed session gets a status of its own.
ReclaimSessionStatus(s) ==
    /\ rec[s].st = "terminal" /\ ~rec[s].reclaimed
    /\ up' = [b \in Boxes |-> up[b] /\ b # rec[s].box]
    /\ rec' = [rec EXCEPT ![s].st = "reclaimed"]
    /\ UNCHANGED <<pool, flight, fillers, routes, sweeps, reaper, clean, faults>>

\* SessionRetirer: the sandbox of a session that has ended is destroyed and that is recorded.
ReclaimSession(s) ==
    /\ rec[s].st = "terminal" /\ ~rec[s].reclaimed
    /\ up' = [b \in Boxes |-> up[b] /\ b # rec[s].box]
    /\ \/ rec' = [rec EXCEPT ![s].reclaimed = TRUE] /\ NoFault
       \/ UNCHANGED rec /\ Fault
    /\ UNCHANGED <<pool, flight, fillers, routes, sweeps, reaper, clean>>

\* reapTerminated: long after, the record is deleted.
ReapSession(s) ==
    /\ rec[s].st = "terminal" /\ rec[s].reclaimed
    /\ spc[s] \in {"done", "failed", "crashed"}
    /\ rec' = [rec EXCEPT ![s] = NoRecord]
    /\ UNCHANGED <<pool, provider, fillers, routes, sweeps, reaper, clean, faults>>

-----------------------------------------------------------------------------
(* sweep.                                                                  *)

SweepStep(r, step) == wpc' = [wpc EXCEPT ![r] = step]

\* The member r has dealt with is struck off its list.
ItemDone(r, b) ==
    /\ SweepStep(r, "items")
    /\ seen' = [seen EXCEPT ![r][b] = NoMember]
    /\ cur' = [cur EXCEPT ![r] = None]

\* r goes on with member b in a further request.
ItemGoes(r, b, step) ==
    /\ SweepStep(r, step)
    /\ cur' = [cur EXCEPT ![r] = b]
    /\ UNCHANGED seen

\* Retire what exceeds the configured size. (A failed sweep is tried again later.)
Trim(r) ==
    /\ wpc[r] = "idle"
    /\ \E D \in SUBSET Available :
        /\ Cardinality(D) = IF Cardinality(Available) > Size[r]
                              THEN Cardinality(Available) - Size[r] ELSE 0
        /\ mem' = [b \in Boxes |-> IF b \in D THEN [mem[b] EXCEPT !.st = "retiring"] ELSE mem[b]]
    /\ \/ SweepStep(r, "scan") /\ NoFault
       \/ UNCHANGED wpc /\ Fault
    /\ UNCHANGED <<late, stale, cooling, provider, fillers, rec, routes, seen, cur, reaper, clean>>

Scan(r) ==
    /\ wpc[r] = "scan"
    /\ \/ /\ seen' = [seen EXCEPT ![r] = mem]
          /\ SweepStep(r, "items") /\ NoFault
       \/ UNCHANGED seen /\ SweepStep(r, "idle") /\ Fault
    /\ UNCHANGED <<pool, provider, fillers, rec, routes, cur, reaper, clean>>

\* Faulty variant: a claimed member is dropped whenever its session is not visible.
ItemClaimedDropped(r, b) ==
    LET d == rec[seen[r][b].dest] IN
    /\ wpc[r] = "items" /\ CleanupOver(r)
    /\ seen[r][b].st = "claimed"
    /\ IF d.st = "none" THEN ItemGoes(r, b, "remove") ELSE ItemDone(r, b)
    /\ UNCHANGED <<pool, provider, fillers, rec, routes, reaper, clean, faults>>

\* A claimed member: its session owns it once visible; otherwise its claim must have expired.
\* If the session cannot be read the member is left to the next sweep.
ItemClaimed(r, b) ==
    LET d == rec[seen[r][b].dest]
        visible == d.st # "none"
    IN
    /\ wpc[r] = "items" /\ CleanupOver(r)
    /\ seen[r][b].st = "claimed"
    /\ \/ /\ NoFault
          /\ \/ visible /\ d.box = b /\ d.reclaimed /\ ItemGoes(r, b, "remove")
             \/ visible /\ d.box = b /\ ~d.reclaimed /\ ItemDone(r, b)
             \/ ~visible /\ seen[r][b].assigned /\ ItemGoes(r, b, "remove")
             \/ /\ IF visible THEN d.box # b ELSE ~seen[r][b].assigned
                /\ IF late[b] THEN ItemGoes(r, b, "retire") ELSE ItemDone(r, b)
       \/ ItemDone(r, b) /\ Fault
    /\ UNCHANGED <<pool, provider, fillers, rec, routes, reaper, clean>>

\* Faulty variant: a creation that nobody finishes is left in the pool.
ItemCreatingKept(r, b) ==
    /\ wpc[r] = "items" /\ CleanupOver(r)
    /\ seen[r][b].st = "creating"
    /\ ItemDone(r, b)
    /\ UNCHANGED <<pool, provider, fillers, rec, routes, reaper, clean, faults>>

\* A member being created is retired once its operation deadline has passed.
ItemCreating(r, b) ==
    /\ wpc[r] = "items" /\ CleanupOver(r)
    /\ seen[r][b].st = "creating"
    /\ IF late[b] THEN ItemGoes(r, b, "retire") ELSE ItemDone(r, b)
    /\ UNCHANGED <<pool, provider, fillers, rec, routes, reaper, clean, faults>>

\* A ready member is retired when it is not wanted, too old, or fails a health check.
ItemReady(r, b) ==
    /\ wpc[r] = "items" /\ CleanupOver(r)
    /\ seen[r][b].st = "ready"
    /\ \/ ItemGoes(r, b, "retire")
       \/ Size[r] > 0 /\ ~stale[b] /\ ItemDone(r, b)
    /\ UNCHANGED <<pool, provider, fillers, rec, routes, reaper, clean, faults>>

ItemRetiring(r, b) ==
    /\ wpc[r] = "items" /\ CleanupOver(r)
    /\ seen[r][b].st = "retiring"
    /\ ItemDone(r, b)
    /\ StartCleanup(r, b, seen[r][b].tok)
    /\ UNCHANGED <<pool, provider, fillers, rec, routes, reaper, faults>>

ItemRemove(r) ==
    /\ wpc[r] = "remove"
    /\ ItemDone(r, cur[r])
    /\ \/ mem' = Removed(cur[r], seen[r][cur[r]].tok) /\ NoFault
       \/ UNCHANGED mem /\ Fault
    /\ UNCHANGED <<late, stale, cooling, provider, fillers, rec, routes, reaper, clean>>

ItemRetire(r) ==
    LET b == cur[r]
        m == seen[r][b]
    IN
    /\ wpc[r] = "retire"
    /\ ItemDone(r, b)
    /\ \/ /\ mem' = Retired(b, m.st, m.tok, FALSE)
          /\ \/ StartCleanup(r, b, m.tok) /\ NoFault
             \/ UNCHANGED clean /\ Fault
       \/ UNCHANGED <<mem, clean>> /\ Fault
    /\ UNCHANGED <<late, stale, cooling, provider, fillers, rec, routes, reaper>>

\* Faulty variant: members that are still being created are not counted.
WantedReady(r) ==
    LET missing == Size[r] - Cardinality({b \in Boxes : mem[b].st = "ready"})
    IN  IF missing > 0 /\ fresh # {} THEN 1 ELSE 0

\* How many sandboxes reserveCreations asks for (bound: as many as there are fresh ids).
Wanted(r) ==
    LET missing == IF cooling \/ Cardinality(Available) > Size[r]
                     THEN 0 ELSE Size[r] - Cardinality(Available)
        most == IF missing < MaxCreations THEN missing ELSE MaxCreations
    IN  IF most < Cardinality(fresh) THEN most ELSE Cardinality(fresh)

\* reserveCreations: list the members first, then start to create them.
ReserveCreations(r) ==
    /\ wpc[r] = "items" /\ CleanupOver(r)
    /\ \A b \in Boxes : seen[r][b].st = "none"
    /\ \E B \in SUBSET fresh :
        /\ Cardinality(B) = Wanted(r)
        /\ mem' = [b \in Boxes |-> IF b \in B THEN NewMember ELSE mem[b]]
        /\ fresh' = fresh \ B
        /\ \/ /\ SweepStep(r, "fill") /\ NoFault
              /\ by' = [b \in Boxes |-> IF b \in B THEN r ELSE by[b]]
              /\ fpc' = [f \in Fillers |->
                            IF f[1] \in B /\ f[2] = "fill" THEN "boot" ELSE fpc[f]]
              /\ flight' = [b \in Boxes |-> IF b \in B THEN "fill" ELSE flight[b]]
           \/ /\ SweepStep(r, "idle") /\ Fault
              /\ UNCHANGED <<by, fpc, flight>>
    /\ UNCHANGED <<late, stale, cooling, up, rec, routes, seen, cur, reaper, clean>>

\* The sweep ends when its creations have ended.
EndSweep(r) ==
    /\ wpc[r] = "fill"
    /\ \A b \in Boxes : by[b] = r => fpc[<<b, "fill">>] = "off" /\ CleanupOver(<<b, "fill">>)
    /\ SweepStep(r, "idle")
    /\ UNCHANGED <<pool, provider, fillers, rec, routes, seen, cur, reaper, clean, faults>>

\* The replica dies, and with it the creations it waits for; the provider may still finish them.
SweepCrash(r) ==
    LET dead == {b \in Boxes : by[b] = r} IN
    /\ wpc[r] # "idle"
    /\ Fault
    /\ SweepStep(r, "idle")
    /\ seen' = [seen EXCEPT ![r] = [b \in Boxes |-> NoMember]]
    /\ cur' = [cur EXCEPT ![r] = None]
    /\ fpc' = [f \in Fillers |-> IF f[1] \in dead THEN "off" ELSE fpc[f]]
    /\ flight' = [b \in Boxes |-> IF b \in dead /\ flight[b] # "no" THEN "lost" ELSE flight[b]]
    /\ clean' = [a \in Actors |->
                    IF a = r \/ \E b \in dead, k \in {"fill", "late"} : a = <<b, k>>
                      THEN NoCleanup ELSE clean[a]]
    /\ UNCHANGED <<pool, up, fresh, by, rec, routes, reaper>>

Sweep(r) ==
    \/ Trim(r) \/ Scan(r)
    \/ \E b \in Boxes :
        ItemClaimed(r, b) \/ ItemCreating(r, b) \/ ItemReady(r, b) \/ ItemRetiring(r, b)
    \/ ItemRemove(r) \/ ItemRetire(r)
    \/ ReserveCreations(r) \/ EndSweep(r)

-----------------------------------------------------------------------------
(* ReconciliationService, rule 3: destroy what nobody owns. The provider   *)
(* is listed first, then the session records, then the pools.              *)

ListActive ==
    /\ opc = "idle" /\ CanList
    /\ listed' = {b \in Boxes : up[b]}
    /\ listed' # {}
    /\ opc' = "sessions" /\ owned' = {}
    /\ UNCHANGED <<pool, provider, fillers, rec, routes, sweeps, clean, faults>>

ListSessions ==
    /\ opc = "sessions"
    /\ owned' = {b \in listed : \E s \in Sessions : rec[s].st # "none" /\ rec[s].box = b}
    /\ opc' = "pools"
    /\ UNCHANGED <<pool, provider, fillers, rec, routes, sweeps, listed, clean, faults>>

\* Without the pools' ownership nothing is reaped.
ListPools ==
    /\ opc = "pools"
    /\ owned' = {}
    /\ \/ /\ listed' = {b \in listed \ owned : mem[b].st = "none"}
          /\ opc' = (IF listed' = {} THEN "idle" ELSE "reap") /\ NoFault
       \/ listed' = {} /\ opc' = "idle" /\ Fault
    /\ UNCHANGED <<pool, provider, fillers, rec, routes, sweeps, clean>>

ReapOrphan ==
    /\ opc = "reap"
    /\ \E b \in listed :
        /\ \/ up' = [up EXCEPT ![b] = FALSE] /\ NoFault
           \/ UNCHANGED up /\ Fault
        /\ listed' = listed \ {b}
        /\ opc' = IF listed = {b} THEN "idle" ELSE "reap"
    /\ UNCHANGED <<pool, flight, fillers, rec, routes, sweeps, owned, clean>>

Reconcile == ListActive \/ ListSessions \/ ListPools \/ ReapOrphan

-----------------------------------------------------------------------------
(* Time.                                                                   *)

OperationExpires(b) ==
    /\ mem[b].st \in {"creating", "claimed"} /\ ~late[b]
    /\ late' = [late EXCEPT ![b] = TRUE]
    /\ UNCHANGED <<mem, stale, cooling, provider, fillers, rec, routes, sweeps, reaper, clean, faults>>

ReadinessExpires(b) ==
    /\ mem[b].st \in {"creating", "ready", "claimed"} /\ ~stale[b]
    /\ stale' = [stale EXCEPT ![b] = TRUE]
    /\ UNCHANGED <<mem, late, cooling, provider, fillers, rec, routes, sweeps, reaper, clean, faults>>

CoolDown ==
    /\ cooling
    /\ cooling' = FALSE
    /\ UNCHANGED <<mem, late, stale, provider, fillers, rec, routes, sweeps, reaper, clean, faults>>

Expiry == CoolDown \/ \E b \in Boxes : OperationExpires(b) \/ ReadinessExpires(b)

Next ==
    \/ \E a \in Actors : Cleanup(a)
    \/ \E b \in Boxes : CreateLands(b) \/ CreateFails(b) \/ Fill(b)
    \/ \E s \in Sessions :
        Route(s) \/ RouteCrash(s) \/ EndSession(s) \/ ReclaimSession(s) \/ ReapSession(s)
    \/ \E r \in Sweepers : Sweep(r) \/ SweepCrash(r)
    \/ Reconcile
    \/ Expiry

Spec == Init /\ [][Next]_vars

(***************************************************************************)
(* Timers fire, requests settle, sweeps and reconciliations recur. Nothing *)
(* makes a session start or end, and nothing makes a deadline be met.      *)
(***************************************************************************)
FairSpec ==
    /\ Spec
    /\ \A a \in Actors : WF_vars(Cleanup(a))
    /\ \A b \in Boxes : WF_vars(CreateLands(b) \/ CreateFails(b)) /\ WF_vars(Fill(b))
                        /\ WF_vars(OperationExpires(b)) /\ WF_vars(ReadinessExpires(b))
    /\ \A s \in Sessions : WF_vars(spc[s] # "idle" /\ Route(s)) /\ WF_vars(ReclaimSession(s))
    /\ \A r \in Sweepers : WF_vars(Sweep(r))
    /\ WF_vars(Reconcile)

-----------------------------------------------------------------------------
(* Properties.                                                             *)

\* Every variable has its type.
TypeOK ==
    /\ mem \in [Boxes -> Members]
    /\ late \in [Boxes -> BOOLEAN] /\ stale \in [Boxes -> BOOLEAN] /\ cooling \in BOOLEAN
    /\ up \in [Boxes -> BOOLEAN]
    /\ flight \in [Boxes -> {"no", "fill", "late", "lost"}]
    /\ fresh \subseteq Boxes
    /\ by \in [Boxes -> Sweepers \union {None}]
    /\ fpc \in [Fillers -> {"off", "boot", "publish", "reset", "fail", "reclaim"}]
    /\ rec \in [Sessions -> Records]
    /\ spc \in [Sessions -> RouteSteps]
    /\ claim \in [Sessions -> Boxes \union {None}]
    /\ probe \in [Sessions -> {"none", "running", "ok", "failed"}]
    /\ wpc \in [Sweepers -> {"idle", "scan", "items", "remove", "retire", "fill"}]
    /\ seen \in [Sweepers -> [Boxes -> Members]]
    /\ cur \in [Sweepers -> Boxes \union {None}]
    /\ opc \in {"idle", "sessions", "pools", "reap"}
    /\ listed \subseteq Boxes /\ owned \subseteq Boxes
    /\ clean \in [Actors -> Cleanups]
    /\ faults \in Nat

\* The route of s has given up its sandbox.
Failing(s) == spc[s] \in {"replace", "swap", "abandon", "mark", "failed"}

(***************************************************************************)
(* A running session keeps its sandbox: no sweep, stale cleanup, expired   *)
(* claim, late creation or orphan reaper ever destroys a sandbox that was  *)
(* handed over, until its session ends or its own route gives it up.       *)
(***************************************************************************)
SessionKeepsSandbox ==
    \A s \in Sessions :
        rec[s].st = "running" /\ rec[s].box # None /\ ~Failing(s) => up[rec[s].box]

(***************************************************************************)
(* A sandbox is handed out once: no two sessions ever have it.             *)
(***************************************************************************)
HandedOutOnce ==
    \A s, t \in Sessions :
        /\ rec[s].st # "none" /\ rec[s].box # None
        /\ rec[t].st # "none" /\ rec[t].box = rec[s].box
        => s = t

(***************************************************************************)
(* Sweeps of several replicas, with different configurations, never keep   *)
(* more members available than the largest configured size.                *)
(***************************************************************************)
WithinSize == \E r \in Sweepers : Cardinality(Available) <= Size[r]

(***************************************************************************)
(* A member that was ever claimed leaves the pool object only once its     *)
(* sandbox is down: the object is what keeps track of it.                  *)
(***************************************************************************)
ClaimedMembersTracked ==
    [][\A b \in Boxes : mem[b].tok = "claim" /\ mem'[b].tok # "claim" => ~up'[b]]_vars

(***************************************************************************)
(* Every booted sandbox ends up in a live session or is destroyed: nothing *)
(* leaks, whatever crashes, as long as sweeps and reconciliation recur.    *)
(***************************************************************************)
InUse(b) == \E s \in Sessions : rec[s].st \in {"starting", "running"} /\ rec[s].box = b
NothingLeaks == \A b \in Boxes : up[b] ~> (~up[b] \/ InUse(b))

=============================================================================
