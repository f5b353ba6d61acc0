------------------------------- MODULE Lease -------------------------------
(***************************************************************************)
(* The leased background loops: MaintenanceLock (a lease in one bucket     *)
(* object) and BackgroundLoops (one attempt at a time per process, with a  *)
(* deadline), as startMaintenance and startSessionLifecycle use them.      *)
(*                                                                         *)
(* One action per request to the object store and per step of an attempt.  *)
(*                                                                         *)
(* Conventions.                                                            *)
(*   - Times are what is left: the lease expires, and the attempt's        *)
(*     deadline passes, at 0. The clock is never bounded.                  *)
(*   - A holder id is unique per attempt. The holder of the record is the  *)
(*     replica whose present attempt wrote it, or Ghost if that attempt is *)
(*     over.                                                               *)
(*   - match[r]: the ETag r read is still the lock's. Every write of the   *)
(*     lock clears it for everyone.                                        *)
(*   - The deadline timer is punctual: it fires when nothing is left.      *)
(*   - No code deletes the lock object.                                    *)
(***************************************************************************)
EXTENDS Naturals

CONSTANTS
    Replicas,   \* processes that run the loop
    Ghost,      \* holder of a record whose attempt is over
    Deadline,   \* deadlineMs of an attempt; the lease lasts until then
    MaxFaults   \* bound: crashes, stops, failed requests, slow acquisitions

ASSUME LeaseAssumption ==
    /\ Ghost \notin Replicas
    /\ Deadline \in Nat \ {0}
    /\ MaxFaults \in Nat

VARIABLES
    lock,       \* [exists, holder, ttl]: the lock object
    phase,      \* phase[r]: the next step of r's attempt, "idle" if it has none
    left,       \* left[r]: time left to the deadline of r's attempt
    aborted,    \* aborted[r]: the deadline of r's attempt has passed
    stopped,    \* stopped[r]: the loop of r has been stopped
    match,      \* match[r]: r's ETag is the lock's
    late,       \* late[r]: a release PUT of a past attempt of r is in flight and matches
    faults

vars == <<lock, phase, left, aborted, stopped, match, late, faults>>

NoLock == [exists |-> FALSE, holder |-> Ghost, ttl |-> 0]
Phases == {"idle", "create", "read", "steal", "ready", "step", "relread", "relput"}
Acquiring(r) == phase[r] \in {"create", "read", "steal"}

Init ==
    /\ lock = NoLock
    /\ phase = [r \in Replicas |-> "idle"]
    /\ left = [r \in Replicas |-> 0]
    /\ aborted = [r \in Replicas |-> FALSE]
    /\ stopped = [r \in Replicas |-> FALSE]
    /\ match = [r \in Replicas |-> FALSE]
    /\ late = [r \in Replicas |-> FALSE]
    /\ faults = 0

Goto(r, next) == phase' = [phase EXCEPT ![r] = next]

\* A conditional PUT takes effect: the record is new, so no other ETag matches.
WriteLock(record) ==
    /\ lock' = record
    /\ match' = [r \in Replicas |-> FALSE]
    /\ late' = [r \in Replicas |-> FALSE]

KeepLock == UNCHANGED <<lock, match, late>>

Fault == faults < MaxFaults /\ faults' = faults + 1
NoFault == UNCHANGED faults

-----------------------------------------------------------------------------
(* An attempt.                                                             *)

(***************************************************************************)
(* The interval fires while no attempt of this process is running. What an *)
(* earlier attempt of r wrote now belongs to nobody.                       *)
(***************************************************************************)
Begin(r) ==
    /\ phase[r] = "idle"
    /\ ~stopped[r]
    /\ Goto(r, "create")
    /\ left' = [left EXCEPT ![r] = Deadline]
    /\ aborted' = [aborted EXCEPT ![r] = FALSE]
    /\ match' = [match EXCEPT ![r] = FALSE]
    /\ lock' = [lock EXCEPT !.holder = IF @ = r THEN Ghost ELSE @]
    /\ UNCHANGED <<stopped, late, faults>>

\* Faulty variant: the lease is padded beyond the deadline.
TakenPadded(r) == [exists |-> TRUE, holder |-> r, ttl |-> left[r] + 1]

\* The lease an attempt of r takes expires at the attempt's deadline.
Taken(r) == [exists |-> TRUE, holder |-> r, ttl |-> left[r]]

(***************************************************************************)
(* acquire returned true: the attempt goes on unless its deadline passed   *)
(* meanwhile (the lease is then left to expire); or the answer was lost.   *)
(***************************************************************************)
Acquired(r) ==
    \/ Goto(r, IF aborted[r] THEN "idle" ELSE "ready") /\ NoFault
    \/ Goto(r, "idle") /\ Fault

\* tryAcquire: create-if-absent.
TryCreate(r) ==
    /\ phase[r] = "create"
    /\ \/ ~lock.exists /\ WriteLock(Taken(r)) /\ Acquired(r)
       \/ lock.exists /\ KeepLock /\ Goto(r, "read") /\ NoFault
       \/ KeepLock /\ Goto(r, "idle") /\ Fault
    /\ UNCHANGED <<left, aborted, stopped>>

\* What a read of the record leads to: the end of the attempt, or a write on its ETag.
BackOff(r) == Goto(r, "idle") /\ UNCHANGED match /\ NoFault
Remember(r, next) == Goto(r, next) /\ match' = [match EXCEPT ![r] = TRUE] /\ NoFault
ReadFails(r) == Goto(r, "idle") /\ UNCHANGED match /\ Fault

\* Faulty variant: a record of another holder is respected even once it has expired.
ReadLockForEver(r) ==
    /\ phase[r] = "read"
    /\ \/ lock.holder # r /\ BackOff(r)
       \/ lock.holder = r /\ Remember(r, "steal")
       \/ ReadFails(r)
    /\ UNCHANGED <<lock, left, aborted, stopped, late>>

\* tryAcquire: back off from another holder's lease unless it has expired.
ReadLock(r) ==
    /\ phase[r] = "read"
    /\ \/ lock.holder # r /\ lock.ttl > 0 /\ BackOff(r)
       \/ ~(lock.holder # r /\ lock.ttl > 0) /\ Remember(r, "steal")
       \/ ReadFails(r)
    /\ UNCHANGED <<lock, left, aborted, stopped, late>>

\* Faulty variant: the record is overwritten without checking its ETag.
StealBlind(r) ==
    /\ phase[r] = "steal"
    /\ WriteLock(Taken(r)) /\ Acquired(r)
    /\ UNCHANGED <<left, aborted, stopped>>

\* tryAcquire: replace the record, on the ETag that was read.
Steal(r) ==
    /\ phase[r] = "steal"
    /\ \/ match[r] /\ WriteLock(Taken(r)) /\ Acquired(r)
       \/ ~match[r] /\ KeepLock /\ Goto(r, "idle") /\ NoFault
       \/ KeepLock /\ Goto(r, "idle") /\ Fault
    /\ UNCHANGED <<left, aborted, stopped>>

\* step: the next part of the sweep, unless the attempt is aborted or the loop stopped.
StartStep(r) ==
    /\ phase[r] = "ready"
    /\ ~aborted[r] /\ ~stopped[r]
    /\ Goto(r, "step")
    /\ KeepLock
    /\ UNCHANGED <<left, aborted, stopped, faults>>

\* The step settles. An abort is noticed now; otherwise the sweep goes on or fails.
EndStep(r) ==
    /\ phase[r] = "step"
    /\ \/ aborted[r] /\ Goto(r, "idle")
       \/ ~aborted[r] /\ (Goto(r, "ready") \/ Goto(r, "relread"))
    /\ KeepLock
    /\ UNCHANGED <<left, aborted, stopped, faults>>

\* Faulty variant: an attempt that was stopped ends without releasing its lease.
EndSweepStopped(r) ==
    /\ phase[r] = "ready"
    /\ Goto(r, IF aborted[r] \/ stopped[r] THEN "idle" ELSE "relread")
    /\ KeepLock
    /\ UNCHANGED <<left, aborted, stopped, faults>>

\* The sweep is over, or stopped; after the deadline the lease is left to expire.
EndSweep(r) ==
    /\ phase[r] = "ready"
    /\ Goto(r, IF aborted[r] THEN "idle" ELSE "relread")
    /\ KeepLock
    /\ UNCHANGED <<left, aborted, stopped, faults>>

\* release: read the record; go on only if it is ours and there is still time.
ReleaseRead(r) ==
    /\ phase[r] = "relread"
    /\ \/ lock.holder = r /\ ~aborted[r] /\ Remember(r, "relput")
       \/ ~(lock.holder = r /\ ~aborted[r]) /\ BackOff(r)
       \/ ReadFails(r)
    /\ UNCHANGED <<lock, left, aborted, stopped, late>>

\* The record of the present lease, expired in place.
Expired == [lock EXCEPT !.ttl = 0]

\* release: expire the record on the ETag that was read, best effort.
ReleasePut(r) ==
    /\ phase[r] = "relput"
    /\ ~aborted[r]
    /\ Goto(r, "idle")
    /\ \/ match[r] /\ WriteLock(Expired) /\ NoFault
       \/ ~match[r] /\ KeepLock /\ NoFault
       \/ KeepLock /\ Fault
    /\ UNCHANGED <<left, aborted, stopped>>

\* withAbortSignal: the attempt stops waiting for its release; the PUT is in flight.
ReleaseAbandon(r) ==
    /\ phase[r] = "relput"
    /\ aborted[r]
    /\ Goto(r, "idle")
    /\ late' = [late EXCEPT ![r] = match[r]]
    /\ UNCHANGED <<lock, left, aborted, stopped, match, faults>>

\* An abandoned release reaches the store.
LateRelease(r) ==
    /\ late[r]
    /\ WriteLock(Expired)
    /\ UNCHANGED <<phase, left, aborted, stopped, faults>>

-----------------------------------------------------------------------------
(* The environment.                                                        *)

\* stop(): no further attempt starts; the step in flight is not interrupted.
Stop(r) ==
    /\ ~stopped[r]
    /\ Fault
    /\ stopped' = [stopped EXCEPT ![r] = TRUE]
    /\ UNCHANGED <<lock, phase, left, aborted, match, late>>

\* The process is started again.
Restart(r) ==
    /\ stopped[r] /\ phase[r] = "idle"
    /\ stopped' = [stopped EXCEPT ![r] = FALSE]
    /\ UNCHANGED <<lock, phase, left, aborted, match, late, faults>>

Crash(r) ==
    /\ phase[r] # "idle"
    /\ Fault
    /\ Goto(r, "idle")
    /\ UNCHANGED <<lock, left, aborted, stopped, match, late>>

Before(t) == IF t > 0 THEN t - 1 ELSE 0

\* Time passes; an attempt whose time runs out is aborted.
Tick ==
    /\ lock.ttl > 0 \/ \E r \in Replicas : phase[r] # "idle" /\ ~aborted[r]
    /\ IF \E r \in Replicas : Acquiring(r) /\ left[r] = 1 THEN Fault ELSE NoFault
    /\ lock' = [lock EXCEPT !.ttl = Before(@)]
    /\ left' = [r \in Replicas |-> Before(left[r])]
    /\ aborted' = [r \in Replicas |-> aborted[r] \/ (phase[r] # "idle" /\ left[r] <= 1)]
    /\ UNCHANGED <<phase, stopped, match, late>>

Step(r) ==
    \/ Begin(r) \/ TryCreate(r) \/ ReadLock(r) \/ Steal(r)
    \/ StartStep(r) \/ EndStep(r) \/ EndSweep(r)
    \/ ReleaseRead(r) \/ ReleasePut(r) \/ ReleaseAbandon(r)
    \/ Restart(r)

Next ==
    \/ \E r \in Replicas : Step(r) \/ LateRelease(r) \/ Stop(r) \/ Crash(r)
    \/ Tick

Spec == Init /\ [][Next]_vars

\* Timers fire, requests and steps settle, and a stopped process is started again.
FairSpec == Spec /\ WF_vars(Tick) /\ \A r \in Replicas : WF_vars(Step(r))

-----------------------------------------------------------------------------
(* Properties.                                                             *)

\* Every variable has its type.
TypeOK ==
    /\ lock \in [exists : BOOLEAN, holder : Replicas \union {Ghost}, ttl : 0 .. Deadline]
    /\ phase \in [Replicas -> Phases]
    /\ left \in [Replicas -> 0 .. Deadline]
    /\ aborted \in [Replicas -> BOOLEAN]
    /\ stopped \in [Replicas -> BOOLEAN]
    /\ match \in [Replicas -> BOOLEAN]
    /\ late \in [Replicas -> BOOLEAN]
    /\ faults \in Nat

\* An attempt that has acquired the lease and is within its deadline.
MayWork(r) == phase[r] \in {"ready", "step"} /\ ~aborted[r]

(***************************************************************************)
(* No two attempts are entitled to sweep: acquire, renewal, steal and      *)
(* release of any number of replicas never leave two attempts within their *)
(* deadlines both believing they own the lease (MaintenanceLock.acquire).  *)
(***************************************************************************)
OneWorker == \A r, q \in Replicas : MayWork(r) /\ MayWork(q) => r = q

(***************************************************************************)
(* A part of a sweep is started only while the stored record names this    *)
(* attempt and has not expired (LoopContext.step).                         *)
(***************************************************************************)
StepsStartUnderLease ==
    [][\A r \in Replicas :
        phase[r] = "ready" /\ phase'[r] = "step" => lock.holder = r /\ lock.ttl > 0]_vars

(***************************************************************************)
(* An attempt that ends before its deadline, and none of whose requests    *)
(* failed, does not leave its lease behind for others to wait out, even if *)
(* the loop was stopped during it (the finally block of BackgroundLoops).  *)
(***************************************************************************)
OrderlyEndFreesLease ==
    [][\A r \in Replicas :
        /\ phase[r] # "idle" /\ phase'[r] = "idle"
        /\ ~aborted[r] /\ faults' = faults
        => ~(lock'.holder = r /\ lock'.ttl > 0)]_vars

(***************************************************************************)
(* Once failures cease, sweeps go on for ever: a lease left behind by a    *)
(* crash, a lost answer or a missed deadline blocks the others only until  *)
(* it expires.                                                             *)
(***************************************************************************)
MaintenanceRecurs == []<>(\E r \in Replicas : phase[r] = "ready")

=============================================================================
