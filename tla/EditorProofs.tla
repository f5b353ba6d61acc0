---------------------------- MODULE EditorProofs ----------------------------
(***************************************************************************)
(* What holds of the editor sessions of a notebook for any number of       *)
(* sessions, users, takeovers, retries, operations at once and faults.     *)
(***************************************************************************)
EXTENDS EditorSession, TLAPS

USE DEF recVars, boxVars, claimVars, takeVars, vars, sagaOnly, workOnly, takeOnly

-----------------------------------------------------------------------------
(* Type correctness. *)

LEMMA ConstantsTyped ==
    /\ NoRecord \in Record /\ NoClaim \in Claim /\ NoSaga \in Saga /\ NoGoal \in Goal
    /\ 0 \in 0..MaxFaults
<1>1. 0 \in 0..MaxFaults
  BY EditorAssumption
<1>2. QED
  BY <1>1 DEF NoRecord, Record, NoClaim, Claim, NoSaga, Saga, NoGoal, Goal, Status, Absent, Terminal,
     Phases, SagaSteps

LEMMA InitTyped == Init => TypeOK
<1> SUFFICES ASSUME Init PROVE TypeOK
  OBVIOUS
<1>1. attach \in BOOLEAN /\ lapsed \in BOOLEAN
  BY EditorAssumption, Zenon DEF Init
<1>2. /\ rec \in [Sessions -> Record] /\ saga \in [Sessions -> Saga] /\ claim \in Claim
      /\ goal \in [Requests -> Goal] /\ faults \in 0..MaxFaults
  BY ConstantsTyped DEF Init
<1>3. /\ box \in [Sessions -> Box] /\ work \in [Kinds -> [Sessions -> WorkSteps]]
      /\ kpc \in [Requests -> TakeSteps] /\ head \in Sessions \union {None}
      /\ stale \subseteq Sessions /\ fresh \subseteq Sessions /\ missing \subseteq Sessions
  BY DEF Init, Box, WorkSteps, TakeSteps
<1>4. QED
  BY <1>1, <1>2, <1>3 DEF TypeOK

LEMMA FaultTyped == ASSUME TypeOK, Fault \/ NoFault PROVE faults' \in 0..MaxFaults
  BY EditorAssumption DEF TypeOK, Fault, NoFault

\* The updates of a record.
LEMMA RecordTyped ==
    ASSUME TypeOK, NEW s,
           \/ BeginTerminating(s) \/ MarkTerminated(s) \/ MarkFailed(s)
           \/ MarkSandboxReclaimed(s) \/ MarkCaptureCompleted(s)
    PROVE  rec' \in [Sessions -> Record]
<1>1. CASE s \notin Sessions
  BY <1>1 DEF TypeOK, BeginTerminating, MarkTerminated, MarkFailed, MarkSandboxReclaimed,
     MarkCaptureCompleted
<1>2. CASE s \in Sessions
  <2> DEFINE r == rec[s]
  <2>1. r \in Record
    BY <1>2 DEF TypeOK
  <2> HIDE DEF r
  <2>2. /\ [r EXCEPT !.st = "terminating", !.stop = TRUE] \in Record
        /\ [r EXCEPT !.st = IF @ \in Terminal THEN @ ELSE "terminated", !.stop = FALSE] \in Record
        /\ [r EXCEPT !.st = "failed"] \in Record
        /\ [r EXCEPT !.rcl = TRUE] \in Record /\ [r EXCEPT !.cap = TRUE] \in Record
    BY <2>1 DEF Record, Status, Terminal
  <2>3. QED
    BY <1>2, <2>2 DEF TypeOK, BeginTerminating, MarkTerminated, MarkFailed, MarkSandboxReclaimed,
       MarkCaptureCompleted, r
<1>3. QED
  BY <1>1, <1>2

LEMMA GoesTyped ==
    ASSUME TypeOK, NEW s, NEW step \in SagaSteps, Goes(s, step)
    PROVE  saga' \in [Sessions -> Saga]
<1>1. [NoSaga EXCEPT !.pc = step] \in Saga
  BY ConstantsTyped DEF Saga
<1>2. ASSUME s \in Sessions PROVE [saga[s] EXCEPT !.pc = step] \in Saga
  BY <1>2 DEF TypeOK, Saga
<1>3. QED
  BY <1>1, <1>2 DEF TypeOK, Goes, Becomes

LEMMA ReleaseTyped ==
    ASSUME TypeOK, NEW s, ReleaseEditorFor(s)
    PROVE  claim' \in Claim /\ fresh' \subseteq Sessions
<1>1. [claim EXCEPT !.holder = None] \in Claim
  BY DEF TypeOK, Claim
<1>2. QED
  BY <1>1 DEF TypeOK, ReleaseEditorFor, PutClaim

LEMMA ClaimedTyped == ASSUME TypeOK, NEW s \in Sessions PROVE Claimed(s) \in Claim
  BY DEF TypeOK, Claim, Claimed

LEMMA DestroyedTyped == ASSUME TypeOK, NEW s, Destroyed(s) PROVE box' \in [Sessions -> Box]
  BY DEF TypeOK, Destroyed, Box

LEMMA DoesTyped ==
    ASSUME TypeOK, NEW k, NEW s, NEW step \in WorkSteps, Does(k, s, step)
    PROVE  work' \in [Kinds -> [Sessions -> WorkSteps]]
  BY DEF TypeOK, Does

LEMMA MovesTyped ==
    ASSUME TypeOK, NEW k, NEW step \in TakeSteps, Moves(k, step)
    PROVE  kpc' \in [Requests -> TakeSteps] /\ goal' \in [Requests -> Goal]
  BY ConstantsTyped DEF TypeOK, Moves

LEMMA ClaimReadTyped ==
    ASSUME TypeOK, NEW s \in Sessions, NEW read, NEW put \in SagaSteps, NEW won \in SagaSteps,
           NEW failed \in SagaSteps, ClaimRead(s, read, put, won, failed)
    PROVE  TypeOK'
<1>1. [saga[s] EXCEPT !.pc = failed, !.lost = TRUE] \in Saga
  BY DEF TypeOK, Saga
<1>2. saga' \in [Sessions -> Saga]
  BY <1>1, GoesTyped DEF TypeOK, ClaimRead, Becomes
<1>3. fresh' \subseteq Sessions
  BY DEF TypeOK, ClaimRead
<1>4. QED
  BY <1>2, <1>3 DEF TypeOK, ClaimRead, NoFault

LEMMA ClaimPutTyped ==
    ASSUME TypeOK, NEW s \in Sessions, NEW put, NEW read \in SagaSteps, NEW won \in SagaSteps,
           ClaimPut(s, read, put, won)
    PROVE  TypeOK'
<1>1. saga' \in [Sessions -> Saga]
  BY GoesTyped DEF ClaimPut
<1>2. claim' \in Claim /\ fresh' \subseteq Sessions
  BY ClaimedTyped DEF TypeOK, ClaimPut, PutClaim
<1>3. QED
  BY <1>1, <1>2 DEF TypeOK, ClaimPut, NoFault

LEMMA CleanupTyped ==
    ASSUME TypeOK, NEW s \in Sessions, NEW from, NEW to \in SagaSteps, Cleanup(s, from, to)
    PROVE  TypeOK'
<1>1. saga' \in [Sessions -> Saga] /\ rec' \in [Sessions -> Record]
  BY GoesTyped, RecordTyped DEF TypeOK, Cleanup
<1>2. box' \in [Sessions -> Box] /\ faults' \in 0..MaxFaults
  BY FaultTyped DEF TypeOK, Cleanup, Box
<1>3. QED
  BY <1>1, <1>2 DEF TypeOK, Cleanup

LEMMA SagaTyped ==
    ASSUME TypeOK, NEW s \in Sessions,
           Preflight(s) \/ SagaStep(s) \/ AdmissionFails(s) \/ SagaCrashes(s)
    PROVE  TypeOK'
<1> USE DEF SagaSteps
<1>1. CASE Preflight(s)
  <2> DEFINE t == claim.t
             g == saga[s]
  <2>1. t \in Takeovers \union {None} /\ g \in Saga
    BY DEF TypeOK, Claim
  <2> HIDE DEF t, g
  <2>2. [g EXCEPT !.pc = "record", !.knew = t] \in Saga
    BY <2>1 DEF Saga
  <2>3. QED
    BY <1>1, <2>2 DEF t, g, TypeOK, Preflight, Becomes, Box
<1>2. CASE CreateRecord(s)
  <2>1. [saga[s] EXCEPT !.pc = "claim", !.base = head] \in Saga
    BY DEF TypeOK, Saga
  <2>2. saga' \in [Sessions -> Saga]
    BY <1>2, <2>1, GoesTyped DEF TypeOK, CreateRecord, Becomes
  <2>3. [rec EXCEPT ![s].st = "starting"] \in [Sessions -> Record]
    BY DEF TypeOK, Record, Status
  <2>4. rec' \in [Sessions -> Record] /\ faults' \in 0..MaxFaults
    BY <1>2, <2>3, FaultTyped DEF TypeOK, CreateRecord
  <2>5. QED
    BY <1>2, <2>2, <2>4 DEF TypeOK, CreateRecord
<1>3. CASE Admission(s)
  BY <1>3, ClaimReadTyped, ClaimPutTyped DEF Admission
<1>4. CASE AdmissionFails(s)
  BY <1>4, GoesTyped, FaultTyped DEF TypeOK, AdmissionFails
<1>5. CASE Provision(s)
  <2>1. box' \in [Sessions -> Box] /\ saga' \in [Sessions -> Saga] /\ faults' \in 0..MaxFaults
    BY <1>5, GoesTyped, FaultTyped DEF TypeOK, Provision, Box
  <2>2. QED
    BY <1>5, <2>1 DEF TypeOK, Provision
<1>6. CASE SetRunning(s)
  <2>1. rec' \in [Sessions -> Record]
    <3> DEFINE r == rec[s]
    <3>1. r \in Record
      BY DEF TypeOK
    <3> HIDE DEF r
    <3>2. [r EXCEPT !.st = "running", !.url = TRUE] \in Record
      BY <3>1 DEF Record, Status
    <3>3. QED
      BY <1>6, <3>2 DEF TypeOK, SetRunning, r
  <2>2. QED
    BY <1>6, <2>1, GoesTyped, FaultTyped DEF TypeOK, SetRunning
<1>7. CASE Recheck(s)
  <2>1. CASE CompleteTakeover(s)
    <3>1. [NoClaim EXCEPT !.holder = s] \in Claim
      BY ConstantsTyped DEF Claim
    <3>2. QED
      BY <2>1, <3>1, GoesTyped, FaultTyped DEF TypeOK, CompleteTakeover, PutClaim
  <2>2. QED
    BY <1>7, <2>1, ClaimReadTyped, ClaimPutTyped DEF Recheck
<1>8. CASE Compensate(s)
  <2>1. CASE MarkEnded(s)
    <3>1. rec' \in [Sessions -> Record]
      BY <2>1, RecordTyped DEF MarkEnded
    <3>2. QED
      BY <2>1, <3>1, GoesTyped, FaultTyped DEF TypeOK, MarkEnded
  <2>2. CASE Release(s, "unclaim", "drop") \/ Release(s, "release", "mark")
    BY <2>2, ReleaseTyped, GoesTyped, FaultTyped DEF TypeOK, Release
  <2>3. QED
    BY <1>8, <2>1, <2>2, CleanupTyped DEF Compensate
<1>9. CASE SagaCrashes(s)
  BY <1>9, GoesTyped, FaultTyped DEF TypeOK, SagaCrashes
<1>10. QED
  BY <1>1, <1>2, <1>3, <1>4, <1>5, <1>6, <1>7, <1>8, <1>9 DEF SagaStep

LEMMA OutsideTyped ==
    ASSUME TypeOK, NEW s \in Sessions,
           \/ GoStale(s) \/ ExpireStale(s) \/ ReapTerminated(s) \/ MarkDead(s)
           \/ BootDone(s) \/ BoxDies(s) \/ KernelUse(s) \/ ReapOrphan(s) \/ AdoptEditor(s)
    PROVE  TypeOK'
<1>1. CASE GoStale(s) \/ MarkDead(s)
  BY <1>1, RecordTyped DEF TypeOK, GoStale, MarkDead
<1>2. CASE ExpireStale(s)
  <2>1. [rec EXCEPT ![s].st = IF @ = "terminating" THEN "terminated" ELSE "expired"]
           \in [Sessions -> Record]
    BY DEF TypeOK, Record, Status, Terminal
  <2>2. QED
    BY <1>2, <2>1 DEF TypeOK, ExpireStale
<1>3. CASE ReapTerminated(s)
  <2>1. [NoRecord EXCEPT !.st = "reaped"] \in Record
    BY ConstantsTyped DEF Record, Status, Absent
  <2>2. QED
    BY <1>3, <2>1 DEF TypeOK, ReapTerminated
<1>4. CASE BootDone(s) \/ BoxDies(s) \/ KernelUse(s)
  BY <1>4, FaultTyped DEF TypeOK, BootDone, BoxDies, KernelUse, Box
<1>5. CASE ReapOrphan(s)
  BY <1>5, DestroyedTyped DEF TypeOK, ReapOrphan
<1>6. CASE AdoptEditor(s)
  BY <1>6, ClaimedTyped DEF TypeOK, AdoptEditor, PutClaim
<1>7. QED
  BY <1>1, <1>2, <1>3, <1>4, <1>5, <1>6

LEMMA OwnsTyped ==
    ASSUME TypeOK, NEW k, NEW s \in Sessions, NEW from, NEW yes \in WorkSteps, NEW no \in WorkSteps,
           Owns(k, s, from, yes, no)
    PROVE  TypeOK'
<1>1. work' \in [Kinds -> [Sessions -> WorkSteps]]
  BY DoesTyped DEF Owns
<1>2. claim' \in Claim /\ fresh' \subseteq Sessions
  BY ClaimedTyped DEF TypeOK, Owns, PutClaim
<1>3. QED
  BY <1>1, <1>2 DEF TypeOK, Owns, NoFault

LEMMA SaveTyped ==
    ASSUME TypeOK, NEW k, NEW s \in Sessions, NEW from, NEW to \in WorkSteps, Save(k, s, from, to)
    PROVE  TypeOK'
<1>1. work' \in [Kinds -> [Sessions -> WorkSteps]]
  BY DoesTyped DEF Save
<1>2. head' \in Sessions \union {None} /\ faults' \in 0..MaxFaults
  BY FaultTyped DEF TypeOK, Save, Capture
<1>3. QED
  BY <1>1, <1>2 DEF TypeOK, Save

LEMMA PlanSteps == \A s, past : ReclaimPlan(s, past) \subseteq {"mark", "owns", "destroy"}
  BY DEF ReclaimPlan

LEMMA WorkTyped ==
    ASSUME TypeOK, NEW s \in Sessions, NEW k \in Kinds,
           \/ Stop(s) \/ Snapshot(s) \/ (\E past \in BOOLEAN : Reclaim(k, s, past))
           \/ WorkStep(k, s) \/ WorkCrashes(k, s)
    PROVE  TypeOK'
<1> USE DEF WorkSteps
<1>1. CASE Stop(s)
  <2>1. work' \in [Kinds -> [Sessions -> WorkSteps]]
    BY <1>1, DoesTyped DEF Stop
  <2>2. QED
    BY <1>1, <2>1, RecordTyped, FaultTyped DEF TypeOK, Stop
<1>2. CASE Snapshot(s)
  BY <1>2, DoesTyped, FaultTyped DEF TypeOK, Snapshot
<1>3. CASE \E past \in BOOLEAN : Reclaim(k, s, past)
  <2>1. PICK past \in BOOLEAN : Reclaim(k, s, past)
    BY <1>3
  <2>2. work' \in [Kinds -> [Sessions -> WorkSteps]]
    BY <2>1, DoesTyped, PlanSteps DEF Reclaim
  <2>3. QED
    BY <2>1, <2>2, FaultTyped DEF TypeOK, Reclaim
<1>4. CASE WorkCrashes(k, s)
  BY <1>4, DoesTyped, FaultTyped DEF TypeOK, WorkCrashes
<1>5. CASE Destroy(k, s)
  <2>1. work' \in [Kinds -> [Sessions -> WorkSteps]] /\ box' \in [Sessions -> Box]
    BY <1>5, DoesTyped, DestroyedTyped DEF TypeOK, Destroy
  <2>2. QED
    BY <1>5, <2>1, FaultTyped DEF TypeOK, Destroy
<1>6. CASE Finish(k, s)
  <2>1. work' \in [Kinds -> [Sessions -> WorkSteps]] /\ rec' \in [Sessions -> Record]
    BY <1>6, DoesTyped, RecordTyped DEF TypeOK, Finish
  <2>2. claim' \in Claim /\ fresh' \subseteq Sessions /\ lapsed' \in BOOLEAN
    BY <1>6, ReleaseTyped DEF TypeOK, Finish
  <2>3. QED
    BY <1>6, <2>1, <2>2, FaultTyped DEF TypeOK, Finish
<1>7. QED
  BY <1>1, <1>2, <1>3, <1>4, <1>5, <1>6, OwnsTyped, SaveTyped DEF WorkStep

LEMMA TakeTyped ==
    ASSUME TypeOK, NEW k \in Requests,
           \/ k \in Takeovers /\ (ReserveTakeover(k) \/ TakeoverRefused(k) \/ BeginDrain(k))
           \/ k \in Drivers /\ (AcquireDrainLease(k) \/ ReadDrain(k) \/ AssertLease(k))
           \/ DrainStep(k) \/ TakeoverCrashes(k)
    PROVE  TypeOK'
<1> USE DEF TakeSteps
<1>1. CASE k \in Takeovers /\ ReserveTakeover(k)
  <2>1. [claim EXCEPT !.t = k, !.phase = "requested"] \in Claim
    BY <1>1 DEF TypeOK, Claim, Phases
  <2>2. [t |-> k, s |-> claim.holder] \in Goal
    BY <1>1 DEF TypeOK, Claim, Goal
  <2>3. QED
    BY <1>1, <2>1, <2>2, FaultTyped DEF TypeOK, ReserveTakeover, PutClaim
<1>2. CASE TakeoverRefused(k)
  <2>1. [claim EXCEPT !.t = None, !.phase = "none"] \in Claim
    BY DEF TypeOK, Claim, Phases
  <2>2. QED
    BY <1>2, <2>1, MovesTyped, FaultTyped DEF TypeOK, TakeoverRefused, Cancelled, PutClaim
<1>3. CASE BeginDrain(k)
  BY <1>3, MovesTyped, RecordTyped, FaultTyped DEF TypeOK, BeginDrain
<1>4. CASE k \in Drivers /\ AcquireDrainLease(k)
  <2>1. [claim EXCEPT !.lease = k] \in Claim
    BY <1>4 DEF TypeOK, Claim
  <2>2. [t |-> claim.t, s |-> claim.holder] \in Goal
    BY DEF TypeOK, Claim, Goal
  <2>3. QED
    BY <1>4, <2>1, <2>2, FaultTyped DEF TypeOK, AcquireDrainLease, PutClaim
<1>5. CASE ReadDrain(k) \/ TakeoverCrashes(k)
  <2>1. kpc' \in [Requests -> TakeSteps] /\ goal' \in [Requests -> Goal]
    BY <1>5, MovesTyped DEF ReadDrain, TakeoverCrashes
  <2>2. QED
    BY <1>5, <2>1, FaultTyped DEF TypeOK, ReadDrain, TakeoverCrashes
<1>6. CASE AssertLease(k)
  <2>1. AfterAssert[kpc[k]] \in TakeSteps
    BY <1>6 DEF AssertLease, AfterAssert
  <2>2. kpc' \in [Requests -> TakeSteps] /\ goal' \in [Requests -> Goal]
    BY <1>6, <2>1, MovesTyped DEF AssertLease
  <2>3. QED
    BY <1>6, <2>2, FaultTyped DEF TypeOK, AssertLease
<1>7. CASE DrainCapture(k)
  <2>1. Target(k) \in Sessions \union {None}
    BY DEF TypeOK, Goal, Target
  <2>2. head' \in Sessions \union {None} /\ faults' \in 0..MaxFaults
    BY <1>7, <2>1, FaultTyped DEF TypeOK, DrainCapture, Capture
  <2>3. kpc' \in [Requests -> TakeSteps] /\ goal' \in [Requests -> Goal]
    BY <1>7, MovesTyped DEF DrainCapture
  <2>4. QED
    BY <1>7, <2>2, <2>3 DEF TypeOK, DrainCapture
<1>8. CASE DrainMarkCaptured(k) \/ DrainMarkReclaimed(k) \/ DrainMarkTerminated(k)
  <2>1. rec' \in [Sessions -> Record]
    BY <1>8, RecordTyped DEF DrainMarkCaptured, DrainMarkReclaimed, DrainMarkTerminated
  <2>2. kpc' \in [Requests -> TakeSteps] /\ goal' \in [Requests -> Goal]
    BY <1>8, MovesTyped DEF DrainMarkCaptured, DrainMarkReclaimed, DrainMarkTerminated
  <2>3. QED
    BY <1>8, <2>1, <2>2, FaultTyped
    DEF TypeOK, DrainMarkCaptured, DrainMarkReclaimed, DrainMarkTerminated
<1>9. CASE DrainDestroy(k)
  <2>1. kpc' \in [Requests -> TakeSteps] /\ goal' \in [Requests -> Goal]
    BY <1>9, MovesTyped DEF DrainDestroy
  <2>2. box' \in [Sessions -> Box] /\ faults' \in 0..MaxFaults
    BY <1>9, DestroyedTyped, FaultTyped DEF TypeOK, DrainDestroy
  <2>3. QED
    BY <1>9, <2>1, <2>2 DEF TypeOK, DrainDestroy
<1>10. CASE FinishDrain(k) \/ FailDrain(k)
  <2>1. /\ [claim EXCEPT !.phase = "ready", !.lease = None] \in Claim
        /\ [claim EXCEPT !.phase = "draining"] \in Claim /\ [claim EXCEPT !.lease = None] \in Claim
    BY DEF TypeOK, Claim, Phases
  <2>2. claim' \in Claim /\ fresh' \subseteq Sessions
    BY <1>10, <2>1 DEF TypeOK, FinishDrain, FailDrain, PutClaim
  <2>3. kpc' \in [Requests -> TakeSteps] /\ goal' \in [Requests -> Goal]
    BY <1>10, MovesTyped DEF FinishDrain, FailDrain
  <2>4. QED
    BY <1>10, <2>2, <2>3, FaultTyped DEF TypeOK, FinishDrain, FailDrain
<1>11. QED
  BY <1>1, <1>2, <1>3, <1>4, <1>5, <1>6, <1>7, <1>8, <1>9, <1>10 DEF DrainStep

LEMMA NextTyped == TypeOK /\ [Next]_vars => TypeOK'
<1> SUFFICES ASSUME TypeOK, [Next]_vars PROVE TypeOK'
  OBVIOUS
<1>1. CASE CancelRequested
  <2>1. [claim EXCEPT !.t = None, !.phase = "none"] \in Claim
    BY DEF TypeOK, Claim, Phases
  <2>2. QED
    BY <1>1, <2>1 DEF TypeOK, CancelRequested, PutClaim
<1>2. CASE DrainLeaseLapses \/ ListActive \/ UNCHANGED vars
  BY <1>2 DEF TypeOK, DrainLeaseLapses, ListActive
<1>3. Loops \subseteq Kinds /\ Takeovers \subseteq Requests /\ Drivers \subseteq Requests
  BY DEF Kinds, Requests
<1>4. \A s \in Sessions : Stop(s) \/ Snapshot(s) => TypeOK'
  <2>1. "retire" \in Kinds
    BY DEF Kinds
  <2>2. QED
    BY <2>1, WorkTyped
<1>5. QED
  BY <1>1, <1>2, <1>3, <1>4, SagaTyped, OutsideTyped, WorkTyped, TakeTyped DEF Next

\* Every variable of EditorSession keeps its type in every behaviour.
THEOREM TypeCorrect == Spec => []TypeOK
  BY InitTyped, NextTyped, PTL DEF Spec

-----------------------------------------------------------------------------
(* The invariant.                                                          *)

Live(s) == rec[s].st \in {"starting", "running"}
Past(s) == rec[s].st \notin {"none", "starting", "running"}
Compensating == {"unclaim", "drop", "undo", "destroy", "release", "mark", "over"}

\* Session s will not be handed over with a sandbox: it has gone, or the saga has given up.  Or it
\* took longer than HEARTBEAT_TTL_MS to start, and the theorems say nothing of it.
Safe(s) == box[s] = "gone" \/ saga[s].pc \in Compensating \/ s \in stale
CameUp == {"ready", "busy", "gone"}

\* What the steps of a saga have done.
SagaInv ==
    \A s \in Sessions :
        /\ saga[s].pc \in {"idle", "record"} => rec[s] = NoRecord
        /\ saga[s].pc = "idle" <=> box[s] = "none"
        /\ saga[s].pc \in {"running", "recheck", "reput", "done"} => box[s] \in CameUp
        /\ rec[s].st = "none" => saga[s].pc \in {"idle", "record"} \union Compensating

\* A session with a URL, or that was saved, has had its sandbox up.
UrlInv ==
    \A s \in Sessions :
        /\ rec[s].url => box[s] \in CameUp
        /\ rec[s].cap => box[s] \notin {"none", "boot"}
        /\ rec[s].st \in {"running", "expired"} => rec[s].url \/ Safe(s)

\* A teardown that will destroy follows the end of the session.
Ending == {"owns", "capture", "destroy", "mark", "reclaim", "release", "end"}
WorkInv ==
    \A s \in Sessions :
        /\ \A k \in Kinds : work[k][s] \in Ending => Past(s)
        /\ work["retire"][s] \notin {"snapowns", "snap"}
        /\ \A k \in Loops :
            work[k][s] \in {"owns", "capture", "snapowns", "snap"} => rec[s].url \/ Safe(s)

\* The claim names sessions that have had a record, and a transfer its request.
ClaimInv ==
    /\ claim.t = None => claim.phase = "none"
    /\ claim.t # None => claim.holder # None /\ claim.phase # "none" /\ kpc[claim.t] # "idle"
    /\ claim.phase # "ready" => claim.repl = None
    /\ claim.holder # None => rec[claim.holder].st # "none"
    /\ claim.repl # None => rec[claim.repl].st # "none"

\* A takeover request displaces the holder it found, once.
GoalInv ==
    \A k \in Requests :
        /\ kpc[k] \in {"idle", "over"} => goal[k] = NoGoal
        /\ kpc[k] \notin {"idle", "over"} =>
            goal[k].t # None /\ goal[k].s # None /\ rec[goal[k].s].st # "none"
        /\ k \in Takeovers /\ kpc[k] \notin {"idle", "over"} => goal[k].t = k
        /\ goal[k].t # None => kpc[goal[k].t] # "idle"
        /\ claim.t # None /\ goal[k].t = claim.t => goal[k].s = claim.holder
        /\ k \in Takeovers /\ claim.t = k /\ kpc[k] # "over" => claim.phase = "requested"
        /\ kpc[k] \in {"keep", "captured", "advance", "destroy"} => box[goal[k].s] \notin {"none", "boot"}

\* A takeover has begun to end s.
Draining == TakeSteps \ {"idle", "begin", "over"}
Drained(s) ==
    \/ \E k \in Requests : goal[k].s = s /\ kpc[k] \in Draining
    \/ claim.phase \in {"draining", "ready"} /\ claim.holder = s

\* It is the only one who ends s, and while the sandbox boots no sweep touches it.
DrainedInv ==
    \A s \in Sessions : Drained(s) =>
        /\ work["retire"][s] = "no"
        /\ Past(s)
        /\ box[s] = "boot" => Safe(s) \/ (rec[s].stop /\ \A k \in Loops : work[k][s] = "no")

\* The destruction of the sandbox of s was confirmed.
Torn(s) ==
    \/ rec[s].rcl \/ rec[s].st = "reaped"
    \/ \E k \in Kinds : work[k][s] \in {"mark", "reclaim", "release"}
    \/ \E k \in Requests : goal[k].s = s /\ kpc[k] \in {"gone", "reclaim", "final", "mark", "finish"}
    \/ claim.phase = "ready" /\ claim.holder = s

\* Then it has gone, unless it was booting: such a session was stopped before it had a URL.
TornInv ==
    \A s \in Sessions : Torn(s) => Safe(s) \/ (~Drained(s) /\ ~rec[s].url /\ Past(s))

\* Past the mark, and when the takeover is ready, the record says so.
ReclaimInv ==
    /\ \A k \in Requests : kpc[k] \in {"final", "mark", "finish"} =>
            rec[goal[k].s].rcl \/ rec[goal[k].s].st = "reaped"
    /\ claim.phase = "ready" => rec[claim.holder].rcl \/ rec[claim.holder].st = "reaped"

\* A stop that may still save comes before any other teardown.
RetireInv ==
    \A s \in Sessions : work["retire"][s] \in {"owns", "capture"} =>
        \/ Safe(s)
        \/ ~Torn(s) /\ rec[s].stop /\ \A k \in Loops : work[k][s] \in {"no", "snapowns", "snap"}

\* Whoever may save s holds the claim, or there is nothing left to save.
Saving(s) ==
    \/ \E k \in Kinds : work[k][s] \in {"capture", "snap"}
    \/ \E k \in Requests : goal[k].s = s /\ kpc[k] \in {"read", "capture"}
    \/ Live(s) /\ \E k \in Requests : goal[k].s = s /\ kpc[k] = "begin"
SaveInv ==
    \A s \in Sessions : Saving(s) => claim.holder = s \/ Safe(s)

\* The editor that works holds the claim, or replaces a holder that has ended; whoever is about to
\* take the claim replaces a dead one.
Editing(s) == Timely(s) /\ rec[s].st = "running"
Dead(s) == s \in stale \/ (Past(s) /\ (rec[s].st = "reaped" \/ rec[s].rcl))
HolderInv ==
    /\ \A s \in Sessions : Editing(s) => claim.holder = s \/ (claim.phase = "ready" /\ claim.repl = s)
    /\ fresh # {} /\ ClaimHolder # None => Dead(ClaimHolder)
    /\ \A s \in fresh : ~TransferBars(s)

IInv ==
    /\ TypeOK /\ SagaInv /\ UrlInv /\ WorkInv /\ ClaimInv /\ GoalInv
    /\ DrainedInv /\ TornInv /\ ReclaimInv /\ RetireInv /\ SaveInv /\ HolderInv

-----------------------------------------------------------------------------
(* What a step does: to the saga of s, to its record and sandbox, to the   *)
(* claim, to a teardown, to a takeover request.                            *)

SameRec == rec' = rec /\ stale' = stale
SameBox == box' = box
SameClaim == claim' = claim /\ fresh' = fresh
SameSaga == saga' = saga
SameWork == work' = work
SameTake == kpc' = kpc /\ goal' = goal

SagaTo(s, from, to) ==
    /\ saga[s].pc = from /\ saga'[s].pc = to
    /\ \A x \in Sessions \ {s} : saga'[x] = saga[x]
OnlyRec(s) == stale' = stale /\ \A x \in Sessions \ {s} : rec'[x] = rec[x]
OnlyBox(s) == \A x \in Sessions \ {s} : box'[x] = box[x]
WorkTo(k, s, from, to) ==
    /\ work[k][s] = from
    /\ \A j \in Kinds, x \in Sessions : work'[j][x] = IF j = k /\ x = s THEN to ELSE work[j][x]
TakeTo(k, from, to) ==
    /\ kpc[k] = from
    /\ \A j \in Requests : kpc'[j] = IF j = k THEN to ELSE kpc[j]
    /\ \A j \in Requests : goal'[j] = IF j = k /\ to = "over" THEN NoGoal ELSE goal[j]
NewClaim(c) == claim' = c /\ fresh' = {}

\* Updates of a record that keep its URL and its capture mark.
Terminated(s) ==
    /\ OnlyRec(s) /\ rec'[s].url = rec[s].url /\ rec'[s].cap = rec[s].cap /\ rec'[s].rcl = rec[s].rcl
    /\ rec[s].st \in Absent \union Terminal => rec'[s].st = rec[s].st
    /\ rec[s].st = "none" => rec'[s] = rec[s]
    /\ rec[s].st \notin Absent \union Terminal => rec'[s].st = "terminated"
Reclaimed(s) ==
    /\ OnlyRec(s) /\ rec'[s].url = rec[s].url /\ rec'[s].cap = rec[s].cap
    /\ rec'[s].st = rec[s].st /\ rec'[s].stop = rec[s].stop
    /\ rec[s].st = "none" => rec'[s] = rec[s]
    /\ rec[s].rcl \/ rec[s].st \notin Absent => rec'[s].rcl
Finished(s, st) ==
    /\ OnlyRec(s) /\ rec'[s].url = rec[s].url /\ rec'[s].cap = rec[s].cap /\ rec'[s].rcl = rec[s].rcl
    /\ rec'[s].stop = rec[s].stop /\ rec'[s].st = st
Stopped(s) ==
    /\ Live(s) /\ OnlyRec(s) /\ rec'[s].st = "terminating" /\ rec'[s].stop
    /\ rec'[s].url = rec[s].url /\ rec'[s].cap = rec[s].cap /\ rec'[s].rcl = rec[s].rcl
BoxGoes(s) ==
    /\ OnlyBox(s)
    /\ IF box[s] = "boot" THEN box'[s] = "boot" ELSE box'[s] = "gone"
Releases(s) ==
    \/ SameClaim
    \/ claim.holder = s /\ claim.t = None /\ NewClaim([claim EXCEPT !.holder = None])

\* The saga of s.
SagaEffect(s) ==
    \/ /\ SagaTo(s, "idle", "record") /\ OnlyBox(s) /\ box'[s] = "boot" /\ SameRec /\ SameClaim
    \/ /\ \E to \in {"claim", "undo"} :
            SagaTo(s, "record", to) /\ (to = "claim" => rec'[s].st = "starting")
       /\ OnlyRec(s) /\ rec'[s] \in {rec[s], [rec[s] EXCEPT !.st = "starting"]} /\ SameBox /\ SameClaim
    \/ /\ \/ SagaTo(s, "claim", "provision") \/ SagaTo(s, "put", "claim") \/ SagaTo(s, "reput", "recheck")
          \/ ClaimGranted(s) /\ SagaTo(s, "recheck", "done")
       /\ SameRec /\ SameBox /\ SameClaim
    \/ /\ \E from \in SagaSteps \ {"idle", "done", "over"}, to \in Compensating : SagaTo(s, from, to)
       /\ SameRec /\ SameBox /\ SameClaim
    \/ /\ SagaTo(s, "claim", "put") \/ SagaTo(s, "recheck", "reput")
       /\ ClaimStale(s) /\ claim' = claim /\ fresh' = fresh \union {s} /\ SameRec /\ SameBox
    \/ /\ SagaTo(s, "put", "provision") \/ SagaTo(s, "reput", "done")
       /\ s \in fresh /\ NewClaim(Claimed(s)) /\ SameRec /\ SameBox
    \/ /\ SagaTo(s, "provision", "running")
       /\ OnlyBox(s) /\ box[s] = "up" /\ box'[s] = "ready" /\ SameRec /\ SameClaim
    \/ /\ SagaTo(s, "running", "recheck")
       /\ \/ SameRec
          \/ /\ OnlyRec(s) /\ rec[s].st = "starting" /\ rec'[s].st = "running" /\ rec'[s].url
             /\ rec'[s].cap = rec[s].cap /\ rec'[s].rcl = rec[s].rcl /\ rec'[s].stop = rec[s].stop
       /\ SameBox /\ SameClaim
    \/ /\ SagaTo(s, "recheck", "done")
       /\ claim.phase = "ready" /\ claim.repl = s /\ NewClaim([NoClaim EXCEPT !.holder = s])
       /\ SameRec /\ SameBox
    \/ /\ \E from, to \in Compensating : from # "over" /\ SagaTo(s, from, to)
       /\ OnlyBox(s) /\ box'[s] = "gone" /\ Reclaimed(s) /\ SameClaim
    \/ /\ \E from, to \in Compensating : from # "over" /\ SagaTo(s, from, to)
       /\ Releases(s) /\ SameRec /\ SameBox
    \/ /\ SagaTo(s, "mark", "over")
       /\ \/ Terminated(s)
          \/ OnlyRec(s) /\ rec'[s] = rec[s]
          \/ Live(s) /\ Finished(s, "failed")
       /\ SameBox /\ SameClaim

\* Time, the provider, rules 2 and 3, the reaper, and a request that adopts an editor.
OutsideEffect(s) ==
    \/ rec' = rec /\ stale' = stale \union {s} /\ SameBox /\ SameClaim
    \/ /\ \/ rec[s].st = "terminating" /\ Finished(s, "terminated")
          \/ rec[s].st = "running" /\ (Finished(s, "expired") \/ Finished(s, "failed"))
          \/ rec[s].st = "starting" /\ s \in stale /\ Finished(s, "expired")
          \/ rec[s].st = "starting" /\ Finished(s, "failed")
       /\ SameBox /\ SameClaim
    \/ /\ rec[s].st \in Terminal /\ rec[s].rcl /\ saga[s].pc \in SagaOver
       /\ (\A k \in Kinds : work[k][s] = "no") /\ \A k \in Requests : goal[k].s # s
       /\ OnlyRec(s) /\ rec'[s] = [NoRecord EXCEPT !.st = "reaped"] /\ SameBox /\ SameClaim
    \/ /\ OnlyBox(s)
       /\ \/ box[s] = "boot" /\ box'[s] = "up"
          \/ box[s] \in Present /\ box'[s] = "gone"
          \/ box[s] \in CameUp /\ box'[s] \in CameUp \ {"gone"} /\ box[s] # "gone"
       /\ SameRec /\ SameClaim
    \/ /\ claim.holder = None /\ claim.t = None /\ Live(s) /\ NewClaim(Claimed(s))
       /\ SameRec /\ SameBox

\* Teardown k of s.
WorkEffect(k, s) ==
    \/ /\ k = "retire" /\ Stopped(s) /\ SameBox /\ SameClaim
       /\ \E from \in WorkSteps, to \in {"owns", "destroy"} : WorkTo(k, s, from, to)
    \/ /\ k \in Loops /\ rec[s].st \in Terminal \union {"terminating"}
       /\ \E to \in {"mark", "owns", "destroy"} :
            /\ WorkTo(k, s, "no", to)
            /\ to = "mark" => rec[s].rcl \/ box[s] \notin Present
            /\ rec[s].rcl => to = "mark"
            /\ to = "owns" => rec[s].url
       /\ ~rec[s].rcl => ~(rec[s].stop /\ (work["retire"][s] # "no" \/ box[s] = "boot"))
       /\ SameRec /\ SameBox /\ SameClaim
    \/ /\ k \in Loops /\ rec[s].st \in {"running", "expired"} /\ WorkTo(k, s, "no", "snapowns")
       /\ SameRec /\ SameBox /\ SameClaim
    \/ /\ WorkTo(k, s, "owns", "capture") \/ WorkTo(k, s, "snapowns", "snap")
       /\ \/ claim.holder = s /\ SameClaim
          \/ /\ claim.holder = None /\ claim.t = None /\ rec[s].st # "none" /\ NewClaim(Claimed(s))
       /\ SameRec /\ SameBox
    \/ /\ \/ WorkTo(k, s, "owns", "destroy") \/ WorkTo(k, s, "capture", "destroy")
          \/ WorkTo(k, s, "destroy", "end")
          \/ \E from \in WorkSteps : WorkTo(k, s, from, "no")
       /\ SameRec /\ SameBox /\ SameClaim
    \/ WorkTo(k, s, "destroy", "mark") /\ BoxGoes(s) /\ SameRec /\ SameClaim
    \/ /\ WorkTo(k, s, "mark", "reclaim") \/ WorkTo(k, s, "end", "no")
       /\ Terminated(s) /\ SameBox /\ SameClaim
    \/ WorkTo(k, s, "reclaim", "release") /\ Reclaimed(s) /\ SameBox /\ SameClaim
    \/ WorkTo(k, s, "release", "no") /\ Releases(s) /\ SameRec /\ SameBox

\* Takeover request k, about session goal[k].s.
CancelClaim == claim.phase = "requested" /\ NewClaim([claim EXCEPT !.t = None, !.phase = "none"])
TakeEffect(k) ==
    \/ /\ k \in Takeovers /\ kpc[k] = "idle" /\ claim.holder # None /\ claim.t = None
       /\ NewClaim([claim EXCEPT !.t = k, !.phase = "requested"])
       /\ kpc' = [kpc EXCEPT ![k] = "begin"]
       /\ goal' = [goal EXCEPT ![k] = [t |-> k, s |-> claim.holder]]
       /\ SameRec /\ SameBox
    \/ /\ k \in Drivers /\ kpc[k] = "idle" /\ claim.phase = "draining"
       /\ NewClaim([claim EXCEPT !.lease = k])
       /\ kpc' = [kpc EXCEPT ![k] = "read"]
       /\ goal' = [goal EXCEPT ![k] = [t |-> claim.t, s |-> claim.holder]]
       /\ SameRec /\ SameBox
    \/ /\ \E from \in TakeSteps \ {"idle", "over"} : TakeTo(k, from, "over")
       /\ SameClaim \/ CancelClaim \/ NewClaim([claim EXCEPT !.lease = None])
       /\ SameRec /\ SameBox
    \/ /\ k \in Takeovers /\ TakeTo(k, "fail", "over") /\ claim.t = k
       /\ NewClaim([claim EXCEPT !.phase = "draining"]) /\ SameRec /\ SameBox
    \/ /\ TakeTo(k, "finish", "over") /\ claim.t = goal[k].t
       /\ k \in Takeovers \/ claim.phase = "draining"
       /\ NewClaim([claim EXCEPT !.phase = "ready", !.lease = None]) /\ SameRec /\ SameBox
    \/ TakeTo(k, "begin", "capture") /\ Stopped(goal[k].s) /\ SameBox /\ SameClaim
    \/ /\ \/ TakeTo(k, "read", "final") /\ rec[goal[k].s].rcl
          \/ TakeTo(k, "read", "advance") /\ rec[goal[k].s].cap
          \/ TakeTo(k, "read", "capture")
          \/ /\ TakeTo(k, "capture", "keep") \/ TakeTo(k, "capture", "captured")
             /\ box[goal[k].s] \in Present
          \/ TakeTo(k, "keep", "captured") \/ TakeTo(k, "advance", "destroy")
          \/ TakeTo(k, "gone", "reclaim") \/ TakeTo(k, "final", "mark")
          \/ \E from \in Draining : TakeTo(k, from, "fail")
       /\ SameRec /\ SameBox /\ SameClaim
    \/ /\ TakeTo(k, "captured", "advance") \/ TakeTo(k, "captured", "destroy")
       /\ OnlyRec(goal[k].s) /\ rec'[goal[k].s] \in {rec[goal[k].s], [rec[goal[k].s] EXCEPT !.cap = TRUE]}
       /\ SameBox /\ SameClaim
    \/ /\ TakeTo(k, "destroy", "gone") \/ TakeTo(k, "destroy", "reclaim")
       /\ BoxGoes(goal[k].s) /\ SameRec /\ SameClaim
    \/ /\ TakeTo(k, "reclaim", "final") \/ TakeTo(k, "reclaim", "mark")
       /\ Reclaimed(goal[k].s) /\ SameBox /\ SameClaim
    \/ TakeTo(k, "mark", "finish") /\ Terminated(goal[k].s) /\ SameBox /\ SameClaim

StepEffect ==
    /\ attach' = attach
    /\ \/ \E s \in Sessions : SagaEffect(s) /\ SameWork /\ SameTake
       \/ \E s \in Sessions : OutsideEffect(s) /\ SameSaga /\ SameWork /\ SameTake
       \/ \E s \in Sessions, k \in Kinds : WorkEffect(k, s) /\ SameSaga /\ SameTake
       \/ \E k \in Requests : TakeEffect(k) /\ SameSaga /\ SameWork
       \/ (CancelClaim \/ SameClaim) /\ SameRec /\ SameBox /\ SameSaga /\ SameWork /\ SameTake

LEMMA RecordEffect ==
    ASSUME TypeOK, NEW s \in Sessions
    PROVE  /\ stale' = stale /\ MarkTerminated(s) => Terminated(s)
           /\ stale' = stale /\ MarkSandboxReclaimed(s) => Reclaimed(s)
           /\ stale' = stale /\ MarkFailed(s) => (Live(s) /\ Finished(s, "failed")) \/ SameRec
           /\ stale' = stale /\ MayBeginTerminating(s) /\ BeginTerminating(s) => Stopped(s)
<1> USE DEF OnlyRec
<1> DEFINE r == rec[s]
<1>1. r \in Record /\ rec \in [Sessions -> Record]
  BY DEF TypeOK
<1>2. ASSUME stale' = stale, MarkTerminated(s) PROVE Terminated(s)
  BY <1>1, <1>2 DEF MarkTerminated, Terminated, Record, Absent, Terminal
<1>3. ASSUME stale' = stale, MarkSandboxReclaimed(s) PROVE Reclaimed(s)
  BY <1>1, <1>3 DEF MarkSandboxReclaimed, Reclaimed, Record, Absent
<1>4. ASSUME stale' = stale, MarkFailed(s) PROVE (Live(s) /\ Finished(s, "failed")) \/ SameRec
  BY <1>1, <1>4 DEF MarkFailed, Finished, Record, SameRec, Live
<1>5. ASSUME stale' = stale, MayBeginTerminating(s), BeginTerminating(s) PROVE Stopped(s)
  BY <1>1, <1>5 DEF MayBeginTerminating, BeginTerminating, Stopped, Record, Live
<1>6. QED
  BY <1>2, <1>3, <1>4, <1>5

LEMMA GoesTo ==
    ASSUME TypeOK, NEW s \in Sessions, NEW from, saga[s].pc = from, NEW to \in SagaSteps, Goes(s, to)
    PROVE  SagaTo(s, from, to)
<1>1. [NoSaga EXCEPT !.pc = to].pc = to
  BY DEF NoSaga
<1>2. [saga[s] EXCEPT !.pc = to].pc = to
  BY DEF TypeOK, Saga
<1>3. QED
  BY <1>1, <1>2 DEF TypeOK, Goes, Becomes, SagaTo

LEMMA DestroyedGoes ==
    ASSUME TypeOK, NEW s \in Sessions, Destroyed(s) PROVE BoxGoes(s)
  BY DEF TypeOK, Destroyed, BoxGoes, OnlyBox

LEMMA ReleaseEffect == ASSUME NEW s, ReleaseEditorFor(s) PROVE Releases(s)
  BY DEF ReleaseEditorFor, Releases, NewClaim, PutClaim, SameClaim

\* claimEditor, in the admission step and in running_rechecks.
LEMMA ClaimReadEffect ==
    ASSUME TypeOK, NEW s \in Sessions, NEW read, NEW put \in SagaSteps, NEW won \in SagaSteps,
           NEW failed \in Compensating,
           ClaimRead(s, read, put, won, failed)
    PROVE  /\ SameRec /\ SameBox
           /\ \/ ClaimGranted(s) /\ SagaTo(s, read, won) /\ SameClaim
              \/ SagaTo(s, read, failed) /\ SameClaim
              \/ ClaimStale(s) /\ SagaTo(s, read, put) /\ claim' = claim /\ fresh' = fresh \union {s}
<1> USE DEF SameClaim
<1>0. failed \in SagaSteps
  BY DEF Compensating, SagaSteps
<1>1. At(s, read) /\ SameRec /\ SameBox /\ claim' = claim
  BY DEF ClaimRead, SameRec, SameBox
<1>2. CASE Becomes(s, [saga[s] EXCEPT !.pc = failed, !.lost = TRUE]) /\ UNCHANGED fresh
  <2>1. [saga[s] EXCEPT !.pc = failed, !.lost = TRUE].pc = failed
    BY DEF TypeOK, Saga
  <2>2. SagaTo(s, read, failed)
    BY <1>1, <1>2, <2>1 DEF TypeOK, Becomes, SagaTo, At
  <2>3. QED
    BY <1>1, <1>2, <2>2
<1>3. CASE Goes(s, failed) /\ UNCHANGED fresh
  BY <1>0, <1>1, <1>3, GoesTo DEF At
<1>4. CASE ClaimGranted(s) /\ Goes(s, won) /\ UNCHANGED fresh
  BY <1>1, <1>4, GoesTo DEF At
<1>5. CASE ClaimStale(s) /\ Goes(s, put) /\ fresh' = fresh \union {s}
  BY <1>1, <1>5, GoesTo DEF At
<1>6. QED
  BY <1>2, <1>3, <1>4, <1>5 DEF ClaimRead

LEMMA ClaimPutEffect ==
    ASSUME TypeOK, NEW s \in Sessions, NEW put, NEW read \in SagaSteps, NEW won \in SagaSteps,
           ClaimPut(s, read, put, won)
    PROVE  /\ SameRec /\ SameBox
           /\ \/ s \in fresh /\ NewClaim(Claimed(s)) /\ SagaTo(s, put, won)
              \/ SagaTo(s, put, read) /\ SameClaim
<1>1. At(s, put) /\ SameRec /\ SameBox
  BY DEF ClaimPut, SameRec, SameBox
<1>2. CASE s \in fresh
  BY <1>1, <1>2, GoesTo DEF ClaimPut, PutClaim, NewClaim, At
<1>3. CASE s \notin fresh
  BY <1>1, <1>3, GoesTo DEF ClaimPut, SameClaim, At
<1>4. QED
  BY <1>1, <1>2, <1>3

\* A step that only makes a saga give up.
LEMMA GiveUpEffect ==
    ASSUME NEW s \in Sessions, NEW from \in SagaSteps \ {"idle", "done", "over"},
           NEW to \in Compensating, SagaTo(s, from, to), SameRec, SameBox, SameClaim
    PROVE  SagaEffect(s)
  BY DEF SagaEffect

LEMMA CleanupEffect ==
    ASSUME TypeOK, NEW s \in Sessions, NEW from \in Compensating \ {"over"}, NEW to \in Compensating,
           Cleanup(s, from, to)
    PROVE  SagaEffect(s)
<1>1. SagaTo(s, from, to) /\ SameClaim /\ stale' = stale /\ from # "over"
  BY GoesTo DEF Cleanup, SameClaim, Compensating, SagaSteps, At
<1>2. CASE box' = [box EXCEPT ![s] = "gone"] /\ MarkSandboxReclaimed(s)
  <2>1. OnlyBox(s) /\ box'[s] = "gone" /\ Reclaimed(s)
    BY <1>1, <1>2, RecordEffect DEF TypeOK, OnlyBox
  <2>2. QED
    BY <1>1, <2>1 DEF SagaEffect
<1>3. CASE UNCHANGED <<box, rec>>
  BY <1>1, <1>3, GiveUpEffect DEF SameRec, SameBox, Compensating, SagaSteps
<1>4. QED
  BY <1>2, <1>3 DEF Cleanup

LEMMA SagaStepEffect ==
    ASSUME TypeOK, NEW s \in Sessions,
           Preflight(s) \/ SagaStep(s) \/ AdmissionFails(s) \/ SagaCrashes(s)
    PROVE  SagaEffect(s) /\ SameWork /\ SameTake /\ attach' = attach
<1>1. SameWork /\ SameTake /\ attach' = attach
  BY DEF Preflight, SagaStep, AdmissionFails, SagaCrashes, CreateRecord, Admission, ClaimRead, ClaimPut,
     Provision, SetRunning, Recheck, CompleteTakeover, Compensate, Release, Cleanup, MarkEnded,
     SameWork, SameTake
<1>2. /\ Compensating \subseteq SagaSteps
      /\ {"record", "claim", "put", "provision", "running", "recheck", "reput", "done"} \subseteq SagaSteps
  BY DEF Compensating, SagaSteps
<1> SUFFICES SagaEffect(s)
  BY <1>1
<1>3. CASE Preflight(s)
  <2>1. SagaTo(s, "idle", "record")
    <3>1. [saga[s] EXCEPT !.pc = "record", !.knew = claim.t].pc = "record"
      BY DEF TypeOK, Saga
    <3>2. QED
      BY <1>3, <3>1 DEF TypeOK, Preflight, Becomes, SagaTo, At
  <2>2. OnlyBox(s) /\ box'[s] = "boot" /\ SameRec /\ SameClaim
    BY <1>3 DEF TypeOK, Preflight, OnlyBox, SameRec, SameClaim
  <2>3. QED
    BY <2>1, <2>2 DEF SagaEffect
<1>4. CASE CreateRecord(s)
  <2>1. /\ SameBox /\ SameClaim /\ OnlyRec(s)
        /\ rec'[s] \in {rec[s], [rec[s] EXCEPT !.st = "starting"]}
    BY <1>4 DEF TypeOK, CreateRecord, SameBox, SameClaim, OnlyRec
  <2>2. CASE Goes(s, "undo")
    <3>1. SagaTo(s, "record", "undo")
      BY <1>2, <1>4, <2>2, GoesTo DEF CreateRecord, At, Compensating
    <3>2. QED
      BY <2>1, <3>1 DEF SagaEffect
  <2>3. CASE /\ rec' = [rec EXCEPT ![s].st = "starting"]
             /\ Becomes(s, [saga[s] EXCEPT !.pc = "claim", !.base = head])
    <3>1. [saga[s] EXCEPT !.pc = "claim", !.base = head].pc = "claim"
      BY DEF TypeOK, Saga
    <3>2. SagaTo(s, "record", "claim")
      BY <1>4, <2>3, <3>1 DEF TypeOK, CreateRecord, Becomes, SagaTo, At
    <3>3. rec'[s].st = "starting"
      BY <2>3 DEF TypeOK, Record
    <3>4. QED
      BY <2>1, <3>2, <3>3 DEF SagaEffect
  <2>4. QED
    BY <1>4, <2>2, <2>3 DEF CreateRecord
<1>5. CASE Admission(s)
  <2>1. CASE ClaimRead(s, "claim", "put", "provision", "unclaim")
    <3>1. "unclaim" \in Compensating
      BY DEF Compensating
    <3>2. CASE SagaTo(s, "claim", "unclaim")
      BY <1>2, <2>1, <3>1, <3>2, ClaimReadEffect, GiveUpEffect DEF SagaEffect
    <3>3. QED
      BY <1>2, <2>1, <3>1, <3>2, ClaimReadEffect DEF SagaEffect
  <2>2. CASE ClaimPut(s, "claim", "put", "provision")
    BY <1>2, <2>2, ClaimPutEffect DEF SagaEffect
  <2>3. QED
    BY <1>5, <2>1, <2>2 DEF Admission
<1>6. CASE AdmissionFails(s)
  <2>1. SagaTo(s, "provision", "unclaim") /\ "unclaim" \in Compensating
    BY <1>2, <1>6, GoesTo DEF AdmissionFails, At, Compensating
  <2>2. SameRec /\ SameBox /\ SameClaim
    BY <1>6 DEF AdmissionFails, SameRec, SameBox, SameClaim
  <2>3. QED
    BY <1>2, <2>1, <2>2, GiveUpEffect
<1>7. CASE Provision(s)
  <2>1. SameRec /\ SameClaim
    BY <1>7 DEF Provision, SameRec, SameClaim
  <2>2. CASE Goes(s, "destroy") /\ UNCHANGED box
    <3>1. SagaTo(s, "provision", "destroy") /\ "destroy" \in Compensating
      BY <1>2, <1>7, <2>2, GoesTo DEF Provision, At, Compensating
    <3>2. QED
      BY <1>2, <2>1, <2>2, <3>1, GiveUpEffect DEF SameBox
  <2>3. CASE box[s] = "up" /\ box' = [box EXCEPT ![s] = "ready"] /\ Goes(s, "running")
    <3>1. SagaTo(s, "provision", "running")
      BY <1>2, <1>7, <2>3, GoesTo DEF Provision, At
    <3>2. OnlyBox(s) /\ box'[s] = "ready"
      BY <2>3 DEF TypeOK, OnlyBox
    <3>3. QED
      BY <2>1, <2>3, <3>1, <3>2 DEF SagaEffect
  <2>4. QED
    BY <1>7, <2>2, <2>3 DEF Provision
<1>8. CASE SetRunning(s)
  <2>1. SagaTo(s, "running", "recheck") /\ SameBox /\ SameClaim
    BY <1>2, <1>8, GoesTo DEF SetRunning, At, SameBox, SameClaim
  <2>2. CASE rec[s].st = "starting"
    <3> DEFINE r == rec[s]
    <3>1. r \in Record /\ rec \in [Sessions -> Record]
      BY DEF TypeOK
    <3>2. /\ OnlyRec(s) /\ rec'[s].st = "running" /\ rec'[s].url
          /\ rec'[s].cap = rec[s].cap /\ rec'[s].rcl = rec[s].rcl /\ rec'[s].stop = rec[s].stop
      BY <1>8, <2>2, <3>1 DEF SetRunning, Record, OnlyRec
    <3>3. QED
      BY <2>1, <2>2, <3>2 DEF SagaEffect
  <2>3. CASE rec[s].st # "starting"
    BY <1>8, <2>1, <2>3 DEF SetRunning, SameRec, SagaEffect
  <2>4. QED
    BY <2>2, <2>3
<1>9. CASE Recheck(s)
  <2>1. CASE CompleteTakeover(s)
    <3>1. SameRec /\ SameBox
      BY <2>1 DEF CompleteTakeover, SameRec, SameBox
    <3>2. CASE Goes(s, "destroy") /\ UNCHANGED <<claim, fresh>>
      <4>1. SagaTo(s, "recheck", "destroy") /\ "destroy" \in Compensating
        BY <1>2, <2>1, <3>2, GoesTo DEF CompleteTakeover, At, Compensating
      <4>2. QED
        BY <1>2, <3>1, <3>2, <4>1, GiveUpEffect DEF SameClaim
    <3>3. CASE /\ claim.phase = "ready" /\ claim.repl = s
               /\ PutClaim([NoClaim EXCEPT !.holder = s]) /\ Goes(s, "done")
      <4>1. SagaTo(s, "recheck", "done")
        BY <1>2, <2>1, <3>3, GoesTo DEF CompleteTakeover, At
      <4>2. QED
        BY <3>1, <3>3, <4>1 DEF SagaEffect, NewClaim, PutClaim
    <3>4. QED
      BY <2>1, <3>2, <3>3 DEF CompleteTakeover
  <2>2. CASE ClaimRead(s, "recheck", "reput", "done", "destroy")
    <3>1. "destroy" \in Compensating
      BY DEF Compensating
    <3>2. CASE SagaTo(s, "recheck", "destroy")
      BY <1>2, <2>2, <3>1, <3>2, ClaimReadEffect, GiveUpEffect DEF SagaEffect
    <3>3. QED
      BY <1>2, <2>2, <3>1, <3>2, ClaimReadEffect DEF SagaEffect
  <2>3. CASE ClaimPut(s, "recheck", "reput", "done")
    BY <1>2, <2>3, ClaimPutEffect DEF SagaEffect
  <2>4. QED
    BY <1>9, <2>1, <2>2, <2>3 DEF Recheck
<1>10. CASE Compensate(s)
  <2>1. CASE MarkEnded(s)
    <3>1. SagaTo(s, "mark", "over") /\ SameBox /\ SameClaim /\ stale' = stale
      BY <1>2, <2>1, GoesTo DEF MarkEnded, At, SameBox, SameClaim, Compensating
    <3>2. Terminated(s) \/ (OnlyRec(s) /\ rec'[s] = rec[s]) \/ (Live(s) /\ Finished(s, "failed"))
      BY <2>1, <3>1, RecordEffect DEF MarkEnded, SameRec, OnlyRec
    <3>3. QED
      BY <3>1, <3>2 DEF SagaEffect
  <2>2. ASSUME NEW from \in Compensating \ {"over"}, NEW to \in Compensating, Release(s, from, to)
        PROVE  SagaEffect(s)
    <3>1. SagaTo(s, from, to) /\ SameRec /\ SameBox
      BY <1>2, <2>2, GoesTo DEF Release, At, SameRec, SameBox
    <3>2. Releases(s)
      BY <2>2, ReleaseEffect DEF Release
    <3>3. QED
      BY <2>2, <3>1, <3>2 DEF SagaEffect
  <2>3. QED
    BY <1>10, <2>1, <2>2, CleanupEffect DEF Compensate, Compensating
<1>11. CASE SagaCrashes(s)
  <2>1. SagaTo(s, saga[s].pc, "over") /\ "over" \in Compensating
    BY <1>2, <1>11, GoesTo DEF SagaCrashes, Compensating
  <2>2. SameRec /\ SameBox /\ SameClaim
    BY <1>11 DEF SagaCrashes, SameRec, SameBox, SameClaim
  <2>3. saga[s].pc \in SagaSteps \ {"idle", "done", "over"}
    BY <1>11 DEF TypeOK, Saga, SagaCrashes, SagaOver
  <2>4. QED
    BY <2>1, <2>2, <2>3, GiveUpEffect
<1>12. QED
  BY <1>3, <1>4, <1>5, <1>6, <1>7, <1>8, <1>9, <1>10, <1>11 DEF SagaStep

\* Time, the provider, rules 2 and 3, the reaper, and a request that adopts an editor.
LEMMA OutsideStepEffect ==
    ASSUME TypeOK, SagaInv, NEW s \in Sessions,
           \/ GoStale(s) \/ ExpireStale(s) \/ ReapTerminated(s) \/ BootDone(s) \/ BoxDies(s)
           \/ KernelUse(s) \/ AdoptEditor(s) \/ MarkDead(s) \/ ReapOrphan(s)
    PROVE  OutsideEffect(s) /\ SameSaga /\ SameWork /\ SameTake /\ attach' = attach
<1>1. SameSaga /\ SameWork /\ SameTake /\ attach' = attach
  BY DEF GoStale, ExpireStale, ReapTerminated, BootDone, BoxDies, KernelUse, AdoptEditor, MarkDead,
     ReapOrphan, SameSaga, SameWork, SameTake
<1> SUFFICES OutsideEffect(s)
  BY <1>1
<1>2. CASE GoStale(s)
  BY <1>2 DEF GoStale, SagaInv, OutsideEffect, SameBox, SameClaim
<1>3. CASE ExpireStale(s)
  <2> DEFINE r == rec[s]
  <2>1. r \in Record /\ rec \in [Sessions -> Record] /\ stale' = stale
    BY <1>3 DEF TypeOK, ExpireStale
  <2>2. SameBox /\ SameClaim
    BY <1>3 DEF ExpireStale, SameBox, SameClaim
  <2>3. CASE rec[s].st = "starting"
    <3>1. Finished(s, "expired")
      BY <1>3, <2>1, <2>3 DEF ExpireStale, Finished, OnlyRec, Record
    <3>2. s \in stale
      BY <1>3, <2>3 DEF ExpireStale
    <3>3. QED
      BY <2>2, <2>3, <3>1, <3>2 DEF OutsideEffect
  <2>4. CASE rec[s].st = "running"
    <3>1. Finished(s, "expired")
      BY <1>3, <2>1, <2>4 DEF ExpireStale, Finished, OnlyRec, Record
    <3>2. QED
      BY <2>2, <2>4, <3>1 DEF OutsideEffect
  <2>5. CASE rec[s].st = "terminating"
    <3>1. Finished(s, "terminated")
      BY <1>3, <2>1, <2>5 DEF ExpireStale, Finished, OnlyRec, Record
    <3>2. QED
      BY <2>2, <2>5, <3>1 DEF OutsideEffect
  <2>6. QED
    BY <1>3, <2>3, <2>4, <2>5 DEF ExpireStale
<1>4. CASE ReapTerminated(s)
  <2>1. OnlyRec(s) /\ rec'[s] = [NoRecord EXCEPT !.st = "reaped"] /\ SameBox /\ SameClaim
    BY <1>4 DEF TypeOK, ReapTerminated, OnlyRec, SameBox, SameClaim
  <2>2. QED
    BY <1>4, <2>1 DEF ReapTerminated, OutsideEffect
<1>5. CASE BootDone(s)
  BY <1>5 DEF TypeOK, BootDone, OutsideEffect, OnlyBox, SameRec, SameClaim
<1>6. CASE BoxDies(s)
  BY <1>6 DEF TypeOK, BoxDies, OutsideEffect, OnlyBox, SameRec, SameClaim
<1>11. CASE KernelUse(s)
  BY <1>11 DEF TypeOK, KernelUse, OutsideEffect, OnlyBox, SameRec, SameClaim, CameUp
<1>7. CASE AdoptEditor(s)
  <2>1. Live(s)
    BY <1>7 DEF AdoptEditor, IsReusableSession, Live
  <2>2. QED
    BY <1>7, <2>1 DEF AdoptEditor, PutClaim, NewClaim, OutsideEffect, SameRec, SameBox
<1>8. CASE MarkDead(s)
  <2>1. SameBox /\ SameClaim /\ Live(s) /\ stale' = stale /\ MarkFailed(s)
    BY <1>8 DEF MarkDead, SameBox, SameClaim, Live
  <2>2. Finished(s, "failed")
    <3> DEFINE r == rec[s]
    <3>1. r \in Record /\ rec \in [Sessions -> Record]
      BY DEF TypeOK
    <3>2. QED
      BY <2>1, <3>1 DEF MarkFailed, Finished, OnlyRec, Record, Live
  <2>3. QED
    BY <2>1, <2>2 DEF OutsideEffect, Live
<1>9. CASE ReapOrphan(s)
  BY <1>9 DEF TypeOK, ReapOrphan, Destroyed, OutsideEffect, OnlyBox, SameRec, SameClaim, Present
<1>10. QED
  BY <1>2, <1>3, <1>4, <1>5, <1>6, <1>7, <1>8, <1>9, <1>11

LEMMA DoesTo ==
    ASSUME TypeOK, NEW k \in Kinds, NEW s \in Sessions, NEW from, NEW to,
           Doing(k, s, from), Does(k, s, to)
    PROVE  WorkTo(k, s, from, to)
  BY DEF TypeOK, Doing, Does, WorkTo

LEMMA MovesTo ==
    ASSUME TypeOK, NEW k \in Requests, NEW from, NEW to, In(k, from), Moves(k, to)
    PROVE  TakeTo(k, from, to)
  BY DEF TypeOK, In, Moves, TakeTo

LEMMA OwnsEffect ==
    ASSUME TypeOK, NEW k \in Kinds, NEW s \in Sessions, NEW from, NEW yes, NEW no,
           Owns(k, s, from, yes, no)
    PROVE  /\ SameRec /\ SameBox
           /\ \/ /\ WorkTo(k, s, from, yes)
                 /\ \/ claim.holder = s /\ SameClaim
                    \/ /\ claim.holder = None /\ claim.t = None /\ rec[s].st # "none"
                       /\ NewClaim(Claimed(s))
              \/ WorkTo(k, s, from, no) /\ SameClaim
<1>1. Doing(k, s, from) /\ SameRec /\ SameBox
  BY DEF Owns, SameRec, SameBox
<1>2. CASE claim.holder = s /\ Does(k, s, yes) /\ UNCHANGED <<claim, fresh>>
  BY <1>1, <1>2, DoesTo DEF SameClaim
<1>3. CASE /\ claim.holder = None /\ claim.t = None /\ Candidates(s) = {s}
           /\ PutClaim(Claimed(s)) /\ Does(k, s, yes)
  <2>1. s \in Candidates(s)
    BY <1>3
  <2>2. rec[s].st # "none"
    BY <2>1 DEF Candidates, Absent
  <2>3. QED
    BY <1>1, <1>3, <2>2, DoesTo DEF PutClaim, NewClaim
<1>4. CASE Does(k, s, no) /\ UNCHANGED <<claim, fresh>>
  BY <1>1, <1>4, DoesTo DEF SameClaim
<1>5. QED
  BY <1>2, <1>3, <1>4 DEF Owns

\* Teardown k of session s.
LEMMA WorkStepEffect ==
    ASSUME TypeOK, NEW s \in Sessions, NEW k \in Kinds,
           \/ k = "retire" /\ Stop(s)
           \/ k = "sweep" /\ Snapshot(s)
           \/ k \in Loops /\ \E past \in BOOLEAN : Reclaim(k, s, past)
           \/ WorkStep(k, s) \/ WorkCrashes(k, s)
    PROVE  WorkEffect(k, s) /\ SameSaga /\ SameTake /\ attach' = attach
<1>1. SameSaga /\ SameTake /\ attach' = attach
  BY DEF Stop, Snapshot, Reclaim, WorkStep, WorkCrashes, Owns, Save, Destroy, Finish, SameSaga, SameTake
<1> SUFFICES WorkEffect(k, s)
  BY <1>1
<1>2. work[k][s] \in WorkSteps
  BY DEF TypeOK
<1>3. CASE k = "retire" /\ Stop(s)
  <2>1. Stopped(s) /\ SameBox /\ SameClaim
    BY <1>3, RecordEffect DEF Stop, SameBox, SameClaim
  <2>2. PICK to \in {"owns", "destroy"} : Does(k, s, to)
    BY <1>3 DEF Stop
  <2>3. WorkTo(k, s, work[k][s], to)
    BY <2>2, DoesTo DEF Doing
  <2>4. QED
    BY <1>2, <1>3, <2>1, <2>3 DEF WorkEffect
<1>4. CASE k = "sweep" /\ Snapshot(s)
  <2>1. k \in Loops /\ rec[s].st \in {"running", "expired"} /\ SameRec /\ SameBox /\ SameClaim
    BY <1>4 DEF Snapshot, SameRec, SameBox, SameClaim
  <2>2. WorkTo(k, s, "no", "snapowns")
    BY <1>4, DoesTo DEF Snapshot
  <2>3. QED
    BY <2>1, <2>2 DEF WorkEffect
<1>5. CASE k \in Loops /\ \E past \in BOOLEAN : Reclaim(k, s, past)
  <2>1. PICK past \in BOOLEAN : Reclaim(k, s, past)
    BY <1>5
  <2>2. /\ SameRec /\ SameBox /\ SameClaim
        /\ rec[s].st \in Terminal \union {"terminating"}
        /\ ~rec[s].rcl => ~(rec[s].stop /\ (work["retire"][s] # "no" \/ box[s] = "boot"))
    BY <2>1 DEF Reclaim, ReclaimBlocked, TearingDown, SameRec, SameBox, SameClaim
  <2>3. PICK to \in ReclaimPlan(s, past) : Does(k, s, to)
    BY <2>1 DEF Reclaim
  <2>4. WorkTo(k, s, "no", to)
    BY <2>1, <2>3, DoesTo DEF Reclaim
  <2>5. /\ to \in {"mark", "owns", "destroy"}
        /\ to = "mark" => rec[s].rcl \/ box[s] \notin Present
        /\ rec[s].rcl => to = "mark"
        /\ to = "owns" => rec[s].url
    BY <2>3 DEF ReclaimPlan, Attaches, ReclaimCaptures
  <2>6. QED
    BY <1>5, <2>2, <2>4, <2>5 DEF WorkEffect
<1>6. CASE Owns(k, s, "owns", "capture", "destroy")
  BY <1>6, OwnsEffect DEF WorkEffect
<1>7. CASE Owns(k, s, "snapowns", "snap", "no")
  BY <1>2, <1>7, OwnsEffect DEF WorkEffect, WorkTo
<1>8. ASSUME NEW from, NEW to, Save(k, s, from, to)
      PROVE  WorkTo(k, s, from, to) /\ SameRec /\ SameBox /\ SameClaim
  BY <1>8, DoesTo DEF Save, SameRec, SameBox, SameClaim
<1>9. CASE Save(k, s, "capture", "destroy")
  BY <1>8, <1>9 DEF WorkEffect
<1>10. CASE Save(k, s, "snap", "no")
  BY <1>2, <1>8, <1>10 DEF WorkEffect, WorkTo
<1>11. CASE Destroy(k, s)
  <2>1. SameRec /\ SameClaim
    BY <1>11 DEF Destroy, SameRec, SameClaim
  <2>2. CASE Destroyed(s) /\ Does(k, s, "mark")
    BY <1>11, <2>1, <2>2, DoesTo, DestroyedGoes DEF Destroy, WorkEffect
  <2>3. CASE Does(k, s, IF k = "retire" THEN "end" ELSE "no") /\ UNCHANGED box
    <3>1. WorkTo(k, s, "destroy", "end") \/ WorkTo(k, s, "destroy", "no")
      BY <1>11, <2>3, DoesTo DEF Destroy
    <3>2. QED
      BY <2>1, <2>3, <3>1 DEF WorkEffect, SameBox, WorkSteps
  <2>4. QED
    BY <1>11, <2>2, <2>3 DEF Destroy
<1>12. CASE Finish(k, s)
  <2>1. SameBox /\ stale' = stale
    BY <1>12 DEF Finish, SameBox
  <2>2. CASE Doing(k, s, "mark") /\ MarkTerminated(s) /\ Does(k, s, "reclaim") /\ UNCHANGED claimVars
    BY <2>1, <2>2, DoesTo, RecordEffect DEF WorkEffect, SameClaim
  <2>3. CASE Doing(k, s, "end") /\ MarkTerminated(s) /\ Does(k, s, "no") /\ UNCHANGED claimVars
    BY <2>1, <2>3, DoesTo, RecordEffect DEF WorkEffect, SameClaim
  <2>4. CASE /\ Doing(k, s, "reclaim") /\ MarkSandboxReclaimed(s)
             /\ Does(k, s, "release") /\ UNCHANGED claimVars
    BY <2>1, <2>4, DoesTo, RecordEffect DEF WorkEffect, SameClaim
  <2>5. CASE Doing(k, s, "release") /\ ReleaseEditorFor(s) /\ Does(k, s, "no") /\ UNCHANGED <<rec, lapsed>>
    BY <2>1, <2>5, DoesTo, ReleaseEffect DEF WorkEffect, SameRec
  <2>6. QED
    BY <1>12, <2>2, <2>3, <2>4, <2>5 DEF Finish
<1>13. CASE WorkCrashes(k, s)
  <2>1. WorkTo(k, s, work[k][s], "no") /\ SameRec /\ SameBox /\ SameClaim
    BY <1>13, DoesTo DEF WorkCrashes, Doing, SameRec, SameBox, SameClaim
  <2>2. QED
    BY <1>2, <2>1 DEF WorkEffect
<1>14. QED
  BY <1>3, <1>4, <1>5, <1>6, <1>7, <1>9, <1>10, <1>11, <1>12, <1>13 DEF WorkStep

\* Takeover request k.
LEMMA TakeStepEffect ==
    ASSUME TypeOK, GoalInv, NEW k \in Requests,
           \/ k \in Takeovers /\ (ReserveTakeover(k) \/ TakeoverRefused(k) \/ BeginDrain(k))
           \/ k \in Drivers /\ (AcquireDrainLease(k) \/ ReadDrain(k) \/ AssertLease(k))
           \/ DrainStep(k) \/ TakeoverCrashes(k)
    PROVE  TakeEffect(k) /\ SameSaga /\ SameWork /\ attach' = attach
<1>1. SameSaga /\ SameWork /\ attach' = attach
  BY DEF ReserveTakeover, TakeoverRefused, BeginDrain, AcquireDrainLease, ReadDrain, AssertLease, DrainStep,
     TakeoverCrashes, DrainCapture, DrainMarkCaptured, DrainDestroy, DrainMarkReclaimed,
     DrainMarkTerminated, FinishDrain, FailDrain, SameSaga, SameWork
<1> SUFFICES TakeEffect(k)
  BY <1>1
<1>2. kpc[k] \in TakeSteps
  BY DEF TypeOK
<1>3. ASSUME kpc[k] \notin {"idle", "over"} PROVE goal[k].s \in Sessions /\ goal[k].t # None
  BY <1>3 DEF TypeOK, Goal, GoalInv
<1>4. Draining \subseteq TakeSteps /\ "fail" \in Draining /\ "finish" \in Draining /\ "capture" \in Draining
      /\ "destroy" \in Draining /\ {"keep", "advance", "gone", "final"} \subseteq Draining
  BY DEF Draining, TakeSteps
<1>5. ASSUME NEW from \in Draining, TakeTo(k, from, "fail"), SameRec, SameBox, SameClaim
      PROVE  TakeEffect(k)
  BY <1>5 DEF TakeEffect
<1>6. CASE k \in Takeovers /\ ReserveTakeover(k)
  BY <1>6 DEF ReserveTakeover, In, PutClaim, NewClaim, TakeEffect, SameRec, SameBox
<1>7. CASE k \in Takeovers /\ TakeoverRefused(k)
  <2>1. TakeTo(k, "begin", "over") /\ SameRec /\ SameBox /\ (SameClaim \/ CancelClaim)
    BY <1>7, MovesTo DEF TakeoverRefused, Cancelled, PutClaim, NewClaim, CancelClaim, SameRec, SameBox,
       SameClaim
  <2>2. QED
    BY <2>1 DEF TakeEffect, TakeSteps
<1>8. CASE k \in Takeovers /\ BeginDrain(k)
  <2>1. TakeTo(k, "begin", "capture") /\ SameBox /\ SameClaim
    BY <1>8, MovesTo DEF BeginDrain, SameBox, SameClaim
  <2>2. Stopped(goal[k].s)
    BY <1>3, <1>8, RecordEffect DEF BeginDrain, Target, In
  <2>3. QED
    BY <2>1, <2>2 DEF TakeEffect
<1>9. CASE k \in Drivers /\ AcquireDrainLease(k)
  BY <1>9 DEF AcquireDrainLease, In, PutClaim, NewClaim, TakeEffect, SameRec, SameBox
<1>10. CASE k \in Drivers /\ ReadDrain(k)
  <2>1. SameRec /\ SameBox /\ SameClaim
    BY <1>10 DEF ReadDrain, SameRec, SameBox, SameClaim
  <2>2. \/ TakeTo(k, "read", "final") /\ rec[goal[k].s].rcl
        \/ TakeTo(k, "read", "advance") /\ rec[goal[k].s].cap
        \/ TakeTo(k, "read", "capture")
    BY <1>10, MovesTo DEF ReadDrain, Target
  <2>3. QED
    BY <2>1, <2>2 DEF TakeEffect
<1>11. CASE k \in Drivers /\ AssertLease(k)
  <2>1. SameRec /\ SameBox /\ SameClaim
    BY <1>11 DEF AssertLease, SameRec, SameBox, SameClaim
  <2>2. kpc[k] \in {"keep", "advance", "gone", "final"}
    BY <1>11 DEF AssertLease, AfterAssert
  <2>3. CASE ~HoldsLease(k)
    <3>1. TakeTo(k, kpc[k], "fail")
      BY <1>11, <2>3, MovesTo DEF AssertLease, In
    <3>2. QED
      BY <1>4, <1>5, <2>1, <2>2, <3>1
  <2>4. CASE HoldsLease(k)
    <3>1. TakeTo(k, kpc[k], AfterAssert[kpc[k]])
      BY <1>11, <2>4, MovesTo DEF AssertLease, In
    <3>2. \/ TakeTo(k, "keep", "captured") \/ TakeTo(k, "advance", "destroy")
          \/ TakeTo(k, "gone", "reclaim") \/ TakeTo(k, "final", "mark")
      BY <2>2, <3>1 DEF AfterAssert
    <3>3. QED
      BY <2>1, <3>2 DEF TakeEffect
  <2>5. QED
    BY <2>3, <2>4
<1>12. CASE DrainCapture(k)
  <2>1. SameRec /\ SameBox /\ SameClaim /\ In(k, "capture")
    BY <1>12 DEF DrainCapture, SameRec, SameBox, SameClaim
  <2>2. CASE Moves(k, "fail")
    BY <1>4, <1>5, <2>1, <2>2, MovesTo
  <2>3. CASE Capture(Target(k)) /\ Moves(k, IF k \in Drivers THEN "keep" ELSE "captured")
    <3>1. TakeTo(k, "capture", "keep") \/ TakeTo(k, "capture", "captured")
      BY <2>1, <2>3, MovesTo
    <3>2. QED
      BY <2>1, <2>3, <3>1 DEF TakeEffect, Capture, Target
  <2>4. QED
    BY <1>12, <2>2, <2>3 DEF DrainCapture
<1>13. CASE DrainMarkCaptured(k)
  <2>1. SameBox /\ SameClaim
    BY <1>13 DEF DrainMarkCaptured, SameBox, SameClaim
  <2>2. TakeTo(k, "captured", "advance") \/ TakeTo(k, "captured", "destroy")
    BY <1>13, MovesTo DEF DrainMarkCaptured
  <2>3. goal[k].s \in Sessions
    BY <1>3, <1>13 DEF DrainMarkCaptured, In
  <2>4. /\ OnlyRec(goal[k].s)
        /\ rec'[goal[k].s] \in {rec[goal[k].s], [rec[goal[k].s] EXCEPT !.cap = TRUE]}
    BY <1>13, <2>3 DEF TypeOK, DrainMarkCaptured, MarkCaptureCompleted, Target, OnlyRec
  <2>5. QED
    BY <2>1, <2>2, <2>4 DEF TakeEffect
<1>14. CASE DrainDestroy(k)
  <2>1. SameRec /\ SameClaim /\ In(k, "destroy") /\ goal[k].s \in Sessions
    BY <1>3, <1>14 DEF DrainDestroy, SameRec, SameClaim, In
  <2>2. CASE Moves(k, "fail") /\ UNCHANGED box
    BY <1>4, <1>5, <2>1, <2>2, MovesTo DEF SameBox
  <2>3. CASE Destroyed(Target(k)) /\ Moves(k, IF k \in Drivers THEN "gone" ELSE "reclaim")
    <3>1. TakeTo(k, "destroy", "gone") \/ TakeTo(k, "destroy", "reclaim")
      BY <2>1, <2>3, MovesTo
    <3>2. BoxGoes(goal[k].s)
      BY <2>1, <2>3, DestroyedGoes DEF Target
    <3>3. QED
      BY <2>1, <3>1, <3>2 DEF TakeEffect
  <2>4. QED
    BY <1>14, <2>2, <2>3 DEF DrainDestroy
<1>15. CASE DrainMarkReclaimed(k)
  <2>1. SameBox /\ SameClaim
    BY <1>15 DEF DrainMarkReclaimed, SameBox, SameClaim
  <2>2. TakeTo(k, "reclaim", "final") \/ TakeTo(k, "reclaim", "mark")
    BY <1>15, MovesTo DEF DrainMarkReclaimed
  <2>3. Reclaimed(goal[k].s)
    BY <1>3, <1>15, RecordEffect DEF DrainMarkReclaimed, In, Target
  <2>4. QED
    BY <2>1, <2>2, <2>3 DEF TakeEffect
<1>16. CASE DrainMarkTerminated(k)
  <2>1. SameBox /\ SameClaim /\ TakeTo(k, "mark", "finish")
    BY <1>16, MovesTo DEF DrainMarkTerminated, SameBox, SameClaim
  <2>2. Terminated(goal[k].s)
    BY <1>3, <1>16, RecordEffect DEF DrainMarkTerminated, In, Target
  <2>3. QED
    BY <2>1, <2>2 DEF TakeEffect
<1>17. CASE FinishDrain(k)
  <2>1. SameRec /\ SameBox /\ In(k, "finish")
    BY <1>17 DEF FinishDrain, SameRec, SameBox
  <2>2. CASE Moves(k, "fail") /\ UNCHANGED <<claim, fresh>>
    BY <1>4, <1>5, <2>1, <2>2, MovesTo DEF SameClaim
  <2>3. CASE Moves(k, "over") /\ UNCHANGED <<claim, fresh>>
    <3>1. TakeTo(k, "finish", "over")
      BY <2>1, <2>3, MovesTo
    <3>2. QED
      BY <2>1, <2>3, <3>1 DEF TakeEffect, SameClaim, TakeSteps
  <2>4. CASE /\ Moves(k, "over") /\ PutClaim([claim EXCEPT !.phase = "ready", !.lease = None])
             /\ (k \in Takeovers /\ claim.t = k) \/ (claim.t = goal[k].t /\ claim.phase = "draining")
    <3>1. TakeTo(k, "finish", "over")
      BY <2>1, <2>4, MovesTo
    <3>2. claim.t = goal[k].t
      BY <2>1, <2>4 DEF GoalInv, In
    <3>3. QED
      BY <2>1, <2>4, <3>1, <3>2 DEF TakeEffect, PutClaim, NewClaim
  <2>5. CASE k \in Takeovers
    BY <1>17, <2>3, <2>4, <2>5 DEF FinishDrain
  <2>6. CASE k \notin Takeovers
    BY <1>17, <2>2, <2>4, <2>6 DEF FinishDrain
  <2>7. QED
    BY <2>5, <2>6
<1>18. CASE FailDrain(k)
  <2>1. SameRec /\ SameBox /\ TakeTo(k, "fail", "over")
    BY <1>18, MovesTo DEF FailDrain, SameRec, SameBox
  <2>2. CASE UNCHANGED <<claim, fresh>> \/ PutClaim([claim EXCEPT !.lease = None])
    BY <2>1, <2>2 DEF TakeEffect, SameClaim, PutClaim, NewClaim, TakeSteps
  <2>3. CASE k \in Takeovers /\ claim.t = k /\ PutClaim([claim EXCEPT !.phase = "draining"])
    BY <2>1, <2>3 DEF TakeEffect, PutClaim, NewClaim
  <2>4. QED
    BY <1>18, <2>2, <2>3 DEF FailDrain
<1>19. CASE TakeoverCrashes(k)
  <2>1. TakeTo(k, kpc[k], "over") /\ SameRec /\ SameBox /\ SameClaim
    BY <1>19, MovesTo DEF TakeoverCrashes, In, SameRec, SameBox, SameClaim
  <2>2. kpc[k] \in TakeSteps \ {"idle", "over"}
    BY <1>2, <1>19 DEF TakeoverCrashes
  <2>3. QED
    BY <2>1, <2>2 DEF TakeEffect
<1>20. QED
  BY <1>6, <1>7, <1>8, <1>9, <1>10, <1>11, <1>12, <1>13, <1>14, <1>15, <1>16, <1>17, <1>18, <1>19
     DEF DrainStep

LEMMA NextEffect == ASSUME TypeOK, SagaInv, GoalInv, [Next]_vars PROVE StepEffect
<1>1. CASE UNCHANGED vars
  BY <1>1 DEF StepEffect, SameClaim, SameRec, SameBox, SameSaga, SameWork, SameTake
<1>2. ASSUME NEW s \in Sessions, Preflight(s) \/ SagaStep(s) \/ AdmissionFails(s) \/ SagaCrashes(s)
      PROVE  StepEffect
  BY <1>2, SagaStepEffect DEF StepEffect
<1>3. ASSUME NEW s \in Sessions,
             \/ GoStale(s) \/ ExpireStale(s) \/ ReapTerminated(s) \/ BootDone(s) \/ BoxDies(s)
             \/ KernelUse(s) \/ AdoptEditor(s) \/ MarkDead(s) \/ ReapOrphan(s)
      PROVE  StepEffect
  BY <1>3, OutsideStepEffect DEF StepEffect
<1>4. ASSUME NEW s \in Sessions, NEW k \in Kinds,
             \/ k = "retire" /\ Stop(s)
             \/ k = "sweep" /\ Snapshot(s)
             \/ k \in Loops /\ \E past \in BOOLEAN : Reclaim(k, s, past)
             \/ WorkStep(k, s) \/ WorkCrashes(k, s)
      PROVE  StepEffect
  BY <1>4, WorkStepEffect DEF StepEffect
<1>5. ASSUME NEW k \in Requests,
             \/ k \in Takeovers /\ (ReserveTakeover(k) \/ TakeoverRefused(k) \/ BeginDrain(k))
             \/ k \in Drivers /\ (AcquireDrainLease(k) \/ ReadDrain(k) \/ AssertLease(k))
             \/ DrainStep(k) \/ TakeoverCrashes(k)
      PROVE  StepEffect
  BY <1>5, TakeStepEffect DEF StepEffect
<1>6. CASE CancelRequested \/ DrainLeaseLapses \/ ListActive
  BY <1>6 DEF CancelRequested, DrainLeaseLapses, ListActive, PutClaim, NewClaim, CancelClaim, StepEffect,
     SameClaim, SameRec, SameBox, SameSaga, SameWork, SameTake
<1>7. ASSUME NEW s \in Sessions, Snapshot(s) PROVE "sweep" \in Kinds
  BY <1>7 DEF Snapshot, Kinds
<1>8. /\ "retire" \in Kinds /\ Loops \subseteq Kinds
      /\ Takeovers \subseteq Requests /\ Drivers \subseteq Requests
  BY DEF Kinds, Requests
<1>9. QED
  BY <1>1, <1>2, <1>3, <1>4, <1>5, <1>6, <1>7, <1>8 DEF Next

-----------------------------------------------------------------------------
(* What no step does to a session. *)

\* The record: it never comes back to life, and what it has recorded stays until it is reaped.
RecordKeeps(s) ==
    /\ rec'[s] = rec[s] \/ rec[s].st # "none" \/ saga'[s].pc \notin {"idle", "record"}
    /\ rec[s].st # "none" => rec'[s].st # "none"
    /\ rec[s].st \notin {"none", "starting", "running"} => rec'[s].st \notin {"none", "starting", "running"}
    /\ rec'[s].st = "starting" => rec[s].st \in {"none", "starting"}
    /\ rec'[s].st = "running" =>
        rec[s].st = "running" \/ (rec[s].st = "starting" /\ saga[s].pc = "running" /\ rec'[s].url)
    /\ rec'[s].st = "expired" => rec[s].st \in {"expired", "running"} \/ s \in stale
    /\ rec[s].st = "reaped" => rec'[s].st = "reaped"
    /\ rec'[s].st = "reaped" =>
        \/ rec[s].st = "reaped" /\ rec'[s].url = rec[s].url
        \/ rec[s].rcl /\ (\A k \in Kinds : work[k][s] = "no") /\ \A k \in Requests : goal[k].s # s
    /\ rec[s].rcl => rec'[s].rcl \/ rec'[s].st = "reaped"
    /\ rec[s].url => rec'[s].url \/ rec'[s].st = "reaped"
    /\ rec'[s].url => rec[s].url \/ (rec[s].st = "starting" /\ saga[s].pc = "running")
    /\ rec'[s].cap => rec[s].cap \/ \E k \in Requests : goal[k].s = s /\ kpc[k] = "captured"
    /\ rec'[s].rcl =>
        \/ rec[s].rcl \/ box'[s] = "gone"
        \/ \E k \in Kinds : work[k][s] = "reclaim"
        \/ \E k \in Requests : goal[k].s = s /\ kpc[k] = "reclaim"
    /\ rec[s].stop =>
        \/ rec'[s].stop \/ saga[s].pc = "mark" \/ rec[s].rcl
        \/ \E k \in Kinds : work[k][s] \in {"mark", "end"}
        \/ \E k \in Requests : goal[k].s = s /\ kpc[k] = "mark"

LEMMA SameRecordKeeps == ASSUME NEW s \in Sessions, rec'[s] = rec[s] PROVE RecordKeeps(s)
  BY DEF RecordKeeps

LEMMA RecordOpKeeps ==
    ASSUME TypeOK, TypeOK', NEW s \in Sessions,
           \/ Stopped(s)
           \/ /\ Terminated(s)
              /\ \/ saga[s].pc = "mark" \/ \E k \in Kinds : work[k][s] \in {"mark", "end"}
                 \/ \E k \in Requests : goal[k].s = s /\ kpc[k] = "mark"
           \/ /\ Reclaimed(s)
              /\ \/ box'[s] = "gone" \/ \E k \in Kinds : work[k][s] = "reclaim"
                 \/ \E k \in Requests : goal[k].s = s /\ kpc[k] = "reclaim"
           \/ rec[s].st = "terminating" /\ Finished(s, "terminated")
           \/ Live(s) /\ Finished(s, "failed")
           \/ (rec[s].st = "running" \/ s \in stale) /\ Live(s) /\ Finished(s, "expired")
    PROVE  RecordKeeps(s)
<1>1. rec[s] \in Record /\ rec'[s] \in Record
  BY DEF TypeOK
<1>2. rec[s].st \in Status /\ rec'[s].st \in Status
  BY <1>1 DEF Record
<1>3. CASE Stopped(s)
  BY <1>2, <1>3 DEF Stopped, Live, RecordKeeps
<1>4. CASE /\ Terminated(s)
           /\ \/ saga[s].pc = "mark" \/ \E k \in Kinds : work[k][s] \in {"mark", "end"}
              \/ \E k \in Requests : goal[k].s = s /\ kpc[k] = "mark"
  BY <1>2, <1>4 DEF Terminated, RecordKeeps, Absent, Terminal
<1>5. CASE /\ Reclaimed(s)
           /\ \/ box'[s] = "gone" \/ \E k \in Kinds : work[k][s] = "reclaim"
              \/ \E k \in Requests : goal[k].s = s /\ kpc[k] = "reclaim"
  BY <1>2, <1>5 DEF Reclaimed, RecordKeeps
<1>6. CASE rec[s].st = "terminating" /\ Finished(s, "terminated")
  BY <1>2, <1>6 DEF Finished, RecordKeeps
<1>7. CASE Live(s) /\ Finished(s, "failed")
  BY <1>2, <1>7 DEF Finished, Live, RecordKeeps
<1>8. CASE (rec[s].st = "running" \/ s \in stale) /\ Live(s) /\ Finished(s, "expired")
  BY <1>2, <1>8 DEF Finished, Live, RecordKeeps
<1>9. QED
  BY <1>3, <1>4, <1>5, <1>6, <1>7, <1>8

LEMMA RecordKept ==
    ASSUME TypeOK, TypeOK', SagaInv, GoalInv, StepEffect, NEW s \in Sessions
    PROVE  RecordKeeps(s)
<1>1. rec[s] \in Record /\ rec'[s] \in Record
  BY DEF TypeOK
<1>2. CASE SameRec
  BY <1>2, SameRecordKeeps DEF SameRec
<1>3. ASSUME NEW x, OnlyRec(x), x # s PROVE RecordKeeps(s)
  BY <1>3, SameRecordKeeps DEF OnlyRec
<1>4. ASSUME NEW x \in Sessions, SagaEffect(x) PROVE RecordKeeps(s)
  <2>1. CASE SameRec
    BY <1>2, <2>1
  <2>2. CASE x # s
    BY <1>2, <1>3, <1>4, <2>2 DEF SagaEffect, Terminated, Reclaimed, Finished
  <2>3. CASE x = s /\ (SagaTo(s, "record", "claim") \/ SagaTo(s, "record", "undo")) /\ ~SameRec
    <3>1. /\ rec[s] = NoRecord /\ saga'[s].pc \in {"claim", "undo"}
          /\ rec'[s] \in {rec[s], [rec[s] EXCEPT !.st = "starting"]}
      BY <1>4, <2>3 DEF SagaEffect, SagaTo, SagaInv, Compensating
    <3>2. CASE rec'[s] = [NoRecord EXCEPT !.st = "starting"]
      <4>1. /\ rec[s].st = "none" /\ ~rec[s].stop /\ ~rec[s].url /\ ~rec[s].rcl
            /\ rec'[s].st = "starting" /\ ~rec'[s].url /\ ~rec'[s].cap /\ ~rec'[s].rcl
        BY <3>1, <3>2 DEF NoRecord
      <4>2. QED
        BY <3>1, <4>1 DEF RecordKeeps
    <3>3. QED
      BY <3>1, <3>2, SameRecordKeeps
  <2>4. CASE x = s /\ SagaTo(s, "running", "recheck") /\ ~SameRec
    <3>1. /\ rec[s].st = "starting" /\ rec'[s].st = "running" /\ rec'[s].url /\ saga[s].pc = "running"
          /\ rec'[s].cap = rec[s].cap /\ rec'[s].rcl = rec[s].rcl /\ rec'[s].stop = rec[s].stop
      BY <1>4, <2>4 DEF SagaEffect, SagaTo, Compensating
    <3>2. QED
      BY <3>1 DEF RecordKeeps
  <2>5. CASE x = s /\ box'[s] = "gone" /\ Reclaimed(s)
    BY <2>5, RecordOpKeeps
  <2>6. CASE x = s /\ SagaTo(s, "mark", "over") /\ ~SameRec
    <3>1. \/ Terminated(s) \/ rec'[s] = rec[s] \/ (Live(s) /\ Finished(s, "failed"))
          \/ (Reclaimed(s) /\ box'[s] = "gone")
      BY <1>4, <2>6 DEF SagaEffect, SagaTo, Compensating
    <3>2. QED
      BY <2>6, <3>1, RecordOpKeeps, SameRecordKeeps DEF SagaTo
  <2>7. QED
    BY <1>4, <2>1, <2>2, <2>3, <2>4, <2>5, <2>6 DEF SagaEffect
<1>5. ASSUME NEW x \in Sessions, OutsideEffect(x) PROVE RecordKeeps(s)
  <2>1. CASE rec' = rec
    BY <2>1, SameRecordKeeps
  <2>2. CASE x # s
    BY <1>2, <1>3, <1>5, <2>1, <2>2 DEF OutsideEffect, Finished
  <2>3. CASE /\ rec[s].st \in Terminal /\ rec[s].rcl
             /\ (\A k \in Kinds : work[k][s] = "no") /\ (\A k \in Requests : goal[k].s # s)
             /\ rec'[s] = [NoRecord EXCEPT !.st = "reaped"]
    <3>1. rec'[s].st = "reaped" /\ ~rec'[s].url /\ ~rec'[s].cap /\ ~rec'[s].rcl
      BY <2>3 DEF NoRecord
    <3>2. QED
      BY <2>3, <3>1 DEF RecordKeeps, Terminal
  <2>4. QED
    BY <1>5, <2>1, <2>2, <2>3, RecordOpKeeps DEF OutsideEffect, SameRec, Live
<1>6. ASSUME NEW x \in Sessions, NEW k \in Kinds, WorkEffect(k, x) PROVE RecordKeeps(s)
  <2>1. CASE x # s
    BY <1>2, <1>3, <1>6, <2>1 DEF WorkEffect, Terminated, Reclaimed, Stopped
  <2>2. CASE x = s
    BY <1>2, <1>6, <2>2, RecordOpKeeps DEF WorkEffect, WorkTo
  <2>3. QED
    BY <2>1, <2>2
<1>7. ASSUME NEW k \in Requests, TakeEffect(k) PROVE RecordKeeps(s)
  <2>1. CASE goal[k].s # s
    BY <1>2, <1>3, <1>7, <2>1 DEF TakeEffect, Terminated, Reclaimed, Stopped
  <2>2. CASE goal[k].s = s /\ kpc[k] = "captured" /\ rec'[s] \in {rec[s], [rec[s] EXCEPT !.cap = TRUE]}
    <3>1. /\ rec'[s].st = rec[s].st /\ rec'[s].url = rec[s].url /\ rec'[s].rcl = rec[s].rcl
          /\ rec'[s].stop = rec[s].stop /\ rec[s].st # "none"
      BY <1>1, <2>2 DEF Record, GoalInv
    <3>2. QED
      BY <2>2, <3>1 DEF RecordKeeps
  <2>3. CASE goal[k].s = s
    BY <1>2, <1>7, <2>2, <2>3, RecordOpKeeps DEF TakeEffect, TakeTo
  <2>4. QED
    BY <2>1, <2>3
<1>8. QED
  BY <1>2, <1>4, <1>5, <1>6, <1>7 DEF StepEffect

\* A teardown: who moves it, and from where.
WorkKeeps(k, s) ==
    \/ work'[k][s] \in {work[k][s], "no"}
    \/ /\ k = "retire" /\ work'[k][s] \in {"owns", "destroy"}
       /\ Live(s) /\ rec'[s].st = "terminating" /\ rec'[s].stop /\ rec'[s].rcl = rec[s].rcl
    \/ /\ k \in Loops /\ work[k][s] = "no" /\ rec' = rec /\ box' = box
       /\ rec[s].st \in Terminal \union {"terminating"} /\ work'[k][s] \in {"mark", "owns", "destroy"}
       /\ work'[k][s] = "mark" => rec[s].rcl \/ box[s] \notin Present
       /\ rec[s].rcl => work'[k][s] = "mark"
       /\ work'[k][s] = "owns" => rec[s].url
       /\ ~rec[s].rcl => ~(rec[s].stop /\ (work["retire"][s] # "no" \/ box[s] = "boot"))
    \/ /\ k \in Loops /\ work[k][s] = "no" /\ rec' = rec /\ box' = box
       /\ rec[s].st \in {"running", "expired"} /\ work'[k][s] = "snapowns"
    \/ /\ \/ work[k][s] = "owns" /\ work'[k][s] = "capture"
          \/ work[k][s] = "snapowns" /\ work'[k][s] = "snap"
       /\ claim'.holder = s
    \/ work[k][s] \in {"owns", "capture"} /\ work'[k][s] = "destroy"
    \/ work[k][s] = "destroy" /\ work'[k][s] = "end"
    \/ work[k][s] = "destroy" /\ work'[k][s] = "mark" /\ BoxGoes(s)
    \/ work[k][s] = "mark" /\ work'[k][s] = "reclaim"
    \/ work[k][s] = "reclaim" /\ work'[k][s] = "release"

LEMMA WorkKept ==
    ASSUME TypeOK, StepEffect, NEW k \in Kinds, NEW s \in Sessions PROVE WorkKeeps(k, s)
<1>1. CASE work'[k][s] \in {work[k][s], "no"}
  BY <1>1 DEF WorkKeeps
<1>2. ASSUME WorkEffect(k, s) PROVE WorkKeeps(k, s)
  <2>1. claim.t = None => Claimed(s).holder = s
    BY DEF Claimed, TypeOK, Claim
  <2>2. QED
    BY <1>1, <1>2, <2>1 DEF WorkEffect, WorkTo, WorkKeeps, Stopped, SameRec, SameBox, SameClaim, NewClaim
<1>3. ASSUME NEW j \in Kinds, NEW x \in Sessions, j # k \/ x # s, WorkEffect(j, x)
      PROVE  work'[k][s] = work[k][s]
  BY <1>3 DEF WorkEffect, WorkTo
<1>4. QED
  BY <1>1, <1>2, <1>3 DEF StepEffect, SameWork

\* The claim: every write of it, with who writes it.  Any write makes the sagas read it again.
ClaimIs(h, t, p, r) == claim'.holder = h /\ claim'.t = t /\ claim'.phase = p /\ claim'.repl = r
ClaimStaysWith(t, p) == ClaimIs(claim.holder, t, p, claim.repl)
ClaimKeeps ==
    \/ claim' = claim
    \/ fresh' = {} /\ \E s \in Sessions :
        \/ /\ s \in fresh /\ saga[s].pc \in {"put", "reput"} /\ saga'[s].pc # "over"
           /\ IF claim.t = None THEN ClaimIs(s, None, claim.phase, claim.repl)
              ELSE ClaimIs(claim.holder, claim.t, claim.phase, s)
        \/ /\ claim.holder = None /\ claim.t = None /\ rec[s].st # "none"
           /\ ClaimIs(s, None, claim.phase, claim.repl)
        \/ /\ saga[s].pc = "recheck" /\ claim.phase = "ready" /\ claim.repl = s
           /\ ClaimIs(s, None, "none", None)
        \/ /\ claim.holder = s /\ claim.t = None /\ ClaimIs(None, None, claim.phase, claim.repl)
           /\ saga[s].pc \in Compensating \/ \E k \in Kinds : work[k][s] = "release"
    \/ fresh' = {} /\ claim.phase = "requested" /\ ClaimStaysWith(None, "none")
    \/ fresh' = {} /\ ClaimStaysWith(claim.t, claim.phase)
    \/ fresh' = {} /\ \E k \in Takeovers :
        \/ /\ kpc[k] = "idle" /\ kpc'[k] = "begin" /\ claim.holder # None /\ claim.t = None
           /\ ClaimStaysWith(k, "requested")
        \/ /\ kpc[k] = "fail" /\ kpc'[k] = "over" /\ claim.t = k
           /\ ClaimStaysWith(claim.t, "draining")
    \/ fresh' = {} /\ \E k \in Requests :
        /\ kpc[k] = "finish" /\ kpc'[k] = "over" /\ claim.t = goal[k].t
        /\ k \in Takeovers \/ claim.phase = "draining"
        /\ ClaimStaysWith(claim.t, "ready")

LEMMA ClaimKept == ASSUME TypeOK, TypeOK', StepEffect PROVE ClaimKeeps
<1> USE DEF NewClaim
<1>1. claim \in Claim
  BY DEF TypeOK
<1>2. CASE SameClaim
  BY <1>2 DEF SameClaim, ClaimKeeps
<1>3. ASSUME NEW s \in Sessions, claim' = Claimed(s)
      PROVE  IF claim.t = None THEN ClaimIs(s, None, claim.phase, claim.repl)
             ELSE ClaimIs(claim.holder, claim.t, claim.phase, s)
  BY <1>1, <1>3 DEF Claimed, ClaimIs, Claim
<1>4. ASSUME NEW s \in Sessions, NewClaim([claim EXCEPT !.holder = None]), claim.t = None
      PROVE  ClaimIs(None, None, claim.phase, claim.repl)
  BY <1>1, <1>4 DEF ClaimIs, Claim
<1>5. ASSUME CancelClaim PROVE ClaimKeeps
  <2>1. ClaimStaysWith(None, "none")
    BY <1>1, <1>5 DEF CancelClaim, ClaimStaysWith, ClaimIs, Claim
  <2>2. QED
    BY <1>5, <2>1 DEF CancelClaim, ClaimKeeps
<1>6. ASSUME NEW s \in Sessions, SagaEffect(s) PROVE ClaimKeeps
  <2>1. CASE /\ SagaTo(s, "put", "provision") \/ SagaTo(s, "reput", "done")
             /\ s \in fresh /\ NewClaim(Claimed(s))
    <3>1. saga[s].pc \in {"put", "reput"} /\ saga'[s].pc # "over"
      BY <2>1 DEF SagaTo
    <3>2. QED
      BY <1>3, <2>1, <3>1 DEF ClaimKeeps
  <2>2. CASE /\ SagaTo(s, "recheck", "done") /\ claim.phase = "ready" /\ claim.repl = s
             /\ NewClaim([NoClaim EXCEPT !.holder = s])
    <3>1. ClaimIs(s, None, "none", None)
      BY <2>2 DEF ClaimIs, NoClaim
    <3>2. QED
      BY <2>2, <3>1 DEF ClaimKeeps, SagaTo
  <2>3. CASE (\E from, to \in Compensating : SagaTo(s, from, to)) /\ Releases(s)
    <3>1. saga[s].pc \in Compensating
      BY <2>3 DEF SagaTo
    <3>2. CASE claim.holder = s /\ claim.t = None /\ NewClaim([claim EXCEPT !.holder = None])
      BY <1>4, <3>1, <3>2 DEF ClaimKeeps
    <3>3. QED
      BY <1>2, <2>3, <3>2 DEF Releases
  <2>4. CASE claim' = claim
    BY <2>4 DEF ClaimKeeps
  <2>5. QED
    BY <1>2, <1>6, <2>1, <2>2, <2>3, <2>4 DEF SagaEffect
<1>7. ASSUME NEW s \in Sessions, OutsideEffect(s) PROVE ClaimKeeps
  <2>1. CASE claim.holder = None /\ claim.t = None /\ Live(s) /\ NewClaim(Claimed(s))
    BY <1>3, <2>1 DEF ClaimKeeps, Live
  <2>2. QED
    BY <1>2, <1>7, <2>1 DEF OutsideEffect
<1>8. ASSUME NEW s \in Sessions, NEW k \in Kinds, WorkEffect(k, s) PROVE ClaimKeeps
  <2>1. CASE claim.holder = None /\ claim.t = None /\ rec[s].st # "none" /\ NewClaim(Claimed(s))
    BY <1>3, <2>1 DEF ClaimKeeps
  <2>2. CASE work[k][s] = "release" /\ Releases(s)
    <3>1. CASE claim.holder = s /\ claim.t = None /\ NewClaim([claim EXCEPT !.holder = None])
      BY <1>4, <2>2, <3>1 DEF ClaimKeeps
    <3>2. QED
      BY <1>2, <2>2, <3>1 DEF Releases
  <2>3. QED
    BY <1>2, <1>8, <2>1, <2>2 DEF WorkEffect, WorkTo
<1>9. ASSUME NEW k \in Requests, TakeEffect(k) PROVE ClaimKeeps
  <2>1. CASE /\ k \in Takeovers /\ kpc[k] = "idle" /\ claim.holder # None /\ claim.t = None
             /\ NewClaim([claim EXCEPT !.t = k, !.phase = "requested"])
             /\ kpc' = [kpc EXCEPT ![k] = "begin"]
    <3>1. ClaimStaysWith(k, "requested") /\ kpc'[k] = "begin"
      BY <1>1, <2>1 DEF ClaimStaysWith, ClaimIs, Claim, TypeOK
    <3>2. QED
      BY <2>1, <3>1 DEF ClaimKeeps
  <2>2. ASSUME NEW l, NewClaim([claim EXCEPT !.lease = l]) PROVE ClaimKeeps
    <3>1. ClaimStaysWith(claim.t, claim.phase)
      BY <1>1, <2>2 DEF ClaimStaysWith, ClaimIs, Claim
    <3>2. QED
      BY <2>2, <3>1 DEF ClaimKeeps
  <2>3. CASE /\ k \in Takeovers /\ TakeTo(k, "fail", "over") /\ claim.t = k
             /\ NewClaim([claim EXCEPT !.phase = "draining"])
    <3>1. ClaimStaysWith(claim.t, "draining") /\ kpc[k] = "fail" /\ kpc'[k] = "over"
      BY <1>1, <2>3 DEF ClaimStaysWith, ClaimIs, Claim, TakeTo
    <3>2. QED
      BY <2>3, <3>1 DEF ClaimKeeps
  <2>4. CASE /\ TakeTo(k, "finish", "over") /\ claim.t = goal[k].t
             /\ k \in Takeovers \/ claim.phase = "draining"
             /\ NewClaim([claim EXCEPT !.phase = "ready", !.lease = None])
    <3>1. ClaimStaysWith(claim.t, "ready") /\ kpc[k] = "finish" /\ kpc'[k] = "over"
      BY <1>1, <2>4 DEF ClaimStaysWith, ClaimIs, Claim, TakeTo
    <3>2. QED
      BY <2>4, <3>1 DEF ClaimKeeps
  <2>5. QED
    BY <1>2, <1>5, <1>9, <2>1, <2>2, <2>3, <2>4 DEF TakeEffect
<1>10. QED
  BY <1>2, <1>5, <1>6, <1>7, <1>8, <1>9 DEF StepEffect

\* A takeover request: what each of its steps has found.
TakeKeeps(k) ==
    \/ kpc'[k] = kpc[k] /\ goal'[k] = goal[k]
    \/ kpc[k] \notin {"idle", "over"} /\ kpc'[k] = "over" /\ goal'[k] = NoGoal
    \/ /\ k \in Takeovers /\ kpc[k] = "idle" /\ kpc'[k] = "begin"
       /\ claim.holder # None /\ claim.t = None /\ ClaimStaysWith(k, "requested")
       /\ goal'[k] = [t |-> k, s |-> claim.holder]
    \/ /\ k \in Drivers /\ kpc[k] = "idle" /\ kpc'[k] = "read"
       /\ claim.phase = "draining" /\ ClaimStaysWith(claim.t, claim.phase)
       /\ goal'[k] = [t |-> claim.t, s |-> claim.holder]
    \/ /\ goal'[k] = goal[k]
       /\ \/ kpc[k] = "begin" /\ kpc'[k] = "capture" /\ Stopped(goal[k].s) /\ box' = box
          \/ kpc[k] = "read" /\ kpc'[k] = "final" /\ rec[goal[k].s].rcl
          \/ kpc[k] = "read" /\ kpc'[k] = "advance" /\ rec[goal[k].s].cap
          \/ kpc[k] = "read" /\ kpc'[k] = "capture"
          \/ kpc[k] = "capture" /\ kpc'[k] \in {"keep", "captured"} /\ box[goal[k].s] \in Present
          \/ kpc[k] = "keep" /\ kpc'[k] = "captured"
          \/ kpc[k] = "captured" /\ kpc'[k] \in {"advance", "destroy"}
          \/ kpc[k] = "advance" /\ kpc'[k] = "destroy"
          \/ kpc[k] = "destroy" /\ kpc'[k] \in {"gone", "reclaim"} /\ BoxGoes(goal[k].s)
          \/ kpc[k] = "gone" /\ kpc'[k] = "reclaim"
          \/ kpc[k] = "reclaim" /\ kpc'[k] \in {"final", "mark"} /\ Reclaimed(goal[k].s)
          \/ kpc[k] \in {"final", "mark"} /\ kpc'[k] \in {"mark", "finish"}
          \/ kpc[k] \in Draining /\ kpc'[k] = "fail"

LEMMA TakeKept == ASSUME TypeOK, TypeOK', StepEffect, NEW k \in Requests PROVE TakeKeeps(k)
<1>1. CASE kpc'[k] = kpc[k] /\ goal'[k] = goal[k]
  BY <1>1 DEF TakeKeeps
<1>2. ASSUME NEW j \in Requests, j # k, TakeEffect(j) PROVE kpc'[k] = kpc[k] /\ goal'[k] = goal[k]
  BY <1>2 DEF TakeEffect, TakeTo, TypeOK
<1>3. ASSUME TakeEffect(k) PROVE TakeKeeps(k)
  <2>1. claim \in Claim
    BY DEF TypeOK
  <2>2. CASE /\ k \in Takeovers /\ kpc[k] = "idle" /\ claim.holder # None /\ claim.t = None
             /\ NewClaim([claim EXCEPT !.t = k, !.phase = "requested"])
             /\ kpc' = [kpc EXCEPT ![k] = "begin"]
             /\ goal' = [goal EXCEPT ![k] = [t |-> k, s |-> claim.holder]]
    <3>1. ClaimStaysWith(k, "requested")
      BY <2>1, <2>2 DEF NewClaim, ClaimStaysWith, ClaimIs, Claim
    <3>2. QED
      BY <2>2, <3>1 DEF TakeKeeps, TypeOK
  <2>3. CASE /\ k \in Drivers /\ kpc[k] = "idle" /\ claim.phase = "draining"
             /\ NewClaim([claim EXCEPT !.lease = k])
             /\ kpc' = [kpc EXCEPT ![k] = "read"]
             /\ goal' = [goal EXCEPT ![k] = [t |-> claim.t, s |-> claim.holder]]
    <3>1. ClaimStaysWith(claim.t, claim.phase)
      BY <2>1, <2>3 DEF NewClaim, ClaimStaysWith, ClaimIs, Claim
    <3>2. QED
      BY <2>3, <3>1 DEF TakeKeeps, TypeOK
  <2>4. CASE \E from \in TakeSteps \ {"idle", "over"} : TakeTo(k, from, "over")
    BY <2>4 DEF TakeTo, TakeKeeps
  <2>5. CASE ~\E from \in TakeSteps \ {"idle", "over"} : TakeTo(k, from, "over")
    BY <1>3, <2>2, <2>3, <2>5 DEF TakeEffect, TakeTo, TakeKeeps, TakeSteps, SameBox
  <2>6. QED
    BY <2>4, <2>5
<1>4. QED
  BY <1>1, <1>2, <1>3 DEF StepEffect, SameTake

\* The saga: it gives up for good, and whoever goes on has its sandbox up first.
SagaKeeps(s) ==
    /\ saga[s].pc \in Compensating => saga'[s].pc \in Compensating
    /\ saga[s].pc = "over" => saga'[s].pc = "over"
    /\ saga[s].pc = "idle" => saga'[s].pc = "idle" \/ box'[s] = "boot"
    /\ saga'[s].pc = "idle" => saga[s].pc = "idle" /\ saga'[s] = saga[s]
    /\ saga'[s].pc = "record" => saga[s].pc \in {"idle", "record"}
    /\ saga'[s].pc \in {"running", "recheck", "reput", "done"} =>
        saga[s].pc \in {"running", "recheck", "reput", "done"} \/ box'[s] = "ready"
    /\ saga[s].pc \in {"idle", "record"} =>
        saga'[s].pc \in {"idle", "record"} \union Compensating \/ rec'[s].st = "starting"

LEMMA SagaKept == ASSUME TypeOK, TypeOK', StepEffect, NEW s \in Sessions PROVE SagaKeeps(s)
<1>1. CASE saga'[s] = saga[s]
  BY <1>1 DEF SagaKeeps
<1>2. ASSUME SagaEffect(s) PROVE SagaKeeps(s)
  BY <1>2 DEF SagaEffect, SagaTo, SagaKeeps, Compensating, SagaSteps
<1>3. ASSUME NEW x \in Sessions, x # s, SagaEffect(x) PROVE saga'[s] = saga[s]
  BY <1>3 DEF SagaEffect, SagaTo
<1>4. QED
  BY <1>1, <1>2, <1>3 DEF StepEffect, SameSaga

\* The sandbox: it comes up once, and what has gone stays gone.
BoxKeeps(s) ==
    /\ box[s] = "gone" => box'[s] = "gone"
    /\ box[s] \in CameUp => box'[s] \in CameUp
    /\ box[s] \notin {"none", "boot"} => box'[s] \notin {"none", "boot"}
    /\ box'[s] = "boot" => box[s] = "boot" \/ saga[s].pc = "idle"
    /\ saga'[s].pc = "idle" => box'[s] = box[s]
    /\ box'[s] = "none" => box[s] = "none"

LEMMA BoxKept ==
    ASSUME TypeOK, TypeOK', SagaInv, WorkInv, GoalInv, StepEffect, NEW s \in Sessions PROVE BoxKeeps(s)
<1>1. CASE box'[s] = box[s]
  BY <1>1 DEF BoxKeeps, CameUp
<1>2. CASE BoxGoes(s) /\ saga'[s] = saga[s] /\ rec[s].st # "none"
  BY <1>2 DEF BoxGoes, BoxKeeps, SagaInv, NoRecord, CameUp
<1>3. ASSUME SagaEffect(s) PROVE BoxKeeps(s)
  <2>1. saga'[s].pc # "idle" /\ (SagaTo(s, "idle", "record") => box[s] = "none")
    BY <1>3 DEF SagaEffect, SagaTo, SagaInv, Compensating
  <2>2. CASE OnlyBox(s)
    BY <1>3, <2>1, <2>2 DEF SagaEffect, SagaTo, BoxKeeps, SameBox, CameUp
  <2>3. QED
    BY <1>1, <1>3, <2>2 DEF SagaEffect, SameBox
<1>4. ASSUME NEW x \in Sessions, x # s, SagaEffect(x) PROVE box'[s] = box[s]
  BY <1>4 DEF SagaEffect, OnlyBox, SameBox
<1>5. ASSUME NEW x \in Sessions, OutsideEffect(x), SameSaga PROVE BoxKeeps(s)
  <2>1. CASE x # s
    BY <1>1, <1>5, <2>1 DEF OutsideEffect, OnlyBox, SameBox
  <2>2. CASE x = s
    BY <1>1, <1>5, <2>2 DEF OutsideEffect, BoxKeeps, SameBox, SagaInv, Present, SameSaga, CameUp
  <2>3. QED
    BY <2>1, <2>2
<1>6. ASSUME NEW x \in Sessions, NEW k \in Kinds, WorkEffect(k, x), SameSaga PROVE BoxKeeps(s)
  <2>1. CASE x # s
    BY <1>1, <1>6, <2>1 DEF WorkEffect, BoxGoes, OnlyBox, SameBox
  <2>2. CASE x = s
    <3>1. CASE WorkTo(k, s, "destroy", "mark") /\ BoxGoes(s)
      <4>1. rec[s].st # "none"
        BY <3>1 DEF WorkTo, WorkInv, Ending, Past
      <4>2. QED
        BY <1>2, <1>6, <3>1, <4>1 DEF SameSaga
    <3>2. QED
      BY <1>1, <1>6, <2>2, <3>1 DEF WorkEffect, SameBox
  <2>3. QED
    BY <2>1, <2>2
<1>7. ASSUME NEW k \in Requests, TakeEffect(k), SameSaga PROVE BoxKeeps(s)
  <2>1. CASE kpc[k] = "destroy" /\ BoxGoes(goal[k].s)
    <3>1. rec[goal[k].s].st # "none"
      BY <2>1 DEF GoalInv
    <3>2. QED
      BY <1>1, <1>2, <1>7, <2>1, <3>1 DEF SameSaga, BoxGoes, OnlyBox
  <2>2. QED
    BY <1>1, <1>7, <2>1 DEF TakeEffect, TakeTo, SameBox
<1>8. QED
  BY <1>1, <1>3, <1>4, <1>5, <1>6, <1>7 DEF StepEffect, SameBox

LEMMA StaleKept == ASSUME StepEffect PROVE stale \subseteq stale'
<1> USE DEF SameRec, OnlyRec, Stopped, Terminated, Reclaimed, Finished
<1>1. ASSUME NEW x \in Sessions, SagaEffect(x) PROVE stale' = stale
  BY <1>1 DEF SagaEffect
<1>2. ASSUME NEW x \in Sessions, OutsideEffect(x) PROVE stale \subseteq stale'
  BY <1>2 DEF OutsideEffect
<1>3. ASSUME NEW x \in Sessions, NEW k \in Kinds, WorkEffect(k, x) PROVE stale' = stale
  BY <1>3 DEF WorkEffect
<1>4. ASSUME NEW k \in Requests, TakeEffect(k) PROVE stale' = stale
  BY <1>4 DEF TakeEffect
<1>5. QED
  BY <1>1, <1>2, <1>3, <1>4 DEF StepEffect

LEMMA SafeKept ==
    ASSUME TypeOK, TypeOK', SagaInv, WorkInv, GoalInv, StepEffect, NEW s \in Sessions
    PROVE  Safe(s) => Safe(s)'
  BY BoxKept, SagaKept, StaleKept DEF BoxKeeps, SagaKeeps, Safe

-----------------------------------------------------------------------------
(* The parts of the invariant, one by one. *)

LEMMA SagaInvKept ==
    ASSUME TypeOK, TypeOK', SagaInv, WorkInv, GoalInv, StepEffect PROVE SagaInv'
<1>3. ASSUME NEW s \in Sessions
      PROVE  /\ saga'[s].pc \in {"idle", "record"} => rec'[s] = NoRecord
             /\ saga'[s].pc = "idle" <=> box'[s] = "none"
             /\ saga'[s].pc \in {"running", "recheck", "reput", "done"} => box'[s] \in CameUp
             /\ rec'[s].st = "none" => saga'[s].pc \in {"idle", "record"} \union Compensating
  <2>1. RecordKeeps(s) /\ SagaKeeps(s) /\ BoxKeeps(s)
    BY RecordKept, SagaKept, BoxKept
  <2>2. saga'[s].pc \in {"idle", "record"} => rec'[s] = NoRecord
    BY <2>1 DEF RecordKeeps, SagaKeeps, SagaInv, NoRecord
  <2>3. saga'[s].pc = "idle" <=> box'[s] = "none"
    BY <2>1 DEF SagaKeeps, BoxKeeps, SagaInv, CameUp
  <2>4. saga'[s].pc \in {"running", "recheck", "reput", "done"} => box'[s] \in CameUp
    BY <2>1 DEF SagaKeeps, BoxKeeps, SagaInv, CameUp
  <2>5. rec'[s].st = "none" => saga'[s].pc \in {"idle", "record"} \union Compensating
    BY <2>1 DEF RecordKeeps, SagaKeeps, SagaInv
  <2>6. QED
    BY <2>2, <2>3, <2>4, <2>5
<1>4. QED
  BY <1>3 DEF SagaInv

LEMMA UrlInvKept ==
    ASSUME TypeOK, TypeOK', SagaInv, UrlInv, WorkInv, GoalInv, StepEffect PROVE UrlInv'
<1> SUFFICES ASSUME NEW s \in Sessions
             PROVE  /\ rec'[s].url => box'[s] \in CameUp
                    /\ rec'[s].cap => box'[s] \notin {"none", "boot"}
                    /\ rec'[s].st \in {"running", "expired"} => rec'[s].url \/ Safe(s)'
  BY DEF UrlInv
<1>1. RecordKeeps(s) /\ BoxKeeps(s) /\ (Safe(s) => Safe(s)')
  BY RecordKept, BoxKept, SafeKept
<1>2. rec'[s].url => box'[s] \in CameUp
  BY <1>1 DEF RecordKeeps, BoxKeeps, UrlInv, SagaInv
<1>3. rec'[s].cap => box'[s] \notin {"none", "boot"}
  BY <1>1 DEF RecordKeeps, BoxKeeps, UrlInv, GoalInv
<1>4. rec'[s].st \in {"running", "expired"} => rec'[s].url \/ Safe(s)'
  <2>1. s \in stale => Safe(s)
    BY DEF Safe
  <2>2. QED
    BY <1>1, <2>1 DEF RecordKeeps, UrlInv
<1>5. QED
  BY <1>2, <1>3, <1>4

LEMMA NotRetire == "retire" \notin Loops /\ "retire" \in Kinds /\ Loops \subseteq Kinds
  BY EditorAssumption DEF Kinds

LEMMA WorkInvKept ==
    ASSUME TypeOK, TypeOK', SagaInv, UrlInv, WorkInv, GoalInv, StepEffect PROVE WorkInv'
<1> SUFFICES ASSUME NEW s \in Sessions
             PROVE  /\ \A k \in Kinds : work'[k][s] \in Ending => Past(s)'
                    /\ work'["retire"][s] \notin {"snapowns", "snap"}
                    /\ \A k \in Loops : work'[k][s] \in {"owns", "capture", "snapowns", "snap"} =>
                            rec'[s].url \/ Safe(s)'
  BY DEF WorkInv
<1>1. RecordKeeps(s) /\ (Safe(s) => Safe(s)')
  BY RecordKept, SafeKept
<1>2. ASSUME NEW k \in Kinds, work'[k][s] \in Ending PROVE Past(s)'
  <2>1. WorkKeeps(k, s)
    BY WorkKept
  <2>2. Past(s) \/ rec'[s].st = "terminating"
    BY <1>2, <2>1 DEF WorkKeeps, WorkInv, Ending, Past, Live, Terminal
  <2>3. QED
    BY <1>1, <2>2 DEF RecordKeeps, Past
<1>3. work'["retire"][s] \notin {"snapowns", "snap"}
  <2>1. WorkKeeps("retire", s)
    BY WorkKept, NotRetire
  <2>2. QED
    BY <2>1, NotRetire DEF WorkKeeps, WorkInv
<1>4. ASSUME NEW k \in Loops, work'[k][s] \in {"owns", "capture", "snapowns", "snap"}
      PROVE  rec'[s].url \/ Safe(s)'
  <2>1. WorkKeeps(k, s) /\ k # "retire" /\ k \in Kinds
    BY WorkKept, NotRetire
  <2>2. rec[s].url \/ Safe(s)
    BY <1>4, <2>1 DEF WorkKeeps, WorkInv, UrlInv
  <2>3. CASE rec'[s].st = "reaped" /\ ~(\A j \in Kinds : work[j][s] = "no")
    BY <1>1, <2>2, <2>3 DEF RecordKeeps
  <2>4. CASE \A j \in Kinds : work[j][s] = "no"
    <3>1. rec' = rec
      BY <1>4, <2>1, <2>4 DEF WorkKeeps
    <3>2. QED
      BY <1>1, <2>2, <3>1
  <2>5. QED
    BY <1>1, <2>2, <2>3, <2>4 DEF RecordKeeps
<1>5. QED
  BY <1>2, <1>3, <1>4

LEMMA ClaimInvKept ==
    ASSUME TypeOK, TypeOK', SagaInv, ClaimInv, GoalInv, HolderInv, StepEffect PROVE ClaimInv'
<1>1. ASSUME NEW s \in Sessions, rec[s].st # "none" PROVE rec'[s].st # "none"
  BY <1>1, RecordKept DEF RecordKeeps
<1>2. ASSUME NEW k \in Requests, kpc[k] # "idle" PROVE kpc'[k] # "idle"
  BY <1>2, TakeKept DEF TakeKeeps, Draining, TakeSteps
<1>3. /\ claim.holder \in Sessions \union {None} /\ claim.repl \in Sessions \union {None}
      /\ claim.t \in Takeovers \union {None} /\ Takeovers \subseteq Requests
      /\ None \notin Sessions /\ None \notin Takeovers
  BY EditorAssumption DEF TypeOK, Claim, Requests
<1>4. ASSUME NEW s \in Sessions, saga[s].pc \in {"put", "reput", "recheck"} PROVE rec[s].st # "none"
  BY <1>4 DEF SagaInv, Compensating
<1>5. ASSUME NEW s \in fresh, claim.t # None PROVE claim.phase = "ready"
  BY <1>5 DEF HolderInv, TransferBars
<1>6. ASSUME NEW k \in Takeovers, claim.t = k, kpc[k] = "fail" PROVE claim.phase = "requested"
  BY <1>3, <1>6 DEF GoalInv
<1>7. ASSUME NEW k \in Requests, kpc[k] = "finish" PROVE goal[k].t # None
  BY <1>7 DEF GoalInv
<1>8. ClaimKeeps
  BY ClaimKept
<1>9. claim'.t = None => claim'.phase = "none"
  BY <1>3, <1>5, <1>7, <1>8 DEF ClaimKeeps, ClaimIs, ClaimStaysWith, ClaimInv
<1>10. claim'.t # None => claim'.holder # None /\ claim'.phase # "none"
  BY <1>3, <1>8 DEF ClaimKeeps, ClaimIs, ClaimStaysWith, ClaimInv
<1>11. claim'.t # None => kpc'[claim'.t] # "idle"
  BY <1>2, <1>3, <1>8 DEF ClaimKeeps, ClaimIs, ClaimStaysWith, ClaimInv
<1>12. claim'.phase # "ready" => claim'.repl = None
  BY <1>3, <1>5, <1>6, <1>8 DEF ClaimKeeps, ClaimIs, ClaimStaysWith, ClaimInv
<1>13. claim'.holder # None => rec'[claim'.holder].st # "none"
  BY <1>1, <1>3, <1>4, <1>8 DEF ClaimKeeps, ClaimIs, ClaimStaysWith, ClaimInv
<1>14. claim'.repl # None => rec'[claim'.repl].st # "none"
  BY <1>1, <1>3, <1>4, <1>8 DEF ClaimKeeps, ClaimIs, ClaimStaysWith, ClaimInv
<1>15. QED
  BY <1>9, <1>10, <1>11, <1>12, <1>13, <1>14 DEF ClaimInv

LEMMA GoalInvKept ==
    ASSUME TypeOK, TypeOK', SagaInv, UrlInv, WorkInv, ClaimInv, GoalInv, StepEffect PROVE GoalInv'
<1> USE DEF ClaimIs, ClaimStaysWith
<1>0. /\ claim.holder \in Sessions \union {None} /\ claim.t \in Takeovers \union {None}
      /\ Takeovers \subseteq Requests /\ None \notin Takeovers /\ None \notin Sessions
      /\ Takeovers \intersect Drivers = {}
  BY EditorAssumption DEF TypeOK, Claim, Requests
<1>1. ClaimKeeps
  BY ClaimKept
<1>2. ASSUME NEW k \in Requests
      PROVE  TakeKeeps(k) /\ (kpc[k] # "idle" => kpc'[k] # "idle") /\ (kpc[k] = "over" => kpc'[k] = "over")
  BY TakeKept DEF TakeKeeps, Draining, TakeSteps
<1>3. ASSUME NEW s \in Sessions PROVE RecordKeeps(s) /\ BoxKeeps(s)
  BY RecordKept, BoxKept
<1> SUFFICES ASSUME NEW k \in Requests
    PROVE
        /\ kpc'[k] \in {"idle", "over"} => goal'[k] = NoGoal
        /\ kpc'[k] \notin {"idle", "over"} =>
            goal'[k].t # None /\ goal'[k].s # None /\ rec'[goal'[k].s].st # "none"
        /\ k \in Takeovers /\ kpc'[k] \notin {"idle", "over"} => goal'[k].t = k
        /\ goal'[k].t # None => kpc'[goal'[k].t] # "idle"
        /\ claim'.t # None /\ goal'[k].t = claim'.t => goal'[k].s = claim'.holder
        /\ k \in Takeovers /\ claim'.t = k /\ kpc'[k] # "over" => claim'.phase = "requested"
        /\ kpc'[k] \in {"keep", "captured", "advance", "destroy"} =>
            box'[goal'[k].s] \notin {"none", "boot"}
  BY DEF GoalInv
<1>4. /\ TakeKeeps(k) /\ kpc[k] \in TakeSteps /\ NoGoal.t = None /\ NoGoal.s = None
      /\ goal[k].s \in Sessions \union {None} /\ goal[k].t \in Takeovers \union {None}
  BY <1>2 DEF TypeOK, Goal, NoGoal
<1>5. kpc'[k] \in {"idle", "over"} => goal'[k] = NoGoal
  BY <1>4 DEF TakeKeeps, GoalInv, Draining
<1>6. kpc'[k] \notin {"idle", "over"} =>
            goal'[k].t # None /\ goal'[k].s # None /\ rec'[goal'[k].s].st # "none"
  BY <1>0, <1>3, <1>4 DEF TakeKeeps, GoalInv, ClaimInv, RecordKeeps, Draining
<1>7. k \in Takeovers /\ kpc'[k] \notin {"idle", "over"} => goal'[k].t = k
  BY <1>0, <1>4 DEF TakeKeeps, GoalInv, Draining
<1>8. goal'[k].t # None => kpc'[goal'[k].t] # "idle"
  <2>1. CASE goal'[k] = goal[k]
    BY <1>0, <1>2, <1>4, <2>1 DEF GoalInv
  <2>2. CASE goal'[k] = [t |-> k, s |-> claim.holder] /\ kpc'[k] = "begin"
    BY <2>2
  <2>3. CASE goal'[k] = [t |-> claim.t, s |-> claim.holder]
    BY <1>0, <1>2, <2>3 DEF ClaimInv
  <2>4. QED
    BY <1>4, <2>1, <2>2, <2>3 DEF TakeKeeps
<1>9. claim'.t # None /\ goal'[k].t = claim'.t => goal'[k].s = claim'.holder
  BY <1>0, <1>1, <1>4 DEF TakeKeeps, ClaimKeeps, GoalInv, ClaimInv
<1>10. k \in Takeovers /\ claim'.t = k /\ kpc'[k] # "over" => claim'.phase = "requested"
  BY <1>0, <1>1, <1>2, <1>4 DEF TakeKeeps, ClaimKeeps, GoalInv, ClaimInv
<1>11. kpc'[k] \in {"keep", "captured", "advance", "destroy"} => box'[goal'[k].s] \notin {"none", "boot"}
  <2>1. kpc'[k] \in {"keep", "captured", "advance", "destroy"} =>
            goal'[k] = goal[k] /\ goal[k].s \in Sessions
    BY <1>4 DEF TakeKeeps, GoalInv, Draining
  <2>2. kpc'[k] \in {"keep", "captured", "advance", "destroy"} => box[goal[k].s] \notin {"none", "boot"}
    BY <1>4, <2>1 DEF TakeKeeps, GoalInv, UrlInv, Present, Draining
  <2>3. QED
    BY <1>3, <2>1, <2>2 DEF BoxKeeps
<1>12. QED
  BY <1>5, <1>6, <1>7, <1>8, <1>9, <1>10, <1>11

\* Only the start of a drain brings a session under one.
LEMMA DrainedNext ==
    ASSUME TypeOK, TypeOK', ClaimInv, GoalInv, HolderInv, StepEffect, NEW s \in Sessions, Drained(s)'
    PROVE  \/ Drained(s)
           \/ /\ Live(s) /\ rec'[s].st = "terminating" /\ rec'[s].stop /\ rec'[s].rcl = rec[s].rcl
              /\ box' = box /\ work' = work
<1> USE DEF ClaimIs, ClaimStaysWith
<1>1. CASE \E k \in Requests : goal'[k].s = s /\ kpc'[k] \in Draining
  <2>1. PICK k \in Requests : goal'[k].s = s /\ kpc'[k] \in Draining
    BY <1>1
  <2>2. TakeKeeps(k) /\ NoGoal.s # s
    BY TakeKept, EditorAssumption DEF NoGoal
  <2>3. CASE /\ kpc[k] = "begin" /\ kpc'[k] = "capture" /\ Stopped(goal[k].s)
             /\ goal'[k] = goal[k] /\ box' = box
    <3>1. work' = work
      BY <2>3 DEF StepEffect, SameTake, SameWork
    <3>2. QED
      BY <2>1, <2>3, <3>1 DEF Stopped
  <2>4. CASE goal'[k] = goal[k] /\ kpc[k] \in Draining
    BY <2>1, <2>4 DEF Drained
  <2>5. CASE claim.phase = "draining" /\ goal'[k] = [t |-> claim.t, s |-> claim.holder]
    BY <2>1, <2>5 DEF Drained
  <2>6. QED
    BY <2>1, <2>2, <2>3, <2>4, <2>5 DEF TakeKeeps, Draining, TakeSteps
<1>2. CASE claim'.phase \in {"draining", "ready"} /\ claim'.holder = s
  <2>1. ClaimKeeps
    BY ClaimKept
  <2>2. CASE claim.phase \in {"draining", "ready"} /\ claim.holder = s
    BY <2>2 DEF Drained
  <2>3. ASSUME NEW k \in Requests, kpc[k] \in {"fail", "finish"}, claim.t = goal[k].t, claim.holder = s
        PROVE  Drained(s)
    <3>1. goal[k].s = s
      BY <2>3 DEF GoalInv
    <3>2. QED
      BY <2>3, <3>1 DEF Drained, Draining, TakeSteps
  <2>4. ASSUME NEW k \in Takeovers, kpc[k] = "fail", claim.t = k PROVE claim.t = goal[k].t
    BY <2>4 DEF GoalInv, Requests
  <2>5. ASSUME NEW x \in fresh, claim.t = None PROVE claim.phase = "none"
    BY <2>5 DEF ClaimInv
  <2>6. QED
    BY <1>2, <2>1, <2>2, <2>3, <2>4 DEF ClaimKeeps, ClaimInv, Requests
<1>3. QED
  BY <1>1, <1>2 DEF Drained

LEMMA DrainedInvKept ==
    ASSUME TypeOK, TypeOK', IInv, StepEffect PROVE DrainedInv'
<1> SUFFICES ASSUME NEW s \in Sessions, Drained(s)'
             PROVE  /\ work'["retire"][s] = "no"
                    /\ Past(s)'
                    /\ box'[s] = "boot" =>
                        Safe(s)' \/ (rec'[s].stop /\ \A k \in Loops : work'[k][s] = "no")
  BY DEF DrainedInv
<1>1. TypeOK /\ SagaInv /\ UrlInv /\ WorkInv /\ ClaimInv /\ GoalInv /\ DrainedInv /\ TornInv /\ HolderInv
  BY DEF IInv
<1>2. RecordKeeps(s) /\ BoxKeeps(s) /\ (Safe(s) => Safe(s)')
  BY <1>1, RecordKept, BoxKept, SafeKept
<1>3. \A k \in Kinds : WorkKeeps(k, s) /\ work[k][s] \in WorkSteps
  BY WorkKept DEF TypeOK
<1>4. CASE /\ Live(s) /\ rec'[s].st = "terminating" /\ rec'[s].stop /\ box' = box /\ work' = work
  <2>1. \A k \in Kinds : work[k][s] \in {"no", "snapowns", "snap"}
    BY <1>1, <1>3, <1>4 DEF WorkInv, Live, Past, Ending, WorkSteps
  <2>2. work'["retire"][s] = "no"
    BY <1>1, <1>4, <2>1, NotRetire DEF WorkInv
  <2>3. ASSUME box'[s] = "boot", ~Safe(s), NEW k \in Loops PROVE work'[k][s] = "no"
    <3>1. ~rec[s].url
      BY <1>1, <1>4, <2>3 DEF UrlInv, CameUp
    <3>2. QED
      BY <1>1, <1>4, <2>1, <2>3, <3>1, NotRetire DEF WorkInv
  <2>4. QED
    BY <1>2, <1>4, <2>2, <2>3 DEF Past
<1>5. CASE Drained(s)
  <2>1. work["retire"][s] = "no" /\ Past(s)
    BY <1>1, <1>5 DEF DrainedInv
  <2>2. Past(s)'
    BY <1>2, <2>1 DEF RecordKeeps, Past
  <2>3. work'["retire"][s] = "no"
    BY <1>3, <2>1, NotRetire DEF WorkKeeps, Live, Past
  <2>4. ASSUME box'[s] = "boot", ~Safe(s) PROVE rec'[s].stop /\ \A k \in Loops : work'[k][s] = "no"
    <3>1. box[s] = "boot"
      BY <1>1, <1>2, <2>1, <2>4 DEF BoxKeeps, SagaInv, NoRecord, Past
    <3>2. rec[s].stop /\ \A k \in Loops : work[k][s] = "no"
      BY <1>1, <1>5, <2>4, <3>1 DEF DrainedInv
    <3>3. ~Torn(s) /\ ~rec[s].url
      BY <1>1, <1>5, <2>4, <3>1 DEF TornInv, UrlInv, CameUp
    <3>4. \A k \in Kinds : work[k][s] = "no"
      BY <2>1, <3>2 DEF Kinds
    <3>5. rec'[s].stop
      <4>1. saga[s].pc # "mark"
        BY <2>4 DEF Safe, Compensating
      <4>2. ~rec[s].rcl /\ \A k \in Requests : goal[k].s = s => kpc[k] # "mark"
        BY <3>3 DEF Torn
      <4>3. QED
        BY <1>2, <3>2, <3>4, <4>1, <4>2 DEF RecordKeeps
    <3>6. ASSUME NEW k \in Loops PROVE work'[k][s] = "no"
      <4>1. WorkKeeps(k, s) /\ work[k][s] = "no" /\ k # "retire"
        BY <1>3, <3>4, NotRetire
      <4>2. ~rec[s].rcl /\ rec[s].st \notin {"running", "expired"}
        BY <1>1, <2>4, <3>3 DEF Torn, UrlInv
      <4>3. QED
        BY <3>1, <3>2, <4>1, <4>2 DEF WorkKeeps
    <3>7. QED
      BY <3>5, <3>6
  <2>5. QED
    BY <1>2, <2>2, <2>3, <2>4
<1>6. QED
  BY <1>1, <1>4, <1>5, DrainedNext

\* A destruction is confirmed by whoever destroyed, and then handed on.
LEMMA TornNext ==
    ASSUME TypeOK, TypeOK', SagaInv, WorkInv, ClaimInv, GoalInv, StepEffect, NEW s \in Sessions, Torn(s)'
    PROVE  \/ Torn(s) \/ Safe(s)'
           \/ \E k \in Kinds : work[k][s] = "destroy" /\ work'[k][s] = "mark" /\ BoxGoes(s)
           \/ /\ rec[s].st \in Terminal \union {"terminating"} /\ box[s] \notin Present
              /\ ~(rec[s].stop /\ (work["retire"][s] # "no" \/ box[s] = "boot"))
<1> USE DEF ClaimIs, ClaimStaysWith
<1>1. CASE rec'[s].rcl \/ rec'[s].st = "reaped"
  <2>1. RecordKeeps(s)
    BY RecordKept
  <2>2. rec[s].rcl \/ rec[s].st = "reaped" \/ box'[s] = "gone"
        \/ (\E k \in Kinds : work[k][s] = "reclaim")
        \/ \E k \in Requests : goal[k].s = s /\ kpc[k] = "reclaim"
    BY <1>1, <2>1 DEF RecordKeeps
  <2>3. QED
    BY <2>2 DEF Torn, Safe
<1>2. CASE \E k \in Kinds : work'[k][s] \in {"mark", "reclaim", "release"}
  <2>1. PICK k \in Kinds : work'[k][s] \in {"mark", "reclaim", "release"}
    BY <1>2
  <2>2. WorkKeeps(k, s)
    BY WorkKept
  <2>3. \/ work[k][s] \in {"mark", "reclaim", "release"} \/ rec[s].rcl
        \/ work[k][s] = "destroy" /\ work'[k][s] = "mark" /\ BoxGoes(s)
        \/ /\ rec[s].st \in Terminal \union {"terminating"} /\ box[s] \notin Present
           /\ ~(rec[s].stop /\ (work["retire"][s] # "no" \/ box[s] = "boot"))
    BY <2>1, <2>2 DEF WorkKeeps
  <2>4. QED
    BY <2>3 DEF Torn
<1>3. CASE \E k \in Requests : goal'[k].s = s /\ kpc'[k] \in {"gone", "reclaim", "final", "mark", "finish"}
  <2>1. PICK k \in Requests : goal'[k].s = s /\ kpc'[k] \in {"gone", "reclaim", "final", "mark", "finish"}
    BY <1>3
  <2>2. TakeKeeps(k)
    BY TakeKept
  <2>3. CASE goal[k].s = s /\ kpc[k] = "destroy" /\ BoxGoes(goal[k].s)
    <3>1. box[s] # "boot"
      BY <2>3 DEF GoalInv
    <3>2. QED
      BY <2>3, <3>1 DEF BoxGoes, Safe
  <2>4. CASE goal[k].s = s /\ kpc[k] \in {"gone", "reclaim", "final", "mark", "finish"}
    BY <2>4 DEF Torn
  <2>5. CASE goal[k].s = s /\ rec[goal[k].s].rcl
    BY <2>5 DEF Torn
  <2>6. QED
    BY <2>1, <2>2, <2>3, <2>4, <2>5 DEF TakeKeeps
<1>4. CASE claim'.phase = "ready" /\ claim'.holder = s
  <2>1. ClaimKeeps
    BY ClaimKept
  <2>2. CASE claim.phase = "ready" /\ claim.holder = s
    BY <2>2 DEF Torn
  <2>3. ASSUME NEW k \in Requests, kpc[k] = "finish", claim.t = goal[k].t, claim.holder = s PROVE Torn(s)
    <3>1. goal[k].s = s
      BY <2>3 DEF GoalInv
    <3>2. QED
      BY <2>3, <3>1 DEF Torn
  <2>4. QED
    BY <1>4, <2>1, <2>2, <2>3 DEF ClaimKeeps, ClaimInv
<1>5. QED
  BY <1>1, <1>2, <1>3, <1>4 DEF Torn

LEMMA TornInvKept ==
    ASSUME TypeOK, TypeOK', IInv, StepEffect PROVE TornInv'
<1> SUFFICES ASSUME NEW s \in Sessions, Torn(s)', ~Safe(s)'
             PROVE  ~Drained(s)' /\ ~rec'[s].url /\ Past(s)'
  BY DEF TornInv
<1>1. TypeOK /\ SagaInv /\ UrlInv /\ WorkInv /\ ClaimInv /\ GoalInv /\ DrainedInv /\ TornInv /\ HolderInv
  BY DEF IInv
<1>2. RecordKeeps(s) /\ ~Safe(s)
  BY <1>1, RecordKept, SafeKept
<1>3. ~Drained(s) /\ ~rec[s].url /\ Past(s)
  <2>1. CASE Torn(s)
    BY <1>1, <1>2, <2>1 DEF TornInv
  <2>2. CASE \E k \in Kinds : work[k][s] = "destroy" /\ work'[k][s] = "mark" /\ BoxGoes(s)
    <3>1. PICK k \in Kinds : work[k][s] = "destroy" /\ BoxGoes(s)
      BY <2>2
    <3>2. box[s] = "boot" /\ Past(s)
      BY <1>1, <3>1 DEF BoxGoes, Safe, WorkInv, Ending
    <3>3. k = "retire" \/ k \in Loops
      BY DEF Kinds
    <3>4. ~Drained(s)
      BY <1>1, <1>2, <3>1, <3>2, <3>3 DEF DrainedInv
    <3>5. QED
      BY <1>1, <3>2, <3>4 DEF UrlInv, CameUp
  <2>3. CASE /\ rec[s].st \in Terminal \union {"terminating"} /\ box[s] \notin Present
             /\ ~(rec[s].stop /\ (work["retire"][s] # "no" \/ box[s] = "boot"))
    <3>1. Past(s) /\ rec[s].st # "none"
      BY <2>3 DEF Past, Terminal
    <3>2. box[s] = "boot"
      BY <1>1, <1>2, <2>3, <3>1 DEF TypeOK, Box, Present, Safe, SagaInv, NoRecord
    <3>3. ~Drained(s)
      BY <1>1, <1>2, <2>3, <3>2 DEF DrainedInv
    <3>4. QED
      BY <1>1, <3>1, <3>2, <3>3 DEF UrlInv, CameUp
  <2>4. QED
    BY <1>1, <2>1, <2>2, <2>3, TornNext
<1>4. ~Drained(s)'
  BY <1>1, <1>3, DrainedNext DEF Past, Live
<1>5. QED
  BY <1>2, <1>3, <1>4 DEF RecordKeeps, Past

LEMMA RetireInvKept ==
    ASSUME TypeOK, TypeOK', IInv, StepEffect PROVE RetireInv'
<1> SUFFICES ASSUME NEW s \in Sessions, work'["retire"][s] \in {"owns", "capture"}, ~Safe(s)'
             PROVE  ~Torn(s)' /\ rec'[s].stop /\ \A k \in Loops : work'[k][s] \in {"no", "snapowns", "snap"}
  BY DEF RetireInv
<1>1. TypeOK /\ SagaInv /\ UrlInv /\ WorkInv /\ ClaimInv /\ GoalInv /\ DrainedInv /\ TornInv /\ RetireInv
  BY DEF IInv
<1>2. RecordKeeps(s) /\ ~Safe(s)
  BY <1>1, RecordKept, SafeKept
<1>3. \A k \in Kinds : WorkKeeps(k, s) /\ work[k][s] \in WorkSteps
  BY WorkKept DEF TypeOK
<1>4. WorkKeeps("retire", s)
  BY <1>3, NotRetire
<1>5. CASE work["retire"][s] \in {"owns", "capture"}
  <2>1. ~Torn(s) /\ rec[s].stop /\ \A k \in Loops : work[k][s] \in {"no", "snapowns", "snap"}
    BY <1>1, <1>2, <1>5 DEF RetireInv
  <2>2. \A k \in Kinds : work[k][s] \in {"no", "snapowns", "snap", "owns", "capture"}
    BY <1>5, <2>1 DEF Kinds
  <2>3. ~Torn(s)'
    BY <1>1, <1>5, <2>1, <2>2, TornNext
  <2>4. rec'[s].stop
    <3>1. saga[s].pc # "mark"
      BY <1>2 DEF Safe, Compensating
    <3>2. ~rec[s].rcl /\ \A k \in Requests : goal[k].s = s => kpc[k] # "mark"
      BY <2>1 DEF Torn
    <3>3. QED
      BY <1>2, <2>1, <2>2, <3>1, <3>2 DEF RecordKeeps
  <2>5. ASSUME NEW k \in Loops PROVE work'[k][s] \in {"no", "snapowns", "snap"}
    <3>1. WorkKeeps(k, s) /\ work[k][s] \in {"no", "snapowns", "snap"} /\ k # "retire"
      BY <1>3, <2>1, NotRetire
    <3>2. ~rec[s].rcl
      BY <2>1 DEF Torn
    <3>3. QED
      BY <1>5, <2>1, <3>1, <3>2 DEF WorkKeeps
  <2>6. QED
    BY <2>3, <2>4, <2>5
<1>6. CASE work["retire"][s] \notin {"owns", "capture"}
  <2>1. /\ Live(s) /\ rec'[s].stop
    BY <1>4, <1>6, NotRetire DEF WorkKeeps
  <2>2. \A k \in Kinds : work[k][s] \in {"no", "snapowns", "snap"}
    BY <1>1, <1>3, <2>1 DEF WorkInv, Live, Past, Ending, WorkSteps
  <2>3. ~Torn(s)
    BY <1>1, <1>2, <2>1 DEF TornInv, Live, Past
  <2>4. ~Torn(s)'
    BY <1>1, <2>1, <2>2, <2>3, TornNext DEF Live, Terminal
  <2>5. ASSUME NEW k \in Loops PROVE work'[k][s] \in {"no", "snapowns", "snap"}
    <3>1. WorkKeeps(k, s) /\ k # "retire" /\ work[k][s] \in {"no", "snapowns", "snap"}
      BY <1>3, <2>2, NotRetire
    <3>2. QED
      BY <2>1, <3>1 DEF WorkKeeps, Live, Terminal
  <2>6. QED
    BY <2>1, <2>4, <2>5
<1>7. QED
  BY <1>5, <1>6

LEMMA ReclaimInvKept ==
    ASSUME TypeOK, TypeOK', SagaInv, ClaimInv, GoalInv, ReclaimInv, StepEffect PROVE ReclaimInv'
<1>1. ASSUME NEW s \in Sessions, rec[s].rcl \/ rec[s].st = "reaped"
      PROVE  rec'[s].rcl \/ rec'[s].st = "reaped"
  BY <1>1, RecordKept DEF RecordKeeps
<1>2. ASSUME NEW k \in Requests, kpc'[k] \in {"final", "mark", "finish"}
      PROVE  rec'[goal'[k].s].rcl \/ rec'[goal'[k].s].st = "reaped"
  <2>1. TakeKeeps(k)
    BY TakeKept
  <2>2. goal'[k] = goal[k] /\ goal[k].s \in Sessions /\ rec[goal[k].s].st # "none"
    BY <1>2, <2>1 DEF TakeKeeps, GoalInv, TypeOK, Goal, Draining
  <2>3. CASE rec[goal[k].s].rcl \/ rec[goal[k].s].st = "reaped"
    BY <1>1, <2>2, <2>3
  <2>4. CASE Reclaimed(goal[k].s) /\ rec[goal[k].s].st # "reaped"
    BY <2>2, <2>4 DEF Reclaimed, Absent
  <2>5. QED
    BY <1>2, <2>1, <2>2, <2>3, <2>4 DEF TakeKeeps, ReclaimInv
<1>3. ASSUME claim'.phase = "ready" PROVE rec'[claim'.holder].rcl \/ rec'[claim'.holder].st = "reaped"
  <2>1. ClaimKeeps
    BY ClaimKept
  <2>2. ASSUME NEW k \in Requests, kpc[k] = "finish", claim.t = goal[k].t
        PROVE  /\ claim.holder \in Sessions
               /\ rec[claim.holder].rcl \/ rec[claim.holder].st = "reaped"
    <3>1. goal[k].s = claim.holder /\ goal[k].s \in Sessions
      BY <2>2 DEF GoalInv, TypeOK, Goal
    <3>2. QED
      BY <2>2, <3>1 DEF ReclaimInv
  <2>3. claim.phase = "ready" => claim.holder \in Sessions
    BY DEF ClaimInv, TypeOK, Claim
  <2>4. claim'.holder = claim.holder
        /\ (claim.phase = "ready" \/ \E k \in Requests : kpc[k] = "finish" /\ claim.t = goal[k].t)
    BY <1>3, <2>1 DEF ClaimKeeps, ClaimIs, ClaimStaysWith, ClaimInv
  <2>5. QED
    BY <1>1, <2>2, <2>3, <2>4 DEF ReclaimInv
<1>4. QED
  BY <1>2, <1>3 DEF ReclaimInv

LEMMA HolderTyped == TypeOK => ClaimHolder \in Sessions \union {None}
  BY DEF TypeOK, Claim, ClaimHolder

\* The claim leaves a session only when its sandbox is known to be destroyed, or its saga has given up.
LEMMA HolderLeaves ==
    ASSUME TypeOK, TypeOK', ClaimInv, HolderInv, StepEffect, NEW s \in Sessions,
           claim.holder = s, claim'.holder # s
    PROVE  Torn(s) \/ Safe(s)
<1>1. ClaimKeeps /\ None \notin Sessions
  BY ClaimKept, EditorAssumption
<1>2. CASE fresh # {} /\ claim.t = None
  <2>1. Dead(s)
    BY <1>1, <1>2 DEF HolderInv, ClaimHolder
  <2>2. QED
    BY <2>1 DEF Dead, Torn, Safe, Compensating
<1>3. CASE claim.phase = "ready" \/ \E k \in Kinds : work[k][s] = "release"
  BY <1>3 DEF Torn
<1>4. CASE saga[s].pc \in Compensating
  BY <1>4 DEF Safe
<1>5. QED
  BY <1>1, <1>2, <1>3, <1>4 DEF ClaimKeeps, ClaimIs, ClaimStaysWith

\* What may still save a session whose sandbox was destroyed finds nothing there.
LEMMA TornSaving == ASSUME IInv, NEW s \in Sessions, Torn(s), Saving(s) PROVE Safe(s)
<1>1. TypeOK /\ WorkInv /\ TornInv /\ RetireInv
  BY DEF IInv
<1> SUFFICES ASSUME ~Safe(s) PROVE FALSE
  OBVIOUS
<1>2. ~Drained(s) /\ ~rec[s].url /\ Past(s)
  BY <1>1 DEF TornInv
<1>3. ASSUME NEW k \in Kinds, work[k][s] \in {"capture", "snap"} PROVE FALSE
  <2>1. k \notin Loops
    BY <1>1, <1>2, <1>3 DEF WorkInv
  <2>2. k = "retire"
    BY <2>1 DEF Kinds
  <2>3. QED
    BY <1>1, <1>3, <2>2 DEF WorkInv, RetireInv
<1>4. ASSUME NEW k \in Requests, goal[k].s = s, kpc[k] \in {"read", "capture"} PROVE FALSE
  BY <1>2, <1>4 DEF Drained, Draining, TakeSteps
<1>5. QED
  BY <1>2, <1>3, <1>4 DEF Saving, Live, Past

LEMMA SavingNext ==
    ASSUME TypeOK, TypeOK', SagaInv, GoalInv, StepEffect, NEW s \in Sessions, Saving(s)'
    PROVE  Saving(s) \/ claim'.holder = s
<1>1. CASE \E k \in Kinds : work'[k][s] \in {"capture", "snap"}
  <2>1. PICK k \in Kinds : work'[k][s] \in {"capture", "snap"}
    BY <1>1
  <2>2. WorkKeeps(k, s)
    BY WorkKept
  <2>3. work[k][s] \in {"capture", "snap"} \/ claim'.holder = s
    BY <2>1, <2>2 DEF WorkKeeps
  <2>4. QED
    BY <2>3 DEF Saving
<1>2. CASE \E k \in Requests : goal'[k].s = s /\ kpc'[k] \in {"read", "capture"}
  <2>1. PICK k \in Requests : goal'[k].s = s /\ kpc'[k] \in {"read", "capture"}
    BY <1>2
  <2>2. TakeKeeps(k)
    BY TakeKept
  <2>3. \/ goal[k].s = s /\ kpc[k] \in {"read", "capture"}
        \/ goal[k].s = s /\ kpc[k] = "begin" /\ Live(s)
        \/ claim'.holder = s
    BY <2>1, <2>2 DEF TakeKeeps, Stopped, ClaimStaysWith, ClaimIs
  <2>4. QED
    BY <2>1, <2>3 DEF Saving
<1>3. CASE Live(s)' /\ \E k \in Requests : goal'[k].s = s /\ kpc'[k] = "begin"
  <2>1. PICK k \in Requests : goal'[k].s = s /\ kpc'[k] = "begin"
    BY <1>3
  <2>2. TakeKeeps(k) /\ RecordKeeps(s)
    BY TakeKept, RecordKept
  <2>3. (goal[k].s = s /\ kpc[k] = "begin") \/ claim'.holder = s
    BY <2>1, <2>2 DEF TakeKeeps, ClaimStaysWith, ClaimIs
  <2>4. goal[k].s = s /\ kpc[k] = "begin" => Live(s)
    BY <1>3, <2>2 DEF RecordKeeps, Live, GoalInv
  <2>5. QED
    BY <2>3, <2>4 DEF Saving
<1>4. QED
  BY <1>1, <1>2, <1>3 DEF Saving

LEMMA SaveInvKept == ASSUME TypeOK, TypeOK', IInv, StepEffect PROVE SaveInv'
<1> SUFFICES ASSUME NEW s \in Sessions, Saving(s)', ~Safe(s)' PROVE claim'.holder = s
  BY DEF SaveInv
<1>1. TypeOK /\ SagaInv /\ WorkInv /\ ClaimInv /\ GoalInv /\ SaveInv /\ HolderInv
  BY DEF IInv
<1>2. ~Safe(s)
  BY <1>1, SafeKept
<1>3. ASSUME Saving(s) PROVE claim'.holder = s
  <2>1. claim.holder = s /\ ~Torn(s)
    BY <1>1, <1>2, <1>3, TornSaving DEF SaveInv
  <2>2. QED
    BY <1>1, <1>2, <2>1, HolderLeaves
<1>4. QED
  BY <1>1, <1>3, SavingNext

\* Whoever finishes its saga has the claim.
LEMMA DoneNext ==
    ASSUME TypeOK, TypeOK', HolderInv, StepEffect, NEW s \in Sessions, saga'[s].pc = "done"
    PROVE  saga[s].pc = "done" \/ claim'.holder = s \/ (claim'.phase = "ready" /\ claim'.repl = s)
<1>1. CASE saga'[s] = saga[s]
  BY <1>1
<1>2. ASSUME SagaEffect(s)
      PROVE  saga[s].pc = "done" \/ claim'.holder = s \/ (claim'.phase = "ready" /\ claim'.repl = s)
  <2>0. claim \in Claim
    BY DEF TypeOK
  <2>1. CASE ClaimGranted(s) /\ SameClaim
    BY <2>1 DEF ClaimGranted, TransferBars, ClaimHolder, SameClaim
  <2>2. CASE s \in fresh /\ NewClaim(Claimed(s))
    <3>1. claim.t # None => claim.phase = "ready"
      BY <2>2 DEF HolderInv, TransferBars
    <3>2. QED
      BY <2>0, <2>2, <3>1 DEF NewClaim, Claimed, Claim
  <2>3. CASE NewClaim([NoClaim EXCEPT !.holder = s])
    BY <2>3 DEF NewClaim, NoClaim
  <2>4. QED
    BY <1>2, <2>1, <2>2, <2>3 DEF SagaEffect, SagaTo, Compensating
<1>3. ASSUME NEW x \in Sessions, x # s, SagaEffect(x) PROVE saga'[s] = saga[s]
  BY <1>3 DEF SagaEffect, SagaTo
<1>4. QED
  BY <1>1, <1>2, <1>3 DEF StepEffect, SameSaga

\* A saga finds the claim free to take only when the session that has it is dead, and it stays dead.
LEMMA StaleIsDead ==
    ASSUME TypeOK, SagaInv, ClaimInv, NEW s \in Sessions, ClaimStale(s), ClaimHolder # None
    PROVE  Dead(ClaimHolder)
<1> DEFINE h == ClaimHolder
<1>1. h \in Sessions /\ rec[h].st \in Status /\ rec[h].st # "none"
  <2>1. h \in Sessions
    BY HolderTyped
  <2>2. rec[h].st # "none"
    BY DEF ClaimHolder, ClaimInv
  <2>3. QED
    BY <2>1, <2>2 DEF TypeOK, Record
<1>2. ~LiveEditorHolder(h)
  BY DEF ClaimStale
<1> HIDE DEF h
<1>3. h # None
  BY <1>1, EditorAssumption
<1>4. QED
  BY <1>1, <1>2, <1>3 DEF LiveEditorHolder, IsReusableSession, Dead, Past, Status, Absent, Terminal, h

LEMMA DeadKept ==
    ASSUME TypeOK, TypeOK', SagaInv, GoalInv, StepEffect, NEW s \in Sessions, Dead(s), rec[s].st # "none"
    PROVE  Dead(s)'
<1>1. RecordKeeps(s) /\ stale \subseteq stale'
  BY RecordKept, StaleKept
<1>2. QED
  BY <1>1 DEF RecordKeeps, Past, Dead

LEMMA FreshNext ==
    ASSUME StepEffect
    PROVE  \/ fresh' = {}
           \/ claim' = claim /\ fresh' = fresh
           \/ /\ claim' = claim /\ rec' = rec
              /\ \E s \in Sessions : ClaimStale(s) /\ fresh' = fresh \union {s}
<1> USE DEF SameClaim, NewClaim, Releases, CancelClaim
<1>1. ASSUME NEW s \in Sessions, SagaEffect(s)
      PROVE  \/ fresh' = {} \/ SameClaim
             \/ claim' = claim /\ rec' = rec /\ ClaimStale(s) /\ fresh' = fresh \union {s}
  BY <1>1 DEF SagaEffect, SameRec
<1>2. ASSUME NEW s \in Sessions, OutsideEffect(s) PROVE fresh' = {} \/ SameClaim
  BY <1>2 DEF OutsideEffect
<1>3. ASSUME NEW s \in Sessions, NEW k \in Kinds, WorkEffect(k, s) PROVE fresh' = {} \/ SameClaim
  BY <1>3 DEF WorkEffect
<1>4. ASSUME NEW k \in Requests, TakeEffect(k) PROVE fresh' = {} \/ SameClaim
  BY <1>4 DEF TakeEffect
<1>5. QED
  BY <1>1, <1>2, <1>3, <1>4 DEF StepEffect

LEMMA HolderInvKept == ASSUME TypeOK, TypeOK', IInv, StepEffect PROVE HolderInv'
<1>1. TypeOK /\ SagaInv /\ WorkInv /\ ClaimInv /\ GoalInv /\ DrainedInv /\ HolderInv
  BY DEF IInv
<1>2. ASSUME NEW s \in Sessions, Editing(s)'
      PROVE  claim'.holder = s \/ (claim'.phase = "ready" /\ claim'.repl = s)
  <2>1. RecordKeeps(s) /\ SagaKeeps(s) /\ ClaimKeeps
    BY <1>1, RecordKept, SagaKept, ClaimKept
  <2>2. CASE saga[s].pc = "done"
    <3>1. Editing(s) /\ rec[s].st = "running" /\ s \notin stale
      BY <1>2, <2>1, <2>2, StaleKept DEF Editing, Timely, RecordKeeps
    <3>2. ~Dead(s) /\ ~Past(s) /\ ~Drained(s) /\ saga[s].pc \notin Compensating
          /\ (\A k \in Kinds : work[k][s] # "release")
      BY <1>1, <2>2, <3>1 DEF Dead, Past, DrainedInv, Compensating, WorkInv, Ending
    <3>3. CASE claim.holder = s
      <4>1. /\ claim.phase \notin {"draining", "ready"}
            /\ claim.t = None => fresh = {}
        BY <1>1, <3>2, <3>3, EditorAssumption DEF Drained, HolderInv, ClaimHolder
      <4>2. QED
        BY <2>1, <3>2, <3>3, <4>1, EditorAssumption DEF ClaimKeeps, ClaimIs, ClaimStaysWith
    <3>4. CASE claim.phase = "ready" /\ claim.repl = s
      <4>1. claim.t # None /\ fresh = {}
        BY <1>1, <3>2, <3>4, EditorAssumption DEF ClaimInv, HolderInv, ClaimHolder
      <4>2. ASSUME NEW k \in Takeovers, kpc[k] = "fail" PROVE claim.t # k
        BY <1>1, <3>4, <4>2 DEF GoalInv, Requests
      <4>3. QED
        BY <2>1, <3>4, <4>1, <4>2 DEF ClaimKeeps, ClaimIs, ClaimStaysWith
    <3>5. QED
      BY <1>1, <3>1, <3>3, <3>4 DEF HolderInv
  <2>3. CASE saga[s].pc # "done"
    BY <1>1, <1>2, <2>3, DoneNext DEF Editing, Timely
  <2>4. QED
    BY <2>2, <2>3
<1>3. ASSUME fresh' # {} PROVE claim' = claim
  BY <1>3, FreshNext
<1>4. ASSUME fresh' # {}, ClaimHolder' # None PROVE Dead(ClaimHolder)'
  <2>1. claim' = claim /\ ClaimHolder' = ClaimHolder
    BY <1>3, <1>4 DEF ClaimHolder
  <2>2. ClaimHolder \in Sessions /\ rec[ClaimHolder].st # "none"
    <3>1. ClaimHolder \in Sessions
      BY <1>1, <1>4, <2>1, HolderTyped
    <3>2. QED
      BY <1>1, <1>4, <2>1, <3>1 DEF ClaimHolder, ClaimInv
  <2>3. Dead(ClaimHolder)
    BY <1>1, <1>4, <2>1, FreshNext, StaleIsDead DEF HolderInv
  <2>4. PICK h \in Sessions : h = ClaimHolder
    BY <2>2
  <2>5. Dead(h) /\ rec[h].st # "none" /\ ClaimHolder' = h
    BY <2>1, <2>2, <2>3, <2>4
  <2>6. Dead(h)'
    BY <1>1, <2>5, DeadKept
  <2>7. QED
    BY <2>5, <2>6 DEF Dead
<1>5. ASSUME NEW s \in fresh' PROVE ~TransferBars(s)'
  <2>1. claim' = claim
    BY <1>3, <1>5
  <2>2. ~TransferBars(s)
    BY <1>1, <1>5, FreshNext DEF HolderInv, ClaimStale
  <2>3. QED
    BY <2>1, <2>2 DEF TransferBars
<1>6. QED
  BY <1>2, <1>4, <1>5 DEF HolderInv

-----------------------------------------------------------------------------
(* The theorems.                                                           *)

LEMMA InitInv == ASSUME Init PROVE IInv
<1>1. /\ TypeOK /\ claim = NoClaim /\ fresh = {} /\ stale = {}
      /\ \A s \in Sessions : rec[s] = NoRecord /\ box[s] = "none" /\ saga[s].pc = "idle"
      /\ \A k \in Kinds, s \in Sessions : work[k][s] = "no"
      /\ \A k \in Requests : kpc[k] = "idle" /\ goal[k] = NoGoal
  BY InitTyped DEF Init, NoSaga
<1>2. /\ NoRecord.st = "none" /\ ~NoRecord.url /\ ~NoRecord.cap /\ ~NoRecord.rcl
      /\ NoClaim.holder = None /\ NoClaim.t = None /\ NoClaim.phase = "none" /\ NoClaim.repl = None
      /\ NoGoal.t = None /\ NoGoal.s = None
  BY DEF NoRecord, NoClaim, NoGoal
<1>3. SagaInv /\ UrlInv /\ WorkInv
  BY <1>1, <1>2, NotRetire DEF SagaInv, UrlInv, WorkInv, Ending
<1>4. ClaimInv /\ GoalInv
  BY <1>1, <1>2, EditorAssumption DEF ClaimInv, GoalInv
<1>5. \A s \in Sessions : ~Drained(s) /\ ~Torn(s) /\ ~Saving(s) /\ ~Editing(s)
  BY <1>1, <1>2 DEF Drained, Torn, Saving, Editing, Timely, Draining
<1>6. DrainedInv /\ TornInv /\ ReclaimInv /\ RetireInv /\ SaveInv /\ HolderInv
  BY <1>1, <1>2, <1>5, NotRetire DEF DrainedInv, TornInv, ReclaimInv, RetireInv, SaveInv, HolderInv
<1>7. QED
  BY <1>1, <1>3, <1>4, <1>6 DEF IInv

LEMMA InvKept == ASSUME IInv, [Next]_vars PROVE IInv'
<1>1. TypeOK /\ SagaInv /\ UrlInv /\ WorkInv /\ ClaimInv /\ GoalInv /\ ReclaimInv /\ HolderInv
  BY DEF IInv
<1>2. TypeOK'
  BY <1>1, NextTyped
<1>3. StepEffect
  BY <1>1, NextEffect
<1>4. SagaInv' /\ UrlInv' /\ WorkInv' /\ ClaimInv' /\ GoalInv' /\ ReclaimInv'
  BY <1>1, <1>2, <1>3, SagaInvKept, UrlInvKept, WorkInvKept, ClaimInvKept, GoalInvKept,
     ReclaimInvKept
<1>5. DrainedInv' /\ TornInv' /\ RetireInv' /\ SaveInv' /\ HolderInv'
  BY <1>1, <1>2, <1>3, DrainedInvKept, TornInvKept, RetireInvKept, SaveInvKept, HolderInvKept
<1>6. QED
  BY <1>2, <1>4, <1>5 DEF IInv

LEMMA Invariance == Spec => []IInv
<1>1. Init => IInv
  BY InitInv
<1>2. IInv /\ [Next]_vars => IInv'
  BY InvKept
<1>3. QED
  BY <1>1, <1>2, PTL DEF Spec

\* No two sessions that were handed over as the editor of the notebook within HEARTBEAT_TTL_MS run
\* at once, whatever the number of sessions, takeovers, retries and faults, and however long other
\* sessions take to start: whoever runs holds the claim, or waits to complete a takeover whose
\* displaced holder has ended.
THEOREM OneTimelyEditorHolds == Spec => []OneTimelyEditor
<1>1. IInv => OneTimelyEditor
  <2> SUFFICES ASSUME IInv, NEW s \in Sessions, NEW x \in Sessions, Editing(s), Editing(x) PROVE s = x
    BY DEF OneTimelyEditor, Editing
  <2>1. ~Drained(s) /\ ~Drained(x)
    BY DEF IInv, DrainedInv, Editing, Past
  <2>2. /\ claim.holder = s \/ (claim.phase = "ready" /\ claim.repl = s)
        /\ claim.holder = x \/ (claim.phase = "ready" /\ claim.repl = x)
    BY DEF IInv, HolderInv
  <2>3. QED
    BY <2>1, <2>2 DEF Drained
<1>2. QED
  BY <1>1, Invariance, PTL

\* A session that was handed over within HEARTBEAT_TTL_MS replaces the stored notebook only while it
\* holds the claim: the claim moves on only when the sandbox that might save is gone.
THEOREM FencedSavesHolds == Spec => FencedSaves
<1>1. IInv /\ [Next]_vars => [head' # head /\ Timely(head') => claim.holder = head']_vars
  <2> SUFFICES ASSUME IInv, Next, head' # head, Timely(head') PROVE claim.holder = head'
    OBVIOUS
  <2>1. \E s \in Sessions : Capture(s) /\ Saving(s)
    <3>1. ASSUME NEW s \in Sessions, NEW k \in Kinds, WorkStep(k, s) PROVE Capture(s) /\ Saving(s)
      BY <3>1 DEF WorkStep, Owns, Save, Destroy, Finish, Doing, Saving
    <3>2. ASSUME NEW k \in Requests, DrainStep(k)
          PROVE  Capture(goal[k].s) /\ Saving(goal[k].s) /\ goal[k].s \in Sessions
      <4>1. Capture(goal[k].s) /\ kpc[k] = "capture"
        BY <3>2 DEF DrainStep, DrainCapture, DrainMarkCaptured, DrainDestroy, DrainMarkReclaimed,
           DrainMarkTerminated, FinishDrain, FailDrain, Target, In
      <4>2. goal[k].s \in Sessions
        BY <4>1 DEF IInv, TypeOK, Goal, GoalInv
      <4>3. QED
        BY <4>1, <4>2 DEF Saving
    <3>3. ASSUME NEW s \in Sessions,
                 \/ Preflight(s) \/ SagaStep(s) \/ AdmissionFails(s) \/ SagaCrashes(s)
                 \/ GoStale(s) \/ ExpireStale(s) \/ ReapTerminated(s) \/ BootDone(s) \/ BoxDies(s)
                 \/ KernelUse(s) \/ AdoptEditor(s) \/ Stop(s) \/ Snapshot(s) \/ MarkDead(s) \/ ReapOrphan(s)
                 \/ (\E k \in Loops, past \in BOOLEAN : Reclaim(k, s, past)) \/ \E k \in Kinds : WorkCrashes(k, s)
          PROVE  FALSE
      BY <3>3 DEF Preflight, SagaStep, AdmissionFails, SagaCrashes, CreateRecord, Admission, ClaimRead,
         ClaimPut, Provision, SetRunning, Recheck, CompleteTakeover, Compensate, Release, Cleanup,
         MarkEnded, GoStale, ExpireStale, ReapTerminated, BootDone, BoxDies, KernelUse, AdoptEditor, Stop, Snapshot,
         MarkDead, ReapOrphan, Reclaim, WorkCrashes
    <3>4. ASSUME NEW k \in Requests,
                 \/ ReserveTakeover(k) \/ TakeoverRefused(k) \/ BeginDrain(k) \/ AcquireDrainLease(k)
                 \/ ReadDrain(k) \/ AssertLease(k) \/ TakeoverCrashes(k)
          PROVE  FALSE
      BY <3>4 DEF ReserveTakeover, TakeoverRefused, BeginDrain, AcquireDrainLease, ReadDrain, AssertLease,
         TakeoverCrashes
    <3>5. ~CancelRequested /\ ~DrainLeaseLapses /\ ~ListActive
      BY DEF CancelRequested, DrainLeaseLapses, ListActive
    <3>6. QED
      BY <3>1, <3>2, <3>3, <3>4, <3>5 DEF Next, Requests
  <2>2. PICK s \in Sessions : Capture(s) /\ Saving(s)
    BY <2>1
  <2>3. head' = s /\ ~Safe(s)
    BY <2>2 DEF Capture, Present, Safe, Compensating, Timely
  <2>4. QED
    BY <2>2, <2>3 DEF IInv, SaveInv
<1>2. QED
  BY <1>1, Invariance, PTL DEF Spec, FencedSaves

\* A takeover hands the claim over only after the displaced session: its record says that its sandbox
\* was reclaimed, and no sandbox is left that its user was given within HEARTBEAT_TTL_MS, for any
\* number of takeovers and retries of their drains.
THEOREM DisplacedGoneHolds == Spec => DisplacedGone
<1>1. IInv /\ [Next]_vars =>
        [\A s \in Sessions : CompleteTakeover(s) /\ saga'[s].pc = "done" =>
          /\ rec[claim.holder].st \in Absent \/ rec[claim.holder].rcl
          /\ Timely(claim.holder) => box[claim.holder] = "gone"]_vars
  <2> SUFFICES ASSUME IInv, NEW s \in Sessions, CompleteTakeover(s), saga'[s].pc = "done"
               PROVE  /\ rec[claim.holder].st \in Absent \/ rec[claim.holder].rcl
                      /\ Timely(claim.holder) => box[claim.holder] = "gone"
    OBVIOUS
  <2>1. claim.phase = "ready"
    <3>1. ASSUME Goes(s, "destroy") PROVE FALSE
      BY <3>1, GoesTo DEF IInv, SagaTo, SagaSteps
    <3>2. QED
      BY <3>1 DEF CompleteTakeover
  <2>2. claim.holder \in Sessions
    BY <2>1 DEF IInv, ClaimInv, TypeOK, Claim
  <2>3. Torn(claim.holder) /\ Drained(claim.holder)
    BY <2>1 DEF Torn, Drained
  <2>4. Safe(claim.holder)
    BY <2>2, <2>3 DEF IInv, TornInv
  <2>5. QED
    BY <2>1, <2>4 DEF IInv, ReclaimInv, Safe, Compensating, Absent, Timely
<1>2. QED
  BY <1>1, Invariance, PTL DEF Spec, DisplacedGone

=============================================================================
