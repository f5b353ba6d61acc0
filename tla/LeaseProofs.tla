---------------------------- MODULE LeaseProofs ----------------------------
(***************************************************************************)
(* Proofs about Lease, for any set of replicas and any deadline: its types,*)
(* that at most one attempt is entitled to sweep, that a step of a sweep   *)
(* starts under a live lease, and that an orderly end frees the lease.     *)
(*                                                                         *)
(* OneWorker is not inductive. The strengthening IInv relates what each    *)
(* replica believes to the stored record, and says of each ETag that may   *)
(* still match whose record it is.                                         *)
(***************************************************************************)
EXTENDS Lease, TLAPS

\* The deadline of a running attempt that is not aborted is still ahead.
DeadlineAhead == \A r \in Replicas : phase[r] # "idle" /\ ~aborted[r] => left[r] > 0

\* The record of an attempt at work is live, and expires at its deadline.
WorkUnderLease ==
    \A r \in Replicas :
        MayWork(r) => lock.exists /\ lock.holder = r /\ lock.ttl = left[r]

\* While it acquires, an attempt has written nothing; what it may replace has expired.
AcquiringInv ==
    \A r \in Replicas :
        /\ Acquiring(r) => lock.holder # r
        /\ phase[r] = "steal" /\ match[r] => lock.ttl = 0

\* What a release may expire is the record of the releasing attempt.
ReleasingInv == \A r \in Replicas : phase[r] = "relput" => (match[r] <=> lock.holder = r)

\* What a late release may expire belongs to no attempt that goes on.
LateInv ==
    \A r \in Replicas :
        late[r] => lock.holder = Ghost \/ (lock.holder = r /\ phase[r] = "idle")

IInv ==
    /\ TypeOK /\ DeadlineAhead /\ WorkUnderLease
    /\ AcquiringInv /\ ReleasingInv /\ LateInv

-----------------------------------------------------------------------------
LEMMA InitIInv == Init => IInv
  BY LeaseAssumption DEF Init, IInv, TypeOK, DeadlineAhead, WorkUnderLease, AcquiringInv,
     ReleasingInv, LateInv, Acquiring, MayWork, NoLock, Phases

LEMMA NextType == TypeOK /\ [Next]_vars => TypeOK'
<1> SUFFICES ASSUME TypeOK, [Next]_vars PROVE TypeOK'
  OBVIOUS
<1> USE LeaseAssumption DEF TypeOK, Phases, Goto, Fault, NoFault
<1>1. CASE \E r \in Replicas : Begin(r)
  BY <1>1 DEF Begin
<1>2. CASE \E r \in Replicas : TryCreate(r)
  <2> PICK r \in Replicas : TryCreate(r)
    BY <1>2
  <2>1. CASE WriteLock(Taken(r)) /\ Acquired(r)
    BY <2>1 DEF TryCreate, WriteLock, Acquired, Taken
  <2>2. CASE KeepLock
    BY <2>2 DEF TryCreate, WriteLock, KeepLock, Acquired
  <2> QED
    BY <2>1, <2>2 DEF TryCreate
<1>3. CASE \E r \in Replicas : ReadLock(r)
  <2> PICK r \in Replicas : ReadLock(r)
    BY <1>3
  <2>1. CASE BackOff(r)
    BY <2>1 DEF ReadLock, BackOff
  <2>2. CASE Remember(r, "steal")
    BY <2>2 DEF ReadLock, Remember
  <2>3. CASE ReadFails(r)
    BY <2>3 DEF ReadLock, ReadFails
  <2> QED
    BY <2>1, <2>2, <2>3 DEF ReadLock
<1>4. CASE \E r \in Replicas : Steal(r)
  <2> PICK r \in Replicas : Steal(r)
    BY <1>4
  <2>1. CASE WriteLock(Taken(r)) /\ Acquired(r)
    BY <2>1 DEF Steal, WriteLock, Acquired, Taken
  <2>2. CASE KeepLock
    BY <2>2 DEF Steal, WriteLock, KeepLock, Acquired
  <2> QED
    BY <2>1, <2>2 DEF Steal
<1>5. CASE \E r \in Replicas : StartStep(r)
  BY <1>5 DEF StartStep, KeepLock
<1>6. CASE \E r \in Replicas : EndStep(r)
  BY <1>6 DEF EndStep, KeepLock
<1>7. CASE \E r \in Replicas : EndSweep(r)
  BY <1>7 DEF EndSweep, KeepLock
<1>8. CASE \E r \in Replicas : ReleaseRead(r)
  <2> PICK r \in Replicas : ReleaseRead(r)
    BY <1>8
  <2>1. CASE BackOff(r)
    BY <2>1 DEF ReleaseRead, BackOff
  <2>2. CASE Remember(r, "relput")
    BY <2>2 DEF ReleaseRead, Remember
  <2>3. CASE ReadFails(r)
    BY <2>3 DEF ReleaseRead, ReadFails
  <2> QED
    BY <2>1, <2>2, <2>3 DEF ReleaseRead
<1>9. CASE \E r \in Replicas : ReleasePut(r)
  <2> PICK r \in Replicas : ReleasePut(r)
    BY <1>9
  <2>1. CASE WriteLock(Expired) /\ NoFault
    BY <2>1 DEF ReleasePut, WriteLock, Expired
  <2>2. CASE KeepLock /\ NoFault
    BY <2>2 DEF ReleasePut, KeepLock
  <2>3. CASE KeepLock /\ Fault
    BY <2>3 DEF ReleasePut, KeepLock
  <2> QED
    BY <2>1, <2>2, <2>3 DEF ReleasePut
<1>10. CASE \E r \in Replicas : ReleaseAbandon(r)
  BY <1>10 DEF ReleaseAbandon
<1>11. CASE \E r \in Replicas : Restart(r)
  BY <1>11 DEF Restart
<1>12. CASE \E r \in Replicas : LateRelease(r)
  BY <1>12 DEF LateRelease, WriteLock, Expired
<1>13. CASE \E r \in Replicas : Stop(r)
  BY <1>13 DEF Stop
<1>14. CASE \E r \in Replicas : Crash(r)
  BY <1>14 DEF Crash
<1>15. CASE Tick
  BY <1>15 DEF Tick, Before
<1>16. CASE UNCHANGED vars
  BY <1>16 DEF vars
<1> QED
  BY <1>1, <1>2, <1>3, <1>4, <1>5, <1>6, <1>7, <1>8, <1>9, <1>10, <1>11, <1>12, <1>13, <1>14, <1>15, <1>16 DEF Next, Step

(***************************************************************************)
(* Every step preserves the strengthening.                                 *)
(***************************************************************************)
LEMMA NextIInv == IInv /\ [Next]_vars => IInv'
<1> SUFFICES ASSUME IInv, [Next]_vars PROVE IInv'
  OBVIOUS
<1>0. TypeOK'
  BY NextType DEF IInv
<1> USE LeaseAssumption DEF Phases, Acquiring, MayWork, IInv, TypeOK,
      DeadlineAhead, WorkUnderLease, AcquiringInv, ReleasingInv, LateInv
<1>1. ASSUME NEW r \in Replicas, Begin(r)
      PROVE  IInv'
  BY <1>0, <1>1 DEF Begin, Goto
<1>2. ASSUME NEW r \in Replicas, TryCreate(r)
      PROVE  IInv'
  BY <1>0, <1>2 DEF TryCreate, Goto, WriteLock, KeepLock, Acquired, Taken
<1>3. ASSUME NEW r \in Replicas, ReadLock(r)
      PROVE  IInv'
  BY <1>0, <1>3 DEF ReadLock, Goto, BackOff, Remember, ReadFails
<1>4. ASSUME NEW r \in Replicas, Steal(r)
      PROVE  IInv'
  BY <1>0, <1>4 DEF Steal, Goto, WriteLock, KeepLock, Acquired, Taken
<1>5. ASSUME NEW r \in Replicas, StartStep(r)
      PROVE  IInv'
  BY <1>0, <1>5 DEF StartStep, Goto, KeepLock
<1>6. ASSUME NEW r \in Replicas, EndStep(r)
      PROVE  IInv'
  BY <1>0, <1>6 DEF EndStep, Goto, KeepLock
<1>7. ASSUME NEW r \in Replicas, EndSweep(r)
      PROVE  IInv'
  BY <1>0, <1>7 DEF EndSweep, Goto, KeepLock
<1>8. ASSUME NEW r \in Replicas, ReleaseRead(r)
      PROVE  IInv'
  BY <1>0, <1>8 DEF ReleaseRead, Goto, BackOff, Remember, ReadFails
<1>9. ASSUME NEW r \in Replicas, ReleasePut(r)
      PROVE  IInv'
  BY <1>0, <1>9 DEF ReleasePut, Goto, WriteLock, KeepLock, Expired
<1>10. ASSUME NEW r \in Replicas, ReleaseAbandon(r)
      PROVE  IInv'
  BY <1>0, <1>10 DEF ReleaseAbandon, Goto
<1>11. ASSUME NEW r \in Replicas, Restart(r)
      PROVE  IInv'
  BY <1>0, <1>11 DEF Restart
<1>12. ASSUME NEW r \in Replicas, LateRelease(r)
      PROVE  IInv'
  BY <1>0, <1>12 DEF LateRelease, WriteLock, Expired
<1>13. ASSUME NEW r \in Replicas, Stop(r)
      PROVE  IInv'
  BY <1>0, <1>13 DEF Stop
<1>14. ASSUME NEW r \in Replicas, Crash(r)
      PROVE  IInv'
  BY <1>0, <1>14 DEF Crash, Goto
<1>15. CASE Tick
  <2>1. \A r \in Replicas :
          aborted'[r] <=> aborted[r] \/ (phase[r] # "idle" /\ left[r] <= 1)
    BY <1>15 DEF Tick
  <2>2. \A r \in Replicas : left'[r] = Before(left[r])
    BY <1>15 DEF Tick
  <2>3. /\ lock'.exists = lock.exists /\ lock'.holder = lock.holder
        /\ lock'.ttl = Before(lock.ttl)
        /\ UNCHANGED <<phase, match, late>>
    BY <1>15 DEF Tick
  <2>4. DeadlineAhead'
    BY <2>1, <2>2, <2>3 DEF Before
  <2>5. WorkUnderLease'
    BY <2>1, <2>2, <2>3 DEF Before
  <2>6. AcquiringInv' /\ ReleasingInv' /\ LateInv'
    BY <2>3 DEF Before
  <2> QED
    BY <1>0, <2>4, <2>5, <2>6
<1>16. CASE UNCHANGED vars
  BY <1>0, <1>16 DEF vars
<1> QED
  BY <1>1, <1>2, <1>3, <1>4, <1>5, <1>6, <1>7, <1>8, <1>9, <1>10, <1>11, <1>12,
     <1>13, <1>14, <1>15, <1>16 DEF Next, Step

-----------------------------------------------------------------------------
(***************************************************************************)
(* Every variable keeps its type, for any set of replicas.                 *)
(***************************************************************************)
THEOREM TypeCorrect == Spec => []TypeOK
<1>1. Init => TypeOK
  BY InitIInv DEF IInv
<1> QED
  BY <1>1, NextType, PTL DEF Spec

LEMMA Invariance == Spec => []IInv
  BY InitIInv, NextIInv, PTL DEF Spec

(***************************************************************************)
(* Two attempts are never both entitled to sweep (MaintenanceLock.acquire):*)
(* the record names only one of them.                                      *)
(***************************************************************************)
THEOREM OneWorkerHolds == Spec => []OneWorker
<1>1. IInv => OneWorker
  BY DEF IInv, WorkUnderLease, OneWorker
<1> QED
  BY <1>1, Invariance, PTL

(***************************************************************************)
(* A step of a sweep starts only under a live lease of the attempt that    *)
(* takes it (LoopContext.step).                                            *)
(***************************************************************************)
THEOREM StepsStartUnderLeaseHolds == Spec => StepsStartUnderLease
<1>1. ASSUME IInv, [Next]_vars, NEW r \in Replicas, phase[r] = "ready", phase'[r] = "step"
      PROVE  lock.holder = r /\ lock.ttl > 0
  <2>1. ~aborted[r]
    BY <1>1
    DEF IInv, TypeOK, vars, Next, Step, Begin, TryCreate, ReadLock, Steal, StartStep, EndStep,
        EndSweep, ReleaseRead, ReleasePut, ReleaseAbandon, Restart, LateRelease, Stop, Crash,
        Tick, Goto, Acquired, BackOff, Remember, ReadFails
  <2> QED
    BY <1>1, <2>1 DEF IInv, WorkUnderLease, DeadlineAhead, MayWork
<1>2. IInv /\ [Next]_vars
        => [\A r \in Replicas :
             phase[r] = "ready" /\ phase'[r] = "step" => lock.holder = r /\ lock.ttl > 0]_vars
  BY <1>1
<1> QED
  BY <1>2, Invariance, PTL DEF Spec, StepsStartUnderLease

(***************************************************************************)
(* An attempt that ends before its deadline, without a failed request,     *)
(* leaves no live lease behind, stopped or not (the finally block of       *)
(* BackgroundLoops and MaintenanceLock.release).                           *)
(***************************************************************************)
THEOREM OrderlyEndFreesLeaseHolds == Spec => OrderlyEndFreesLease
<1> DEFINE Orderly(r) == /\ phase[r] # "idle" /\ phase'[r] = "idle"
                         /\ ~aborted[r] /\ faults' = faults
<1>1. ASSUME IInv, [Next]_vars, NEW r \in Replicas, Orderly(r)
      PROVE  ~(lock'.holder = r /\ lock'.ttl > 0)
  <2> USE DEF IInv, TypeOK, Goto, Acquired, Fault, NoFault
  <2>1. \/ TryCreate(r) \/ ReadLock(r) \/ Steal(r) \/ ReleaseRead(r) \/ ReleasePut(r)
    BY <1>1
    DEF vars, Next, Step, Begin, TryCreate, ReadLock, Steal, StartStep, EndStep,
        EndSweep, ReleaseRead, ReleasePut, ReleaseAbandon, Restart, LateRelease, Stop, Crash,
        Tick, BackOff, Remember, ReadFails
  <2>2. ~TryCreate(r)
    BY <1>1 DEF TryCreate
  <2>3. CASE ReadLock(r)
    BY <1>1, <2>3 DEF ReadLock, BackOff, Remember, ReadFails, AcquiringInv, Acquiring
  <2>4. CASE Steal(r)
    BY <1>1, <2>4 DEF Steal, KeepLock, AcquiringInv, Acquiring
  <2>5. CASE ReleaseRead(r)
    BY <1>1, <2>5 DEF ReleaseRead, BackOff, Remember, ReadFails
  <2>6. CASE ReleasePut(r)
    BY <1>1, <2>6 DEF ReleasePut, WriteLock, KeepLock, Expired, ReleasingInv
  <2> QED
    BY <2>1, <2>2, <2>3, <2>4, <2>5, <2>6
<1>2. IInv /\ [Next]_vars
        => [\A r \in Replicas :
             /\ phase[r] # "idle" /\ phase'[r] = "idle"
             /\ ~aborted[r] /\ faults' = faults
             => ~(lock'.holder = r /\ lock'.ttl > 0)]_vars
  BY <1>1
<1> QED
  BY <1>2, Invariance, PTL DEF Spec, OrderlyEndFreesLease

=============================================================================
