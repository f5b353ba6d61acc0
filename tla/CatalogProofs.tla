--------------------------- MODULE CatalogProofs ---------------------------
(***************************************************************************)
(* Proofs about Catalog, for any number of calls, sweeps, entries and      *)
(* snapshots and any clock, when a PUT is sent only once: the pointer      *)
(* never dangles, the snapshot a mutation replaced survives, lost attempts *)
(* are paid for by progress, the audit log is truthful, and what callers   *)
(* see is the atomic catalog of CatalogAbs.                                *)
(*                                                                         *)
(* The argument.  A snapshot is NEEDED when the pointer (or the last lost  *)
(* pointer) depends on it.  Two parties delete snapshots: a writer deletes *)
(* its own after a refused pointer PUT, and that one was never needed; a   *)
(* sweep deletes what is older than the retention window, and what became  *)
(* needed after the sweep read the pointer is younger than that, because   *)
(* an attempt and a sweep together are shorter than the window.            *)
(***************************************************************************)
EXTENDS Catalog, TLAPS

-----------------------------------------------------------------------------
(* Type correctness. *)

\* Everything a record or a tuple of unchanged variables hides.
USE DEF store, calls, sweeps, history, vars, NoSnap, MaybeSnap, SnapIds

LEMMA NoLocalsType == NoLocals \in Locals /\ NoBody \in Bodies /\ NoSweep \in Sweeps /\ NoJob \in Jobs
  BY BoundsAssumption DEF NoLocals, Locals, NoBody, Bodies, NoSweep, Sweeps, Pointers, Absent,
     Kinds, MutateKinds, NoJob, Jobs

LEMMA InitType == Init => TypeOK
  BY BoundsAssumption, NoLocalsType DEF Init, TypeOK, Absent, Pointers, Steps, Answers

\* A call that returns leaves well-typed locals behind.
LEMMA ReturnType ==
    ASSUME TypeOK, NEW p \in Procs, NEW answer \in Answers, Return(p, answer)
    PROVE  /\ pc' \in [Procs -> Steps] /\ job' \in [Procs -> Jobs]
           /\ loc' \in [Procs -> Locals] /\ last' \in [Procs -> Answers]
  BY NoLocalsType DEF TypeOK, Return, Steps

LEMMA ReturnCurrentType ==
    ASSUME TypeOK, NEW p \in Procs, ReturnCurrent(p)
    PROVE  /\ pc' \in [Procs -> Steps] /\ job' \in [Procs -> Jobs]
           /\ loc' \in [Procs -> Locals] /\ last' \in [Procs -> Answers]
  BY ReturnType DEF ReturnCurrent, Answers

LEMMA CommitPointerType ==
    ASSUME TypeOK, NEW p \in Procs, CommitPointer(p)
    PROVE  catalog' \in Pointers /\ moves' \in Nat /\ lost' \in MaybeSnap
  BY BoundsAssumption DEF TypeOK, CommitPointer, Locals, Pointers

LEMMA UploadType ==
    ASSUME TypeOK, NEW p \in Procs, Upload(p)
    PROVE  /\ snapshots' \subseteq SnapIds /\ body' \in [SnapIds -> Bodies]
           /\ nextId' \in 1 .. (MaxSnap + 1) /\ nextId \in SnapIds
  <1>1. nextId \in SnapIds /\ nextId + 1 \in 1 .. (MaxSnap + 1)
    BY BoundsAssumption DEF TypeOK, Upload
  <1>2. [entries |-> loc[p].draft, kind |-> job[p].kind, at |-> now] \in Bodies
    BY DEF TypeOK, Locals, Jobs, Bodies, Kinds, MutateKinds
  <1> QED
    BY <1>1, <1>2 DEF TypeOK, Upload

LEMMA EffectType ==
    ASSUME NEW j \in Jobs, NEW old \in SUBSET Entries
    PROVE  Effect(j, old) \in SUBSET Entries
  <1>1. CASE j.kind = "append"
    BY <1>1 DEF Effect, Jobs, MutateKinds
  <1>2. CASE j.kind = "remove"
    BY <1>2 DEF Effect, Jobs, MutateKinds
  <1>3. CASE j.kind \notin {"append", "remove"}
    BY <1>3 DEF Effect
  <1> QED
    BY <1>1, <1>2, <1>3

LEMMA NextType == TypeOK /\ [Next]_vars => TypeOK'
  <1> SUFFICES ASSUME TypeOK, [Next]_vars PROVE TypeOK'
    OBVIOUS
  <1>1. ASSUME NEW p \in Procs, NEW j \in Jobs, Begin(p, j) PROVE TypeOK'
    <2>1. [NoLocals EXCEPT !.since = moves, !.mark = moves] \in Locals
      BY NoLocalsType DEF TypeOK, Locals
    <2>2. records' \subseteq Entries /\ pc' \in [Procs -> Steps]
      <3>1. CASE j.kind = "append"
        BY <1>1, <3>1 DEF TypeOK, Begin, Steps, Jobs
      <3>2. CASE j.kind = "remove"
        BY <1>1, <3>2 DEF TypeOK, Begin, Steps, Jobs
      <3>3. CASE j.kind = "init"
        BY <1>1, <3>3 DEF TypeOK, Begin, Steps, Jobs
      <3>4. CASE j.kind = "recover"
        BY <1>1, <3>4 DEF TypeOK, Begin, Steps, Jobs
      <3> QED
        BY <3>1, <3>2, <3>3, <3>4 DEF Jobs, MutateKinds
    <2> QED
      BY <1>1, <2>1, <2>2 DEF TypeOK, Begin, Answers
  <1>2. ASSUME NEW p \in Procs, InitializeGet(p) PROVE TypeOK'
    BY <1>2, ReturnCurrentType DEF TypeOK, InitializeGet, Goto, Steps
  <1>3. ASSUME NEW p \in Procs, InitializeList(p) PROVE TypeOK'
    BY <1>3 DEF TypeOK, InitializeList, Goto, Steps
  <1>4. ASSUME NEW p \in Procs, InitializeRecheck(p) PROVE TypeOK'
    BY <1>4, ReturnCurrentType DEF TypeOK, InitializeRecheck, Goto, Steps
  <1>5. ASSUME NEW p \in Procs, InitializeGiveUp(p) PROVE TypeOK'
    BY <1>5, ReturnCurrentType, ReturnType DEF TypeOK, InitializeGiveUp, Answers
  <1>6. ASSUME NEW p \in Procs, MutateRead(p) PROVE TypeOK'
    <2>1. CASE Return(p, "refused") \/ Return(p, "noop")
      BY <1>6, <2>1, ReturnType DEF TypeOK, MutateRead, Answers
    <2>2. CASE /\ Resolves
               /\ Goto(p, "put")
               /\ loc' = [loc EXCEPT ![p] = [loc[p] EXCEPT
                            !.seen = catalog,
                            !.prior = catalog.current,
                            !.draft = Effect(job[p], body[catalog.current].entries),
                            !.mark = moves]]
      <3> DEFINE draft == Effect(job[p], body[catalog.current].entries)
      <3>1. draft \in SUBSET Entries
        BY <2>2, EffectType DEF TypeOK, Resolves, Bodies
      <3>2. catalog.current \in MaybeSnap
        BY DEF TypeOK, Pointers
      <3> HIDE DEF draft
      <3>3. [loc[p] EXCEPT !.seen = catalog, !.prior = catalog.current, !.draft = draft,
                           !.mark = moves] \in Locals
        BY <3>1, <3>2 DEF TypeOK, Locals
      <3>4. loc' \in [Procs -> Locals]
        BY <2>2, <3>3 DEF TypeOK, draft
      <3> QED
        BY <1>6, <2>2, <3>4 DEF TypeOK, MutateRead, Goto, Steps
    <2> QED
      BY <1>6, <2>1, <2>2 DEF MutateRead
  <1>7. ASSUME NEW p \in Procs, RecoverPlan(p) PROVE TypeOK'
    <2>1. CASE Return(p, "refused") \/ Return(p, "conflict")
      BY <1>7, <2>1, ReturnType DEF TypeOK, RecoverPlan, Answers
    <2>2. ASSUME NEW source \in snapshots \union {NoSnap}, Goto(p, "check"),
                 loc' = [loc EXCEPT ![p] = [loc[p] EXCEPT
                                 !.seen = catalog,
                                 !.prior = IF Resolves THEN catalog.current ELSE source,
                                 !.draft = RecoveredEntries(source),
                                 !.mark = moves]]
          PROVE  TypeOK'
      <3> DEFINE prior == IF Resolves THEN catalog.current ELSE source
      <3>1. prior \in MaybeSnap
        BY BoundsAssumption DEF TypeOK, Pointers
      <3>2. RecoveredEntries(source) \in SUBSET Entries
        BY DEF TypeOK, RecoveredEntries, Bodies
      <3> HIDE DEF prior
      <3>3. [loc[p] EXCEPT !.seen = catalog, !.prior = prior,
                           !.draft = RecoveredEntries(source), !.mark = moves] \in Locals
        BY <3>1, <3>2 DEF TypeOK, Locals
      <3> QED
        BY <1>7, <2>2, <3>3 DEF TypeOK, RecoverPlan, Goto, Steps, prior
    <2> QED
      BY <1>7, <2>1, <2>2 DEF RecoverPlan
  <1>8. ASSUME NEW p \in Procs, RecoverCheck(p) PROVE TypeOK'
    BY <1>8, ReturnType DEF TypeOK, RecoverCheck, Goto, Steps, Answers
  <1>9. ASSUME NEW p \in Procs, PutSnapshot(p) PROVE TypeOK'
    <2>1. CASE Upload(p) /\ Goto(p, "swap") /\ loc' = [loc EXCEPT ![p].mine = nextId]
      <3>1. nextId \in MaybeSnap
        BY <2>1, UploadType
      <3>2. [loc[p] EXCEPT !.mine = nextId] \in Locals
        BY <3>1 DEF TypeOK, Locals
      <3>3. loc' \in [Procs -> Locals]
        BY <2>1, <3>2 DEF TypeOK
      <3> QED
        BY <1>9, <2>1, <3>3, UploadType DEF TypeOK, PutSnapshot, Upload, Goto, Steps
    <2>2. CASE Upload(p) /\ Return(p, "error")
      BY <1>9, <2>2, UploadType, ReturnType DEF TypeOK, PutSnapshot, Upload, Answers
    <2>3. CASE UNCHANGED store /\ Return(p, "error")
      BY <1>9, <2>3, ReturnType DEF TypeOK, PutSnapshot, Answers
    <2> QED
      BY <1>9, <2>1, <2>2, <2>3 DEF PutSnapshot
  <1>10. ASSUME NEW p \in Procs, SwapPointer(p) PROVE TypeOK'
    <2>1. CASE CommitPointer(p)
      BY <1>10, <2>1, CommitPointerType DEF TypeOK, SwapPointer, CommitPointer, Goto, Steps, Answers
    <2>2. CASE UNCHANGED <<store, history>>
      BY <1>10, <2>2 DEF TypeOK, SwapPointer, Goto, Steps, Answers
    <2> QED
      BY <1>10, <2>1, <2>2 DEF SwapPointer
  <1>11. ASSUME NEW p \in Procs, SettleAbandoned(p) PROVE TypeOK'
    <2>1. last[p] \in Answers
      BY DEF TypeOK
    <2> QED
      BY <1>11, <2>1, ReturnType, CommitPointerType DEF TypeOK, SettleAbandoned, CommitPointer
  <1>12. ASSUME NEW p \in Procs, RethrowUnsure(p) PROVE TypeOK'
    BY <1>12, ReturnType DEF TypeOK, RethrowUnsure, Answers
  <1>13. ASSUME NEW p \in Procs, DropSnapshot(p) PROVE TypeOK'
    <2>1. ReturnCurrent(p) \/ Return(p, "conflict")
          \/ (Goto(p, "read")
              /\ loc' = [loc EXCEPT ![p] = [NoLocals EXCEPT !.tries = loc[p].tries + 1,
                                                           !.since = loc[p].since,
                                                           !.mark = moves]])
      BY <1>13, Zenon DEF DropSnapshot
    <2> DEFINE tries == loc[p].tries + 1
               since == loc[p].since
    <2>2. [NoLocals EXCEPT !.tries = tries, !.since = since, !.mark = moves] \in Locals
      <3>1. tries \in Nat /\ since \in Nat
        BY DEF TypeOK, Locals
      <3> HIDE DEF tries, since
      <3> QED
        BY <3>1, NoLocalsType DEF TypeOK, Locals
    <2>3. /\ pc' \in [Procs -> Steps] /\ job' \in [Procs -> Jobs]
          /\ loc' \in [Procs -> Locals] /\ last' \in [Procs -> Answers]
      BY <2>1, <2>2, ReturnType, ReturnCurrentType DEF TypeOK, Goto, Steps, Answers
    <2>4. /\ snapshots' \in {snapshots, snapshots \ {loc[p].mine}}
          /\ UNCHANGED <<catalog, body, nextId, records, now, sweeps, history>>
      BY <1>13, Zenon DEF DropSnapshot
    <2> QED
      BY <2>3, <2>4 DEF TypeOK
  <1>14. ASSUME NEW p \in Procs, AppendAudit(p) PROVE TypeOK'
    <2>1. events' \in [SnapIds -> Nat]
      BY <1>14 DEF TypeOK, AppendAudit
    <2> QED
      BY <1>14, <2>1, ReturnType DEF TypeOK, AppendAudit, Answers
  <1>15. ASSUME NEW p \in Procs, Crash(p) PROVE TypeOK'
    BY <1>15, ReturnType DEF TypeOK, Crash, Answers
  <1>16. ASSUME NEW r \in Reapers, SweepRead(r) PROVE TypeOK'
    <2>1. [NoSweep EXCEPT !.protected = {catalog.current, catalog.previous} \ {NoSnap},
                          !.started = now] \in Sweeps
      BY DEF TypeOK, NoSweep, Sweeps, Pointers
    <2> QED
      BY <1>16, <2>1 DEF TypeOK, SweepRead
  <1>17. ASSUME NEW r \in Reapers, SweepList(r) PROVE TypeOK'
    <2>1. Expired(r) \subseteq SnapIds
      BY DEF TypeOK, Expired
    <2>2. [sweep[r] EXCEPT !.doomed = Expired(r)] \in Sweeps
      BY <2>1 DEF TypeOK, Sweeps
    <2> QED
      BY <1>17, <2>2, NoLocalsType DEF TypeOK, SweepList
  <1>18. ASSUME NEW r \in Reapers, SweepDelete(r) PROVE TypeOK'
    <2>1. PICK s \in sweep[r].doomed :
            /\ snapshots' = snapshots \ {s}
            /\ \/ rpc' = [rpc EXCEPT ![r] = "idle"] /\ sweep' = [sweep EXCEPT ![r] = NoSweep]
               \/ rpc' = rpc /\ sweep' = [sweep EXCEPT ![r].doomed = @ \ {s}]
      BY <1>18 DEF SweepDelete
    <2>2. [sweep[r] EXCEPT !.doomed = @ \ {s}] \in Sweeps
      BY DEF TypeOK, Sweeps
    <2>3. sweep' \in [Reapers -> Sweeps] /\ rpc' \in [Reapers -> {"idle", "list", "delete"}]
      BY <2>1, <2>2, NoLocalsType DEF TypeOK
    <2> QED
      BY <1>18, <2>1, <2>3 DEF TypeOK, SweepDelete
  <1>19. ASSUME NEW r \in Reapers, SweepCrash(r) PROVE TypeOK'
    BY <1>19, NoLocalsType DEF TypeOK, SweepCrash
  <1>20. CASE Tick
    BY <1>20 DEF TypeOK, Tick
  <1>21. CASE LoseCatalog
    BY <1>21, BoundsAssumption DEF TypeOK, LoseCatalog, Pointers, Absent
  <1>22. CASE UNCHANGED vars
    BY <1>22 DEF TypeOK
  <1> QED
    BY <1>1, <1>2, <1>3, <1>4, <1>5, <1>6, <1>7, <1>8, <1>9, <1>10, <1>11, <1>12, <1>13, <1>14,
       <1>15, <1>16, <1>17, <1>18, <1>19, <1>20, <1>21, <1>22 DEF Next, Step, SweepStep

\* Every variable of Catalog keeps its type in every behaviour of the specification.
THEOREM TypeCorrect == Spec => []TypeOK
  BY InitType, NextType, PTL DEF Spec

-----------------------------------------------------------------------------
(* Safety. *)

\* Call p has uploaded loc[p].mine.
Holding(p) == pc[p] \in {"swap", "abandoned", "unsure", "drop", "audit"}

\* The snapshots that the pointer, or the last lost pointer, depends on.
Needed ==
    {s \in SnapIds :
        \/ s = catalog.current
        \/ s = lost
        \/ /\ catalog.current # NoSnap
           /\ body[catalog.current].kind \in MutateKinds
           /\ s = catalog.previous}

IdsInv ==
    /\ \A s \in snapshots : s < nextId
    /\ catalog.current < nextId /\ catalog.previous < nextId /\ lost < nextId
    /\ catalog.current = NoSnap => catalog = Absent
    /\ catalog.current # NoSnap /\ body[catalog.current].kind \in MutateKinds
        => catalog.previous # NoSnap
    /\ \A r \in Reapers : \A s \in sweep[r].doomed : s < nextId

OwnInv ==
    \A p \in Procs : Holding(p) =>
        /\ loc[p].mine \in SnapIds
        /\ loc[p].mine < nextId
        /\ \A q \in Procs : Holding(q) /\ q # p => loc[q].mine # loc[p].mine

\* What a writer may still delete is not needed.
UncommittedInv ==
    \A p \in Procs : pc[p] \in {"swap", "abandoned", "drop"} => loc[p].mine \notin Needed

NeededExist == Needed \subseteq snapshots

\* What a call is about to make current exists, is recent, and is what the call drafted.
PendingInv ==
    \A p \in Procs : InFlight(p) =>
        /\ loc[p].mine \in snapshots
        /\ now <= body[loc[p].mine].at + MaxAttempt
        /\ body[loc[p].mine].entries = loc[p].draft
        /\ body[loc[p].mine].kind = job[p].kind

\* What a sweep will delete is neither needed nor about to be.
SweepInv ==
    \A r \in Reapers :
        /\ rpc[r] = "list" =>
            /\ sweep[r].started <= now
            /\ now <= sweep[r].started + MaxSweep
            /\ \A s \in Needed :
                s \in sweep[r].protected \/ sweep[r].started <= body[s].at + MaxAttempt
        /\ rpc[r] = "delete" =>
            /\ \A s \in Needed : s \notin sweep[r].doomed
            /\ \A p \in Procs : InFlight(p) => loc[p].mine \notin sweep[r].doomed

LostInv ==
    lost # NoSnap =>
        /\ catalog = Absent
        /\ body[lost].entries # {}
        /\ \A p \in Procs : job[p].kind = "init" => pc[p] \notin {"put", "swap", "abandoned"}

\* Which steps belong to which kind of call, and what the call knows at them.
Draft(p) ==
    /\ pc[p] \in {"get", "list", "recheck", "sleep"} => job[p].kind = "init"
    /\ pc[p] = "read" => job[p].kind \in MutateKinds
    /\ pc[p] \in {"plan", "check"} => job[p].kind = "recover"
    /\ job[p].kind = "init" =>
        loc[p].seen = Absent /\ loc[p].prior = NoSnap /\ loc[p].draft = {}
    /\ job[p].kind \in MutateKinds /\ pc[p] \in {"put", "swap", "abandoned"} =>
        /\ loc[p].seen.current \in SnapIds
        /\ loc[p].seen.current < nextId
        /\ loc[p].prior = loc[p].seen.current
        /\ loc[p].draft = Effect(job[p], body[loc[p].seen.current].entries)
    /\ loc[p].prior < nextId

DraftInv == \A p \in Procs : pc[p] # "idle" => Draft(p)

\* A call that has not seen the pointer move still holds its ETag.
Progress(p) ==
    /\ loc[p].since + loc[p].tries <= loc[p].mark
    /\ loc[p].mark <= moves
    /\ pc[p] \in {"list", "check", "put", "swap"} /\ loc[p].mark = moves
        => catalog = loc[p].seen
    /\ pc[p] = "drop" => loc[p].mark < moves

ProgressInv == \A p \in Procs : pc[p] # "idle" => Progress(p)

AuditInv ==
    /\ \A s \in SnapIds : events[s] <= 1 /\ (s >= nextId => events[s] = 0)
    /\ \A p \in Procs : Holding(p) => events[loc[p].mine] = 0

IInv ==
    /\ TypeOK
    /\ IdsInv
    /\ OwnInv
    /\ UncommittedInv
    /\ NeededExist
    /\ PendingInv
    /\ SweepInv
    /\ LostInv
    /\ DraftInv
    /\ ProgressInv
    /\ AuditInv

-----------------------------------------------------------------------------
(* What the invariant says of the stored objects.                          *)

\* Everything a record or a tuple of unchanged variables hides.
USE DEF store, calls, sweeps, history, vars, NoSnap, MaybeSnap, SnapIds

\* What the provers need of TypeOK and of the constants, field by field.
LEMMA FieldTypes ==
    ASSUME TypeOK
    PROVE  /\ \A p \in Procs :
                /\ loc[p].mine \in MaybeSnap /\ loc[p].prior \in MaybeSnap
                /\ loc[p].seen \in Pointers /\ loc[p].seen.current \in MaybeSnap
                /\ loc[p].tries \in Nat /\ loc[p].since \in Nat /\ loc[p].mark \in Nat
           /\ catalog.current \in MaybeSnap /\ catalog.previous \in MaybeSnap
           /\ \A s \in SnapIds : body[s].at \in Nat
           /\ \A r \in Reapers : sweep[r].started \in Nat /\ sweep[r].doomed \subseteq SnapIds
           /\ Absent.current = NoSnap /\ Absent.previous = NoSnap
  BY DEF TypeOK, Locals, Pointers, Bodies, Sweeps, Absent

LEMMA ConstantTypes ==
    /\ MaxSnap \in Nat /\ MaxTime \in Nat /\ MaxAttempt \in Nat /\ MaxSweep \in Nat
    /\ Retention \in Nat /\ MaxAttempt + MaxSweep <= Retention
  BY BoundsAssumption, RetentionAssumption

\* A step that concerns no call but p.
OthersKept(p) ==
    \A q \in Procs \ {p} : pc'[q] = pc[q] /\ loc'[q] = loc[q] /\ job'[q] = job[q]

LEMMA ReturnFacts ==
    ASSUME TypeOK, NEW p \in Procs, NEW a, Return(p, a)
    PROVE  pc'[p] = "idle" /\ OthersKept(p)
  BY DEF TypeOK, Return, OthersKept

\* The parts about the stored objects and those who may delete them.
StoreInv ==
    /\ IdsInv /\ OwnInv /\ UncommittedInv /\ NeededExist /\ PendingInv /\ SweepInv /\ AuditInv

\* A step that changes no object, of a call that holds no snapshot after it.
LEMMA QuietStore ==
    ASSUME TypeOK, StoreInv,
           UNCHANGED <<catalog, snapshots, body, nextId, now, sweeps, history>>,
           NEW p \in Procs, OthersKept(p), ~Holding(p)'
    PROVE  StoreInv'
  <1>1. Needed' = Needed
    BY DEF Needed
  <1>2. \A q \in Procs : Holding(q)' => q # p /\ Holding(q) /\ loc'[q] = loc[q] /\ job'[q] = job[q]
    BY DEF Holding, OthersKept
  <1>3. \A q \in Procs : InFlight(q)' => q # p /\ InFlight(q) /\ loc'[q] = loc[q] /\ job'[q] = job[q]
    BY DEF Holding, InFlight, OthersKept
  <1>4. IdsInv' /\ NeededExist'
    BY <1>1 DEF StoreInv, IdsInv, NeededExist
  <1>5. OwnInv' /\ AuditInv'
    BY <1>2 DEF StoreInv, OwnInv, AuditInv
  <1>6. UncommittedInv'
    BY <1>1, <1>2 DEF StoreInv, UncommittedInv, Holding, OthersKept
  <1>7. PendingInv'
    BY <1>3 DEF StoreInv, PendingInv
  <1>8. SweepInv'
    BY <1>1, <1>3 DEF StoreInv, SweepInv
  <1> QED
    BY <1>4, <1>5, <1>6, <1>7, <1>8 DEF StoreInv

\* Upload.
LEMMA UploadStore ==
    ASSUME TypeOK, TypeOK', StoreInv, NEW p \in Procs, Upload(p), OthersKept(p),
           ~Holding(p),
           UNCHANGED <<sweeps, history>>,
           \/ ~Holding(p)'
           \/ /\ pc'[p] = "swap" /\ loc'[p].mine = nextId
              /\ loc'[p].draft = loc[p].draft /\ job'[p] = job[p]
    PROVE  StoreInv'
  <1> USE ConstantTypes, FieldTypes
  <1>1. /\ nextId \in SnapIds /\ nextId' = nextId + 1
        /\ snapshots' = snapshots \union {nextId}
        /\ \A s \in SnapIds : s # nextId => body'[s] = body[s]
        /\ body'[nextId].entries = loc[p].draft /\ body'[nextId].kind = job[p].kind
        /\ body'[nextId].at = now
        /\ UNCHANGED <<catalog, records, now>>
    BY DEF Upload, TypeOK
  <1>2. IdsInv
    BY DEF StoreInv
  <1>3. catalog.current # NoSnap => body'[catalog.current] = body[catalog.current]
    BY <1>1, <1>2 DEF IdsInv
  <1>4. Needed' = Needed /\ nextId \notin Needed
    <2>1. \A s \in SnapIds : s \in Needed' <=> s \in Needed
      BY <1>1, <1>3 DEF Needed
    <2>2. nextId \notin Needed
      BY <1>1, <1>2 DEF IdsInv, Needed
    <2> QED
      BY <2>1, <2>2 DEF Needed
  <1>5. \A q \in Procs : q # p => pc'[q] = pc[q] /\ loc'[q] = loc[q] /\ job'[q] = job[q]
    BY DEF OthersKept
  <1>6. IdsInv'
    <2>1. nextId \in Nat /\ snapshots \subseteq SnapIds /\ lost \in MaybeSnap
      BY DEF TypeOK
    <2>2. \A s \in snapshots' : s < nextId'
      BY <1>1, <1>2, <2>1 DEF IdsInv
    <2>3. catalog'.current < nextId' /\ catalog'.previous < nextId' /\ lost' < nextId'
      BY <1>1, <1>2, <2>1 DEF IdsInv
    <2>4. \A r \in Reapers : \A s \in sweep'[r].doomed : s < nextId'
      BY <1>1, <1>2, <2>1 DEF IdsInv
    <2> QED
      BY <1>1, <1>2, <1>3, <2>2, <2>3, <2>4 DEF IdsInv
  <1>7. NeededExist'
    BY <1>1, <1>4 DEF StoreInv, NeededExist
  <1>8. \A q \in Procs : q # p /\ Holding(q) => loc[q].mine \in SnapIds /\ loc[q].mine < nextId
    BY DEF StoreInv, OwnInv
  <1>9. OwnInv'
    BY <1>1, <1>5, <1>8 DEF StoreInv, OwnInv, Holding
  <1>10. UncommittedInv'
    BY <1>1, <1>4, <1>5 DEF StoreInv, UncommittedInv, Holding
  <1>11. PendingInv'
    <2>1. \A q \in Procs : InFlight(q)' /\ q # p =>
            /\ InFlight(q) /\ loc[q].mine \in SnapIds /\ loc[q].mine # nextId
      BY <1>1, <1>5, <1>8 DEF InFlight, Holding
    <2>2. \A q \in Procs : InFlight(q)' /\ q # p =>
            /\ loc'[q].mine \in snapshots'
            /\ now' <= body'[loc'[q].mine].at + MaxAttempt
            /\ body'[loc'[q].mine].entries = loc'[q].draft
            /\ body'[loc'[q].mine].kind = job'[q].kind
      BY <1>1, <1>5, <2>1 DEF StoreInv, PendingInv
    <2>3. InFlight(p)' => /\ loc'[p].mine = nextId /\ loc'[p].draft = loc[p].draft
                          /\ job'[p] = job[p]
      BY DEF InFlight, Holding
    <2>4. now <= now + MaxAttempt
      BY DEF TypeOK
    <2> QED
      BY <1>1, <2>2, <2>3, <2>4 DEF PendingInv
  <1>12. SweepInv'
    <2>1. ASSUME NEW r \in Reapers, rpc[r] = "list"
          PROVE  /\ sweep[r].started <= now
                 /\ now <= sweep[r].started + MaxSweep
                 /\ \A s \in Needed' :
                        s \in sweep[r].protected \/ sweep[r].started <= body'[s].at + MaxAttempt
      BY <1>1, <1>4, <2>1 DEF StoreInv, SweepInv, Needed
    <2>2. ASSUME NEW r \in Reapers, rpc[r] = "delete"
          PROVE  /\ \A s \in Needed' : s \notin sweep[r].doomed
                 /\ \A q \in Procs : InFlight(q)' => loc'[q].mine \notin sweep[r].doomed
      BY <1>1, <1>2, <1>4, <1>5, <2>2 DEF StoreInv, SweepInv, IdsInv, InFlight, Holding
    <2> QED
      BY <1>1, <2>1, <2>2 DEF SweepInv
  <1>13. AuditInv'
    <2>1. \A s \in SnapIds : events[s] <= 1 /\ (s >= nextId' => events[s] = 0)
      BY <1>1 DEF StoreInv, AuditInv, TypeOK
    <2>2. \A q \in Procs : Holding(q)' => events[loc'[q].mine] = 0
      <3>1. events[nextId] = 0
        BY <1>1 DEF StoreInv, AuditInv
      <3> QED
        BY <1>1, <1>5, <3>1 DEF StoreInv, AuditInv, Holding
    <2> QED
      BY <2>1, <2>2 DEF AuditInv
  <1> QED
    BY <1>6, <1>7, <1>9, <1>10, <1>11, <1>12, <1>13 DEF StoreInv

\* A call goes from one step at which it holds its snapshot to another.
LEMMA KeepsHolding ==
    ASSUME TypeOK, StoreInv, UNCHANGED <<store, sweeps, history>>,
           NEW p \in Procs, OthersKept(p), pc[p] = "swap",
           pc'[p] \in {"abandoned", "drop"}, loc'[p] = loc[p], job'[p] = job[p]
    PROVE  StoreInv'
  <1>1. Needed' = Needed
    BY DEF Needed
  <1>2. \A q \in Procs : /\ Holding(q)' <=> Holding(q)
                         /\ InFlight(q)' => InFlight(q)
                         /\ loc'[q] = loc[q] /\ job'[q] = job[q]
    BY DEF Holding, InFlight, OthersKept
  <1>3. IdsInv' /\ NeededExist'
    BY <1>1 DEF StoreInv, IdsInv, NeededExist
  <1>4. OwnInv' /\ AuditInv'
    BY <1>2 DEF StoreInv, OwnInv, AuditInv
  <1>5. UncommittedInv'
    BY <1>1, <1>2 DEF StoreInv, UncommittedInv, OthersKept
  <1>6. PendingInv'
    BY <1>2 DEF StoreInv, PendingInv
  <1>7. SweepInv'
    BY <1>1, <1>2 DEF StoreInv, SweepInv
  <1> QED
    BY <1>3, <1>4, <1>5, <1>6, <1>7 DEF StoreInv

(***************************************************************************)
(* The commit. What becomes needed is the call's own snapshot, which is    *)
(* recent and which no sweep will delete, and, for a mutation, the         *)
(* snapshot that was current, which was needed already.                    *)
(***************************************************************************)
LEMMA CommitStore ==
    ASSUME TypeOK, StoreInv, LostInv, DraftInv, NEW p \in Procs, InFlight(p),
           CommitPointer(p), OthersKept(p), UNCHANGED sweeps,
           pc'[p] \in {"audit", "unsure", "idle"}, pc'[p] # "idle" => loc'[p] = loc[p]
    PROVE  StoreInv' /\ lost' = NoSnap
  <1> USE ConstantTypes, FieldTypes
  <1> DEFINE mine == loc[p].mine
             prior == loc[p].prior
  <1>1. /\ catalog = loc[p].seen
        /\ catalog'.current = mine /\ catalog'.previous = prior
        /\ lost' = IF job[p].kind = "recover" THEN NoSnap ELSE lost
        /\ UNCHANGED <<snapshots, body, nextId, records, now, events>>
    BY DEF CommitPointer
  <1>2. /\ mine \in SnapIds /\ mine < nextId /\ mine \in snapshots
        /\ now <= body[mine].at + MaxAttempt /\ body[mine].kind = job[p].kind
        /\ \A q \in Procs : Holding(q) /\ q # p => loc[q].mine # mine
    BY DEF StoreInv, OwnInv, PendingInv, InFlight, Holding
  <1>3. job[p].kind \in MutateKinds => prior = catalog.current /\ prior \in SnapIds
    BY <1>1 DEF DraftInv, Draft, InFlight
  <1>4. prior < nextId
    BY DEF DraftInv, Draft, InFlight
  <1>5. lost' = NoSnap
    <2>1. CASE job[p].kind = "init"
      BY <1>1, <2>1 DEF LostInv, InFlight
    <2>2. CASE job[p].kind = "recover"
      BY <1>1, <2>2
    <2>3. CASE job[p].kind \in MutateKinds
      BY <1>1, <1>3, <2>3 DEF LostInv
    <2> QED
      BY <2>1, <2>2, <2>3 DEF TypeOK, Jobs, MutateKinds
  <1>6. \A s \in Needed' : s = mine \/ s \in Needed
    BY <1>1, <1>2, <1>3, <1>5 DEF Needed
  <1>7. \A q \in Procs : q # p => pc'[q] = pc[q] /\ loc'[q] = loc[q] /\ job'[q] = job[q]
    BY DEF OthersKept
  <1>8. IdsInv'
    BY <1>1, <1>2, <1>3, <1>4, <1>5 DEF StoreInv, IdsInv, TypeOK
  <1>9. OwnInv' /\ AuditInv'
    BY <1>1, <1>2, <1>7 DEF StoreInv, OwnInv, AuditInv, Holding, InFlight
  <1>10. UncommittedInv'
    BY <1>2, <1>6, <1>7 DEF StoreInv, UncommittedInv, Holding
  <1>11. NeededExist'
    BY <1>1, <1>2, <1>6 DEF StoreInv, NeededExist
  <1>12. PendingInv'
    BY <1>1, <1>7 DEF StoreInv, PendingInv, InFlight
  <1>13. SweepInv'
    <2>1. ASSUME NEW r \in Reapers, rpc[r] = "list"
          PROVE  /\ sweep[r].started <= now
                 /\ now <= sweep[r].started + MaxSweep
                 /\ \A s \in Needed' :
                        s \in sweep[r].protected \/ sweep[r].started <= body[s].at + MaxAttempt
      <3>1. sweep[r].started <= now /\ now <= sweep[r].started + MaxSweep
        BY <2>1 DEF StoreInv, SweepInv
      <3>2. sweep[r].started <= body[mine].at + MaxAttempt
        <4>1. now \in Nat /\ sweep[r].started \in Nat /\ body[mine].at \in Nat
          BY <1>2 DEF TypeOK
        <4> QED
          BY <1>2, <3>1, <4>1
      <3> QED
        BY <1>6, <2>1, <3>1, <3>2 DEF StoreInv, SweepInv
    <2>2. ASSUME NEW r \in Reapers, rpc[r] = "delete"
          PROVE  /\ \A s \in Needed' : s \notin sweep[r].doomed
                 /\ \A q \in Procs : InFlight(q)' => loc'[q].mine \notin sweep[r].doomed
      BY <1>6, <1>7, <2>2 DEF StoreInv, SweepInv, InFlight
    <2> QED
      BY <1>1, <2>1, <2>2 DEF SweepInv
  <1> QED
    BY <1>5, <1>8, <1>9, <1>10, <1>11, <1>12, <1>13 DEF StoreInv

\* A writer deletes the snapshot of its refused attempt: nobody needs it.
LEMMA DropStore ==
    ASSUME TypeOK, StoreInv, NEW p \in Procs, pc[p] = "drop", OthersKept(p), ~Holding(p)',
           snapshots' \in {snapshots, snapshots \ {loc[p].mine}},
           UNCHANGED <<catalog, body, nextId, records, now, sweeps, history>>
    PROVE  StoreInv'
  <1>1. Needed' = Needed
    BY DEF Needed
  <1>2. \A q \in Procs : Holding(q)' =>
          /\ q # p /\ Holding(q) /\ pc'[q] = pc[q] /\ loc'[q] = loc[q] /\ job'[q] = job[q]
          /\ loc[q].mine # loc[p].mine
    BY DEF Holding, OthersKept, StoreInv, OwnInv
  <1>3. loc[p].mine \notin Needed
    BY DEF StoreInv, UncommittedInv
  <1>4. IdsInv' /\ NeededExist'
    BY <1>1, <1>3 DEF StoreInv, IdsInv, NeededExist
  <1>5. OwnInv' /\ AuditInv'
    BY <1>2 DEF StoreInv, OwnInv, AuditInv
  <1>6. UncommittedInv'
    BY <1>1, <1>2 DEF StoreInv, UncommittedInv, Holding
  <1>7. \A q \in Procs : InFlight(q)' => Holding(q)' /\ InFlight(q)
    BY <1>2 DEF InFlight, Holding
  <1>8. PendingInv'
    BY <1>2, <1>7 DEF StoreInv, PendingInv
  <1>9. SweepInv'
    BY <1>1, <1>2, <1>7 DEF StoreInv, SweepInv
  <1> QED
    BY <1>4, <1>5, <1>6, <1>8, <1>9 DEF StoreInv

LEMMA AuditStore ==
    ASSUME TypeOK, StoreInv, NEW p \in Procs, AppendAudit(p)
    PROVE  StoreInv'
  <1> USE ConstantTypes, FieldTypes
  <1>1. pc[p] = "audit" /\ pc'[p] = "idle" /\ OthersKept(p)
    BY ReturnFacts DEF AppendAudit
  <1>2. Needed' = Needed
    BY DEF AppendAudit, Needed
  <1>3. \A q \in Procs : Holding(q)' =>
          /\ q # p /\ Holding(q) /\ pc'[q] = pc[q] /\ loc'[q] = loc[q] /\ job'[q] = job[q]
          /\ loc[q].mine # loc[p].mine /\ loc[q].mine \in SnapIds
    BY <1>1 DEF Holding, OthersKept, StoreInv, OwnInv
  <1>4. /\ loc[p].mine \in SnapIds /\ loc[p].mine < nextId /\ events[loc[p].mine] = 0
        /\ \A s \in SnapIds : events'[s] = events[s] \/ (s = loc[p].mine /\ events'[s] = 1)
    <2>1. loc[p].mine \in SnapIds /\ loc[p].mine < nextId /\ events[loc[p].mine] = 0
      BY <1>1 DEF StoreInv, OwnInv, AuditInv, Holding
    <2>2. CASE UNCHANGED events
      BY <2>1, <2>2
    <2>3. CASE events' = [events EXCEPT ![loc[p].mine] = @ + 1]
      BY <2>1, <2>3 DEF TypeOK
    <2> QED
      BY <2>1, <2>2, <2>3 DEF AppendAudit
  <1>5. IdsInv' /\ NeededExist'
    BY <1>2 DEF AppendAudit, StoreInv, IdsInv, NeededExist
  <1>6. OwnInv'
    BY <1>3 DEF AppendAudit, StoreInv, OwnInv
  <1>7. UncommittedInv'
    BY <1>2, <1>3 DEF StoreInv, UncommittedInv, Holding
  <1>8. \A q \in Procs : InFlight(q)' => Holding(q)' /\ InFlight(q)
    BY <1>3 DEF InFlight, Holding
  <1>9. PendingInv'
    BY <1>3, <1>8 DEF AppendAudit, StoreInv, PendingInv
  <1>10. SweepInv'
    BY <1>2, <1>3, <1>8 DEF AppendAudit, StoreInv, SweepInv
  <1>11. AuditInv'
    <2>1. nextId' = nextId /\ nextId \in Nat
      BY DEF AppendAudit, TypeOK
    <2>2. \A s \in SnapIds : events'[s] <= 1 /\ (s >= nextId => events'[s] = 0)
      BY <1>4, <2>1 DEF StoreInv, AuditInv
    <2>3. \A q \in Procs : Holding(q)' => events'[loc'[q].mine] = 0
      BY <1>3, <1>4 DEF StoreInv, AuditInv
    <2> QED
      BY <2>1, <2>2, <2>3 DEF AuditInv
  <1> QED
    BY <1>5, <1>6, <1>7, <1>9, <1>10, <1>11 DEF StoreInv

-----------------------------------------------------------------------------
(* The sweeps.                                                             *)


\* The parts that no step of a sweep concerns, if it deletes nothing that matters.
LEMMA SweepFrame ==
    ASSUME TypeOK, StoreInv, snapshots' \subseteq snapshots,
           Needed \subseteq snapshots',
           \A p \in Procs : InFlight(p) => loc[p].mine \in snapshots',
           UNCHANGED <<catalog, body, nextId, records, now, calls, history>>
    PROVE  /\ Needed' = Needed
           /\ OwnInv' /\ UncommittedInv' /\ NeededExist' /\ PendingInv' /\ AuditInv'
  <1>1. Needed' = Needed
    BY DEF Needed
  <1>2. NeededExist'
    BY <1>1 DEF StoreInv, NeededExist
  <1>3. OwnInv' /\ AuditInv'
    BY DEF StoreInv, OwnInv, AuditInv, Holding
  <1>4. UncommittedInv'
    BY <1>1 DEF StoreInv, UncommittedInv
  <1>5. PendingInv'
    BY DEF StoreInv, PendingInv, InFlight
  <1> QED
    BY <1>1, <1>2, <1>3, <1>4, <1>5

\* A sweep that reads the pointer protects all that is needed now.
LEMMA SweepReadStore ==
    ASSUME TypeOK, StoreInv, LostInv, NEW r \in Reapers, SweepRead(r)
    PROVE  StoreInv'
  <1> USE ConstantTypes, FieldTypes
  <1>1. /\ Needed' = Needed
        /\ OwnInv' /\ UncommittedInv' /\ NeededExist' /\ PendingInv' /\ AuditInv'
    <2>1. snapshots' = snapshots
      BY DEF SweepRead
    <2>2. UNCHANGED <<catalog, body, nextId, records, now, calls, history>>
      BY DEF SweepRead
    <2> QED
      BY <2>1, <2>2, SweepFrame DEF StoreInv, NeededExist, PendingInv
  <1>2. \A q \in Reapers : q # r => rpc'[q] = rpc[q] /\ sweep'[q] = sweep[q]
    BY DEF SweepRead, TypeOK
  <1>3. /\ rpc'[r] = "list" /\ sweep'[r].started = now /\ sweep'[r].doomed = {}
        /\ sweep'[r].protected = {catalog.current, catalog.previous} \ {NoSnap}
    BY DEF SweepRead, TypeOK, NoSweep
  <1>4. \A s \in Needed : s \in sweep'[r].protected
    BY <1>3 DEF SweepRead, Needed, LostInv
  <1>5. IdsInv'
    BY <1>2, <1>3 DEF SweepRead, StoreInv, IdsInv
  <1>6. SweepInv'
    <2>1. now <= now + MaxSweep /\ now <= now
      BY DEF TypeOK
    <2> QED
      BY <1>1, <1>2, <1>3, <1>4, <2>1 DEF SweepRead, StoreInv, SweepInv, InFlight
  <1> QED
    BY <1>1, <1>5, <1>6 DEF StoreInv

\* What the listing dooms is older than an attempt and a sweep together: nobody needs it.
LEMMA SweepListStore ==
    ASSUME TypeOK, StoreInv, NEW r \in Reapers, SweepList(r)
    PROVE  StoreInv'
  <1> USE ConstantTypes, FieldTypes
  <1>1. /\ Needed' = Needed
        /\ OwnInv' /\ UncommittedInv' /\ NeededExist' /\ PendingInv' /\ AuditInv'
    <2>1. snapshots' = snapshots
      BY DEF SweepList
    <2>2. UNCHANGED <<catalog, body, nextId, records, now, calls, history>>
      BY DEF SweepList
    <2> QED
      BY <2>1, <2>2, SweepFrame DEF StoreInv, NeededExist, PendingInv
  <1>2. \A q \in Reapers : q # r => rpc'[q] = rpc[q] /\ sweep'[q] = sweep[q]
    BY DEF SweepList, TypeOK
  <1>3. \A s \in Needed : s \notin Expired(r)
    <2> SUFFICES ASSUME NEW s \in Needed, s \in Expired(r) PROVE FALSE
      OBVIOUS
    <2>1. s \in SnapIds /\ s \notin sweep[r].protected /\ now - body[s].at > Retention
      BY DEF Expired, Needed
    <2>2. /\ now <= sweep[r].started + MaxSweep
          /\ sweep[r].started <= body[s].at + MaxAttempt
      BY <2>1 DEF SweepList, StoreInv, SweepInv
    <2>3. now \in Nat /\ sweep[r].started \in Nat /\ body[s].at \in Nat
      BY <2>1 DEF TypeOK
    <2> QED
      BY <2>1, <2>2, <2>3
  <1>4. \A p \in Procs : InFlight(p) => loc[p].mine \notin Expired(r)
    <2> SUFFICES ASSUME NEW p \in Procs, InFlight(p), loc[p].mine \in Expired(r) PROVE FALSE
      OBVIOUS
    <2>1. now - body[loc[p].mine].at > Retention /\ loc[p].mine \in SnapIds
      BY DEF Expired, TypeOK
    <2>2. now <= body[loc[p].mine].at + MaxAttempt
      BY DEF StoreInv, PendingInv
    <2>3. now \in Nat /\ body[loc[p].mine].at \in Nat
      BY <2>1 DEF TypeOK
    <2> QED
      BY <2>1, <2>2, <2>3
  <1>5. /\ rpc'[r] # "list"
        /\ sweep'[r].doomed \subseteq Expired(r)
    <2>1. CASE Expired(r) = {}
      BY <2>1 DEF SweepList, TypeOK, NoSweep
    <2>2. CASE Expired(r) # {}
      BY <2>2 DEF SweepList, TypeOK, Sweeps
    <2> QED
      BY <2>1, <2>2
  <1>6. IdsInv'
    <2>1. \A s \in Expired(r) : s < nextId
      BY DEF Expired, StoreInv, IdsInv
    <2> QED
      BY <1>2, <1>5, <2>1 DEF SweepList, StoreInv, IdsInv
  <1>7. SweepInv'
    BY <1>1, <1>2, <1>3, <1>4, <1>5 DEF SweepList, StoreInv, SweepInv, InFlight
  <1> QED
    BY <1>1, <1>6, <1>7 DEF StoreInv

LEMMA SweepDeleteStore ==
    ASSUME TypeOK, StoreInv, NEW r \in Reapers, SweepDelete(r) \/ SweepCrash(r)
    PROVE  StoreInv'
  <1> USE ConstantTypes, FieldTypes
  <1>1. /\ snapshots' \subseteq snapshots
        /\ \A s \in snapshots \ snapshots' : rpc[r] = "delete" /\ s \in sweep[r].doomed
    BY DEF SweepDelete, SweepCrash
  <1>2. /\ Needed' = Needed
        /\ OwnInv' /\ UncommittedInv' /\ NeededExist' /\ PendingInv' /\ AuditInv'
    <2>1. /\ Needed \subseteq snapshots'
          /\ \A p \in Procs : InFlight(p) => loc[p].mine \in snapshots'
      BY <1>1 DEF StoreInv, SweepInv, NeededExist, PendingInv
    <2>2. UNCHANGED <<catalog, body, nextId, records, now, calls, history>>
      BY DEF SweepDelete, SweepCrash
    <2> QED
      BY <1>1, <2>1, <2>2, SweepFrame
  <1>3. \A q \in Reapers : q # r => rpc'[q] = rpc[q] /\ sweep'[q] = sweep[q]
    BY DEF SweepDelete, SweepCrash, TypeOK
  <1>4. /\ \A s \in sweep'[r].doomed : s \in sweep[r].doomed
        /\ rpc'[r] = "idle" \/ (rpc'[r] = "delete" /\ rpc[r] = "delete")
    <2>1. CASE SweepDelete(r)
      BY <2>1 DEF SweepDelete, TypeOK, NoSweep, Sweeps
    <2>2. CASE SweepCrash(r)
      <3>1. rpc'[r] = "idle"
        BY <2>2 DEF SweepCrash, TypeOK
      <3>2. sweep'[r].doomed = {}
        BY <2>2 DEF SweepCrash, TypeOK, NoSweep
      <3> QED
        BY <3>1, <3>2
    <2> QED
      BY <2>1, <2>2
  <1>5. UNCHANGED <<catalog, body, nextId, now, pc, loc, lost>> /\ snapshots' \subseteq snapshots
    BY <1>1 DEF SweepDelete, SweepCrash
  <1>6. IdsInv'
    BY <1>3, <1>4, <1>5 DEF StoreInv, IdsInv
  <1>7. SweepInv'
    BY <1>2, <1>3, <1>4, <1>5 DEF StoreInv, SweepInv, InFlight
  <1> QED
    BY <1>2, <1>6, <1>7 DEF StoreInv

-----------------------------------------------------------------------------
(* The environment.                                                        *)

LEMMA TickStore ==
    ASSUME TypeOK, StoreInv, Tick
    PROVE  StoreInv'
  <1> USE ConstantTypes, FieldTypes
  <1>1. Needed' = Needed
    BY DEF Needed, Tick
  <1>2. now \in Nat /\ now' = now + 1 /\ UNCHANGED <<catalog, snapshots, body, nextId, calls, sweeps, history>>
    BY DEF Tick, TypeOK
  <1>3. IdsInv' /\ NeededExist'
    BY <1>1, <1>2 DEF StoreInv, IdsInv, NeededExist
  <1>4. OwnInv' /\ AuditInv'
    BY <1>2 DEF StoreInv, OwnInv, AuditInv, Holding
  <1>5. UncommittedInv'
    BY <1>1, <1>2 DEF StoreInv, UncommittedInv
  <1>6. PendingInv'
    <2>1. \A p \in Procs : InFlight(p) => now + 1 <= body[loc[p].mine].at + MaxAttempt
      <3> SUFFICES ASSUME NEW p \in Procs, InFlight(p)
                   PROVE  now + 1 <= body[loc[p].mine].at + MaxAttempt
        OBVIOUS
      <3>1. loc[p].mine \in SnapIds /\ now < body[loc[p].mine].at + MaxAttempt
        BY DEF Tick, StoreInv, OwnInv, Holding, InFlight
      <3>2. body[loc[p].mine].at \in Nat
        BY <3>1
      <3> QED
        BY <1>2, <3>1, <3>2
    <2> QED
      BY <1>2, <2>1 DEF StoreInv, PendingInv, InFlight
  <1>7. SweepInv'
    <2>1. ASSUME NEW r \in Reapers, rpc[r] = "list"
          PROVE  sweep[r].started <= now + 1 /\ now + 1 <= sweep[r].started + MaxSweep
      <3>1. sweep[r].started <= now /\ now < sweep[r].started + MaxSweep /\ sweep[r].started \in Nat
        BY <2>1 DEF Tick, StoreInv, SweepInv
      <3> QED
        BY <1>2, <3>1
    <2> QED
      BY <1>1, <1>2, <2>1 DEF StoreInv, SweepInv, InFlight
  <1> QED
    BY <1>3, <1>4, <1>5, <1>6, <1>7 DEF StoreInv

LEMMA LoseStore ==
    ASSUME TypeOK, StoreInv, LostInv, LoseCatalog
    PROVE  StoreInv'
  <1> USE ConstantTypes, FieldTypes
  <1>1. /\ catalog # Absent /\ catalog' = Absent /\ lost = NoSnap
        /\ lost' \in {NoSnap, catalog.current}
        /\ UNCHANGED <<snapshots, body, nextId, now, calls, sweeps, events>>
    BY DEF LoseCatalog, LostInv
  <1>2. Needed' \subseteq Needed
    BY <1>1 DEF Needed
  <1>3. IdsInv'
    <2>1. 0 < nextId
      BY DEF TypeOK
    <2> QED
      BY <1>1, <2>1 DEF StoreInv, IdsInv
  <1>4. OwnInv' /\ AuditInv'
    BY <1>1 DEF StoreInv, OwnInv, AuditInv, Holding
  <1>5. UncommittedInv' /\ NeededExist'
    BY <1>1, <1>2 DEF StoreInv, UncommittedInv, NeededExist
  <1>6. PendingInv'
    BY <1>1 DEF StoreInv, PendingInv, InFlight
  <1>7. SweepInv'
    BY <1>1, <1>2 DEF StoreInv, SweepInv, InFlight
  <1> QED
    BY <1>3, <1>4, <1>5, <1>6, <1>7 DEF StoreInv

-----------------------------------------------------------------------------
(* What the calls know.                                                    *)

\* A step after which every call is as it was, or over, or knows what it should.
LEMMA LocalFrame ==
    ASSUME TypeOK, TypeOK', DraftInv, ProgressInv, nextId <= nextId', moves <= moves',
           \A s \in SnapIds : s < nextId => body'[s] = body[s],
           moves' = moves => catalog' = catalog,
           \A q \in Procs :
                \/ pc'[q] = pc[q] /\ loc'[q] = loc[q] /\ job'[q] = job[q]
                \/ pc'[q] = "idle"
                \/ Draft(q)' /\ Progress(q)'
    PROVE  DraftInv' /\ ProgressInv'
  <1> USE ConstantTypes, FieldTypes
  <1> SUFFICES ASSUME NEW q \in Procs, pc'[q] = pc[q], loc'[q] = loc[q], job'[q] = job[q],
                      pc[q] # "idle"
               PROVE  Draft(q)' /\ Progress(q)'
    BY DEF DraftInv, ProgressInv
  <1>1. Draft(q) /\ Progress(q)
    BY DEF DraftInv, ProgressInv
  <1>2. nextId \in Nat /\ nextId' \in Nat /\ moves \in Nat /\ moves' \in Nat
    BY DEF TypeOK
  <1>3. Draft(q)'
    <2>1. /\ job[q].kind \in MutateKinds /\ pc[q] \in {"put", "swap", "abandoned"} =>
                /\ loc[q].seen.current < nextId'
                /\ body'[loc[q].seen.current] = body[loc[q].seen.current]
          /\ loc[q].prior < nextId'
      BY <1>1, <1>2 DEF Draft
    <2> QED
      BY <1>1, <2>1 DEF Draft, Effect
  <1>4. Progress(q)'
    BY <1>1, <1>2 DEF Progress
  <1> QED
    BY <1>3, <1>4

LEMMA LostFrame ==
    ASSUME TypeOK, LostInv, IdsInv, UNCHANGED <<catalog, lost>>,
           \A s \in SnapIds : s < nextId => body'[s] = body[s],
           \A q \in Procs :
                \/ pc'[q] = pc[q] /\ job'[q] = job[q]
                \/ pc'[q] \notin {"put", "swap", "abandoned"}
                \/ job'[q].kind # "init"
    PROVE  LostInv'
  <1>1. lost # NoSnap => body'[lost] = body[lost]
    BY DEF TypeOK, IdsInv
  <1> QED
    BY <1>1 DEF LostInv

\* A step that changes no object, after which p is at no step that holds a snapshot.
LEMMA QuietStep ==
    ASSUME IInv, TypeOK',
           UNCHANGED <<catalog, snapshots, body, nextId, now, sweeps, history>>,
           NEW p \in Procs, OthersKept(p), ~Holding(p)',
           pc'[p] # "idle" => Draft(p)' /\ Progress(p)',
           pc'[p] = "put" /\ job'[p].kind = "init" => lost = NoSnap
    PROVE  IInv'
  <1>1. \A q \in Procs \ {p} : pc'[q] = pc[q] /\ loc'[q] = loc[q] /\ job'[q] = job[q]
    BY DEF OthersKept
  <1>2. StoreInv'
    BY QuietStore DEF IInv, StoreInv
  <1>3. nextId <= nextId /\ moves <= moves
    BY DEF IInv, TypeOK
  <1>4. DraftInv' /\ ProgressInv'
    BY <1>1, <1>3, LocalFrame DEF IInv
  <1>5. LostInv'
    BY <1>1 DEF IInv, LostInv, Holding
  <1> QED
    BY <1>2, <1>4, <1>5 DEF IInv, StoreInv

LEMMA ReturnStep ==
    ASSUME IInv, TypeOK', UNCHANGED <<store, sweeps, history>>,
           NEW p \in Procs, NEW a, Return(p, a)
    PROVE  IInv'
  <1>1. pc'[p] = "idle" /\ OthersKept(p)
    BY ReturnFacts DEF IInv
  <1> QED
    BY <1>1, QuietStep DEF Holding

LEMMA BeginStep ==
    ASSUME IInv, TypeOK', NEW p \in Procs, NEW j \in Jobs, Begin(p, j)
    PROVE  IInv'
  <1> USE ConstantTypes, FieldTypes
  <1>1. TypeOK /\ StoreInv
    BY DEF IInv, StoreInv
  <1>2. /\ OthersKept(p) /\ job'[p] = j
        /\ pc'[p] = CASE j.kind = "init" -> "get" [] j.kind = "recover" -> "plan" [] OTHER -> "read"
        /\ loc'[p] = [NoLocals EXCEPT !.since = moves, !.mark = moves]
    BY <1>1 DEF Begin, TypeOK, OthersKept
  <1>3. /\ loc'[p].since = moves /\ loc'[p].mark = moves /\ loc'[p].tries = 0
        /\ loc'[p].seen = Absent /\ loc'[p].prior = NoSnap /\ loc'[p].draft = {}
    BY <1>2 DEF NoLocals
  <1>4. j.kind \in {"init", "recover", "append", "remove"}
    BY DEF Jobs, MutateKinds
  <1>5. UNCHANGED <<catalog, snapshots, body, nextId, now, sweeps, history>>
    BY DEF Begin
  <1>6. nextId \in Nat /\ nextId > 0 /\ moves \in Nat
    BY <1>1 DEF TypeOK
  <1>7. pc'[p] \in {"get", "plan", "read"} /\ Draft(p)' /\ Progress(p)'
    <2>1. CASE j.kind = "init"
      BY <1>2, <1>3, <1>5, <1>6, <2>1 DEF Draft, Progress, MutateKinds
    <2>2. CASE j.kind = "recover"
      BY <1>2, <1>3, <1>5, <1>6, <2>2 DEF Draft, Progress, MutateKinds
    <2>3. CASE j.kind \in MutateKinds
      BY <1>2, <1>3, <1>5, <1>6, <2>3 DEF Draft, Progress, MutateKinds
    <2> QED
      BY <1>4, <2>1, <2>2, <2>3 DEF MutateKinds
  <1> QED
    BY <1>2, <1>5, <1>7, QuietStep DEF Holding

\* initialize: it goes on to upload only if it has seen that nothing was lost.
LEMMA InitializeStep ==
    ASSUME IInv, TypeOK', NEW p \in Procs,
           InitializeGet(p) \/ InitializeList(p) \/ InitializeRecheck(p) \/ InitializeGiveUp(p)
    PROVE  IInv'
  <1> USE ConstantTypes, FieldTypes
  <1>1. UNCHANGED <<store, sweeps, history>> /\ TypeOK
    BY DEF InitializeGet, InitializeList, InitializeRecheck, InitializeGiveUp, IInv
  <1>2. CASE \E a : Return(p, a)
    BY <1>1, <1>2, ReturnStep
  <1>3. CASE ~\E a : Return(p, a)
    <2>1. /\ OthersKept(p) /\ loc'[p] = loc[p] /\ job'[p] = job[p]
          /\ \/ pc[p] = "get" /\ catalog = Absent /\ pc'[p] = "list"
             \/ pc[p] = "list" /\ OnlyEmptyInitializeSnapshots /\ pc'[p] = "put"
             \/ pc[p] = "list" /\ pc'[p] = "recheck"
             \/ pc[p] = "recheck" /\ pc'[p] = "sleep"
      BY <1>1, <1>3 DEF InitializeGet, InitializeList, InitializeRecheck, InitializeGiveUp,
         ReturnCurrent, Goto, OthersKept, TypeOK
    <2>2. Draft(p) /\ Progress(p)
      BY <2>1 DEF IInv, DraftInv, ProgressInv
    <2>3. Draft(p)' /\ Progress(p)'
      BY <1>1, <2>1, <2>2 DEF Draft, Progress, MutateKinds
    <2>4. pc'[p] = "put" => lost = NoSnap
      <3> SUFFICES ASSUME pc'[p] = "put", lost # NoSnap PROVE FALSE
        OBVIOUS
      <3>1. lost \in snapshots /\ body[lost].entries # {}
        BY <1>1 DEF IInv, NeededExist, Needed, LostInv, TypeOK
      <3> QED
        BY <2>1, <3>1 DEF OnlyEmptyInitializeSnapshots
    <2> QED
      BY <1>1, <2>1, <2>3, <2>4, QuietStep DEF Holding
  <1> QED
    BY <1>2, <1>3

LEMMA MutateReadStep ==
    ASSUME IInv, TypeOK', NEW p \in Procs, MutateRead(p)
    PROVE  IInv'
  <1> USE ConstantTypes, FieldTypes
  <1>1. UNCHANGED <<store, sweeps, history>> /\ TypeOK
    BY DEF MutateRead, IInv
  <1>2. CASE Return(p, "refused") \/ Return(p, "noop")
    BY <1>1, <1>2, ReturnStep
  <1>3. CASE /\ Resolves
             /\ Goto(p, "put")
             /\ loc' = [loc EXCEPT ![p] = [loc[p] EXCEPT
                          !.seen = catalog,
                          !.prior = catalog.current,
                          !.draft = Effect(job[p], body[catalog.current].entries),
                          !.mark = moves]]
    <2>1. /\ OthersKept(p) /\ job'[p] = job[p] /\ pc'[p] = "put"
          /\ loc'[p] = [loc[p] EXCEPT
                          !.seen = catalog,
                          !.prior = catalog.current,
                          !.draft = Effect(job[p], body[catalog.current].entries),
                          !.mark = moves]
      BY <1>1, <1>3 DEF Goto, OthersKept, TypeOK
    <2> DEFINE draft == Effect(job[p], body[catalog.current].entries)
    <2> HIDE DEF draft
    <2>2. /\ loc'[p].seen = catalog /\ loc'[p].prior = catalog.current
          /\ loc'[p].draft = draft /\ loc'[p].mark = moves
          /\ loc'[p].since = loc[p].since /\ loc'[p].tries = loc[p].tries
      <3>1. loc[p] \in Locals
        BY <1>1 DEF TypeOK
      <3> QED
        BY <2>1, <3>1 DEF Locals, draft
    <2>3. Draft(p) /\ Progress(p) /\ pc[p] = "read"
      BY DEF IInv, DraftInv, ProgressInv, MutateRead
    <2>4. job[p].kind \in MutateKinds
      BY <2>3 DEF Draft
    <2>5. catalog.current \in SnapIds /\ catalog.current < nextId
      BY <1>1, <1>3 DEF Resolves, IInv, IdsInv, TypeOK
    <2>6. Draft(p)'
      BY <1>1, <2>1, <2>2, <2>4, <2>5 DEF Draft, MutateKinds, draft, Effect
    <2>7. Progress(p)'
      <3>1. moves \in Nat
        BY <1>1 DEF TypeOK
      <3> QED
        BY <1>1, <2>1, <2>2, <2>3, <3>1 DEF Progress
    <2> QED
      BY <1>1, <2>1, <2>4, <2>6, <2>7, QuietStep DEF Holding, MutateKinds
  <1> QED
    BY <1>2, <1>3 DEF MutateRead

LEMMA RecoverPlanStep ==
    ASSUME IInv, TypeOK', NEW p \in Procs, RecoverPlan(p)
    PROVE  IInv'
  <1> USE ConstantTypes, FieldTypes
  <1>1. UNCHANGED <<store, sweeps, history>> /\ TypeOK
    BY DEF RecoverPlan, IInv
  <1>2. CASE Return(p, "refused") \/ Return(p, "conflict")
    BY <1>1, <1>2, ReturnStep
  <1>3. ASSUME NEW source \in snapshots \union {NoSnap}, Goto(p, "check"),
               loc' = [loc EXCEPT ![p] = [loc[p] EXCEPT
                               !.seen = catalog,
                               !.prior = IF Resolves THEN catalog.current ELSE source,
                               !.draft = RecoveredEntries(source),
                               !.mark = moves]]
        PROVE  IInv'
    <2> DEFINE prior == IF Resolves THEN catalog.current ELSE source
    <2>1. prior < nextId
      BY <1>1 DEF IInv, IdsInv, TypeOK
    <2> HIDE DEF prior
    <2>2. /\ OthersKept(p) /\ job'[p] = job[p] /\ pc'[p] = "check"
          /\ loc'[p] = [loc[p] EXCEPT !.seen = catalog, !.prior = prior,
                                      !.draft = RecoveredEntries(source), !.mark = moves]
      BY <1>1, <1>3 DEF Goto, OthersKept, TypeOK, prior
    <2>3. /\ loc'[p].seen = catalog /\ loc'[p].prior = prior /\ loc'[p].mark = moves
          /\ loc'[p].since = loc[p].since /\ loc'[p].tries = loc[p].tries
      <3>1. loc[p] \in Locals
        BY <1>1 DEF TypeOK
      <3> QED
        BY <2>2, <3>1 DEF Locals
    <2>4. Draft(p) /\ Progress(p) /\ pc[p] = "plan"
      BY DEF IInv, DraftInv, ProgressInv, RecoverPlan
    <2>5. job[p].kind = "recover"
      BY <2>4 DEF Draft
    <2>6. Draft(p)'
      BY <1>1, <2>1, <2>2, <2>3, <2>5 DEF Draft, MutateKinds
    <2>7. Progress(p)'
      <3>1. moves \in Nat
        BY <1>1 DEF TypeOK
      <3> QED
        BY <1>1, <2>2, <2>3, <2>4, <3>1 DEF Progress
    <2> QED
      BY <1>1, <2>2, <2>6, <2>7, QuietStep DEF Holding
  <1> QED
    BY <1>2, <1>3 DEF RecoverPlan

LEMMA RecoverCheckStep ==
    ASSUME IInv, TypeOK', NEW p \in Procs, RecoverCheck(p)
    PROVE  IInv'
  <1> USE ConstantTypes, FieldTypes
  <1>1. UNCHANGED <<store, sweeps, history>> /\ TypeOK
    BY DEF RecoverCheck, IInv
  <1>2. CASE Return(p, "conflict")
    BY <1>1, <1>2, ReturnStep
  <1>3. CASE Goto(p, "put") /\ UNCHANGED loc
    <2>1. OthersKept(p) /\ job'[p] = job[p] /\ loc'[p] = loc[p] /\ pc'[p] = "put"
      BY <1>1, <1>3 DEF Goto, OthersKept, TypeOK
    <2>2. Draft(p) /\ Progress(p) /\ pc[p] = "check"
      BY DEF IInv, DraftInv, ProgressInv, RecoverCheck
    <2>3. job[p].kind = "recover"
      BY <2>2 DEF Draft
    <2>4. Draft(p)' /\ Progress(p)'
      BY <1>1, <2>1, <2>2, <2>3 DEF Draft, Progress, MutateKinds
    <2> QED
      BY <1>1, <2>1, <2>3, <2>4, QuietStep DEF Holding
  <1> QED
    BY <1>2, <1>3 DEF RecoverCheck

LEMMA PutSnapshotStep ==
    ASSUME IInv, TypeOK', NEW p \in Procs, PutSnapshot(p)
    PROVE  IInv'
  <1> USE ConstantTypes, FieldTypes
  <1>1. TypeOK /\ StoreInv /\ pc[p] = "put" /\ UNCHANGED <<sweeps, history>> /\ ~Holding(p)
    BY DEF IInv, StoreInv, PutSnapshot, Holding
  <1>2. Draft(p) /\ Progress(p)
    BY <1>1 DEF IInv, DraftInv, ProgressInv
  <1>3. CASE UNCHANGED store /\ Return(p, "error")
    BY <1>1, <1>3, ReturnStep
  <1>4. ASSUME Upload(p), OthersKept(p),
               \/ pc'[p] = "idle"
               \/ /\ pc'[p] = "swap" /\ job'[p] = job[p]
                  /\ loc'[p] = [loc[p] EXCEPT !.mine = nextId]
        PROVE  IInv'
    <2>1. /\ nextId \in SnapIds /\ nextId' = nextId + 1
          /\ \A s \in SnapIds : s < nextId => body'[s] = body[s]
          /\ UNCHANGED <<catalog, moves, lost>>
      BY <1>1, <1>4 DEF Upload, TypeOK
    <2>2. pc'[p] = "swap" =>
            /\ loc'[p].mine = nextId /\ loc'[p].draft = loc[p].draft
            /\ loc'[p].seen = loc[p].seen /\ loc'[p].prior = loc[p].prior
            /\ loc'[p].mark = loc[p].mark /\ loc'[p].since = loc[p].since
            /\ loc'[p].tries = loc[p].tries /\ job'[p] = job[p]
      <3>1. loc[p] \in Locals
        BY <1>1 DEF TypeOK
      <3> QED
        BY <1>4, <3>1 DEF Locals
    <2>3. pc'[p] # "swap" => ~Holding(p)'
      BY <1>4 DEF Holding
    <2>4. StoreInv'
      BY <1>1, <1>4, <2>2, <2>3, UploadStore
    <2>5. pc'[p] = "swap" => Draft(p)' /\ Progress(p)'
      <3>1. ASSUME pc'[p] = "swap" PROVE Draft(p)'
        <4>1. job[p].kind \in MutateKinds =>
                /\ loc[p].seen.current \in SnapIds /\ loc[p].seen.current < nextId
                /\ loc[p].prior = loc[p].seen.current
                /\ loc[p].draft = Effect(job[p], body[loc[p].seen.current].entries)
          BY <1>1, <1>2 DEF Draft
        <4>2. loc[p].prior < nextId' /\ (loc[p].seen.current < nextId => loc[p].seen.current < nextId')
          BY <1>1, <1>2, <2>1 DEF Draft
        <4>3. job[p].kind = "init" =>
                loc[p].seen = Absent /\ loc[p].prior = NoSnap /\ loc[p].draft = {}
          BY <1>2 DEF Draft
        <4> QED
          BY <2>1, <2>2, <3>1, <4>1, <4>2, <4>3 DEF Draft, Effect
      <3>2. ASSUME pc'[p] = "swap" PROVE Progress(p)'
        BY <1>1, <1>2, <2>1, <2>2, <3>2 DEF Progress
      <3> QED
        BY <3>1, <3>2
    <2>6. nextId <= nextId' /\ moves <= moves' /\ moves' = moves
      BY <1>1, <2>1 DEF TypeOK
    <2>7. DraftInv' /\ ProgressInv'
      BY <1>1, <1>4, <2>1, <2>5, <2>6, LocalFrame DEF IInv, OthersKept
    <2>8. LostInv'
      <3>1. pc'[p] = "swap" /\ job'[p].kind = "init" => lost = NoSnap
        BY <1>1, <2>2 DEF IInv, LostInv
      <3>2. CASE lost = NoSnap
        BY <2>1, <3>2 DEF LostInv
      <3>3. CASE lost # NoSnap
        BY <1>1, <1>4, <2>1, <3>1, <3>3, LostFrame DEF IInv, OthersKept
      <3> QED
        BY <3>2, <3>3
    <2> QED
      BY <2>4, <2>7, <2>8 DEF IInv, StoreInv
  <1>5. CASE Upload(p) /\ Return(p, "error")
    BY <1>1, <1>4, <1>5, ReturnFacts
  <1>6. CASE Upload(p) /\ Goto(p, "swap") /\ loc' = [loc EXCEPT ![p].mine = nextId]
    <2>1. /\ OthersKept(p) /\ pc'[p] = "swap" /\ job'[p] = job[p]
          /\ loc'[p] = [loc[p] EXCEPT !.mine = nextId]
      BY <1>1, <1>6 DEF Goto, OthersKept, TypeOK
    <2> QED
      BY <1>4, <1>6, <2>1
  <1> QED
    BY <1>3, <1>5, <1>6 DEF PutSnapshot

\* The pointer moves: the number of moves tells every other call that its ETag is stale.
LEMMA CommitStep ==
    ASSUME IInv, TypeOK', NEW p \in Procs, InFlight(p), CommitPointer(p), OthersKept(p),
           UNCHANGED sweeps, pc'[p] \in {"audit", "unsure", "idle"},
           pc'[p] # "idle" => loc'[p] = loc[p] /\ job'[p] = job[p]
    PROVE  IInv'
  <1> USE ConstantTypes, FieldTypes
  <1>1. TypeOK /\ Draft(p) /\ Progress(p)
    BY DEF IInv, DraftInv, ProgressInv, InFlight
  <1>2. StoreInv' /\ lost' = NoSnap
    BY CommitStore DEF IInv, StoreInv
  <1>3. /\ moves' = moves + 1 /\ moves \in Nat /\ nextId' = nextId /\ nextId \in Nat
        /\ UNCHANGED body
    BY <1>1 DEF CommitPointer, TypeOK
  <1>4. pc'[p] # "idle" => Draft(p)' /\ Progress(p)'
    BY <1>1, <1>3 DEF Draft, Progress, InFlight, MutateKinds, Effect
  <1>5. moves <= moves' /\ nextId <= nextId' /\ moves' # moves
    BY <1>3
  <1>6. DraftInv' /\ ProgressInv'
    BY <1>1, <1>3, <1>4, <1>5, LocalFrame DEF IInv, OthersKept
  <1>7. LostInv'
    BY <1>2 DEF LostInv
  <1> QED
    BY <1>2, <1>6, <1>7 DEF IInv, StoreInv

LEMMA SwapPointerStep ==
    ASSUME AdapterRetries = FALSE, IInv, TypeOK', NEW p \in Procs, SwapPointer(p)
    PROVE  IInv'
  <1> USE ConstantTypes, FieldTypes
  <1>1. TypeOK /\ StoreInv /\ pc[p] = "swap" /\ InFlight(p) /\ UNCHANGED <<loc, sweeps>>
    BY DEF IInv, StoreInv, SwapPointer, InFlight
  <1>2. Draft(p) /\ Progress(p)
    BY <1>1 DEF IInv, DraftInv, ProgressInv
  <1>3. CASE CommitPointer(p) /\ (Goto(p, "audit") \/ Goto(p, "unsure"))
    <2>1. OthersKept(p) /\ pc'[p] \in {"audit", "unsure"} /\ loc'[p] = loc[p] /\ job'[p] = job[p]
      BY <1>1, <1>3 DEF Goto, OthersKept, TypeOK
    <2> QED
      BY <1>1, <1>3, <2>1, CommitStep
  <1>4. ASSUME UNCHANGED <<store, history>>, OthersKept(p), job'[p] = job[p],
               pc'[p] \in {"drop", "abandoned"}, pc'[p] = "drop" => catalog # loc[p].seen
        PROVE  IInv'
    <2>1. StoreInv'
      BY <1>1, <1>4, KeepsHolding
    <2>2. Draft(p)' /\ Progress(p)'
      <3>1. Draft(p)'
        BY <1>1, <1>2, <1>4 DEF Draft, Effect
      <3>2. pc'[p] = "drop" => loc[p].mark < moves
        BY <1>1, <1>2, <1>4 DEF Progress, TypeOK
      <3> QED
        BY <1>1, <1>2, <1>4, <3>1, <3>2 DEF Progress
    <2>3. moves <= moves' /\ nextId <= nextId'
      BY <1>1, <1>4 DEF TypeOK
    <2>4. DraftInv' /\ ProgressInv'
      BY <1>1, <1>4, <2>2, <2>3, LocalFrame DEF IInv, OthersKept
    <2>5. LostInv'
      BY <1>1, <1>4 DEF IInv, LostInv, OthersKept
    <2> QED
      BY <2>1, <2>4, <2>5 DEF IInv, StoreInv
  <1>5. CASE catalog # loc[p].seen /\ Goto(p, "drop") /\ UNCHANGED <<store, history>>
    <2>1. OthersKept(p) /\ pc'[p] = "drop" /\ job'[p] = job[p]
      BY <1>1, <1>5 DEF Goto, OthersKept, TypeOK
    <2> QED
      BY <1>4, <1>5, <2>1
  <1>6. CASE /\ pc' = [pc EXCEPT ![p] = "abandoned"]
             /\ UNCHANGED <<job, store, history>>
    <2>1. OthersKept(p) /\ pc'[p] = "abandoned" /\ job'[p] = job[p]
      BY <1>1, <1>6 DEF OthersKept, TypeOK
    <2> QED
      BY <1>4, <1>6, <2>1
  <1> QED
    BY <1>3, <1>5, <1>6 DEF SwapPointer

LEMMA SettleAbandonedStep ==
    ASSUME IInv, TypeOK', NEW p \in Procs, SettleAbandoned(p)
    PROVE  IInv'
  <1>1. TypeOK /\ pc[p] = "abandoned" /\ UNCHANGED sweeps /\ Return(p, last[p])
    BY DEF IInv, SettleAbandoned
  <1>2. CASE UNCHANGED <<store, history>>
    BY <1>1, <1>2, ReturnStep
  <1>3. CASE CommitPointer(p)
    <2>1. OthersKept(p) /\ pc'[p] = "idle"
      BY <1>1, ReturnFacts
    <2> QED
      BY <1>1, <1>3, <2>1, CommitStep DEF InFlight
  <1> QED
    BY <1>2, <1>3 DEF SettleAbandoned

LEMMA DropSnapshotStep ==
    ASSUME IInv, TypeOK', NEW p \in Procs, DropSnapshot(p)
    PROVE  IInv'
  <1> USE ConstantTypes, FieldTypes
  <1>1. TypeOK /\ StoreInv /\ pc[p] = "drop"
    BY DEF IInv, StoreInv, DropSnapshot
  <1>2. Draft(p) /\ Progress(p)
    BY <1>1 DEF IInv, DraftInv, ProgressInv
  <1>3. /\ snapshots' \in {snapshots, snapshots \ {loc[p].mine}}
        /\ UNCHANGED <<catalog, body, nextId, records, now, sweeps, history>>
    BY Zenon DEF DropSnapshot
  <1>4. \/ pc'[p] = "idle" /\ OthersKept(p)
        \/ /\ pc'[p] = "read" /\ OthersKept(p) /\ job'[p] = job[p]
           /\ job[p].kind \in MutateKinds
           /\ loc'[p].tries = loc[p].tries + 1 /\ loc'[p].since = loc[p].since
           /\ loc'[p].mark = moves /\ loc'[p].prior = NoSnap
    <2>1. CASE ReturnCurrent(p) \/ Return(p, "conflict")
      BY <1>1, <2>1, ReturnFacts DEF ReturnCurrent
    <2>2. CASE /\ job[p].kind \notin {"init", "recover"}
               /\ Goto(p, "read")
               /\ loc' = [loc EXCEPT ![p] = [NoLocals EXCEPT !.tries = loc[p].tries + 1,
                                                            !.since = loc[p].since,
                                                            !.mark = moves]]
      <3>1. /\ OthersKept(p) /\ pc'[p] = "read" /\ job'[p] = job[p]
            /\ loc'[p] = [NoLocals EXCEPT !.tries = loc[p].tries + 1,
                                         !.since = loc[p].since,
                                         !.mark = moves]
        BY <1>1, <2>2 DEF Goto, OthersKept, TypeOK
      <3>2. job[p].kind \in MutateKinds
        BY <1>1, <2>2 DEF TypeOK, Jobs, MutateKinds
      <3> QED
        BY <3>1, <3>2 DEF NoLocals
    <2>3. CASE job[p].kind \in {"init", "recover"}
      <3>1. ReturnCurrent(p) \/ Return(p, "conflict")
        BY <2>3 DEF DropSnapshot
      <3> QED
        BY <2>1, <3>1
    <2>4. CASE job[p].kind \notin {"init", "recover"}
      <3>1. \/ Return(p, "conflict")
            \/ /\ Goto(p, "read")
               /\ loc' = [loc EXCEPT ![p] = [NoLocals EXCEPT !.tries = loc[p].tries + 1,
                                                            !.since = loc[p].since,
                                                            !.mark = moves]]
        BY <2>4, Zenon DEF DropSnapshot
      <3> QED
        BY <2>1, <2>2, <2>4, <3>1, Zenon
    <2> QED
      BY <2>3, <2>4
  <1>5. ~Holding(p)'
    BY <1>4 DEF Holding
  <1>6. StoreInv'
    BY <1>1, <1>3, <1>4, <1>5, DropStore
  <1>7. pc'[p] # "idle" => Draft(p)' /\ Progress(p)'
    <2>1. moves \in Nat /\ nextId > 0
      BY <1>1 DEF TypeOK
    <2>2. loc[p].since + loc[p].tries <= loc[p].mark /\ loc[p].mark < moves
      BY <1>1, <1>2 DEF Progress
    <2>3. loc[p].since \in Nat /\ loc[p].tries \in Nat /\ loc[p].mark \in Nat
      BY <1>1
    <2>4. loc[p].since + (loc[p].tries + 1) <= moves
      BY <2>1, <2>2, <2>3
    <2>5. pc'[p] # "idle" => Draft(p)'
      BY <1>3, <1>4, <2>1 DEF Draft, MutateKinds
    <2> QED
      BY <1>3, <1>4, <2>1, <2>4, <2>5 DEF Progress
  <1>8. moves <= moves' /\ nextId <= nextId'
    BY <1>1, <1>3 DEF TypeOK
  <1>9. DraftInv' /\ ProgressInv'
    BY <1>1, <1>3, <1>4, <1>7, <1>8, LocalFrame DEF IInv, OthersKept
  <1>10. LostInv'
    BY <1>3, <1>4 DEF IInv, LostInv, OthersKept
  <1> QED
    BY <1>6, <1>9, <1>10 DEF IInv, StoreInv

LEMMA AppendAuditStep ==
    ASSUME IInv, TypeOK', NEW p \in Procs, AppendAudit(p)
    PROVE  IInv'
  <1>1. TypeOK /\ StoreInv
    BY DEF IInv, StoreInv
  <1>2. StoreInv'
    BY <1>1, AuditStore
  <1>3. pc'[p] = "idle" /\ OthersKept(p) /\ UNCHANGED <<store, moves, lost>>
    BY <1>1, ReturnFacts DEF AppendAudit
  <1>4. moves <= moves' /\ nextId <= nextId'
    BY <1>1, <1>3 DEF TypeOK
  <1>5. DraftInv' /\ ProgressInv'
    BY <1>1, <1>3, <1>4, LocalFrame DEF IInv, OthersKept
  <1>6. LostInv'
    BY <1>3 DEF IInv, LostInv, OthersKept
  <1> QED
    BY <1>2, <1>5, <1>6 DEF IInv, StoreInv

\* The steps that concern no call.
LEMMA OtherStep ==
    ASSUME IInv, TypeOK', Tick \/ LoseCatalog \/ (\E r \in Reapers : SweepStep(r))
    PROVE  IInv'
  <1>1. TypeOK /\ StoreInv /\ LostInv
    BY DEF IInv, StoreInv
  <1>2. StoreInv'
    BY <1>1, TickStore, LoseStore, SweepReadStore, SweepListStore, SweepDeleteStore DEF SweepStep
  <1>3. UNCHANGED <<body, nextId, pc, loc, job>>
    BY DEF Tick, LoseCatalog, SweepStep, SweepRead, SweepList, SweepDelete, SweepCrash
  <1>4. moves <= moves' /\ nextId <= nextId' /\ (moves' = moves => catalog' = catalog)
    <2>1. CASE LoseCatalog
      BY <1>1, <2>1 DEF LoseCatalog, TypeOK
    <2>2. CASE ~LoseCatalog
      <3>1. UNCHANGED <<moves, nextId, catalog>>
        BY <2>2 DEF Tick, SweepStep, SweepRead, SweepList, SweepDelete, SweepCrash
      <3> QED
        BY <1>1, <3>1 DEF TypeOK
    <2> QED
      BY <2>1, <2>2
  <1>5. DraftInv' /\ ProgressInv'
    BY <1>1, <1>3, <1>4, LocalFrame DEF IInv
  <1>6. LostInv'
    <2>1. CASE LoseCatalog
      <3>1. lost = NoSnap
        BY <1>1, <2>1 DEF LostInv, LoseCatalog
      <3> QED
        BY <1>3, <2>1, <3>1 DEF LostInv, LoseCatalog
    <2>2. CASE ~LoseCatalog
      <3>1. UNCHANGED <<lost, catalog>>
        BY <2>2 DEF Tick, SweepStep, SweepRead, SweepList, SweepDelete, SweepCrash
      <3> QED
        BY <1>1, <1>3, <3>1 DEF LostInv
    <2> QED
      BY <2>1, <2>2
  <1> QED
    BY <1>2, <1>5, <1>6 DEF IInv, StoreInv

LEMMA InitIInv == Init => IInv
  <1> SUFFICES ASSUME Init PROVE IInv
    OBVIOUS
  <1>1. TypeOK
    BY InitType
  <1>2. Needed = {}
    BY DEF Init, Needed, Absent
  <1>3. NoSweep.doomed = {} /\ Absent.current = NoSnap /\ Absent.previous = NoSnap
    BY DEF NoSweep, Absent
  <1>4. \A p \in Procs : pc[p] = "idle"
    BY DEF Init
  <1>5. \A r \in Reapers : rpc[r] = "idle" /\ sweep[r] = NoSweep
    BY DEF Init
  <1>6. IdsInv
    BY <1>3, <1>5, ConstantTypes DEF Init, IdsInv
  <1>7. OwnInv /\ UncommittedInv /\ PendingInv
    BY <1>4 DEF OwnInv, UncommittedInv, PendingInv, Holding, InFlight
  <1>8. NeededExist /\ SweepInv
    BY <1>2, <1>5 DEF NeededExist, SweepInv
  <1>9. LostInv /\ DraftInv /\ ProgressInv
    BY <1>4 DEF Init, LostInv, DraftInv, ProgressInv
  <1>10. AuditInv
    BY <1>4 DEF Init, AuditInv, Holding
  <1> QED
    BY <1>1, <1>6, <1>7, <1>8, <1>9, <1>10 DEF IInv

(***************************************************************************)
(* The invariant is inductive, if a PUT is sent once.                      *)
(***************************************************************************)
LEMMA NextIInv ==
    ASSUME AdapterRetries = FALSE
    PROVE  IInv /\ [Next]_vars => IInv'
  <1> SUFFICES ASSUME IInv, [Next]_vars PROVE IInv'
    OBVIOUS
  <1>1. TypeOK'
    BY NextType DEF IInv
  <1>2. ASSUME NEW p \in Procs, NEW j \in Jobs, Begin(p, j) PROVE IInv'
    BY <1>1, <1>2, BeginStep
  <1>3. ASSUME NEW p \in Procs, Step(p) PROVE IInv'
    <2>1. CASE RethrowUnsure(p)
      BY <1>1, <2>1, ReturnStep DEF RethrowUnsure
    <2> QED
      BY <1>1, <1>3, <2>1, InitializeStep, MutateReadStep, RecoverPlanStep, RecoverCheckStep,
         PutSnapshotStep, SwapPointerStep, SettleAbandonedStep, DropSnapshotStep,
         AppendAuditStep DEF Step
  <1>4. ASSUME NEW p \in Procs, Crash(p) PROVE IInv'
    BY <1>1, <1>4, ReturnStep DEF Crash
  <1>5. CASE Tick \/ LoseCatalog \/ (\E r \in Reapers : SweepStep(r))
    BY <1>1, <1>5, OtherStep
  <1>6. CASE UNCHANGED vars
    <2>1. \A s \in SnapIds : s \in Needed' <=> s \in Needed
      BY <1>6 DEF Needed
    <2>2. Needed' = Needed
      BY <2>1 DEF Needed
    <2> QED
      BY <1>1, <1>6, <2>2 DEF IInv, IdsInv, OwnInv, UncommittedInv, NeededExist, PendingInv, SweepInv,
         LostInv, DraftInv, ProgressInv, AuditInv, Draft, Progress, Holding, InFlight, Effect
  <1> QED
    BY <1>2, <1>3, <1>4, <1>5, <1>6 DEF Next

LEMMA Invariance ==
    ASSUME AdapterRetries = FALSE
    PROVE  Spec => []IInv
  BY InitIInv, NextIInv, PTL DEF Spec

-----------------------------------------------------------------------------
(* The refinement: every step of Catalog is one of CatalogAbs, or none.    *)

\* What was uploaded stays as it is, and a deleted object does not come back.
LEMMA BodiesKept ==
    ASSUME TypeOK, [Next]_vars, NEW s \in SnapIds, s < nextId
    PROVE  body'[s] = body[s] /\ (s \in snapshots' => s \in snapshots)
  <1>1. CASE \E p \in Procs : Upload(p)
    BY <1>1, ConstantTypes DEF Upload, TypeOK
  <1>2. CASE ~\E p \in Procs : Upload(p)
    <2>1. body' = body /\ snapshots' \subseteq snapshots
      BY <1>2, ZenonT(60)
      DEF Next, Step, SweepStep, Begin, InitializeGet, InitializeList, InitializeRecheck,
          InitializeGiveUp, MutateRead, RecoverPlan, RecoverCheck, PutSnapshot, SwapPointer,
          SettleAbandoned, CommitPointer, RethrowUnsure, DropSnapshot, AppendAudit, Crash,
          SweepRead, SweepList, SweepDelete, SweepCrash, Tick, LoseCatalog
    <2> QED
      BY <2>1
  <1> QED
    BY <1>1, <1>2

\* A catalog.json that exists can be read: its value is that of the snapshot it names.
LEMMA ValueRead ==
    ASSUME IInv
    PROVE  /\ catalog # Absent =>
                /\ Resolves /\ catalog.current \in SnapIds /\ catalog.current < nextId
                /\ CurrentValue = [exists |-> TRUE, entries |-> body[catalog.current].entries]
           /\ catalog = Absent => ~Resolves /\ CurrentValue = [exists |-> FALSE, entries |-> {}]
  BY FieldTypes DEF IInv, NeededExist, Needed, IdsInv, Resolves, CurrentValue

LEMMA PointerInv == IInv => PointerResolves
  BY FieldTypes DEF IInv, NeededExist, Needed, IdsInv, PointerResolves

LEMMA SameValue ==
    ASSUME IInv, IInv', [Next]_vars, catalog' = catalog
    PROVE  CurrentValue' = CurrentValue
  <1>1. CASE catalog = Absent
    <2>1. ~Resolves'
      BY <1>1 DEF Resolves
    <2> QED
      BY <1>1, <2>1, ValueRead DEF CurrentValue
  <1>2. CASE catalog # Absent
    <2>1. catalog.current \in SnapIds /\ catalog.current < nextId
      BY <1>2, ValueRead
    <2>2. body'[catalog.current] = body[catalog.current]
      BY <2>1, BodiesKept DEF IInv
    <2>3. PointerResolves'
      BY PointerInv, PTL
    <2>4. Resolves'
      BY <1>2, <2>3 DEF PointerResolves, Resolves
    <2> QED
      BY <1>2, <2>2, <2>4, ValueRead DEF CurrentValue
  <1> QED
    BY <1>1, <1>2

\* The abstract state of every call, after a step that concerns call p only.
LEMMA StateStep ==
    ASSUME TypeOK, NEW p \in Procs, NEW s, CallState(p)' = s,
           \A q \in Procs \ {p} : pc'[q] = pc[q]
    PROVE  [q \in Procs |-> CallState(q)]' = [[q \in Procs |-> CallState(q)] EXCEPT ![p] = s]
  <1>1. \A q \in Procs \ {p} : CallState(q)' = CallState(q)
    BY DEF CallState
  <1> QED
    BY <1>1

\* A step of call p that callers cannot see.
LEMMA HiddenStep ==
    ASSUME TypeOK, NEW p \in Procs, CallState(p)' = CallState(p),
           \A q \in Procs \ {p} : pc'[q] = pc[q],
           CurrentValue' = CurrentValue, UNCHANGED <<job, last, lost>>
    PROVE  UNCHANGED Abs!vars
  <1>1. [q \in Procs |-> CallState(q)]' = [q \in Procs |-> CallState(q)]
    BY DEF CallState
  <1> QED
    BY <1>1 DEF Abs!vars

LEMMA ReturnMaps ==
    ASSUME TypeOK, NEW p \in Procs, NEW a, a \in Answers, Return(p, a),
           CallState(p) \in {"pending", "applied"}, Abs!Truthful(p, a),
           CurrentValue' = CurrentValue, UNCHANGED lost
    PROVE  Abs!Next
  <1>1. [q \in Procs |-> CallState(q)]' = [[q \in Procs |-> CallState(q)] EXCEPT ![p] = "idle"]
    <2>1. pc'[p] = "idle" /\ \A q \in Procs \ {p} : pc'[q] = pc[q]
      BY ReturnFacts DEF OthersKept
    <2>2. CallState(p)' = "idle"
      BY <2>1 DEF CallState
    <2> QED
      BY <2>1, <2>2, StateStep
  <1>2. Abs!Return(p, a)
    BY <1>1 DEF Abs!Return, Return
  <1>3. a \in Abs!Answers
    BY DEF Answers, Abs!Answers
  <1> QED
    BY <1>2, <1>3 DEF Abs!Next

\* The answers that are truthful whatever the catalog holds.
LEMMA TruthfulAnswers ==
    ASSUME NEW p \in Procs
    PROVE  /\ Abs!Truthful(p, "error") /\ Abs!Truthful(p, "crashed")
           /\ CallState(p) = "pending" => Abs!Truthful(p, "conflict") /\ Abs!Truthful(p, "refused")
           /\ CallState(p) = "applied" => Abs!Truthful(p, "ok")
  BY DEF Abs!Truthful

\* getCurrentSnapshot after initialize met a catalog, or none.
LEMMA ReturnCurrentMaps ==
    ASSUME IInv, NEW p \in Procs, ReturnCurrent(p), job[p].kind = "init",
           CallState(p) = "pending", CurrentValue' = CurrentValue, UNCHANGED lost
    PROVE  Abs!Next
  <1>1. CASE Resolves
    <2>1. CurrentValue.exists
      BY <1>1 DEF CurrentValue
    <2>2. Abs!Truthful(p, "ok")
      BY <2>1 DEF Abs!Truthful
    <2> QED
      BY <1>1, <2>2, ReturnMaps DEF ReturnCurrent, IInv, Answers
  <1>2. CASE ~Resolves
    BY <1>2, TruthfulAnswers, ReturnMaps DEF ReturnCurrent, IInv, Answers
  <1> QED
    BY <1>1, <1>2

\* The pointer PUT takes effect: the call's effect, on the value its predecessor left.
LEMMA CommitMaps ==
    ASSUME IInv, IInv', [Next]_vars, NEW p \in Procs, InFlight(p), CommitPointer(p)
    PROVE  Abs!TakeEffect(p)
  <1> USE ConstantTypes, FieldTypes
  <1> DEFINE mine == loc[p].mine
  <1>1. /\ catalog = loc[p].seen /\ catalog'.current = mine
        /\ lost' = IF job[p].kind = "recover" THEN NoSnap ELSE lost
        /\ snapshots' = snapshots /\ body' = body
    BY DEF CommitPointer
  <1>2. /\ mine \in SnapIds /\ mine \in snapshots
        /\ body[mine].entries = loc[p].draft
    BY DEF IInv, OwnInv, PendingInv, InFlight, Holding
  <1>3. CurrentValue' = [exists |-> TRUE, entries |-> loc[p].draft]
    <2>1. catalog' # Absent
      BY <1>1, <1>2 DEF IInv
    <2>2. Resolves'
      BY <1>1, <1>2, <2>1 DEF Resolves
    <2> QED
      BY <1>1, <1>2, <2>2 DEF CurrentValue
  <1>4. Draft(p) /\ pc[p] \in {"swap", "abandoned"}
    BY DEF IInv, DraftInv, InFlight
  <1>5. job[p].kind \in {"init", "recover", "append", "remove"}
    BY DEF IInv, TypeOK, Jobs, MutateKinds
  <1>6. CASE job[p].kind = "init"
    <2>1. catalog = Absent /\ loc[p].draft = {}
      BY <1>1, <1>4, <1>6 DEF Draft
    <2>2. lost = NoSnap /\ lost' = lost
      BY <1>1, <1>4, <1>6 DEF IInv, LostInv
    <2>3. ~CurrentValue.exists
      BY <2>1, ValueRead
    <2> QED
      BY <1>3, <1>6, <2>1, <2>2, <2>3 DEF Abs!TakeEffect
  <1>7. CASE job[p].kind = "recover"
    <2>1. loc[p].draft \in SUBSET Entries
      BY DEF IInv, TypeOK, Locals
    <2>2. (lost # NoSnap)' = FALSE
      BY <1>1, <1>7
    <2> QED
      BY <1>3, <1>7, <2>1, <2>2 DEF Abs!TakeEffect
  <1>8. CASE job[p].kind \in {"append", "remove"}
    <2>1. /\ catalog.current \in SnapIds
          /\ loc[p].draft = Effect(job[p], body[catalog.current].entries)
      BY <1>1, <1>4, <1>8 DEF Draft, MutateKinds
    <2>2. catalog # Absent
      BY <2>1 DEF IInv
    <2>3. CurrentValue.exists /\ CurrentValue.entries = body[catalog.current].entries
      BY <2>2, ValueRead
    <2>4. loc[p].draft = Abs!Effect(job[p], CurrentValue.entries)
      BY <2>1, <2>3 DEF Effect, Abs!Effect
    <2>5. lost' = lost
      BY <1>1, <1>8
    <2> QED
      BY <1>3, <1>8, <2>3, <2>4, <2>5 DEF Abs!TakeEffect
  <1> QED
    BY <1>5, <1>6, <1>7, <1>8

LEMMA BeginMaps ==
    ASSUME TypeOK, NEW p \in Procs, NEW j \in Jobs, Begin(p, j), CurrentValue' = CurrentValue
    PROVE  Abs!Next
  <1>1. pc[p] = "idle" /\ pc'[p] \in {"get", "plan", "read"} /\ \A q \in Procs \ {p} : pc'[q] = pc[q]
    BY DEF TypeOK, Begin
  <1>2. CallState(p) = "idle" /\ CallState(p)' = "pending"
    BY <1>1 DEF CallState
  <1>3. [q \in Procs |-> CallState(q)]' = [[q \in Procs |-> CallState(q)] EXCEPT ![p] = "pending"]
    BY <1>1, <1>2, StateStep
  <1>4. Abs!Invoke(p, j)
    BY <1>2, <1>3 DEF Abs!Invoke, Begin
  <1> QED
    BY <1>4 DEF Abs!Next

\* A step of call p that moves it on without an answer.
LEMMA GotoMaps ==
    ASSUME TypeOK, NEW p \in Procs, NEW step, Goto(p, step), CallState(p) = "pending",
           step \in {"get", "list", "recheck", "sleep", "read", "plan", "check", "put", "swap", "drop"},
           CurrentValue' = CurrentValue, UNCHANGED lost
    PROVE  UNCHANGED Abs!vars
  <1>1. pc'[p] = step /\ \A q \in Procs \ {p} : pc'[q] = pc[q]
    BY DEF TypeOK, Goto
  <1>2. CallState(p)' = "pending"
    BY <1>1 DEF CallState
  <1> QED
    BY <1>1, <1>2, HiddenStep DEF Goto

\* The steps that neither upload nor commit.
LEMMA LocalStepMaps ==
    ASSUME IInv, NEW p \in Procs, CurrentValue' = CurrentValue,
           \/ InitializeGet(p) \/ InitializeList(p) \/ InitializeRecheck(p) \/ InitializeGiveUp(p)
           \/ MutateRead(p) \/ RecoverPlan(p) \/ RecoverCheck(p)
    PROVE  [Abs!Next]_Abs!vars
  <1>1. /\ pc[p] \in {"get", "list", "recheck", "sleep", "read", "plan", "check"}
        /\ lost' = lost /\ TypeOK
    BY DEF InitializeGet, InitializeList, InitializeRecheck, InitializeGiveUp, MutateRead,
           RecoverPlan, RecoverCheck, IInv
  <1>2. CallState(p) = "pending"
    BY <1>1 DEF CallState
  <1>3. ASSUME Return(p, "refused") \/ Return(p, "conflict") PROVE Abs!Next
    BY <1>1, <1>2, <1>3, TruthfulAnswers, ReturnMaps DEF Answers
  <1>4. CASE InitializeGet(p) \/ InitializeList(p) \/ InitializeRecheck(p) \/ InitializeGiveUp(p)
    <2>1. job[p].kind = "init"
      BY <1>4 DEF IInv, DraftInv, Draft, InitializeGet, InitializeList, InitializeRecheck,
         InitializeGiveUp
    <2>2. CASE ReturnCurrent(p)
      BY <1>1, <1>2, <2>1, <2>2, ReturnCurrentMaps
    <2>3. ASSUME NEW step \in {"list", "recheck", "sleep", "put"}, Goto(p, step)
          PROVE  UNCHANGED Abs!vars
      BY <1>1, <1>2, <2>3, GotoMaps
    <2> QED
      BY <1>3, <1>4, <2>2, <2>3 DEF InitializeGet, InitializeList, InitializeRecheck,
         InitializeGiveUp
  <1>5. CASE MutateRead(p)
    <2>1. CASE Resolves /\ job[p].kind = "append" /\ job[p].entry \in body[catalog.current].entries
               /\ Return(p, "noop")
      <3>1. CurrentValue.entries = body[catalog.current].entries
        BY <2>1 DEF CurrentValue
      <3>2. Abs!Truthful(p, "noop")
        BY <1>2, <2>1, <3>1 DEF Abs!Truthful
      <3> QED
        BY <1>1, <1>2, <2>1, <3>2, ReturnMaps DEF Answers
    <2>2. CASE Goto(p, "put")
      BY <1>1, <1>2, <2>2, GotoMaps
    <2> QED
      BY <1>3, <1>5, <2>1, <2>2 DEF MutateRead
  <1>6. CASE RecoverPlan(p)
    <2>1. CASE Goto(p, "check")
      BY <1>1, <1>2, <2>1, GotoMaps
    <2> QED
      BY <1>3, <1>6, <2>1 DEF RecoverPlan
  <1>7. CASE RecoverCheck(p)
    <2>1. CASE Goto(p, "put")
      BY <1>1, <1>2, <2>1, GotoMaps
    <2> QED
      BY <1>3, <1>7, <2>1 DEF RecoverCheck
  <1> QED
    BY <1>4, <1>5, <1>6, <1>7

LEMMA PutSnapshotMaps ==
    ASSUME IInv, NEW p \in Procs, PutSnapshot(p), CurrentValue' = CurrentValue
    PROVE  [Abs!Next]_Abs!vars
  <1>1. pc[p] = "put" /\ lost' = lost /\ TypeOK /\ (Goto(p, "swap") \/ Return(p, "error"))
    BY DEF PutSnapshot, IInv
  <1>2. CallState(p) = "pending"
    BY <1>1 DEF CallState
  <1>3. CASE Goto(p, "swap")
    BY <1>1, <1>2, <1>3, GotoMaps
  <1>4. CASE Return(p, "error")
    BY <1>1, <1>2, <1>4, TruthfulAnswers, ReturnMaps DEF Answers
  <1> QED
    BY <1>1, <1>3, <1>4

LEMMA SwapPointerMaps ==
    ASSUME AdapterRetries = FALSE, IInv, IInv', [Next]_vars, NEW p \in Procs, SwapPointer(p)
    PROVE  [Abs!Next]_Abs!vars
  <1>1. pc[p] = "swap" /\ InFlight(p) /\ TypeOK
    BY DEF SwapPointer, InFlight, IInv
  <1>2. CallState(p) = "pending"
    BY <1>1 DEF CallState
  <1>3. CASE CommitPointer(p) /\ (Goto(p, "audit") \/ Goto(p, "unsure"))
    <2>1. pc'[p] \in {"audit", "unsure"} /\ \A q \in Procs \ {p} : pc'[q] = pc[q]
      BY <1>1, <1>3 DEF TypeOK, Goto
    <2>2. CallState(p)' = "applied"
      BY <2>1 DEF CallState
    <2>3. [q \in Procs |-> CallState(q)]' = [[q \in Procs |-> CallState(q)] EXCEPT ![p] = "applied"]
      BY <1>1, <2>1, <2>2, StateStep
    <2>4. Abs!TakeEffect(p)
      BY <1>1, <1>3, CommitMaps
    <2>5. job' = job /\ last' = last
      BY <1>3 DEF Goto
    <2>6. Abs!Apply(p)
      BY <1>2, <2>3, <2>4, <2>5 DEF Abs!Apply
    <2> QED
      BY <2>6 DEF Abs!Next
  <1>4. CASE Goto(p, "drop") /\ UNCHANGED <<store, history>>
    <2>1. CurrentValue' = CurrentValue
      BY <1>4, SameValue
    <2> QED
      BY <1>1, <1>2, <1>4, <2>1, GotoMaps
  <1>5. CASE /\ pc' = [pc EXCEPT ![p] = "abandoned"] /\ last' = [last EXCEPT ![p] = "error"]
             /\ UNCHANGED <<job, store, history>>
    <2>1. CurrentValue' = CurrentValue
      BY <1>5, SameValue
    <2>2. pc'[p] = "abandoned" /\ \A q \in Procs \ {p} : pc'[q] = pc[q]
      BY <1>1, <1>5 DEF TypeOK
    <2>3. CallState(p)' = "abandoned"
      BY <2>2 DEF CallState
    <2>4. [q \in Procs |-> CallState(q)]' = [[q \in Procs |-> CallState(q)] EXCEPT ![p] = "abandoned"]
      BY <1>1, <2>2, <2>3, StateStep
    <2>5. Abs!Abandon(p)
      BY <1>2, <1>5, <2>1, <2>4 DEF Abs!Abandon
    <2> QED
      BY <2>5 DEF Abs!Next
  <1> QED
    BY <1>3, <1>4, <1>5 DEF SwapPointer

LEMMA SettleAbandonedMaps ==
    ASSUME IInv, IInv', [Next]_vars, NEW p \in Procs, SettleAbandoned(p)
    PROVE  [Abs!Next]_Abs!vars
  <1>1. pc[p] = "abandoned" /\ InFlight(p) /\ TypeOK /\ Return(p, last[p])
    BY DEF SettleAbandoned, InFlight, IInv
  <1>2. Abs!TakeEffect(p) \/ (CurrentValue' = CurrentValue /\ lost' = lost)
    <2>1. CASE CommitPointer(p)
      BY <1>1, <2>1, CommitMaps
    <2>2. CASE UNCHANGED <<store, history>>
      BY <2>2, SameValue
    <2> QED
      BY <2>1, <2>2 DEF SettleAbandoned
  <1>3. [q \in Procs |-> CallState(q)]' = [[q \in Procs |-> CallState(q)] EXCEPT ![p] = "idle"]
    <2>1. pc'[p] = "idle" /\ \A q \in Procs \ {p} : pc'[q] = pc[q]
      BY <1>1, ReturnFacts DEF OthersKept
    <2>2. CallState(p)' = "idle"
      BY <2>1 DEF CallState
    <2> QED
      BY <1>1, <2>1, <2>2, StateStep
  <1>4. CallState(p) = "abandoned"
    BY <1>1 DEF CallState
  <1>5. last' = last /\ job' = [job EXCEPT ![p] = NoJob]
    BY <1>1 DEF Return, TypeOK
  <1>6. Abs!Settle(p)
    BY <1>2, <1>3, <1>4, <1>5 DEF Abs!Settle
  <1> QED
    BY <1>6 DEF Abs!Next

\* A refused PUT: the answer, or the next attempt.
LEMMA DropSnapshotMaps ==
    ASSUME IInv, NEW p \in Procs, DropSnapshot(p), CurrentValue' = CurrentValue
    PROVE  [Abs!Next]_Abs!vars
  <1>1. pc[p] = "drop" /\ lost' = lost /\ TypeOK
    BY Zenon DEF DropSnapshot, IInv, history
  <1>2. CallState(p) = "pending"
    BY <1>1 DEF CallState
  <1>3. \/ job[p].kind = "init" /\ ReturnCurrent(p)
        \/ Return(p, "conflict")
        \/ Goto(p, "read")
    BY Zenon DEF DropSnapshot
  <1>4. CASE job[p].kind = "init" /\ ReturnCurrent(p)
    BY <1>1, <1>2, <1>4, ReturnCurrentMaps
  <1>5. CASE Return(p, "conflict")
    BY <1>1, <1>2, <1>5, TruthfulAnswers, ReturnMaps DEF Answers
  <1>6. CASE Goto(p, "read")
    BY <1>1, <1>2, <1>6, GotoMaps
  <1> QED
    BY <1>3, <1>4, <1>5, <1>6

\* The last answers: of a commit, of an unknown outcome, of a replica that dies.
LEMMA LastAnswerMaps ==
    ASSUME IInv, NEW p \in Procs, RethrowUnsure(p) \/ AppendAudit(p) \/ Crash(p),
           CurrentValue' = CurrentValue
    PROVE  Abs!Next
  <1>1. TypeOK /\ lost' = lost
    BY DEF IInv, RethrowUnsure, AppendAudit, Crash
  <1>2. CASE RethrowUnsure(p)
    <2>1. CallState(p) = "applied" /\ Return(p, "error")
      BY <1>2 DEF RethrowUnsure, CallState
    <2> QED
      BY <1>1, <2>1, TruthfulAnswers, ReturnMaps DEF Answers
  <1>3. CASE AppendAudit(p)
    <2>1. CallState(p) = "applied" /\ Return(p, "ok")
      BY <1>3 DEF AppendAudit, CallState
    <2> QED
      BY <1>1, <2>1, TruthfulAnswers, ReturnMaps DEF Answers
  <1>4. CASE Crash(p)
    <2>1. CallState(p) \in {"pending", "applied"} /\ Return(p, "crashed")
      BY <1>4 DEF Crash, CallState
    <2> QED
      BY <1>1, <2>1, TruthfulAnswers, ReturnMaps DEF Answers
  <1> QED
    BY <1>2, <1>3, <1>4

\* A step that leaves the calls alone: a sweep, the clock, or no step at all.
LEMMA QuietMaps ==
    ASSUME UNCHANGED <<pc, job, last, lost>>, CurrentValue' = CurrentValue
    PROVE  UNCHANGED Abs!vars
  <1>1. [q \in Procs |-> CallState(q)]' = [q \in Procs |-> CallState(q)]
    BY DEF CallState
  <1> QED
    BY <1>1 DEF Abs!vars

LEMMA LoseMaps ==
    ASSUME IInv, LoseCatalog
    PROVE  Abs!Next
  <1>1. CurrentValue.exists /\ CurrentValue.entries = body[catalog.current].entries
    BY ValueRead DEF LoseCatalog
  <1>2. CurrentValue' = Abs!NoValue
    BY DEF LoseCatalog, CurrentValue, Resolves, Abs!NoValue
  <1>3. (lost # NoSnap)' = (lost # NoSnap \/ CurrentValue.entries # {})
    <2>1. catalog.current # NoSnap
      BY ValueRead DEF LoseCatalog
    <2> QED
      BY <1>1, <2>1 DEF LoseCatalog
  <1>4. [q \in Procs |-> CallState(q)]' = [q \in Procs |-> CallState(q)]
    BY DEF CallState, LoseCatalog
  <1>5. Abs!Lose
    BY <1>1, <1>2, <1>3, <1>4 DEF Abs!Lose, LoseCatalog
  <1> QED
    BY <1>5 DEF Abs!Next

\* Every step of Catalog is a step of CatalogAbs, or one that callers cannot see.
LEMMA NextMaps ==
    ASSUME AdapterRetries = FALSE
    PROVE  IInv /\ IInv' /\ [Next]_vars => [Abs!Next]_Abs!vars
  <1> SUFFICES ASSUME IInv, IInv', [Next]_vars PROVE [Abs!Next]_Abs!vars
    OBVIOUS
  <1>1. CASE LoseCatalog
    BY <1>1, LoseMaps
  <1>2. ASSUME NEW p \in Procs, SwapPointer(p) \/ SettleAbandoned(p) PROVE [Abs!Next]_Abs!vars
    BY <1>2, SwapPointerMaps, SettleAbandonedMaps
  <1>3. CASE ~LoseCatalog /\ ~\E p \in Procs : SwapPointer(p) \/ SettleAbandoned(p)
    <2>1. catalog' = catalog
      BY <1>3, ZenonT(60)
      DEF Next, Step, SweepStep, Begin, InitializeGet, InitializeList, InitializeRecheck,
          InitializeGiveUp, MutateRead, RecoverPlan, RecoverCheck, PutSnapshot, Upload,
          RethrowUnsure, DropSnapshot, AppendAudit, Crash,
          SweepRead, SweepList, SweepDelete, SweepCrash, Tick
    <2>2. CurrentValue' = CurrentValue
      BY <2>1, SameValue
    <2>3. ASSUME NEW p \in Procs, NEW j \in Jobs, Begin(p, j) PROVE Abs!Next
      BY <2>2, <2>3, BeginMaps DEF IInv
    <2>4. ASSUME NEW p \in Procs, Step(p) PROVE [Abs!Next]_Abs!vars
      BY <1>3, <2>2, <2>4, LocalStepMaps, PutSnapshotMaps, DropSnapshotMaps, LastAnswerMaps DEF Step
    <2>5. ASSUME NEW p \in Procs, Crash(p) PROVE Abs!Next
      BY <2>2, <2>5, LastAnswerMaps
    <2>6. CASE Tick \/ (\E r \in Reapers : SweepStep(r)) \/ UNCHANGED vars
      <3>1. UNCHANGED <<pc, job, last, lost>>
        BY <2>6 DEF Tick, SweepStep, SweepRead, SweepList, SweepDelete, SweepCrash
      <3> QED
        BY <2>2, <3>1, QuietMaps
    <2> QED
      BY <1>3, <2>3, <2>4, <2>5, <2>6 DEF Next
  <1> QED
    BY <1>1, <1>2, <1>3

LEMMA InitMaps == Init => Abs!Init
  <1> SUFFICES ASSUME Init PROVE Abs!Init
    OBVIOUS
  <1>1. CurrentValue = Abs!NoValue
    BY DEF Init, CurrentValue, Resolves, Abs!NoValue
  <1>2. [q \in Procs |-> CallState(q)] = [q \in Procs |-> "idle"]
    BY DEF Init, CallState
  <1> QED
    BY <1>1, <1>2 DEF Init, Abs!Init

-----------------------------------------------------------------------------
(* The theorems.                                                           *)

(***************************************************************************)
(* catalog.json never names a snapshot that does not exist, whatever the   *)
(* interleaving of writers, sweeps, crashes and lost answers: neither the  *)
(* cleanup of a refused attempt (mutateSnapshot, initialize,               *)
(* commitRecovery) nor expireSnapshots deletes the current snapshot.       *)
(***************************************************************************)
THEOREM PointerResolvesHolds ==
    ASSUME AdapterRetries = FALSE
    PROVE  Spec => []PointerResolves
BY PointerInv, Invariance, PTL

(***************************************************************************)
(* The snapshot that the current one replaced by a mutation can still be   *)
(* read (previous_snapshot_id, which expireSnapshots protects).            *)
(***************************************************************************)
THEOREM RollbackAvailableHolds ==
    ASSUME AdapterRetries = FALSE
    PROVE  Spec => []RollbackAvailable
<1>1. IInv => RollbackAvailable
  BY FieldTypes DEF IInv, NeededExist, Needed, IdsInv, RollbackAvailable
<1> QED
  BY <1>1, Invariance, PTL

(***************************************************************************)
(* Every attempt that withCasRetry counts as lost is matched by a change   *)
(* of catalog.json of its own since the call began.                        *)
(***************************************************************************)
THEOREM ConflictMeansProgressHolds ==
    ASSUME AdapterRetries = FALSE
    PROVE  Spec => []ConflictMeansProgress
<1>1. IInv => ConflictMeansProgress
  <2> SUFFICES ASSUME IInv, NEW p \in Procs, pc[p] # "idle"
               PROVE  loc[p].since + loc[p].tries + (IF pc[p] = "drop" THEN 1 ELSE 0) <= moves
    BY DEF ConflictMeansProgress
  <2>1. /\ loc[p].since \in Nat /\ loc[p].tries \in Nat /\ loc[p].mark \in Nat /\ moves \in Nat
        /\ Progress(p)
    BY FieldTypes DEF IInv, TypeOK, ProgressInv
  <2> QED
    BY <2>1 DEF Progress
<1> QED
  BY <1>1, Invariance, PTL

(***************************************************************************)
(* At most one audit event per snapshot, and none for a snapshot whose     *)
(* author may still delete it (appendAudit follows the commit).            *)
(***************************************************************************)
THEOREM AuditOnceHolds ==
    ASSUME AdapterRetries = FALSE
    PROVE  Spec => []AuditOnce
<1>1. IInv => AuditOnce
  BY DEF IInv, AuditInv, Holding, AuditOnce
<1> QED
  BY <1>1, Invariance, PTL

(***************************************************************************)
(* A snapshot object is written once: only the upload of a fresh id        *)
(* touches body, and a deleted object does not come back (the immutability *)
(* that readSnapshotEntry's cache relies on).                              *)
(***************************************************************************)
THEOREM SnapshotsImmutableHolds == Spec => SnapshotsImmutable
<1>1. TypeOK /\ [Next]_vars
        => [\A s \in SnapIds : s < nextId =>
             body'[s] = body[s] /\ (s \in snapshots' => s \in snapshots)]_vars
  BY BodiesKept
<1> QED
  BY <1>1, TypeCorrect, PTL DEF Spec, SnapshotsImmutable

(***************************************************************************)
(* CatalogService implements the atomic catalog of CatalogAbs: with the    *)
(* snapshots, the ETags, the retries and the sweeps hidden, each call      *)
(* takes effect at one instant and at most once, on the value the previous *)
(* one left, initialize never hides a catalog that was lost, and each      *)
(* answer (withCasRetry's conflict, ifAbsent's no-op, a rethrown error) is *)
(* truthful.                                                               *)
(***************************************************************************)
THEOREM ImplementsCatalogAbsHolds ==
    ASSUME AdapterRetries = FALSE
    PROVE  Spec => ImplementsCatalogAbs
BY InitMaps, NextMaps, Invariance, PTL DEF Spec, ImplementsCatalogAbs, Abs!Spec

=============================================================================
