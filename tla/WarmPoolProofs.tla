--------------------------- MODULE WarmPoolProofs ---------------------------
(***************************************************************************)
(* Proofs that a sandbox of the warm pool is handed out once, that the     *)
(* pool stays within its size, that a running session keeps its sandbox    *)
(* and that the pool object keeps track of what was claimed, for any       *)
(* number of sandboxes, sessions and replicas, any pool sizes and any      *)
(* number of faults.                                                       *)
(*                                                                         *)
(* HandedOutOnce is not inductive: that the records of two sessions name   *)
(* different sandboxes rests on what their routes claimed, and that on     *)
(* what the pool object still says of a sandbox somebody has claimed,      *)
(* whatever sweeps, clean-ups and late creations do to it meanwhile.       *)
(* SessionKeepsSandbox needs, for each of those who may destroy a sandbox  *)
(* or drop its member, what is still true of it when they do.              *)
(***************************************************************************)
EXTENDS WarmPool, FiniteSetTheorems, TLAPS

-----------------------------------------------------------------------------
(* Type correctness.  TypeOK is not inductive: that what a sweep, a clean-up or a  *)
(* route works on is a member, and not None, is part of the invariant.             *)

Ended == {"done", "failed", "crashed"}

\* The types, component by component.
MemType == mem \in [Boxes -> Members]
TimeType == late \in [Boxes -> BOOLEAN] /\ stale \in [Boxes -> BOOLEAN] /\ cooling \in BOOLEAN
UpType == up \in [Boxes -> BOOLEAN]
FlightType == flight \in [Boxes -> {"no", "fill", "late", "lost"}]
FreshType == fresh \subseteq Boxes /\ by \in [Boxes -> Sweepers \union {None}]
FillType == fpc \in [Fillers -> {"off", "boot", "publish", "reset", "fail", "reclaim"}]
RecType == rec \in [Sessions -> Records]
RouteType ==
    /\ spc \in [Sessions -> RouteSteps]
    /\ claim \in [Sessions -> Boxes \union {None}]
    /\ probe \in [Sessions -> {"none", "running", "ok", "failed"}]
    \* A route past its claim knows which member it has.
    /\ \A s \in Sessions : spc[s] \notin Ended \union {"idle", "cold"} => claim[s] \in Boxes
SweepType ==
    /\ wpc \in [Sweepers -> {"idle", "scan", "items", "remove", "retire", "fill"}]
    /\ seen \in [Sweepers -> [Boxes -> Members]]
    /\ cur \in [Sweepers -> Boxes \union {None}]
    \* A sweep that works on a member knows which one.
    /\ \A r \in Sweepers : wpc[r] \in {"remove", "retire"} => cur[r] \in Boxes
ReaperType ==
    /\ opc \in {"idle", "sessions", "pools", "reap"}
    /\ listed \subseteq Boxes /\ owned \subseteq Boxes
CleanType ==
    /\ clean \in [Actors -> Cleanups]
    \* So does a clean-up.
    /\ \A a \in Actors : clean[a].step # "off" => clean[a].box \in Boxes
FaultType == faults \in Nat

Shape ==
    /\ MemType /\ TimeType /\ UpType /\ FlightType /\ FreshType /\ FillType /\ RecType
    /\ RouteType /\ SweepType /\ ReaperType /\ CleanType /\ FaultType

-----------------------------------------------------------------------------
\* The steps of the specification, one by one.
LEMMA NextCases ==
    Next =>
        \/ \E a \in Actors : CleanRead(a)
        \/ \E a \in Actors : CleanDestroy(a)
        \/ \E a \in Actors : CleanMark(a)
        \/ \E a \in Actors : CleanRemove(a)
        \/ \E a \in Actors : CleanFails(a)
        \/ \E b \in Boxes : CreateLands(b)
        \/ \E b \in Boxes : CreateFails(b)
        \/ \E b \in Boxes : Boot(b)
        \/ \E b \in Boxes : BootTimeout(b)
        \/ \E b \in Boxes : BackOff(b)
        \/ \E b \in Boxes : PublishReady(b)
        \/ \E b \in Boxes : ResetFailures(b)
        \/ \E f \in Fillers : ReclaimCreation(f)
        \/ \E s \in Sessions : Reserve(s)
        \/ \E s \in Sessions : RetireClaim(s)
        \/ \E s \in Sessions : PublishCold(s)
        \/ \E s \in Sessions : ProbeSucceeds(s)
        \/ \E s \in Sessions : ProbeFails(s)
        \/ \E s \in Sessions : CreateSession(s)
        \/ \E s \in Sessions : RouteFails(s)
        \/ \E s \in Sessions : AwaitProbe(s)
        \/ \E s \in Sessions : HandoffRead(s)
        \/ \E s \in Sessions : HandoffAssign(s)
        \/ \E s \in Sessions : SetRunning(s)
        \/ \E s \in Sessions : Finish(s)
        \/ \E s \in Sessions : Abandon(s)
        \/ \E s \in Sessions : ReplaceSandbox(s)
        \/ \E s \in Sessions : MarkFailed(s)
        \/ \E s \in Sessions : RouteCrash(s)
        \/ \E s \in Sessions : EndSession(s)
        \/ \E s \in Sessions : ReclaimSession(s)
        \/ \E s \in Sessions : ReapSession(s)
        \/ \E r \in Sweepers : Trim(r)
        \/ \E r \in Sweepers : Scan(r)
        \/ \E r \in Sweepers, b \in Boxes : ItemClaimed(r, b)
        \/ \E r \in Sweepers, b \in Boxes : ItemCreating(r, b)
        \/ \E r \in Sweepers, b \in Boxes : ItemReady(r, b)
        \/ \E r \in Sweepers, b \in Boxes : ItemRetiring(r, b)
        \/ \E r \in Sweepers : ItemRemove(r)
        \/ \E r \in Sweepers : ItemRetire(r)
        \/ \E r \in Sweepers : ReserveCreations(r)
        \/ \E r \in Sweepers : EndSweep(r)
        \/ \E r \in Sweepers : SweepCrash(r)
        \/ ListActive
        \/ ListSessions
        \/ ListPools
        \/ ReapOrphan
        \/ \E b \in Boxes : OperationExpires(b)
        \/ \E b \in Boxes : ReadinessExpires(b)
        \/ CoolDown
  BY DEF Next, Cleanup, Fill, Route, Sweep, Reconcile, Expiry, Fillers

\* What a step makes of members, records and clean-ups has its type.
LEMMA MemberFacts ==
    /\ NoMember \in Members /\ NewMember \in Members /\ LateMember \in Members
    /\ \A m \in Members, s \in Sessions : Claimed(m, s) \in Members
  BY DEF Members, NoMember, NewMember, LateMember, Claimed

LEMMA RecordFacts ==
    /\ NoRecord \in Records
    /\ \A b \in Boxes \union {None} : Starting(b) \in Records
  BY DEF Records, NoRecord, Starting

LEMMA CleanupFacts ==
    /\ NoCleanup \in Cleanups /\ NoCleanup.step = "off"
    /\ \A b \in Boxes, t \in {"none", "fill", "claim"} :
        CleanupOf(b, t) \in Cleanups /\ CleanupOf(b, t).box = b
    /\ \A c \in Cleanups, d \in Sessions \union {None} :
        Destroying(c, d) \in Cleanups /\ Destroying(c, d).box = c.box
  BY DEF Cleanups, NoCleanup, CleanupOf, Destroying

LEMMA MemTypeStep == Shape /\ Next => MemType'
<1> SUFFICES ASSUME Shape, Next PROVE MemType'
  OBVIOUS
<1> USE DEF Shape, MemType, Removed, Retired, Members
<1>1. CASE \E a \in Actors : CleanRemove(a)
  BY <1>1, MemberFacts DEF CleanRemove
<1>2. CASE \E b \in Boxes : PublishReady(b)
  BY <1>2, MemberFacts DEF PublishReady
<1>3. CASE \E f \in Fillers : ReclaimCreation(f)
  BY <1>3, MemberFacts DEF ReclaimCreation, Fillers
<1>4. CASE \E s \in Sessions : Reserve(s)
  BY <1>4, MemberFacts DEF Reserve
<1>5. CASE \E s \in Sessions : RetireClaim(s)
  BY <1>5, MemberFacts DEF RetireClaim
<1>6. CASE \E s \in Sessions : ProbeFails(s)
  BY <1>6, MemberFacts DEF ProbeFails
<1>7. CASE \E s \in Sessions : HandoffAssign(s)
  <2> PICK s \in Sessions : HandoffAssign(s)
    BY <1>7
  <2>1. CASE mem' = mem
    BY <2>1
  <2>2. CASE mem' = [mem EXCEPT ![claim[s]].assigned = TRUE]
    BY <2>2
  <2> QED
    BY <2>1, <2>2 DEF HandoffAssign
<1>8. CASE \E s \in Sessions : Abandon(s)
  BY <1>8, MemberFacts DEF Abandon
<1>9. CASE \E r \in Sweepers : Trim(r)
  BY <1>9, MemberFacts DEF Trim
<1>10. CASE \E r \in Sweepers : ItemRemove(r)
  BY <1>10, MemberFacts DEF ItemRemove
<1>11. CASE \E r \in Sweepers : ItemRetire(r)
  BY <1>11, MemberFacts DEF ItemRetire
<1>12. CASE \E r \in Sweepers : ReserveCreations(r)
  BY <1>12, MemberFacts DEF ReserveCreations
<1>13. CASE UNCHANGED <<mem>>
  BY <1>13
<1> QED
  BY <1>1, <1>2, <1>3, <1>4, <1>5, <1>6, <1>7, <1>8, <1>9, <1>10, <1>11, <1>12, <1>13, NextCases
    DEF CleanRead, CleanDestroy, CleanMark, CleanFails, CreateLands, CreateFails, Boot,
      BootTimeout, BackOff, ResetFailures, PublishCold, ProbeSucceeds, CreateSession,
      RouteFails, AwaitProbe, HandoffRead, SetRunning, Finish, ReplaceSandbox, MarkFailed,
      RouteCrash, EndSession, ReclaimSession, ReapSession, Scan, ItemClaimed, ItemCreating,
      ItemReady, ItemRetiring, EndSweep, SweepCrash, ListActive, ListSessions, ListPools,
      ReapOrphan, OperationExpires, ReadinessExpires, CoolDown, pool, provider, fillers, routes,
      sweeps, reaper

LEMMA TimeTypeStep == Shape /\ Next => TimeType'
<1> SUFFICES ASSUME Shape, Next PROVE TimeType'
  OBVIOUS
<1> USE DEF Shape, TimeType
<1>1. CASE \E b \in Boxes : BackOff(b)
  BY <1>1 DEF BackOff
<1>2. CASE \E b \in Boxes : ResetFailures(b)
  BY <1>2 DEF ResetFailures
<1>3. CASE \E s \in Sessions : Reserve(s)
  BY <1>3 DEF Reserve
<1>4. CASE \E b \in Boxes : OperationExpires(b)
  BY <1>4 DEF OperationExpires
<1>5. CASE \E b \in Boxes : ReadinessExpires(b)
  BY <1>5 DEF ReadinessExpires
<1>6. CASE CoolDown
  BY <1>6 DEF CoolDown
<1>7. CASE UNCHANGED <<late, stale, cooling>>
  BY <1>7
<1> QED
  BY <1>1, <1>2, <1>3, <1>4, <1>5, <1>6, <1>7, NextCases, ZenonT(40)
    DEF CleanRead, CleanDestroy, CleanMark, CleanRemove, CleanFails, CreateLands, CreateFails,
      Boot, BootTimeout, PublishReady, ReclaimCreation, RetireClaim, PublishCold, ProbeSucceeds,
      ProbeFails, CreateSession, RouteFails, AwaitProbe, HandoffRead, HandoffAssign, SetRunning,
      Finish, Abandon, ReplaceSandbox, MarkFailed, RouteCrash, EndSession, ReclaimSession,
      ReapSession, Trim, Scan, ItemClaimed, ItemCreating, ItemReady, ItemRetiring, ItemRemove,
      ItemRetire, ReserveCreations, EndSweep, SweepCrash, ListActive, ListSessions, ListPools,
      ReapOrphan, pool, provider, fillers, routes, sweeps, reaper

LEMMA UpTypeStep == Shape /\ Next => UpType'
<1> SUFFICES ASSUME Shape, Next PROVE UpType'
  OBVIOUS
<1> USE DEF Shape, UpType
<1>1. CASE \E a \in Actors : CleanDestroy(a)
  BY <1>1 DEF CleanDestroy
<1>2. CASE \E b \in Boxes : CreateLands(b)
  BY <1>2 DEF CreateLands
<1>3. CASE \E s \in Sessions : ReclaimSession(s)
  BY <1>3 DEF ReclaimSession
<1>4. CASE ReapOrphan
  BY <1>4 DEF ReapOrphan
<1>5. CASE UNCHANGED <<up>>
  BY <1>5
<1> QED
  BY <1>1, <1>2, <1>3, <1>4, <1>5, NextCases
    DEF CleanRead, CleanMark, CleanRemove, CleanFails, CreateFails, Boot, BootTimeout, BackOff,
      PublishReady, ResetFailures, ReclaimCreation, Reserve, RetireClaim, PublishCold,
      ProbeSucceeds, ProbeFails, CreateSession, RouteFails, AwaitProbe, HandoffRead,
      HandoffAssign, SetRunning, Finish, Abandon, ReplaceSandbox, MarkFailed, RouteCrash,
      EndSession, ReapSession, Trim, Scan, ItemClaimed, ItemCreating, ItemReady, ItemRetiring,
      ItemRemove, ItemRetire, ReserveCreations, EndSweep, SweepCrash, ListActive, ListSessions,
      ListPools, OperationExpires, ReadinessExpires, CoolDown, pool, provider, fillers, routes,
      sweeps, reaper

LEMMA FlightTypeStep == Shape /\ Next => FlightType'
<1> SUFFICES ASSUME Shape, Next PROVE FlightType'
  OBVIOUS
<1> USE DEF Shape, FlightType
<1>1. CASE \E b \in Boxes : CreateLands(b)
  BY <1>1 DEF CreateLands
<1>2. CASE \E b \in Boxes : CreateFails(b)
  BY <1>2 DEF CreateFails
<1>3. CASE \E b \in Boxes : BootTimeout(b)
  BY <1>3 DEF BootTimeout
<1>4. CASE \E r \in Sweepers : ReserveCreations(r)
  BY <1>4 DEF ReserveCreations
<1>5. CASE \E r \in Sweepers : SweepCrash(r)
  BY <1>5 DEF SweepCrash
<1>6. CASE UNCHANGED <<flight>>
  BY <1>6
<1> QED
  BY <1>1, <1>2, <1>3, <1>4, <1>5, <1>6, NextCases
    DEF CleanRead, CleanDestroy, CleanMark, CleanRemove, CleanFails, Boot, BackOff,
      PublishReady, ResetFailures, ReclaimCreation, Reserve, RetireClaim, PublishCold,
      ProbeSucceeds, ProbeFails, CreateSession, RouteFails, AwaitProbe, HandoffRead,
      HandoffAssign, SetRunning, Finish, Abandon, ReplaceSandbox, MarkFailed, RouteCrash,
      EndSession, ReclaimSession, ReapSession, Trim, Scan, ItemClaimed, ItemCreating, ItemReady,
      ItemRetiring, ItemRemove, ItemRetire, EndSweep, ListActive, ListSessions, ListPools,
      ReapOrphan, OperationExpires, ReadinessExpires, CoolDown, pool, provider, fillers, routes,
      sweeps, reaper

LEMMA FreshTypeStep == Shape /\ Next => FreshType'
<1> SUFFICES ASSUME Shape, Next PROVE FreshType'
  OBVIOUS
<1> USE DEF Shape, FreshType
<1>1. CASE \E r \in Sweepers : ReserveCreations(r)
  BY <1>1 DEF ReserveCreations
<1>2. CASE UNCHANGED <<fresh, by>>
  BY <1>2
<1> QED
  BY <1>1, <1>2, NextCases
    DEF CleanRead, CleanDestroy, CleanMark, CleanRemove, CleanFails, CreateLands, CreateFails,
      Boot, BootTimeout, BackOff, PublishReady, ResetFailures, ReclaimCreation, Reserve,
      RetireClaim, PublishCold, ProbeSucceeds, ProbeFails, CreateSession, RouteFails,
      AwaitProbe, HandoffRead, HandoffAssign, SetRunning, Finish, Abandon, ReplaceSandbox,
      MarkFailed, RouteCrash, EndSession, ReclaimSession, ReapSession, Trim, Scan, ItemClaimed,
      ItemCreating, ItemReady, ItemRetiring, ItemRemove, ItemRetire, EndSweep, SweepCrash,
      ListActive, ListSessions, ListPools, ReapOrphan, OperationExpires, ReadinessExpires,
      CoolDown, pool, provider, fillers, routes, sweeps, reaper

LEMMA FillTypeStep == Shape /\ Next => FillType'
<1> SUFFICES ASSUME Shape, Next PROVE FillType'
  OBVIOUS
<1> USE DEF Shape, FillType, FillStep, Fillers
<1>1. CASE \E b \in Boxes : CreateLands(b)
  BY <1>1 DEF CreateLands
<1>2. CASE \E b \in Boxes : CreateFails(b)
  BY <1>2 DEF CreateFails
<1>3. CASE \E b \in Boxes : Boot(b)
  BY <1>3 DEF Boot
<1>4. CASE \E b \in Boxes : BootTimeout(b)
  BY <1>4 DEF BootTimeout
<1>5. CASE \E b \in Boxes : BackOff(b)
  BY <1>5 DEF BackOff
<1>6. CASE \E b \in Boxes : PublishReady(b)
  BY <1>6 DEF PublishReady
<1>7. CASE \E b \in Boxes : ResetFailures(b)
  BY <1>7 DEF ResetFailures
<1>8. CASE \E f \in Fillers : ReclaimCreation(f)
  BY <1>8 DEF ReclaimCreation
<1>9. CASE \E r \in Sweepers : ReserveCreations(r)
  BY <1>9 DEF ReserveCreations
<1>10. CASE \E r \in Sweepers : SweepCrash(r)
  BY <1>10 DEF SweepCrash
<1>11. CASE UNCHANGED <<fpc>>
  BY <1>11
<1> QED
  BY <1>1, <1>2, <1>3, <1>4, <1>5, <1>6, <1>7, <1>8, <1>9, <1>10, <1>11, NextCases
    DEF CleanRead, CleanDestroy, CleanMark, CleanRemove, CleanFails, Reserve, RetireClaim,
      PublishCold, ProbeSucceeds, ProbeFails, CreateSession, RouteFails, AwaitProbe,
      HandoffRead, HandoffAssign, SetRunning, Finish, Abandon, ReplaceSandbox, MarkFailed,
      RouteCrash, EndSession, ReclaimSession, ReapSession, Trim, Scan, ItemClaimed,
      ItemCreating, ItemReady, ItemRetiring, ItemRemove, ItemRetire, EndSweep, ListActive,
      ListSessions, ListPools, ReapOrphan, OperationExpires, ReadinessExpires, CoolDown, pool,
      provider, fillers, routes, sweeps, reaper

LEMMA RecTypeStep == Shape /\ Next => RecType'
<1> SUFFICES ASSUME Shape, Next PROVE RecType'
  OBVIOUS
<1> USE DEF Shape, RecType, RouteType, Records
<1>1. CASE \E a \in Actors : CleanMark(a)
  <2> PICK a \in Actors : CleanMark(a)
    BY <1>1
  <2>1. CASE rec' = rec
    BY <2>1
  <2>2. CASE rec' = [rec EXCEPT ![clean[a].dest].reclaimed = TRUE]
    BY <2>2
  <2> QED
    BY <2>1, <2>2 DEF CleanMark
<1>2. CASE \E s \in Sessions : PublishCold(s)
  BY <1>2, RecordFacts DEF PublishCold
<1>3. CASE \E s \in Sessions : CreateSession(s)
  <2> PICK s \in Sessions : CreateSession(s)
    BY <1>3
  <2>1. CASE rec' = rec
    BY <2>1
  <2>2. CASE rec' = [rec EXCEPT ![s] = Starting(claim[s])]
    BY <2>2, RecordFacts
  <2> QED
    BY <2>1, <2>2 DEF CreateSession
<1>4. CASE \E s \in Sessions : SetRunning(s)
  BY <1>4, RecordFacts DEF SetRunning
<1>5. CASE \E s \in Sessions : ReplaceSandbox(s)
  BY <1>5, RecordFacts DEF ReplaceSandbox
<1>6. CASE \E s \in Sessions : MarkFailed(s)
  BY <1>6, RecordFacts DEF MarkFailed
<1>7. CASE \E s \in Sessions : EndSession(s)
  BY <1>7, RecordFacts DEF EndSession
<1>8. CASE \E s \in Sessions : ReclaimSession(s)
  <2> PICK s \in Sessions : ReclaimSession(s)
    BY <1>8
  <2>1. CASE rec' = rec
    BY <2>1
  <2>2. CASE rec' = [rec EXCEPT ![s].reclaimed = TRUE]
    BY <2>2
  <2> QED
    BY <2>1, <2>2 DEF ReclaimSession
<1>9. CASE \E s \in Sessions : ReapSession(s)
  BY <1>9, RecordFacts DEF ReapSession
<1>10. CASE UNCHANGED <<rec>>
  BY <1>10
<1> QED
  BY <1>1, <1>2, <1>3, <1>4, <1>5, <1>6, <1>7, <1>8, <1>9, <1>10, NextCases
    DEF CleanRead, CleanDestroy, CleanRemove, CleanFails, CreateLands, CreateFails, Boot,
      BootTimeout, BackOff, PublishReady, ResetFailures, ReclaimCreation, Reserve, RetireClaim,
      ProbeSucceeds, ProbeFails, RouteFails, AwaitProbe, HandoffRead, HandoffAssign, Finish,
      Abandon, RouteCrash, Trim, Scan, ItemClaimed, ItemCreating, ItemReady, ItemRetiring,
      ItemRemove, ItemRetire, ReserveCreations, EndSweep, SweepCrash, ListActive, ListSessions,
      ListPools, ReapOrphan, OperationExpires, ReadinessExpires, CoolDown, pool, provider,
      fillers, routes, sweeps, reaper

LEMMA RouteTypeStep == Shape /\ Next => RouteType'
<1> SUFFICES ASSUME Shape, Next PROVE RouteType'
  OBVIOUS
<1> USE DEF Shape, RouteType, RouteSteps, RouteStep, Ended
<1>1. CASE \E s \in Sessions : Reserve(s)
  BY <1>1 DEF Reserve
<1>2. CASE \E s \in Sessions : RetireClaim(s)
  BY <1>2 DEF RetireClaim
<1>3. CASE \E s \in Sessions : PublishCold(s)
  BY <1>3 DEF PublishCold
<1>4. CASE \E s \in Sessions : ProbeSucceeds(s)
  BY <1>4 DEF ProbeSucceeds
<1>5. CASE \E s \in Sessions : ProbeFails(s)
  BY <1>5 DEF ProbeFails
<1>6. CASE \E s \in Sessions : CreateSession(s)
  BY <1>6 DEF CreateSession
<1>7. CASE \E s \in Sessions : RouteFails(s)
  BY <1>7 DEF RouteFails
<1>8. CASE \E s \in Sessions : AwaitProbe(s)
  BY <1>8 DEF AwaitProbe
<1>9. CASE \E s \in Sessions : HandoffRead(s)
  BY <1>9 DEF HandoffRead
<1>10. CASE \E s \in Sessions : HandoffAssign(s)
  BY <1>10 DEF HandoffAssign
<1>11. CASE \E s \in Sessions : SetRunning(s)
  BY <1>11 DEF SetRunning
<1>12. CASE \E s \in Sessions : Finish(s)
  BY <1>12 DEF Finish
<1>13. CASE \E s \in Sessions : Abandon(s)
  BY <1>13 DEF Abandon
<1>14. CASE \E s \in Sessions : ReplaceSandbox(s)
  BY <1>14 DEF ReplaceSandbox
<1>15. CASE \E s \in Sessions : MarkFailed(s)
  BY <1>15 DEF MarkFailed
<1>16. CASE \E s \in Sessions : RouteCrash(s)
  BY <1>16 DEF RouteCrash
<1>17. CASE UNCHANGED <<spc, claim, probe>>
  BY <1>17
<1> QED
  BY <1>1, <1>2, <1>3, <1>4, <1>5, <1>6, <1>7, <1>8, <1>9, <1>10, <1>11, <1>12, <1>13, <1>14,
    <1>15, <1>16, <1>17, NextCases
    DEF CleanRead, CleanDestroy, CleanMark, CleanRemove, CleanFails, CreateLands, CreateFails,
      Boot, BootTimeout, BackOff, PublishReady, ResetFailures, ReclaimCreation, EndSession,
      ReclaimSession, ReapSession, Trim, Scan, ItemClaimed, ItemCreating, ItemReady,
      ItemRetiring, ItemRemove, ItemRetire, ReserveCreations, EndSweep, SweepCrash, ListActive,
      ListSessions, ListPools, ReapOrphan, OperationExpires, ReadinessExpires, CoolDown, pool,
      provider, fillers, routes, sweeps, reaper

LEMMA ItemFacts ==
    ASSUME Shape, NEW r \in Sweepers, NEW b \in Boxes
    PROVE  /\ ItemDone(r, b) => SweepType'
           /\ ItemGoes(r, b, "remove") => SweepType'
           /\ ItemGoes(r, b, "retire") => SweepType'
<1> USE MemberFacts DEF Shape, SweepType, Members, SweepStep
<1>1. ItemDone(r, b) => SweepType'
  BY DEF ItemDone
<1>2. ItemGoes(r, b, "remove") => SweepType'
  BY DEF ItemGoes
<1>3. ItemGoes(r, b, "retire") => SweepType'
  BY DEF ItemGoes
<1> QED
  BY <1>1, <1>2, <1>3

LEMMA SweepTypeStep == Shape /\ Next => SweepType'
<1> SUFFICES ASSUME Shape, Next PROVE SweepType'
  OBVIOUS
<1> USE DEF Shape, SweepType, SweepStep, MemType
<1>1. CASE \E r \in Sweepers : Trim(r)
  BY <1>1 DEF Trim
<1>2. CASE \E r \in Sweepers : Scan(r)
  BY <1>2, MemberFacts DEF Scan
<1>3. CASE \E r \in Sweepers, b \in Boxes : ItemClaimed(r, b)
  BY <1>3, ItemFacts DEF ItemClaimed
<1>4. CASE \E r \in Sweepers, b \in Boxes : ItemCreating(r, b)
  BY <1>4, ItemFacts DEF ItemCreating
<1>5. CASE \E r \in Sweepers, b \in Boxes : ItemReady(r, b)
  BY <1>5, ItemFacts DEF ItemReady
<1>6. CASE \E r \in Sweepers, b \in Boxes : ItemRetiring(r, b)
  BY <1>6, ItemFacts DEF ItemRetiring
<1>7. CASE \E r \in Sweepers : ItemRemove(r)
  <2> PICK r \in Sweepers : ItemRemove(r)
    BY <1>7
  <2> cur[r] \in Boxes /\ ItemDone(r, cur[r])
    BY DEF ItemRemove
  <2> QED
    BY ItemFacts
<1>8. CASE \E r \in Sweepers : ItemRetire(r)
  <2> PICK r \in Sweepers : ItemRetire(r)
    BY <1>8
  <2> cur[r] \in Boxes /\ ItemDone(r, cur[r])
    BY DEF ItemRetire
  <2> QED
    BY ItemFacts
<1>9. CASE \E r \in Sweepers : ReserveCreations(r)
  BY <1>9 DEF ReserveCreations
<1>10. CASE \E r \in Sweepers : EndSweep(r)
  BY <1>10 DEF EndSweep
<1>11. CASE \E r \in Sweepers : SweepCrash(r)
  BY <1>11, MemberFacts DEF SweepCrash
<1>12. CASE UNCHANGED <<wpc, seen, cur>>
  BY <1>12
<1> QED
  BY <1>1, <1>2, <1>3, <1>4, <1>5, <1>6, <1>7, <1>8, <1>9, <1>10, <1>11, <1>12, NextCases
    DEF CleanRead, CleanDestroy, CleanMark, CleanRemove, CleanFails, CreateLands, CreateFails,
      Boot, BootTimeout, BackOff, PublishReady, ResetFailures, ReclaimCreation, Reserve,
      RetireClaim, PublishCold, ProbeSucceeds, ProbeFails, CreateSession, RouteFails,
      AwaitProbe, HandoffRead, HandoffAssign, SetRunning, Finish, Abandon, ReplaceSandbox,
      MarkFailed, RouteCrash, EndSession, ReclaimSession, ReapSession, ListActive, ListSessions,
      ListPools, ReapOrphan, OperationExpires, ReadinessExpires, CoolDown, pool, provider,
      fillers, routes, sweeps, reaper

LEMMA ReaperTypeStep == Shape /\ Next => ReaperType'
<1> SUFFICES ASSUME Shape, Next PROVE ReaperType'
  OBVIOUS
<1> USE DEF Shape, ReaperType
<1>1. CASE ListActive
  BY <1>1 DEF ListActive
<1>2. CASE ListSessions
  BY <1>2 DEF ListSessions
<1>3. CASE ListPools
  BY <1>3 DEF ListPools
<1>4. CASE ReapOrphan
  BY <1>4 DEF ReapOrphan
<1>5. CASE UNCHANGED <<opc, listed, owned>>
  BY <1>5
<1> QED
  BY <1>1, <1>2, <1>3, <1>4, <1>5, NextCases, ZenonT(40)
    DEF CleanRead, CleanDestroy, CleanMark, CleanRemove, CleanFails, CreateLands, CreateFails,
      Boot, BootTimeout, BackOff, PublishReady, ResetFailures, ReclaimCreation, Reserve,
      RetireClaim, PublishCold, ProbeSucceeds, ProbeFails, CreateSession, RouteFails,
      AwaitProbe, HandoffRead, HandoffAssign, SetRunning, Finish, Abandon, ReplaceSandbox,
      MarkFailed, RouteCrash, EndSession, ReclaimSession, ReapSession, Trim, Scan, ItemClaimed,
      ItemCreating, ItemReady, ItemRetiring, ItemRemove, ItemRetire, ReserveCreations, EndSweep,
      SweepCrash, OperationExpires, ReadinessExpires, CoolDown, pool, provider, fillers, routes,
      sweeps, reaper

LEMMA StartFacts ==
    ASSUME Shape, NEW a \in Actors, NEW b \in Boxes, NEW t \in {"none", "fill", "claim"}
    PROVE  StartCleanup(a, b, t) => CleanType'
  BY CleanupFacts DEF Shape, CleanType, StartCleanup, Cleanups

LEMMA CleanTypeStep == Shape /\ Next => CleanType'
<1> SUFFICES ASSUME Shape, Next PROVE CleanType'
  OBVIOUS
<1> USE DEF Shape, CleanType, Cleanups
<1>1. CASE \E a \in Actors : CleanRead(a)
  <2> PICK a \in Actors : CleanRead(a)
    BY <1>1
  <2> HIDE DEF Cleanups
  <2> DEFINE m == mem[clean[a].box]
             c == IF m.st = "retiring" /\ m.tok = clean[a].tok
                    THEN Destroying(clean[a], m.dest) ELSE NoCleanup
  <2>1. clean[a] \in Cleanups /\ clean[a].box \in Boxes /\ m.dest \in Sessions \union {None}
    BY DEF CleanRead, MemType, Members
  <2>2. c \in Cleanups /\ (c.step # "off" => c.box \in Boxes)
    BY <2>1, CleanupFacts
  <2>3. clean' = [clean EXCEPT ![a] = c]
    BY DEF CleanRead
  <2> QED
    BY <2>2, <2>3
<1>2. CASE \E a \in Actors : CleanDestroy(a)
  BY <1>2, CleanupFacts DEF CleanDestroy
<1>3. CASE \E a \in Actors : CleanMark(a)
  BY <1>3, CleanupFacts DEF CleanMark
<1>4. CASE \E a \in Actors : CleanRemove(a)
  BY <1>4, CleanupFacts DEF CleanRemove
<1>5. CASE \E a \in Actors : CleanFails(a)
  BY <1>5, CleanupFacts DEF CleanFails
<1>6. CASE \E f \in Fillers : ReclaimCreation(f)
  <2> PICK f \in Fillers : ReclaimCreation(f)
    BY <1>6
  <2> f \in Actors /\ f[1] \in Boxes
    BY DEF Actors, Fillers
  <2>1. CASE clean' = clean
    BY <2>1
  <2>2. CASE StartCleanup(f, f[1], "fill")
    BY <2>2, StartFacts
  <2> QED
    BY <2>1, <2>2 DEF ReclaimCreation
<1>7. CASE \E s \in Sessions : Abandon(s)
  <2> PICK s \in Sessions : Abandon(s)
    BY <1>7
  <2> s \in Actors /\ claim[s] \in Boxes
    BY DEF Actors, RouteType, Abandon, Ended
  <2>1. CASE clean' = clean
    BY <2>1
  <2>2. CASE StartCleanup(s, claim[s], "claim")
    BY <2>2, StartFacts
  <2> QED
    BY <2>1, <2>2 DEF Abandon
<1>8. CASE \E s \in Sessions : RouteCrash(s)
  BY <1>8, CleanupFacts DEF RouteCrash, Actors
<1>9. CASE \E r \in Sweepers, b \in Boxes : ItemRetiring(r, b)
  <2> PICK r \in Sweepers, b \in Boxes : ItemRetiring(r, b)
    BY <1>9
  <2> r \in Actors /\ seen[r][b].tok \in {"none", "fill", "claim"}
    BY DEF Actors, SweepType, Members
  <2> QED
    BY StartFacts DEF ItemRetiring
<1>10. CASE \E r \in Sweepers : ItemRetire(r)
  <2> PICK r \in Sweepers : ItemRetire(r)
    BY <1>10
  <2> r \in Actors /\ cur[r] \in Boxes /\ seen[r][cur[r]].tok \in {"none", "fill", "claim"}
    BY DEF ItemRetire, Actors, SweepType, Members
  <2>1. CASE clean' = clean
    BY <2>1
  <2>2. CASE StartCleanup(r, cur[r], seen[r][cur[r]].tok)
    BY <2>2, StartFacts
  <2> QED
    BY <2>1, <2>2 DEF ItemRetire
<1>11. CASE \E r \in Sweepers : SweepCrash(r)
  BY <1>11, CleanupFacts DEF SweepCrash
<1>12. CASE UNCHANGED <<clean>>
  BY <1>12
<1> QED
  BY <1>1, <1>2, <1>3, <1>4, <1>5, <1>6, <1>7, <1>8, <1>9, <1>10, <1>11, <1>12, NextCases
    DEF CreateLands, CreateFails, Boot, BootTimeout, BackOff, PublishReady, ResetFailures,
      Reserve, RetireClaim, PublishCold, ProbeSucceeds, ProbeFails, CreateSession, RouteFails,
      AwaitProbe, HandoffRead, HandoffAssign, SetRunning, Finish, ReplaceSandbox, MarkFailed,
      EndSession, ReclaimSession, ReapSession, Trim, Scan, ItemClaimed, ItemCreating, ItemReady,
      ItemRemove, ReserveCreations, EndSweep, ListActive, ListSessions, ListPools, ReapOrphan,
      OperationExpires, ReadinessExpires, CoolDown, pool, provider, fillers, routes, sweeps,
      reaper

LEMMA FaultTypeStep == Shape /\ Next => FaultType'
<1> SUFFICES ASSUME Shape, Next PROVE FaultType'
  OBVIOUS
<1> USE DEF Shape, FaultType, Fault, NoFault, Retired
<1>1. CASE \E a \in Actors : CleanFails(a)
  BY <1>1 DEF CleanFails
<1>2. CASE \E b \in Boxes : CreateFails(b)
  BY <1>2 DEF CreateFails
<1>3. CASE \E b \in Boxes : BackOff(b)
  BY <1>3 DEF BackOff
<1>4. CASE \E b \in Boxes : PublishReady(b)
  BY <1>4 DEF PublishReady
<1>5. CASE \E b \in Boxes : ResetFailures(b)
  BY <1>5 DEF ResetFailures
<1>6. CASE \E f \in Fillers : ReclaimCreation(f)
  BY <1>6 DEF ReclaimCreation
<1>7. CASE \E s \in Sessions : Reserve(s)
  BY <1>7 DEF Reserve
<1>8. CASE \E s \in Sessions : RetireClaim(s)
  BY <1>8 DEF RetireClaim
<1>9. CASE \E s \in Sessions : ProbeFails(s)
  BY <1>9 DEF ProbeFails
<1>10. CASE \E s \in Sessions : CreateSession(s)
  BY <1>10 DEF CreateSession
<1>11. CASE \E s \in Sessions : HandoffAssign(s)
  BY <1>11 DEF HandoffAssign
<1>12. CASE \E s \in Sessions : SetRunning(s)
  BY <1>12 DEF SetRunning
<1>13. CASE \E s \in Sessions : Abandon(s)
  BY <1>13 DEF Abandon
<1>14. CASE \E s \in Sessions : ReplaceSandbox(s)
  BY <1>14 DEF ReplaceSandbox
<1>15. CASE \E s \in Sessions : RouteCrash(s)
  BY <1>15 DEF RouteCrash
<1>16. CASE \E s \in Sessions : ReclaimSession(s)
  BY <1>16 DEF ReclaimSession
<1>17. CASE \E r \in Sweepers : Trim(r)
  BY <1>17 DEF Trim
<1>18. CASE \E r \in Sweepers : Scan(r)
  BY <1>18 DEF Scan
<1>19. CASE \E r \in Sweepers, b \in Boxes : ItemClaimed(r, b)
  BY <1>19 DEF ItemClaimed
<1>20. CASE \E r \in Sweepers : ItemRemove(r)
  BY <1>20 DEF ItemRemove
<1>21. CASE \E r \in Sweepers : ItemRetire(r)
  BY <1>21 DEF ItemRetire
<1>22. CASE \E r \in Sweepers : ReserveCreations(r)
  BY <1>22 DEF ReserveCreations
<1>23. CASE \E r \in Sweepers : SweepCrash(r)
  BY <1>23 DEF SweepCrash
<1>24. CASE ListPools
  BY <1>24 DEF ListPools
<1>25. CASE ReapOrphan
  BY <1>25 DEF ReapOrphan
<1>26. CASE UNCHANGED <<faults>>
  BY <1>26
<1> QED
  BY <1>1, <1>2, <1>3, <1>4, <1>5, <1>6, <1>7, <1>8, <1>9, <1>10, <1>11, <1>12, <1>13, <1>14,
    <1>15, <1>16, <1>17, <1>18, <1>19, <1>20, <1>21, <1>22, <1>23, <1>24, <1>25, <1>26,
    NextCases
    DEF CleanRead, CleanDestroy, CleanMark, CleanRemove, CreateLands, Boot, BootTimeout,
      PublishCold, ProbeSucceeds, RouteFails, AwaitProbe, HandoffRead, Finish, MarkFailed,
      EndSession, ReapSession, ItemCreating, ItemReady, ItemRetiring, EndSweep, ListActive,
      ListSessions, OperationExpires, ReadinessExpires, CoolDown, pool, provider, fillers,
      routes, sweeps, reaper

LEMMA ShapeStep == Shape /\ [Next]_vars => Shape'
<1> SUFFICES ASSUME Shape, [Next]_vars PROVE Shape'
  OBVIOUS
<1>1. CASE Next
  BY <1>1, MemTypeStep, TimeTypeStep, UpTypeStep, FlightTypeStep, FreshTypeStep, FillTypeStep,
    RecTypeStep, RouteTypeStep, SweepTypeStep, ReaperTypeStep, CleanTypeStep, FaultTypeStep DEF Shape
<1>2. CASE UNCHANGED vars
  BY <1>2 DEF vars, pool, provider, fillers, routes, sweeps, reaper, Shape, MemType, TimeType,
    UpType, FlightType, FreshType, FillType, RecType, RouteType, SweepType, ReaperType,
    CleanType, FaultType
<1> QED
  BY <1>1, <1>2

LEMMA InitShape == Init => Shape
<1> SUFFICES ASSUME Init PROVE Shape
  OBVIOUS
<1> USE PoolAssumption, MemberFacts, RecordFacts, CleanupFacts DEF Init
<1>1. MemType
  BY DEF MemType
<1>2. TimeType
  BY DEF TimeType
<1>3. UpType
  BY DEF UpType
<1>4. FlightType
  BY DEF FlightType
<1>5. FreshType
  BY DEF FreshType
<1>6. FillType
  BY DEF FillType
<1>7. RecType
  BY DEF RecType
<1>8. RouteType
  BY DEF RouteType, RouteSteps, Ended
<1>9. SweepType
  BY DEF SweepType
<1>10. ReaperType
  BY DEF ReaperType
<1>11. CleanType
  BY DEF CleanType
<1>12. FaultType
  BY DEF FaultType
<1> QED
  BY <1>1, <1>2, <1>3, <1>4, <1>5, <1>6, <1>7, <1>8, <1>9, <1>10, <1>11, <1>12 DEF Shape

\* TypeOK is part of Shape.
LEMMA ShapeTypes == Shape => TypeOK
  BY DEF Shape, TypeOK, MemType, TimeType, UpType, FlightType, FreshType, FillType, RecType,
    RouteType, SweepType, ReaperType, CleanType, FaultType

\* Every variable of WarmPool keeps its type.
THEOREM TypeCorrect == Spec => []TypeOK
<1>1. Spec => []Shape
  BY InitShape, ShapeStep, PTL DEF Spec
<1> QED
  BY <1>1, ShapeTypes, PTL

-----------------------------------------------------------------------------
(* Safety. *)

\* What the pool object says of a sandbox that no session can reserve.
Out == {"none", "claimed", "retiring"}

\* An id nobody has used is not on offer; only a late reclaim could list it.
UnusedInv == \A b \in fresh : mem[b].st \in Out

\* A sandbox that was claimed is never on offer again, and has one claimant.
ClaimInv ==
    \A s \in Sessions : claim[s] \in Boxes =>
        /\ claim[s] \notin fresh
        /\ mem[claim[s]].st \in Out
        /\ \A t \in Sessions : claim[t] = claim[s] => t = s

\* A record names the sandbox its route claimed.
RecordInv ==
    \A s \in Sessions :
        /\ rec[s].box # None => rec[s].box = claim[s]
        /\ spc[s] \in {"idle", "unclaim"} => rec[s].box = None

IInv == Shape /\ UnusedInv /\ ClaimInv /\ RecordInv

-----------------------------------------------------------------------------
\* What is not on offer is put on offer only by the step that uses its id for the first time.
LEMMA OutStays ==
    Shape /\ Next =>
        \A b \in Boxes : mem[b].st \in Out => mem'[b].st \in Out \/ b \in fresh \ fresh'
<1> SUFFICES ASSUME Shape, Next
             PROVE  \A b \in Boxes :
                      mem[b].st \in Out => mem'[b].st \in Out \/ b \in fresh \ fresh'
  OBVIOUS
<1> USE DEF Shape, MemType, Members, NoMember, NewMember, LateMember, Claimed, Removed, Retired,
  Out
<1>1. CASE \E a \in Actors : CleanRemove(a)
  BY <1>1 DEF CleanRemove
<1>2. CASE \E b \in Boxes : PublishReady(b)
  BY <1>2 DEF PublishReady
<1>3. CASE \E f \in Fillers : ReclaimCreation(f)
  BY <1>3 DEF ReclaimCreation, Fillers
<1>4. CASE \E s \in Sessions : Reserve(s)
  <2> PICK s \in Sessions : Reserve(s)
    BY <1>4
  <2>1. CASE mem' = mem
    BY <2>1
  <2>2. CASE \E b \in Boxes : mem[b].st = "ready" /\ mem' = [mem EXCEPT ![b] = Claimed(mem[b], s)]
    BY <2>2
  <2> QED
    BY <2>1, <2>2 DEF Reserve
<1>5. CASE \E s \in Sessions : RetireClaim(s)
  BY <1>5 DEF RetireClaim
<1>6. CASE \E s \in Sessions : ProbeFails(s)
  BY <1>6 DEF ProbeFails
<1>7. CASE \E s \in Sessions : HandoffAssign(s)
  BY <1>7 DEF HandoffAssign
<1>8. CASE \E s \in Sessions : Abandon(s)
  BY <1>8 DEF Abandon
<1>9. CASE \E r \in Sweepers : Trim(r)
  BY <1>9 DEF Trim, Available
<1>10. CASE \E r \in Sweepers : ItemRemove(r)
  BY <1>10 DEF ItemRemove
<1>11. CASE \E r \in Sweepers : ItemRetire(r)
  BY <1>11 DEF ItemRetire
<1>12. CASE \E r \in Sweepers : ReserveCreations(r)
  BY <1>12 DEF ReserveCreations
<1>13. CASE UNCHANGED <<mem>>
  BY <1>13
<1> QED
  BY <1>1, <1>2, <1>3, <1>4, <1>5, <1>6, <1>7, <1>8, <1>9, <1>10, <1>11, <1>12, <1>13, NextCases
    DEF CleanRead, CleanDestroy, CleanMark, CleanFails, CreateLands, CreateFails, Boot,
      BootTimeout, BackOff, ResetFailures, PublishCold, ProbeSucceeds, CreateSession,
      RouteFails, AwaitProbe, HandoffRead, SetRunning, Finish, ReplaceSandbox, MarkFailed,
      RouteCrash, EndSession, ReclaimSession, ReapSession, Scan, ItemClaimed, ItemCreating,
      ItemReady, ItemRetiring, EndSweep, SweepCrash, ListActive, ListSessions, ListPools,
      ReapOrphan, OperationExpires, ReadinessExpires, CoolDown, pool, provider, fillers, routes,
      sweeps, reaper

LEMMA FreshShrinks == Shape /\ Next => fresh' \subseteq fresh
<1> SUFFICES ASSUME Shape, Next PROVE fresh' \subseteq fresh
  OBVIOUS
<1>1. CASE \E r \in Sweepers : ReserveCreations(r)
  BY <1>1 DEF ReserveCreations
<1>2. CASE UNCHANGED <<fresh>>
  BY <1>2
<1> QED
  BY <1>1, <1>2, NextCases
    DEF CleanRead, CleanDestroy, CleanMark, CleanRemove, CleanFails, CreateLands, CreateFails,
      Boot, BootTimeout, BackOff, PublishReady, ResetFailures, ReclaimCreation, Reserve,
      RetireClaim, PublishCold, ProbeSucceeds, ProbeFails, CreateSession, RouteFails,
      AwaitProbe, HandoffRead, HandoffAssign, SetRunning, Finish, Abandon, ReplaceSandbox,
      MarkFailed, RouteCrash, EndSession, ReclaimSession, ReapSession, Trim, Scan, ItemClaimed,
      ItemCreating, ItemReady, ItemRetiring, ItemRemove, ItemRetire, EndSweep, SweepCrash,
      ListActive, ListSessions, ListPools, ReapOrphan, OperationExpires, ReadinessExpires,
      CoolDown, pool, provider, fillers, routes, sweeps, reaper

LEMMA UnusedStep == IInv /\ Next => UnusedInv'
  BY OutStays, FreshShrinks DEF IInv, UnusedInv, Shape, FreshType

\* A claim is changed by the route that makes it or gives it up.
LEMMA ClaimChanges == Shape /\ Next =>
        \A s \in Sessions :
            \/ claim'[s] = claim[s]
            \/ claim'[s] = None
            \/ /\ claim'[s] \in Boxes /\ mem[claim'[s]].st = "ready"
               /\ mem'[claim'[s]].st = "claimed"
               /\ \A t \in Sessions \ {s} : claim'[t] = claim[t]
<1> SUFFICES ASSUME Shape, Next PROVE 
        \A s \in Sessions :
            \/ claim'[s] = claim[s]
            \/ claim'[s] = None
            \/ /\ claim'[s] \in Boxes /\ mem[claim'[s]].st = "ready"
               /\ mem'[claim'[s]].st = "claimed"
               /\ \A t \in Sessions \ {s} : claim'[t] = claim[t]
  OBVIOUS
<1> USE DEF Shape, RouteType, MemType, Members
<1>1. CASE \E s \in Sessions : Reserve(s)
  <2> PICK s \in Sessions : Reserve(s)
    BY <1>1
  <2>1. CASE claim' = claim
    BY <2>1
  <2>2. ASSUME NEW b \in Boxes, mem[b].st = "ready", mem' = [mem EXCEPT ![b] = Claimed(mem[b], s)],
               claim' = [claim EXCEPT ![s] = b]
        PROVE  \A t \in Sessions :
                  \/ claim'[t] = claim[t]
                  \/ /\ claim'[t] = b /\ mem'[b].st = "claimed"
                     /\ \A u \in Sessions \ {t} : claim'[u] = claim[u]
    <3>1. mem'[b].st = "claimed"
      BY <2>2 DEF Claimed
    <3> QED
      BY <2>2, <3>1
  <2> QED
    BY <2>1, <2>2 DEF Reserve
<1>2. CASE \E s \in Sessions : RetireClaim(s)
  BY <1>2 DEF RetireClaim
<1>3. CASE \E s \in Sessions : ReplaceSandbox(s)
  BY <1>3 DEF ReplaceSandbox
<1>4. CASE UNCHANGED <<claim>>
  BY <1>4
<1> QED
  BY <1>1, <1>2, <1>3, <1>4, NextCases
    DEF CleanRead, CleanDestroy, CleanMark, CleanRemove, CleanFails, CreateLands, CreateFails,
      Boot, BootTimeout, BackOff, PublishReady, ResetFailures, ReclaimCreation, PublishCold,
      ProbeSucceeds, ProbeFails, CreateSession, RouteFails, AwaitProbe, HandoffRead,
      HandoffAssign, SetRunning, Finish, Abandon, MarkFailed, RouteCrash, EndSession,
      ReclaimSession, ReapSession, Trim, Scan, ItemClaimed, ItemCreating, ItemReady,
      ItemRetiring, ItemRemove, ItemRetire, ReserveCreations, EndSweep, SweepCrash, ListActive,
      ListSessions, ListPools, ReapOrphan, OperationExpires, ReadinessExpires, CoolDown, pool,
      provider, fillers, routes, sweeps, reaper

LEMMA ClaimStep == IInv /\ Next => ClaimInv'
<1> SUFFICES ASSUME IInv, Next, NEW s \in Sessions, claim'[s] \in Boxes
             PROVE  /\ claim'[s] \notin fresh'
                    /\ mem'[claim'[s]].st \in Out
                    /\ \A t \in Sessions : claim'[t] = claim'[s] => t = s
  BY DEF ClaimInv
<1>1. None \notin Boxes /\ fresh \subseteq Boxes /\ fresh' \subseteq fresh
  BY PoolAssumption, FreshShrinks DEF IInv, Shape, FreshType
<1>2. claim'[s] # None
  BY <1>1
<1>3. CASE claim'[s] = claim[s]
  <2>1. claim[s] \notin fresh /\ mem[claim[s]].st \in Out
    BY <1>3 DEF IInv, ClaimInv
  <2>2. claim'[s] \notin fresh' /\ mem'[claim'[s]].st \in Out
    BY <1>1, <1>3, <2>1, OutStays DEF IInv
  <2>3. ASSUME NEW t \in Sessions, claim'[t] = claim'[s] PROVE t = s
    <3>1. CASE claim'[t] = claim[t]
      BY <1>3, <2>3, <3>1 DEF IInv, ClaimInv
    <3>2. CASE claim'[t] # claim[t]
      <4>1. mem[claim'[t]].st = "ready"
        BY <1>2, <2>3, <3>2, ClaimChanges DEF IInv
      <4> QED
        BY <1>3, <2>1, <2>3, <4>1 DEF Out
    <3> QED
      BY <3>1, <3>2
  <2> QED
    BY <2>2, <2>3
<1>4. CASE claim'[s] # claim[s]
  <2>1. /\ mem[claim'[s]].st = "ready" /\ mem'[claim'[s]].st = "claimed"
        /\ \A t \in Sessions \ {s} : claim'[t] = claim[t]
    BY <1>2, <1>4, ClaimChanges DEF IInv
  <2>2. claim'[s] \notin fresh
    BY <2>1 DEF IInv, UnusedInv, Out
  <2>3. ASSUME NEW t \in Sessions, claim'[t] = claim'[s] PROVE t = s
    <3> SUFFICES ASSUME t # s PROVE FALSE
      OBVIOUS
    <3>1. claim[t] = claim'[s]
      BY <2>1, <2>3
    <3> QED
      BY <2>1, <3>1 DEF IInv, ClaimInv, Out
  <2> QED
    BY <1>1, <2>1, <2>2, <2>3 DEF Out
<1> QED
  BY <1>3, <1>4

LEMMA RecordStep == IInv /\ Next => RecordInv'
<1> SUFFICES ASSUME IInv, Next PROVE RecordInv'
  OBVIOUS
<1> USE DEF IInv, Shape, RecType, Records, RouteType, RecordInv, NoRecord, Starting, RouteStep,
  routes
<1>1. CASE \E a \in Actors : CleanMark(a)
  BY <1>1 DEF CleanMark
<1>2. CASE \E s \in Sessions : Reserve(s)
  BY <1>2 DEF Reserve
<1>3. CASE \E s \in Sessions : RetireClaim(s)
  BY <1>3 DEF RetireClaim
<1>4. CASE \E s \in Sessions : PublishCold(s)
  BY <1>4 DEF PublishCold
<1>5. CASE \E s \in Sessions : CreateSession(s)
  BY <1>5 DEF CreateSession
<1>6. CASE \E s \in Sessions : RouteFails(s)
  BY <1>6 DEF RouteFails
<1>7. CASE \E s \in Sessions : AwaitProbe(s)
  BY <1>7 DEF AwaitProbe
<1>8. CASE \E s \in Sessions : HandoffRead(s)
  BY <1>8 DEF HandoffRead
<1>9. CASE \E s \in Sessions : HandoffAssign(s)
  BY <1>9 DEF HandoffAssign
<1>10. CASE \E s \in Sessions : SetRunning(s)
  BY <1>10 DEF SetRunning
<1>11. CASE \E s \in Sessions : Finish(s)
  BY <1>11 DEF Finish
<1>12. CASE \E s \in Sessions : Abandon(s)
  BY <1>12 DEF Abandon
<1>13. CASE \E s \in Sessions : ReplaceSandbox(s)
  BY <1>13 DEF ReplaceSandbox
<1>14. CASE \E s \in Sessions : MarkFailed(s)
  BY <1>14 DEF MarkFailed
<1>15. CASE \E s \in Sessions : RouteCrash(s)
  BY <1>15 DEF RouteCrash
<1>16. CASE \E s \in Sessions : EndSession(s)
  BY <1>16 DEF EndSession
<1>17. CASE \E s \in Sessions : ReclaimSession(s)
  BY <1>17 DEF ReclaimSession
<1>18. CASE \E s \in Sessions : ReapSession(s)
  BY <1>18 DEF ReapSession
<1>19. CASE UNCHANGED <<rec, claim, spc>>
  BY <1>19
<1> QED
  BY <1>1, <1>2, <1>3, <1>4, <1>5, <1>6, <1>7, <1>8, <1>9, <1>10, <1>11, <1>12, <1>13, <1>14,
    <1>15, <1>16, <1>17, <1>18, <1>19, NextCases, ZenonT(40)
    DEF CleanRead, CleanDestroy, CleanRemove, CleanFails, CreateLands, CreateFails, Boot,
      BootTimeout, BackOff, PublishReady, ResetFailures, ReclaimCreation, ProbeSucceeds,
      ProbeFails, Trim, Scan, ItemClaimed, ItemCreating, ItemReady, ItemRetiring, ItemRemove,
      ItemRetire, ReserveCreations, EndSweep, SweepCrash, ListActive, ListSessions, ListPools,
      ReapOrphan, OperationExpires, ReadinessExpires, CoolDown, pool, provider, fillers, routes,
      sweeps, reaper

LEMMA InitInvariant == Init => IInv
<1> SUFFICES ASSUME Init PROVE IInv
  OBVIOUS
<1>1. UnusedInv /\ ClaimInv
  BY PoolAssumption DEF Init, UnusedInv, ClaimInv, Out, NoMember
<1>2. RecordInv
  BY DEF Init, RecordInv, NoRecord
<1> QED
  BY InitShape, <1>1, <1>2 DEF IInv

LEMMA Invariance == IInv /\ [Next]_vars => IInv'
<1> SUFFICES ASSUME IInv, [Next]_vars PROVE IInv'
  OBVIOUS
<1>1. CASE Next
  BY <1>1, ShapeStep, UnusedStep, ClaimStep, RecordStep DEF IInv
<1>2. CASE UNCHANGED vars
  <2>1. Shape'
    BY <1>2, ShapeStep DEF IInv
  <2>2. UnusedInv' /\ ClaimInv' /\ RecordInv'
    BY <1>2 DEF vars, pool, fillers, routes, IInv, UnusedInv, ClaimInv, RecordInv
  <2> QED
    BY <2>1, <2>2 DEF IInv
<1> QED
  BY <1>1, <1>2

\* Two sessions never have the same sandbox of the pool: a claim takes it off the offer for
\* good, and only the route that claimed it names it in a session record.
THEOREM SandboxHandedOutOnce == Spec => []HandedOutOnce
<1>1. IInv => HandedOutOnce
  <2> SUFFICES ASSUME IInv, NEW s \in Sessions, NEW t \in Sessions,
                      rec[s].box # None, rec[t].box = rec[s].box
               PROVE  s = t
    BY DEF HandedOutOnce
  <2>1. rec[s].box \in Boxes
    BY DEF IInv, Shape, RecType, Records
  <2>2. claim[s] = rec[s].box /\ claim[t] = rec[s].box
    BY DEF IInv, RecordInv
  <2> QED
    BY <2>1, <2>2 DEF IInv, ClaimInv
<1> QED
  BY <1>1, InitInvariant, Invariance, PTL DEF Spec

-----------------------------------------------------------------------------
\* The available members and their number, which is a natural number.
LEMMA AvailableFinite ==
    /\ IsFiniteSet(Available) /\ Cardinality(Available) \in Nat
    /\ IsFiniteSet(Available') /\ Cardinality(Available') \in Nat
<1>1. IsFiniteSet(Available) /\ IsFiniteSet(Available')
  BY PoolAssumption, FS_Subset DEF Available
<1> QED
  BY <1>1, FS_CardinalityType

\* Only reserveCreations uses ids, so nothing else makes members available.
LEMMA AvailableShrinks ==
    Shape /\ Next =>
        Available' \subseteq Available \/ \E r \in Sweepers : ReserveCreations(r)
<1> SUFFICES ASSUME Shape, Next, ~\E r \in Sweepers : ReserveCreations(r)
             PROVE  Available' \subseteq Available
  OBVIOUS
<1>1. fresh' = fresh
  BY NextCases
    DEF CleanRead, CleanDestroy, CleanMark, CleanRemove, CleanFails, CreateLands, CreateFails,
      Boot, BootTimeout, BackOff, PublishReady, ResetFailures, ReclaimCreation, Reserve,
      RetireClaim, PublishCold, ProbeSucceeds, ProbeFails, CreateSession, RouteFails,
      AwaitProbe, HandoffRead, HandoffAssign, SetRunning, Finish, Abandon, ReplaceSandbox,
      MarkFailed, RouteCrash, EndSession, ReclaimSession, ReapSession, Trim, Scan, ItemClaimed,
      ItemCreating, ItemReady, ItemRetiring, ItemRemove, ItemRetire, EndSweep, SweepCrash,
      ListActive, ListSessions, ListPools, ReapOrphan, OperationExpires, ReadinessExpires,
      CoolDown, pool, provider, fillers, routes, sweeps, reaper
<1>2. \A b \in Boxes : mem[b].st \in Out => mem'[b].st \in Out
  BY <1>1, OutStays
<1> QED
  BY <1>2 DEF Shape, MemType, Members, Available, Out

\* reserveCreations makes at most as many members available as the size allows.
LEMMA CreationsFit ==
    ASSUME Shape, NEW r \in Sweepers, ReserveCreations(r)
    PROVE  Available' \subseteq Available \/ Cardinality(Available') <= Size[r]
<1> USE AvailableFinite
<1>1. PICK B \in SUBSET fresh :
        /\ Cardinality(B) = Wanted(r)
        /\ mem' = [b \in Boxes |-> IF b \in B THEN NewMember ELSE mem[b]]
  BY DEF ReserveCreations
<1>2. IsFiniteSet(fresh) /\ IsFiniteSet(B)
  BY PoolAssumption, FS_Subset DEF Shape, FreshType
<1>3. Cardinality(fresh) \in Nat /\ Cardinality(B) \in Nat
  BY <1>2, FS_CardinalityType
<1>4. Available' \subseteq Available \union B
  BY <1>1 DEF Available
<1>5. CASE Cardinality(Available) > Size[r]
  <2>1. Cardinality(B) = 0
    BY <1>1, <1>3, <1>5, PoolAssumption DEF Wanted
  <2>2. B = {}
    BY <1>2, <2>1, FS_EmptySet
  <2> QED
    BY <1>4, <2>2
<1>6. CASE Cardinality(Available) <= Size[r]
  <2>1. Size[r] \in Nat /\ MaxCreations \in Nat
    BY PoolAssumption
  <2>2. Cardinality(Available) + Cardinality(B) <= Size[r]
    BY <1>1, <1>3, <1>6, <2>1 DEF Wanted
  <2>3. /\ IsFiniteSet(Available \union B)
        /\ Cardinality(Available \union B) =
             Cardinality(Available) + Cardinality(B) - Cardinality(Available \cap B)
    BY <1>2, FS_Union
  <2>4. Cardinality(Available \cap B) \in Nat
    BY <1>2, FS_Intersection, FS_CardinalityType
  <2>5. Cardinality(Available') <= Cardinality(Available \union B)
    BY <1>4, <2>3, FS_Subset
  <2>6. Cardinality(Available \union B) \in Nat
    BY <2>3, FS_CardinalityType
  <2> QED
    BY <1>3, <2>1, <2>2, <2>3, <2>4, <2>5, <2>6
<1> QED
  BY <1>5, <1>6, PoolAssumption

\* However many replicas sweep at once and whatever size each is configured with, the pool
\* never has more members available than one of them wants.
THEOREM PoolWithinSize ==
    ASSUME Sweepers # {}
    PROVE  Spec => []WithinSize
<1> USE AvailableFinite
<1>1. Init => WithinSize
  <2> SUFFICES ASSUME Init PROVE WithinSize
    OBVIOUS
  <2>1. Available = {}
    BY DEF Init, Available, NoMember
  <2>2. Cardinality(Available) = 0
    BY <2>1, FS_EmptySet
  <2> QED
    BY <2>2, PoolAssumption DEF WithinSize
<1>2. Shape /\ WithinSize /\ [Next]_vars => WithinSize'
  <2> SUFFICES ASSUME Shape, WithinSize, [Next]_vars PROVE WithinSize'
    OBVIOUS
  <2>1. CASE Available' \subseteq Available
    <3>1. Cardinality(Available') <= Cardinality(Available)
      BY <2>1, FS_Subset
    <3>2. PICK r \in Sweepers : Cardinality(Available) <= Size[r]
      BY DEF WithinSize
    <3>3. Size[r] \in Nat
      BY PoolAssumption
    <3>4. Cardinality(Available') <= Size[r]
      BY <3>1, <3>2, <3>3
    <3> QED
      BY <3>4 DEF WithinSize
  <2>2. CASE \E r \in Sweepers : ReserveCreations(r)
    BY <2>1, <2>2, CreationsFit DEF WithinSize
  <2>3. CASE UNCHANGED vars
    BY <2>1, <2>3 DEF vars, pool, Available
  <2> QED
    BY <2>1, <2>2, <2>3, AvailableShrinks
<1>3. Spec => []Shape
  BY InitShape, ShapeStep, PTL DEF Spec
<1> QED
  BY <1>1, <1>2, <1>3, PTL DEF Spec

-----------------------------------------------------------------------------
(* A session keeps its sandbox.                                            *)

\* Nobody will bring b up any more; b is off the offer for good; the session s is over; no session
\* can live on b.
Landed(b) == b \notin fresh /\ flight[b] = "no"
Doomed(b) == b \notin fresh /\ mem[b].st \in {"none", "retiring"}
Over(s) == rec[s].st = "terminal" \/ (rec[s].st = "none" /\ spc[s] \in Ended)
Spent(b) == Doomed(b) \/ (mem[b].st = "claimed" /\ Over(mem[b].dest))

\* An id that was not used names nothing.
FreshInv ==
    \A b \in fresh :
        /\ mem[b].st = "none" /\ ~up[b] /\ flight[b] = "no"
        /\ \A k \in {"fill", "late"} : fpc[<<b, k>>] = "off"

\* The tokens of a member, and that what is on offer, or claimed by a session that lives, is up.
MemberInv ==
    \A b \in Boxes :
        /\ mem[b].st = "none" => mem[b].tok = "none"
        /\ mem[b].st = "claimed" => mem[b].tok = "claim" /\ mem[b].dest \in Sessions
        /\ mem[b].st \in {"creating", "ready"} => ~mem[b].assigned
        /\ mem[b].dest # None => mem[b].tok = "claim"
        /\ mem[b].tok = "claim" => Landed(b)
        /\ mem[b].st = "ready" => Landed(b) /\ up[b]
        /\ mem[b].st = "claimed" => up[b] \/ Over(mem[b].dest)

\* A sandbox about to be published is up, or retired already.
FillInv ==
    \A b \in Boxes :
        /\ fpc[<<b, "fill">>] = "boot" => flight[b] \in {"no", "fill"}
        /\ fpc[<<b, "fill">>] = "publish" => flight[b] = "no"
        /\ fpc[<<b, "fill">>] \in {"boot", "publish"} =>
            /\ mem[b].st \in {"creating", "none", "retiring"}
            /\ flight[b] = "no" => up[b] \/ Doomed(b)

\* The claim of a route and the member agree, and a route creates its record once.
Early == {"idle", "unclaim", "cold", "publish"}
DestInv ==
    \A s \in Sessions :
        /\ claim[s] \in Boxes =>
            Landed(claim[s]) /\ (mem[claim[s]].st = "claimed" => mem[claim[s]].dest = s)
        /\ spc[s] = "assign" => rec[s].st # "none" /\ rec[s].box = claim[s]
        /\ spc[s] \in Early => rec[s].st = "none"

\* s has b, or had it until b went down.
Assigned == {"run", "recheck", "done", "abandon", "mark", "failed", "crashed"}
HasOrHad(s, b) ==
    /\ spc[s] \in Assigned
    /\ \/ rec[s].st # "none" /\ rec[s].box = b
       \/ rec[s].st = "none" /\ spc[s] \in Ended /\ ~up[b]

\* m, the member for b or what somebody has read of it, was handed over to such a session.
HandedOver(m, b) == m.st = "claimed" /\ m.assigned => HasOrHad(m.dest, b)
HandInv == \A b \in Boxes : HandedOver(mem[b], b)

\* A record that says its sandbox was reclaimed is right.
ReclaimedInv ==
    \A s \in Sessions :
        rec[s].reclaimed /\ rec[s].box # None => ~up[rec[s].box] /\ Spent(rec[s].box)

\* A clean-up that has looked at its member destroys what no session can get.
CleanInv ==
    \A a \in Actors : clean[a].step \in {"destroy", "mark", "remove"} =>
        /\ Doomed(clean[a].box)
        /\ clean[a].dest # None => clean[a].tok = "claim"
        /\ clean[a].tok = "claim" => Landed(clean[a].box)
        /\ clean[a].tok = "claim" /\ clean[a].step # "destroy" => ~up[clean[a].box]

\* What a sweep has read of a claimed member may be old; it removes one only if its session is over.
SeenInv ==
    \A r \in Sweepers, b \in Boxes : seen[r][b].st = "claimed" =>
        /\ seen[r][b].tok = "claim" /\ seen[r][b].dest \in Sessions /\ Landed(b)
        /\ Doomed(b) \/ (mem[b].st = "claimed" /\ mem[b].dest = seen[r][b].dest)
        /\ HandedOver(seen[r][b], b)
SweepInv ==
    \A r \in Sweepers :
        /\ wpc[r] = "retire" => seen[r][cur[r]].st # "none"
        /\ wpc[r] = "remove" => seen[r][cur[r]].st = "claimed" /\ Spent(cur[r]) /\ ~up[cur[r]]

\* The reaper of orphans has found what no pool lists, and what was used.
ReapInv ==
    /\ opc # "idle" => listed \intersect fresh = {}
    /\ opc = "reap" => \A b \in listed : Doomed(b)

\* The session owns what it runs on, from the handoff on.
Keeps(s) ==
    /\ rec[s].box # None
    /\ \/ rec[s].st = "running" /\ ~Failing(s)
       \/ rec[s].st = "starting" /\ spc[s] = "run"
KeptInv ==
    \A s \in Sessions : Keeps(s) =>
        /\ mem[rec[s].box].st = "claimed" /\ mem[rec[s].box].assigned
        /\ up[rec[s].box] /\ ~rec[s].reclaimed

KInv ==
    /\ IInv /\ FreshInv /\ MemberInv /\ FillInv /\ DestInv /\ HandInv /\ ReclaimedInv
    /\ CleanInv /\ SeenInv /\ SweepInv /\ ReapInv /\ KeptInv

-----------------------------------------------------------------------------
(* What a step does to a member, a sandbox, a session, a clean-up, a sweep. *)

SameRest(b) ==
    mem'[b].tok = mem[b].tok /\ mem'[b].dest = mem[b].dest /\ mem'[b].assigned = mem[b].assigned
Retires(b) ==
    /\ mem[b].st # "none" /\ mem'[b].st = "retiring" /\ SameRest(b)
    /\ \/ mem[b].st # "claimed" \/ mem[b].tok # "claim" \/ ~mem[b].assigned
       \/ \E s \in Sessions : claim[s] = b /\ Failing(s)
Assigns(b) ==
    \E s \in Sessions :
        /\ spc[s] = "assign" /\ spc'[s] \in {"run", "abandon"} /\ claim[s] = b /\ rec'[s] = rec[s]
        /\ mem[b].st = "claimed" /\ mem'[b].st = "claimed" /\ mem'[b].assigned
        /\ mem'[b].tok = mem[b].tok /\ mem'[b].dest = mem[b].dest
Leaves(b) ==
    /\ mem'[b] = NoMember
    /\ \/ \E a \in Actors : clean[a].step = "remove" /\ clean[a].box = b /\ clean[a].tok = mem[b].tok
       \/ \E r \in Sweepers : wpc[r] = "remove" /\ cur[r] = b /\ seen[r][b].tok = mem[b].tok
MemChange(b) ==
    \/ mem'[b] = mem[b]
    \/ b \in fresh /\ b \notin fresh' /\ mem'[b] = NewMember
    \/ /\ fpc[<<b, "fill">>] = "publish" /\ fpc'[<<b, "fill">>] \in {"reset", "reclaim"}
       /\ mem[b].st = "creating" /\ mem'[b].st = "ready" /\ SameRest(b)
    \/ mem[b].st = "ready" /\ \E s \in Sessions : mem'[b] = Claimed(mem[b], s)
    \/ Retires(b)
    \/ /\ mem[b].st = "none" /\ mem'[b] = LateMember
       /\ \E k \in {"fill", "late"} : fpc[<<b, k>>] = "reclaim"
    \/ Assigns(b)
    \/ Leaves(b)

Killed(b) ==
    \/ \E a \in Actors : clean[a].step = "destroy" /\ clean[a].box = b
    \/ opc = "reap" /\ b \in listed
    \/ \E s \in Sessions : rec[s].st = "terminal" /\ rec[s].box = b
UpChange(b) ==
    \/ up'[b] = up[b]
    \/ up'[b] /\ flight[b] # "no"
    \/ ~up'[b] /\ Killed(b)
FlightChange(b) == flight[b] = "no" => flight'[b] = "no" \/ (b \in fresh /\ b \notin fresh')

\* The creation of b. It ends when the call that creates b fails.
FillChange(b) ==
    /\ fpc'[<<b, "fill">>] = "boot" =>
        \/ b \in fresh /\ b \notin fresh' /\ flight'[b] = "fill" /\ mem'[b] = NewMember
        \/ /\ fpc[<<b, "fill">>] = "boot"
           /\ flight'[b] = flight[b] \/ (flight'[b] = "no" /\ up'[b])
    /\ fpc'[<<b, "fill">>] = "publish" => flight'[b] = flight[b] /\
        \/ fpc[<<b, "fill">>] = "publish"
        \/ fpc[<<b, "fill">>] = "boot" /\ flight[b] = "no"
    /\ b \in fresh' /\ flight[b] = "no" /\ (\A k \in {"fill", "late"} : fpc[<<b, k>>] = "off")
          => \A k \in {"fill", "late"} : fpc'[<<b, k>>] = "off"


\* The route of s goes on, from a step it was at to another.
RouteGoes(s) ==
    /\ rec'[s] = rec[s] /\ spc[s] \notin Ended
    /\ spc[s] \in Assigned => spc'[s] \in Assigned
    /\ spc'[s] \in Early => spc[s] \in Early
    /\ Failing(s) => Failing(s)'
    /\ spc'[s] = "assign" => rec[s].st = "starting" /\ rec[s].box = claim[s] /\ claim'[s] = claim[s]
    /\ spc'[s] = "run" => /\ spc[s] = "assign" /\ mem[claim[s]].st = "claimed"
                          /\ mem'[claim[s]].st = "claimed" /\ mem'[claim[s]].assigned
RecordTo(s, st, box, reclaimed) ==
    rec'[s].st = st /\ rec'[s].box = box /\ rec'[s].reclaimed = reclaimed
SessionChange(s) ==
    \/ rec'[s] = rec[s] /\ spc'[s] = spc[s] /\ (spc[s] = "assign" => claim'[s] = claim[s])
    \/ RouteGoes(s)
    \/ /\ spc[s] \in {"cold", "publish"} /\ spc'[s] \in {"done", "provision", "abandon"}
       /\ rec'[s].st = "starting" /\ ~rec'[s].reclaimed
    \/ /\ spc[s] = "run" /\ spc'[s] \in {"recheck", "abandon"}
       /\ rec[s].st = "starting" /\ RecordTo(s, "running", rec[s].box, rec[s].reclaimed)
    \/ /\ spc[s] = "swap" /\ spc'[s] \in {"done", "abandon"}
       /\ rec[s].st = "starting" /\ RecordTo(s, "starting", None, FALSE)
    \/ /\ spc'[s] = spc[s] \/ (spc[s] = "mark" /\ spc'[s] = "failed")
       /\ rec[s].st \in {"starting", "running"} /\ claim'[s] = claim[s]
       /\ RecordTo(s, "terminal", rec[s].box, rec[s].reclaimed)
    \/ /\ spc'[s] = spc[s] /\ claim'[s] = claim[s] /\ rec[s].st = "terminal"
       /\ RecordTo(s, "terminal", rec[s].box, TRUE)
       /\ rec[s].box # None => ~up'[rec[s].box]
    \/ /\ spc'[s] = spc[s] /\ spc[s] \in Ended
       /\ rec[s].st = "terminal" /\ rec[s].reclaimed /\ RecordTo(s, "none", None, FALSE)
    \/ /\ spc'[s] = spc[s] /\ claim'[s] = claim[s] /\ rec[s].st # "none"
       /\ RecordTo(s, rec[s].st, rec[s].box, TRUE)
       /\ \E a \in Actors : clean[a].step = "mark" /\ clean[a].dest = s /\ clean[a].box = rec[s].box

CleanTo(a, step) == clean'[a].step = step /\ clean'[a].box = clean[a].box /\ clean'[a].tok = clean[a].tok
CleanChange(a) ==
    \/ clean'[a] = clean[a]
    \/ clean'[a].step \in {"off", "read"}
    \/ LET m == mem[clean[a].box] IN
        /\ clean[a].step = "read" /\ CleanTo(a, "destroy") /\ clean'[a].dest = m.dest
        /\ m.st = "retiring" /\ m.tok = clean[a].tok
    \/ /\ clean[a].step = "destroy" /\ ~up'[clean[a].box] /\ clean'[a].dest = clean[a].dest
       /\ CleanTo(a, "mark") \/ CleanTo(a, "remove")
    \/ clean[a].step = "mark" /\ CleanTo(a, "remove") /\ clean'[a].dest = clean[a].dest

SeenChange(r, b) == seen'[r][b] = seen[r][b] \/ seen'[r][b] = NoMember \/ seen'[r][b] = mem[b]
\* The session of a claimed member has ended, as far as the sweep can see.
SessionOver(m, b) ==
    \/ rec[m.dest].st # "none" /\ rec[m.dest].box = b /\ rec[m.dest].reclaimed
    \/ rec[m.dest].st = "none" /\ m.assigned
SweepChange(r) ==
    /\ wpc'[r] = "retire" => seen'[r] = seen[r] /\
        \/ wpc[r] = "retire" /\ cur'[r] = cur[r]
        \/ cur'[r] \in Boxes /\ seen[r][cur'[r]].st # "none"
    /\ wpc'[r] = "remove" => seen'[r] = seen[r] /\
        \/ wpc[r] = "remove" /\ cur'[r] = cur[r]
        \/ /\ cur'[r] \in Boxes /\ seen[r][cur'[r]].st = "claimed"
           /\ SessionOver(seen[r][cur'[r]], cur'[r])
ReapChange ==
    /\ opc' # "idle" => (opc # "idle" /\ listed' \subseteq listed) \/ \A b \in listed' : up[b]
    /\ opc' = "reap" => opc # "idle" /\ listed' \subseteq listed /\
        (opc = "reap" \/ \A b \in listed' : mem[b].st = "none")


LEMMA RetiredChange ==
    ASSUME Shape, NEW c \in Boxes, NEW st, st # "none", NEW tok, NEW force \in BOOLEAN,
           mem' = Retired(c, st, tok, force),
           force => \E s \in Sessions : claim[s] = c /\ Failing(s),
           NEW x \in Boxes
    PROVE  mem'[x] = mem[x] \/ Retires(x)
<1> USE DEF Shape, MemType
<1>1. CASE mem' = mem
  BY <1>1
<1>2. CASE mem[c].st = st /\ (force \/ ~mem[c].assigned) /\ mem' = [mem EXCEPT ![c].st = "retiring"]
  <2>1. x # c => mem'[x] = mem[x]
    BY <1>2
  <2>2. x = c => mem'[x].st = "retiring" /\ SameRest(x) /\ mem[x].st # "none"
    BY <1>2 DEF SameRest, Members
  <2>3. x = c => ~mem[x].assigned \/ \E s \in Sessions : claim[s] = x /\ Failing(s)
    BY <1>2
  <2> QED
    BY <2>1, <2>2, <2>3 DEF Retires
<1> QED
  BY <1>1, <1>2 DEF Retired

\* A step of one creation leaves the others alone.
LEMMA FillSteps ==
    ASSUME Shape, NEW b \in Boxes, NEW k \in {"fill", "late"}, NEW step, FillStep(<<b, k>>, step)
    PROVE  \A c \in Boxes, j \in {"fill", "late"} :
              fpc'[<<c, j>>] = IF c = b /\ j = k THEN step ELSE fpc[<<c, j>>]
  BY DEF Shape, FillType, FillStep, Fillers

LEMMA MemChanges ==
    ASSUME Shape, MemberInv, SweepInv, Next, NEW x \in Boxes PROVE MemChange(x)
<1> USE DEF Shape, MemType, Members, MemChange, SameRest, NoMember, NewMember, LateMember,
  Claimed, Removed, Retired
<1>1. CASE \E a \in Actors : CleanRemove(a)
  BY <1>1 DEF CleanRemove, Leaves, CleanType
<1>2. CASE \E b \in Boxes : PublishReady(b)
  <2> PICK b \in Boxes : PublishReady(b)
    BY <1>2
  <2>1. CASE mem' = mem
    BY <2>1
  <2>2. CASE mem[b].st = "creating" /\ mem' = [mem EXCEPT ![b].st = "ready"]
    <3>1. FillStep(<<b, "fill">>, "reset") \/ FillStep(<<b, "fill">>, "reclaim")
      BY DEF PublishReady
    <3>2. fpc'[<<b, "fill">>] \in {"reset", "reclaim"}
      BY <3>1, FillSteps
    <3> QED
      BY <2>2, <3>2 DEF PublishReady
  <2> QED
    BY <2>1, <2>2 DEF PublishReady
<1>3. CASE \E f \in Fillers : ReclaimCreation(f)
  <2> PICK f \in Fillers : ReclaimCreation(f)
    BY <1>3
  <2>1. PICK b \in Boxes, k \in {"fill", "late"} : f = <<b, k>>
    BY DEF Fillers
  <2>2. CASE mem' = mem
    BY <2>2
  <2>3. CASE mem[b].st = "none" /\ mem' = [mem EXCEPT ![b] = LateMember]
    BY <2>1, <2>3 DEF ReclaimCreation
  <2>4. CASE mem[b].st # "none" /\ mem[b].tok = "fill" /\ mem' = [mem EXCEPT ![b].st = "retiring"]
    BY <2>4 DEF Retires
  <2>5. f[1] = b
    BY <2>1
  <2> QED
    <3>1. CASE mem[b].st = "none"
      BY <2>1, <2>2, <2>3, <2>5, <3>1 DEF ReclaimCreation, MemberInv
    <3>2. CASE mem[b].st # "none" /\ mem[b].tok = "fill"
      BY <2>2, <2>4, <2>5, <3>2 DEF ReclaimCreation
    <3>3. CASE mem[b].st # "none" /\ mem[b].tok # "fill"
      BY <2>2, <2>5, <3>3 DEF ReclaimCreation
    <3> QED
      BY <3>1, <3>2, <3>3
<1>4. CASE \E s \in Sessions : Reserve(s)
  <2> PICK s \in Sessions : Reserve(s)
    BY <1>4
  <2>1. mem' = mem \/ \E c \in Boxes : mem[c].st = "ready" /\ mem' = [mem EXCEPT ![c] = Claimed(mem[c], s)]
    BY DEF Reserve
  <2> QED
    BY <2>1
<1>5. CASE \E s \in Sessions : RetireClaim(s)
  <2> PICK s \in Sessions : RetireClaim(s)
    BY <1>5
  <2>1. CASE mem' = mem
    BY <2>1
  <2>2. CASE mem' = Retired(claim[s], "claimed", "claim", FALSE) /\ claim[s] \in Boxes
    <3> HIDE DEF Retired
    <3> QED
      BY <2>2, RetiredChange
  <2>3. CASE claim[s] \notin Boxes
    BY <2>1, <2>3 DEF RetireClaim
  <2> QED
    BY <2>1, <2>2, <2>3 DEF RetireClaim
<1>6. CASE \E s \in Sessions : ProbeFails(s)
  <2> PICK s \in Sessions : ProbeFails(s)
    BY <1>6
  <2>1. CASE mem' = mem
    BY <2>1
  <2>2. CASE mem' = Retired(claim[s], "claimed", "claim", FALSE) /\ claim[s] \in Boxes
    <3> HIDE DEF Retired
    <3> QED
      BY <2>2, RetiredChange
  <2>3. CASE claim[s] \notin Boxes
    BY <2>1, <2>3 DEF ProbeFails
  <2> QED
    BY <2>1, <2>2, <2>3 DEF ProbeFails
<1>7. CASE \E s \in Sessions : HandoffAssign(s)
  <2> PICK s \in Sessions : HandoffAssign(s)
    BY <1>7
  <2>1. CASE mem' = mem
    BY <2>1
  <2>2. CASE /\ mem[claim[s]].st = "claimed" /\ mem' = [mem EXCEPT ![claim[s]].assigned = TRUE]
             /\ RouteStep(s, "run") \/ RouteStep(s, "abandon")
    <3>1. claim[s] \in Boxes /\ spc[s] = "assign" /\ rec' = rec
      BY DEF HandoffAssign, RouteType, Ended
    <3>2. spc'[s] \in {"run", "abandon"}
      BY <2>2 DEF RouteStep, RouteType
    <3>3. x # claim[s] => mem'[x] = mem[x]
      BY <2>2
    <3>4. x = claim[s] => /\ mem'[x].st = "claimed" /\ mem'[x].assigned
                          /\ mem'[x].tok = mem[x].tok /\ mem'[x].dest = mem[x].dest
      BY <2>2
    <3> QED
      BY <2>2, <3>1, <3>2, <3>3, <3>4 DEF Assigns
  <2> QED
    BY <2>1, <2>2 DEF HandoffAssign
<1>8. CASE \E s \in Sessions : Abandon(s)
  <2> PICK s \in Sessions : Abandon(s)
    BY <1>8
  <2>1. CASE mem' = mem
    BY <2>1
  <2>2. CASE mem' = Retired(claim[s], "claimed", "claim", TRUE)
    <3>1. claim[s] \in Boxes /\ Failing(s)
      BY DEF Abandon, RouteType, Ended, Failing
    <3> HIDE DEF Retired
    <3> QED
      BY <2>2, <3>1, RetiredChange
  <2> QED
    BY <2>1, <2>2 DEF Abandon
<1>9. CASE \E r \in Sweepers : Trim(r)
  <2> PICK r \in Sweepers : Trim(r)
    BY <1>9
  <2>1. PICK D \in SUBSET Available :
          mem' = [b \in Boxes |-> IF b \in D THEN [mem[b] EXCEPT !.st = "retiring"] ELSE mem[b]]
    BY DEF Trim
  <2>2. CASE x \notin D
    BY <2>1, <2>2
  <2>3. CASE x \in D
    <3>1. mem[x].st \in {"creating", "ready"}
      BY <2>3 DEF Available
    <3>2. mem'[x].st = "retiring" /\ SameRest(x)
      BY <2>1, <2>3
    <3> QED
      BY <3>1, <3>2 DEF Retires
  <2> QED
    BY <2>2, <2>3
<1>10. CASE \E r \in Sweepers : ItemRemove(r)
  BY <1>10 DEF ItemRemove, Leaves, SweepType
<1>11. CASE \E r \in Sweepers : ItemRetire(r)
  <2> PICK r \in Sweepers : ItemRetire(r)
    BY <1>11
  <2>1. CASE mem' = mem
    BY <2>1
  <2>2. CASE mem' = Retired(cur[r], seen[r][cur[r]].st, seen[r][cur[r]].tok, FALSE)
    <3>1. cur[r] \in Boxes /\ seen[r][cur[r]].st # "none"
      BY DEF ItemRetire, SweepType, SweepInv
    <3> HIDE DEF Retired
    <3> QED
      BY <2>2, <3>1, RetiredChange
  <2> QED
    BY <2>1, <2>2 DEF ItemRetire
<1>12. CASE \E r \in Sweepers : ReserveCreations(r)
  <2>1. PICK B \in SUBSET fresh :
          /\ mem' = [b \in Boxes |-> IF b \in B THEN NewMember ELSE mem[b]]
          /\ fresh' = fresh \ B
    BY <1>12 DEF ReserveCreations
  <2>2. x \in B => x \in fresh /\ x \notin fresh' /\ mem'[x] = NewMember
    BY <2>1
  <2>3. x \notin B => mem'[x] = mem[x]
    BY <2>1
  <2> QED
    BY <2>2, <2>3
<1>13. CASE UNCHANGED <<mem>>
  BY <1>13
<1> QED
  BY <1>1, <1>2, <1>3, <1>4, <1>5, <1>6, <1>7, <1>8, <1>9, <1>10, <1>11, <1>12, <1>13, NextCases
    DEF CleanRead, CleanDestroy, CleanMark, CleanFails, CreateLands, CreateFails, Boot,
      BootTimeout, BackOff, ResetFailures, PublishCold, ProbeSucceeds, CreateSession, RouteFails,
      AwaitProbe, HandoffRead, SetRunning, Finish, ReplaceSandbox, MarkFailed, RouteCrash,
      EndSession, ReclaimSession, ReapSession, Scan, ItemClaimed, ItemCreating, ItemReady,
      ItemRetiring, EndSweep, SweepCrash, ListActive, ListSessions, ListPools, ReapOrphan,
      OperationExpires, ReadinessExpires, CoolDown, pool, provider, fillers, routes, sweeps,
      reaper

LEMMA UpChanges ==
    ASSUME Shape, Next, NEW x \in Boxes PROVE UpChange(x)
<1> USE DEF Shape, UpType, UpChange
<1>1. CASE \E a \in Actors : CleanDestroy(a)
  BY <1>1 DEF CleanDestroy, Killed, CleanType
<1>2. CASE \E b \in Boxes : CreateLands(b)
  BY <1>2 DEF CreateLands
<1>3. CASE \E s \in Sessions : ReclaimSession(s)
  BY <1>3 DEF ReclaimSession, Killed
<1>4. CASE ReapOrphan
  BY <1>4 DEF ReapOrphan, Killed
<1>5. CASE UNCHANGED <<up>>
  BY <1>5
<1> QED
  BY <1>1, <1>2, <1>3, <1>4, <1>5, NextCases
    DEF CleanRead, CleanMark, CleanRemove, CleanFails, CreateFails, Boot, BootTimeout, BackOff,
      PublishReady, ResetFailures, ReclaimCreation, Reserve, RetireClaim, PublishCold,
      ProbeSucceeds, ProbeFails, CreateSession, RouteFails, AwaitProbe, HandoffRead,
      HandoffAssign, SetRunning, Finish, Abandon, ReplaceSandbox, MarkFailed, RouteCrash,
      EndSession, ReapSession, Trim, Scan, ItemClaimed, ItemCreating, ItemReady, ItemRetiring,
      ItemRemove, ItemRetire, ReserveCreations, EndSweep, SweepCrash, ListActive, ListSessions,
      ListPools, OperationExpires, ReadinessExpires, CoolDown, pool, provider, fillers, routes,
      sweeps, reaper

LEMMA FlightChanges ==
    ASSUME Shape, Next, NEW x \in Boxes PROVE FlightChange(x)
<1> USE DEF Shape, FlightType, FlightChange
<1>1. CASE \E b \in Boxes : CreateLands(b)
  BY <1>1 DEF CreateLands
<1>2. CASE \E b \in Boxes : CreateFails(b)
  BY <1>2 DEF CreateFails
<1>3. CASE \E b \in Boxes : BootTimeout(b)
  BY <1>3 DEF BootTimeout
<1>4. CASE \E r \in Sweepers : ReserveCreations(r)
  BY <1>4 DEF ReserveCreations
<1>5. CASE \E r \in Sweepers : SweepCrash(r)
  BY <1>5 DEF SweepCrash
<1>6. CASE UNCHANGED <<flight>>
  BY <1>6
<1> QED
  BY <1>1, <1>2, <1>3, <1>4, <1>5, <1>6, NextCases
    DEF CleanRead, CleanDestroy, CleanMark, CleanRemove, CleanFails, Boot, BackOff, PublishReady,
      ResetFailures, ReclaimCreation, Reserve, RetireClaim, PublishCold, ProbeSucceeds,
      ProbeFails, CreateSession, RouteFails, AwaitProbe, HandoffRead, HandoffAssign, SetRunning,
      Finish, Abandon, ReplaceSandbox, MarkFailed, RouteCrash, EndSession, ReclaimSession,
      ReapSession, Trim, Scan, ItemClaimed, ItemCreating, ItemReady, ItemRetiring, ItemRemove,
      ItemRetire, EndSweep, ListActive, ListSessions, ListPools, ReapOrphan, OperationExpires,
      ReadinessExpires, CoolDown, pool, provider, fillers, routes, sweeps, reaper

LEMMA FillChanges ==
    ASSUME Shape, FillInv, Next, NEW x \in Boxes PROVE FillChange(x)
<1> USE DEF Shape, FlightType, FillChange
<1>1. CASE \E b \in Boxes : CreateLands(b)
  <2> PICK b \in Boxes : CreateLands(b)
    BY <1>1
  <2>1. \A c \in Boxes : /\ fpc'[<<c, "fill">>] = fpc[<<c, "fill">>]
                         /\ c # b => fpc'[<<c, "late">>] = fpc[<<c, "late">>]
    BY FillSteps DEF CreateLands
  <2>2. CASE x = b
    BY <2>1, <2>2 DEF CreateLands, FillInv, UpType
  <2>3. CASE x # b
    BY <2>1, <2>3 DEF CreateLands
  <2> QED
    BY <2>2, <2>3
<1>2. CASE \E b \in Boxes : CreateFails(b)
  <2> PICK b \in Boxes : CreateFails(b)
    BY <1>2
  <2>1. /\ \A c \in Boxes \ {b}, j \in {"fill", "late"} : fpc'[<<c, j>>] = fpc[<<c, j>>]
        /\ fpc'[<<b, "fill">>] = IF flight[b] = "fill" THEN "fail" ELSE fpc[<<b, "fill">>]
    BY DEF CreateFails, FillType, Fillers
  <2>2. CASE x = b
    <3>1. /\ flight[b] # "no" /\ fpc[<<b, "fill">>] # "publish"
          /\ fpc[<<b, "fill">>] = "boot" => flight[b] = "fill"
      BY DEF CreateFails, FillInv
    <3> QED
      BY <2>1, <2>2, <3>1
  <2>3. CASE x # b
    BY <2>1, <2>3 DEF CreateFails
  <2> QED
    BY <2>2, <2>3
<1>3. CASE \E b \in Boxes : Boot(b)
  <2> PICK b \in Boxes : Boot(b)
    BY <1>3
  <2>1. /\ \A c \in Boxes, j \in {"fill", "late"} : c # b \/ j # "fill" => fpc'[<<c, j>>] = fpc[<<c, j>>]
        /\ fpc'[<<b, "fill">>] \in {"publish", "fail"}
    BY FillSteps DEF Boot
  <2> QED
    BY <2>1 DEF Boot, provider
<1>4. CASE \E b \in Boxes : BootTimeout(b)
  <2> PICK b \in Boxes : BootTimeout(b)
    BY <1>4
  <2>1. /\ \A c \in Boxes \ {b}, j \in {"fill", "late"} : fpc'[<<c, j>>] = fpc[<<c, j>>]
        /\ fpc'[<<b, "fill">>] = "fail"
    <3>1. CASE FillStep(<<b, "fill">>, "fail")
      BY <3>1, FillSteps
    <3>2. CASE fpc' = [fpc EXCEPT ![<<b, "fill">>] = "fail", ![<<b, "late">>] = "reclaim"]
      BY <3>2 DEF FillType, Fillers
    <3> QED
      BY <3>1, <3>2 DEF BootTimeout
  <2>2. CASE x = b
    BY <2>1, <2>2 DEF BootTimeout
  <2>3. CASE x # b
    BY <2>1, <2>3 DEF BootTimeout
  <2> QED
    BY <2>2, <2>3
<1>5. CASE \E b \in Boxes : BackOff(b)
  <2> PICK b \in Boxes : BackOff(b)
    BY <1>5
  <2>1. /\ \A c \in Boxes, j \in {"fill", "late"} : c # b \/ j # "fill" => fpc'[<<c, j>>] = fpc[<<c, j>>]
        /\ fpc'[<<b, "fill">>] \in {"off", "reset", "reclaim"}
    BY FillSteps DEF BackOff
  <2> QED
    BY <2>1 DEF BackOff, provider
<1>6. CASE \E b \in Boxes : PublishReady(b)
  <2> PICK b \in Boxes : PublishReady(b)
    BY <1>6
  <2>1. /\ \A c \in Boxes, j \in {"fill", "late"} : c # b \/ j # "fill" => fpc'[<<c, j>>] = fpc[<<c, j>>]
        /\ fpc'[<<b, "fill">>] \in {"off", "reset", "reclaim"}
    BY FillSteps DEF PublishReady
  <2> QED
    BY <2>1 DEF PublishReady, provider
<1>7. CASE \E b \in Boxes : ResetFailures(b)
  <2> PICK b \in Boxes : ResetFailures(b)
    BY <1>7
  <2>1. /\ \A c \in Boxes, j \in {"fill", "late"} : c # b \/ j # "fill" => fpc'[<<c, j>>] = fpc[<<c, j>>]
        /\ fpc'[<<b, "fill">>] \in {"off", "reset", "reclaim"}
    BY FillSteps DEF ResetFailures
  <2> QED
    BY <2>1 DEF ResetFailures, provider
<1>8. CASE \E f \in Fillers : ReclaimCreation(f)
  <2> PICK f \in Fillers : ReclaimCreation(f)
    BY <1>8
  <2>1. \A g \in Fillers : fpc'[g] = fpc[g] \/ fpc'[g] = "off"
    BY DEF ReclaimCreation, FillStep, FillType
  <2>2. \A c \in Boxes, j \in {"fill", "late"} : <<c, j>> \in Fillers
    BY DEF Fillers
  <2>3. flight' = flight
    BY DEF ReclaimCreation, provider
  <2>4. \A c \in Boxes, j \in {"fill", "late"} : fpc'[<<c, j>>] = fpc[<<c, j>>] \/ fpc'[<<c, j>>] = "off"
    BY <2>1, <2>2
  <2> QED
    BY <2>3, <2>4
<1>9. CASE \E r \in Sweepers : ReserveCreations(r)
  BY <1>9 DEF ReserveCreations, FillType, Fillers
<1>10. CASE \E r \in Sweepers : SweepCrash(r)
  BY <1>10 DEF SweepCrash, FillType, Fillers
<1>11. CASE UNCHANGED <<fpc, flight>>
  BY <1>11
<1> QED
  BY <1>1, <1>2, <1>3, <1>4, <1>5, <1>6, <1>7, <1>8, <1>9, <1>10, <1>11, NextCases
    DEF CleanRead, CleanDestroy, CleanMark, CleanRemove, CleanFails, Reserve, RetireClaim,
      PublishCold, ProbeSucceeds, ProbeFails, CreateSession, RouteFails, AwaitProbe, HandoffRead,
      HandoffAssign, SetRunning, Finish, Abandon, ReplaceSandbox, MarkFailed, RouteCrash,
      EndSession, ReclaimSession, ReapSession, Trim, Scan, ItemClaimed, ItemCreating, ItemReady,
      ItemRetiring, ItemRemove, ItemRetire, EndSweep, ListActive, ListSessions, ListPools,
      ReapOrphan, OperationExpires, ReadinessExpires, CoolDown, pool, provider, fillers, routes,
      sweeps, reaper

LEMMA SessionChanges ==
    ASSUME Shape, Next, NEW x \in Sessions PROVE SessionChange(x)
<1> USE DEF Shape, RecType, Records, RouteType, RouteStep, SessionChange
<1>1. CASE \E a \in Actors : CleanMark(a)
  <2> PICK a \in Actors : CleanMark(a)
    BY <1>1
  <2>1. CASE rec' = rec
    BY <2>1 DEF CleanMark, routes
  <2>2. CASE /\ rec[clean[a].dest].st # "none" /\ rec[clean[a].dest].box = clean[a].box
             /\ rec' = [rec EXCEPT ![clean[a].dest].reclaimed = TRUE]
    <3>1. CASE x = clean[a].dest
      <4>1. RecordTo(x, rec[x].st, rec[x].box, TRUE)
        BY <2>2, <3>1 DEF RecordTo
      <4> QED
        BY <2>2, <3>1, <4>1 DEF CleanMark, routes
    <3>2. CASE x # clean[a].dest
      BY <2>2, <3>2 DEF CleanMark, routes
    <3> QED
      BY <3>1, <3>2
  <2> QED
    BY <2>1, <2>2 DEF CleanMark
<1>2. CASE \E s \in Sessions : Reserve(s)
  <2> PICK s \in Sessions : Reserve(s)
    BY <1>2
  <2>1. /\ rec' = rec /\ spc[s] = "idle" /\ spc'[s] \in {"publish", "unclaim", "cold"}
        /\ \A c \in Sessions \ {s} : spc'[c] = spc[c] /\ claim'[c] = claim[c]
    BY DEF Reserve
  <2> QED
    BY <2>1 DEF RouteGoes, Ended, Early, Assigned, Failing
<1>3. CASE \E s \in Sessions : RetireClaim(s)
  <2> PICK s \in Sessions : RetireClaim(s)
    BY <1>3
  <2>1. /\ rec' = rec /\ spc[s] = "unclaim" /\ spc'[s] = "cold"
        /\ \A c \in Sessions \ {s} : spc'[c] = spc[c] /\ claim'[c] = claim[c]
    BY DEF RetireClaim
  <2> QED
    BY <2>1 DEF RouteGoes, Ended, Early, Assigned, Failing
<1>4. CASE \E s \in Sessions : PublishCold(s)
  <2> PICK s \in Sessions : PublishCold(s)
    BY <1>4
  <2>1. /\ rec'[s] = Starting(None) /\ spc[s] = "cold" /\ spc'[s] = "done" /\ claim' = claim
        /\ \A c \in Sessions \ {s} : spc'[c] = spc[c] /\ rec'[c] = rec[c]
    BY DEF PublishCold
  <2>2. rec'[s].st = "starting" /\ ~rec'[s].reclaimed
    BY <2>1 DEF Starting
  <2> QED
    BY <2>1, <2>2
<1>5. CASE \E s \in Sessions : CreateSession(s)
  BY <1>5 DEF CreateSession, RouteGoes, Ended, Early, Assigned, Failing, RecordTo, Starting
<1>6. CASE \E s \in Sessions : RouteFails(s)
  <2> PICK s \in Sessions : RouteFails(s)
    BY <1>6
  <2>1. /\ rec' = rec /\ spc[s] \in {"provision", "handoff", "run", "recheck"} /\ spc'[s] = "abandon"
        /\ \A c \in Sessions \ {s} : spc'[c] = spc[c] /\ claim'[c] = claim[c]
    BY DEF RouteFails
  <2> QED
    BY <2>1 DEF RouteGoes, Ended, Early, Assigned, Failing
<1>7. CASE \E s \in Sessions : AwaitProbe(s)
  <2> PICK s \in Sessions : AwaitProbe(s)
    BY <1>7
  <2>1. /\ rec' = rec /\ spc[s] = "provision" /\ spc'[s] \in {"handoff", "replace"}
        /\ \A c \in Sessions \ {s} : spc'[c] = spc[c] /\ claim'[c] = claim[c]
    BY DEF AwaitProbe
  <2> QED
    BY <2>1 DEF RouteGoes, Ended, Early, Assigned, Failing
<1>8. CASE \E s \in Sessions : HandoffRead(s)
  <2> PICK s \in Sessions : HandoffRead(s)
    BY <1>8
  <2>1. /\ rec' = rec /\ claim' = claim /\ spc[s] = "handoff" /\ spc'[s] \in {"assign", "abandon"}
        /\ spc'[s] = "assign" => rec[s].st = "starting" /\ rec[s].box = claim[s]
        /\ \A c \in Sessions \ {s} : spc'[c] = spc[c]
    BY DEF HandoffRead
  <2> QED
    BY <2>1 DEF RouteGoes, Ended, Early, Assigned, Failing
<1>9. CASE \E s \in Sessions : HandoffAssign(s)
  <2> PICK s \in Sessions : HandoffAssign(s)
    BY <1>9
  <2>1. rec' = rec /\ claim' = claim /\ \A c \in Sessions \ {s} : spc'[c] = spc[c]
    BY DEF HandoffAssign
  <2>2. spc[s] = "assign" /\ spc'[s] \in {"run", "replace", "abandon"}
    BY DEF HandoffAssign
  <2>3. spc'[s] = "run" => /\ mem[claim[s]].st = "claimed" /\ claim[s] \in Boxes
                           /\ mem' = [mem EXCEPT ![claim[s]].assigned = TRUE]
    BY DEF HandoffAssign, Ended
  <2>4. spc'[s] = "run" => mem'[claim[s]].st = "claimed" /\ mem'[claim[s]].assigned
    BY <2>3 DEF MemType, Members
  <2> QED
    BY <2>1, <2>2, <2>3, <2>4 DEF RouteGoes, Ended, Early, Assigned, Failing
<1>10. CASE \E s \in Sessions : SetRunning(s)
  BY <1>10 DEF SetRunning, RouteGoes, Ended, Early, Assigned, Failing, RecordTo
<1>11. CASE \E s \in Sessions : Finish(s)
  <2> PICK s \in Sessions : Finish(s)
    BY <1>11
  <2>1. /\ rec' = rec /\ spc[s] = "recheck" /\ spc'[s] = "done"
        /\ \A c \in Sessions \ {s} : spc'[c] = spc[c] /\ claim'[c] = claim[c]
    BY DEF Finish
  <2> QED
    BY <2>1 DEF RouteGoes, Ended, Early, Assigned, Failing
<1>12. CASE \E s \in Sessions : Abandon(s)
  <2> PICK s \in Sessions : Abandon(s)
    BY <1>12
  <2>1. /\ rec' = rec /\ spc[s] \in {"replace", "abandon"} /\ spc'[s] \in {"swap", "mark"}
        /\ spc[s] = "abandon" => spc'[s] = "mark"
        /\ \A c \in Sessions \ {s} : spc'[c] = spc[c] /\ claim'[c] = claim[c]
    BY DEF Abandon
  <2> QED
    BY <2>1 DEF RouteGoes, Ended, Early, Assigned, Failing
<1>13. CASE \E s \in Sessions : ReplaceSandbox(s)
  BY <1>13 DEF ReplaceSandbox, RouteGoes, Ended, Early, Assigned, Failing, RecordTo
<1>14. CASE \E s \in Sessions : MarkFailed(s)
  BY <1>14 DEF MarkFailed, RouteGoes, Ended, Early, Assigned, Failing, RecordTo
<1>15. CASE \E s \in Sessions : RouteCrash(s)
  <2> PICK s \in Sessions : RouteCrash(s)
    BY <1>15
  <2>1. /\ rec' = rec /\ spc[s] \notin Ended /\ spc'[s] \in {"failed", "crashed"}
        /\ Failing(s) => spc'[s] = "failed"
        /\ \A c \in Sessions \ {s} : spc'[c] = spc[c] /\ claim'[c] = claim[c]
    BY DEF RouteCrash, Ended, Failing
  <2> QED
    BY <2>1 DEF RouteGoes, Ended, Early, Assigned, Failing
<1>16. CASE \E s \in Sessions : EndSession(s)
  BY <1>16 DEF EndSession, RecordTo, routes
<1>17. CASE \E s \in Sessions : ReclaimSession(s)
  BY <1>17 DEF ReclaimSession, RecordTo, routes, UpType
<1>18. CASE \E s \in Sessions : ReapSession(s)
  <2> PICK s \in Sessions : ReapSession(s)
    BY <1>18
  <2>1. rec'[s] = NoRecord /\ spc' = spc /\ claim' = claim /\ \A c \in Sessions \ {s} : rec'[c] = rec[c]
    BY DEF ReapSession, routes
  <2>2. RecordTo(s, "none", None, FALSE)
    BY <2>1 DEF RecordTo, NoRecord
  <2> QED
    BY <2>1, <2>2 DEF ReapSession, Ended
<1>19. CASE UNCHANGED <<rec, spc, claim>>
  BY <1>19
<1> QED
  BY <1>1, <1>2, <1>3, <1>4, <1>5, <1>6, <1>7, <1>8, <1>9, <1>10, <1>11, <1>12, <1>13, <1>14,
    <1>15, <1>16, <1>17, <1>18, <1>19, NextCases
    DEF CleanRead, CleanDestroy, CleanRemove, CleanFails, CreateLands, CreateFails, Boot,
      BootTimeout, BackOff, PublishReady, ResetFailures, ReclaimCreation, ProbeSucceeds,
      ProbeFails, Trim, Scan, ItemClaimed, ItemCreating, ItemReady, ItemRetiring, ItemRemove,
      ItemRetire, ReserveCreations, EndSweep, SweepCrash, ListActive, ListSessions, ListPools,
      ReapOrphan, OperationExpires, ReadinessExpires, CoolDown, pool, provider, fillers, routes,
      sweeps, reaper

LEMMA StartChange ==
    ASSUME Shape, NEW a, NEW b, NEW tok, StartCleanup(a, b, tok), NEW x \in Actors
    PROVE  clean'[x] = clean[x] \/ clean'[x].step = "read"
  BY DEF Shape, CleanType, StartCleanup, CleanupOf

LEMMA CleanChanges ==
    ASSUME Shape, Next, NEW x \in Actors PROVE CleanChange(x)
<1> USE DEF Shape, CleanType, Cleanups, CleanChange, CleanTo, NoCleanup, Destroying
<1>1. CASE \E a \in Actors : CleanRead(a)
  BY <1>1 DEF CleanRead
<1>2. CASE \E a \in Actors : CleanDestroy(a)
  BY <1>2 DEF CleanDestroy, UpType
<1>3. CASE \E a \in Actors : CleanMark(a)
  BY <1>3 DEF CleanMark
<1>4. CASE \E a \in Actors : CleanRemove(a)
  BY <1>4 DEF CleanRemove
<1>5. CASE \E a \in Actors : CleanFails(a)
  BY <1>5 DEF CleanFails
<1>6. CASE \E f \in Fillers : ReclaimCreation(f)
  BY <1>6, StartChange DEF ReclaimCreation
<1>7. CASE \E s \in Sessions : Abandon(s)
  BY <1>7, StartChange DEF Abandon
<1>8. CASE \E s \in Sessions : RouteCrash(s)
  BY <1>8 DEF RouteCrash, Actors
<1>9. CASE \E r \in Sweepers, b \in Boxes : ItemRetiring(r, b)
  BY <1>9, StartChange DEF ItemRetiring
<1>10. CASE \E r \in Sweepers : ItemRetire(r)
  BY <1>10, StartChange DEF ItemRetire
<1>11. CASE \E r \in Sweepers : SweepCrash(r)
  BY <1>11 DEF SweepCrash
<1>12. CASE UNCHANGED <<clean>>
  BY <1>12
<1> QED
  BY <1>1, <1>2, <1>3, <1>4, <1>5, <1>6, <1>7, <1>8, <1>9, <1>10, <1>11, <1>12, NextCases
    DEF CreateLands, CreateFails, Boot, BootTimeout, BackOff, PublishReady, ResetFailures,
      Reserve, RetireClaim, PublishCold, ProbeSucceeds, ProbeFails, CreateSession, RouteFails,
      AwaitProbe, HandoffRead, HandoffAssign, SetRunning, Finish, ReplaceSandbox, MarkFailed,
      EndSession, ReclaimSession, ReapSession, Trim, Scan, ItemClaimed, ItemCreating, ItemReady,
      ItemRemove, ReserveCreations, EndSweep, ListActive, ListSessions, ListPools, ReapOrphan,
      OperationExpires, ReadinessExpires, CoolDown, pool, provider, fillers, routes, sweeps,
      reaper

LEMMA SeenChanges ==
    ASSUME Shape, Next, NEW x \in Sweepers, NEW y \in Boxes PROVE SeenChange(x, y)
<1> USE DEF Shape, SweepType, SeenChange, ItemDone, ItemGoes
<1>1. CASE \E r \in Sweepers : Scan(r)
  BY <1>1 DEF Scan, MemType
<1>2. CASE \E r \in Sweepers, b \in Boxes : ItemClaimed(r, b)
  BY <1>2 DEF ItemClaimed
<1>3. CASE \E r \in Sweepers, b \in Boxes : ItemCreating(r, b)
  BY <1>3 DEF ItemCreating
<1>4. CASE \E r \in Sweepers, b \in Boxes : ItemReady(r, b)
  BY <1>4 DEF ItemReady
<1>5. CASE \E r \in Sweepers, b \in Boxes : ItemRetiring(r, b)
  BY <1>5 DEF ItemRetiring
<1>6. CASE \E r \in Sweepers : ItemRemove(r)
  BY <1>6 DEF ItemRemove
<1>7. CASE \E r \in Sweepers : ItemRetire(r)
  BY <1>7 DEF ItemRetire
<1>8. CASE \E r \in Sweepers : SweepCrash(r)
  BY <1>8 DEF SweepCrash
<1>9. CASE UNCHANGED <<seen>>
  BY <1>9
<1> QED
  BY <1>1, <1>2, <1>3, <1>4, <1>5, <1>6, <1>7, <1>8, <1>9, NextCases
    DEF CleanRead, CleanDestroy, CleanMark, CleanRemove, CleanFails, CreateLands, CreateFails,
      Boot, BootTimeout, BackOff, PublishReady, ResetFailures, ReclaimCreation, Reserve,
      RetireClaim, PublishCold, ProbeSucceeds, ProbeFails, CreateSession, RouteFails, AwaitProbe,
      HandoffRead, HandoffAssign, SetRunning, Finish, Abandon, ReplaceSandbox, MarkFailed,
      RouteCrash, EndSession, ReclaimSession, ReapSession, Trim, ReserveCreations, EndSweep,
      ListActive, ListSessions, ListPools, ReapOrphan, OperationExpires, ReadinessExpires,
      CoolDown, pool, provider, fillers, routes, sweeps, reaper

LEMMA SweepChanges ==
    ASSUME Shape, Next, NEW x \in Sweepers PROVE SweepChange(x)
<1> USE DEF Shape, SweepType, SweepChange, SweepStep, ItemDone, ItemGoes
<1>1. CASE \E r \in Sweepers : Trim(r)
  BY <1>1 DEF Trim
<1>2. CASE \E r \in Sweepers : Scan(r)
  BY <1>2 DEF Scan
<1>3. CASE \E r \in Sweepers, b \in Boxes : ItemClaimed(r, b)
  BY <1>3 DEF ItemClaimed, SessionOver
<1>4. CASE \E r \in Sweepers, b \in Boxes : ItemCreating(r, b)
  BY <1>4 DEF ItemCreating
<1>5. CASE \E r \in Sweepers, b \in Boxes : ItemReady(r, b)
  BY <1>5 DEF ItemReady
<1>6. CASE \E r \in Sweepers, b \in Boxes : ItemRetiring(r, b)
  BY <1>6 DEF ItemRetiring
<1>7. CASE \E r \in Sweepers : ItemRemove(r)
  BY <1>7 DEF ItemRemove
<1>8. CASE \E r \in Sweepers : ItemRetire(r)
  BY <1>8 DEF ItemRetire
<1>9. CASE \E r \in Sweepers : ReserveCreations(r)
  BY <1>9 DEF ReserveCreations
<1>10. CASE \E r \in Sweepers : EndSweep(r)
  BY <1>10 DEF EndSweep
<1>11. CASE \E r \in Sweepers : SweepCrash(r)
  BY <1>11 DEF SweepCrash
<1>12. CASE UNCHANGED <<wpc, seen, cur>>
  BY <1>12
<1> QED
  BY <1>1, <1>2, <1>3, <1>4, <1>5, <1>6, <1>7, <1>8, <1>9, <1>10, <1>11, <1>12, NextCases
    DEF CleanRead, CleanDestroy, CleanMark, CleanRemove, CleanFails, CreateLands, CreateFails,
      Boot, BootTimeout, BackOff, PublishReady, ResetFailures, ReclaimCreation, Reserve,
      RetireClaim, PublishCold, ProbeSucceeds, ProbeFails, CreateSession, RouteFails, AwaitProbe,
      HandoffRead, HandoffAssign, SetRunning, Finish, Abandon, ReplaceSandbox, MarkFailed,
      RouteCrash, EndSession, ReclaimSession, ReapSession, ListActive, ListSessions, ListPools,
      ReapOrphan, OperationExpires, ReadinessExpires, CoolDown, pool, provider, fillers, routes,
      sweeps, reaper

LEMMA ReapChanges ==
    ASSUME Shape, Next PROVE ReapChange
<1> USE DEF Shape, ReaperType, ReapChange
<1>1. CASE ListActive
  BY <1>1 DEF ListActive
<1>2. CASE ListSessions
  BY <1>2 DEF ListSessions
<1>3. CASE ListPools
  BY <1>3 DEF ListPools
<1>4. CASE ReapOrphan
  BY <1>4 DEF ReapOrphan
<1>5. CASE UNCHANGED <<opc, listed>>
  BY <1>5
<1> QED
  BY <1>1, <1>2, <1>3, <1>4, <1>5, NextCases
    DEF CleanRead, CleanDestroy, CleanMark, CleanRemove, CleanFails, CreateLands, CreateFails,
      Boot, BootTimeout, BackOff, PublishReady, ResetFailures, ReclaimCreation, Reserve,
      RetireClaim, PublishCold, ProbeSucceeds, ProbeFails, CreateSession, RouteFails, AwaitProbe,
      HandoffRead, HandoffAssign, SetRunning, Finish, Abandon, ReplaceSandbox, MarkFailed,
      RouteCrash, EndSession, ReclaimSession, ReapSession, Trim, Scan, ItemClaimed, ItemCreating,
      ItemReady, ItemRetiring, ItemRemove, ItemRetire, ReserveCreations, EndSweep, SweepCrash,
      OperationExpires, ReadinessExpires, CoolDown, pool, provider, fillers, routes, sweeps,
      reaper
\* A new claim is of the session that the member now names.
LEMMA ClaimDest ==
    ASSUME Shape, Next, NEW x \in Sessions, claim'[x] # claim[x], claim'[x] # None
    PROVE  mem'[claim'[x]].dest = x
<1> USE DEF Shape, RouteType, MemType, Members
<1>1. CASE \E s \in Sessions : Reserve(s)
  <2> PICK s \in Sessions : Reserve(s)
    BY <1>1
  <2>1. PICK b \in Boxes : /\ mem' = [mem EXCEPT ![b] = Claimed(mem[b], s)]
                           /\ claim' = [claim EXCEPT ![s] = b]
    BY DEF Reserve
  <2>2. x = s /\ claim'[x] = b
    BY <2>1
  <2> QED
    BY <2>1, <2>2 DEF Claimed
<1>2. CASE \E s \in Sessions : RetireClaim(s)
  BY <1>2 DEF RetireClaim
<1>3. CASE \E s \in Sessions : ReplaceSandbox(s)
  BY <1>3 DEF ReplaceSandbox
<1>4. CASE UNCHANGED <<claim>>
  BY <1>4
<1> QED
  BY <1>1, <1>2, <1>3, <1>4, NextCases
    DEF CleanRead, CleanDestroy, CleanMark, CleanRemove, CleanFails, CreateLands, CreateFails,
      Boot, BootTimeout, BackOff, PublishReady, ResetFailures, ReclaimCreation, PublishCold,
      ProbeSucceeds, ProbeFails, CreateSession, RouteFails, AwaitProbe, HandoffRead,
      HandoffAssign, SetRunning, Finish, Abandon, MarkFailed, RouteCrash, EndSession,
      ReclaimSession, ReapSession, Trim, Scan, ItemClaimed, ItemCreating, ItemReady, ItemRetiring,
      ItemRemove, ItemRetire, ReserveCreations, EndSweep, SweepCrash, ListActive, ListSessions,
      ListPools, ReapOrphan, OperationExpires, ReadinessExpires, CoolDown, pool, provider,
      fillers, routes, sweeps, reaper

-----------------------------------------------------------------------------
(* What no step takes back. *)

LEMMA KInvParts ==
    KInv => /\ Shape /\ UnusedInv /\ ClaimInv /\ RecordInv /\ FreshInv /\ MemberInv /\ FillInv /\ DestInv
            /\ HandInv /\ ReclaimedInv /\ CleanInv /\ SeenInv /\ SweepInv /\ ReapInv /\ KeptInv
  BY DEF KInv, IInv

LEMMA LandedStays == ASSUME KInv, Next, NEW b \in Boxes, Landed(b) PROVE Landed(b)'
  BY KInvParts, FreshShrinks, FlightChanges DEF Landed, FlightChange

LEMMA DownStays == ASSUME KInv, Next, NEW b \in Boxes, Landed(b), ~up[b] PROVE ~up'[b]
  BY KInvParts, UpChanges DEF Landed, UpChange

LEMMA DoomedStays == ASSUME KInv, Next, NEW b \in Boxes, Doomed(b) PROVE Doomed(b)'
<1>1. MemChange(b) /\ b \notin fresh /\ b \notin fresh'
  BY KInvParts, MemChanges, FreshShrinks DEF Doomed
<1>2. mem'[b].st \in {"none", "retiring"}
  BY <1>1 DEF Doomed, MemChange, Retires, Assigns, Leaves, NoMember, LateMember, NewMember
<1> QED
  BY <1>1, <1>2 DEF Doomed

\* A member that is handed to a session keeps its destination until it is retired or removed.
LEMMA ClaimedStays ==
    ASSUME KInv, Next, NEW b \in Boxes, mem[b].st = "claimed"
    PROVE  \/ Doomed(b)'
           \/ mem'[b].st = "claimed" /\ mem'[b].dest = mem[b].dest /\ mem'[b].tok = mem[b].tok
<1>1. MemChange(b) /\ b \notin fresh /\ b \notin fresh'
  BY KInvParts, MemChanges, FreshShrinks DEF FreshInv
<1>2. \/ mem'[b].st \in {"none", "retiring"}
      \/ mem'[b].st = "claimed" /\ mem'[b].dest = mem[b].dest /\ mem'[b].tok = mem[b].tok
  BY <1>1 DEF MemChange, Retires, Assigns, Leaves, NoMember, LateMember
<1> QED
  BY <1>1, <1>2 DEF Doomed

LEMMA OverStays == ASSUME KInv, Next, NEW s \in Sessions, Over(s) PROVE Over(s)'
<1>1. SessionChange(s)
  BY KInvParts, SessionChanges
<1>2. spc[s] \in {"cold", "publish"} => rec[s].st = "none"
  BY KInvParts DEF DestInv, Early
<1> QED
  BY <1>1, <1>2 DEF Over, SessionChange, RouteGoes, RecordTo, Ended

LEMMA SpentStays == ASSUME KInv, Next, NEW b \in Boxes, Spent(b) PROVE Spent(b)'
<1>1. CASE Doomed(b)
  BY <1>1, DoomedStays DEF Spent
<1>2. CASE mem[b].st = "claimed" /\ Over(mem[b].dest)
  <2>1. mem[b].dest \in Sessions
    BY <1>2, KInvParts DEF MemberInv
  <2>2. \A s \in Sessions : Over(s) => Over(s)'
    BY OverStays
  <2>3. \A s \in Sessions : mem[b].dest = s /\ mem'[b].st = "claimed" /\ mem'[b].dest = s => Spent(b)'
    BY <1>2, <2>2 DEF Spent
  <2> QED
    BY <1>2, <2>1, <2>3, ClaimedStays DEF Spent
<1> QED
  BY <1>1, <1>2 DEF Spent

\* A sandbox goes down when it is off the offer for good, or with its session.
LEMMA UpLost ==
    ASSUME KInv, Next, NEW b \in Boxes, up[b], ~up'[b]
    PROVE  Doomed(b) \/ \E s \in Sessions : rec[s].st = "terminal" /\ rec[s].box = b /\ claim[s] = b
<1>1. Killed(b)
  BY KInvParts, UpChanges DEF UpChange
<1>2. CASE \E a \in Actors : clean[a].step = "destroy" /\ clean[a].box = b
  BY <1>2, KInvParts DEF CleanInv
<1>3. CASE opc = "reap" /\ b \in listed
  BY <1>3, KInvParts DEF ReapInv
<1>4. CASE \E s \in Sessions : rec[s].st = "terminal" /\ rec[s].box = b
  <2>1. None \notin Boxes
    BY PoolAssumption
  <2> QED
    BY <1>4, <2>1, KInvParts DEF RecordInv
<1> QED
  BY <1>1, <1>2, <1>3, <1>4 DEF Killed

\* So no step takes it from a session that lives.
LEMMA UpKept ==
    ASSUME KInv, Next, NEW b \in Boxes, up[b], ~Spent(b)
    PROVE  up'[b]
<1> SUFFICES ASSUME ~up'[b] PROVE FALSE
  OBVIOUS
<1>1. PICK s \in Sessions : rec[s].st = "terminal" /\ claim[s] = b
  BY UpLost DEF Spent
<1>2. mem[b].st \in Out /\ b \notin fresh /\ (mem[b].st = "claimed" => mem[b].dest = s)
  BY <1>1, KInvParts DEF ClaimInv, DestInv
<1> QED
  BY <1>1, <1>2 DEF Spent, Doomed, Over, Out

-----------------------------------------------------------------------------
(* The invariant is kept, part by part. *)

LEMMA FreshStep == KInv /\ Next => FreshInv'
<1> SUFFICES ASSUME KInv, Next, NEW b \in fresh'
             PROVE  /\ mem'[b].st = "none" /\ ~up'[b] /\ flight'[b] = "no"
                    /\ \A k \in {"fill", "late"} : fpc'[<<b, k>>] = "off"
  BY DEF FreshInv
<1>1. b \in fresh /\ b \in Boxes
  BY KInvParts, FreshShrinks DEF Shape, FreshType
<1>2. /\ mem[b].st = "none" /\ ~up[b] /\ flight[b] = "no"
      /\ \A k \in {"fill", "late"} : fpc[<<b, k>>] = "off"
  BY <1>1, KInvParts DEF FreshInv
<1>3. mem'[b].st = "none"
  <2>1. MemChange(b) /\ ~Leaves(b)
    BY <1>1, KInvParts, MemChanges DEF Leaves, CleanInv, Doomed, SweepInv, SeenInv, Landed
  <2> QED
    BY <1>1, <1>2, <2>1 DEF MemChange, Retires, Assigns
<1>4. flight'[b] = "no"
  BY <1>1, <1>2, KInvParts, FlightChanges DEF FlightChange
<1>5. ~up'[b]
  BY <1>1, <1>2, KInvParts, UpChanges DEF UpChange
<1>6. \A k \in {"fill", "late"} : fpc'[<<b, k>>] = "off"
  BY <1>1, <1>2, KInvParts, FillChanges DEF FillChange
<1> QED
  BY <1>3, <1>4, <1>5, <1>6

LEMMA MemberStep == KInv /\ Next => MemberInv'
<1> SUFFICES ASSUME KInv, Next, NEW b \in Boxes
             PROVE  /\ mem'[b].st = "none" => mem'[b].tok = "none"
                    /\ mem'[b].st = "claimed" => mem'[b].tok = "claim" /\ mem'[b].dest \in Sessions
                    /\ mem'[b].st \in {"creating", "ready"} => ~mem'[b].assigned
                    /\ mem'[b].dest # None => mem'[b].tok = "claim"
                    /\ mem'[b].tok = "claim" => Landed(b)'
                    /\ mem'[b].st = "ready" => Landed(b)' /\ up'[b]
                    /\ mem'[b].st = "claimed" => up'[b] \/ Over(mem[b].dest)'
  BY DEF MemberInv
<1> USE DEF SameRest, NoMember, NewMember, LateMember, Claimed
<1>1. MemChange(b)
  BY KInvParts, MemChanges
<1>2. mem[b] \in Members
  BY KInvParts DEF Shape, MemType
<1>3. /\ mem[b].st = "none" => mem[b].tok = "none"
      /\ mem[b].st = "claimed" => mem[b].tok = "claim" /\ mem[b].dest \in Sessions
      /\ mem[b].st \in {"creating", "ready"} => ~mem[b].assigned
      /\ mem[b].dest # None => mem[b].tok = "claim"
      /\ mem[b].tok = "claim" => Landed(b)
      /\ mem[b].st = "ready" => Landed(b) /\ up[b]
      /\ mem[b].st = "claimed" => up[b] \/ Over(mem[b].dest)
  BY KInvParts DEF MemberInv
<1>4. /\ mem'[b].st = "none" => mem'[b].tok = "none"
      /\ mem'[b].st = "claimed" => mem'[b].tok = "claim" /\ mem'[b].dest \in Sessions
      /\ mem'[b].st \in {"creating", "ready"} => ~mem'[b].assigned
      /\ mem'[b].dest # None => mem'[b].tok = "claim"
      /\ mem'[b].tok = "claim" => mem[b].tok = "claim" \/ mem[b].st = "ready"
      /\ mem'[b].st = "ready" =>
            \/ mem[b].st = "ready"
            \/ fpc[<<b, "fill">>] = "publish" /\ mem[b].st = "creating"
      /\ mem'[b].st = "claimed" => mem[b].st \in {"ready", "claimed"}
  <2>1. CASE mem'[b] = mem[b]
    BY <1>3, <2>1
  <2>2. CASE mem'[b] = NewMember \/ mem'[b] = LateMember \/ mem'[b] = NoMember
    BY <2>2
  <2>3. CASE fpc[<<b, "fill">>] = "publish" /\ mem[b].st = "creating" /\ mem'[b].st = "ready" /\ SameRest(b)
    BY <1>3, <2>3
  <2>4. CASE mem[b].st = "ready" /\ \E s \in Sessions : mem'[b] = Claimed(mem[b], s)
    BY <1>2, <2>4 DEF Members
  <2>5. CASE Retires(b)
    BY <1>3, <2>5 DEF Retires
  <2>6. CASE Assigns(b)
    BY <1>3, <2>6 DEF Assigns
  <2> QED
    BY <1>1, <2>1, <2>2, <2>3, <2>4, <2>5, <2>6 DEF MemChange, Leaves
<1>5. mem'[b].tok = "claim" => Landed(b)'
  BY <1>3, <1>4, LandedStays
<1>6. ASSUME mem'[b].st = "ready" PROVE Landed(b)' /\ up'[b]
  <2>1. \/ mem[b].st = "ready"
        \/ fpc[<<b, "fill">>] = "publish" /\ mem[b].st = "creating"
    BY <1>4, <1>6
  <2>2. ~Spent(b)
    BY <2>1 DEF Spent, Doomed
  <2>3. Landed(b) /\ up[b]
    BY <1>3, <2>1, <2>2, KInvParts DEF FillInv, Spent, Landed, FreshInv
  <2> QED
    BY <2>2, <2>3, UpKept, LandedStays
<1>7. ASSUME mem'[b].st = "claimed" PROVE up'[b] \/ Over(mem[b].dest)'
  <2>1. CASE mem[b].st = "ready"
    BY <1>3, <2>1, UpKept DEF Spent, Doomed
  <2>2. CASE mem[b].st = "claimed"
    <3>1. Spent(b) \/ up'[b]
      BY <1>3, <2>2, UpKept DEF Spent
    <3>2. Spent(b) => Spent(b)'
      BY SpentStays
    <3> QED
      BY <1>7, <3>1, <3>2 DEF Spent, Doomed
  <2> QED
    BY <1>4, <1>7, <2>1, <2>2
<1> QED
  BY <1>4, <1>5, <1>6, <1>7

LEMMA FillInvStep == KInv /\ Next => FillInv'
<1> SUFFICES ASSUME KInv, Next, NEW b \in Boxes
             PROVE  /\ fpc'[<<b, "fill">>] = "boot" => flight'[b] \in {"no", "fill"}
                    /\ fpc'[<<b, "fill">>] = "publish" => flight'[b] = "no"
                    /\ fpc'[<<b, "fill">>] \in {"boot", "publish"} =>
                        /\ mem'[b].st \in {"creating", "none", "retiring"}
                        /\ flight'[b] = "no" => up'[b] \/ Doomed(b)'
  BY DEF FillInv
<1>1. MemChange(b) /\ FillChange(b)
  BY KInvParts, MemChanges, FillChanges
<1>2. /\ fpc[<<b, "fill">>] = "boot" => flight[b] \in {"no", "fill"}
      /\ fpc[<<b, "fill">>] = "publish" => flight[b] = "no"
      /\ fpc[<<b, "fill">>] \in {"boot", "publish"} =>
          /\ mem[b].st \in {"creating", "none", "retiring"}
          /\ flight[b] = "no" => up[b] \/ Doomed(b)
  BY KInvParts DEF FillInv
<1>3. CASE b \in fresh /\ b \notin fresh' /\ flight'[b] = "fill" /\ mem'[b] = NewMember
  BY <1>1, <1>2, <1>3, KInvParts DEF FillChange, NewMember, FreshInv
<1>4. CASE fpc[<<b, "fill">>] \in {"boot", "publish"} /\ fpc'[<<b, "fill">>] \in {"boot", "publish"}
  <2>1. mem'[b].st \in {"creating", "none", "retiring"}
    BY <1>1, <1>2, <1>4 DEF MemChange, Retires, Assigns, Leaves, NoMember, NewMember, LateMember
  <2>2. CASE flight[b] = "no"
    BY <1>1, <1>2, <1>4, <2>1, <2>2, DoomedStays, UpKept DEF FillChange, Spent
  <2>3. CASE flight[b] # "no"
    BY <1>1, <1>2, <1>4, <2>1, <2>3 DEF FillChange
  <2> QED
    BY <2>2, <2>3
<1> QED
  BY <1>1, <1>3, <1>4 DEF FillChange

LEMMA DestStep == KInv /\ Next => DestInv'
<1> SUFFICES ASSUME KInv, Next, NEW s \in Sessions
             PROVE  /\ claim'[s] \in Boxes =>
                        /\ Landed(claim[s])'
                        /\ mem'[claim'[s]].st = "claimed" => mem'[claim'[s]].dest = s
                    /\ spc'[s] = "assign" => rec'[s].st # "none" /\ rec'[s].box = claim'[s]
                    /\ spc'[s] \in Early => rec'[s].st = "none"
  BY DEF DestInv
<1>1. None \notin Boxes
  BY PoolAssumption
<1>2. ASSUME NEW b \in Boxes, claim'[s] = b, claim[s] = b
      PROVE  Landed(b)' /\ (mem'[b].st = "claimed" => mem'[b].dest = s)
  <2>1. Landed(b) /\ (mem[b].st = "claimed" => mem[b].dest = s)
    BY <1>2, KInvParts DEF DestInv
  <2>2. b \notin fresh /\ mem[b].st \in Out
    BY <1>2, KInvParts DEF ClaimInv
  <2>3. mem[b].st # "claimed" => Doomed(b)'
    BY <2>2, DoomedStays DEF Doomed, Out
  <2>4. mem'[b].st = "claimed" => mem'[b].dest = s
    BY <2>1, <2>3, ClaimedStays DEF Doomed
  <2> QED
    BY <2>1, <2>4, LandedStays
<1>3. ASSUME NEW b \in Boxes, claim'[s] = b, claim[s] # b
      PROVE  Landed(b)' /\ (mem'[b].st = "claimed" => mem'[b].dest = s)
  <2>1. mem[b].st = "ready"
    BY <1>1, <1>3, KInvParts, ClaimChanges
  <2>2. Landed(b)
    BY <2>1, KInvParts DEF MemberInv
  <2>3. mem'[b].dest = s
    BY <1>1, <1>3, KInvParts, ClaimDest
  <2> QED
    BY <2>2, <2>3, LandedStays
<1>4. SessionChange(s)
  BY KInvParts, SessionChanges
<1>5. /\ spc[s] = "assign" => rec[s].st # "none" /\ rec[s].box = claim[s]
      /\ spc[s] \in Early => rec[s].st = "none"
  BY KInvParts DEF DestInv
<1>6. spc'[s] = "assign" => rec'[s].st # "none" /\ rec'[s].box = claim'[s]
  BY <1>4, <1>5 DEF SessionChange, RouteGoes, RecordTo, Ended
<1>7. spc'[s] \in Early => rec'[s].st = "none"
  BY <1>4, <1>5 DEF SessionChange, RouteGoes, RecordTo, Early
<1> QED
  BY <1>2, <1>3, <1>6, <1>7 DEF Landed

\* A session that was given b has it until it is over and b is down.
LEMMA HasOrHadStays ==
    ASSUME KInv, Next, NEW s \in Sessions, NEW b \in Boxes, Landed(b), HasOrHad(s, b)
    PROVE  HasOrHad(s, b)'
<1>1. SessionChange(s)
  BY KInvParts, SessionChanges
<1>2. rec[s].reclaimed /\ rec[s].box = b => ~up'[b]
  <2>1. b # None
    BY PoolAssumption
  <2> QED
    BY <2>1, KInvParts, DownStays DEF ReclaimedInv
<1>3. ~up[b] => ~up'[b]
  BY DownStays
<1> QED
  BY <1>1, <1>2, <1>3 DEF HasOrHad, SessionChange, RouteGoes, RecordTo, Assigned, Ended

LEMMA HandStep == KInv /\ Next => HandInv'
<1> SUFFICES ASSUME KInv, Next, NEW b \in Boxes, mem'[b].st = "claimed", mem'[b].assigned
             PROVE  HasOrHad(mem[b].dest, b)'
  BY DEF HandInv, HandedOver
<1>1. MemChange(b) /\ mem[b] \in Members
  BY KInvParts, MemChanges DEF Shape, MemType
<1>2. \/ mem'[b] = mem[b] /\ mem[b].st = "claimed" /\ mem[b].assigned
      \/ Assigns(b)
  <2>1. mem[b].st = "ready" => ~mem[b].assigned
    BY KInvParts DEF MemberInv
  <2>2. ASSUME mem[b].st = "ready", NEW s \in Sessions, mem'[b] = Claimed(mem[b], s) PROVE FALSE
    BY <1>1, <2>1, <2>2 DEF Claimed, Members
  <2> QED
    BY <1>1, <2>2 DEF MemChange, Retires, Leaves, NoMember, NewMember, LateMember
<1>3. CASE mem'[b] = mem[b] /\ mem[b].st = "claimed" /\ mem[b].assigned
  <2>1. PICK s \in Sessions : mem[b].dest = s
    BY <1>3, KInvParts DEF MemberInv
  <2>2. HasOrHad(s, b)
    BY <1>3, <2>1, KInvParts DEF HandInv, HandedOver
  <2>3. Landed(b)
    BY <1>3, KInvParts DEF MemberInv
  <2>4. HasOrHad(s, b)'
    BY <2>2, <2>3, HasOrHadStays
  <2> QED
    BY <1>3, <2>1, <2>4 DEF HasOrHad
<1>4. CASE Assigns(b)
  <2>1. PICK s \in Sessions :
          /\ spc[s] = "assign" /\ spc'[s] \in {"run", "abandon"} /\ claim[s] = b /\ rec'[s] = rec[s]
          /\ mem[b].st = "claimed" /\ mem'[b].dest = mem[b].dest
    BY <1>4 DEF Assigns
  <2>2. mem[b].dest = s /\ rec[s].st # "none" /\ rec[s].box = b
    BY <2>1, KInvParts DEF DestInv
  <2> QED
    BY <2>1, <2>2 DEF HasOrHad, Assigned
<1> QED
  BY <1>2, <1>3, <1>4

\* A sandbox whose session has ended is spent: the pool object lists it for that session or not at all.
LEMMA EndedSpent ==
    ASSUME KInv, NEW s \in Sessions, NEW b \in Boxes, rec[s].box = b, rec[s].st = "terminal"
    PROVE  Spent(b)
<1>1. claim[s] = b
  BY KInvParts, PoolAssumption DEF RecordInv
<1>2. mem[b].st \in Out /\ b \notin fresh /\ (mem[b].st = "claimed" => mem[b].dest = s)
  BY <1>1, KInvParts DEF ClaimInv, DestInv
<1> QED
  BY <1>2 DEF Spent, Doomed, Over, Out

LEMMA RecordBoxes ==
    KInv /\ Next => \A s \in Sessions : rec'[s].box # None => rec'[s].box \in Boxes
  BY KInvParts, RecTypeStep DEF RecType, Records

LEMMA ReclaimedStep == KInv /\ Next => ReclaimedInv'
<1> SUFFICES ASSUME KInv, Next, NEW s \in Sessions, NEW b \in Boxes,
                    rec'[s].reclaimed, rec'[s].box = b
             PROVE  ~up'[b] /\ Spent(b)'
  BY RecordBoxes DEF ReclaimedInv, Spent, Doomed
<1>1. b # None
  BY PoolAssumption
<1>2. SessionChange(s)
  BY KInvParts, SessionChanges
<1>3. rec[s].box = b => Landed(b)
  BY <1>1, KInvParts DEF RecordInv, DestInv
<1>4. CASE rec[s].reclaimed /\ rec[s].box = b
  <2>1. ~up[b] /\ Spent(b)
    BY <1>1, <1>4, KInvParts DEF ReclaimedInv
  <2> QED
    BY <1>3, <1>4, <2>1, DownStays, SpentStays
<1>5. CASE rec[s].st = "terminal" /\ rec[s].box = b /\ ~up'[b]
  BY <1>5, EndedSpent, SpentStays
<1>6. CASE rec[s].box = b /\ \E a \in Actors : clean[a].step = "mark" /\ clean[a].dest = s /\ clean[a].box = b
  <2>1. s # None
    BY PoolAssumption
  <2>2. Doomed(b) /\ ~up[b]
    BY <1>6, <2>1, KInvParts DEF CleanInv
  <2> QED
    BY <1>3, <1>6, <2>2, DownStays, DoomedStays DEF Spent
<1> QED
  BY <1>1, <1>2, <1>4, <1>5, <1>6 DEF SessionChange, RouteGoes, RecordTo

LEMMA CleanStep == KInv /\ Next => CleanInv'
<1> SUFFICES ASSUME KInv, Next, NEW a \in Actors, clean'[a].step \in {"destroy", "mark", "remove"}
             PROVE  /\ Doomed(clean[a].box)'
                    /\ clean'[a].dest # None => clean'[a].tok = "claim"
                    /\ clean'[a].tok = "claim" => Landed(clean[a].box)'
                    /\ clean'[a].tok = "claim" /\ clean'[a].step # "destroy" => ~up'[clean'[a].box]
  BY DEF CleanInv
<1>1. CleanChange(a)
  BY KInvParts, CleanChanges
<1>2. PICK b \in Boxes : clean[a].box = b /\ clean'[a].box = b
  BY <1>1, KInvParts DEF CleanChange, CleanTo, Shape, CleanType
<1>3. CASE clean[a].step \in {"destroy", "mark", "remove"}
  <2>1. /\ Doomed(b)
        /\ clean[a].dest # None => clean[a].tok = "claim"
        /\ clean[a].tok = "claim" => Landed(b)
        /\ clean[a].tok = "claim" /\ clean[a].step # "destroy" => ~up[b]
    BY <1>2, <1>3, KInvParts DEF CleanInv
  <2>2. clean'[a].tok = clean[a].tok /\ clean'[a].dest = clean[a].dest
    BY <1>1, <1>3 DEF CleanChange, CleanTo
  <2>3. clean'[a].step = "destroy" \/ clean[a].step # "destroy" \/ ~up'[b]
    BY <1>1, <1>2, <1>3 DEF CleanChange, CleanTo
  <2>4. Doomed(b)' /\ (clean[a].tok = "claim" => Landed(b)')
    BY <2>1, DoomedStays, LandedStays
  <2>5. clean[a].tok = "claim" /\ clean'[a].step # "destroy" => ~up'[b]
    BY <2>1, <2>3, DownStays
  <2> QED
    BY <1>2, <2>1, <2>2, <2>4, <2>5 DEF Doomed, Landed
<1>4. CASE clean[a].step = "read"
  <2>1. /\ clean'[a].step = "destroy" /\ clean'[a].tok = clean[a].tok /\ clean'[a].dest = mem[b].dest
        /\ mem[b].st = "retiring" /\ mem[b].tok = clean[a].tok
    BY <1>1, <1>2, <1>4 DEF CleanChange, CleanTo
  <2>2. Doomed(b)
    BY <2>1, KInvParts DEF Doomed, FreshInv
  <2>3. /\ mem[b].dest # None => mem[b].tok = "claim"
        /\ mem[b].tok = "claim" => Landed(b)
    BY KInvParts DEF MemberInv
  <2>4. Doomed(b)' /\ (mem[b].tok = "claim" => Landed(b)')
    BY <2>2, <2>3, DoomedStays, LandedStays
  <2> QED
    BY <1>2, <2>1, <2>3, <2>4 DEF Doomed, Landed
<1> QED
  BY <1>1, <1>3, <1>4 DEF CleanChange, CleanTo

LEMMA SeenStep == KInv /\ Next => SeenInv'
<1> SUFFICES ASSUME KInv, Next, NEW r \in Sweepers, NEW b \in Boxes, seen'[r][b].st = "claimed"
             PROVE  /\ seen'[r][b].tok = "claim" /\ seen'[r][b].dest \in Sessions /\ Landed(b)'
                    /\ Doomed(b)' \/ (mem'[b].st = "claimed" /\ mem'[b].dest = seen'[r][b].dest)
                    /\ HandedOver(seen[r][b], b)'
  BY DEF SeenInv
<1>1. seen'[r][b] = seen[r][b] \/ seen'[r][b] = mem[b]
  BY KInvParts, SeenChanges DEF SeenChange, NoMember
<1>2. PICK m : seen'[r][b] = m
  OBVIOUS
<1>3. /\ m.st = "claimed" /\ m.tok = "claim" /\ m.dest \in Sessions /\ Landed(b)
      /\ Doomed(b) \/ (mem[b].st = "claimed" /\ mem[b].dest = m.dest)
      /\ HandedOver(m, b)
  <2>1. CASE seen'[r][b] = seen[r][b]
    BY <1>2, <2>1, KInvParts DEF SeenInv
  <2>2. CASE seen'[r][b] = mem[b]
    BY <1>2, <2>2, KInvParts DEF MemberInv, HandInv
  <2> QED
    BY <1>1, <2>1, <2>2
<1>4. PICK s \in Sessions : m.dest = s
  BY <1>3
<1>5. m.assigned => HasOrHad(s, b)
  BY <1>3, <1>4 DEF HandedOver
<1>6. m.assigned => HasOrHad(s, b)'
  BY <1>3, <1>5, HasOrHadStays
<1>7. HandedOver(seen[r][b], b)'
  BY <1>2, <1>4, <1>6 DEF HandedOver, HasOrHad
<1>8. Doomed(b)' \/ (mem'[b].st = "claimed" /\ mem'[b].dest = m.dest)
  BY <1>3, DoomedStays, ClaimedStays
<1> QED
  BY <1>2, <1>3, <1>7, <1>8, LandedStays

LEMMA SweepInvStep == KInv /\ Next => SweepInv'
<1> SUFFICES ASSUME KInv, Next, NEW r \in Sweepers
             PROVE  /\ wpc'[r] = "retire" => seen'[r][cur'[r]].st # "none"
                    /\ wpc'[r] = "remove" =>
                        /\ seen'[r][cur'[r]].st = "claimed" /\ Spent(cur[r])' /\ ~up'[cur'[r]]
  BY DEF SweepInv
<1>1. SweepChange(r)
  BY KInvParts, SweepChanges
<1>2. wpc'[r] = "retire" => seen'[r][cur'[r]].st # "none"
  BY <1>1, KInvParts DEF SweepChange, SweepInv
<1>3. ASSUME wpc'[r] = "remove"
      PROVE  seen'[r][cur'[r]].st = "claimed" /\ Spent(cur[r])' /\ ~up'[cur'[r]]
  <2>1. PICK c \in Boxes : cur'[r] = c
    BY <1>1, <1>3, KInvParts DEF SweepChange, Shape, SweepType
  <2>2. seen'[r] = seen[r] /\ seen[r][c].st = "claimed"
    BY <1>1, <1>3, <2>1, KInvParts DEF SweepChange, SweepInv
  <2>3. Landed(c)
    BY <2>2, KInvParts DEF SeenInv
  <2>4. Spent(c) /\ ~up[c]
    <3>1. CASE wpc[r] = "remove" /\ cur[r] = c
      BY <3>1, KInvParts DEF SweepInv
    <3>2. CASE SessionOver(seen[r][c], c)
      <4>1. PICK s \in Sessions : seen[r][c].dest = s
        BY <2>2, KInvParts DEF SeenInv
      <4>2. CASE rec[s].st # "none" /\ rec[s].box = c /\ rec[s].reclaimed
        <5>1. c # None
          BY PoolAssumption
        <5> QED
          BY <4>2, <5>1, KInvParts DEF ReclaimedInv
      <4>3. CASE rec[s].st = "none" /\ seen[r][c].assigned
        <5>1. HasOrHad(s, c)
          BY <2>2, <4>1, <4>3, KInvParts DEF SeenInv, HandedOver
        <5>2. Over(s) /\ ~up[c]
          BY <4>3, <5>1 DEF HasOrHad, Over
        <5>3. Doomed(c) \/ (mem[c].st = "claimed" /\ mem[c].dest = s)
          BY <2>2, <4>1, KInvParts DEF SeenInv
        <5> QED
          BY <5>2, <5>3 DEF Spent
      <4> QED
        BY <3>2, <4>1, <4>2, <4>3 DEF SessionOver
    <3> QED
      BY <1>1, <1>3, <2>1, <3>1, <3>2 DEF SweepChange
  <2>5. Spent(c)' /\ ~up'[c]
    BY <2>3, <2>4, SpentStays, DownStays
  <2> QED
    BY <2>1, <2>2, <2>5 DEF Spent, Doomed
<1> QED
  BY <1>2, <1>3

LEMMA ReapStep == KInv /\ Next => ReapInv'
<1> SUFFICES ASSUME KInv, Next PROVE ReapInv'
  OBVIOUS
<1>1. ReapChange /\ fresh' \subseteq fresh /\ listed \subseteq Boxes
  BY KInvParts, ReapChanges, FreshShrinks DEF Shape, ReaperType
<1>2. opc # "idle" => listed \intersect fresh = {}
  BY KInvParts DEF ReapInv
<1>3. opc' # "idle" => listed' \intersect fresh' = {}
  BY <1>1, <1>2, KInvParts DEF ReapChange, FreshInv
<1>4. ASSUME opc' = "reap", NEW b \in listed' PROVE Doomed(b)'
  <2>1. b \in listed /\ b \in Boxes /\ b \notin fresh
    BY <1>1, <1>2, <1>4 DEF ReapChange
  <2>2. Doomed(b)
    BY <1>1, <1>4, <2>1, KInvParts DEF ReapChange, ReapInv, Doomed
  <2> QED
    BY <2>1, <2>2, DoomedStays
<1> QED
  BY <1>3, <1>4 DEF ReapInv

\* The member of a session that lives is neither retired nor removed, and its sandbox stays up.
LEMMA KeptStays ==
    ASSUME KInv, Next, NEW s \in Sessions, NEW b \in Boxes, Keeps(s), rec[s].box = b
    PROVE  mem'[b].st = "claimed" /\ mem'[b].assigned /\ up'[b]
<1>1. mem[b].st = "claimed" /\ mem[b].assigned /\ up[b]
  BY KInvParts DEF KeptInv
<1>2. claim[s] = b /\ mem[b].dest = s /\ mem[b].tok = "claim" /\ b \notin fresh
  BY <1>1, KInvParts, PoolAssumption DEF RecordInv, DestInv, MemberInv, ClaimInv
<1>3. ~Over(s) /\ ~Failing(s)
  BY DEF Keeps, Over, Failing
<1>4. ~Spent(b) /\ ~Doomed(b)
  BY <1>1, <1>2, <1>3 DEF Spent, Doomed
<1>5. ~Retires(b)
  BY <1>1, <1>2, <1>3, KInvParts DEF Retires, ClaimInv
<1>6. ~Leaves(b)
  BY <1>4, KInvParts DEF Leaves, CleanInv, SweepInv
<1>7. mem'[b].st = "claimed" /\ mem'[b].assigned
  <2>1. MemChange(b)
    BY KInvParts, MemChanges
  <2> QED
    BY <1>1, <1>2, <1>5, <1>6, <2>1 DEF MemChange, Assigns
<1> QED
  BY <1>1, <1>4, <1>7, UpKept

LEMMA KeptStep == KInv /\ Next => KeptInv'
<1> SUFFICES ASSUME KInv, Next, NEW s \in Sessions, Keeps(s)', NEW b \in Boxes, rec'[s].box = b
             PROVE  /\ mem'[b].st = "claimed" /\ mem'[b].assigned
                    /\ up'[b] /\ ~rec'[s].reclaimed
  BY RecordBoxes DEF KeptInv, Keeps
<1>1. SessionChange(s)
  BY KInvParts, SessionChanges
<1>2. \/ Keeps(s) /\ rec[s].box = b /\ rec'[s].reclaimed = rec[s].reclaimed
      \/ Keeps(s) /\ \E a \in Actors : clean[a].step = "mark" /\ clean[a].box = rec[s].box
      \/ RouteGoes(s) /\ rec[s].st = "starting" /\ rec[s].box = b /\ spc'[s] = "run"
  <2>1. b # None
    BY PoolAssumption
  <2> QED
    BY <1>1, <2>1 DEF SessionChange, RouteGoes, RecordTo, Keeps, Failing
<1>3. CASE Keeps(s) /\ rec[s].box = b /\ rec'[s].reclaimed = rec[s].reclaimed
  <2>1. ~rec[s].reclaimed
    BY <1>3, KInvParts DEF KeptInv
  <2> QED
    BY <1>3, <2>1, KeptStays
<1>4. CASE Keeps(s) /\ \E a \in Actors : clean[a].step = "mark" /\ clean[a].box = rec[s].box
  <2>1. mem[rec[s].box].st = "claimed"
    BY <1>4, KInvParts DEF KeptInv
  <2>2. Doomed(rec[s].box)
    BY <1>4, KInvParts DEF CleanInv
  <2> QED
    BY <2>1, <2>2 DEF Doomed
<1>5. CASE RouteGoes(s) /\ rec[s].st = "starting" /\ rec[s].box = b /\ spc'[s] = "run"
  <2>1. rec'[s] = rec[s] /\ spc[s] = "assign"
    BY <1>5 DEF RouteGoes
  <2>2. claim[s] = b
    BY <1>5, <2>1, KInvParts DEF DestInv
  <2>3. mem[b].st = "claimed" /\ mem'[b].st = "claimed" /\ mem'[b].assigned
    BY <1>5, <2>2 DEF RouteGoes
  <2>4. mem[b].dest = s /\ b \notin fresh
    BY <2>2, <2>3, KInvParts DEF DestInv, ClaimInv
  <2>5. ~Over(s)
    BY <1>5 DEF Over
  <2>6. up[b] /\ ~Spent(b)
    BY <2>3, <2>4, <2>5, KInvParts DEF MemberInv, Spent, Doomed
  <2>7. ~rec[s].reclaimed
    <3>1. b # None
      BY PoolAssumption
    <3> QED
      BY <1>5, <2>6, <3>1, KInvParts DEF ReclaimedInv
  <2> QED
    BY <2>1, <2>3, <2>6, <2>7, UpKept
<1> QED
  BY <1>2, <1>3, <1>4, <1>5

LEMMA InitKept == Init => KInv
<1> SUFFICES ASSUME Init PROVE KInv
  OBVIOUS
<1>1. FreshInv
  BY DEF Init, FreshInv, NoMember, Fillers
<1>2. MemberInv
  BY DEF Init, MemberInv, NoMember
<1>3. FillInv
  BY DEF Init, FillInv, Fillers
<1>4. DestInv
  BY PoolAssumption DEF Init, DestInv, NoRecord
<1>5. HandInv
  BY DEF Init, HandInv, HandedOver, NoMember
<1>6. ReclaimedInv /\ KeptInv
  BY DEF Init, ReclaimedInv, KeptInv, Keeps, NoRecord
<1>7. CleanInv
  BY DEF Init, CleanInv, NoCleanup
<1>8. SeenInv /\ SweepInv
  BY DEF Init, SeenInv, SweepInv, NoMember
<1>9. ReapInv
  BY DEF Init, ReapInv
<1> QED
  BY InitInvariant, <1>1, <1>2, <1>3, <1>4, <1>5, <1>6, <1>7, <1>8, <1>9 DEF KInv

LEMMA KeptInvariance == KInv /\ [Next]_vars => KInv'
<1> SUFFICES ASSUME KInv, [Next]_vars PROVE KInv'
  OBVIOUS
<1>1. IInv'
  BY Invariance DEF KInv
<1>2. CASE Next
  BY <1>1, <1>2, FreshStep, MemberStep, FillInvStep, DestStep, HandStep, ReclaimedStep, CleanStep,
    SeenStep, SweepInvStep, ReapStep, KeptStep DEF KInv
<1>3. CASE UNCHANGED vars
  <2> USE <1>3, KInvParts DEF vars, pool, provider, fillers, routes, sweeps, reaper, Landed, Doomed
  <2>1. FreshInv' /\ FillInv'
    BY DEF FreshInv, FillInv
  <2>2. MemberInv'
    BY DEF MemberInv, Over
  <2>3. DestInv'
    BY DEF DestInv
  <2>4. HandInv'
    BY DEF HandInv, HandedOver, HasOrHad
  <2>5. ReclaimedInv'
    BY DEF ReclaimedInv, Spent, Over
  <2>6. CleanInv'
    BY DEF CleanInv
  <2>7. SeenInv'
    BY DEF SeenInv, HandedOver, HasOrHad
  <2>8. SweepInv'
    BY DEF SweepInv, Spent, Over
  <2>9. ReapInv'
    BY DEF ReapInv
  <2>10. KeptInv'
    BY DEF KeptInv, Keeps, Failing
  <2> QED
    BY <1>1, <2>1, <2>2, <2>3, <2>4, <2>5, <2>6, <2>7, <2>8, <2>9, <2>10 DEF KInv
<1> QED
  BY <1>2, <1>3

\* No sweep, stale clean-up, expired claim, late creation or orphan reaper takes the sandbox of a
\* running session: whoever destroys a sandbox of the pool has seen its member retired, or the pool
\* without it, or its session ended, and none of that is ever true of a session that lives.
THEOREM SessionKeepsSandboxHolds == Spec => []SessionKeepsSandbox
<1>1. KInv => SessionKeepsSandbox
  BY KInvParts DEF SessionKeepsSandbox, KeptInv, Keeps
<1> QED
  BY <1>1, InitKept, KeptInvariance, PTL DEF Spec

\* The pool object forgets a member that was claimed only when its sandbox is down: by a clean-up
\* that has destroyed it, or by a sweep that found its session over.
THEOREM ClaimedMembersTrackedHolds == Spec => ClaimedMembersTracked
<1>1. ASSUME KInv, Next, NEW b \in Boxes, mem[b].tok = "claim", mem'[b].tok # "claim"
      PROVE  ~up'[b]
  <2>1. mem[b].st # "none" /\ b \notin fresh /\ mem[b] \in Members
    BY <1>1, KInvParts DEF MemberInv, FreshInv, Shape, MemType
  <2>2. MemChange(b)
    BY <1>1, KInvParts, MemChanges
  <2>3. \A s \in Sessions : mem'[b] = Claimed(mem[b], s) => mem'[b].tok = "claim"
    BY <2>1 DEF Claimed, Members
  <2>4. Leaves(b)
    BY <1>1, <2>1, <2>2, <2>3 DEF MemChange, SameRest, Retires, Assigns
  <2>5. CASE \E a \in Actors : clean[a].step = "remove" /\ clean[a].box = b /\ clean[a].tok = mem[b].tok
    BY <1>1, <2>5, KInvParts, DownStays DEF CleanInv
  <2>6. CASE \E r \in Sweepers : wpc[r] = "remove" /\ cur[r] = b
    BY <1>1, <2>6, KInvParts, DownStays DEF SweepInv, SeenInv
  <2> QED
    BY <2>4, <2>5, <2>6 DEF Leaves
<1>2. KInv /\ [Next]_vars =>
        [\A b \in Boxes : mem[b].tok = "claim" /\ mem'[b].tok # "claim" => ~up'[b]]_vars
  BY <1>1
<1> QED
  BY <1>2, InitKept, KeptInvariance, PTL DEF Spec, ClaimedMembersTracked

=============================================================================
