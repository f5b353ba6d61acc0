----------------------------- MODULE JobsProofs -----------------------------
(***************************************************************************)
(* What holds of the runs of a job for any number of processes, runs,      *)
(* occurrences, retries, requests and faults.                              *)
(***************************************************************************)
EXTENDS Jobs, FiniteSetTheorems, WellFoundedInduction, TLAPS

\* Steps of an operation that writes a run, and of one that settles a run.
Enqueues == {"mark", "record", "check"}
Settles == {"audit", "notify", "unmark"}

\* What the operation under the lease knows at each of its steps.
WellFormed(o) ==
    /\ o.pc = "free" <=> o = NoOp
    /\ o.pc \in Enqueues => o.kind \in {"fire", "trigger", "final"} /\ o.new \in Runs
    /\ o.pc \in Settles => o.kind = "final"
    /\ o.pc = "cancel" => o.kind = "delete"
    /\ o.kind = "final" /\ o.pc # "dead" =>
         o.run \in Runs /\ o.new \in Runs /\ o.pc \in Enqueues \union Settles
    /\ o.kind # "final" => o.run = 0
    /\ o.kind = "fire" => o.pc \in Enqueues \union {"dead"}
    /\ o.kind = "fire" /\ o.pc # "dead" => o.occ \in Occurrences
    /\ o.kind = "trigger" => o.occ = 0 /\ o.skip = FALSE /\ o.pc \in {"mark", "record", "dead"}
    /\ o.pc = "dead" => o.run = 0 /\ o.new = 0

Shape == TypeOK /\ WellFormed(op) /\ DOMAIN tick.seen = tick.todo

-----------------------------------------------------------------------------
(* The parts of the store that steps put together. *)

LEMMA ConstantsTyped ==
    /\ NoRun \in RunRecords /\ NoClaim \in Claims
    /\ NoRequest \in Requests /\ NoExec \in Executions
    /\ NoOp \in Operations /\ WellFormed(NoOp)
<1>1. 0 \in 0..MaxRuns /\ 0 \in 0..MaxDue
  BY JobsAssumption
<1>2. NoOp \in Operations
  BY <1>1 DEF NoOp, Operations
<1>3. NoOp.pc = "free" /\ NoOp.kind = "none" /\ NoOp.run = 0
  BY DEF NoOp
<1>4. WellFormed(NoOp)
  BY <1>3 DEF WellFormed, Enqueues, Settles
<1>5. QED
  BY <1>1, <1>2, <1>4 DEF NoRun, RunRecords, NoClaim, Claims, NoRequest, Requests, NoExec, Executions, Terminal, Live, Active

LEMMA RunsFinite == IsFiniteSet(Runs)
<1>1. 1 \in Int /\ MaxRuns \in Int
  BY JobsAssumption
<1>2. QED
  BY <1>1, FS_Interval DEF Runs

LEMMA SeenTyped ==
    ASSUME NEW S, S \subseteq Runs, NEW f \in [S -> Sightings]
    PROVE  f \in UNION {[T -> Sightings] : T \in SUBSET Runs}
  OBVIOUS

LEMMA NoTickTyped == NoTick \in Ticks /\ NoTick.seen = [r \in {} |-> ""] /\ NoTick.todo = {} /\ DOMAIN NoTick.seen = {}
<1>1. [r \in {} |-> ""] \in [{} -> Sightings]
  OBVIOUS
<1>2. 0 \in 0..MaxDue
  BY JobsAssumption
<1>3. QED
  BY <1>1, <1>2, SeenTyped DEF NoTick, Ticks

\* A tick whose listing is known.
LEMMA SeenOf ==
    ASSUME Shape
    PROVE  tick.seen \in [tick.todo -> Sightings] /\ tick.todo \subseteq Runs
  BY DEF Shape, TypeOK, Ticks

\* An entry of the listing is done with.
LEMMA DoneTyped ==
    ASSUME Shape, NEW r \in Runs
    PROVE  /\ Done(r) \in Ticks
           /\ Done(r).todo = tick.todo \ {r}
           /\ DOMAIN Done(r).seen = tick.todo \ {r}
           /\ \A q \in tick.todo \ {r} : Done(r).seen[q] = tick.seen[q]
<1> DEFINE f == [q \in tick.todo \ {r} |-> tick.seen[q]]
<1>1. tick \in Ticks /\ tick.todo \ {r} \subseteq Runs
  BY DEF Shape, TypeOK, Ticks
<1>2. f \in [tick.todo \ {r} -> Sightings]
  BY SeenOf
<1>3. f \in UNION {[T -> Sightings] : T \in SUBSET Runs}
  BY <1>1, <1>2, SeenTyped
<1>4. Done(r) = [tick EXCEPT !.todo = tick.todo \ {r}, !.seen = f]
  BY <1>1 DEF Done, Ticks
<1> HIDE DEF f
<1>5. Done(r) \in Ticks /\ Done(r).todo = tick.todo \ {r} /\ Done(r).seen = f
  BY <1>1, <1>3, <1>4 DEF Ticks
<1>6. QED
  BY <1>5 DEF f

\* The record of an entry is found to be missing.
Noted(r) ==
    /\ tick'.pc = tick.pc /\ tick'.todo = tick.todo /\ tick'.held = tick.held /\ tick'.queue = tick.queue
    /\ tick.seen[r] = "absent" /\ tick'.seen[r] = "missing"
    /\ \A q \in tick.todo \ {r} : tick'.seen[q] = tick.seen[q]

LEMMA NotedTyped ==
    ASSUME Shape, NEW r \in tick.todo, tick.seen[r] = "absent", tick' = [tick EXCEPT !.seen[r] = "missing"]
    PROVE  tick' \in Ticks /\ DOMAIN tick'.seen = tick'.todo /\ Noted(r)
<1> DEFINE f == [tick.seen EXCEPT ![r] = "missing"]
<1>1. tick \in Ticks /\ tick.todo \subseteq Runs /\ tick.seen \in [tick.todo -> Sightings]
  BY SeenOf DEF Shape, TypeOK
<1>2. f \in [tick.todo -> Sightings] /\ f[r] = "missing" /\ \A q \in tick.todo \ {r} : f[q] = tick.seen[q]
  BY <1>1 DEF Sightings
<1>3. f \in UNION {[T -> Sightings] : T \in SUBSET Runs}
  BY <1>1, <1>2, SeenTyped
<1>4. tick' = [tick EXCEPT !.seen = f]
  BY <1>1 DEF Ticks
<1>5. DOMAIN f = tick.todo
  BY <1>2
<1> HIDE DEF f
<1>6. /\ tick' \in Ticks /\ tick'.seen = f /\ tick'.todo = tick.todo /\ tick'.pc = tick.pc
      /\ tick'.held = tick.held /\ tick'.queue = tick.queue
  BY <1>1, <1>3, <1>4 DEF Ticks
<1>7. QED
  BY <1>2, <1>5, <1>6 DEF Noted

\* A conditional update of a record.
GoesOn(r) ==
    /\ run[r].status \in Live
    /\ run'[r].status \in Active \union (Terminal \ {"skipped"})
    /\ run'[r].attempt = run[r].attempt /\ run'[r].of = run[r].of
    /\ run'[r].occ = run[r].occ /\ run'[r].at = run[r].at
RunsGoOn == \A r \in Runs : run'[r] = run[r] \/ GoesOn(r)

LEMMA TransitionMeans ==
    ASSUME Shape, NEW r \in Runs, NEW e \in {"provision", "start", "succeed", "fail", "cancel"},
           run' = Transition(r, e)
    PROVE  /\ run' \in [Runs -> RunRecords]
           /\ RunsGoOn
           /\ \A q \in Runs \ {r} : run'[q] = run[q]
           /\ Legal(r, e) => run'[r].status = Edge[e]
           /\ ~Legal(r, e) => run' = run
<1>1. run \in [Runs -> RunRecords]
  BY DEF Shape, TypeOK
<1>2. CASE ~Legal(r, e)
  BY <1>1, <1>2 DEF Transition, RunsGoOn
<1>3. CASE Legal(r, e)
  <2>1. Edge[e] \in Active \union (Terminal \ {"skipped"})
    BY DEF Edge, Active, Terminal
  <2>2. run[r].status \in Live
    BY <1>3 DEF Legal, From, Live, Active
  <2>3. run' = [run EXCEPT ![r] = [run[r] EXCEPT !.status = Edge[e]]]
    BY <1>3 DEF Transition
  <2>4. Edge[e] \in Terminal \union Live \union {"absent"}
    BY <2>1 DEF Terminal, Live, Active
  <2> HIDE DEF Edge
  <2>5. run[r] \in RunRecords
    BY <1>1
  <2>6. /\ [run[r] EXCEPT !.status = Edge[e]] \in RunRecords
        /\ run'[r].status = Edge[e] /\ run'[r].attempt = run[r].attempt /\ run'[r].of = run[r].of
        /\ run'[r].occ = run[r].occ /\ run'[r].at = run[r].at
    BY <1>1, <2>3, <2>4, <2>5 DEF RunRecords
  <2>7. QED
    BY <1>1, <1>3, <2>1, <2>2, <2>3, <2>6 DEF RunsGoOn, GoesOn
<1>4. QED
  BY <1>2, <1>3

LEMMA CancelAllMeans ==
    ASSUME Shape, NEW S, run' = CancelAll(S)
    PROVE  /\ run' \in [Runs -> RunRecords]
           /\ RunsGoOn
           /\ \A r \in Runs : r \in S /\ run[r].status # "absent" => run'[r].status \in Terminal
<1>1. run \in [Runs -> RunRecords]
  BY DEF Shape, TypeOK
<1>2. ASSUME NEW r \in Runs
      PROVE  /\ run'[r] \in RunRecords
             /\ run'[r] = run[r] \/ GoesOn(r)
             /\ r \in S /\ run[r].status # "absent" => run'[r].status \in Terminal
  <2>1. run[r] \in RunRecords
    BY <1>1
  <2>2. Legal(r, "cancel") <=> run[r].status \in Live
    BY DEF Legal, From
  <2>3. CASE r \in S /\ Legal(r, "cancel")
    <3>1. run'[r] = [run[r] EXCEPT !.status = "cancelled"]
      BY <2>3 DEF CancelAll
    <3>2. /\ run'[r] \in RunRecords /\ run'[r].status = "cancelled" /\ run'[r].attempt = run[r].attempt
          /\ run'[r].of = run[r].of /\ run'[r].occ = run[r].occ /\ run'[r].at = run[r].at
      BY <2>1, <3>1 DEF RunRecords, Terminal
    <3>3. QED
      BY <2>2, <2>3, <3>2 DEF GoesOn, Terminal
  <2>4. CASE ~(r \in S /\ Legal(r, "cancel"))
    <3>1. run'[r] = run[r]
      BY <2>4 DEF CancelAll
    <3>2. QED
      BY <2>1, <2>2, <2>4, <3>1 DEF RunRecords
  <2>5. QED
    BY <2>3, <2>4
<1>3. run' \in [Runs -> RunRecords]
  BY <1>2 DEF CancelAll
<1>4. QED
  BY <1>2, <1>3 DEF RunsGoOn

-----------------------------------------------------------------------------
(* The operations under the lease. *)

Holders == {"nobody", "tick", "watchdog", "api"} \union Procs

LEMMA FireOpTyped ==
    ASSUME NEW r \in Runs, NEW o \in Occurrences, NEW skip \in BOOLEAN
    PROVE  /\ FireOp(r, o, skip) \in Operations /\ WellFormed(FireOp(r, o, skip))
           /\ FireOp(r, o, skip).kind = "fire" /\ FireOp(r, o, skip).pc = "mark"
           /\ FireOp(r, o, skip).new = r /\ FireOp(r, o, skip).occ = o /\ FireOp(r, o, skip).skip = skip
           /\ FireOp(r, o, skip).run = 0
<1> DEFINE x == FireOp(r, o, skip)
<1>1. /\ x.kind = "fire" /\ x.by = "tick" /\ x.pc = "mark" /\ x.new = r /\ x.occ = o /\ x.skip = skip /\ x.run = 0
  BY DEF FireOp, NoOp
<1>2. r \in 0..MaxRuns /\ o \in 0..MaxDue
  BY JobsAssumption DEF Runs, Occurrences
<1>3. x \in Operations
  BY <1>2, ConstantsTyped DEF FireOp, Operations
<1>4. x # NoOp
  BY <1>1 DEF NoOp
<1> HIDE DEF x
<1>5. WellFormed(x)
  BY <1>1, <1>4 DEF WellFormed, Enqueues, Settles
<1>6. QED
  BY <1>1, <1>3, <1>5 DEF x

LEMMA FinalOpTyped ==
    ASSUME Shape, NEW r \in Runs, NEW by \in Holders, marker[r] # 0
    PROVE  /\ FinalOp(r, by) \in Operations /\ WellFormed(FinalOp(r, by))
           /\ FinalOp(r, by).kind = "final" /\ FinalOp(r, by).pc = "audit"
           /\ FinalOp(r, by).run = r /\ FinalOp(r, by).new = marker[r]
           /\ FinalOp(r, by).occ = run[r].occ /\ FinalOp(r, by).skip = FALSE
<1> DEFINE x == FinalOp(r, by)
<1>1. /\ x.kind = "final" /\ x.by = by /\ x.pc = "audit" /\ x.run = r /\ x.new = marker[r]
      /\ x.occ = run[r].occ /\ x.skip = FALSE
  BY DEF FinalOp, NoOp
<1>2. r \in 0..MaxRuns /\ marker[r] \in 0..MaxRuns /\ marker[r] \in Runs /\ run[r].occ \in 0..MaxDue
  BY JobsAssumption DEF Shape, TypeOK, RunRecords, Runs
<1>3. x \in Operations
  BY <1>2, ConstantsTyped DEF FinalOp, Operations, Holders
<1>4. x # NoOp
  BY <1>1 DEF NoOp
<1> HIDE DEF x
<1>5. WellFormed(x)
  BY <1>1, <1>2, <1>4 DEF WellFormed, Enqueues, Settles
<1>6. QED
  BY <1>1, <1>3, <1>5 DEF x

LEMMA DeadTyped ==
    ASSUME Shape, NEW by \in Holders
    PROVE  Dead(by) \in Operations /\ WellFormed(Dead(by)) /\ Dead(by).pc = "dead" /\ Dead(by).new = 0 /\ Dead(by).run = 0
<1> DEFINE x == Dead(by)
<1>1. /\ x.kind = op.kind /\ x.by = by /\ x.pc = "dead" /\ x.run = 0 /\ x.new = 0
      /\ x.occ = 0 /\ x.skip = FALSE
  BY DEF Dead, NoOp
<1>2. op \in Operations
  BY DEF Shape, TypeOK
<1>3. x \in Operations
  BY <1>2, ConstantsTyped DEF Dead, Operations, Holders
<1>4. x # NoOp
  BY <1>1 DEF NoOp
<1> HIDE DEF x
<1>5. WellFormed(x)
  BY <1>1, <1>4 DEF WellFormed, Enqueues, Settles
<1>6. QED
  BY <1>1, <1>3, <1>5 DEF x

LEMMA RequestOpTyped ==
    ASSUME NEW x, NEW r \in 0..MaxRuns,
           \/ /\ r \in Runs
              /\ x = [NoOp EXCEPT !.kind = "trigger", !.by = "api", !.pc = "mark", !.new = r]
           \/ x = [NoOp EXCEPT !.kind = "delete", !.by = "api", !.pc = "cancel"]
    PROVE  x \in Operations /\ WellFormed(x)
<1>1. \/ x.kind = "trigger" /\ x.pc = "mark" /\ x.new = r /\ r \in Runs /\ x.occ = 0 /\ x.skip = FALSE /\ x.run = 0
      \/ x.kind = "delete" /\ x.pc = "cancel" /\ x.run = 0
  BY DEF NoOp
<1>2. x \in Operations
  <2>1. NoOp \in Operations
    BY ConstantsTyped
  <2> HIDE DEF NoOp
  <2>2. [NoOp EXCEPT !.kind = "trigger", !.by = "api", !.pc = "mark", !.new = r] \in Operations
    BY <2>1 DEF Operations
  <2>3. [NoOp EXCEPT !.kind = "delete", !.by = "api", !.pc = "cancel"] \in Operations
    BY <2>1 DEF Operations
  <2>4. QED
    BY <2>2, <2>3
<1>3. x # NoOp
  BY <1>1 DEF NoOp
<1>4. WellFormed(x)
  BY <1>1, <1>3 DEF WellFormed, Enqueues, Settles
<1>5. QED
  BY <1>2, <1>4

\* An operation that goes on to its next step.
LEMMA OpGoesOnTyped ==
    ASSUME Shape, NEW pc \in Enqueues \union Settles,
           op.kind \in {"fire", "trigger", "final"}, op.pc \in Enqueues \union Settles,
           pc \in Settles => op.kind = "final",
           pc \in Enqueues => op.new \in Runs,
           pc = "check" => op.kind # "trigger"
    PROVE  /\ [op EXCEPT !.pc = pc] \in Operations /\ WellFormed([op EXCEPT !.pc = pc])
<1> DEFINE x == [op EXCEPT !.pc = pc]
<1>1. op \in Operations /\ WellFormed(op)
  BY DEF Shape, TypeOK
<1>2. /\ x.kind = op.kind /\ x.by = op.by /\ x.pc = pc /\ x.run = op.run /\ x.new = op.new
      /\ x.occ = op.occ /\ x.skip = op.skip
  BY <1>1 DEF Operations
<1>3. x \in Operations
  BY <1>1 DEF Operations, Enqueues, Settles
<1>4. x # NoOp
  BY <1>2 DEF NoOp, Enqueues, Settles
<1> HIDE DEF x
<1>5. WellFormed(x)
  BY <1>1, <1>2, <1>4 DEF WellFormed, Enqueues, Settles
<1>6. QED
  BY <1>3, <1>5 DEF x

\* An enqueue that has put its marker or found one.
LEMMA MarkedOpTyped ==
    ASSUME Shape, NEW b \in BOOLEAN, op.pc = "mark", op' = [op EXCEPT !.pc = "record", !.fresh = b]
    PROVE  /\ op' \in Operations /\ WellFormed(op')
           /\ op'.pc = "record" /\ op'.kind = op.kind /\ op'.run = op.run /\ op'.new = op.new
           /\ op'.occ = op.occ /\ op'.skip = op.skip
<1>1. op \in Operations /\ WellFormed(op)
  BY DEF Shape, TypeOK
<1>2. /\ op'.kind = op.kind /\ op'.by = op.by /\ op'.pc = "record" /\ op'.run = op.run /\ op'.new = op.new
      /\ op'.occ = op.occ /\ op'.skip = op.skip
  BY <1>1 DEF Operations
<1>3. op' \in Operations
  BY <1>1 DEF Operations
<1>4. op' # NoOp
  BY <1>2 DEF NoOp
<1>5. WellFormed(op')
  BY <1>1, <1>2, <1>4 DEF WellFormed, Enqueues, Settles
<1>6. QED
  BY <1>2, <1>3, <1>5

LEMMA EventTyped == ASSUME Shape, Event PROVE retries' \in Settings /\ events' \in 0..MaxEvents
<1>1. due \in Nat /\ retries \in Nat /\ events \in Nat /\ retries \in Settings
  BY JobsAssumption DEF Shape, TypeOK
<1>2. QED
  BY <1>1, JobsAssumption DEF Event, Room

-----------------------------------------------------------------------------
(* Type correctness. *)

LEMMA NextCases ==
    ASSUME Next
    PROVE  \/ BecomeDue \/ Trigger \/ DeleteBegin \/ HideNotebook \/ CrashApi
           \/ PutMarker \/ PutRecord \/ CheckDeleted \/ Audit \/ Notify
           \/ AfterRunFails \/ Unmark \/ UnmarkFails \/ Expire
           \/ TickStart \/ Fire \/ FireBusy \/ List \/ Dispatch
           \/ DeleteCancel \/ DeleteUnmark \/ DestroyAll \/ DeleteFinish \/ HideCancel
           \/ \E p \in Procs : Crash(p) \/ Handover(p)
           \/ \E r \in Runs : \/ TickYoung(r) \/ TickMissing(r) \/ TickPrune(r) \/ TickFinalize(r)
                              \/ TickBusy(r) \/ TickQueued(r) \/ TickRunning(r) \/ TickWatchdog(r)
                              \/ LateBoot(r) \/ PruneList(r) \/ PruneCheck(r) \/ PruneStale(r)
                              \/ Reap(r) \/ Cancel(r)
           \/ \E p \in Procs, r \in Runs :
                \/ LoadFails(p, r) \/ Provision(p, r) \/ Prepared(p, r) \/ PrepareFails(p, r)
                \/ Export(p, r) \/ Destroy(p, r) \/ Finish(p, r) \/ FinishBusy(p, r)
  BY DEF Next, OpStep, TickStep, EntryStep, DeleteStep, ExecStep, CleanUp

\* A marker is pruned only for a run whose record was looked for and missed.
Doubts == /\ doubted \subseteq doubted'
          /\ \A r \in Runs : pruner'[r] = "missing" => pruner[r] = "missing" \/ r \in doubted'

LEMMA PruningStep ==
    ASSUME Shape, [Next]_vars
    PROVE  pruner' \in [Runs -> {"idle", "listed", "missing"}] /\ doubted' \subseteq Runs /\ Doubts
<1> USE DEF config, pruning
<1>1. pruner \in [Runs -> {"idle", "listed", "missing"}] /\ doubted \subseteq Runs
  BY DEF Shape, TypeOK
<1>2. CASE UNCHANGED pruning
  BY <1>1, <1>2 DEF Doubts
<1>3. ASSUME NEW r \in Runs, TickMissing(r) PROVE pruner' = pruner /\ doubted' \subseteq Runs /\ doubted \subseteq doubted'
  BY <1>1, <1>3 DEF TickMissing, Doubt
<1>4. ASSUME NEW r \in Runs, PruneList(r) \/ PruneStale(r)
      PROVE  doubted' = doubted /\ \E b \in {"idle", "listed"} : pruner' = [pruner EXCEPT ![r] = b]
  BY <1>4 DEF PruneList, PruneStale
<1>5. ASSUME NEW r \in Runs, PruneCheck(r)
      PROVE  /\ doubted' \subseteq Runs /\ doubted \subseteq doubted'
             /\ \E b \in {"idle", "missing"} : pruner' = [pruner EXCEPT ![r] = b] /\ (b = "missing" => r \in doubted')
  BY <1>1, <1>5 DEF PruneCheck, Doubt, Dangling
<1>6. CASE \E r \in Runs : TickMissing(r) \/ PruneList(r) \/ PruneCheck(r) \/ PruneStale(r)
  BY <1>1, <1>3, <1>4, <1>5, <1>6 DEF Doubts
<1>7. QED
  <2>1. CASE UNCHANGED vars
    BY <1>2, <2>1 DEF vars
  <2>2. CASE \/ BecomeDue \/ Trigger \/ DeleteBegin \/ HideNotebook \/ CrashApi
             \/ \E p \in Procs : Crash(p) \/ Handover(p)
    BY <1>2, <2>2 DEF BecomeDue, Trigger, DeleteBegin, HideNotebook, CrashApi, Crash, Handover, Event
  <2>3. CASE \/ PutMarker \/ PutRecord \/ CheckDeleted \/ Audit \/ Notify
             \/ AfterRunFails \/ Unmark \/ UnmarkFails \/ Expire
    BY <1>2, <2>3 DEF PutMarker, PutRecord, CheckDeleted, Audit, Notify, AfterRunFails, Unmark, UnmarkFails,
       Expire, Event
  <2>4. CASE \/ TickStart \/ Fire \/ FireBusy \/ List \/ Dispatch
             \/ DeleteCancel \/ DeleteUnmark \/ DestroyAll \/ DeleteFinish \/ HideCancel
    BY <1>2, <2>4 DEF TickStart, Fire, FireBusy, List, Dispatch, DeleteCancel, DeleteUnmark, DestroyAll,
       DeleteFinish, HideCancel, Event
  <2>5. CASE \E r \in Runs : \/ TickYoung(r) \/ TickPrune(r) \/ TickFinalize(r) \/ TickBusy(r) \/ TickQueued(r)
                             \/ TickRunning(r) \/ TickWatchdog(r) \/ LateBoot(r) \/ Reap(r) \/ Cancel(r)
    BY <1>2, <2>5 DEF TickYoung, TickPrune, TickFinalize, TickBusy, TickQueued, TickRunning, TickWatchdog,
       LateBoot, Reap, Cancel, Event
  <2>6. CASE \E p \in Procs, r \in Runs :
                \/ LoadFails(p, r) \/ Provision(p, r) \/ Prepared(p, r) \/ PrepareFails(p, r)
                \/ Export(p, r) \/ Destroy(p, r) \/ Finish(p, r) \/ FinishBusy(p, r)
    BY <1>2, <2>6 DEF LoadFails, Provision, Prepared, PrepareFails, Export, Destroy, Finish, FinishBusy, Event
  <2>7. QED
    BY <1>6, <2>1, <2>2, <2>3, <2>4, <2>5, <2>6, NextCases

LEMMA GotoTyped ==
    ASSUME Shape, NEW p \in Procs, NEW r \in Runs, NEW pc \in {"prepare", "export", "destroy", "final"}, Goto(p, r, pc)
    PROVE  /\ exec' \in [Procs -> [Runs -> Executions]]
           /\ exec'[p][r].pc = pc
           /\ \A q \in Procs, s \in Runs : q # p \/ s # r => exec'[q][s] = exec[q][s]
<1>1. exec \in [Procs -> [Runs -> Executions]]
  BY DEF Shape, TypeOK
<1>2. exec[p] \in [Runs -> Executions] /\ exec[p][r] \in Executions
  BY <1>1
<1>3. exec' = [exec EXCEPT ![p] = [exec[p] EXCEPT ![r] = [exec[p][r] EXCEPT !.pc = pc]]]
  BY <1>1, <1>2 DEF Goto
<1>4. [exec[p][r] EXCEPT !.pc = pc] \in Executions /\ [exec[p][r] EXCEPT !.pc = pc].pc = pc
  BY <1>2 DEF Executions
<1>5. QED
  BY <1>1, <1>2, <1>3, <1>4

LEMMA ShapeStep == Shape /\ [Next]_vars => Shape'
<1> SUFFICES ASSUME Shape, [Next]_vars PROVE Shape'
  OBVIOUS
<1> USE DEF store, outside, config
<1>0. pruner' \in [Runs -> {"idle", "listed", "missing"}] /\ doubted' \subseteq Runs
  BY PruningStep
<1> USE <1>0
<1>1. CASE UNCHANGED vars
  BY <1>1 DEF vars, Shape, TypeOK, WellFormed
<1>2. CASE BecomeDue
  <2>1. due' \in 0..MaxDue
    BY <1>2, JobsAssumption DEF BecomeDue, Shape, TypeOK
  <2>2. QED
    BY <1>2, <2>1 DEF BecomeDue, Shape, TypeOK, WellFormed
<1>3. CASE Trigger
  <2>1. retries' \in Settings /\ events' \in 0..MaxEvents
    <3>1. due \in Nat /\ retries \in Nat /\ events \in Nat /\ retries \in Settings
      BY JobsAssumption DEF Shape, TypeOK
    <3>2. QED
      BY <1>3, <3>1, JobsAssumption DEF Trigger, Room
  <2>2. nextId \in Runs /\ nextId' \in 1..MaxRuns + 1
    BY <1>3, JobsAssumption DEF Trigger, Runs
  <2>3. op' \in Operations /\ WellFormed(op')
    <3>1. nextId \in 0..MaxRuns
      BY <2>2, JobsAssumption DEF Runs
    <3>2. QED
      BY <1>3, <2>2, <3>1, RequestOpTyped DEF Trigger
  <2>4. QED
    BY <1>3, <2>1, <2>2, <2>3 DEF Trigger, Shape, TypeOK, WellFormed
<1>4. CASE DeleteBegin
  <2>1. op' \in Operations /\ WellFormed(op')
    <3>1. 0 \in 0..MaxRuns
      BY JobsAssumption
    <3>2. QED
      BY <1>4, <3>1, RequestOpTyped DEF DeleteBegin
  <2>2. QED
    BY <1>4, <2>1, EventTyped DEF DeleteBegin, Shape, TypeOK, WellFormed
<1>5. CASE HideNotebook
  BY <1>5, EventTyped DEF HideNotebook, Shape, TypeOK, WellFormed, Requests
<1>6. CASE CrashApi
  <2>1. op' \in Operations /\ WellFormed(op')
    BY <1>6, DeadTyped DEF CrashApi, Shape, TypeOK, Holders
  <2>2. QED
    BY <1>6, <2>1, EventTyped, ConstantsTyped DEF CrashApi, Shape, TypeOK, WellFormed
<1>7. CASE PutMarker
  <2>1. op.kind \in {"fire", "trigger", "final"} /\ op.new \in Runs
    BY <1>7 DEF PutMarker, Shape, WellFormed, Enqueues
  <2>2. op' \in Operations /\ WellFormed(op')
    <3> DEFINE b == (marker[op.new] = 0)
    <3>1. b \in BOOLEAN /\ op.pc = "mark" /\ op' = [op EXCEPT !.pc = "record", !.fresh = b]
      BY <1>7 DEF PutMarker
    <3> HIDE DEF b
    <3>2. QED
      BY <3>1, MarkedOpTyped
  <2>3. nextId' \in 1..MaxRuns + 1 /\ marker' \in [Runs -> 0..MaxRuns]
    <3>1. nextId \in Runs => nextId + 1 \in 1..MaxRuns + 1 /\ nextId \in 0..MaxRuns
      BY JobsAssumption DEF Runs
    <3>2. QED
      BY <1>7, <2>1, <3>1 DEF PutMarker, Shape, TypeOK
  <2>4. QED
    BY <1>7, <2>2, <2>3 DEF PutMarker, Shape, TypeOK, WellFormed
<1>8. CASE PutRecord
  <2>1. op.kind \in {"fire", "trigger", "final"} /\ op.new \in Runs /\ op.run \in 0..MaxRuns /\ op.occ \in 0..MaxDue
        /\ op \in Operations
    BY <1>8 DEF PutRecord, Shape, TypeOK, WellFormed, Enqueues, Operations
  <2>2. NewRun \in RunRecords
    <3>1. (IF op.kind = "final" THEN run[op.run].attempt + 1 ELSE 1) \in Nat
      BY <1>8 DEF PutRecord, Shape, TypeOK, WellFormed, RunRecords
    <3>2. IsFiniteSet({r \in Runs : run[r].status # "absent"})
      BY RunsFinite, FS_Subset
    <3>3. 1 + Cardinality({r \in Runs : run[r].status # "absent"}) \in Nat
      BY <3>2, FS_CardinalityType
    <3>4. (IF op.skip THEN "skipped" ELSE "queued") \in Terminal \union Live \union {"absent"}
      BY DEF Terminal, Live
    <3>5. QED
      BY <2>1, <3>1, <3>3, <3>4 DEF NewRun, RunRecords
  <2>3. run' \in [Runs -> RunRecords]
    BY <1>8, <2>2 DEF PutRecord, Shape, TypeOK
  <2>4. op' \in Operations /\ WellFormed(op')
    <3>1. CASE op.kind = "trigger"
      <4>1. op' = NoOp
        BY <1>8, <3>1 DEF PutRecord, Shape, WellFormed
      <4>2. QED
        BY <4>1, ConstantsTyped
    <3>2. CASE op.kind # "trigger" /\ op.skip
      <4> DEFINE x == [op EXCEPT !.kind = "final", !.pc = "audit", !.run = op.new]
      <4>1. op.new \in 0..MaxRuns
        BY <2>1, JobsAssumption DEF Runs
      <4>2. x \in Operations
        BY <2>1, <4>1 DEF Operations
      <4>3. x.kind = "final" /\ x.pc = "audit" /\ x.run = op.new /\ x.new = op.new
        BY <2>1 DEF Operations
      <4>4. x # NoOp
        BY <4>3 DEF NoOp
      <4> HIDE DEF x
      <4>5. WellFormed(x)
        BY <2>1, <4>3, <4>4 DEF WellFormed, Enqueues, Settles
      <4>6. op' = x
        BY <1>8, <3>2 DEF PutRecord, x
      <4>7. QED
        BY <4>2, <4>5, <4>6
    <3>3. CASE op.kind # "trigger" /\ ~op.skip
      <4>1. op' = [op EXCEPT !.pc = "check"]
        BY <1>8, <3>3 DEF PutRecord
      <4>2. QED
        BY <1>8, <2>1, <3>3, <4>1, OpGoesOnTyped DEF PutRecord, Enqueues, Settles
    <3>4. QED
      BY <3>1, <3>2, <3>3
  <2>5. QED
    BY <1>8, <2>3, <2>4 DEF PutRecord, Shape, TypeOK, WellFormed
<1>9. CASE CheckDeleted
  <2>1. op.new \in Runs
    BY <1>9 DEF CheckDeleted, Shape, WellFormed, Enqueues
  <2>2. run' \in [Runs -> RunRecords]
    BY <1>9, <2>1, TransitionMeans DEF CheckDeleted, Shape, TypeOK
  <2>3. op' \in Operations /\ WellFormed(op')
    BY <1>9, ConstantsTyped, OpGoesOnTyped DEF CheckDeleted, Enqueues, Settles
  <2>4. QED
    BY <1>9, <2>2, <2>3 DEF CheckDeleted, Shape, TypeOK, WellFormed
<1>10. CASE Audit
  <2>1. op.kind = "final" /\ op.run \in Runs
    BY <1>10 DEF Audit, Shape, WellFormed, Settles
  <2>2. op' \in Operations /\ WellFormed(op')
    <3>1. AfterAudit(op.run) \in {"unmark", "mark", "notify"}
      BY DEF AfterAudit
    <3>2. op.pc = "audit" /\ op.new \in Runs
      BY <1>10, <2>1 DEF Audit, Shape, WellFormed
    <3>3. QED
      BY <1>10, <2>1, <3>1, <3>2, OpGoesOnTyped DEF Audit, Enqueues, Settles
  <2>3. QED
    BY <1>10, <2>1, <2>2 DEF Audit, Shape, TypeOK, WellFormed
<1>11. CASE Notify
  <2>1. op.kind = "final" /\ op.run \in Runs
    BY <1>11 DEF Notify, Shape, WellFormed, Settles
  <2>2. op' \in Operations /\ WellFormed(op')
    BY <1>11, <2>1, OpGoesOnTyped DEF Notify, Enqueues, Settles
  <2>3. QED
    BY <1>11, <2>1, <2>2 DEF Notify, Shape, TypeOK, WellFormed
<1>12. CASE AfterRunFails
  BY <1>12, EventTyped, ConstantsTyped, NoTickTyped DEF AfterRunFails, Shape, TypeOK
<1>13. CASE Unmark
  <2>1. marker' \in [Runs -> 0..MaxRuns]
    <3>1. 0 \in 0..MaxRuns
      BY JobsAssumption
    <3>2. QED
      BY <1>13, <3>1 DEF Unmark, Shape, TypeOK
  <2>2. QED
    BY <1>13, <2>1, ConstantsTyped DEF Unmark, Shape, TypeOK
<1>14. CASE UnmarkFails
  BY <1>14, EventTyped, ConstantsTyped DEF UnmarkFails, Shape, TypeOK
<1>15. CASE Expire
  BY <1>15, ConstantsTyped DEF Expire, Shape, TypeOK
<1>16. CASE TickStart
  <2>1. /\ tick' \in Ticks /\ DOMAIN tick'.seen = tick'.todo
    <3>1. due \in 0..MaxDue /\ NoTick \in Ticks
      BY NoTickTyped DEF Shape, TypeOK
    <3> HIDE DEF NoTick
    <3>2. tick' \in Ticks /\ tick'.seen = NoTick.seen /\ tick'.todo = NoTick.todo
      BY <1>16, <3>1 DEF TickStart, Ticks
    <3>3. QED
      BY <3>2, NoTickTyped
  <2>2. QED
    BY <1>16, <2>1 DEF TickStart, Shape, TypeOK, WellFormed
<1>17. ASSUME tick' = [NoTick EXCEPT !.pc = "list"] PROVE tick' \in Ticks /\ DOMAIN tick'.seen = tick'.todo
  <2>1. tick' \in Ticks /\ tick'.seen = NoTick.seen /\ tick'.todo = NoTick.todo
    BY <1>17, NoTickTyped DEF Ticks
  <2>2. QED
    BY <2>1, NoTickTyped
<1>18. CASE Fire
  <2>1. /\ op' \in Operations /\ WellFormed(op')
        /\ occ' \in [Occurrences -> Claims] /\ nextId' \in 1..MaxRuns + 1
    <3>1. CASE ~(job = "live" /\ tick.now > 0)
      BY <1>18, <3>1 DEF Fire, Shape, TypeOK
    <3>2. CASE job = "live" /\ tick.now > 0
      <4> DEFINE o == tick.now
      <4>1. o \in Occurrences
        BY <3>2, JobsAssumption DEF Shape, TypeOK, Ticks, Occurrences
      <4>2. ClaimOccurrence(o)
        BY <1>18, <3>2 DEF Fire
      <4>3. occ[o] \in Claims /\ tick.busy \in BOOLEAN
        BY <4>1 DEF Shape, TypeOK, Ticks
      <4> HIDE DEF o
      <4>4. CASE occ[o].run = 0
        <5> DEFINE skip == Forbid /\ tick.busy
        <5>1. skip \in BOOLEAN
          OBVIOUS
        <5>2. nextId \in Runs /\ nextId' = nextId + 1 /\ op' = FireOp(nextId, o, skip)
              /\ occ' = [occ EXCEPT ![o] = [run |-> nextId, outcome |-> IF skip THEN "skip" ELSE "run"]]
          BY <4>2, <4>4 DEF ClaimOccurrence
        <5>3. nextId \in 0..MaxRuns /\ nextId' \in 1..MaxRuns + 1
          BY <5>2, JobsAssumption DEF Runs
        <5>4. occ' \in [Occurrences -> Claims]
          BY <5>2, <5>3, <4>1 DEF Shape, TypeOK, Claims
        <5> HIDE DEF skip
        <5>5. QED
          BY <4>1, <5>1, <5>2, <5>3, <5>4, FireOpTyped
      <4>5. CASE occ[o].run # 0
        <5>1. occ[o].run \in Runs
          BY <4>3, <4>5, JobsAssumption DEF Claims, Runs
        <5>2. op' \in Operations /\ WellFormed(op')
          <6> DEFINE skip == occ[o].outcome = "skip"
          <6>1. skip \in BOOLEAN
            OBVIOUS
          <6>2. op' = op \/ op' = FireOp(occ[o].run, o, skip)
            BY <4>2, <4>5 DEF ClaimOccurrence
          <6> HIDE DEF skip
          <6>3. QED
            BY <4>1, <5>1, <6>1, <6>2, FireOpTyped DEF Shape, TypeOK
        <5>3. QED
          BY <4>2, <4>5, <5>2 DEF ClaimOccurrence, Shape, TypeOK
      <4>6. QED
        BY <4>4, <4>5
    <3>3. QED
      BY <3>1, <3>2
  <2>2. QED
    BY <1>17, <1>18, <2>1 DEF Fire, Shape, TypeOK
<1>19. CASE FireBusy
  BY <1>17, <1>19 DEF FireBusy, Shape, TypeOK
<1>20. CASE List
  <2>1. Listed \in [Marked -> Sightings] /\ Marked \subseteq Runs
    <3>1. ASSUME NEW r \in Marked PROVE Listed[r] \in Sightings
      <4>1. run[r].status \in Terminal \union Live \union {"absent"}
        BY DEF Shape, TypeOK, RunRecords, Marked
      <4>2. QED
        BY <4>1 DEF Listed, Sightings, Terminal, Live, Active
    <3>2. QED
      BY <3>1 DEF Listed, Marked
  <2>2. tick' \in Ticks /\ tick'.todo = Marked /\ tick'.seen = Listed
    <3>1. Listed \in UNION {[T -> Sightings] : T \in SUBSET Runs}
      BY <2>1, SeenTyped
    <3>2. tick \in Ticks
      BY DEF Shape, TypeOK
    <3> HIDE DEF Listed, Marked
    <3>3. QED
      BY <1>20, <2>1, <3>1, <3>2 DEF List, Ticks
  <2>3. DOMAIN tick'.seen = tick'.todo
    BY <2>1, <2>2
  <2>4. QED
    BY <1>20, <2>2, <2>3 DEF List, Shape, TypeOK
<1>21. CASE Dispatch
  <2>1. exec' \in [Procs -> [Runs -> Executions]]
    <3>1. [NoExec EXCEPT !.pc = "load"] \in Executions
      BY DEF NoExec, Executions
    <3>2. leader \in Procs /\ exec[leader] \in [Runs -> Executions]
      BY DEF Shape, TypeOK
    <3> DEFINE f == [r \in Runs |-> IF r \in Admitted THEN [NoExec EXCEPT !.pc = "load"] ELSE exec[leader][r]]
    <3>3. f \in [Runs -> Executions]
      BY <3>1, <3>2
    <3>4. exec' = [exec EXCEPT ![leader] = f]
      BY <1>21, <3>2 DEF Dispatch, Shape, TypeOK
    <3> HIDE DEF f
    <3>5. QED
      BY <3>2, <3>3, <3>4 DEF Shape, TypeOK
  <2>2. QED
    BY <1>21, <2>1, NoTickTyped DEF Dispatch, Shape, TypeOK
<1>22. CASE DeleteCancel
  <2>1. api' \in Requests
    BY <1>22 DEF DeleteCancel, Requests, Marked
  <2>2. QED
    BY <1>22, <2>1, CancelAllMeans, ConstantsTyped DEF DeleteCancel, Shape, TypeOK
<1>23. CASE DeleteUnmark
  <2>1. marker' \in [Runs -> 0..MaxRuns]
    BY <1>23, JobsAssumption DEF DeleteUnmark, Shape, TypeOK
  <2>2. api' \in Requests /\ audited' \subseteq Runs
    BY <1>23 DEF DeleteUnmark, Shape, TypeOK, Requests
  <2>3. QED
    BY <1>23, <2>1, <2>2 DEF DeleteUnmark, Shape, TypeOK
<1>24. CASE DestroyAll
  <2>1. api' \in Requests
    BY <1>24, ConstantsTyped DEF DestroyAll, Shape, TypeOK, Requests
  <2>2. box' \in [Runs -> {"none", "booting", "up", "gone"}]
    BY <1>24 DEF DestroyAll, Destroyed, Shape, TypeOK
  <2>3. QED
    BY <1>24, <2>1, <2>2, EventTyped DEF DestroyAll, Shape, TypeOK
<1>25. CASE DeleteFinish
  BY <1>25, ConstantsTyped DEF DeleteFinish, Shape, TypeOK
<1>26. CASE HideCancel
  <2>1. api' \in Requests /\ audited' \subseteq Runs
    BY <1>26 DEF HideCancel, Requests, Marked, Shape, TypeOK
  <2>2. QED
    BY <1>26, <2>1, CancelAllMeans DEF HideCancel, Shape, TypeOK
<1>27. ASSUME NEW p \in Procs, Crash(p) PROVE Shape'
  <2>1. op' \in Operations /\ WellFormed(op')
    <3>1. op' = op \/ op' = Dead("tick") \/ op' = Dead(p)
      BY <1>27 DEF Crash
    <3>2. QED
      BY <3>1, DeadTyped DEF Holders, Shape, TypeOK
  <2>2. exec' \in [Procs -> [Runs -> Executions]]
    BY <1>27, ConstantsTyped DEF Crash, Shape, TypeOK
  <2>3. tick' \in Ticks /\ DOMAIN tick'.seen = tick'.todo
    BY <1>27, NoTickTyped DEF Crash, Shape, TypeOK
  <2>4. QED
    BY <1>27, <2>1, <2>2, <2>3, EventTyped DEF Crash, Shape, TypeOK
<1>28. ASSUME NEW p \in Procs, Handover(p) PROVE Shape'
  <2>1. retries' \in Settings /\ events' \in 0..MaxEvents
    <3>1. due \in Nat /\ retries \in Nat /\ events \in Nat /\ retries \in Settings
      BY JobsAssumption DEF Shape, TypeOK
    <3>2. QED
      BY <1>28, <3>1, JobsAssumption DEF Handover, Room
  <2>2. QED
    BY <1>28, <2>1 DEF Handover, Shape, TypeOK
<1>29. ASSUME NEW r \in Runs PROVE Destroyed(r) \in [Runs -> {"none", "booting", "up", "gone"}]
  BY DEF Destroyed, Shape, TypeOK
<1>30. ASSUME NEW r \in Runs, TickMissing(r) \/ TickPrune(r) \/ TickYoung(r) PROVE Shape'
  <2>1. CASE TickPrune(r)
    <3>1. marker' \in [Runs -> 0..MaxRuns]
      BY <2>1, JobsAssumption DEF TickPrune, Shape, TypeOK
    <3>2. QED
      BY <2>1, <3>1, DoneTyped DEF TickPrune, Shape, TypeOK
  <2>2. CASE TickYoung(r)
    BY <2>2, DoneTyped DEF TickYoung, Shape, TypeOK
  <2>3. CASE TickMissing(r)
    <3>1. tick' \in Ticks /\ DOMAIN tick'.seen = tick'.todo
      <4>1. CASE tick' = Done(r)
        BY <4>1, DoneTyped
      <4>2. CASE tick' = [tick EXCEPT !.seen[r] = "missing"]
        BY <2>3, <4>2, NotedTyped DEF TickMissing, Entry
      <4>3. QED
        BY <2>3, <4>1, <4>2 DEF TickMissing
    <3>2. QED
      BY <2>3, <3>1 DEF TickMissing, Shape, TypeOK
  <2>4. QED
    BY <1>30, <2>1, <2>2, <2>3
<1>31. ASSUME NEW r \in Runs, NEW by \in Holders, op' = IF marker[r] = 0 THEN op ELSE FinalOp(r, by)
       PROVE  op' \in Operations /\ WellFormed(op')
  BY <1>31, FinalOpTyped DEF Shape, TypeOK
<1>32. ASSUME NEW r \in Runs, TickFinalize(r) PROVE Shape'
  <2>1. op' \in Operations /\ WellFormed(op')
    BY <1>31, <1>32 DEF TickFinalize, Finalize, Holders
  <2>2. QED
    BY <1>32, <2>1, DoneTyped DEF TickFinalize, Shape, TypeOK
<1>33. ASSUME NEW r \in Runs, TickBusy(r) PROVE Shape'
  BY <1>33, DoneTyped DEF TickBusy, Shape, TypeOK
<1>34. ASSUME NEW r \in Runs,
              \/ tick' = Done(r)
              \/ tick' = [Done(r) EXCEPT !.held = @ \union {r}]
              \/ tick' = [Done(r) EXCEPT !.queue = @ \union {r}]
       PROVE  tick' \in Ticks /\ DOMAIN tick'.seen = tick'.todo
  <2>1. Done(r) \in Ticks /\ DOMAIN Done(r).seen = Done(r).todo
    BY DoneTyped
  <2> HIDE DEF Done
  <2>2. tick' \in Ticks /\ tick'.seen = Done(r).seen /\ tick'.todo = Done(r).todo
    BY <1>34, <2>1 DEF Ticks
  <2>3. QED
    BY <2>1, <2>2
<1>35. ASSUME NEW r \in Runs, TickQueued(r) PROVE Shape'
  <2>1. tick' \in Ticks /\ DOMAIN tick'.seen = tick'.todo
    BY <1>34, <1>35 DEF TickQueued
  <2>2. run' \in [Runs -> RunRecords]
    BY <1>35, TransitionMeans DEF TickQueued, Shape, TypeOK
  <2>3. QED
    BY <1>35, <2>1, <2>2 DEF TickQueued, Shape, TypeOK
<1>36. ASSUME NEW r \in Runs, TickRunning(r) PROVE Shape'
  BY <1>34, <1>36 DEF TickRunning, Shape, TypeOK
<1>37. ASSUME NEW r \in Runs, TickWatchdog(r) PROVE Shape'
  <2>1. tick' \in Ticks /\ DOMAIN tick'.seen = tick'.todo
    <3>1. \/ tick' = Done(r) \/ tick' = [Done(r) EXCEPT !.held = @ \union {r}] \/ tick' = NoTick
      BY <1>37 DEF TickWatchdog
    <3>2. QED
      BY <1>34, <3>1, NoTickTyped
  <2>2. run' \in [Runs -> RunRecords]
    BY <1>37, TransitionMeans DEF TickWatchdog
  <2>3. exec' \in [Procs -> [Runs -> Executions]]
    <3>1. exec' = exec \/ exec' = [exec EXCEPT ![leader][r].ext = TRUE]
      BY <1>37 DEF TickWatchdog
    <3>2. leader \in Procs /\ exec[leader] \in [Runs -> Executions] /\ exec[leader][r] \in Executions
      BY DEF Shape, TypeOK
    <3> DEFINE f == [exec[leader] EXCEPT ![r] = [exec[leader][r] EXCEPT !.ext = TRUE]]
    <3>3. [exec[leader][r] EXCEPT !.ext = TRUE] \in Executions
      BY <3>2 DEF Executions
    <3>4. f \in [Runs -> Executions]
      BY <3>2, <3>3
    <3>5. exec' = exec \/ exec' = [exec EXCEPT ![leader] = f]
      BY <3>1, <3>2 DEF Shape, TypeOK
    <3> HIDE DEF f
    <3>6. QED
      BY <3>2, <3>4, <3>5 DEF Shape, TypeOK
  <2>4. op' \in Operations /\ WellFormed(op')
    <3>1. op' = op \/ Finalize(r, "watchdog")
      BY <1>37 DEF TickWatchdog
    <3>2. QED
      BY <1>31, <3>1 DEF Finalize, Holders, Shape, TypeOK
  <2>5. box' \in [Runs -> {"none", "booting", "up", "gone"}] /\ retries' \in Settings /\ events' \in 0..MaxEvents
    BY <1>29, <1>37, EventTyped DEF TickWatchdog, Shape, TypeOK
  <2>6. QED
    BY <1>37, <2>1, <2>2, <2>3, <2>4, <2>5 DEF TickWatchdog, Shape, TypeOK
<1>38. ASSUME NEW r \in Runs, LateBoot(r) PROVE Shape'
  BY <1>38 DEF LateBoot, Shape, TypeOK
<1>39. ASSUME NEW r \in Runs, PruneList(r) \/ PruneCheck(r) \/ PruneStale(r) PROVE Shape'
  <2>1. marker' \in [Runs -> 0..MaxRuns]
    BY <1>39, JobsAssumption DEF PruneList, PruneCheck, PruneStale, Shape, TypeOK
  <2>2. QED
    BY <1>39, <2>1 DEF PruneList, PruneCheck, PruneStale, Shape, TypeOK
<1>40. ASSUME NEW r \in Runs, Reap(r) PROVE Shape'
  BY <1>40 DEF Reap, Shape, TypeOK
<1>41. ASSUME NEW r \in Runs, Cancel(r) PROVE Shape'
  <2>1. run' \in [Runs -> RunRecords]
    BY <1>41, TransitionMeans DEF Cancel
  <2>2. box' \in [Runs -> {"none", "booting", "up", "gone"}] /\ retries' \in Settings /\ events' \in 0..MaxEvents
    BY <1>29, <1>41, EventTyped DEF Cancel, Shape, TypeOK
  <2>3. QED
    BY <1>41, <2>1, <2>2 DEF Cancel, Shape, TypeOK
<1>42. ASSUME NEW p \in Procs, NEW r \in Runs, LoadFails(p, r) PROVE Shape'
  <2>1. retries' \in Settings /\ events' \in 0..MaxEvents
    BY <1>42, EventTyped DEF LoadFails, Shape, TypeOK
  <2>2. QED
    BY <1>42, <2>1, TransitionMeans, GotoTyped DEF LoadFails, Shape, TypeOK
<1>43. ASSUME NEW p \in Procs, NEW r \in Runs, Provision(p, r) PROVE Shape'
  <2>1. exec' \in [Procs -> [Runs -> Executions]]
    BY <1>43, GotoTyped DEF Provision
  <2>2. box' \in [Runs -> {"none", "booting", "up", "gone"}]
    BY <1>43 DEF Provision, Shape, TypeOK
  <2>3. run' \in [Runs -> RunRecords]
    BY <1>43, TransitionMeans DEF Provision
  <2>4. QED
    BY <1>43, <2>1, <2>2, <2>3 DEF Provision, Shape, TypeOK
<1>44. ASSUME NEW p \in Procs, NEW r \in Runs, Prepared(p, r) PROVE Shape'
  <2>1. exec' \in [Procs -> [Runs -> Executions]]
    BY <1>44, GotoTyped DEF Prepared
  <2>2. box' \in [Runs -> {"none", "booting", "up", "gone"}]
    BY <1>44 DEF Prepared, Shape, TypeOK
  <2>3. run' \in [Runs -> RunRecords]
    BY <1>44, TransitionMeans DEF Prepared
  <2>4. QED
    BY <1>44, <2>1, <2>2, <2>3 DEF Prepared, Shape, TypeOK
<1>45. ASSUME NEW p \in Procs, NEW r \in Runs, PrepareFails(p, r) PROVE Shape'
  <2>1. exec' \in [Procs -> [Runs -> Executions]]
    BY <1>45, GotoTyped DEF PrepareFails
  <2>2. box' \in [Runs -> {"none", "booting", "up", "gone"}]
    BY <1>45 DEF PrepareFails, Shape, TypeOK
  <2>3. run' \in [Runs -> RunRecords]
    BY <1>45, TransitionMeans DEF PrepareFails
  <2>4. QED
    BY <1>45, <2>1, <2>2, <2>3, EventTyped DEF PrepareFails, Shape, TypeOK
<1>46. ASSUME NEW p \in Procs, NEW r \in Runs, Export(p, r) PROVE Shape'
  <2>1. run' \in [Runs -> RunRecords]
    BY <1>46, TransitionMeans DEF Export
  <2>2. QED
    BY <1>46, <2>1, GotoTyped DEF Export, Shape, TypeOK
<1>47. ASSUME NEW p \in Procs, NEW r \in Runs, Destroy(p, r) PROVE Shape'
  <2>1. box' \in [Runs -> {"none", "booting", "up", "gone"}] /\ retries' \in Settings /\ events' \in 0..MaxEvents
    BY <1>29, <1>47, EventTyped DEF Destroy, Shape, TypeOK
  <2>2. QED
    BY <1>47, <2>1, GotoTyped DEF Destroy, Shape, TypeOK
<1>48. ASSUME NEW p \in Procs, NEW r \in Runs, exec' = [exec EXCEPT ![p][r] = NoExec]
       PROVE  exec' \in [Procs -> [Runs -> Executions]]
  BY <1>48, ConstantsTyped DEF Shape, TypeOK
<1>49. ASSUME NEW p \in Procs, NEW r \in Runs, Finish(p, r) PROVE Shape'
  <2>1. op' \in Operations /\ WellFormed(op')
    <3>1. op' = op \/ Finalize(r, p)
      BY <1>49 DEF Finish
    <3>2. QED
      BY <1>31, <3>1 DEF Finalize, Holders, Shape, TypeOK
  <2>2. QED
    BY <1>48, <1>49, <2>1 DEF Finish, Shape, TypeOK
<1>50. ASSUME NEW p \in Procs, NEW r \in Runs, FinishBusy(p, r) PROVE Shape'
  BY <1>48, <1>50 DEF FinishBusy, Shape, TypeOK
<1>51. QED
  <2>1. CASE Next
    BY <2>1, NextCases, <1>2, <1>3, <1>4, <1>5, <1>6, <1>7, <1>8, <1>9, <1>10, <1>11, <1>12, <1>13, <1>14, <1>15,
       <1>16, <1>18, <1>19, <1>20, <1>21, <1>22, <1>23, <1>24, <1>25, <1>26, <1>27, <1>28, <1>30, <1>32, <1>33,
       <1>35, <1>36, <1>37, <1>38, <1>39, <1>40, <1>41, <1>42, <1>43, <1>44, <1>45, <1>46, <1>47, <1>49, <1>50
  <2>2. QED
    BY <1>1, <2>1

LEMMA InitShape == Init => Shape
<1> SUFFICES ASSUME Init PROVE Shape
  OBVIOUS
<1>1. leader \in Procs
  BY JobsAssumption DEF Init
<1>2. 0 \in 0..MaxDue /\ 0 \in 0..MaxRuns /\ nextId \in 1..MaxRuns + 1 /\ 0 \in 0..MaxEvents
  BY JobsAssumption DEF Init
<1>3. QED
  BY <1>1, <1>2, ConstantsTyped, NoTickTyped DEF Init, Shape, TypeOK

\* The records, claims, markers, the operation under the lease, ticks and executions stay well
\* formed whatever crashes or is lost, for any number of processes and runs.
THEOREM TypeCorrect == Spec => []TypeOK
<1>1. Shape => TypeOK
  BY DEF Shape
<1>2. QED
  BY <1>1, InitShape, ShapeStep, PTL DEF Spec

-----------------------------------------------------------------------------
(* What a step changes of what the runs depend on. *)

Released == op' = op \/ (op'.pc \in {"free", "dead"} /\ op'.new = 0 /\ op'.run = 0)
OpTo(pc) == /\ op'.pc = pc /\ op'.kind = op.kind /\ op'.run = op.run /\ op'.new = op.new
            /\ op'.occ = op.occ /\ op'.skip = op.skip

\* The listing of a tick shows a run as ended only after it has ended, and as missing only after
\* its record was missed.
SeenFine == \A r \in tick'.todo :
    /\ tick'.seen[r] = "ended" => (r \in tick.todo /\ tick.seen[r] = "ended") \/ run[r].status \in Terminal
    /\ tick'.seen[r] = "missing" => (r \in tick.todo /\ tick.seen[r] = "missing") \/ r \in doubted'

\* The execution of r in p is past the update to provisioning.
Busy(p, r) == exec[p][r].pc \in {"prepare", "export"}
ExecCalm == \A p \in Procs, r \in Runs : Busy(p, r)' => Busy(p, r)
Wins(p, r) ==
    /\ run[r].status = "queued" /\ run'[r].status = "provisioning"
    /\ \A q \in Procs, s \in Runs : q # p \/ s # r => (Busy(q, s)' => Busy(q, s))

Grows == audited \subseteq audited' /\ notified \subseteq notified' /\ retries' = retries /\ Doubts
Quiet == SeenFine /\ ExecCalm /\ Grows

ApiOn ==
    \/ api' = api
    \/ api'.pc = "idle"
    \/ api.pc = "destroy" /\ api'.pc = "finish" /\ job = "deleting"
    \/ /\ op.pc = "cancel" /\ op' = NoOp /\ api'.pc = "unmark"
       /\ \A r \in api'.runs : run'[r].status \in Terminal
    \/ api.pc = "drain" /\ api'.pc = "destroy"

Calm ==
    /\ SeenFine /\ Grows /\ (ExecCalm \/ \E p \in Procs, r \in Runs : Wins(p, r))
    /\ UNCHANGED <<job, occ, marker, nextId>>
    /\ RunsGoOn /\ Released /\ ApiOn

Fires ==
    /\ Quiet /\ UNCHANGED <<job, run, marker, api>>
    /\ op = NoOp /\ job = "live"
    /\ op'.kind = "fire" /\ op'.pc = "mark" /\ op'.run = 0 /\ op'.occ \in Occurrences
    /\ \/ /\ nextId \in Runs /\ nextId' = nextId + 1 /\ op'.new = nextId
          /\ occ[op'.occ].run = 0
          /\ occ' = [occ EXCEPT ![op'.occ] = [run |-> nextId, outcome |-> IF op'.skip THEN "skip" ELSE "run"]]
       \/ /\ UNCHANGED <<occ, nextId>>
          /\ op'.new = occ[op'.occ].run /\ (op'.skip <=> occ[op'.occ].outcome = "skip")
          /\ run[op'.new].status = "absent"

MarkerPut ==
    /\ Quiet /\ UNCHANGED <<job, occ, run, api>>
    /\ op.pc = "mark" /\ OpTo("record")
    /\ \/ /\ marker[op.new] = 0 /\ nextId \in Runs /\ nextId' = nextId + 1
          /\ marker' = [marker EXCEPT ![op.new] = nextId]
       \/ marker[op.new] # 0 /\ UNCHANGED <<marker, nextId>>

RecordPut ==
    /\ Quiet /\ UNCHANGED <<job, occ, marker, nextId, api>>
    /\ op.pc = "record"
    /\ \/ run[op.new].status = "absent" /\ run' = [run EXCEPT ![op.new] = NewRun]
       \/ run[op.new].status # "absent" /\ run' = run
    /\ \/ op.kind = "trigger" /\ op' = NoOp
       \/ /\ op.kind # "trigger" /\ op.skip
          /\ op'.kind = "final" /\ op'.pc = "audit" /\ op'.run = op.new /\ op'.new = op.new
          /\ op'.skip = op.skip
       \/ op.kind # "trigger" /\ ~op.skip /\ OpTo("check")

Checked ==
    /\ Quiet /\ UNCHANGED <<job, occ, marker, nextId, api>>
    /\ op.pc = "check" /\ RunsGoOn
    /\ \/ op.kind = "final" /\ OpTo("unmark")
       \/ op.kind # "final" /\ op' = NoOp

Audited ==
    /\ Quiet /\ UNCHANGED <<job, occ, run, marker, nextId, api>>
    /\ op.pc = "audit" /\ OpTo(AfterAudit(op.run)) /\ op.run \in audited'

Notified ==
    /\ Quiet /\ UNCHANGED <<job, occ, run, marker, nextId, api>>
    /\ op.pc = "notify" /\ OpTo("unmark") /\ op.run \in notified'

Unmarked ==
    /\ Quiet /\ UNCHANGED <<job, occ, run, nextId, api>>
    /\ op.pc = "unmark" /\ op' = NoOp
    /\ marker' = [marker EXCEPT ![op.run] = 0]

Forgets(r) ==
    /\ Quiet /\ UNCHANGED <<job, occ, run, nextId, op, api>>
    /\ r \in doubted
    /\ marker' = [marker EXCEPT ![r] = 0]

Finalizes(r) ==
    /\ Quiet /\ UNCHANGED <<job, occ, marker, nextId, api>>
    /\ op = NoOp /\ RunsGoOn /\ marker[r] # 0
    /\ op'.kind = "final" /\ op'.pc = "audit" /\ op'.run = r /\ op'.new = marker[r] /\ op'.skip = FALSE
    /\ run'[r].status \in Terminal \/ (r \in tick.todo /\ tick.seen[r] = "ended")

Triggers ==
    /\ Quiet /\ UNCHANGED <<job, occ, run, marker, api>>
    /\ op = NoOp /\ job \in {"live", "hidden"} /\ nextId \in Runs /\ nextId' = nextId + 1
    /\ op'.kind = "trigger" /\ op'.pc = "mark" /\ op'.new = nextId /\ op'.run = 0

DeleteBegins ==
    /\ Quiet /\ UNCHANGED <<occ, run, marker, nextId, api>>
    /\ op = NoOp /\ Loadable /\ api.pc = "idle" /\ job' = "deleting"
    /\ op'.kind = "delete" /\ op'.pc = "cancel" /\ op'.run = 0 /\ op'.new = 0

DeleteUnmarks ==
    /\ Quiet /\ UNCHANGED <<job, occ, run, nextId, op>>
    /\ api.pc = "unmark" /\ api'.pc = "destroy"
    /\ marker' = [r \in Runs |-> IF r \in api.runs THEN 0 ELSE marker[r]]

DeleteFinishes ==
    /\ Quiet /\ UNCHANGED <<marker, nextId, op>>
    /\ api.pc = "finish" /\ api'.pc = "idle" /\ job' = "gone"
    /\ run' = [r \in Runs |-> NoRun] /\ occ' = [o \in Occurrences |-> NoClaim]

Hides ==
    /\ Quiet /\ UNCHANGED <<occ, run, marker, nextId, op>>
    /\ job = "live" /\ job' = "hidden" /\ op.kind # "delete"
    /\ api.pc = "idle" /\ api'.pc = "drain"

Effect ==
    \/ Calm \/ Fires \/ MarkerPut \/ RecordPut \/ Checked \/ Audited \/ Notified \/ Unmarked
    \/ \E r \in Runs : Forgets(r) \/ Finalizes(r)
    \/ Triggers \/ DeleteBegins \/ DeleteUnmarks \/ DeleteFinishes \/ Hides

LEMMA SeenSame == ASSUME tick' = tick PROVE SeenFine
  BY DEF SeenFine

LEMMA SeenReset ==
    ASSUME \/ tick' = NoTick
           \/ tick' = [NoTick EXCEPT !.pc = "list"]
           \/ \E b \in BOOLEAN : tick' = [NoTick EXCEPT !.pc = "fire", !.now = due, !.busy = b]
    PROVE  SeenFine
<1>1. tick'.todo = NoTick.todo
  BY NoTickTyped DEF Ticks
<1>2. QED
  BY <1>1, NoTickTyped DEF SeenFine

LEMMA SeenDone ==
    ASSUME Shape, NEW r \in Runs,
           \/ tick' = Done(r)
           \/ tick' = [Done(r) EXCEPT !.held = @ \union {r}]
           \/ tick' = [Done(r) EXCEPT !.queue = @ \union {r}]
    PROVE  SeenFine
<1>1. Done(r) \in Ticks /\ Done(r).todo = tick.todo \ {r} /\ \A q \in tick.todo \ {r} : Done(r).seen[q] = tick.seen[q]
  BY DoneTyped
<1> HIDE DEF Done
<1>2. tick'.seen = Done(r).seen /\ tick'.todo = Done(r).todo
  BY <1>1 DEF Ticks
<1>3. QED
  BY <1>1, <1>2 DEF SeenFine

LEMMA ExecSame == ASSUME exec' = exec PROVE ExecCalm
  BY DEF ExecCalm, Busy

LEMMA RunsSame == ASSUME run' = run PROVE RunsGoOn
  BY DEF RunsGoOn

LEMMA ExecIdle ==
    ASSUME Shape, NEW p \in Procs, NEW r \in Runs, exec' = [exec EXCEPT ![p][r] = NoExec]
    PROVE  ExecCalm
<1>1. NoExec.pc = "idle"
  BY DEF NoExec
<1>2. \A q \in Procs, s \in Runs : exec'[q][s] = NoExec \/ exec'[q][s] = exec[q][s]
  BY DEF Shape, TypeOK
<1>3. QED
  BY <1>1, <1>2 DEF ExecCalm, Busy

LEMMA ExecLeaves ==
    ASSUME Shape, NEW p \in Procs, NEW r \in Runs, NEW pc \in {"destroy", "final"}, Goto(p, r, pc)
    PROVE  ExecCalm
<1>1. exec'[p][r].pc = pc /\ \A q \in Procs, s \in Runs : q # p \/ s # r => exec'[q][s] = exec[q][s]
  BY GotoTyped
<1>2. QED
  BY <1>1 DEF ExecCalm, Busy

LEMMA EventKeeps == ASSUME Event PROVE retries' = retries
  BY DEF Event

\* A marker is about to be pruned only for a run whose record was missed.
DoubtInv ==
    /\ \A r \in Runs : pruner[r] = "missing" => r \in doubted
    /\ \A r \in tick.todo : tick.seen[r] = "missing" => r \in doubted

LEMMA StepEffect == ASSUME Shape, Shape', DoubtInv, Next PROVE Effect
<1> USE DEF store, outside, config, pruning
<1>1. Doubts
  BY PruningStep
<1> USE <1>1
<1>2. CASE BecomeDue
  BY <1>2, SeenSame, ExecSame, RunsSame DEF BecomeDue, Effect, Calm, Grows, Released, ApiOn
<1>3. CASE Trigger
  <2>1. op'.kind = "trigger" /\ op'.pc = "mark" /\ op'.new = nextId /\ op'.run = 0
    BY <1>3 DEF Trigger, NoOp
  <2>2. QED
    BY <1>3, <2>1, SeenSame, ExecSame DEF Trigger, Effect, Triggers, Quiet, Grows
<1>4. CASE DeleteBegin
  <2>1. op'.kind = "delete" /\ op'.pc = "cancel" /\ op'.new = 0 /\ op'.run = 0
    BY <1>4 DEF DeleteBegin, NoOp
  <2>2. QED
    BY <1>4, <2>1, SeenSame, ExecSame, EventKeeps DEF DeleteBegin, Effect, DeleteBegins, Quiet, Grows
<1>5. CASE HideNotebook
  <2>1. api'.pc = "drain"
    BY <1>5 DEF HideNotebook, Shape, TypeOK, Requests
  <2>2. QED
    BY <1>5, <2>1, SeenSame, ExecSame, EventKeeps DEF HideNotebook, Effect, Hides, Quiet, Grows
<1>6. CASE CrashApi
  <2>1. Released
    BY <1>6, DeadTyped DEF CrashApi, Released, Holders
  <2>2. ApiOn
    BY <1>6 DEF CrashApi, ApiOn, NoRequest
  <2>3. QED
    BY <1>6, <2>1, <2>2, SeenSame, ExecSame, RunsSame, EventKeeps DEF CrashApi, Effect, Calm, Grows
<1>7. ASSUME NEW pc, op' = [op EXCEPT !.pc = pc] PROVE OpTo(pc)
  BY <1>7 DEF Shape, TypeOK, Operations, OpTo
<1>8. CASE PutMarker
  <2>1. OpTo("record")
    <3> DEFINE b == (marker[op.new] = 0)
    <3>1. b \in BOOLEAN /\ op.pc = "mark" /\ op' = [op EXCEPT !.pc = "record", !.fresh = b]
      BY <1>8 DEF PutMarker
    <3> HIDE DEF b
    <3>2. QED
      BY <3>1, MarkedOpTyped DEF OpTo
  <2>2. QED
    BY <1>8, <2>1, SeenSame, ExecSame DEF PutMarker, Effect, MarkerPut, Quiet, Grows
<1>9. CASE PutRecord
  <2>1. \/ op.kind = "trigger" /\ op' = NoOp
        \/ /\ op.kind # "trigger" /\ op.skip
           /\ op'.kind = "final" /\ op'.pc = "audit" /\ op'.run = op.new /\ op'.new = op.new
           /\ op'.skip = op.skip
        \/ op.kind # "trigger" /\ ~op.skip /\ OpTo("check")
    <3>1. CASE op.kind = "trigger"
      BY <1>9, <3>1 DEF PutRecord, Shape, WellFormed
    <3>2. CASE op.kind # "trigger" /\ op.skip
      <4>1. op' = [op EXCEPT !.kind = "final", !.pc = "audit", !.run = op.new]
        BY <1>9, <3>2 DEF PutRecord
      <4>2. QED
        BY <3>2, <4>1 DEF Shape, TypeOK, Operations
    <3>3. CASE op.kind # "trigger" /\ ~op.skip
      BY <1>7, <1>9, <3>3 DEF PutRecord
    <3>4. QED
      BY <3>1, <3>2, <3>3
  <2>2. QED
    BY <1>9, <2>1, SeenSame, ExecSame DEF PutRecord, Effect, RecordPut, Quiet, Grows
<1>10. CASE CheckDeleted
  <2>1. op.new \in Runs
    BY <1>10 DEF CheckDeleted, Shape, WellFormed, Enqueues
  <2>2. RunsGoOn
    BY <1>10, <2>1, TransitionMeans, RunsSame DEF CheckDeleted
  <2>3. op.kind = "final" => OpTo("unmark")
    BY <1>7, <1>10 DEF CheckDeleted
  <2>4. QED
    BY <1>10, <2>2, <2>3, SeenSame, ExecSame DEF CheckDeleted, Effect, Checked, Quiet, Grows
<1>11. CASE Audit
  <2>1. OpTo(AfterAudit(op.run))
    BY <1>7, <1>11 DEF Audit
  <2>2. QED
    BY <1>11, <2>1, SeenSame, ExecSame DEF Audit, Effect, Audited, Quiet, Grows
<1>12. CASE Notify
  <2>1. OpTo("unmark")
    BY <1>7, <1>12 DEF Notify
  <2>2. QED
    BY <1>12, <2>1, SeenSame, ExecSame DEF Notify, Effect, Notified, Quiet, Grows
<1>13. ASSUME op' = NoOp PROVE Released
  BY <1>13 DEF Released, NoOp
<1>14. CASE AfterRunFails
  <2>1. SeenFine
    BY <1>14, SeenSame, SeenReset DEF AfterRunFails
  <2>2. QED
    BY <1>13, <1>14, <2>1, ExecSame, RunsSame, EventKeeps DEF AfterRunFails, Effect, Calm, Grows, ApiOn
<1>15. CASE Unmark
  BY <1>15, SeenSame, ExecSame DEF Unmark, Effect, Unmarked, Quiet, Grows
<1>16. CASE UnmarkFails
  BY <1>13, <1>16, SeenSame, ExecSame, RunsSame, EventKeeps DEF UnmarkFails, Effect, Calm, Grows, ApiOn
<1>17. CASE Expire
  BY <1>13, <1>17, SeenSame, ExecSame, RunsSame DEF Expire, Effect, Calm, Grows, ApiOn
<1>18. CASE TickStart
  <2>1. SeenFine
    BY <1>18, SeenReset DEF TickStart
  <2>2. QED
    BY <1>18, <2>1, ExecSame, RunsSame DEF TickStart, Effect, Calm, Grows, Released, ApiOn
<1>19. CASE Fire
  <2>1. SeenFine
    BY <1>19, SeenReset DEF Fire
  <2>2. ASSUME op' = op, UNCHANGED <<occ, nextId>> PROVE Effect
    BY <1>19, <2>1, <2>2, ExecSame, RunsSame DEF Fire, Effect, Calm, Grows, Released, ApiOn
  <2>3. CASE job = "live" /\ tick.now > 0
    <3> DEFINE o == tick.now
    <3>1. o \in Occurrences
      BY <2>3, JobsAssumption DEF Shape, TypeOK, Ticks, Occurrences
    <3>2. ClaimOccurrence(o)
      BY <1>19, <2>3 DEF Fire
    <3>3. occ[o] \in Claims
      BY <3>1 DEF Shape, TypeOK
    <3> HIDE DEF o
    <3>4. CASE occ[o].run = 0
      <4> DEFINE skip == Forbid /\ tick.busy
      <4>1. nextId \in Runs /\ nextId' = nextId + 1 /\ op' = FireOp(nextId, o, skip)
            /\ occ' = [occ EXCEPT ![o] = [run |-> nextId, outcome |-> IF skip THEN "skip" ELSE "run"]]
        BY <3>2, <3>4 DEF ClaimOccurrence
      <4>2. skip \in BOOLEAN
        OBVIOUS
      <4> HIDE DEF skip
      <4>3. /\ op'.kind = "fire" /\ op'.pc = "mark" /\ op'.run = 0 /\ op'.occ = o /\ op'.new = nextId /\ op'.skip = skip
        BY <3>1, <4>1, <4>2, FireOpTyped
      <4>4. QED
        BY <1>19, <2>1, <2>3, <3>1, <3>4, <4>1, <4>3, ExecSame DEF Fire, Effect, Fires, Quiet, Grows
    <3>5. CASE occ[o].run # 0 /\ run[occ[o].run].status = "absent"
      <4> DEFINE skip == occ[o].outcome = "skip"
      <4>1. op' = FireOp(occ[o].run, o, skip) /\ UNCHANGED <<occ, nextId>>
        BY <3>2, <3>5 DEF ClaimOccurrence
      <4>2. skip \in BOOLEAN /\ occ[o].run \in Runs /\ (skip <=> occ[o].outcome = "skip")
        BY <3>3, <3>5, JobsAssumption DEF Claims, Runs
      <4> HIDE DEF skip
      <4>3. /\ op'.kind = "fire" /\ op'.pc = "mark" /\ op'.run = 0 /\ op'.occ = o /\ op'.new = occ[o].run
            /\ op'.skip = skip
        BY <3>1, <4>1, <4>2, FireOpTyped
      <4>4. QED
        BY <1>19, <2>1, <2>3, <3>1, <3>5, <4>1, <4>2, <4>3, ExecSame DEF Fire, Effect, Fires, Quiet, Grows
    <3>6. CASE occ[o].run # 0 /\ run[occ[o].run].status # "absent"
      BY <2>2, <3>2, <3>6 DEF ClaimOccurrence
    <3>7. QED
      BY <3>4, <3>5, <3>6
  <2>4. QED
    BY <1>19, <2>2, <2>3 DEF Fire
<1>20. CASE FireBusy
  <2>1. SeenFine
    BY <1>20, SeenReset DEF FireBusy
  <2>2. QED
    BY <1>20, <2>1, ExecSame, RunsSame DEF FireBusy, Effect, Calm, Grows, Released, ApiOn
<1>21. CASE List
  <2>1. tick'.todo = Marked /\ tick'.seen = Listed
    BY <1>21 DEF List, Shape, TypeOK, Ticks
  <2>2. \A r \in Marked : Listed[r] # "missing" /\ (Listed[r] = "ended" => run[r].status \in Terminal)
    <3>1. \A r \in Runs : run[r].status \in Terminal \union Live \union {"absent"}
      BY DEF Shape, TypeOK, RunRecords
    <3>2. QED
      BY <3>1 DEF Listed, Marked, Terminal, Live, Active
  <2>3. SeenFine
    BY <2>1, <2>2 DEF SeenFine
  <2>4. QED
    BY <1>21, <2>3, ExecSame, RunsSame DEF List, Effect, Calm, Grows, Released, ApiOn
<1>22. CASE Dispatch
  <2>1. ExecCalm
    <3>1. [NoExec EXCEPT !.pc = "load"].pc = "load"
      BY DEF NoExec
    <3>2. \A p \in Procs, r \in Runs : exec'[p][r] = exec[p][r] \/ exec'[p][r] = [NoExec EXCEPT !.pc = "load"]
      BY <1>22 DEF Dispatch, Shape, TypeOK
    <3>3. QED
      BY <3>1, <3>2 DEF ExecCalm, Busy
  <2>2. QED
    BY <1>22, <2>1, SeenReset, RunsSame DEF Dispatch, Effect, Calm, Grows, Released, ApiOn
<1>23. CASE DeleteCancel
  <2>1. RunsGoOn /\ \A r \in Marked : run[r].status # "absent" => run'[r].status \in Terminal
    BY <1>23, CancelAllMeans DEF DeleteCancel, Marked
  <2>2. api'.pc = "unmark" /\ \A r \in api'.runs : run'[r].status \in Terminal
    BY <1>23, <2>1 DEF DeleteCancel
  <2>3. QED
    BY <1>13, <1>23, <2>1, <2>2, SeenSame, ExecSame DEF DeleteCancel, Effect, Calm, Grows, ApiOn
<1>24. CASE DeleteUnmark
  <2>1. api'.pc = "destroy"
    BY <1>24 DEF DeleteUnmark, Shape, TypeOK, Requests
  <2>2. QED
    BY <1>24, <2>1, SeenSame, ExecSame DEF DeleteUnmark, Effect, DeleteUnmarks, Quiet, Grows
<1>25. CASE DestroyAll
  <2>1. ApiOn
    BY <1>25 DEF DestroyAll, ApiOn, NoRequest, Shape, TypeOK, Requests
  <2>2. retries' = retries
    BY <1>25, EventKeeps DEF DestroyAll
  <2>3. QED
    BY <1>25, <2>1, <2>2, SeenSame, ExecSame, RunsSame DEF DestroyAll, Effect, Calm, Grows, Released
<1>26. CASE DeleteFinish
  <2>1. api'.pc = "idle"
    BY <1>26 DEF DeleteFinish, NoRequest
  <2>2. QED
    BY <1>26, <2>1, SeenSame, ExecSame DEF DeleteFinish, Effect, DeleteFinishes, Quiet, Grows
<1>27. CASE HideCancel
  <2>1. api'.pc = "destroy"
    BY <1>27 DEF HideCancel
  <2>2. RunsGoOn
    BY <1>27, CancelAllMeans DEF HideCancel
  <2>3. QED
    BY <1>27, <2>1, <2>2, SeenSame, ExecSame DEF HideCancel, Effect, Calm, Grows, ApiOn, Released
<1>28. ASSUME NEW p \in Procs, Crash(p) PROVE Effect
  <2>1. Released
    <3>1. op' = op \/ op' = Dead("tick") \/ op' = Dead(p)
      BY <1>28 DEF Crash
    <3>2. QED
      BY <3>1, DeadTyped DEF Holders, Released
  <2>2. ExecCalm
    <3>1. NoExec.pc = "idle"
      BY DEF NoExec
    <3>2. \A q \in Procs, s \in Runs : exec'[q][s] = NoExec \/ exec'[q][s] = exec[q][s]
      BY <1>28 DEF Crash, Shape, TypeOK
    <3>3. QED
      BY <3>1, <3>2 DEF ExecCalm, Busy
  <2>3. SeenFine
    BY <1>28, SeenSame, SeenReset DEF Crash
  <2>4. QED
    BY <1>28, <2>1, <2>2, <2>3, RunsSame, EventKeeps DEF Crash, Effect, Calm, Grows, ApiOn
<1>29. ASSUME NEW p \in Procs, Handover(p) PROVE Effect
  BY <1>29, SeenSame, ExecSame, RunsSame DEF Handover, Effect, Calm, Grows, ApiOn, Released
<1>30. ASSUME NEW r \in Runs, TickMissing(r) \/ TickPrune(r) \/ TickYoung(r) PROVE Effect
  <2>1. CASE TickYoung(r)
    <3>1. SeenFine
      BY <2>1, SeenDone DEF TickYoung
    <3>2. QED
      BY <2>1, <3>1, ExecSame, RunsSame DEF TickYoung, Effect, Calm, Grows, ApiOn, Released
  <2>2. CASE TickMissing(r)
    <3>1. SeenFine
      <4>1. CASE ~Dangling(r)
        BY <2>2, <4>1, SeenDone DEF TickMissing
      <4>2. CASE Dangling(r)
        <5>1. r \in doubted' /\ r \in tick.todo
          BY <2>2, <4>2 DEF TickMissing, Doubt, Dangling, Entry
        <5>2. Noted(r)
          BY <2>2, <4>2, <5>1, NotedTyped DEF TickMissing
        <5>3. QED
          BY <5>1, <5>2 DEF Noted, SeenFine
      <4>3. QED
        BY <4>1, <4>2
    <3>2. QED
      BY <2>2, <3>1, ExecSame, RunsSame DEF TickMissing, Effect, Calm, Grows, ApiOn, Released
  <2>3. CASE TickPrune(r)
    <3>1. SeenFine /\ r \in doubted
      BY <2>3, SeenDone DEF TickPrune, Entry, DoubtInv
    <3>2. QED
      BY <2>3, <3>1, ExecSame DEF TickPrune, Effect, Forgets, Quiet, Grows
  <2>4. QED
    BY <1>30, <2>1, <2>2, <2>3
<1>31. ASSUME NEW r \in Runs, NEW by \in Holders, marker[r] # 0, op = NoOp, op' = FinalOp(r, by),
              Quiet, UNCHANGED <<job, occ, marker, nextId, api>>, RunsGoOn,
              run'[r].status \in Terminal \/ (r \in tick.todo /\ tick.seen[r] = "ended")
       PROVE  Effect
  <2>1. /\ op'.kind = "final" /\ op'.pc = "audit" /\ op'.run = r /\ op'.new = marker[r] /\ op'.skip = FALSE
    BY <1>31 DEF FinalOp, NoOp
  <2>2. Finalizes(r)
    BY <1>31, <2>1 DEF Finalizes
  <2>3. QED
    BY <2>2 DEF Effect
<1>32. ASSUME NEW r \in Runs, TickFinalize(r) PROVE Effect
  <2>1. SeenFine
    BY <1>32, SeenDone DEF TickFinalize
  <2>2. CASE marker[r] = 0
    BY <1>32, <2>1, <2>2, ExecSame, RunsSame DEF TickFinalize, Finalize, Effect, Calm, Grows, ApiOn, Released
  <2>3. CASE marker[r] # 0
    <3>1. op = NoOp /\ op' = FinalOp(r, "tick") /\ r \in tick.todo /\ tick.seen[r] = "ended"
      BY <1>32, <2>3 DEF TickFinalize, Finalize, Entry
    <3>2. Quiet /\ RunsGoOn
      BY <1>32, <2>1, ExecSame, RunsSame DEF TickFinalize, Quiet, Grows
    <3>3. QED
      BY <1>31, <1>32, <2>3, <3>1, <3>2 DEF TickFinalize, Holders
  <2>4. QED
    BY <2>2, <2>3
<1>33. ASSUME NEW r \in Runs, TickBusy(r) PROVE Effect
  <2>1. SeenFine
    BY <1>33, SeenDone DEF TickBusy
  <2>2. QED
    BY <1>33, <2>1, ExecSame, RunsSame DEF TickBusy, Effect, Calm, Grows, ApiOn, Released
<1>35. ASSUME NEW r \in Runs, TickQueued(r) PROVE Effect
  <2>1. SeenFine
    BY <1>35, SeenDone DEF TickQueued
  <2>2. RunsGoOn
    BY <1>35, RunsSame, TransitionMeans DEF TickQueued
  <2>3. QED
    BY <1>35, <2>1, <2>2, ExecSame DEF TickQueued, Effect, Calm, Grows, ApiOn, Released
<1>36. ASSUME NEW r \in Runs, TickRunning(r) PROVE Effect
  <2>1. SeenFine
    BY <1>36, SeenDone DEF TickRunning
  <2>2. QED
    BY <1>36, <2>1, ExecSame, RunsSame DEF TickRunning, Effect, Calm, Grows, ApiOn, Released
<1>37. ASSUME NEW r \in Runs, TickWatchdog(r) PROVE Effect
  <2>1. SeenFine
    <3>1. \/ tick' = Done(r) \/ tick' = [Done(r) EXCEPT !.held = @ \union {r}] \/ tick' = NoTick
      BY <1>37 DEF TickWatchdog
    <3>2. QED
      BY <3>1, SeenDone, SeenReset
  <2>2. RunsGoOn /\ (Legal(r, "fail") => run'[r].status = "failed")
    BY <1>37, TransitionMeans DEF TickWatchdog, Edge
  <2>3. ExecCalm
    <3>1. exec' = exec \/ exec' = [exec EXCEPT ![leader][r].ext = TRUE]
      BY <1>37 DEF TickWatchdog
    <3>2. ASSUME NEW q \in Procs, NEW s \in Runs PROVE exec'[q][s].pc = exec[q][s].pc
      <4> DEFINE x == [exec[leader][r] EXCEPT !.ext = TRUE]
      <4>1. exec[q] \in [Runs -> Executions] /\ exec[q][s] \in Executions /\ leader \in Procs
            /\ exec[leader] \in [Runs -> Executions]
        BY DEF Shape, TypeOK
      <4>a. exec' = exec \/ exec' = [exec EXCEPT ![leader] = [exec[leader] EXCEPT ![r] = x]]
        BY <3>1, <4>1 DEF Shape, TypeOK
      <4> HIDE DEF x
      <4>b. exec'[q][s] = exec[q][s] \/ (q = leader /\ s = r /\ exec'[q][s] = x)
        BY <4>1, <4>a DEF Shape, TypeOK
      <4>2. exec'[q][s] = exec[q][s] \/ exec'[q][s] = [exec[q][s] EXCEPT !.ext = TRUE]
        BY <4>b DEF x
      <4>3. QED
        BY <4>1, <4>2 DEF Executions
    <3>3. QED
      BY <3>2 DEF ExecCalm, Busy
  <2>4. Grows /\ UNCHANGED <<job, occ, marker, nextId, api>>
    BY <1>37, EventKeeps DEF TickWatchdog, Grows
  <2>5. ASSUME op' = op PROVE Effect
    BY <2>1, <2>2, <2>3, <2>4, <2>5 DEF Effect, Calm, ApiOn, Released
  <2>6. CASE op' # op
    <3>1. Legal(r, "fail") /\ Finalize(r, "watchdog")
      BY <1>37, <2>6 DEF TickWatchdog
    <3>2. marker[r] # 0 /\ op = NoOp /\ op' = FinalOp(r, "watchdog")
      BY <2>6, <3>1 DEF Finalize
    <3>3. run'[r].status \in Terminal
      BY <2>2, <3>1 DEF Terminal
    <3>4. QED
      BY <1>31, <2>1, <2>2, <2>3, <2>4, <3>2, <3>3 DEF Quiet, Holders
  <2>7. QED
    BY <2>5, <2>6
<1>38. ASSUME NEW r \in Runs, LateBoot(r) PROVE Effect
  BY <1>38, SeenSame, ExecSame, RunsSame DEF LateBoot, Effect, Calm, Grows, ApiOn, Released
<1>39. ASSUME NEW r \in Runs, PruneList(r) \/ PruneCheck(r) \/ PruneStale(r) PROVE Effect
  <2>1. CASE PruneList(r) \/ PruneCheck(r)
    BY <2>1, SeenSame, ExecSame, RunsSame DEF PruneList, PruneCheck, Effect, Calm, Grows, ApiOn, Released
  <2>2. CASE PruneStale(r)
    <3>1. r \in doubted
      BY <2>2 DEF PruneStale, DoubtInv
    <3>2. QED
      BY <2>2, <3>1, SeenSame, ExecSame DEF PruneStale, Effect, Forgets, Quiet, Grows
  <2>3. QED
    BY <1>39, <2>1, <2>2
<1>40. ASSUME NEW r \in Runs, Reap(r) PROVE Effect
  BY <1>40, SeenSame, ExecSame, RunsSame DEF Reap, Effect, Calm, Grows, ApiOn, Released
<1>41. ASSUME NEW r \in Runs, Cancel(r) PROVE Effect
  <2>1. RunsGoOn
    BY <1>41, TransitionMeans DEF Cancel
  <2>2. QED
    BY <1>41, <2>1, SeenSame, ExecSame, EventKeeps DEF Cancel, Effect, Calm, Grows, ApiOn, Released
<1>42. ASSUME NEW p \in Procs, NEW r \in Runs, LoadFails(p, r) PROVE Effect
  <2>1. RunsGoOn /\ ExecCalm
    BY <1>42, TransitionMeans, ExecLeaves DEF LoadFails
  <2>2. retries' = retries
    BY <1>42, EventKeeps DEF LoadFails
  <2>3. QED
    BY <1>42, <2>1, <2>2, SeenSame DEF LoadFails, Effect, Calm, Grows, ApiOn, Released
<1>43. ASSUME NEW p \in Procs, NEW r \in Runs, Provision(p, r) PROVE Effect
  <2>1. RunsGoOn /\ (Legal(r, "provision") => run'[r].status = "provisioning")
    BY <1>43, TransitionMeans DEF Provision, Edge
  <2>2. ExecCalm \/ Wins(p, r)
    <3>1. CASE Legal(r, "provision")
      <4>1. run[r].status = "queued"
        BY <3>1 DEF Legal, From
      <4>2. \A q \in Procs, s \in Runs : q # p \/ s # r => exec'[q][s] = exec[q][s]
        BY <1>43, <3>1, GotoTyped DEF Provision
      <4>3. QED
        BY <2>1, <3>1, <4>1, <4>2 DEF Wins, Busy
    <3>2. CASE ~Legal(r, "provision")
      BY <1>43, <3>2, ExecLeaves DEF Provision
    <3>3. QED
      BY <3>1, <3>2
  <2>3. QED
    BY <1>43, <2>1, <2>2, SeenSame DEF Provision, Effect, Calm, Grows, ApiOn, Released
<1>44. ASSUME NEW p \in Procs, NEW r \in Runs, Prepared(p, r) PROVE Effect
  <2>1. RunsGoOn
    BY <1>44, TransitionMeans DEF Prepared
  <2>2. ExecCalm
    <3>1. exec[p][r].pc = "prepare"
      BY <1>44 DEF Prepared, At
    <3>2. \A q \in Procs, s \in Runs : q # p \/ s # r => exec'[q][s] = exec[q][s]
      BY <1>44, GotoTyped DEF Prepared
    <3>3. QED
      BY <3>1, <3>2 DEF ExecCalm, Busy
  <2>3. QED
    BY <1>44, <2>1, <2>2, SeenSame DEF Prepared, Effect, Calm, Grows, ApiOn, Released
<1>45. ASSUME NEW p \in Procs, NEW r \in Runs, PrepareFails(p, r) PROVE Effect
  <2>1. RunsGoOn /\ ExecCalm
    BY <1>45, TransitionMeans, ExecLeaves DEF PrepareFails
  <2>2. QED
    BY <1>45, <2>1, SeenSame, EventKeeps DEF PrepareFails, Effect, Calm, Grows, ApiOn, Released
<1>46. ASSUME NEW p \in Procs, NEW r \in Runs, Export(p, r) PROVE Effect
  <2>1. RunsGoOn /\ ExecCalm
    BY <1>46, TransitionMeans, ExecLeaves DEF Export
  <2>2. QED
    BY <1>46, <2>1, SeenSame DEF Export, Effect, Calm, Grows, ApiOn, Released
<1>47. ASSUME NEW p \in Procs, NEW r \in Runs, Destroy(p, r) PROVE Effect
  <2>1. ExecCalm /\ retries' = retries
    BY <1>47, ExecLeaves, EventKeeps DEF Destroy
  <2>2. QED
    BY <1>47, <2>1, SeenSame, RunsSame DEF Destroy, Effect, Calm, Grows, ApiOn, Released
<1>49. ASSUME NEW p \in Procs, NEW r \in Runs, Finish(p, r) PROVE Effect
  <2>1. ExecCalm /\ SeenFine /\ RunsGoOn /\ Grows
    BY <1>49, ExecIdle, SeenSame, RunsSame DEF Finish, Grows
  <2>2. ASSUME op' = op PROVE Effect
    BY <1>49, <2>1, <2>2 DEF Finish, Effect, Calm, ApiOn, Released
  <2>3. CASE op' # op
    <3>1. run[r].status \in Terminal /\ Finalize(r, p) /\ run' = run
      BY <1>49, <2>3 DEF Finish
    <3>2. marker[r] # 0 /\ op = NoOp /\ op' = FinalOp(r, p)
      BY <2>3, <3>1 DEF Finalize
    <3>3. QED
      BY <1>31, <1>49, <2>1, <3>1, <3>2 DEF Quiet, Holders, Finish
  <2>4. QED
    BY <2>2, <2>3
<1>50. ASSUME NEW p \in Procs, NEW r \in Runs, FinishBusy(p, r) PROVE Effect
  BY <1>50, ExecIdle, SeenSame, RunsSame DEF FinishBusy, Effect, Calm, Grows, ApiOn, Released
<1>51. QED
  BY NextCases, <1>2, <1>3, <1>4, <1>5, <1>6, <1>8, <1>9, <1>10, <1>11, <1>12, <1>14, <1>15,
     <1>16, <1>17, <1>18, <1>19, <1>20, <1>21, <1>22, <1>23, <1>24, <1>25, <1>26, <1>27, <1>28, <1>29, <1>30, <1>32,
     <1>33, <1>35, <1>36, <1>37, <1>38, <1>39, <1>40, <1>41, <1>42, <1>43, <1>44, <1>45, <1>46, <1>47, <1>49, <1>50

-----------------------------------------------------------------------------
(* What the runs rely on. *)

\* Ids are given out once: to claims, to requests, and to markers for the retry that may follow.
IdsInv ==
    /\ \A r \in Runs : r >= nextId => run[r].status = "absent" /\ marker[r] = 0
    /\ \A r \in Runs : marker[r] < nextId
    /\ \A o \in Occurrences : occ[o].run < nextId
    /\ op.new < nextId
    /\ \A r, q \in Runs : marker[r] # 0 /\ marker[r] = marker[q] => r = q
    /\ \A r \in Runs, o \in Occurrences : marker[r] # 0 => marker[r] # occ[o].run
    /\ op.kind \in {"fire", "trigger"} /\ op.pc \in {"mark", "record"} =>
         \A r \in Runs : marker[r] # op.new

\* Nothing is enqueued once the job is being deleted.
DeleteInv ==
    /\ job \in {"deleting", "gone"} => op.pc \notin Enqueues
    /\ op.pc = "cancel" => job = "deleting" /\ api.pc = "idle"
    /\ api.pc \in {"unmark", "finish"} => job = "deleting"
    /\ api.pc = "drain" => job = "hidden"

\* A run that has ended, or whose record was deleted with the job.
Over(r) == run[r].status \in Terminal \/ (run[r].status = "absent" /\ job = "gone")
OverInv ==
    /\ op.kind = "final" /\ op.pc # "dead" => Over(op.run)
    /\ \A r \in tick.todo : tick.seen[r] = "ended" => Over(r)
    /\ api.pc = "unmark" => \A r \in api.runs : Over(r)

\* What an operation finds when it writes a run.
EnqueueInv ==
    /\ op.kind \in {"fire", "trigger"} /\ op.pc \in {"mark", "record"} => run[op.new].status = "absent"
    /\ op.pc = "record" => marker[op.new] # 0 \/ op.new \in doubted
    /\ op.kind = "fire" /\ op.pc \in {"mark", "record"} =>
         occ[op.occ].run = op.new /\ (op.skip <=> occ[op.occ].outcome = "skip")
    /\ op.kind = "final" /\ op.pc \in Enqueues =>
         ~op.skip /\ run[op.run].status = "failed" /\ run[op.run].attempt <= retries
    /\ op.kind = "final" /\ op.skip /\ op.pc # "dead" => run[op.run].status \in {"skipped", "absent"}

\* The first attempt of an occurrence is the run that its claim names.
FirstInv ==
    /\ \A r \in Runs : run[r].status = "absent" => run[r] = NoRun
    /\ \A r \in Runs : run[r].status # "absent" => run[r].attempt >= 1
    /\ \A r \in Runs, o \in Occurrences : run[r].occ = o /\ run[r].attempt = 1 =>
         occ[o].run = r /\ (occ[o].outcome = "skip" => run[r].status = "skipped")

\* The update to provisioning is won once.
ExecInv ==
    /\ \A p \in Procs, r \in Runs : Busy(p, r) =>
         run[r].status # "queued" /\ (job # "gone" => run[r].status # "absent")
    /\ \A p, q \in Procs, r \in Runs : Busy(p, r) /\ Busy(q, r) => p = q

\* What is owed to a run that has ended, and how far the operation on it has come.
Retry(r) == run[r].status = "failed" /\ run[r].attempt <= retries
Settled(r) == r \in audited /\ IF Retry(r) THEN \E c \in Runs : run[c].of = r ELSE r \in notified
FinalInv ==
    /\ op.kind = "final" /\ op.pc \in Enqueues \union {"notify", "unmark"} => op.run \in audited
    /\ op.kind = "final" /\ op.pc \in Enqueues => marker[op.run] = op.new \/ op.run \in doubted
    /\ op.pc = "audit" /\ ~op.skip /\ job = "live" => marker[op.run] = op.new \/ op.run \in doubted
    /\ op.kind = "final" /\ op.pc = "check" => run[op.new].of = op.run \/ op.run \in doubted
    /\ op.pc = "notify" /\ job = "live" => ~Retry(op.run)
    /\ op.pc = "unmark" /\ job = "live" /\ run[op.run].status \in {"failed", "succeeded"} =>
         Settled(op.run) \/ op.run \in doubted
OwnInv == op.kind = "final" /\ ~op.skip /\ op.pc \in Enqueues \union {"audit"} =>
              \A q \in Runs : marker[q] = op.new => q = op.run
LinkInv == \A r, c \in Runs : marker[r] = c /\ run[c].status # "absent" => run[c].of = r
EndedInv ==
    job = "live" =>
      \A r \in Runs \ doubted : run[r].status \in {"failed", "succeeded"} /\ marker[r] = 0 => Settled(r)

RunsInv == /\ DoubtInv /\ OwnInv /\ IdsInv /\ DeleteInv /\ OverInv /\ EnqueueInv /\ FirstInv /\ LiveRunsMarked /\ ExecInv
           /\ FinalInv /\ LinkInv /\ EndedInv

LEMMA Numbers ==
    ASSUME Shape
    PROVE  /\ nextId \in Nat /\ nextId > 0 /\ op.new \in Nat /\ op.run \in Nat /\ retries \in Nat
           /\ run \in [Runs -> RunRecords] /\ occ \in [Occurrences -> Claims]
           /\ Runs \subseteq Nat /\ 0 \notin Runs /\ Occurrences \subseteq Nat /\ 0 \notin Occurrences
           /\ marker \in [Runs -> Nat] /\ \A o \in Occurrences : occ[o].run \in Nat
<1>1. nextId \in Nat /\ nextId > 0 /\ retries \in Nat /\ op \in Operations /\ run \in [Runs -> RunRecords]
      /\ occ \in [Occurrences -> Claims]
  BY JobsAssumption DEF Shape, TypeOK
<1>2. Runs \subseteq Nat /\ 0 \notin Runs /\ Occurrences \subseteq Nat /\ 0 \notin Occurrences /\ 0..MaxRuns \subseteq Nat
  BY JobsAssumption DEF Runs, Occurrences
<1>3. op.new \in Nat /\ op.run \in Nat
  BY <1>1, <1>2 DEF Operations
<1>4. marker \in [Runs -> Nat]
  BY <1>2 DEF Shape, TypeOK
<1>5. \A o \in Occurrences : occ[o].run \in Nat
  BY <1>1, <1>2 DEF Claims
<1>6. QED
  BY <1>1, <1>2, <1>3, <1>4, <1>5

\* The kinds of status exclude each other.
LEMMA Statuses ==
    /\ "absent" \notin Live \union Terminal /\ Live \intersect Terminal = {} /\ Active \subseteq Live
    /\ "queued" \notin Active \union Terminal /\ "skipped" \in Terminal /\ "failed" \in Terminal
  BY DEF Live, Active, Terminal

\* The record that an operation writes.
LEMMA NewRunMeans ==
    ASSUME Shape, RunsInv, op.pc = "record"
    PROVE  /\ op.new \in Runs
           /\ NewRun.status = IF op.skip THEN "skipped" ELSE "queued"
           /\ NewRun.of = op.run /\ NewRun.occ = op.occ
           /\ NewRun.attempt >= 1 /\ NewRun.attempt \in Nat
           /\ op.kind = "final" => NewRun.attempt # 1
<1>1. op.new \in Runs /\ op.kind \in {"fire", "trigger", "final"} /\ (op.kind = "final" => op.run \in Runs)
  BY DEF Shape, WellFormed, Enqueues
<1>2. op.kind = "final" => run[op.run].attempt \in Nat /\ run[op.run].attempt >= 1
  BY <1>1 DEF RunsInv, EnqueueInv, FirstInv, Enqueues, Shape, TypeOK, RunRecords
<1>3. /\ NewRun.status = (IF op.skip THEN "skipped" ELSE "queued") /\ NewRun.of = op.run /\ NewRun.occ = op.occ
      /\ NewRun.attempt = IF op.kind = "final" THEN run[op.run].attempt + 1 ELSE 1
  BY DEF NewRun
<1>4. NewRun.attempt >= 1 /\ NewRun.attempt \in Nat /\ (op.kind = "final" => NewRun.attempt # 1)
  BY <1>2, <1>3
<1>5. QED
  BY <1>1, <1>3, <1>4

\* A run that is over stays as it is, and one that has no record gets none from its execution.
LEMMA OverStays ==
    ASSUME RunsGoOn, NEW r \in Runs, run[r].status \notin Live
    PROVE  run'[r] = run[r]
  BY DEF RunsGoOn, GoesOn

LEMMA StatusOf == ASSUME Shape, NEW r \in Runs PROVE run[r].status \in Terminal \union Live \union {"absent"}
  BY DEF Shape, TypeOK, RunRecords

\* What every step leaves or adds to.
LEMMA EffectGrows == ASSUME Effect PROVE Grows /\ SeenFine
<1>1. CASE Calm
  BY <1>1 DEF Calm
<1>2. CASE ~Calm
  BY <1>2 DEF Effect, Fires, MarkerPut, RecordPut, Checked, Audited, Notified, Unmarked, Forgets, Finalizes, Triggers,
     DeleteBegins, DeleteUnmarks, DeleteFinishes, Hides, Quiet
<1>3. QED
  BY <1>1, <1>2

LEMMA DoubtKept ==
    ASSUME Shape, Shape', RunsInv, Effect PROVE DoubtInv'
  BY EffectGrows DEF Grows, Doubts, SeenFine, RunsInv, DoubtInv

\* Deleting the job and enqueueing a run exclude each other.
LEMMA DeleteKept ==
    ASSUME Shape, Shape', RunsInv, Effect PROVE DeleteInv'
<1>1. CASE Calm
  BY <1>1 DEF Calm, RunsInv, DeleteInv, Enqueues, ApiOn, Released, NoOp
<1>2. CASE Fires
  BY <1>2 DEF Fires, RunsInv, DeleteInv, Enqueues, OpTo, NoOp
<1>3. CASE MarkerPut
  BY <1>3 DEF MarkerPut, RunsInv, DeleteInv, Enqueues, OpTo, NoOp
<1>4. CASE RecordPut
  BY <1>4 DEF RecordPut, RunsInv, DeleteInv, Enqueues, OpTo, NoOp
<1>5. CASE Checked
  BY <1>5 DEF Checked, RunsInv, DeleteInv, Enqueues, OpTo, NoOp
<1>6. CASE Audited
  <2>1. AfterAudit(op.run) \in {"unmark", "notify", "mark"} /\ (job \in {"deleting", "gone"} => AfterAudit(op.run) # "mark")
    BY DEF AfterAudit, Loadable
  <2>2. QED
    BY <1>6, <2>1 DEF Audited, RunsInv, DeleteInv, Enqueues, OpTo
<1>7. CASE Notified
  BY <1>7 DEF Notified, RunsInv, DeleteInv, Enqueues, OpTo, NoOp
<1>8. CASE Unmarked
  BY <1>8 DEF Unmarked, RunsInv, DeleteInv, Enqueues, OpTo, NoOp
<1>9. ASSUME NEW r \in Runs, Forgets(r) PROVE DeleteInv'
  BY <1>9 DEF Forgets, RunsInv, DeleteInv, Enqueues, OpTo, NoOp
<1>10. ASSUME NEW r \in Runs, Finalizes(r) PROVE DeleteInv'
  BY <1>10 DEF Finalizes, RunsInv, DeleteInv, Enqueues, OpTo, NoOp
<1>11. CASE Triggers
  BY <1>11 DEF Triggers, RunsInv, DeleteInv, Enqueues, OpTo, NoOp
<1>12. CASE DeleteBegins
  BY <1>12 DEF DeleteBegins, RunsInv, DeleteInv, Enqueues, OpTo, NoOp
<1>13. CASE DeleteUnmarks
  BY <1>13 DEF DeleteUnmarks, RunsInv, DeleteInv, Enqueues, OpTo, NoOp
<1>14. CASE DeleteFinishes
  BY <1>14 DEF DeleteFinishes, RunsInv, DeleteInv, Enqueues, OpTo, NoOp
<1>15. CASE Hides
  BY <1>15 DEF Hides, RunsInv, DeleteInv, Enqueues, Shape, WellFormed
<1>16. QED
  BY <1>1, <1>2, <1>3, <1>4, <1>5, <1>6, <1>7, <1>8, <1>9, <1>10, <1>11, <1>12, <1>13, <1>14, <1>15 DEF Effect

\* No id is given out twice.
LEMMA IdsKept ==
    ASSUME Shape, Shape', RunsInv, Effect PROVE IdsInv'
<1>1. CASE Calm
  <2>1. \A r \in Runs : run[r].status = "absent" => run'[r] = run[r]
    BY <1>1, OverStays, Statuses DEF Calm
  <2>2. op' = op \/ (op'.new = 0 /\ op'.pc \in {"free", "dead"})
    BY <1>1 DEF Calm, Released
  <2>3. UNCHANGED <<marker, occ, nextId>>
    BY <1>1 DEF Calm
  <2>4. QED
    BY <2>1, <2>2, <2>3, Numbers DEF RunsInv, IdsInv
<1>2. CASE Fires
  <2>1. UNCHANGED <<run, marker>> /\ op'.kind = "fire" /\ op'.pc = "mark" /\ op'.occ \in Occurrences
    BY <1>2 DEF Fires
  <2>2. CASE /\ nextId \in Runs /\ nextId' = nextId + 1 /\ op'.new = nextId /\ occ[op'.occ].run = 0
             /\ occ' = [occ EXCEPT ![op'.occ] = [run |-> nextId, outcome |-> IF op'.skip THEN "skip" ELSE "run"]]
    <3>1. \A o \in Occurrences : occ'[o].run = nextId \/ occ'[o].run = occ[o].run
      BY <2>2, Numbers
    <3>2. QED
      BY <2>1, <2>2, <3>1, Numbers DEF RunsInv, IdsInv
  <2>3. CASE UNCHANGED <<occ, nextId>> /\ op'.new = occ[op'.occ].run /\ run[op'.new].status = "absent"
    <3>1. op'.new \in Runs
      BY <2>1 DEF Shape, WellFormed, Enqueues
    <3>2. QED
      BY <2>1, <2>3, <3>1, Numbers DEF RunsInv, IdsInv
  <2>4. QED
    BY <1>2, <2>2, <2>3 DEF Fires
<1>3. CASE MarkerPut
  BY <1>3, Numbers DEF MarkerPut, RunsInv, IdsInv, OpTo, NoOp
<1>4. CASE RecordPut
  BY <1>4, Numbers DEF RecordPut, RunsInv, IdsInv, OpTo, NoOp
<1>5. CASE Checked
  BY <1>5, Numbers, Statuses DEF Checked, RunsInv, IdsInv, RunsGoOn, GoesOn, OpTo, NoOp
<1>6. CASE Audited
  <2>1. op.kind = "final"
    BY <1>6 DEF Audited, Shape, WellFormed, Settles
  <2>2. QED
    BY <1>6, <2>1, Numbers DEF Audited, RunsInv, IdsInv, OpTo
<1>7. CASE Notified
  BY <1>7, Numbers DEF Notified, RunsInv, IdsInv, OpTo, NoOp
<1>8. CASE Unmarked
  BY <1>8, Numbers DEF Unmarked, RunsInv, IdsInv, OpTo, NoOp
<1>9. ASSUME NEW r \in Runs, Forgets(r) PROVE IdsInv'
  <2>1. UNCHANGED <<occ, run, nextId, op>> /\ \A q \in Runs : marker'[q] = 0 \/ marker'[q] = marker[q]
    BY <1>9, Numbers DEF Forgets
  <2>2. op.kind \in {"fire", "trigger"} /\ op.pc \in {"mark", "record"} => op.new # 0
    BY Numbers DEF Shape, WellFormed, Enqueues
  <2>3. QED
    BY <2>1, <2>2, Numbers DEF RunsInv, IdsInv
<1>10. ASSUME NEW r \in Runs, Finalizes(r) PROVE IdsInv'
  BY <1>10, Numbers, Statuses DEF Finalizes, RunsInv, IdsInv, RunsGoOn, GoesOn, OpTo, NoOp
<1>11. CASE Triggers
  BY <1>11, Numbers DEF Triggers, RunsInv, IdsInv, OpTo, NoOp
<1>12. CASE DeleteBegins
  BY <1>12, Numbers DEF DeleteBegins, RunsInv, IdsInv, OpTo, NoOp
<1>13. CASE DeleteUnmarks
  <2>1. UNCHANGED <<occ, run, nextId, op>> /\ \A q \in Runs : marker'[q] = 0 \/ marker'[q] = marker[q]
    BY <1>13, Numbers DEF DeleteUnmarks
  <2>2. op.kind \in {"fire", "trigger"} /\ op.pc \in {"mark", "record"} => op.new # 0
    BY Numbers DEF Shape, WellFormed, Enqueues
  <2>3. QED
    BY <2>1, <2>2, Numbers DEF RunsInv, IdsInv
<1>14. CASE DeleteFinishes
  <2>1. UNCHANGED <<marker, nextId, op>> /\ (\A q \in Runs : run'[q].status = "absent") /\ \A o \in Occurrences : occ'[o].run = 0
    BY <1>14 DEF DeleteFinishes, NoRun, NoClaim
  <2>2. QED
    BY <2>1, Numbers DEF RunsInv, IdsInv
<1>15. CASE Hides
  BY <1>15, Numbers DEF Hides, RunsInv, IdsInv, OpTo, NoOp
<1>16. QED
  BY <1>1, <1>2, <1>3, <1>4, <1>5, <1>6, <1>7, <1>8, <1>9, <1>10, <1>11, <1>12, <1>13, <1>14, <1>15 DEF Effect

\* What a finalizer, a tick or a deletion takes for ended has ended.
LEMMA OverKept ==
    ASSUME Shape, Shape', RunsInv, Effect PROVE OverInv'
<1>1. CASE Calm
  <2>1. ASSUME NEW r \in Runs, Over(r) PROVE Over(r)'
    BY <1>1, <2>1, OverStays, Statuses DEF Calm, Over
  <2>2. op'.kind = "final" /\ op'.pc # "dead" => op' = op /\ op.run \in Runs
    BY <1>1 DEF Calm, Released, Shape, WellFormed, Enqueues, Settles
  <2>3. ASSUME NEW r \in tick'.todo, tick'.seen[r] = "ended" PROVE Over(r)'
    <3>1. r \in Runs
      BY DEF Shape, TypeOK, Ticks
    <3>2. Over(r)
      BY <1>1, <2>3 DEF Calm, SeenFine, RunsInv, OverInv, Over
    <3>3. QED
      BY <2>1, <3>1, <3>2
  <2>4. ASSUME api'.pc = "unmark", NEW r \in api'.runs PROVE Over(r)'
    <3>1. r \in Runs
      BY DEF Shape, TypeOK, Requests
    <3>2. CASE api' = api
      BY <2>1, <2>4, <3>1, <3>2 DEF RunsInv, OverInv
    <3>3. CASE run'[r].status \in Terminal
      BY <3>3 DEF Over
    <3>4. QED
      BY <1>1, <2>4, <3>2, <3>3 DEF Calm, ApiOn
  <2>5. QED
    BY <2>1, <2>2, <2>3, <2>4 DEF RunsInv, OverInv
<1>2. CASE Fires
  BY <1>2, Statuses DEF Fires, RunsInv, OverInv, Over, Quiet, SeenFine, OpTo, NoOp
<1>3. CASE MarkerPut
  BY <1>3, Statuses DEF MarkerPut, RunsInv, OverInv, Over, Quiet, SeenFine, OpTo, NoOp
<1>4. CASE RecordPut
  <2>1. op.new \in Runs /\ NewRun.status = IF op.skip THEN "skipped" ELSE "queued"
    BY <1>4, NewRunMeans DEF RecordPut
  <2>2. job # "gone"
    BY <1>4 DEF RecordPut, RunsInv, DeleteInv, Enqueues
  <2>3. ASSUME NEW r \in Runs, Over(r) PROVE Over(r)'
    BY <1>4, <2>1, <2>2, <2>3, Statuses, Numbers DEF RecordPut, Over
  <2>4. op'.kind = "final" /\ op'.pc # "dead" => Over(op.run)'
    <3>1. CASE op.kind # "trigger" /\ op.skip /\ op'.run = op.new
      <4>1. run[op.new].status = "absent"
        BY <1>4, <3>1 DEF RecordPut, RunsInv, EnqueueInv, Shape, WellFormed, Enqueues
      <4>2. run'[op.new] = NewRun
        BY <1>4, <2>1, <4>1, Numbers DEF RecordPut
      <4>3. QED
        BY <2>1, <3>1, <4>2, Statuses DEF Over
    <3>2. CASE OpTo("check")
      <4>1. op.kind = "final" => op.run \in Runs /\ Over(op.run)
        BY <1>4 DEF RecordPut, RunsInv, OverInv, Shape, WellFormed
      <4>2. QED
        BY <2>3, <3>2, <4>1 DEF OpTo, Over
    <3>3. QED
      BY <1>4, <3>1, <3>2 DEF RecordPut, NoOp
  <2>5. ASSUME NEW r \in tick'.todo, tick'.seen[r] = "ended" PROVE Over(r)'
    <3>1. r \in Runs
      BY DEF Shape, TypeOK, Ticks
    <3>2. Over(r)
      BY <1>4, <2>5 DEF RecordPut, Quiet, SeenFine, RunsInv, OverInv, Over
    <3>3. QED
      BY <2>3, <3>1, <3>2
  <2>6. api'.pc # "unmark"
    BY <1>4 DEF RecordPut, RunsInv, DeleteInv, Enqueues
  <2>7. QED
    BY <2>4, <2>5, <2>6 DEF OverInv
<1>5. CASE Checked
  <2>1. ASSUME NEW r \in Runs, Over(r) PROVE Over(r)'
    BY <1>5, <2>1, OverStays, Statuses DEF Checked, Over
  <2>2. op'.kind = "final" => OpTo("unmark") /\ op.kind = "final" /\ op.run \in Runs
    BY <1>5 DEF Checked, OpTo, NoOp, Shape, WellFormed, Enqueues
  <2>3. QED
    BY <1>5, <2>1, <2>2 DEF Checked, OpTo, RunsInv, OverInv, Quiet, SeenFine, Shape, TypeOK, Ticks, Requests, Over
<1>6. CASE Audited
  BY <1>6, Statuses DEF Audited, RunsInv, OverInv, Over, Quiet, SeenFine, OpTo, NoOp
<1>7. CASE Notified
  BY <1>7, Statuses DEF Notified, RunsInv, OverInv, Over, Quiet, SeenFine, OpTo, NoOp
<1>8. CASE Unmarked
  BY <1>8, Statuses DEF Unmarked, RunsInv, OverInv, Over, Quiet, SeenFine, OpTo, NoOp
<1>9. ASSUME NEW r \in Runs, Forgets(r) PROVE OverInv'
  BY <1>9, Statuses DEF Forgets, RunsInv, OverInv, Over, Quiet, SeenFine, OpTo, NoOp
<1>10. ASSUME NEW r \in Runs, Finalizes(r) PROVE OverInv'
  <2>1. ASSUME NEW q \in Runs, Over(q) PROVE Over(q)'
    BY <1>10, <2>1, OverStays, Statuses DEF Finalizes, Over
  <2>2. Over(r)'
    BY <1>10, <2>1 DEF Finalizes, RunsInv, OverInv, Over
  <2>3. QED
    BY <1>10, <2>1, <2>2 DEF Finalizes, RunsInv, OverInv, Quiet, SeenFine, Shape, TypeOK, Ticks, Requests, Over
<1>11. CASE Triggers
  BY <1>11, Statuses DEF Triggers, RunsInv, OverInv, Over, Quiet, SeenFine, OpTo, NoOp
<1>12. CASE DeleteBegins
  <2>1. \A r : Over(r) => Over(r)'
    BY <1>12 DEF DeleteBegins, Over, Loadable
  <2>2. QED
    BY <1>12, <2>1 DEF DeleteBegins, RunsInv, OverInv, Quiet, SeenFine, Over
<1>13. CASE DeleteUnmarks
  BY <1>13, Statuses DEF DeleteUnmarks, RunsInv, OverInv, Over, Quiet, SeenFine, OpTo, NoOp
<1>14. CASE DeleteFinishes
  <2>1. \A r \in Runs : Over(r)'
    BY <1>14 DEF DeleteFinishes, Over, NoRun
  <2>2. QED
    BY <1>14, <2>1 DEF DeleteFinishes, OverInv, Shape, TypeOK, WellFormed, Ticks
<1>15. CASE Hides
  BY <1>15, Statuses DEF Hides, RunsInv, OverInv, Over, Quiet, SeenFine, OpTo, NoOp
<1>16. QED
  BY <1>1, <1>2, <1>3, <1>4, <1>5, <1>6, <1>7, <1>8, <1>9, <1>10, <1>11, <1>12, <1>13, <1>14, <1>15 DEF Effect

\* A marker is removed only when its run is over.
LEMMA LiveKept ==
    ASSUME Shape, Shape', RunsInv, Effect PROVE LiveRunsMarked'
<1>0. doubted \subseteq doubted'
  BY EffectGrows DEF Grows, Doubts
<1> USE <1>0
<1>1. CASE Calm
  BY <1>1, Statuses, Numbers DEF Calm, RunsInv, LiveRunsMarked, RunsGoOn, GoesOn
<1>2. CASE Fires
  BY <1>2, Statuses, Numbers DEF Fires, RunsInv, LiveRunsMarked
<1>3. CASE MarkerPut
  BY <1>3, Statuses, Numbers DEF MarkerPut, RunsInv, LiveRunsMarked
<1>4. CASE RecordPut
  BY <1>4, Statuses, Numbers DEF RecordPut, RunsInv, LiveRunsMarked, EnqueueInv
<1>5. CASE Checked
  BY <1>5, Statuses, Numbers DEF Checked, RunsInv, LiveRunsMarked, RunsGoOn, GoesOn
<1>6. CASE Audited
  BY <1>6, Statuses, Numbers DEF Audited, RunsInv, LiveRunsMarked
<1>7. CASE Notified
  BY <1>7, Statuses, Numbers DEF Notified, RunsInv, LiveRunsMarked
<1>8. CASE Unmarked
  <2>1. op.run \in Runs /\ run[op.run].status \notin Live
    BY <1>8, Statuses DEF Unmarked, RunsInv, OverInv, Over, Shape, WellFormed, Settles
  <2>2. QED
    BY <1>8, <2>1, Numbers DEF Unmarked, RunsInv, LiveRunsMarked
<1>9. ASSUME NEW r \in Runs, Forgets(r) PROVE LiveRunsMarked'
  BY <1>9, Statuses, Numbers DEF Forgets, RunsInv, LiveRunsMarked
<1>10. ASSUME NEW r \in Runs, Finalizes(r) PROVE LiveRunsMarked'
  BY <1>10, Statuses, Numbers DEF Finalizes, RunsInv, LiveRunsMarked, RunsGoOn, GoesOn
<1>11. CASE Triggers
  BY <1>11, Statuses, Numbers DEF Triggers, RunsInv, LiveRunsMarked
<1>12. CASE DeleteBegins
  BY <1>12, Statuses, Numbers DEF DeleteBegins, RunsInv, LiveRunsMarked
<1>13. CASE DeleteUnmarks
  <2>1. \A r \in api.runs : run[r].status \notin Live
    BY <1>13, Statuses DEF DeleteUnmarks, RunsInv, OverInv, Over
  <2>2. QED
    BY <1>13, <2>1, Numbers DEF DeleteUnmarks, RunsInv, LiveRunsMarked
<1>14. CASE DeleteFinishes
  BY <1>14, Statuses DEF DeleteFinishes, LiveRunsMarked, NoRun
<1>15. CASE Hides
  BY <1>15, Statuses, Numbers DEF Hides, RunsInv, LiveRunsMarked
<1>16. QED
  BY <1>1, <1>2, <1>3, <1>4, <1>5, <1>6, <1>7, <1>8, <1>9, <1>10, <1>11, <1>12, <1>13, <1>14, <1>15 DEF Effect

\* An operation writes the run that its claim, its request or its marker names, and only where no record is.
LEMMA EnqueueKept ==
    ASSUME Shape, Shape', RunsInv, Effect PROVE EnqueueInv'
<1>0. doubted \subseteq doubted'
  BY EffectGrows DEF Grows, Doubts
<1> USE <1>0
<1>1. CASE Calm
  BY <1>1, Statuses, Numbers DEF Calm, RunsInv, EnqueueInv, OverInv, Over, RunsGoOn, GoesOn, Released, Grows, Enqueues, Shape, WellFormed, Settles
<1>2. CASE Fires
  <2>1. /\ op'.kind = "fire" /\ op'.pc = "mark" /\ op'.occ \in Occurrences /\ run' = run
    BY <1>2 DEF Fires
  <2>2. /\ run[op'.new].status = "absent" /\ occ'[op'.occ].run = op'.new
        /\ (op'.skip <=> occ'[op'.occ].outcome = "skip")
    <3>1. CASE /\ nextId \in Runs /\ op'.new = nextId
               /\ occ' = [occ EXCEPT ![op'.occ] = [run |-> nextId, outcome |-> IF op'.skip THEN "skip" ELSE "run"]]
      <4>1. occ'[op'.occ] = [run |-> nextId, outcome |-> IF op'.skip THEN "skip" ELSE "run"]
        BY <2>1, <3>1, Numbers
      <4>2. run[nextId].status = "absent"
        BY <3>1, Numbers DEF RunsInv, IdsInv
      <4>3. QED
        BY <3>1, <4>1, <4>2
    <3>2. CASE /\ UNCHANGED <<occ, nextId>>
               /\ op'.new = occ[op'.occ].run /\ (op'.skip <=> occ[op'.occ].outcome = "skip")
               /\ run[op'.new].status = "absent"
      BY <3>2
    <3>3. QED
      BY <1>2, <3>1, <3>2 DEF Fires
  <2>3. QED
    BY <2>1, <2>2 DEF EnqueueInv
<1>3. CASE MarkerPut
  <2>1. op.new \in Runs
    BY <1>3 DEF MarkerPut, Shape, WellFormed, Enqueues
  <2>2. marker'[op.new] # 0
    BY <1>3, <2>1, Numbers DEF MarkerPut
  <2>3. QED
    BY <1>3, <2>2 DEF MarkerPut, RunsInv, EnqueueInv, OpTo, Grows, Quiet, Enqueues
<1>4. CASE RecordPut
  <2>1. op.new \in Runs /\ NewRun.status = IF op.skip THEN "skipped" ELSE "queued"
    BY <1>4, NewRunMeans DEF RecordPut
  <2>2. CASE op' = NoOp
    BY <2>2 DEF EnqueueInv, NoOp
  <2>3. CASE op.kind # "trigger" /\ op.skip /\ op'.kind = "final" /\ op'.pc = "audit" /\ op'.run = op.new
    <3>1. run[op.new].status = "absent"
      BY <1>4, <2>3 DEF RecordPut, RunsInv, EnqueueInv, Shape, WellFormed, Enqueues
    <3>2. run'[op.new] = NewRun
      BY <1>4, <2>1, <3>1, Numbers DEF RecordPut
    <3>3. QED
      BY <2>1, <2>3, <3>2 DEF EnqueueInv, Enqueues
  <2>4. CASE OpTo("check")
    <3>1. op.kind = "final" => ~op.skip /\ run[op.run].status = "failed" /\ run[op.run].attempt <= retries /\ op.run \in Runs
      BY <1>4 DEF RecordPut, RunsInv, EnqueueInv, Enqueues, Shape, WellFormed
    <3>2. op.kind = "final" => run'[op.run] = run[op.run]
      BY <1>4, <2>1, <3>1, Numbers DEF RecordPut
    <3>3. QED
      BY <1>4, <2>4, <3>1, <3>2 DEF RecordPut, OpTo, EnqueueInv, Quiet, Grows
  <2>5. QED
    BY <1>4, <2>2, <2>3, <2>4 DEF RecordPut
<1>5. CASE Checked
  BY <1>5, Statuses, Numbers DEF Checked, RunsInv, EnqueueInv, OpTo, NoOp, Grows, Quiet, Enqueues
<1>6. CASE Audited
  <2>1. op.kind = "final" /\ op.run \in Runs
    BY <1>6 DEF Audited, Shape, WellFormed, Settles
  <2>2. op.skip => run[op.run].status \in {"skipped", "absent"}
    BY <1>6, <2>1 DEF Audited, RunsInv, EnqueueInv
  <2>3. op'.pc \in {"unmark", "notify", "mark"}
        /\ (op'.pc = "mark" => run[op.run].status = "failed" /\ run[op.run].attempt <= retries)
    BY <1>6 DEF Audited, OpTo, AfterAudit
  <2>4. QED
    BY <1>6, <2>1, <2>2, <2>3 DEF Audited, OpTo, EnqueueInv, Quiet, Grows, Enqueues
<1>7. CASE Notified
  BY <1>7, Statuses, Numbers DEF Notified, RunsInv, EnqueueInv, OpTo, NoOp, Grows, Quiet, Enqueues
<1>8. CASE Unmarked
  BY <1>8, Statuses, Numbers DEF Unmarked, RunsInv, EnqueueInv, OpTo, NoOp, Grows, Quiet, Enqueues
<1>9. ASSUME NEW r \in Runs, Forgets(r) PROVE EnqueueInv'
  <2>1. op.pc = "record" => op.new \in Runs
    BY DEF Shape, WellFormed, Enqueues
  <2>2. op.pc = "record" => marker'[op.new] # 0 \/ op.new \in doubted
    BY <1>9, <2>1, Numbers DEF Forgets, RunsInv, EnqueueInv
  <2>3. QED
    BY <1>9, <2>2 DEF Forgets, RunsInv, EnqueueInv, Quiet, Grows
<1>10. ASSUME NEW r \in Runs, Finalizes(r) PROVE EnqueueInv'
  BY <1>10, Statuses, Numbers DEF Finalizes, RunsInv, EnqueueInv, OpTo, NoOp, Grows, Quiet, Enqueues
<1>11. CASE Triggers
  <2>1. run[nextId].status = "absent"
    BY <1>11, Numbers DEF Triggers, RunsInv, IdsInv
  <2>2. QED
    BY <1>11, <2>1 DEF Triggers, EnqueueInv
<1>12. CASE DeleteBegins
  BY <1>12, Statuses, Numbers DEF DeleteBegins, RunsInv, EnqueueInv, OpTo, NoOp, Grows, Quiet, Enqueues
<1>13. CASE DeleteUnmarks
  <2>1. op.pc # "record"
    BY <1>13 DEF DeleteUnmarks, RunsInv, DeleteInv, Enqueues
  <2>2. QED
    BY <1>13, <2>1 DEF DeleteUnmarks, RunsInv, EnqueueInv, Quiet, Grows
<1>14. CASE DeleteFinishes
  <2>1. op.pc \notin Enqueues /\ op' = op
    BY <1>14 DEF DeleteFinishes, RunsInv, DeleteInv
  <2>2. op.kind = "final" /\ op.pc # "dead" => run'[op.run].status = "absent"
    BY <1>14 DEF DeleteFinishes, Shape, WellFormed, NoRun
  <2>3. QED
    BY <2>1, <2>2 DEF EnqueueInv, Enqueues
<1>15. CASE Hides
  BY <1>15, Statuses, Numbers DEF Hides, RunsInv, EnqueueInv, OpTo, NoOp, Grows, Quiet, Enqueues
<1>16. QED
  BY <1>1, <1>2, <1>3, <1>4, <1>5, <1>6, <1>7, <1>8, <1>9, <1>10, <1>11, <1>12, <1>13, <1>14, <1>15 DEF Effect

\* The first attempt of an occurrence stays the one that its claim names.
LEMMA FirstKept ==
    ASSUME Shape, Shape', RunsInv, Effect PROVE FirstInv'
<1>1. CASE Calm
  BY <1>1, Statuses, Numbers DEF Calm, RunsInv, FirstInv, RunsGoOn, GoesOn
<1>2. CASE Fires
  BY <1>2, Statuses, Numbers DEF Fires, RunsInv, FirstInv
<1>3. CASE MarkerPut
  BY <1>3, Statuses, Numbers DEF MarkerPut, RunsInv, FirstInv
<1>4. CASE RecordPut
  <2>1. CASE run' = run
    BY <1>4, <2>1 DEF RecordPut, RunsInv, FirstInv
  <2>2. CASE run[op.new].status = "absent" /\ run' = [run EXCEPT ![op.new] = NewRun]
    <3>1. /\ op.new \in Runs /\ NewRun.status \in {"skipped", "queued"} /\ NewRun.occ = op.occ
          /\ NewRun.attempt >= 1 /\ (op.kind = "final" => NewRun.attempt # 1)
          /\ (op.skip => NewRun.status = "skipped")
      BY <1>4, NewRunMeans DEF RecordPut
    <3>2. op.kind \in {"fire", "trigger", "final"} /\ (op.kind = "trigger" => op.occ = 0)
      BY <1>4 DEF RecordPut, Shape, WellFormed, Enqueues
    <3>3. op.kind = "fire" => occ[op.occ].run = op.new /\ (op.skip <=> occ[op.occ].outcome = "skip")
      BY <1>4 DEF RecordPut, RunsInv, EnqueueInv
    <3>4. \A r \in Runs : run'[r] = IF r = op.new THEN NewRun ELSE run[r]
      BY <2>2, <3>1, Numbers
    <3>5. ASSUME NEW o \in Occurrences, NewRun.occ = o, NewRun.attempt = 1
          PROVE  occ[o].run = op.new /\ (occ[o].outcome = "skip" => NewRun.status = "skipped")
      BY <3>1, <3>2, <3>3, <3>5, Numbers
    <3>6. QED
      BY <1>4, <3>1, <3>4, <3>5 DEF RecordPut, RunsInv, FirstInv
  <2>3. QED
    BY <1>4, <2>1, <2>2 DEF RecordPut
<1>5. CASE Checked
  BY <1>5, Statuses, Numbers DEF Checked, RunsInv, FirstInv, RunsGoOn, GoesOn
<1>6. CASE Audited
  BY <1>6, Statuses, Numbers DEF Audited, RunsInv, FirstInv
<1>7. CASE Notified
  BY <1>7, Statuses, Numbers DEF Notified, RunsInv, FirstInv
<1>8. CASE Unmarked
  BY <1>8, Statuses, Numbers DEF Unmarked, RunsInv, FirstInv
<1>9. ASSUME NEW r \in Runs, Forgets(r) PROVE FirstInv'
  BY <1>9, Statuses, Numbers DEF Forgets, RunsInv, FirstInv
<1>10. ASSUME NEW r \in Runs, Finalizes(r) PROVE FirstInv'
  BY <1>10, Statuses, Numbers DEF Finalizes, RunsInv, FirstInv, RunsGoOn, GoesOn
<1>11. CASE Triggers
  BY <1>11, Statuses, Numbers DEF Triggers, RunsInv, FirstInv
<1>12. CASE DeleteBegins
  BY <1>12, Statuses, Numbers DEF DeleteBegins, RunsInv, FirstInv
<1>13. CASE DeleteUnmarks
  BY <1>13, Statuses, Numbers DEF DeleteUnmarks, RunsInv, FirstInv
<1>14. CASE DeleteFinishes
  <2>1. \A r \in Runs : run'[r] = NoRun
    BY <1>14 DEF DeleteFinishes
  <2>2. NoRun.status = "absent" /\ NoRun.attempt = 0
    BY DEF NoRun
  <2>3. QED
    BY <2>1, <2>2 DEF FirstInv
<1>15. CASE Hides
  BY <1>15, Statuses, Numbers DEF Hides, RunsInv, FirstInv
<1>16. QED
  BY <1>1, <1>2, <1>3, <1>4, <1>5, <1>6, <1>7, <1>8, <1>9, <1>10, <1>11, <1>12, <1>13, <1>14, <1>15 DEF Effect

\* An execution that is past provisioning stays alone.
LEMMA ExecKept ==
    ASSUME Shape, Shape', RunsInv, Effect PROVE ExecInv'
<1>1. CASE Calm
  BY <1>1, Statuses DEF Calm, RunsInv, ExecInv, ExecCalm, Wins, RunsGoOn, GoesOn
<1>2. CASE Fires
  BY <1>2, Statuses DEF Fires, RunsInv, ExecInv, Quiet, ExecCalm
<1>3. CASE MarkerPut
  BY <1>3, Statuses DEF MarkerPut, RunsInv, ExecInv, Quiet, ExecCalm
<1>4. CASE RecordPut
  <2>1. job # "gone" /\ op.new \in Runs
    BY <1>4, NewRunMeans DEF RecordPut, RunsInv, DeleteInv, Enqueues
  <2>2. ASSUME NEW p \in Procs, NEW r \in Runs, Busy(p, r) PROVE run'[r] = run[r]
    BY <1>4, <2>1, <2>2, Numbers DEF RecordPut, RunsInv, ExecInv
  <2>3. QED
    BY <1>4, <2>2 DEF RecordPut, RunsInv, ExecInv, Quiet, ExecCalm
<1>5. CASE Checked
  BY <1>5, Statuses DEF Checked, RunsInv, ExecInv, Quiet, ExecCalm, RunsGoOn, GoesOn
<1>6. CASE Audited
  BY <1>6, Statuses DEF Audited, RunsInv, ExecInv, Quiet, ExecCalm
<1>7. CASE Notified
  BY <1>7, Statuses DEF Notified, RunsInv, ExecInv, Quiet, ExecCalm
<1>8. CASE Unmarked
  BY <1>8, Statuses DEF Unmarked, RunsInv, ExecInv, Quiet, ExecCalm
<1>9. ASSUME NEW r \in Runs, Forgets(r) PROVE ExecInv'
  BY <1>9, Statuses DEF Forgets, RunsInv, ExecInv, Quiet, ExecCalm
<1>10. ASSUME NEW r \in Runs, Finalizes(r) PROVE ExecInv'
  BY <1>10, Statuses DEF Finalizes, RunsInv, ExecInv, Quiet, ExecCalm, RunsGoOn, GoesOn
<1>11. CASE Triggers
  BY <1>11, Statuses DEF Triggers, RunsInv, ExecInv, Quiet, ExecCalm
<1>12. CASE DeleteBegins
  BY <1>12, Statuses DEF DeleteBegins, RunsInv, ExecInv, Quiet, ExecCalm, Loadable
<1>13. CASE DeleteUnmarks
  BY <1>13, Statuses DEF DeleteUnmarks, RunsInv, ExecInv, Quiet, ExecCalm
<1>14. CASE DeleteFinishes
  BY <1>14, Statuses DEF DeleteFinishes, RunsInv, ExecInv, Quiet, ExecCalm, NoRun
<1>15. CASE Hides
  BY <1>15, Statuses DEF Hides, RunsInv, ExecInv, Quiet, ExecCalm
<1>16. QED
  BY <1>1, <1>2, <1>3, <1>4, <1>5, <1>6, <1>7, <1>8, <1>9, <1>10, <1>11, <1>12, <1>13, <1>14, <1>15 DEF Effect

\* What was done for a run that has ended stays done.
LEMMA SettledStays ==
    ASSUME RunsGoOn, Grows, NEW r \in Runs, run[r].status \in {"failed", "succeeded"}, Settled(r)
    PROVE  Settled(r)'
<1>1. run'[r] = run[r]
  BY OverStays, Statuses DEF Live, Active
<1>2. \A c \in Runs : run'[c].of = run[c].of
  BY DEF RunsGoOn, GoesOn
<1>3. Retry(r)' <=> Retry(r)
  BY <1>1 DEF Retry, Grows
<1>4. QED
  BY <1>2, <1>3 DEF Settled, Grows

\* The id in a marker is kept for the retry of its run.
LEMMA LinkKept ==
    ASSUME Shape, Shape', RunsInv, Effect PROVE LinkInv'
<1>1. CASE Calm
  <2>1. marker' = marker /\ \A c \in Runs : run'[c].of = run[c].of /\ (run[c].status = "absent" => run'[c] = run[c])
    BY <1>1, OverStays, Statuses DEF Calm, RunsGoOn, GoesOn
  <2>2. QED
    BY <2>1 DEF RunsInv, LinkInv
<1>2. CASE Fires
  BY <1>2 DEF Fires, RunsInv, LinkInv
<1>3. CASE MarkerPut
  <2>1. CASE UNCHANGED marker
    BY <1>3, <2>1 DEF MarkerPut, RunsInv, LinkInv
  <2>2. CASE nextId \in Runs /\ marker' = [marker EXCEPT ![op.new] = nextId]
    <3>1. run[nextId].status = "absent"
      BY <2>2, Numbers DEF RunsInv, IdsInv
    <3>2. \A q \in Runs : marker'[q] = nextId \/ marker'[q] = marker[q]
      BY <2>2, Numbers
    <3>3. QED
      BY <1>3, <3>1, <3>2 DEF MarkerPut, RunsInv, LinkInv
  <2>3. QED
    BY <1>3, <2>1, <2>2 DEF MarkerPut
<1>4. CASE RecordPut
  <2>1. CASE run' = run
    BY <1>4, <2>1 DEF RecordPut, RunsInv, LinkInv
  <2>2. CASE run' = [run EXCEPT ![op.new] = NewRun]
    <3>1. op.new \in Runs /\ NewRun.of = op.run
      BY <1>4, NewRunMeans DEF RecordPut
    <3>2. \A c \in Runs : run'[c] = IF c = op.new THEN NewRun ELSE run[c]
      BY <2>2, Numbers
    <3>3. ASSUME NEW r \in Runs, marker[r] = op.new PROVE op.run = r
      <4>1. op.kind = "final" /\ ~op.skip
        BY <1>4, <3>3 DEF RecordPut, RunsInv, IdsInv, EnqueueInv, Enqueues, Shape, WellFormed
      <4>2. QED
        BY <1>4, <3>3, <4>1 DEF RecordPut, RunsInv, OwnInv, Enqueues
    <3>4. QED
      BY <1>4, <3>1, <3>2, <3>3 DEF RecordPut, RunsInv, LinkInv
  <2>3. QED
    BY <1>4, <2>1, <2>2 DEF RecordPut
<1>5. CASE Checked
  <2>1. marker' = marker /\ \A c \in Runs : run'[c].of = run[c].of /\ (run[c].status = "absent" => run'[c] = run[c])
    BY <1>5, OverStays, Statuses DEF Checked, RunsGoOn, GoesOn
  <2>2. QED
    BY <2>1 DEF RunsInv, LinkInv
<1>6. CASE Audited
  BY <1>6 DEF Audited, RunsInv, LinkInv
<1>7. CASE Notified
  BY <1>7 DEF Notified, RunsInv, LinkInv
<1>8. CASE Unmarked
  <2>1. run' = run /\ \A q \in Runs : marker'[q] = 0 \/ marker'[q] = marker[q]
    BY <1>8, Numbers DEF Unmarked
  <2>2. QED
    BY <2>1, Numbers DEF RunsInv, LinkInv
<1>9. ASSUME NEW r \in Runs, Forgets(r) PROVE LinkInv'
  <2>1. run' = run /\ \A q \in Runs : marker'[q] = 0 \/ marker'[q] = marker[q]
    BY <1>9, Numbers DEF Forgets
  <2>2. QED
    BY <2>1, Numbers DEF RunsInv, LinkInv
<1>10. ASSUME NEW r \in Runs, Finalizes(r) PROVE LinkInv'
  <2>1. marker' = marker /\ \A c \in Runs : run'[c].of = run[c].of /\ (run[c].status = "absent" => run'[c] = run[c])
    BY <1>10, OverStays, Statuses DEF Finalizes, RunsGoOn, GoesOn
  <2>2. QED
    BY <2>1 DEF RunsInv, LinkInv
<1>11. CASE Triggers
  BY <1>11 DEF Triggers, RunsInv, LinkInv
<1>12. CASE DeleteBegins
  BY <1>12 DEF DeleteBegins, RunsInv, LinkInv
<1>13. CASE DeleteUnmarks
  <2>1. run' = run /\ \A q \in Runs : marker'[q] = 0 \/ marker'[q] = marker[q]
    BY <1>13, Numbers DEF DeleteUnmarks
  <2>2. QED
    BY <2>1, Numbers DEF RunsInv, LinkInv
<1>14. CASE DeleteFinishes
  BY <1>14 DEF DeleteFinishes, LinkInv, NoRun
<1>15. CASE Hides
  BY <1>15 DEF Hides, RunsInv, LinkInv
<1>16. QED
  BY <1>1, <1>2, <1>3, <1>4, <1>5, <1>6, <1>7, <1>8, <1>9, <1>10, <1>11, <1>12, <1>13, <1>14, <1>15 DEF Effect

\* A run that has ended loses its marker once it is settled.
LEMMA EndedKept ==
    ASSUME Shape, Shape', RunsInv, Effect PROVE EndedInv'
<1>0. doubted \subseteq doubted'
  BY EffectGrows DEF Grows, Doubts
<1> USE <1>0
<1>1. CASE Calm
  <2>1. Grows /\ RunsGoOn /\ marker' = marker /\ job' = job
    BY <1>1, RunsSame DEF Calm, Quiet
  <2>2. ASSUME NEW r \in Runs \ doubted', run'[r].status \in {"failed", "succeeded"}, marker'[r] = 0, job' = "live" PROVE Settled(r)'
    <3>1. run'[r] = run[r]
      BY <2>1, <2>2 DEF RunsGoOn, GoesOn, RunsInv, LiveRunsMarked
    <3>2. Settled(r)
      BY <2>1, <2>2, <3>1 DEF RunsInv, EndedInv
    <3>3. QED
      BY <2>1, <2>2, <3>1, <3>2, SettledStays
  <2>3. QED
    BY <2>2 DEF EndedInv
<1>2. CASE Fires
  <2>1. Grows /\ RunsGoOn /\ marker' = marker /\ job' = job
    BY <1>2, RunsSame DEF Fires, Quiet
  <2>2. ASSUME NEW r \in Runs \ doubted', run'[r].status \in {"failed", "succeeded"}, marker'[r] = 0, job' = "live" PROVE Settled(r)'
    <3>1. run'[r] = run[r]
      BY <2>1, <2>2 DEF RunsGoOn, GoesOn, RunsInv, LiveRunsMarked
    <3>2. Settled(r)
      BY <2>1, <2>2, <3>1 DEF RunsInv, EndedInv
    <3>3. QED
      BY <2>1, <2>2, <3>1, <3>2, SettledStays
  <2>3. QED
    BY <2>2 DEF EndedInv
<1>3. CASE MarkerPut
  <2>1. Grows /\ RunsGoOn /\ run' = run /\ job' = job
    BY <1>3, RunsSame DEF MarkerPut, Quiet
  <2>2. \A r \in Runs : marker'[r] = 0 => marker[r] = 0
    BY <1>3, Numbers DEF MarkerPut
  <2>3. QED
    BY <2>1, <2>2, SettledStays DEF EndedInv, RunsInv
<1>4. CASE RecordPut
  <2>1. Grows /\ marker' = marker /\ job' = job
    BY <1>4 DEF RecordPut, Quiet
  <2>2. op.new \in Runs /\ (marker[op.new] # 0 \/ op.new \in doubted)
    BY <1>4, NewRunMeans DEF RecordPut, RunsInv, EnqueueInv
  <2>3. \A r \in Runs : run'[r] = run[r] \/ (r = op.new /\ run[r].status = "absent")
    BY <1>4, <2>2, Numbers DEF RecordPut
  <2>4. \A r, c \in Runs : run[c].of = r => run'[c] = run[c]
    <3>1. \A c \in Runs : run[c].status = "absent" => run[c].of = 0
      BY DEF RunsInv, FirstInv, NoRun
    <3>2. QED
      BY <2>3, <3>1, Numbers
  <2>5. ASSUME NEW r \in Runs \ doubted', run'[r].status \in {"failed", "succeeded"}, marker'[r] = 0, job' = "live" PROVE Settled(r)'
    <3>1. run'[r] = run[r]
      BY <2>1, <2>2, <2>3, <2>5
    <3>2. Settled(r)
      BY <2>1, <2>5, <3>1 DEF RunsInv, EndedInv
    <3>3. Retry(r)' <=> Retry(r)
      BY <2>1, <3>1 DEF Retry, Grows
    <3>4. QED
      BY <2>1, <2>4, <3>2, <3>3 DEF Settled, Grows
  <2>6. QED
    BY <2>5 DEF EndedInv
<1>5. CASE Checked
  <2>1. Grows /\ RunsGoOn /\ marker' = marker /\ job' = job
    BY <1>5, RunsSame DEF Checked, Quiet
  <2>2. ASSUME NEW r \in Runs \ doubted', run'[r].status \in {"failed", "succeeded"}, marker'[r] = 0, job' = "live" PROVE Settled(r)'
    <3>1. run'[r] = run[r]
      BY <2>1, <2>2 DEF RunsGoOn, GoesOn, RunsInv, LiveRunsMarked
    <3>2. Settled(r)
      BY <2>1, <2>2, <3>1 DEF RunsInv, EndedInv
    <3>3. QED
      BY <2>1, <2>2, <3>1, <3>2, SettledStays
  <2>3. QED
    BY <2>2 DEF EndedInv
<1>6. CASE Audited
  <2>1. Grows /\ RunsGoOn /\ marker' = marker /\ job' = job
    BY <1>6, RunsSame DEF Audited, Quiet
  <2>2. ASSUME NEW r \in Runs \ doubted', run'[r].status \in {"failed", "succeeded"}, marker'[r] = 0, job' = "live" PROVE Settled(r)'
    <3>1. run'[r] = run[r]
      BY <2>1, <2>2 DEF RunsGoOn, GoesOn, RunsInv, LiveRunsMarked
    <3>2. Settled(r)
      BY <2>1, <2>2, <3>1 DEF RunsInv, EndedInv
    <3>3. QED
      BY <2>1, <2>2, <3>1, <3>2, SettledStays
  <2>3. QED
    BY <2>2 DEF EndedInv
<1>7. CASE Notified
  <2>1. Grows /\ RunsGoOn /\ marker' = marker /\ job' = job
    BY <1>7, RunsSame DEF Notified, Quiet
  <2>2. ASSUME NEW r \in Runs \ doubted', run'[r].status \in {"failed", "succeeded"}, marker'[r] = 0, job' = "live" PROVE Settled(r)'
    <3>1. run'[r] = run[r]
      BY <2>1, <2>2 DEF RunsGoOn, GoesOn, RunsInv, LiveRunsMarked
    <3>2. Settled(r)
      BY <2>1, <2>2, <3>1 DEF RunsInv, EndedInv
    <3>3. QED
      BY <2>1, <2>2, <3>1, <3>2, SettledStays
  <2>3. QED
    BY <2>2 DEF EndedInv
<1>8. CASE Unmarked
  <2>1. Grows /\ RunsGoOn /\ run' = run /\ job' = job
    BY <1>8, RunsSame DEF Unmarked, Quiet
  <2>2. \A r \in Runs : marker'[r] = 0 => marker[r] = 0 \/ r = op.run
    BY <1>8, Numbers DEF Unmarked
  <2>3. job = "live" /\ run[op.run].status \in {"failed", "succeeded"} => Settled(op.run) \/ op.run \in doubted
    BY <1>8 DEF Unmarked, RunsInv, FinalInv
  <2>4. QED
    BY <2>1, <2>2, <2>3, SettledStays DEF EndedInv, RunsInv
<1>9. ASSUME NEW r \in Runs, Forgets(r) PROVE EndedInv'
  <2>1. Grows /\ RunsGoOn /\ run' = run /\ job' = job
    BY <1>9, RunsSame DEF Forgets, Quiet
  <2>2. \A q \in Runs : marker'[q] = 0 => marker[q] = 0 \/ q \in doubted
    BY <1>9, Numbers DEF Forgets
  <2>3. QED
    BY <2>1, <2>2, SettledStays DEF EndedInv, RunsInv
<1>10. ASSUME NEW r \in Runs, Finalizes(r) PROVE EndedInv'
  <2>1. Grows /\ RunsGoOn /\ marker' = marker /\ job' = job
    BY <1>10, RunsSame DEF Finalizes, Quiet
  <2>2. ASSUME NEW q \in Runs \ doubted', run'[q].status \in {"failed", "succeeded"}, marker'[q] = 0, job' = "live" PROVE Settled(q)'
    <3>1. run'[q] = run[q]
      BY <2>1, <2>2 DEF RunsGoOn, GoesOn, RunsInv, LiveRunsMarked
    <3>2. Settled(q)
      BY <2>1, <2>2, <3>1 DEF RunsInv, EndedInv
    <3>3. QED
      BY <2>1, <2>2, <3>1, <3>2, SettledStays
  <2>3. QED
    BY <2>2 DEF EndedInv
<1>11. CASE Triggers
  <2>1. Grows /\ RunsGoOn /\ marker' = marker /\ job' = job
    BY <1>11, RunsSame DEF Triggers, Quiet
  <2>2. ASSUME NEW r \in Runs \ doubted', run'[r].status \in {"failed", "succeeded"}, marker'[r] = 0, job' = "live" PROVE Settled(r)'
    <3>1. run'[r] = run[r]
      BY <2>1, <2>2 DEF RunsGoOn, GoesOn, RunsInv, LiveRunsMarked
    <3>2. Settled(r)
      BY <2>1, <2>2, <3>1 DEF RunsInv, EndedInv
    <3>3. QED
      BY <2>1, <2>2, <3>1, <3>2, SettledStays
  <2>3. QED
    BY <2>2 DEF EndedInv
<1>12. CASE DeleteBegins
  BY <1>12 DEF DeleteBegins, EndedInv
<1>13. CASE DeleteUnmarks
  BY <1>13 DEF DeleteUnmarks, EndedInv, RunsInv, DeleteInv
<1>14. CASE DeleteFinishes
  BY <1>14 DEF DeleteFinishes, EndedInv
<1>15. CASE Hides
  BY <1>15 DEF Hides, EndedInv
<1>16. QED
  BY <1>1, <1>2, <1>3, <1>4, <1>5, <1>6, <1>7, <1>8, <1>9, <1>10, <1>11, <1>12, <1>13, <1>14, <1>15 DEF Effect

\* The operation that settles a run has done what its step follows.
LEMMA FinalKept ==
    ASSUME Shape, Shape', RunsInv, Effect PROVE FinalInv'
<1>0. doubted \subseteq doubted'
  BY EffectGrows DEF Grows, Doubts
<1> USE <1>0
<1>1. CASE Calm
  <2>1. CASE op' # op
    <3>1. op'.pc \notin Enqueues \union Settles
      BY <1>1, <2>1 DEF Calm, Released, Enqueues, Settles
    <3>2. QED
      BY <3>1 DEF FinalInv, Enqueues, Settles
  <2>2. CASE op' = op
    <3>1. Grows /\ RunsGoOn /\ UNCHANGED <<marker, job>>
      BY <1>1 DEF Calm
    <3>2. op.kind = "final" /\ op.pc # "dead" => run'[op.run] = run[op.run] /\ op.run \in Runs /\ op.new \in Runs
      BY <3>1, OverStays, Statuses DEF RunsInv, OverInv, Over, Shape, WellFormed
    <3>3. op.pc \in Settles => op.kind = "final" /\ op.pc # "dead"
      BY DEF Shape, WellFormed, Settles
    <3>4. op.kind = "final" /\ op.pc = "check" => run'[op.new].of = run[op.new].of
      BY <3>1, <3>2 DEF RunsGoOn, GoesOn
    <3>5. op.pc = "notify" => (Retry(op.run)' <=> Retry(op.run))
      BY <2>2, <3>1, <3>2, <3>3 DEF Retry, Grows, Settles
    <3>6. op.pc = "unmark" /\ job = "live" /\ run[op.run].status \in {"failed", "succeeded"} =>
            Settled(op.run)' \/ op.run \in doubted
      BY <2>2, <3>1, <3>2, <3>3, SettledStays DEF RunsInv, FinalInv, Settles, Settled, Retry
    <3>7. QED
      BY <2>2, <3>1, <3>2, <3>3, <3>4, <3>5, <3>6 DEF RunsInv, FinalInv, Grows, Settles, Enqueues
  <2>3. QED
    BY <2>1, <2>2
<1>2. CASE Fires
  <2>1. op'.kind # "final" /\ op'.pc \notin Settles
    BY <1>2 DEF Fires, Settles
  <2>2. QED
    BY <2>1 DEF FinalInv, Enqueues, Settles
<1>3. CASE MarkerPut
  <2>1. OpTo("record") /\ run' = run /\ Grows
    BY <1>3 DEF MarkerPut, Quiet
  <2>2. op.kind = "final" => /\ op.run \in audited /\ op.new \in Runs /\ op.run \in Runs
                             /\ marker[op.run] = op.new \/ op.run \in doubted
    BY <1>3 DEF MarkerPut, RunsInv, FinalInv, Enqueues, Shape, WellFormed
  <2>3. op.kind = "final" => marker'[op.run] = op.new \/ op.run \in doubted
    BY <1>3, <2>2, Numbers DEF MarkerPut
  <2>4. QED
    BY <2>1, <2>2, <2>3 DEF FinalInv, OpTo, Grows
<1>4. CASE RecordPut
  <2>1. CASE op' = NoOp
    BY <2>1 DEF FinalInv, NoOp, Enqueues
  <2>2. CASE op'.pc = "audit" /\ op.skip /\ op'.skip = op.skip
    BY <2>2 DEF FinalInv, Enqueues
  <2>3. CASE OpTo("check")
    <3>1. op.kind = "final" => /\ op.run \in audited /\ op.new \in Runs /\ op.run \in Runs
                               /\ marker[op.run] = op.new \/ op.run \in doubted
      BY <1>4 DEF RecordPut, RunsInv, FinalInv, Enqueues, Shape, WellFormed
    <3>2. op.kind = "final" => run'[op.new].of = op.run \/ op.run \in doubted
      <4>1. CASE run[op.new].status # "absent" /\ run' = run
        BY <3>1, <4>1 DEF RunsInv, LinkInv
      <4>2. CASE run' = [run EXCEPT ![op.new] = NewRun]
        BY <1>4, <4>2, NewRunMeans, Numbers DEF RecordPut
      <4>3. QED
        BY <1>4, <4>1, <4>2 DEF RecordPut
    <3>3. QED
      BY <1>4, <2>3, <3>1, <3>2 DEF RecordPut, FinalInv, OpTo, Quiet, Grows, Enqueues
  <2>4. QED
    BY <1>4, <2>1, <2>2, <2>3 DEF RecordPut
<1>5. CASE Checked
  <2>1. CASE op' = NoOp
    BY <2>1 DEF FinalInv, NoOp, Enqueues
  <2>2. CASE op.kind = "final" /\ OpTo("unmark")
    <3>1. /\ op.run \in audited /\ (run[op.new].of = op.run \/ op.run \in doubted) /\ op.new \in Runs /\ op.run \in Runs
          /\ run[op.run].status = "failed" /\ run[op.run].attempt <= retries
      BY <1>5, <2>2 DEF Checked, RunsInv, FinalInv, EnqueueInv, Enqueues, Shape, WellFormed
    <3>2. run'[op.run] = run[op.run] /\ (run'[op.new].of = op.run \/ op.run \in doubted)
      BY <1>5, <3>1, OverStays, Statuses DEF Checked, RunsGoOn, GoesOn
    <3>3. Settled(op.run)' \/ op.run \in doubted
      BY <1>5, <2>2, <3>1, <3>2 DEF Checked, Settled, Retry, OpTo, Quiet, Grows
    <3>4. QED
      BY <1>5, <2>2, <3>1, <3>3 DEF Checked, FinalInv, OpTo, Quiet, Grows, Enqueues
  <2>3. QED
    BY <1>5, <2>1, <2>2 DEF Checked
<1>6. CASE Audited
  <2>1. op.kind = "final" /\ op.run \in Runs
    BY <1>6 DEF Audited, Shape, WellFormed, Settles
  <2>2. UNCHANGED <<job, run, marker>> /\ OpTo(AfterAudit(op.run)) /\ op.run \in audited' /\ retries' = retries
    BY <1>6 DEF Audited, Quiet, Grows
  <2>3. AfterAudit(op.run) \in {"unmark", "notify", "mark"}
    BY DEF AfterAudit
  <2>4. AfterAudit(op.run) = "mark" => marker[op.run] = op.new \/ op.run \in doubted
    <3>1. AfterAudit(op.run) = "mark" => job = "live" /\ run[op.run].status = "failed"
      BY DEF AfterAudit, Loadable
    <3>2. op.skip => run[op.run].status \in {"skipped", "absent"}
      BY <1>6, <2>1 DEF Audited, RunsInv, EnqueueInv
    <3>3. QED
      BY <1>6, <3>1, <3>2 DEF Audited, RunsInv, FinalInv
  <2>5. AfterAudit(op.run) = "notify" => ~Retry(op.run)
    BY DEF AfterAudit, Retry
  <2>6. AfterAudit(op.run) = "unmark" => job # "live" \/ run[op.run].status \notin {"failed", "succeeded"}
    BY DEF AfterAudit, Loadable
  <2>7. QED
    BY <2>1, <2>2, <2>3, <2>4, <2>5, <2>6 DEF FinalInv, OpTo, Enqueues, Retry
<1>7. CASE Notified
  <2>1. op.kind = "final" /\ op.run \in Runs /\ op.run \in audited
    BY <1>7 DEF Notified, Shape, WellFormed, Settles, RunsInv, FinalInv
  <2>2. UNCHANGED <<job, run>> /\ OpTo("unmark") /\ op.run \in notified' /\ op.run \in audited' /\ retries' = retries
    BY <1>7, <2>1 DEF Notified, Quiet, Grows
  <2>3. job = "live" => ~Retry(op.run)
    BY <1>7 DEF Notified, RunsInv, FinalInv
  <2>4. job = "live" => Settled(op.run)'
    BY <2>2, <2>3 DEF Settled, Retry, OpTo
  <2>5. QED
    BY <2>2, <2>4 DEF FinalInv, OpTo, Enqueues
<1>8. CASE Unmarked
  <2>1. op'.pc \notin Enqueues \union Settles
    BY <1>8 DEF Unmarked, Enqueues, Settles, NoOp
  <2>2. QED
    BY <2>1 DEF FinalInv, Enqueues, Settles
<1>9. ASSUME NEW r \in Runs, Forgets(r) PROVE FinalInv'
  <2>1. UNCHANGED <<run, op, job>> /\ Grows /\ RunsGoOn
    BY <1>9, RunsSame DEF Forgets, Quiet
  <2>2. op.kind = "final" /\ op.pc \in Enqueues => op.run \in Runs
    BY DEF Shape, WellFormed, Enqueues
  <2>3. op.pc = "audit" => op.run \in Runs
    BY DEF Shape, WellFormed, Settles
  <2>4. op.pc = "unmark" => op.run \in Runs
    BY DEF Shape, WellFormed, Settles
  <2>5. \A q \in Runs : marker'[q] = marker[q] \/ q \in doubted
    BY <1>9, Numbers DEF Forgets
  <2>6. op.pc = "unmark" /\ job = "live" /\ run[op.run].status \in {"failed", "succeeded"} =>
          Settled(op.run)' \/ op.run \in doubted
    BY <2>1, <2>4, SettledStays DEF RunsInv, FinalInv, Settled, Retry
  <2>7. QED
    BY <2>1, <2>2, <2>3, <2>5, <2>6 DEF RunsInv, FinalInv, Grows, Enqueues, Retry
<1>10. ASSUME NEW r \in Runs, Finalizes(r) PROVE FinalInv'
  <2>1. op'.pc = "audit" /\ op'.run = r /\ op'.new = marker[r] /\ marker' = marker
    BY <1>10 DEF Finalizes
  <2>2. QED
    BY <2>1 DEF FinalInv, Enqueues
<1>11. CASE Triggers
  <2>1. op'.kind # "final" /\ op'.pc \notin Settles
    BY <1>11 DEF Triggers, Settles
  <2>2. QED
    BY <2>1 DEF FinalInv, Enqueues, Settles
<1>12. CASE DeleteBegins
  <2>1. op'.kind # "final" /\ op'.pc \notin Settles
    BY <1>12 DEF DeleteBegins, Settles
  <2>2. QED
    BY <2>1 DEF FinalInv, Enqueues, Settles
<1>13. CASE DeleteUnmarks
  <2>1. op.pc \notin Enqueues /\ job' = "deleting" /\ op' = op /\ Grows
    BY <1>13 DEF DeleteUnmarks, RunsInv, DeleteInv, Quiet
  <2>2. QED
    BY <2>1 DEF RunsInv, FinalInv, Grows, Enqueues
<1>14. CASE DeleteFinishes
  <2>1. op.pc \notin Enqueues /\ job' = "gone" /\ op' = op /\ Grows
    BY <1>14 DEF DeleteFinishes, RunsInv, DeleteInv, Quiet
  <2>2. QED
    BY <2>1 DEF RunsInv, FinalInv, Grows, Enqueues
<1>15. CASE Hides
  <2>1. job' = "hidden" /\ UNCHANGED <<run, op, marker>> /\ Grows
    BY <1>15 DEF Hides, Quiet
  <2>2. QED
    BY <2>1 DEF RunsInv, FinalInv, Grows
<1>16. QED
  BY <1>1, <1>2, <1>3, <1>4, <1>5, <1>6, <1>7, <1>8, <1>9, <1>10, <1>11, <1>12, <1>13, <1>14, <1>15 DEF Effect

\* The id in the marker of the run that is settled is in no other marker.
LEMMA OwnKept ==
    ASSUME Shape, Shape', RunsInv, Effect PROVE OwnInv'
<1>1. CASE Calm
  BY <1>1 DEF Calm, Released, RunsInv, OwnInv, Enqueues
<1>2. CASE Fires \/ Triggers \/ DeleteBegins
  BY <1>2 DEF Fires, Triggers, DeleteBegins, OwnInv
<1>3. CASE MarkerPut
  <2>1. op.new \in Runs /\ op.new < nextId
    BY <1>3 DEF MarkerPut, Shape, WellFormed, Enqueues, RunsInv, IdsInv
  <2>2. \A q \in Runs : marker'[q] = op.new => marker[q] = op.new
    BY <1>3, <2>1, Numbers DEF MarkerPut
  <2>3. QED
    BY <1>3, <2>2 DEF MarkerPut, OpTo, RunsInv, OwnInv, Enqueues
<1>4. CASE RecordPut
  BY <1>4 DEF RecordPut, OpTo, NoOp, RunsInv, OwnInv, Enqueues
<1>5. CASE Checked \/ Notified \/ Unmarked
  BY <1>5 DEF Checked, Notified, Unmarked, OpTo, NoOp, OwnInv, Enqueues
<1>6. CASE Audited
  <2>1. op.kind = "final"
    BY <1>6 DEF Audited, Shape, WellFormed, Settles
  <2>2. QED
    BY <1>6, <2>1 DEF Audited, OpTo, RunsInv, OwnInv, Enqueues
<1>7. ASSUME NEW r \in Runs, Forgets(r) PROVE OwnInv'
  <2>1. op' = op /\ \A q \in Runs : marker'[q] = marker[q] \/ marker'[q] = 0
    BY <1>7, Numbers DEF Forgets
  <2>2. op.kind = "final" /\ op.pc \in Enqueues \union {"audit"} => op.new # 0
    BY Numbers DEF Shape, WellFormed, Enqueues
  <2>3. QED
    BY <2>1, <2>2 DEF RunsInv, OwnInv
<1>8. ASSUME NEW r \in Runs, Finalizes(r) PROVE OwnInv'
  BY <1>8, Numbers DEF Finalizes, RunsInv, IdsInv, OwnInv
<1>9. CASE DeleteUnmarks
  <2>1. op' = op /\ \A q \in Runs : marker'[q] = marker[q] \/ marker'[q] = 0
    BY <1>9, Numbers DEF DeleteUnmarks
  <2>2. op.kind = "final" /\ op.pc \in Enqueues \union {"audit"} => op.new # 0
    BY Numbers DEF Shape, WellFormed, Enqueues
  <2>3. QED
    BY <2>1, <2>2 DEF RunsInv, OwnInv
<1>10. CASE DeleteFinishes \/ Hides
  BY <1>10 DEF DeleteFinishes, Hides, RunsInv, OwnInv
<1>11. QED
  BY <1>1, <1>2, <1>3, <1>4, <1>5, <1>6, <1>7, <1>8, <1>9, <1>10 DEF Effect

LEMMA InitRuns == Init => RunsInv
<1> SUFFICES ASSUME Init PROVE RunsInv
  OBVIOUS
<1>1. /\ \A r \in Runs : run[r] = NoRun /\ marker[r] = 0
      /\ \A o \in Occurrences : occ[o].run = 0
      /\ \A p \in Procs, r \in Runs : exec[p][r].pc = "idle"
      /\ op.pc = "free" /\ op.kind = "none" /\ op.new = 0 /\ nextId = 1 /\ tick.todo = {} /\ api.pc = "idle" /\ job = "live"
      /\ \A r \in Runs : pruner[r] = "idle"
  BY DEF Init, NoOp, NoClaim, NoExec, NoTick, NoRequest
<1>2. NoRun.status = "absent" /\ NoRun.attempt = 0 /\ "absent" \notin Live \union {"failed", "succeeded"} /\ 0 \notin Runs
  BY Statuses DEF NoRun, Terminal, Runs
<1>3. IdsInv /\ DeleteInv /\ DoubtInv /\ OwnInv
  BY <1>1, <1>2 DEF IdsInv, DeleteInv, Enqueues, DoubtInv, OwnInv
<1>4. OverInv /\ EnqueueInv
  BY <1>1 DEF OverInv, EnqueueInv, Enqueues
<1>5. FirstInv /\ LiveRunsMarked /\ ExecInv
  BY <1>1, <1>2 DEF FirstInv, LiveRunsMarked, ExecInv, Busy
<1>6. FinalInv /\ LinkInv /\ EndedInv
  BY <1>1, <1>2 DEF FinalInv, LinkInv, EndedInv, Enqueues
<1>7. QED
  BY <1>3, <1>4, <1>5, <1>6 DEF RunsInv

LEMMA RunsStep == Shape /\ RunsInv /\ [Next]_vars => RunsInv'
<1> SUFFICES ASSUME Shape, RunsInv, [Next]_vars PROVE RunsInv'
  OBVIOUS
<1>1. Shape'
  BY ShapeStep
<1>2. Effect
  <2>1. CASE Next
    BY <1>1, <2>1, StepEffect DEF RunsInv
  <2>2. CASE UNCHANGED vars
    <3> USE DEF vars, store, outside, config, pruning
    <3>1. SeenFine /\ ExecCalm /\ RunsGoOn
      BY <2>2, SeenSame, ExecSame, RunsSame
    <3>2. QED
      BY <2>2, <3>1, PruningStep DEF Effect, Calm, Grows, Released, ApiOn
  <2>3. QED
    BY <2>1, <2>2
<1>3. QED
  BY <1>1, <1>2, DoubtKept, OwnKept, IdsKept, DeleteKept, OverKept, EnqueueKept, FirstKept, LiveKept, ExecKept, FinalKept, LinkKept,
     EndedKept DEF RunsInv

LEMMA AtMostOne == ASSUME NEW S, \A x, y \in S : x = y PROVE Cardinality(S) <= 1
<1>1. CASE S = {}
  BY <1>1, FS_EmptySet
<1>2. CASE S # {}
  <2>1. PICK x : x \in S
    BY <1>2
  <2>2. S = {x}
    BY <2>1
  <2>3. QED
    BY <2>2, FS_Singleton
<1>3. QED
  BY <1>1, <1>2

LEMMA RunsInvHolds == Spec => [](Shape /\ RunsInv)
  BY InitShape, InitRuns, ShapeStep, RunsStep, PTL DEF Spec

\* Every run that has not ended has its marker, so that the tick, the watchdog and the reconciler
\* see it, unless a HEAD missed its record behind an old marker, which only a repeated enqueue
\* leaves: enqueue writes the marker before the record, finalizers and deletions remove it when the
\* record has ended, and pruneDanglingMarker and pruneStaleMarkers after the HEAD alone.
THEOREM LiveRunsMarkedHolds == Spec => []LiveRunsMarked
<1>1. RunsInv => LiveRunsMarked
  BY DEF RunsInv
<1>2. QED
  BY <1>1, RunsInvHolds, PTL

\* A scheduled occurrence has at most one first attempt, and a fire that was declined never runs,
\* whatever crashes between the claim, the marker and the record (claimOccurrence, enqueue).
THEOREM OccurrenceOnceHolds == Spec => []OccurrenceOnce
<1>1. RunsInv => OccurrenceOnce
  <2> SUFFICES ASSUME RunsInv, NEW o \in Occurrences
               PROVE  LET first == {r \in Runs : run[r].occ = o /\ run[r].attempt = 1} IN
                      /\ Cardinality(first) <= 1
                      /\ occ[o].outcome = "skip" => \A r \in first : run[r].status = "skipped"
    BY DEF OccurrenceOnce
  <2> DEFINE first == {r \in Runs : run[r].occ = o /\ run[r].attempt = 1}
  <2>1. \A r \in first : r = occ[o].run /\ (occ[o].outcome = "skip" => run[r].status = "skipped")
    BY DEF RunsInv, FirstInv
  <2>2. \A r, q \in first : r = q
    BY <2>1
  <2>3. Cardinality(first) <= 1
    <3> HIDE DEF first
    <3>1. QED
      BY <2>2, AtMostOne
  <2>4. QED
    BY <2>1, <2>3
<1>2. QED
  BY <1>1, RunsInvHolds, PTL

\* A run is executed by one process at a time: of those that dispatch it around a handover, one
\* wins the update to provisioning, and the run never returns to queued (JobRunService.transition).
THEOREM ExecutedOnceHolds == Spec => []ExecutedOnce
<1>1. RunsInv => ExecutedOnce
  <2> SUFFICES ASSUME RunsInv, NEW r \in Runs
               PROVE  Cardinality({p \in Procs : exec[p][r].pc \in {"prepare", "export"}}) <= 1
    BY DEF ExecutedOnce
  <2> DEFINE S == {p \in Procs : exec[p][r].pc \in {"prepare", "export"}}
  <2>1. \A p, q \in S : p = q
    BY DEF RunsInv, ExecInv, Busy
  <2> HIDE DEF S
  <2>2. Cardinality(S) <= 1
    BY <2>1, AtMostOne
  <2>3. QED
    BY <2>2 DEF S
<1>2. QED
  BY <1>1, RunsInvHolds, PTL

\* While the job lives, a run whose marker is gone, and was not pruned, was audited, and retried
\* while attempts are left or notified after the last one, across crashes and repeated
\* finalizations (finalizeLocked).
THEOREM EndedRunsSettledHolds == Spec => []EndedRunsSettled
<1>1. RunsInv => EndedRunsSettled
  <2> SUFFICES ASSUME RunsInv, job = "live", NEW r \in Runs \ doubted,
                      run[r].status \in {"failed", "succeeded"}, marker[r] = 0
               PROVE  /\ r \in audited
                      /\ IF run[r].status # "succeeded" /\ run[r].attempt <= retries
                           THEN \E c \in Runs : run[c].of = r
                           ELSE r \in notified
    BY DEF EndedRunsSettled
  <2>1. Settled(r)
    BY DEF RunsInv, EndedInv
  <2>2. QED
    BY <2>1 DEF Settled, Retry
<1>2. QED
  BY <1>1, RunsInvHolds, PTL

-----------------------------------------------------------------------------
(* The cap: which runs take it up, and what a tick knows of them. *)

\* The runs that have a record are numbered in the order of their creation.
Recorded == {r \in Runs : run[r].status # "absent"}
AtInv ==
    /\ \A r \in Recorded : run[r].at <= Cardinality(Recorded)
    /\ \A r, q \in Recorded : run[r].at = run[q].at => r = q

\* Active, or queued in the store and dispatched by some process.  Runs that were missed behind an
\* old marker take no part in the count.
Loaded(p, r) == exec[p][r].pc = "load" /\ run[r].status = "queued"
Using(r) == run[r].status \in Active \/ \E p \in Procs : Loaded(p, r)
InUse == {r \in Runs \ doubted : Using(r)}

\* The record exists, or was deleted with the job.
Known(r) == job = "gone" \/ run[r].status # "absent"

\* A process dispatches no run before the older ones.
LoadInv ==
    /\ \A p \in Procs, r \in Runs : exec[p][r].pc # "idle" => Known(r)
    /\ \A p \in Procs, r \in Runs : exec[p][r].pc \notin {"idle", "load"} => run[r].status # "queued"
    /\ \A p \in Procs, r, q \in Runs :
         Loaded(p, r) /\ run[q].status \in Live /\ run[q].at < run[r].at =>
           run[q].status \in Active \/ Loaded(p, q) \/ q \in doubted

\* What the listing of a tick has missed is younger than what waits, and dispatched by nobody.
SeenAs(s) == {r \in tick.todo : tick.seen[r] = s}
Waiting == tick.queue \union SeenAs("queued")
Counted == tick.held \union SeenAs("active") \union Waiting
Late(q) == ~Using(q) /\ \A r \in Waiting : run[r].at < run[q].at
ListInv ==
    IF tick.pc # "sweep" THEN tick.held = {} /\ tick.queue = {}
    ELSE /\ \A r \in SeenAs("active") : run[r].status # "queued"
         /\ \A r \in tick.held : run[r].status = "queued" => Loaded(leader, r)
         /\ \A r \in Counted : Known(r)
         /\ \A q \in Runs \ doubted : run[q].status \in Live => q \in Counted \/ Late(q)

\* What was in use at the listing fits the cap, covers what is in use since, and leaves out no
\* waiting run that is older than one of it.
Covers(W) ==
    /\ Cardinality(W) <= Cap /\ InUse \subseteq W
    /\ (tick.held \union SeenAs("active")) \ doubted \subseteq W
    /\ \A r \in Waiting \ doubted : exec[leader][r].pc # "idle" => r \in W
    /\ \A r, q \in Waiting : r \in W /\ run[q].at < run[r].at => q \in W \/ q \in doubted
RoomInv ==
    /\ Cardinality(InUse) <= Cap
    /\ tick.pc = "sweep" => \E W \in SUBSET Runs : Covers(W)

CapInv == AtInv /\ LoadInv /\ ListInv /\ RoomInv

-----------------------------------------------------------------------------
(* Sets of runs and the order of their creation. *)

LEMMA RunSet ==
    ASSUME NEW S, S \subseteq Runs
    PROVE  /\ IsFiniteSet(S) /\ Cardinality(S) \in Nat
           /\ \A T \in SUBSET S : Cardinality(T) <= Cardinality(S)
<1>1. IsFiniteSet(S)
  BY RunsFinite, FS_Subset
<1>2. QED
  BY <1>1, FS_CardinalityType, FS_Subset

LEMMA Least == ASSUME NEW T, T \subseteq Nat, T # {} PROVE \E x \in T : \A y \in T : x <= y
<1>1. PICK x \in T : \A y \in T : ~ (<<y, x>> \in OpToRel(<,Nat))
  BY NatLessThanWellFounded, WFMin, Zenon
<1>2. \A y \in T : x <= y
  <2>1. SUFFICES ASSUME NEW y \in T, y < x PROVE FALSE
    OBVIOUS
  <2>2. <<y, x>> \in OpToRel(<,Nat)
    BY <2>1 DEF OpToRel
  <2>3. QED
    BY <1>1, <2>2
<1>3. QED
  BY <1>2

LEMMA AtOf == ASSUME Shape, NEW r \in Runs PROVE run[r].at \in Nat
  BY DEF Shape, TypeOK, RunRecords

LEMMA Youngest ==
    ASSUME Shape, AtInv, NEW A, A \subseteq Recorded, A # {}
    PROVE  \E m \in A : \A x \in A : run[x].at <= run[m].at
<1> DEFINE n == Cardinality(Recorded)
           B == {n - run[x].at : x \in A}
<1>1. n \in Nat
  BY RunSet DEF Recorded
<1>2. \A x \in A : run[x].at \in Nat /\ run[x].at <= n
  BY AtOf DEF AtInv, Recorded
<1> HIDE DEF n
<1>3. B \subseteq Nat /\ B # {}
  BY <1>1, <1>2
<1>4. PICK b \in B : \A y \in B : b <= y
  BY <1>3, Least
<1>5. PICK m \in A : b = n - run[m].at
  BY <1>4
<1>6. \A x \in A : n - run[m].at <= n - run[x].at
  BY <1>4, <1>5
<1>7. QED
  BY <1>1, <1>2, <1>6

-----------------------------------------------------------------------------
(* What a step does to the records, the executions and the tick. *)

\* Records go on, one is added, or all are deleted with the job.
Adds == /\ run[op.new].status = "absent" /\ op.new \in Runs /\ job # "gone"
        /\ run' = [run EXCEPT ![op.new] = NewRun]
        /\ NewRun.status \in {"queued", "skipped"} /\ NewRun.at = 1 + Cardinality(Recorded)
Wipes == run' = [r \in Runs |-> NoRun] /\ job' = "gone"
RunEffect == (RunsGoOn \/ Adds \/ Wipes) /\ (job = "gone" => job' = "gone") /\ doubted \subseteq doubted'

LEMMA RunsChange == ASSUME Shape, RunsInv, Effect PROVE RunEffect
<1>0. doubted \subseteq doubted'
  BY EffectGrows DEF Grows, Doubts
<1> USE <1>0
<1>1. CASE run' = run /\ job' = job
  BY <1>1, RunsSame DEF RunEffect
<1>2. CASE RunsGoOn /\ job' = job
  BY <1>2 DEF RunEffect
<1>3. CASE RecordPut
  <2>1. op.pc = "record" /\ job' = job
    BY <1>3 DEF RecordPut
  <2>2. op.new \in Runs /\ NewRun.status \in {"queued", "skipped"} /\ job # "gone"
    BY <2>1, NewRunMeans DEF RunsInv, DeleteInv, Enqueues
  <2>3. NewRun.at = 1 + Cardinality(Recorded)
    BY DEF NewRun, Recorded
  <2>4. QED
    BY <1>1, <1>3, <2>1, <2>2, <2>3 DEF RecordPut, RunEffect, Adds
<1>4. CASE DeleteBegins \/ Hides
  BY <1>4, RunsSame DEF DeleteBegins, Hides, Loadable, RunEffect
<1>5. CASE DeleteFinishes
  BY <1>5 DEF DeleteFinishes, RunEffect, Wipes
<1>6. QED
  BY <1>1, <1>2, <1>3, <1>4, <1>5 DEF Effect, Calm, Fires, MarkerPut, Checked, Audited, Notified, Unmarked,
     Forgets, Finalizes, Triggers, DeleteUnmarks

\* A run becomes active only if some process has dispatched it.
NoneStarts == \A r \in Runs : run'[r].status \in Active => Using(r)

\* Executions go on, or end together with their process.
ExecGoesOn ==
    \A p \in Procs :
      \/ (\A r \in Runs : exec'[p][r].pc = "idle") /\ (p = leader => tick'.pc # "sweep")
      \/ \A r \in Runs :
           \/ exec'[p][r].pc = exec[p][r].pc
           \/ exec[p][r].pc = "load" /\ exec'[p][r].pc \in {"prepare", "final"} /\ run'[r].status # "queued"
           \/ exec[p][r].pc \notin {"idle", "load"} /\ exec'[p][r].pc # "load"

\* The tick is none that admits runs, or goes on, or is done with an entry of its listing.
TickOff ==
    /\ tick'.pc # "sweep"
    /\ \/ tick'.pc = tick.pc /\ tick'.held = tick.held /\ tick'.queue = tick.queue
       \/ tick'.held = {} /\ tick'.queue = {}
TickSame ==
    /\ leader' = leader /\ tick'.pc = tick.pc /\ tick'.held = tick.held /\ tick'.queue = tick.queue
    /\ SeenAs("active")' = SeenAs("active") /\ SeenAs("queued")' = SeenAs("queued")
EntryDone(r) ==
    /\ leader' = leader /\ tick.pc = "sweep" /\ tick'.pc = "sweep"
    /\ r \in tick.todo /\ tick'.todo = tick.todo \ {r}
    /\ \A q \in tick'.todo : tick'.seen[q] = tick.seen[q]
    /\ \/ /\ tick'.held = tick.held /\ tick'.queue = tick.queue
          /\ tick.seen[r] \in {"active", "queued"} => run'[r].status \notin Live
       \/ /\ tick'.held = tick.held /\ tick'.queue = tick.queue \union {r}
          /\ tick.seen[r] = "queued"
       \/ /\ tick'.held = tick.held \union {r} /\ tick'.queue = tick.queue /\ run' = run
          /\ tick.seen[r] = "active" \/ (tick.seen[r] = "queued" /\ exec[leader][r].pc # "idle")

StepKind ==
    \/ NoneStarts /\ ExecGoesOn /\ (TickOff \/ TickSame \/ \E r \in Runs : EntryDone(r))
    \/ List \/ Dispatch

LEMMA TickStays == ASSUME tick' = tick, leader' = leader PROVE TickSame
  BY DEF TickSame, SeenAs

LEMMA NoneStartsWhen ==
    ASSUME Shape, \A r \in Runs : \/ run'[r] = run[r] \/ run'[r].status \notin Active
                                  \/ run[r].status = "provisioning"
                                  \/ \E p \in Procs : exec[p][r].pc = "load" /\ run[r].status = "queued"
    PROVE  NoneStarts
  BY DEF NoneStarts, Using, Loaded, Active

LEMMA NoneStartsSame == ASSUME run' = run PROVE NoneStarts
  BY DEF NoneStarts, Using

LEMMA NoneStartsByEnd ==
    ASSUME Shape, NEW r \in Runs, NEW e \in {"fail", "cancel", "succeed", "start"}, run' = Transition(r, e)
    PROVE  NoneStarts
<1>1. \A q \in Runs \ {r} : run'[q] = run[q]
  BY TransitionMeans
<1>2. Legal(r, e) => run'[r].status = Edge[e]
  BY TransitionMeans
<1>3. ~Legal(r, e) => run' = run
  BY TransitionMeans
<1>4. e # "start" => Edge[e] \notin Active
  BY DEF Edge, Active
<1>5. Legal(r, "start") => run[r].status = "provisioning"
  BY DEF Legal, From
<1>6. QED
  BY <1>1, <1>2, <1>3, <1>4, <1>5, NoneStartsWhen

LEMMA NoneStartsByCancel == ASSUME Shape, NEW S, run' = CancelAll(S) PROVE NoneStarts
<1>1. \A r \in Runs : run'[r] = run[r] \/ run'[r].status = "cancelled"
  BY DEF CancelAll, Shape, TypeOK, RunRecords
<1>2. QED
  BY <1>1, NoneStartsWhen DEF Active

LEMMA ExecStays == ASSUME exec' = exec PROVE ExecGoesOn
  BY DEF ExecGoesOn

LEMMA ExecMoves ==
    ASSUME Shape, NEW p \in Procs, NEW r \in Runs,
           \A q \in Procs, s \in Runs : q # p \/ s # r => exec'[q][s].pc = exec[q][s].pc,
           \/ exec[p][r].pc = "load" /\ exec'[p][r].pc \in {"prepare", "final"} /\ run'[r].status # "queued"
           \/ exec[p][r].pc \notin {"idle", "load"} /\ exec'[p][r].pc # "load"
    PROVE  ExecGoesOn
  BY DEF ExecGoesOn

LEMMA TickReset ==
    ASSUME \/ tick' = NoTick
           \/ tick' = [NoTick EXCEPT !.pc = "list"]
           \/ \E b \in BOOLEAN : tick' = [NoTick EXCEPT !.pc = "fire", !.now = due, !.busy = b]
    PROVE  TickOff
<1>1. NoTick.pc = "idle" /\ NoTick.held = {} /\ NoTick.queue = {}
  BY DEF NoTick
<1>2. tick'.held = {} /\ tick'.queue = {}
  BY <1>1, NoTickTyped DEF Ticks
<1>3. tick'.pc # "sweep"
  BY <1>1, NoTickTyped DEF Ticks
<1>4. QED
  BY <1>2, <1>3 DEF TickOff

LEMMA EntryIs ==
    ASSUME Shape, NEW r \in Runs, Entry(r), leader' = leader,
           \/ /\ tick' = Done(r)
              /\ tick.seen[r] \in {"active", "queued"} => run'[r].status \notin Live
           \/ tick' = [Done(r) EXCEPT !.queue = @ \union {r}] /\ tick.seen[r] = "queued"
           \/ /\ tick' = [Done(r) EXCEPT !.held = @ \union {r}] /\ run' = run
              /\ tick.seen[r] = "active" \/ (tick.seen[r] = "queued" /\ exec[leader][r].pc # "idle")
    PROVE  EntryDone(r)
<1>1. tick \in Ticks /\ tick.pc = "sweep" /\ r \in tick.todo
  BY DEF Entry, Shape, TypeOK
<1>2. /\ Done(r) \in Ticks /\ Done(r).todo = tick.todo \ {r}
      /\ \A q \in tick.todo \ {r} : Done(r).seen[q] = tick.seen[q]
  BY DoneTyped
<1>3. Done(r).pc = "sweep" /\ Done(r).held = tick.held /\ Done(r).queue = tick.queue
  BY <1>1 DEF Done, Ticks
<1> DEFINE d == Done(r)
<1> HIDE DEF d
<1>4. CASE tick' = Done(r) /\ (tick.seen[r] \in {"active", "queued"} => run'[r].status \notin Live)
  BY <1>1, <1>2, <1>3, <1>4 DEF EntryDone
<1>5. CASE tick' = [Done(r) EXCEPT !.queue = @ \union {r}] /\ tick.seen[r] = "queued"
  <2>1. /\ tick'.todo = Done(r).todo /\ tick'.seen = Done(r).seen /\ tick'.pc = Done(r).pc
        /\ tick'.held = Done(r).held /\ tick'.queue = Done(r).queue \union {r}
    BY <1>2, <1>5 DEF Ticks
  <2>2. QED
    BY <1>1, <1>2, <1>3, <1>5, <2>1 DEF EntryDone
<1>6. CASE /\ tick' = [Done(r) EXCEPT !.held = @ \union {r}] /\ run' = run
           /\ tick.seen[r] = "active" \/ (tick.seen[r] = "queued" /\ exec[leader][r].pc # "idle")
  <2>1. /\ tick'.todo = Done(r).todo /\ tick'.seen = Done(r).seen /\ tick'.pc = Done(r).pc
        /\ tick'.held = Done(r).held \union {r} /\ tick'.queue = Done(r).queue
    BY <1>2, <1>6 DEF Ticks
  <2>2. QED
    BY <1>1, <1>2, <1>3, <1>6, <2>1 DEF EntryDone
<1>7. QED
  BY <1>4, <1>5, <1>6

\* Steps that leave records and executions alone.
LEMMA StillStep ==
    ASSUME Shape, run' = run, exec' = exec, TickOff \/ TickSame \/ \E r \in Runs : EntryDone(r)
    PROVE  StepKind
  BY NoneStartsSame, ExecStays DEF StepKind

LEMMA NotQueued ==
    ASSUME Shape, NEW r \in Runs, NEW e \in {"provision", "fail", "cancel"}, run' = Transition(r, e)
    PROVE  run'[r].status # "queued"
<1>1. Legal(r, e) => run'[r].status = Edge[e]
  BY TransitionMeans
<1>2. ~Legal(r, e) => run' = run
  BY TransitionMeans
<1>3. Edge[e] # "queued"
  BY DEF Edge
<1>4. ~Legal(r, e) => run[r].status # "queued"
  BY DEF Legal, From, Live
<1>5. QED
  BY <1>1, <1>2, <1>3, <1>4

LEMMA NotLive ==
    ASSUME Shape, NEW r \in Runs, NEW e \in {"fail", "cancel"}, run' = Transition(r, e)
    PROVE  run'[r].status \notin Live
<1>1. Legal(r, e) => run'[r].status = Edge[e]
  BY TransitionMeans
<1>2. ~Legal(r, e) => run' = run
  BY TransitionMeans
<1>3. Edge[e] \notin Live
  BY DEF Edge, Live, Active
<1>4. ~Legal(r, e) => run[r].status \notin Live
  BY DEF Legal, From
<1>5. QED
  BY <1>1, <1>2, <1>3, <1>4

\* The watchdog takes over the clean-up of an execution, which stays where it is.
LEMMA ExtOnly ==
    ASSUME Shape, NEW r \in Runs, exec' = exec \/ exec' = [exec EXCEPT ![leader][r].ext = TRUE]
    PROVE  \A q \in Procs, s \in Runs : exec'[q][s].pc = exec[q][s].pc
<1> SUFFICES ASSUME NEW q \in Procs, NEW s \in Runs PROVE exec'[q][s].pc = exec[q][s].pc
  OBVIOUS
<1> DEFINE x == [exec[leader][r] EXCEPT !.ext = TRUE]
<1>1. exec[q] \in [Runs -> Executions] /\ exec[q][s] \in Executions /\ leader \in Procs
      /\ exec[leader] \in [Runs -> Executions]
  BY DEF Shape, TypeOK
<1>2. exec' = exec \/ exec' = [exec EXCEPT ![leader] = [exec[leader] EXCEPT ![r] = x]]
  BY <1>1 DEF Shape, TypeOK
<1> HIDE DEF x
<1>3. exec'[q][s] = exec[q][s] \/ (q = leader /\ s = r /\ exec'[q][s] = x)
  BY <1>1, <1>2 DEF Shape, TypeOK
<1>4. exec'[q][s] = exec[q][s] \/ exec'[q][s] = [exec[q][s] EXCEPT !.ext = TRUE]
  BY <1>3 DEF x
<1>5. QED
  BY <1>1, <1>4 DEF Executions

LEMMA StepKinds == ASSUME Shape, RunsInv, Next PROVE StepKind
<1> USE DEF store, outside, config, pruning
<1>1. ASSUME tick' = tick, leader' = leader, run' = run, exec' = exec PROVE StepKind
  BY <1>1, StillStep, TickStays
<1>2. CASE BecomeDue \/ Trigger \/ DeleteBegin \/ HideNotebook \/ CrashApi \/ PutMarker \/ Audit \/ Notify
           \/ Unmark \/ UnmarkFails \/ Expire \/ DeleteUnmark \/ DestroyAll
  BY <1>1, <1>2 DEF BecomeDue, Trigger, DeleteBegin, HideNotebook, CrashApi, PutMarker, Audit, Notify,
     Unmark, UnmarkFails, Expire, DeleteUnmark, DestroyAll
<1>3. CASE PutRecord
  <2>1. NoneStarts
    <3>1. CASE run[op.new].status = "absent"
      <4>1. op.new \in Runs /\ NewRun.status \notin Active
        BY <1>3, NewRunMeans DEF PutRecord, Active
      <4>2. run' = [run EXCEPT ![op.new] = NewRun]
        BY <1>3, <3>1 DEF PutRecord
      <4>3. \A r \in Runs : run'[r] = run[r] \/ run'[r].status \notin Active
        BY <4>1, <4>2 DEF Shape, TypeOK
      <4>4. QED
        BY <4>3, NoneStartsWhen
    <3>2. QED
      BY <1>3, <3>1, NoneStartsSame DEF PutRecord
  <2>2. QED
    BY <1>3, <2>1, ExecStays, TickStays DEF PutRecord, StepKind
<1>4. CASE CheckDeleted
  <2>1. op.new \in Runs
    BY <1>4 DEF CheckDeleted, Shape, WellFormed, Enqueues
  <2>2. NoneStarts
    BY <1>4, <2>1, NoneStartsSame, NoneStartsByEnd DEF CheckDeleted
  <2>3. QED
    BY <1>4, <2>2, ExecStays, TickStays DEF CheckDeleted, StepKind
<1>5. CASE AfterRunFails
  <2>1. TickOff \/ TickSame
    BY <1>5, TickReset, TickStays DEF AfterRunFails
  <2>2. QED
    BY <1>5, <2>1, StillStep DEF AfterRunFails
<1>6. CASE TickStart \/ Fire \/ FireBusy
  <2>1. TickOff
    BY <1>6, TickReset DEF TickStart, Fire, FireBusy
  <2>2. QED
    BY <1>6, <2>1, StillStep DEF TickStart, Fire, FireBusy
<1>7. CASE List \/ Dispatch
  BY <1>7 DEF StepKind
<1>8. CASE DeleteCancel \/ HideCancel
  <2>1. NoneStarts
    BY <1>8, NoneStartsByCancel DEF DeleteCancel, HideCancel
  <2>2. QED
    BY <1>8, <2>1, ExecStays, TickStays DEF DeleteCancel, HideCancel, StepKind
<1>9. CASE DeleteFinish
  <2>1. \A r \in Runs : run'[r].status \notin Active
    BY <1>9 DEF DeleteFinish, NoRun, Active
  <2>2. NoneStarts
    BY <2>1, NoneStartsWhen
  <2>3. QED
    BY <1>9, <2>2, ExecStays, TickStays DEF DeleteFinish, StepKind
<1>10. ASSUME NEW p \in Procs, Crash(p) PROVE StepKind
  <2>1. NoExec.pc = "idle" /\ NoTick.pc # "sweep"
    BY DEF NoExec, NoTick
  <2>2. /\ \A r \in Runs : exec'[p][r].pc = "idle"
        /\ \A q \in Procs \ {p} : exec'[q] = exec[q]
    BY <1>10, <2>1 DEF Crash, Shape, TypeOK
  <2>3. leader = p => tick'.pc # "sweep"
    BY <1>10, <2>1 DEF Crash
  <2>4. ExecGoesOn
    BY <2>2, <2>3 DEF ExecGoesOn
  <2>5. TickOff \/ TickSame
    BY <1>10, TickReset, TickStays DEF Crash
  <2>6. QED
    BY <1>10, <2>4, <2>5, NoneStartsSame DEF Crash, StepKind
<1>11. ASSUME NEW p \in Procs, Handover(p) PROVE StepKind
  <2>1. TickOff
    BY <1>11 DEF Handover, TickOff
  <2>2. QED
    BY <1>11, <2>1, StillStep DEF Handover
<1>12. ASSUME NEW r \in Runs, TickYoung(r) \/ TickMissing(r) \/ TickPrune(r) \/ TickFinalize(r) \/ TickBusy(r)
       PROVE  StepKind
  <2>1. Entry(r) /\ leader' = leader /\ tick.seen[r] \notin {"active", "queued"} /\ run' = run /\ exec' = exec
    BY <1>12 DEF TickYoung, TickMissing, TickPrune, TickFinalize, TickBusy
  <2>2. CASE tick' = Done(r)
    BY <2>1, <2>2, EntryIs, StillStep
  <2>3. CASE tick' # Done(r)
    <3>1. r \in tick.todo /\ tick.seen[r] = "absent" /\ tick' = [tick EXCEPT !.seen[r] = "missing"]
      BY <1>12, <2>3 DEF TickYoung, TickMissing, TickPrune, TickFinalize, TickBusy, Entry
    <3>2. Noted(r)
      BY <3>1, NotedTyped
    <3>3. TickSame
      BY <2>1, <3>2 DEF Noted, TickSame, SeenAs
    <3>4. QED
      BY <2>1, <3>3, StillStep
  <2>4. QED
    BY <2>2, <2>3
<1>13. ASSUME NEW r \in Runs, TickQueued(r) PROVE StepKind
  <2>1. Entry(r) /\ leader' = leader /\ tick.seen[r] = "queued" /\ exec' = exec
    BY <1>13 DEF TickQueued
  <2>2. CASE Executing(r)
    <3>1. tick' = [Done(r) EXCEPT !.held = @ \union {r}] /\ run' = run /\ exec[leader][r].pc # "idle"
      BY <1>13, <2>2 DEF TickQueued, Executing
    <3>2. QED
      BY <2>1, <3>1, EntryIs, StillStep
  <2>3. CASE ~Executing(r) /\ Loadable
    <3>1. tick' = [Done(r) EXCEPT !.queue = @ \union {r}] /\ run' = run
      BY <1>13, <2>3 DEF TickQueued
    <3>2. QED
      BY <2>1, <3>1, EntryIs, StillStep
  <2>4. CASE ~Executing(r) /\ ~Loadable
    <3>1. tick' = Done(r) /\ run' = Transition(r, "cancel")
      BY <1>13, <2>4 DEF TickQueued
    <3>2. run'[r].status \notin Live /\ NoneStarts
      BY <3>1, NotLive, NoneStartsByEnd
    <3>3. EntryDone(r)
      BY <2>1, <3>1, <3>2, EntryIs
    <3>4. QED
      BY <2>1, <3>2, <3>3, ExecStays DEF StepKind
  <2>5. QED
    BY <2>2, <2>3, <2>4
<1>14. ASSUME NEW r \in Runs, TickRunning(r) PROVE StepKind
  <2>1. Entry(r) /\ leader' = leader /\ tick.seen[r] = "active" /\ exec' = exec /\ run' = run
        /\ tick' = [Done(r) EXCEPT !.held = @ \union {r}]
    BY <1>14 DEF TickRunning
  <2>2. QED
    BY <2>1, EntryIs, StillStep
<1>15. ASSUME NEW r \in Runs, TickWatchdog(r) PROVE StepKind
  <2>1. Entry(r) /\ leader' = leader /\ tick.seen[r] = "active" /\ run' = Transition(r, "fail")
    BY <1>15 DEF TickWatchdog
  <2>2. CASE ~Legal(r, "fail")
    <3>1. run' = run /\ exec' = exec /\ tick' = [Done(r) EXCEPT !.held = @ \union {r}]
      BY <1>15, <2>1, <2>2, TransitionMeans DEF TickWatchdog
    <3>2. QED
      BY <2>1, <3>1, EntryIs, StillStep
  <2>3. CASE Legal(r, "fail")
    <3>1. NoneStarts /\ run'[r].status \notin Live
      BY <2>1, NotLive, NoneStartsByEnd
    <3>2. tick' = Done(r) \/ tick' = NoTick
      BY <1>15, <2>3 DEF TickWatchdog
    <3>3. EntryDone(r) \/ TickOff
      BY <2>1, <3>1, <3>2, EntryIs, TickReset
    <3>4. exec' = exec \/ exec' = [exec EXCEPT ![leader][r].ext = TRUE]
      BY <1>15 DEF TickWatchdog
    <3>5. \A p \in Procs, s \in Runs : exec'[p][s].pc = exec[p][s].pc
      BY <3>4, ExtOnly
    <3>6. ExecGoesOn
      BY <3>5 DEF ExecGoesOn
    <3>7. QED
      BY <3>1, <3>3, <3>6 DEF StepKind
  <2>4. QED
    BY <2>2, <2>3
<1>16. ASSUME NEW r \in Runs, LateBoot(r) \/ PruneList(r) \/ PruneCheck(r) \/ PruneStale(r) \/ Reap(r) PROVE StepKind
  BY <1>1, <1>16 DEF LateBoot, PruneList, PruneCheck, PruneStale, Reap
<1>17. ASSUME NEW r \in Runs, Cancel(r) PROVE StepKind
  <2>1. NoneStarts
    BY <1>17, NoneStartsByEnd DEF Cancel
  <2>2. QED
    BY <1>17, <2>1, ExecStays, TickStays DEF Cancel, StepKind
<1>18. ASSUME NEW p \in Procs, NEW r \in Runs, ExecStep(p, r) PROVE StepKind
  <2>1. TickSame
    BY <1>18, TickStays DEF ExecStep, LoadFails, Provision, Prepared, PrepareFails, Export, Destroy, Finish, FinishBusy
  <2>2. CASE LoadFails(p, r)
    <3>1. run' = Transition(r, "fail") /\ exec[p][r].pc = "load" /\ Goto(p, r, "final")
      BY <2>2 DEF LoadFails, At
    <3>2. QED
      BY <2>1, <3>1, NotQueued, NoneStartsByEnd, GotoTyped, ExecMoves DEF StepKind
  <2>3. CASE Provision(p, r)
    <3>1. /\ run' = Transition(r, "provision") /\ exec[p][r].pc = "load"
          /\ \E pc \in {"prepare", "final"} : Goto(p, r, pc)
      BY <2>3 DEF Provision, At
    <3>2. ExecGoesOn
      BY <3>1, NotQueued, GotoTyped, ExecMoves
    <3>3. Legal(r, "provision") => run[r].status = "queued"
      BY DEF Legal, From
    <3>4. \A q \in Runs : \/ run'[q] = run[q]
                          \/ q = r /\ exec[p][r].pc = "load" /\ run[r].status = "queued"
      BY <3>1, <3>3, TransitionMeans
    <3>5. NoneStarts
      BY <3>4, NoneStartsWhen
    <3>6. QED
      BY <2>1, <3>2, <3>5 DEF StepKind
  <2>4. CASE Prepared(p, r)
    <3>1. run' = Transition(r, "start") /\ exec[p][r].pc = "prepare" /\ \E pc \in {"export", "destroy"} : Goto(p, r, pc)
      BY <2>4 DEF Prepared, At
    <3>2. ExecGoesOn
      BY <3>1, GotoTyped, ExecMoves
    <3>3. QED
      BY <2>1, <3>1, <3>2, NoneStartsByEnd DEF StepKind
  <2>5. CASE PrepareFails(p, r) \/ Export(p, r)
    <3>1. /\ exec[p][r].pc \in {"prepare", "export"} /\ \E pc \in {"destroy", "final"} : Goto(p, r, pc)
          /\ \E e \in {"fail", "succeed"} : run' = Transition(r, e)
      BY <2>5 DEF PrepareFails, Export, At
    <3>2. ExecGoesOn
      BY <3>1, GotoTyped, ExecMoves
    <3>3. QED
      BY <2>1, <3>1, <3>2, NoneStartsByEnd DEF StepKind
  <2>6. CASE Destroy(p, r)
    <3>1. exec[p][r].pc = "destroy" /\ Goto(p, r, "final") /\ run' = run
      BY <2>6 DEF Destroy, At
    <3>2. ExecGoesOn
      BY <3>1, GotoTyped, ExecMoves
    <3>3. QED
      BY <2>1, <3>1, <3>2, NoneStartsSame DEF StepKind
  <2>7. CASE Finish(p, r) \/ FinishBusy(p, r)
    <3>1. exec[p][r].pc = "final" /\ exec' = [exec EXCEPT ![p][r] = NoExec] /\ run' = run
      BY <2>7 DEF Finish, FinishBusy, At
    <3>2. NoExec.pc = "idle"
      BY DEF NoExec
    <3>3. /\ exec'[p][r] = NoExec
          /\ \A q \in Procs, s \in Runs : q # p \/ s # r => exec'[q][s] = exec[q][s]
      BY <3>1 DEF Shape, TypeOK
    <3>4. ExecGoesOn
      BY <3>1, <3>2, <3>3, ExecMoves
    <3>5. QED
      BY <2>1, <3>1, <3>4, NoneStartsSame DEF StepKind
  <2>8. QED
    BY <1>18, <2>2, <2>3, <2>4, <2>5, <2>6, <2>7 DEF ExecStep
<1>19. QED
  BY NextCases, <1>2, <1>3, <1>4, <1>5, <1>6, <1>7, <1>8, <1>9, <1>10, <1>11, <1>12, <1>13, <1>14, <1>15, <1>16,
     <1>17, <1>18 DEF ExecStep

-----------------------------------------------------------------------------
(* What is known of a run stays known. *)

LEMMA KnownGoesOn ==
    ASSUME Shape, RunEffect, NEW r \in Runs, Known(r)
    PROVE  /\ Known(r)'
           /\ run'[r].status = "queued" => run'[r] = run[r]
           /\ run'[r].status \in Live => run[r].status \in Live /\ run'[r].at = run[r].at
           /\ run'[r].status \in Live /\ run[r].status \in Active => run'[r].status \in Active
           /\ Wipes \/ run'[r].at = run[r].at
<1>1. CASE RunsGoOn
  <2>1. run'[r] = run[r] \/ GoesOn(r)
    BY <1>1 DEF RunsGoOn
  <2>2. CASE run'[r] = run[r]
    BY <2>2 DEF Known, RunEffect
  <2>3. CASE GoesOn(r)
    <3>1. run'[r].status # "queued" /\ run'[r].status # "absent" /\ (run'[r].status \in Live => run'[r].status \in Active)
      BY <2>3 DEF GoesOn, Active, Live, Terminal
    <3>2. QED
      BY <2>3, <3>1 DEF GoesOn, Known
  <2>4. QED
    BY <2>1, <2>2, <2>3
<1>2. CASE Adds
  <2>1. r # op.new
    BY <1>2 DEF Adds, Known
  <2>2. run'[r] = run[r]
    BY <1>2, <2>1 DEF Adds, Shape, TypeOK
  <2>3. QED
    BY <2>2 DEF Known, RunEffect
<1>3. CASE Wipes
  <2>1. run'[r].status = "absent" /\ job' = "gone"
    BY <1>3 DEF Wipes, NoRun
  <2>2. QED
    BY <1>3, <2>1, Statuses DEF Known, Live
<1>4. QED
  BY <1>1, <1>2, <1>3 DEF RunEffect

LEMMA NewIsAdded ==
    ASSUME Shape, RunEffect, NEW r \in Runs, ~Known(r), run'[r].status \in Live
    PROVE  /\ Adds /\ run'[r].status = "queued" /\ run'[r].at = 1 + Cardinality(Recorded)
           /\ \A q \in Runs : q # r => run'[q] = run[q]
<1>1. run[r].status = "absent"
  BY DEF Known
<1>2. ~RunsGoOn
  <2>1. RunsGoOn => run'[r] = run[r]
    BY <1>1, OverStays, Statuses
  <2>2. QED
    BY <1>1, <2>1, Statuses
<1>3. ~Wipes
  BY Statuses DEF Wipes, NoRun
<1>4. Adds
  BY <1>2, <1>3 DEF RunEffect
<1>5. r = op.new
  <2>1. r # op.new => run'[r] = run[r]
    BY <1>4 DEF Adds, Shape, TypeOK
  <2>2. QED
    BY <1>1, <2>1, Statuses
<1>6. run'[r] = NewRun /\ \A q \in Runs : q # r => run'[q] = run[q]
  BY <1>4, <1>5 DEF Adds, Shape, TypeOK
<1>7. "skipped" \notin Live
  BY DEF Live, Active
<1>8. QED
  BY <1>4, <1>6, <1>7 DEF Adds

LEMMA AtKept == ASSUME Shape, AtInv, RunEffect PROVE AtInv'
<1> DEFINE R == Recorded
<1>a. IsFiniteSet(R) /\ Cardinality(R) \in Nat
  BY RunSet DEF Recorded
<1>b. \A r \in Runs : run[r].at \in Nat
  BY AtOf
<1>1. CASE RunsGoOn
  <2>1. \A r \in Runs : run'[r].at = run[r].at /\ (run'[r].status = "absent" <=> run[r].status = "absent")
    BY <1>1, Statuses DEF RunsGoOn, GoesOn, Live
  <2>2. Recorded' = Recorded
    BY <2>1 DEF Recorded
  <2>3. QED
    BY <2>1, <2>2 DEF AtInv, Recorded
<1>2. CASE Adds
  <2>1. run'[op.new] = NewRun /\ \A r \in Runs : r # op.new => run'[r] = run[r]
    BY <1>2 DEF Adds, Shape, TypeOK
  <2>2. Recorded' = R \union {op.new} /\ op.new \notin R
    BY <1>2, <2>1 DEF Adds, Recorded
  <2>3. NewRun.at = 1 + Cardinality(R)
    BY <1>2 DEF Adds
  <2>4. \A r \in R : run'[r] = run[r] /\ run[r].at \in Nat /\ run[r].at <= Cardinality(R)
    BY <1>b, <2>1, <2>2 DEF AtInv, Recorded
  <2>5. \A r, q \in R : run[r].at = run[q].at => r = q
    BY DEF AtInv
  <2> HIDE DEF R
  <2>6. Cardinality(Recorded') = Cardinality(R) + 1
    BY <1>a, <2>2, FS_AddElement
  <2>7. \A r \in Recorded' : run'[r].at <= Cardinality(Recorded')
    BY <1>a, <2>1, <2>2, <2>3, <2>4, <2>6
  <2>8. \A r, q \in Recorded' : run'[r].at = run'[q].at => r = q
    BY <1>a, <2>1, <2>2, <2>3, <2>4, <2>5
  <2>9. QED
    BY <2>7, <2>8 DEF AtInv
<1>3. CASE Wipes
  <2>1. Recorded' = {}
    BY <1>3 DEF Wipes, Recorded, NoRun
  <2>2. QED
    BY <2>1 DEF AtInv
<1>4. QED
  BY <1>1, <1>2, <1>3 DEF RunEffect

\* A dispatched run was dispatched before, and stays so with its process until it is taken up.
LEMMA LoadedBack ==
    ASSUME Shape, LoadInv, RunEffect, ExecGoesOn, NEW p \in Procs, NEW r \in Runs, Loaded(p, r)'
    PROVE  Loaded(p, r) /\ Known(r) /\ run'[r] = run[r]
<1>1. exec[p][r].pc = "load"
  BY DEF Loaded, ExecGoesOn
<1>2. Known(r)
  BY <1>1 DEF LoadInv
<1>3. QED
  BY <1>1, <1>2, KnownGoesOn DEF Loaded

LEMMA LoadedOn ==
    ASSUME Shape, LoadInv, RunEffect, ExecGoesOn, NEW p \in Procs, NEW r \in Runs, Loaded(p, r),
           run'[r].status = "queued"
    PROVE  \/ Loaded(p, r)'
           \/ (\A s \in Runs : exec'[p][s].pc = "idle") /\ (p = leader => tick'.pc # "sweep")
  BY DEF Loaded, ExecGoesOn

LEMMA InUseShrinks ==
    ASSUME Shape, LoadInv, RunEffect, ExecGoesOn, NoneStarts
    PROVE  InUse' \subseteq InUse /\ \A r \in Runs : Using(r)' => Using(r)
<1>1. ASSUME NEW r \in Runs, Using(r)' PROVE Using(r)
  <2>1. CASE run'[r].status \in Active
    BY <2>1 DEF NoneStarts
  <2>2. CASE \E p \in Procs : Loaded(p, r)'
    BY <2>2, LoadedBack DEF Using
  <2>3. QED
    BY <1>1, <2>1, <2>2 DEF Using
<1>2. QED
  BY <1>1 DEF InUse, RunEffect

LEMMA LoadKept ==
    ASSUME Shape, AtInv, LoadInv, RunEffect, ExecGoesOn PROVE LoadInv'
<1>1. ASSUME NEW p \in Procs, NEW r \in Runs, exec'[p][r].pc # "idle" PROVE Known(r)'
  <2>1. exec[p][r].pc # "idle"
    BY <1>1 DEF ExecGoesOn
  <2>2. QED
    BY <2>1, KnownGoesOn DEF LoadInv
<1>2. ASSUME NEW p \in Procs, NEW r \in Runs, exec'[p][r].pc \notin {"idle", "load"} PROVE run'[r].status # "queued"
  <2>1. \/ exec[p][r].pc \notin {"idle", "load"} \/ run'[r].status # "queued"
    BY <1>2 DEF ExecGoesOn
  <2>2. CASE exec[p][r].pc \notin {"idle", "load"}
    BY <2>2, KnownGoesOn DEF LoadInv
  <2>3. QED
    BY <2>1, <2>2
<1>3. ASSUME NEW p \in Procs, NEW r \in Runs, NEW q \in Runs,
             Loaded(p, r)', run'[q].status \in Live, run'[q].at < run'[r].at
      PROVE  run'[q].status \in Active \/ Loaded(p, q)' \/ q \in doubted'
  <2>1. Loaded(p, r) /\ Known(r) /\ run'[r] = run[r]
    BY <1>3, LoadedBack
  <2>2. Known(q)
    <3>1. SUFFICES ASSUME ~Known(q) PROVE FALSE
      OBVIOUS
    <3>2. run'[q].at = 1 + Cardinality(Recorded) /\ Adds
      BY <1>3, <3>1, NewIsAdded
    <3>3. r \in Recorded
      BY <2>1, <3>2 DEF Adds, Known, Recorded
    <3>4. run[r].at <= Cardinality(Recorded) /\ run[r].at \in Nat /\ Cardinality(Recorded) \in Nat
      BY <3>3, AtOf, RunSet DEF AtInv, Recorded
    <3>5. QED
      BY <1>3, <2>1, <3>2, <3>4
  <2>3. run[q].status \in Live /\ run'[q].at = run[q].at
    BY <1>3, <2>2, KnownGoesOn
  <2>4. run[q].status \in Active \/ Loaded(p, q) \/ q \in doubted'
    BY <1>3, <2>1, <2>3 DEF LoadInv, RunEffect
  <2>5. CASE run[q].status \in Active
    BY <1>3, <2>2, <2>5, KnownGoesOn
  <2>6. CASE Loaded(p, q) /\ run'[q].status = "queued"
    <3>1. exec'[p][r].pc # "idle"
      BY <1>3 DEF Loaded
    <3>2. QED
      BY <2>6, <3>1, LoadedOn
  <2>7. QED
    BY <1>3, <2>4, <2>5, <2>6 DEF Live
<1>4. QED
  BY <1>1, <1>2, <1>3 DEF LoadInv

-----------------------------------------------------------------------------
(* A listing that is worked off. *)

TickOn ==
    /\ leader' = leader /\ tick.pc = "sweep" /\ tick'.pc = "sweep"
    /\ Waiting' \subseteq Waiting /\ Counted' \subseteq Counted
    /\ SeenAs("active")' \subseteq SeenAs("active")
    /\ \A q \in Counted \ Counted' : run'[q].status \notin Live
    /\ \A r \in tick'.held :
         \/ r \in tick.held
         \/ r \in SeenAs("active") /\ run' = run
         \/ r \in Waiting /\ exec[leader][r].pc # "idle" /\ run' = run

LEMMA TickGoesOn ==
    ASSUME Shape, TickOff \/ TickSame \/ \E r \in Runs : EntryDone(r)
    PROVE  TickOff \/ TickOn
<1>1. CASE TickSame
  BY <1>1 DEF TickSame, TickOff, TickOn, Waiting, Counted
<1>2. ASSUME NEW r \in Runs, EntryDone(r) PROVE TickOn
  <2>1. /\ leader' = leader /\ tick.pc = "sweep" /\ tick'.pc = "sweep"
        /\ r \in tick.todo /\ tick'.todo = tick.todo \ {r}
        /\ \A q \in tick'.todo : tick'.seen[q] = tick.seen[q]
    BY <1>2 DEF EntryDone
  <2>2. /\ SeenAs("active")' = SeenAs("active") \ {r}
        /\ SeenAs("queued")' = SeenAs("queued") \ {r}
    BY <2>1 DEF SeenAs
  <2>3. /\ r \in SeenAs("active") <=> tick.seen[r] = "active"
        /\ r \in SeenAs("queued") <=> tick.seen[r] = "queued"
    BY <2>1 DEF SeenAs
  <2>4. CASE /\ tick'.held = tick.held /\ tick'.queue = tick.queue
             /\ tick.seen[r] \in {"active", "queued"} => run'[r].status \notin Live
    BY <2>1, <2>2, <2>3, <2>4 DEF TickOn, Waiting, Counted
  <2>5. CASE /\ tick'.held = tick.held /\ tick'.queue = tick.queue \union {r}
             /\ tick.seen[r] = "queued"
    BY <2>1, <2>2, <2>3, <2>5 DEF TickOn, Waiting, Counted
  <2>6. CASE /\ tick'.held = tick.held \union {r} /\ tick'.queue = tick.queue /\ run' = run
             /\ tick.seen[r] = "active" \/ (tick.seen[r] = "queued" /\ exec[leader][r].pc # "idle")
    BY <2>1, <2>2, <2>3, <2>6 DEF TickOn, Waiting, Counted
  <2>7. QED
    BY <1>2, <2>4, <2>5, <2>6 DEF EntryDone
<1>3. QED
  BY <1>1, <1>2

\* What a tick holds are runs.
LEMMA CountedRuns == ASSUME Shape PROVE Counted \subseteq Runs /\ Waiting \subseteq Counted /\ Waiting \subseteq Runs
  BY DEF Shape, TypeOK, Ticks, Counted, Waiting, SeenAs

LEMMA ListKept ==
    ASSUME Shape, AtInv, LoadInv, ListInv, RunEffect, NoneStarts, ExecGoesOn, TickOff \/ TickOn
    PROVE  ListInv'
<1>1. CASE TickOff
  BY <1>1 DEF TickOff, ListInv
<1>2. CASE TickOn
  <2>1. tick.pc = "sweep" /\ tick'.pc = "sweep" /\ leader' = leader /\ leader \in Procs
    BY <1>2 DEF TickOn, Shape, TypeOK
  <2>2. \A r \in Counted : r \in Runs /\ Known(r)
    BY <2>1, CountedRuns DEF ListInv
  <2>3. ASSUME NEW r \in SeenAs("active")' PROVE run'[r].status # "queued"
    <3>1. r \in SeenAs("active") /\ r \in Counted
      BY <1>2 DEF TickOn, Counted
    <3>2. run[r].status # "queued"
      BY <2>1, <3>1 DEF ListInv
    <3>3. QED
      BY <2>2, <3>1, <3>2, KnownGoesOn
  <2>4. ASSUME NEW r \in tick'.held, run'[r].status = "queued" PROVE Loaded(leader, r)'
    <3>1. r \in Counted
      BY <1>2, <2>4 DEF TickOn, Counted
    <3>2. r \in Runs /\ run[r].status = "queued"
      BY <2>2, <2>4, <3>1, KnownGoesOn
    <3>3. r \notin SeenAs("active")
      BY <2>1, <3>2 DEF ListInv
    <3>4. exec[leader][r].pc # "idle" => Loaded(leader, r)
      BY <2>1, <3>2 DEF LoadInv, Loaded
    <3>5. Loaded(leader, r)
      BY <1>2, <2>1, <3>2, <3>3, <3>4 DEF TickOn, ListInv
    <3>6. QED
      BY <2>1, <2>4, <3>2, <3>5, LoadedOn DEF Loaded
  <2>5. \A r \in Counted' : Known(r)'
    BY <1>2, <2>2, KnownGoesOn DEF TickOn
  <2>6. ASSUME NEW q \in Runs \ doubted', run'[q].status \in Live, q \notin Counted' PROVE Late(q)'
    <3>1. q \notin Counted
      BY <1>2, <2>6 DEF TickOn
    <3>2. CASE Known(q)
      <4>1. run[q].status \in Live /\ run'[q].at = run[q].at
        BY <2>6, <3>2, KnownGoesOn
      <4>2. Late(q)
        BY <2>1, <3>1, <4>1 DEF ListInv, RunEffect
      <4>3. ~Using(q)'
        BY <4>2, InUseShrinks DEF Late
      <4>4. ~Wipes
        BY <2>6, Statuses DEF Wipes, NoRun
      <4>5. \A r \in Waiting' : r \in Waiting /\ run'[r].at = run[r].at
        BY <1>2, <2>2, <4>4, CountedRuns, KnownGoesOn DEF TickOn
      <4>6. \A r \in Waiting : run[r].at < run[q].at
        BY <4>2 DEF Late
      <4>7. QED
        BY <4>1, <4>3, <4>5, <4>6 DEF Late
    <3>3. CASE ~Known(q)
      <4>1. /\ Adds /\ run'[q].status = "queued" /\ run'[q].at = 1 + Cardinality(Recorded)
            /\ \A r \in Runs : r # q => run'[r] = run[r]
        BY <2>6, <3>3, NewIsAdded
      <4>2. ~Using(q)
        BY <3>3, Statuses DEF Using, Loaded, Known
      <4>3. ~Using(q)'
        BY <4>2, InUseShrinks
      <4>4. \A r \in Waiting' : r \in Recorded /\ r # q
        BY <1>2, <2>2, <3>3, <4>1, CountedRuns DEF TickOn, Adds, Known, Recorded
      <4>5. \A r \in Recorded : run[r].at \in Nat /\ run[r].at <= Cardinality(Recorded)
        BY AtOf DEF AtInv, Recorded
      <4>6. Cardinality(Recorded) \in Nat /\ Recorded \subseteq Runs
        BY RunSet DEF Recorded
      <4>7. \A r \in Waiting' : run'[r].at < run'[q].at
        BY <4>1, <4>4, <4>5, <4>6
      <4>8. QED
        BY <4>3, <4>7 DEF Late
    <3>4. QED
      BY <3>2, <3>3
  <2>7. QED
    BY <2>1, <2>3, <2>4, <2>5, <2>6 DEF ListInv
<1>3. QED
  BY <1>1, <1>2

LEMMA RoomKept ==
    ASSUME Shape, LoadInv, ListInv, RoomInv, RunEffect, NoneStarts, ExecGoesOn, TickOff \/ TickOn
    PROVE  RoomInv'
<1>1. InUse' \subseteq InUse
  BY InUseShrinks
<1>2. Cardinality(InUse') <= Cap
  <2>1. InUse \subseteq Runs
    BY DEF InUse
  <2>2. Cardinality(InUse) \in Nat /\ Cardinality(InUse') \in Nat /\ Cardinality(InUse') <= Cardinality(InUse)
    BY <1>1, <2>1, RunSet
  <2>3. QED
    BY <2>2, JobsAssumption DEF RoomInv
<1>3. CASE TickOff
  BY <1>2, <1>3 DEF TickOff, RoomInv
<1>4. CASE TickOn
  <2>1. tick.pc = "sweep" /\ tick'.pc = "sweep" /\ leader' = leader /\ leader \in Procs
    BY <1>4 DEF TickOn, Shape, TypeOK
  <2>2. PICK W \in SUBSET Runs : Covers(W)
    BY <2>1 DEF RoomInv
  <2>3. \A r \in Counted : r \in Runs /\ Known(r)
    BY <2>1, CountedRuns DEF ListInv
  <2>4. InUse' \subseteq W
    BY <1>1, <2>2 DEF Covers
  <2>5. (tick.held \union SeenAs("active"))' \ doubted' \subseteq W
    BY <1>4, <2>2 DEF TickOn, Covers, RunEffect
  <2>6. \A r \in Waiting' : r \in Waiting /\ r \in Runs /\ Known(r)
    BY <1>4, <2>3, CountedRuns DEF TickOn
  <2>7. \A r \in Waiting' \ doubted' : exec'[leader][r].pc # "idle" => r \in W
    <3>1. \A r \in Runs : exec'[leader][r].pc # "idle" => exec[leader][r].pc # "idle"
      BY <2>1 DEF ExecGoesOn
    <3>2. QED
      BY <2>2, <2>6, <3>1 DEF Covers, RunEffect
  <2>8. ASSUME NEW r \in Waiting', NEW q \in Waiting', r \in W, run'[q].at < run'[r].at
        PROVE  q \in W \/ q \in doubted'
    <3>1. CASE Wipes
      <4>1. run'[q].at = 0 /\ run'[r].at = 0
        BY <2>6, <3>1 DEF Wipes, NoRun
      <4>2. QED
        BY <2>8, <4>1
    <3>2. CASE ~Wipes
      <4>1. run'[q].at = run[q].at /\ run'[r].at = run[r].at
        BY <2>6, <3>2, KnownGoesOn
      <4>2. QED
        BY <2>2, <2>6, <2>8, <4>1 DEF Covers, RunEffect
    <3>3. QED
      BY <3>1, <3>2
  <2>9. Covers(W)'
    BY <2>1, <2>2, <2>4, <2>5, <2>7, <2>8 DEF Covers
  <2>10. QED
    BY <1>2, <2>9 DEF RoomInv
<1>5. QED
  BY <1>3, <1>4

-----------------------------------------------------------------------------
(* A new listing, and the dispatch at the end of the tick. *)

LEMMA ListStep ==
    ASSUME Shape, RunsInv, LoadInv, ListInv, RoomInv, List
    PROVE  LoadInv' /\ ListInv' /\ RoomInv'
<1> USE DEF store, config, pruning
<1>1. run' = run /\ exec' = exec /\ job' = job /\ doubted' = doubted /\ leader' = leader /\ leader \in Procs
  BY DEF List, Shape, TypeOK
<1>2. /\ tick'.pc = "sweep" /\ tick'.todo = Marked /\ tick'.seen = Listed
      /\ tick'.held = {} /\ tick'.queue = {}
  <2>1. tick \in Ticks /\ tick.held = {} /\ tick.queue = {}
    BY DEF List, ListInv, Shape, TypeOK
  <2>2. QED
    BY <2>1 DEF List, Ticks
<1>3. \A r \in Marked : /\ r \in Runs
                        /\ Listed[r] = "active" <=> run[r].status \in Active
                        /\ Listed[r] = "queued" <=> run[r].status = "queued"
  <2>1. \A r \in Runs : run[r].status \in Terminal \union Live \union {"absent"}
    BY StatusOf
  <2>2. QED
    BY <2>1 DEF Listed, Marked, Terminal, Live, Active
<1>4. /\ SeenAs("active")' = {r \in Marked : run[r].status \in Active}
      /\ Waiting' = {r \in Marked : run[r].status = "queued"}
      /\ Counted' = {r \in Marked : run[r].status \in Live}
  <2>1. /\ SeenAs("active")' = {r \in Marked : Listed[r] = "active"}
        /\ SeenAs("queued")' = {r \in Marked : Listed[r] = "queued"}
    BY <1>2 DEF SeenAs
  <2>2. /\ SeenAs("active")' = {r \in Marked : run[r].status \in Active}
        /\ SeenAs("queued")' = {r \in Marked : run[r].status = "queued"}
    BY <1>3, <2>1
  <2>3. Waiting' = SeenAs("queued")' /\ Counted' = SeenAs("active")' \union SeenAs("queued")'
    BY <1>2 DEF Waiting, Counted
  <2>4. QED
    BY <2>2, <2>3 DEF Live
<1>5. /\ \A p \in Procs, r \in Runs : Loaded(p, r)' <=> Loaded(p, r)
      /\ \A r \in Runs : Using(r)' <=> Using(r)
  BY <1>1 DEF Loaded, Using
<1>6. InUse' = InUse
  BY <1>1, <1>5 DEF InUse
<1>7. LoadInv'
  BY <1>1, <1>5 DEF LoadInv, Known
<1>8. ListInv'
  <2>1. \A r \in SeenAs("active")' : run'[r].status # "queued"
    BY <1>1, <1>4, Statuses
  <2>2. \A r \in Counted' : Known(r)'
    BY <1>1, <1>4, Statuses DEF Known
  <2>3. \A q \in Runs \ doubted' : run'[q].status \in Live => q \in Counted'
    BY <1>1, <1>4 DEF RunsInv, LiveRunsMarked, Marked
  <2>4. QED
    BY <1>2, <2>1, <2>2, <2>3 DEF ListInv
<1>9. Covers(InUse)'
  <2>1. Cardinality(InUse') <= Cap
    BY <1>6 DEF RoomInv
  <2>2. (tick.held \union SeenAs("active"))' \ doubted' \subseteq InUse'
    BY <1>1, <1>2, <1>3, <1>4, <1>6 DEF InUse, Using
  <2>3. ASSUME NEW r \in Waiting' \ doubted', exec'[leader'][r].pc # "idle" PROVE r \in InUse'
    <3>1. r \in Runs /\ run[r].status = "queued" /\ exec[leader][r].pc # "idle"
      BY <1>1, <1>3, <1>4, <2>3
    <3>2. exec[leader][r].pc = "load"
      BY <1>1, <3>1 DEF LoadInv
    <3>3. QED
      BY <1>1, <1>6, <3>1, <3>2 DEF InUse, Using, Loaded
  <2>4. ASSUME NEW r \in Waiting', NEW q \in Waiting', r \in InUse', run'[q].at < run'[r].at
        PROVE  q \in InUse' \/ q \in doubted'
    <3>1. r \in Runs /\ q \in Runs /\ run[r].status = "queued" /\ run[q].status = "queued" /\ run[q].at < run[r].at
      BY <1>1, <1>3, <1>4, <2>4
    <3>2. PICK p \in Procs : Loaded(p, r)
      BY <1>6, <2>4, <3>1, Statuses DEF InUse, Using
    <3>3. run[q].status \in Active \/ Loaded(p, q) \/ q \in doubted
      BY <3>1, <3>2 DEF LoadInv, Live
    <3>4. QED
      BY <1>1, <1>6, <3>1, <3>3 DEF InUse, Using
  <2>5. QED
    BY <2>1, <2>2, <2>3, <2>4 DEF Covers
<1>10. RoomInv'
  <2>1. InUse' \in SUBSET Runs
    BY DEF InUse
  <2>2. QED
    BY <1>6, <1>9, <2>1 DEF RoomInv
<1>11. QED
  BY <1>7, <1>8, <1>10

\* The older of two waiting runs is admitted first.
LEMMA OlderAdmitted ==
    ASSUME Shape, NEW r \in Admitted, NEW q \in tick.queue, run[q].at <= run[r].at
    PROVE  q \in Admitted
<1> DEFINE Before(x) == {s \in tick.queue : run[s].at < run[x].at}
<1>1. tick.queue \subseteq Runs /\ tick.held \subseteq Runs /\ r \in tick.queue
  BY DEF Shape, TypeOK, Ticks, Admitted
<1>2. \A s \in tick.queue : run[s].at \in Nat
  BY <1>1, AtOf
<1>3. Before(q) \subseteq Before(r) /\ Before(r) \subseteq Runs
  BY <1>1, <1>2
<1>4. Cardinality(tick.held) + Cardinality(Before(r)) < Cap
  BY DEF Admitted
<1> HIDE DEF Before
<1>5. /\ Cardinality(Before(q)) \in Nat /\ Cardinality(Before(r)) \in Nat /\ Cardinality(tick.held) \in Nat
      /\ Cardinality(Before(q)) <= Cardinality(Before(r))
  BY <1>1, <1>3, RunSet
<1>6. Cardinality(tick.held) + Cardinality(Before(q)) < Cap
  BY <1>4, <1>5, JobsAssumption
<1>7. QED
  BY <1>6 DEF Admitted, Before

\* What counts as running and what is admitted fits the cap.
LEMMA AdmittedFit ==
    ASSUME Shape, AtInv, NEW a \in Admitted \intersect Recorded
    PROVE  Cardinality(tick.held \union (Admitted \intersect Recorded)) <= Cap
<1> DEFINE A == Admitted \intersect Recorded
<1>1. tick.queue \subseteq Runs /\ tick.held \subseteq Runs /\ A \subseteq tick.queue /\ A \subseteq Recorded
  BY DEF Shape, TypeOK, Ticks, Admitted
<1>2. PICK m \in A : \A x \in A : run[x].at <= run[m].at
  BY <1>1, Youngest
<1> DEFINE B == {s \in tick.queue : run[s].at < run[m].at}
<1>3. Cardinality(tick.held) + Cardinality(B) < Cap
  BY <1>2 DEF Admitted
<1>4. A \subseteq B \union {m}
  <2>1. SUFFICES ASSUME NEW x \in A, x # m PROVE x \in B
    OBVIOUS
  <2>2. run[x].at \in Nat /\ run[m].at \in Nat /\ run[x].at <= run[m].at
    BY <1>1, <1>2, AtOf
  <2>3. run[x].at # run[m].at
    BY <1>1, <1>2, <2>1 DEF AtInv
  <2>4. QED
    BY <1>1, <2>2, <2>3
<1>5. B \subseteq Runs /\ m \in Runs /\ m \notin B
  <2>1. run[m].at \in Nat /\ m \in Runs
    BY <1>1, <1>2, AtOf
  <2>2. QED
    BY <1>1, <2>1
<1> HIDE DEF A, B
<1>6. IsFiniteSet(B) /\ Cardinality(B) \in Nat /\ IsFiniteSet(tick.held) /\ Cardinality(tick.held) \in Nat
  BY <1>1, <1>5, RunSet
<1> DEFINE C == B \union {m}
<1>7. IsFiniteSet(C) /\ Cardinality(C) = Cardinality(B) + 1
  BY <1>5, <1>6, FS_AddElement
<1>8. C \subseteq Runs /\ A \subseteq C
  BY <1>4, <1>5
<1> HIDE DEF C
<1>9. Cardinality(tick.held \union C) = Cardinality(tick.held) + Cardinality(C) - Cardinality(tick.held \intersect C)
  BY <1>6, <1>7, FS_Union
<1>10. Cardinality(tick.held \intersect C) \in Nat
  BY <1>1, RunSet
<1>11. /\ Cardinality(tick.held \union C) \in Nat /\ Cardinality(tick.held \union A) \in Nat
       /\ Cardinality(tick.held \union A) <= Cardinality(tick.held \union C)
  <2>1. tick.held \union C \subseteq Runs /\ tick.held \union A \in SUBSET (tick.held \union C)
    BY <1>1, <1>8
  <2>2. QED
    BY <2>1, RunSet
<1>12. Cardinality(tick.held \union A) <= Cap
  BY <1>3, <1>6, <1>7, <1>9, <1>10, <1>11, JobsAssumption
<1>13. QED
  BY <1>12 DEF A

LEMMA DispatchStep ==
    ASSUME Shape, AtInv, LoadInv, ListInv, RoomInv, Dispatch
    PROVE  LoadInv' /\ ListInv' /\ RoomInv'
<1> USE DEF store, config, pruning
<1> DEFINE x == [NoExec EXCEPT !.pc = "load"]
<1>1. run' = run /\ job' = job /\ leader' = leader /\ leader \in Procs /\ tick.pc = "sweep" /\ tick.todo = {}
      /\ tick' = NoTick /\ doubted' = doubted
  BY DEF Dispatch, Shape, TypeOK
<1>2. x.pc = "load"
  BY DEF NoExec
<1>3. /\ \A p \in Procs, r \in Runs : p # leader => exec'[p][r] = exec[p][r]
      /\ \A r \in Runs : exec'[leader][r] = IF r \in Admitted THEN x ELSE exec[leader][r]
  BY DEF Dispatch, Shape, TypeOK
<1> HIDE DEF x
<1>4. Waiting = tick.queue /\ Counted = tick.held \union tick.queue /\ Admitted \subseteq tick.queue
  BY <1>1 DEF Waiting, Counted, SeenAs, Admitted
<1>5. tick.queue \subseteq Runs /\ tick.held \subseteq Runs /\ \A r \in Runs : run[r].at \in Nat
  BY AtOf DEF Shape, TypeOK, Ticks
<1>6. \A r \in tick.queue : Known(r)
  BY <1>1, <1>4 DEF ListInv
<1>7. \A p \in Procs, r \in Runs : Loaded(p, r)' <=> Loaded(p, r) \/ (p = leader /\ r \in Admitted /\ run[r].status = "queued")
  BY <1>1, <1>2, <1>3 DEF Loaded
<1>8. \A q \in Runs \ doubted : run[q].status \in Live => q \in tick.held \union tick.queue \/ Late(q)
  BY <1>1, <1>4 DEF ListInv
<1>9. LoadInv'
  <2>1. \A p \in Procs, r \in Runs : exec'[p][r].pc # "idle" => Known(r)'
    BY <1>1, <1>3, <1>4, <1>6 DEF LoadInv, Known
  <2>2. \A p \in Procs, r \in Runs : exec'[p][r].pc \notin {"idle", "load"} => run'[r].status # "queued"
    BY <1>1, <1>2, <1>3 DEF LoadInv
  <2>3. ASSUME NEW p \in Procs, NEW r \in Runs, NEW q \in Runs,
               Loaded(p, r)', run[q].status \in Live, run[q].at < run[r].at
        PROVE  run[q].status \in Active \/ Loaded(p, q)' \/ q \in doubted
    <3>1. CASE Loaded(p, r)
      BY <1>7, <2>3, <3>1 DEF LoadInv
    <3>2. CASE p = leader /\ r \in Admitted
      <4>1. ~Late(q)
        <5>1. ~(run[r].at < run[q].at)
          BY <1>5, <2>3
        <5>2. QED
          BY <1>4, <3>2, <5>1 DEF Late
      <4>2. CASE q \in tick.held
        BY <1>1, <1>7, <2>3, <3>2, <4>2 DEF ListInv, Live
      <4>3. CASE q \in tick.queue
        <5>1. q \in Admitted
          BY <1>5, <2>3, <3>2, <4>3, OlderAdmitted
        <5>2. QED
          BY <1>7, <2>3, <3>2, <5>1 DEF Live
      <4>4. QED
        BY <1>8, <2>3, <4>1, <4>2, <4>3
    <3>3. QED
      BY <1>7, <2>3, <3>1, <3>2
  <2>4. QED
    BY <1>1, <2>1, <2>2, <2>3 DEF LoadInv
<1>10. NoTick.pc # "sweep" /\ NoTick.held = {} /\ NoTick.queue = {}
  BY DEF NoTick
<1>11. ListInv'
  BY <1>1, <1>10 DEF ListInv
<1> DEFINE A == Admitted \intersect Recorded
<1>12. InUse' \subseteq InUse \union (A \ doubted)
  BY <1>1, <1>4, <1>7 DEF InUse, Using, Recorded
<1>13. PICK W \in SUBSET Runs : Covers(W)
  BY <1>1 DEF RoomInv
<1>14. Cardinality(InUse') <= Cap
  <2>1. ASSUME NEW S, S \subseteq Runs, InUse' \subseteq S, Cardinality(S) <= Cap PROVE Cardinality(InUse') <= Cap
    <3>1. Cardinality(S) \in Nat /\ Cardinality(InUse') <= Cardinality(S) /\ Cardinality(InUse') \in Nat
      BY <2>1, RunSet
    <3>2. QED
      BY <2>1, <3>1, JobsAssumption
  <2>2. CASE A \ doubted \subseteq W
    <3>1. InUse' \subseteq W /\ Cardinality(W) <= Cap
      BY <1>12, <1>13, <2>2 DEF Covers
    <3>2. QED
      BY <2>1, <3>1
  <2>3. CASE ~(A \ doubted \subseteq W)
    <3>1. PICK a \in A \ doubted : a \notin W
      BY <2>3
    <3>2. ASSUME NEW y \in InUse PROVE y \in tick.held \union A
      <4>1. y \in Runs \ doubted /\ y \in W /\ Using(y) /\ run[y].status \in Live
        BY <1>13, Statuses DEF Covers, InUse, Using, Loaded, Live
      <4>2. y \in tick.held \union tick.queue
        BY <1>8, <4>1 DEF Late
      <4>3. CASE y \in tick.queue
        <5>1. ~(run[a].at < run[y].at)
          BY <1>4, <1>13, <3>1, <4>1, <4>3 DEF Covers
        <5>2. run[y].at <= run[a].at
          BY <1>4, <1>5, <4>1, <5>1
        <5>3. y \in Admitted
          BY <4>3, <5>2, OlderAdmitted
        <5>4. QED
          BY <4>1, <5>3, Statuses DEF Recorded
      <4>4. QED
        BY <4>2, <4>3
    <3>3. InUse' \subseteq tick.held \union A
      BY <1>12, <3>2
    <3>4. Cardinality(tick.held \union A) <= Cap /\ tick.held \union A \subseteq Runs
      BY <1>4, <1>5, <3>1, AdmittedFit
    <3>5. QED
      BY <2>1, <3>3, <3>4
  <2>4. QED
    BY <2>2, <2>3
<1>15. RoomInv'
  BY <1>1, <1>10, <1>14 DEF RoomInv
<1>16. QED
  BY <1>9, <1>11, <1>15

LEMMA InitCap == Init => CapInv
<1> SUFFICES ASSUME Init PROVE CapInv
  OBVIOUS
<1>1. /\ \A r \in Runs : run[r].status = "absent" /\ run[r].at = 0
      /\ \A p \in Procs, r \in Runs : exec[p][r].pc = "idle"
      /\ tick.pc # "sweep" /\ tick.held = {} /\ tick.queue = {}
  BY DEF Init, NoRun, NoExec, NoTick
<1>2. Recorded = {} /\ InUse = {}
  BY <1>1, Statuses DEF Recorded, InUse, Using, Loaded
<1>3. AtInv
  BY <1>2 DEF AtInv
<1>4. LoadInv /\ ListInv
  BY <1>1 DEF LoadInv, ListInv, Loaded
<1>5. RoomInv
  BY <1>1, <1>2, FS_EmptySet, JobsAssumption DEF RoomInv
<1>6. QED
  BY <1>3, <1>4, <1>5 DEF CapInv

LEMMA CapStep == Shape /\ RunsInv /\ CapInv /\ [Next]_vars => CapInv'
<1> SUFFICES ASSUME Shape, RunsInv, CapInv, [Next]_vars PROVE CapInv'
  OBVIOUS
<1>1. CASE UNCHANGED vars
  BY <1>1 DEF vars, store, config, pruning, CapInv, AtInv, LoadInv, ListInv, RoomInv, Recorded, Loaded, Using, InUse, Known,
     SeenAs, Waiting, Counted, Late, Covers
<1>2. CASE Next
  <2>1. Shape'
    BY <1>2, ShapeStep
  <2>2. Effect
    BY <1>2, <2>1, StepEffect DEF RunsInv
  <2>3. RunEffect
    BY <2>2, RunsChange
  <2>4. AtInv'
    BY <2>3, AtKept DEF CapInv
  <2>5. StepKind
    BY <1>2, StepKinds
  <2>6. CASE NoneStarts /\ ExecGoesOn /\ (TickOff \/ TickSame \/ \E r \in Runs : EntryDone(r))
    <3>1. TickOff \/ TickOn
      BY <2>6, TickGoesOn
    <3>2. LoadInv'
      BY <2>3, <2>6, LoadKept DEF CapInv
    <3>3. ListInv'
      BY <2>3, <2>6, <3>1, ListKept DEF CapInv
    <3>4. RoomInv'
      BY <2>3, <2>6, <3>1, RoomKept DEF CapInv
    <3>5. QED
      BY <2>4, <3>2, <3>3, <3>4 DEF CapInv
  <2>7. CASE List
    BY <2>4, <2>7, ListStep DEF CapInv
  <2>8. CASE Dispatch
    BY <2>4, <2>8, DispatchStep DEF CapInv
  <2>9. QED
    BY <2>5, <2>6, <2>7, <2>8 DEF StepKind
<1>3. QED
  BY <1>1, <1>2

\* The runs that hold a sandbox never exceed maxConcurrentRuns, for any number of scheduler
\* processes, handovers and crashes: a tick admits no more than its listing leaves room for, and
\* what it has missed since is younger than what it admits.  Runs that may have lost their marker
\* to the pruning are not counted.
THEOREM WithinCapHolds == Spec => []WithinCap
<1>1. Init => Shape /\ RunsInv /\ CapInv
  BY InitShape, InitRuns, InitCap
<1>2. (Shape /\ RunsInv /\ CapInv) /\ [Next]_vars => (Shape /\ RunsInv /\ CapInv)'
  BY ShapeStep, RunsStep, CapStep
<1>3. Shape /\ CapInv => WithinCap
  <2>1. SUFFICES ASSUME CapInv PROVE WithinCap
    OBVIOUS
  <2> DEFINE S == {r \in Runs \ doubted : run[r].status \in Active}
  <2>2. S \subseteq InUse /\ InUse \subseteq Runs
    BY DEF InUse, Using
  <2>3. Cardinality(S) <= Cardinality(InUse) /\ Cardinality(S) \in Nat /\ Cardinality(InUse) \in Nat
    BY <2>2, RunSet
  <2>4. QED
    BY <2>1, <2>3, JobsAssumption DEF WithinCap, CapInv, RoomInv
<1>4. QED
  BY <1>1, <1>2, <1>3, PTL DEF Spec

=============================================================================
