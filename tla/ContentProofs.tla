---------------------------- MODULE ContentProofs ----------------------------
(***************************************************************************)
(* What holds of the records and entries of notebooks for any number of    *)
(* clients, notebooks, titles, labels, keys, requests and faults.          *)
(***************************************************************************)
EXTENDS NotebookContent, FiniteSetTheorems, TLAPS

\* Steps of a request that alone knows its notebook, which the catalog does not list yet.
Creating == {"files", "meta", "append"}

\* What a request knows at each of its steps.
WellFormed(r) ==
    /\ r.pc = "idle" => r = NoRequest
    /\ r.pc = "lookup" => r.n = 0
    /\ r.pc \notin {"idle", "lookup"} => r.n \in Notebooks
    /\ r.pc \in Creating \union {"lookup", "undo", "record"} => r.op = "create" /\ r.key \in Keys
    /\ r.pc \in {"park", "write", "read", "commit"} => r.op # "create"
    /\ r.pc = "park" => r.op = "label"
    /\ r.op = "update" => r.to \in Titles
    /\ r.op = "label" => r.to \in Labels \union {"unset"}

Shape == TypeOK /\ \A c \in Clients : WellFormed(req[c])

\* An id that is not given out yet names nothing.
IdsInv ==
    \A n \in Notebooks : n >= next =>
        /\ rec[n].st = "none" /\ entry[n].st = "none" /\ n \notin files
        /\ \A c \in Clients : req[c].n # n

\* A creation is alone with its notebook until the append, which finds record and files there.
CreateInv ==
    \A c \in Clients :
        /\ req[c].pc \in Creating =>
             /\ \A d \in Clients \ {c} : req[d].n # req[c].n
             /\ entry[req[c].n].st = "none"
        /\ req[c].pc \in {"meta", "append"} => req[c].n \in files
        /\ req[c].pc = "append" => rec[req[c].n] = NewRecord
        /\ req[c].pc = "undo" => req[c].n \in unsure \/ entry[req[c].n].st = "none"

\* What is listed as deleted does not come back, nor does what a sweep is about to purge.
DeadInv == \A n \in Notebooks : entry[n].st = "deleted" => rec[n].st # "active"
SweepInv ==
    /\ sweep.todo \subseteq sweep.stale
    /\ \A n \in sweep.stale :
         /\ n < next /\ entry[n].st # "active"
         /\ \A c \in Clients : req[c].pc \in Creating => req[c].n # n

\* The projection that a commit will publish, if it is not refused.
Publishes(c) == req[c].pc = "commit" /\ c \in fresh
PatchInv ==
    \A c \in Clients :
        /\ req[c].pc \in {"read", "commit"} /\ req[c].op = "delete" => req[c].known.st = "deleted"
        /\ Publishes(c) =>
             /\ req[c].patch.st = "active" => entry[req[c].n].st = "active"
             /\ req[c].patch.st = "deleted" => rec[req[c].n].st # "active"
             /\ entry[req[c].n].st = "none" => req[c].patch.st = "none"

ListedInv == IdsInv /\ CreateInv /\ DeadInv /\ SweepInv /\ PatchInv /\ ListedExists

\* The marker of a label change hides the labels until its end; only another label change
\* of the notebook clears it, and then the two have overlapped.
MarkerInv ==
    /\ \A n \in Notebooks : entry[n].pending => entry[n].lab = "unknown"
    /\ \A c \in Clients : req[c].pc = "write" /\ req[c].op = "label" /\ req[c].n \notin overlaps =>
         entry[req[c].n].st = "none" \/ entry[req[c].n].pending
    /\ \A c, d \in Clients : req[c].op = "label" /\ req[d].op = "label" /\ req[c].n = req[d].n
                             /\ req[c].n \notin overlaps => c = d
LabelPatchInv ==
    \A c \in Clients : Publishes(c) =>
        LET n == req[c].n
            p == req[c].patch
        IN /\ req[c].op # "label" /\ entry[n].pending => p.pending
           /\ p.pending => p.lab = "unknown"
           /\ n \notin overlaps /\ p.st # "none" /\ rec[n].st # "none" /\ p.lab # "unknown"
              => p.lab = rec[n].lab

LabelInv == MarkerInv /\ LabelPatchInv /\ LabelsNeverWrong

\* What was answered under a key is recorded under it.
RetryInv ==
    /\ \A k \in Keys : told[k] # {} => idem[k] # 0
    /\ \A c \in Clients : req[c].prior # {} => req[c].pc = "lookup" /\ idem[req[c].key] # 0

-----------------------------------------------------------------------------
\* The steps of the specification, one by one; the last two are the faults.
LEMMA NextCases ==
    ASSUME Next
    PROVE  \/ \E c \in Clients, k \in Keys : Create(c, k)
           \/ \E c \in Clients, n \in Notebooks : Delete(c, n)
           \/ \E c \in Clients, n \in Notebooks, t \in Titles : Update(c, n, t)
           \/ \E c \in Clients, n \in Notebooks, l \in Labels \union {"unset"} : SetLabels(c, n, l)
           \/ \E c \in Clients : Lookup(c)
           \/ \E c \in Clients : WriteFiles(c)
           \/ \E c \in Clients : WriteMeta(c)
           \/ \E c \in Clients : Append(c)
           \/ \E c \in Clients : Undo(c)
           \/ \E c \in Clients : RecordAnswer(c)
           \/ \E c \in Clients : Park(c)
           \/ \E c \in Clients : WriteRecord(c)
           \/ \E c \in Clients : Reject(c)
           \/ \E c \in Clients : ReadEntry(c)
           \/ \E c \in Clients : CommitPatch(c)
           \/ \E c \in Clients : Crash(c)
           \/ \E n \in Notebooks : Age(n)
           \/ \E k \in Keys : PruneKey(k)
           \/ SweepList
           \/ \E n \in Notebooks : Purge(n)
           \/ SweepGc
           \/ \E c \in Clients : Fail(c)
           \/ SweepFails
  BY DEF Next, ClientStep, SweepStep

\* The parts of the store and of the requests that steps put together.
LEMMA ConstantsTyped ==
    /\ NoRecord \in Records /\ NewRecord \in Records /\ NoEntry \in Entries
    /\ NoSweep \in Sweeps
    /\ NoRequest \in Requests /\ WellFormed(NoRequest)
  BY ContentAssumption DEF NoRecord, NewRecord, NoEntry, NoSweep, NoRequest, Records, Entries, Sweeps, Requests,
     Statuses, Steps, Operations, WellFormed, Notebooks, Creating

\* A request that goes on to its next step.
LEMMA GotoTyped ==
    ASSUME Shape, NEW c \in Clients, NEW step \in Steps, Goto(c, step),
           step # "idle" => WellFormed([req[c] EXCEPT !.pc = step])
    PROVE  /\ req' \in [Clients -> Requests]
           /\ \A d \in Clients : WellFormed(req'[d])
  BY ConstantsTyped DEF Shape, TypeOK, Goto, Requests

\* A new request.
LEMMA BeginTyped ==
    ASSUME Shape, NEW c \in Clients, NEW r \in Requests, WellFormed(r), Begin(c, r)
    PROVE  Shape'
<1>1. r.op = "label" /\ Labelling(r.n) # {} => r.n \in Notebooks
  BY DEF WellFormed, Labelling, Shape, NoRequest
<1>2. overlaps' \subseteq Notebooks
  BY <1>1 DEF Begin, Shape, TypeOK
<1>3. QED
  BY <1>2, ContentAssumption DEF Shape, TypeOK, Begin, Event, store

LEMMA ShapeStep == Shape /\ [Next]_vars => Shape'
<1> SUFFICES ASSUME Shape, [Next]_vars PROVE Shape'
  OBVIOUS
<1> USE ConstantsTyped, ContentAssumption
<1>1. CASE UNCHANGED vars
  BY <1>1 DEF vars, store, history, Shape, TypeOK
<1>2. ASSUME NEW c \in Clients, NEW k \in Keys, Create(c, k) PROVE Shape'
  <2> DEFINE r == [NoRequest EXCEPT !.pc = "lookup", !.key = k, !.prior = told[k]]
  <2>1. told[k] \subseteq Notebooks
    BY DEF Shape, TypeOK
  <2>2. r \in Requests
    BY <2>1 DEF Requests, Steps
  <2>3. r.pc = "lookup" /\ r.op = "create" /\ r.n = 0 /\ r.key = k
    BY DEF NoRequest
  <2>4. WellFormed(r)
    BY <2>3 DEF WellFormed, Creating
  <2>5. QED
    BY <1>2, <2>2, <2>4, BeginTyped DEF Create
<1>3. ASSUME NEW c \in Clients, NEW n \in Notebooks, NEW op \in {"update", "delete", "label"}, NEW v, NEW step,
             Ask(c, op, n, v, step),
             \/ op = "update" /\ v \in Titles /\ step = "write"
             \/ op = "delete" /\ v = "initial" /\ step = "write"
             \/ op = "label" /\ v \in Labels \union {"unset"} /\ step = "park"
      PROVE  Shape'
  <2> DEFINE r == [NoRequest EXCEPT !.pc = step, !.op = op, !.n = n, !.to = v, !.known = rec[n]]
  <2>1. r.pc = step /\ r.op = op /\ r.n = n /\ r.to = v
    BY DEF NoRequest
  <2>2. r \in Requests
    <3>1. /\ step \in Steps /\ op \in Operations /\ n \in 0..MaxNotebooks
          /\ v \in Titles \union Labels \union {"initial", "unset"} /\ rec[n] \in Records
      BY <1>3 DEF Shape, TypeOK, Steps, Operations, Notebooks
    <3>2. QED
      BY <3>1 DEF Requests
  <2>3. WellFormed(r)
    BY <1>3, <2>1 DEF WellFormed, Creating
  <2>4. QED
    BY <1>3, <2>2, <2>3, BeginTyped DEF Ask
<1>4. ASSUME NEW c \in Clients, NEW n \in Notebooks, Delete(c, n) PROVE Shape'
  BY <1>3, <1>4 DEF Delete
<1>5. ASSUME NEW c \in Clients, NEW n \in Notebooks, NEW t \in Titles, Update(c, n, t) PROVE Shape'
  BY <1>3, <1>5 DEF Update
<1>6. ASSUME NEW c \in Clients, NEW n \in Notebooks, NEW l \in Labels \union {"unset"}, SetLabels(c, n, l)
      PROVE Shape'
  BY <1>3, <1>6 DEF SetLabels
<1>7. ASSUME NEW c \in Clients, Lookup(c) PROVE Shape'
  <2> DEFINE k == req[c].key
  <2>0. k \in Keys
    BY <1>7 DEF Lookup, At, Shape, WellFormed
  <2>1. CASE idem[k] # 0
    <3>1. req' \in [Clients -> Requests] /\ \A d \in Clients : WellFormed(req'[d])
      BY <1>7, <2>1, GotoTyped DEF Lookup, Steps
    <3>i. idem[k] \in Notebooks
      BY <2>0, <2>1 DEF Shape, TypeOK, Notebooks
    <3>2. told' \in [Keys -> SUBSET Notebooks]
      BY <1>7, <2>0, <2>1, <3>i DEF Lookup, Shape, TypeOK
    <3>3. QED
      BY <1>7, <2>1, <3>1, <3>2 DEF Lookup, Shape, TypeOK
  <2>2. CASE idem[k] = 0
    <3> DEFINE r == [req[c] EXCEPT !.pc = "files", !.n = next]
    <3>0. next \in Notebooks
      BY <1>7, <2>2 DEF Lookup, Shape, TypeOK, Notebooks
    <3>1. r \in Requests /\ WellFormed(r)
      <4>1. req[c] \in Requests /\ next \in 0..MaxNotebooks
        BY <3>0 DEF Shape, TypeOK, Notebooks
      <4>2. r \in Requests
        BY <4>1 DEF Requests, Steps
      <4>3. WellFormed(r)
        BY <1>7, <2>0, <3>0 DEF Lookup, At, Shape, TypeOK, Requests, WellFormed, Creating
      <4>4. QED
        BY <4>2, <4>3
    <3>2. req' = [req EXCEPT ![c] = r]
      BY <1>7, <2>2 DEF Lookup, Shape, TypeOK, Requests
    <3>3. QED
      BY <1>7, <2>2, <3>1, <3>2 DEF Lookup, Shape, TypeOK
  <2>3. QED
    BY <2>1, <2>2
<1>8. ASSUME NEW c \in Clients, WriteFiles(c) PROVE Shape'
  <2>1. WellFormed([req[c] EXCEPT !.pc = "meta"]) /\ req[c].n \in Notebooks
    BY <1>8 DEF WriteFiles, At, Shape, TypeOK, Requests, WellFormed, Creating
  <2>2. req' \in [Clients -> Requests] /\ \A d \in Clients : WellFormed(req'[d])
    BY <1>8, <2>1, GotoTyped DEF WriteFiles, After, Steps
  <2>3. QED
    BY <1>8, <2>1, <2>2 DEF WriteFiles, Shape, TypeOK, history
<1>9. ASSUME NEW c \in Clients, WriteMeta(c) PROVE Shape'
  <2>1. WellFormed([req[c] EXCEPT !.pc = "append"]) /\ req[c].n \in Notebooks
    BY <1>9 DEF WriteMeta, At, Shape, TypeOK, Requests, WellFormed, Creating
  <2>2. req' \in [Clients -> Requests] /\ \A d \in Clients : WellFormed(req'[d])
    BY <1>9, <2>1, GotoTyped DEF WriteMeta, After, Steps
  <2>3. QED
    BY <1>9, <2>1, <2>2 DEF WriteMeta, PutRecord, Shape, TypeOK, history
<1>10. ASSUME NEW n \in Notebooks, Appended(n) PROVE entry' \in [Notebooks -> Entries] /\ count' \in Nat /\ fresh' = {}
  BY <1>10 DEF Appended, CommitEntry, Entries, Statuses, Shape, TypeOK
<1>11. ASSUME NEW c \in Clients, Append(c) PROVE Shape'
  <2>1. WellFormed([req[c] EXCEPT !.pc = "record"]) /\ req[c].n \in Notebooks
    BY <1>11 DEF Append, At, Shape, TypeOK, Requests, WellFormed, Creating
  <2>2. req' \in [Clients -> Requests] /\ \A d \in Clients : WellFormed(req'[d])
    BY <1>11, <2>1, GotoTyped DEF Append, After, Steps
  <2>3. QED
    BY <1>10, <1>11, <2>1, <2>2 DEF Append, Shape, TypeOK, history
<1>12. ASSUME NEW c \in Clients, Undo(c) PROVE Shape'
  <2>1. req[c].n \in Notebooks
    BY <1>12 DEF Undo, At, Shape, WellFormed
  <2>2. req' \in [Clients -> Requests] /\ \A d \in Clients : WellFormed(req'[d])
    BY <1>12, GotoTyped DEF Undo, Steps
  <2>3. QED
    BY <1>12, <2>1, <2>2 DEF Undo, PutRecord, Shape, TypeOK, history
<1>13. ASSUME NEW c \in Clients, RecordAnswer(c) PROVE Shape'
  <2>1. req[c].n \in Notebooks /\ req[c].key \in Keys
    BY <1>13 DEF RecordAnswer, At, Shape, WellFormed
  <2>2. req' \in [Clients -> Requests] /\ \A d \in Clients : WellFormed(req'[d])
    BY <1>13, GotoTyped DEF RecordAnswer, Steps
  <2>3. idem' \in [Keys -> 0..MaxNotebooks] /\ told' \in [Keys -> SUBSET Notebooks]
    BY <1>13, <2>1 DEF RecordAnswer, Shape, TypeOK, Notebooks
  <2>4. QED
    BY <1>13, <2>2, <2>3 DEF RecordAnswer, Shape, TypeOK
<1>14. ASSUME NEW n \in Notebooks, CommitEntry(n, Parked(n)) PROVE entry' \in [Notebooks -> Entries] /\ fresh' = {}
  BY <1>14 DEF CommitEntry, Parked, Entries, Shape, TypeOK
<1>15. ASSUME NEW c \in Clients, Park(c) PROVE Shape'
  <2>1. WellFormed([req[c] EXCEPT !.pc = "write"]) /\ req[c].n \in Notebooks
    BY <1>15 DEF Park, At, Shape, TypeOK, Requests, WellFormed, Creating
  <2>2. req' \in [Clients -> Requests] /\ \A d \in Clients : WellFormed(req'[d])
    BY <1>15, <2>1, GotoTyped DEF Park, Steps
  <2>3. QED
    BY <1>14, <1>15, <2>1, <2>2 DEF Park, Shape, TypeOK, history
<1>16. ASSUME NEW c \in Clients, At(c, "write") PROVE Edited(c) \in Records
  <2>1. req[c].n \in Notebooks /\ rec[req[c].n] \in Records /\ req[c].op \in {"update", "label", "delete"}
    BY <1>16 DEF At, Shape, TypeOK, Requests, WellFormed, Operations
  <2>2. req[c].op = "update" => req[c].to \in Titles
    BY DEF Shape, WellFormed
  <2>3. req[c].op = "label" => req[c].to \in Labels \union {"unset"}
    BY DEF Shape, WellFormed
  <2>4. QED
    BY <2>1, <2>2, <2>3 DEF Edited, Records, Statuses
<1>17. ASSUME NEW c \in Clients, WriteRecord(c) PROVE Shape'
  <2> DEFINE r == [req[c] EXCEPT !.pc = "read", !.known = Edited(c)]
  <2>0. /\ req[c] \in Requests /\ WellFormed(req[c]) /\ req[c].pc = "write" /\ req[c].n \in Notebooks
        /\ Edited(c) \in Records
    BY <1>16, <1>17 DEF WriteRecord, At, Shape, TypeOK, WellFormed
  <2>a. r \in Requests
    BY <2>0 DEF Requests, Steps
  <2>b. r.pc = "read" /\ r.op = req[c].op /\ r.n = req[c].n /\ r.to = req[c].to
    BY <2>0 DEF Requests
  <2>1. r \in Requests /\ WellFormed(r) /\ req[c].n \in Notebooks
    BY <2>0, <2>a, <2>b DEF WellFormed, Creating
  <2>2. req' = [req EXCEPT ![c] = r]
    BY <1>17 DEF WriteRecord, Shape, TypeOK, Requests
  <2>3. QED
    BY <1>16, <1>17, <2>1, <2>2 DEF WriteRecord, PutRecord, Shape, TypeOK, history
<1>18. ASSUME NEW c \in Clients, Reject(c) PROVE Shape'
  <2>1. WellFormed([req[c] EXCEPT !.pc = "read"])
    BY <1>18 DEF Reject, At, Shape, TypeOK, Requests, WellFormed, Creating
  <2>2. req' \in [Clients -> Requests] /\ \A d \in Clients : WellFormed(req'[d])
    BY <1>18, <2>1, GotoTyped DEF Reject, Steps
  <2>3. QED
    BY <1>18, <2>2 DEF Reject, Shape, TypeOK, store, history
<1>19. ASSUME NEW c \in Clients, At(c, "read") PROVE Patch(c) \in Entries
  <2> DEFINE n == req[c].n
  <2>1. /\ entry[n] \in Entries /\ rec[n] \in Records /\ req[c].known \in Records
    BY <1>19 DEF At, Shape, TypeOK, Requests, WellFormed
  <2>2. ASSUME NEW r \in Records, NEW e \in Entries, NEW b \in BOOLEAN PROVE Projected(r, e, b) \in Entries
    BY DEF Projected, Records, Entries
  <2>3. QED
    BY <2>1, <2>2 DEF Patch
<1>20. ASSUME NEW c \in Clients, ReadEntry(c) PROVE Shape'
  <2> DEFINE r == [req[c] EXCEPT !.pc = "commit", !.patch = Patch(c)]
  <2>0. /\ req[c] \in Requests /\ WellFormed(req[c]) /\ req[c].pc = "read" /\ req[c].n \in Notebooks
        /\ Patch(c) \in Entries
    BY <1>19, <1>20 DEF ReadEntry, At, Shape, TypeOK, WellFormed
  <2>a. r \in Requests
    BY <2>0 DEF Requests, Steps
  <2>b. r.pc = "commit" /\ r.op = req[c].op /\ r.n = req[c].n /\ r.to = req[c].to
    BY <2>0 DEF Requests
  <2>1. r \in Requests /\ WellFormed(r) /\ req[c].n \in Notebooks
    BY <2>0, <2>a, <2>b DEF WellFormed, Creating
  <2>2. req' = [req EXCEPT ![c] = r]
    BY <1>20 DEF ReadEntry, Shape, TypeOK, Requests
  <2>3. QED
    BY <1>20, <2>1, <2>2 DEF ReadEntry, Shape, TypeOK, history
<1>21. ASSUME NEW c \in Clients, At(c, "commit"), Committed(c)
       PROVE  entry' \in [Notebooks -> Entries] /\ count' \in Nat /\ fresh' = {}
  BY <1>21 DEF Committed, CommitEntry, At, Shape, TypeOK, Requests, WellFormed
<1>22. ASSUME NEW c \in Clients, CommitPatch(c) PROVE Shape'
  <2>1. WellFormed([req[c] EXCEPT !.pc = "read"])
    BY <1>22 DEF CommitPatch, At, Shape, TypeOK, Requests, WellFormed, Creating
  <2>2. req' \in [Clients -> Requests] /\ \A d \in Clients : WellFormed(req'[d])
    BY <1>22, <2>1, GotoTyped DEF CommitPatch, Steps
  <2>3. QED
    BY <1>21, <1>22, <2>2 DEF CommitPatch, Shape, TypeOK, history
<1>23. ASSUME NEW c \in Clients, Crash(c) PROVE Shape'
  <2>1. req[c].n \in 0..MaxNotebooks
    BY DEF Shape, TypeOK, Requests
  <2>2. req' \in [Clients -> Requests] /\ \A d \in Clients : WellFormed(req'[d])
    BY <1>23, GotoTyped DEF Crash, Steps
  <2>3. hurt' \subseteq Notebooks
    <3>1. {req[c].n} \ {0} \subseteq Notebooks
      BY <2>1 DEF Notebooks
    <3>2. QED
      BY <1>23, <3>1 DEF Crash, Shape, TypeOK
  <2>4. QED
    BY <1>23, <2>2, <2>3 DEF Crash, Event, Shape, TypeOK, store
<1>24. ASSUME NEW n \in Notebooks, Age(n) PROVE Shape'
  BY <1>24 DEF Age, Shape, TypeOK, history
<1>25. ASSUME NEW k \in Keys, PruneKey(k) PROVE Shape'
  BY <1>25 DEF PruneKey, Shape, TypeOK
<1>26. CASE SweepList
  BY <1>26 DEF SweepList, Shape, TypeOK, Sweeps, store, history
<1>27. ASSUME NEW n \in Notebooks, Purge(n) PROVE Shape'
  <2>1. sweep' \in Sweeps
    <3>1. CASE rec[n].st = "active"
      BY <1>27, <3>1 DEF Purge
    <3>2. CASE rec[n].st # "active"
      <4>1. sweep' = [pc |-> IF sweep.todo = {n} THEN "gc" ELSE sweep.pc,
                      stale |-> sweep.stale, todo |-> sweep.todo \ {n}]
        BY <1>27, <3>2 DEF Purge, Shape, TypeOK, Sweeps
      <4>2. QED
        BY <4>1 DEF Shape, TypeOK, Sweeps
    <3>3. QED
      BY <3>1, <3>2
  <2>2. QED
    BY <1>27, <2>1 DEF Purge, PutRecord, Shape, TypeOK, history
<1>28. CASE SweepGc
  BY <1>28 DEF SweepGc, Collected, Shape, TypeOK, history
<1>29. CASE SweepFails
  BY <1>29 DEF SweepFails, Collected, PutRecord, Event, Shape, TypeOK, Sweeps, history
<1>30. ASSUME NEW c \in Clients, Fail(c) PROVE Shape'
  <2> DEFINE n == req[c].n
  <2>1. n \in Notebooks /\ (req[c].pc = "record" => req[c].key \in Keys)
    BY <1>30 DEF Fail, At, Shape, WellFormed
  <2>2. req' \in [Clients -> Requests] /\ \A d \in Clients : WellFormed(req'[d])
    <3>1. WellFormed([req[c] EXCEPT !.pc = "undo"]) \/ req[c].pc \notin {"meta", "append"}
      BY DEF Shape, TypeOK, Requests, WellFormed, Creating
    <3>2. CASE Goto(c, "idle")
      BY <3>2, GotoTyped DEF Steps
    <3>3. CASE Goto(c, "undo") /\ req[c].pc \in {"meta", "append"}
      BY <3>1, <3>3, GotoTyped DEF Steps
    <3>4. QED
      BY <1>30, <3>2, <3>3 DEF Fail, At
  <2>3. events' \in 0..MaxEvents /\ hurt' \subseteq Notebooks
    BY <1>30, <2>1 DEF Fail, Event, Shape, TypeOK
  <2>4. /\ rec' \in [Notebooks -> Records]
        /\ entry' \in [Notebooks -> Entries] /\ count' \in Nat /\ fresh' \subseteq Clients
    BY <1>10, <1>14, <1>16, <1>21, <1>30, <2>1 DEF Fail, PutRecord, Shape, TypeOK
  <2>5. files' \subseteq Notebooks /\ unsure' \subseteq Notebooks
    BY <1>30, <2>1 DEF Fail, Shape, TypeOK
  <2>6. idem' \in [Keys -> 0..MaxNotebooks]
    BY <1>30, <2>1 DEF Fail, At, Shape, TypeOK, Notebooks
  <2>7. QED
    BY <1>30, <2>2, <2>3, <2>4, <2>5, <2>6 DEF Fail, Shape, TypeOK
<1>31. QED
  BY NextCases, <1>1, <1>2, <1>4, <1>5, <1>6, <1>7, <1>8, <1>9, <1>11, <1>12, <1>13, <1>15, <1>17, <1>18,
     <1>20, <1>22, <1>23, <1>24, <1>25, <1>26, <1>27, <1>28, <1>29, <1>30

\* Every variable keeps its type: records, entries, requests, sweep, ids and history, for
\* any number of clients, notebooks, keys, titles and labels.
THEOREM TypeCorrect == Spec => []TypeOK
<1>1. Init => Shape
  BY ConstantsTyped, ContentAssumption DEF Init, Shape, TypeOK, Notebooks
<1>2. Shape => TypeOK
  BY DEF Shape
<1>3. QED
  BY <1>1, <1>2, ShapeStep, PTL DEF Spec

-----------------------------------------------------------------------------
\* How a step changes the requests.
LEMMA ConstantFields ==
    /\ NoRequest.pc = "idle" /\ NoRequest.n = 0 /\ NoRequest.op = "create" /\ NoRequest.prior = {}
    /\ 0 \notin Notebooks
    /\ NoRecord.st = "none" /\ NewRecord.st = "active" /\ NewRecord.lab = "unset"
    /\ NoEntry.st = "none" /\ NoEntry.pending = FALSE
    /\ NoSweep.todo = {} /\ NoSweep.stale = {}
  BY DEF NoRequest, NoRecord, NewRecord, NoEntry, NoSweep, Notebooks

Keeps(d, c) ==
    /\ req'[d].n = req[c].n /\ req'[d].op = req[c].op /\ req'[d].key = req[c].key
    /\ req'[d].prior = req[c].prior /\ req'[d].known = req[c].known /\ req'[d].patch = req[c].patch

LEMMA GotoMeans ==
    ASSUME Shape, NEW c \in Clients, NEW step, Goto(c, step)
    PROVE  /\ \A d \in Clients \ {c} : req'[d] = req[d]
           /\ step = "idle" => req'[c] = NoRequest
           /\ step # "idle" => req'[c].pc = step /\ Keeps(c, c)
  BY DEF Goto, Keeps, Shape, TypeOK, Requests

LEMMA BeginMeans ==
    ASSUME Shape, NEW c \in Clients, NEW r, Begin(c, r)
    PROVE  /\ At(c, "idle") /\ (\A d \in Clients \ {c} : req'[d] = req[d]) /\ req'[c] = r
           /\ UNCHANGED <<store, sweep, hurt, unsure, told>> /\ overlaps \subseteq overlaps'
  BY DEF Begin, Shape, TypeOK

LEMMA AskMeans ==
    ASSUME Shape, NEW c \in Clients, NEW n \in Notebooks, NEW op, NEW v, NEW step, Ask(c, op, n, v, step)
    PROVE  /\ At(c, "idle") /\ entry[n].st = "active" /\ (\A d \in Clients \ {c} : req'[d] = req[d])
           /\ req'[c].pc = step /\ req'[c].op = op /\ req'[c].n = n /\ req'[c].prior = {}
           /\ UNCHANGED <<store, sweep, hurt, unsure, told>> /\ overlaps \subseteq overlaps'
<1> DEFINE r == [NoRequest EXCEPT !.pc = step, !.op = op, !.n = n, !.to = v, !.known = rec[n]]
<1>1. r.pc = step /\ r.op = op /\ r.n = n /\ r.prior = {}
  BY DEF NoRequest
<1>2. QED
  BY <1>1, BeginMeans DEF Ask

LEMMA CreateMeans ==
    ASSUME Shape, NEW c \in Clients, NEW k \in Keys, Create(c, k)
    PROVE  /\ At(c, "idle") /\ (\A d \in Clients \ {c} : req'[d] = req[d])
           /\ req'[c].pc = "lookup" /\ req'[c].op = "create" /\ req'[c].n = 0
           /\ req'[c].key = k /\ req'[c].prior = told[k]
           /\ UNCHANGED <<store, sweep, hurt, unsure, told>> /\ overlaps \subseteq overlaps'
<1> DEFINE r == [NoRequest EXCEPT !.pc = "lookup", !.key = k, !.prior = told[k]]
<1>1. r.pc = "lookup" /\ r.op = "create" /\ r.n = 0 /\ r.key = k /\ r.prior = told[k]
  BY DEF NoRequest
<1>2. QED
  BY <1>1, BeginMeans DEF Create

\* What a request writes to the record, and what it reads to project.
LEMMA EditedFields ==
    ASSUME Shape, NEW c \in Clients, At(c, "write"), rec[req[c].n].st = "active"
    PROVE  /\ Edited(c).st = (IF req[c].op = "delete" THEN "deleted" ELSE "active")
           /\ req[c].op # "label" => Edited(c).lab = rec[req[c].n].lab
<1> DEFINE r == rec[req[c].n]
<1>1. r \in Records /\ req[c].op \in {"update", "label", "delete"}
  BY DEF At, Shape, TypeOK, Requests, WellFormed, Operations
<1>2. CASE req[c].op = "update"
  <2>1. Edited(c) = [r EXCEPT !.title = req[c].to]
    BY <1>2 DEF Edited
  <2>2. QED
    BY <1>1, <1>2, <2>1 DEF Records
<1>3. CASE req[c].op = "label"
  <2>1. Edited(c) = [r EXCEPT !.lab = req[c].to]
    BY <1>3 DEF Edited
  <2>2. QED
    BY <1>1, <1>3, <2>1 DEF Records
<1>4. CASE req[c].op = "delete"
  <2>1. Edited(c) = [r EXCEPT !.st = "deleted"]
    BY <1>4 DEF Edited
  <2>2. QED
    BY <1>1, <1>4, <2>1 DEF Records
<1>5. QED
  BY <1>1, <1>2, <1>3, <1>4

LEMMA PatchCases ==
    ASSUME Shape, NEW c \in Clients, At(c, "read")
    PROVE  LET n == req[c].n IN
           /\ n \in Notebooks /\ rec[n] \in Records /\ entry[n] \in Entries
           /\ \/ entry[n].st = "none" /\ Patch(c) = entry[n]
              \/ /\ entry[n].st # "none" /\ rec[n].st # "none"
                 /\ Patch(c) = Projected(rec[n], entry[n], req[c].op = "label")
              \/ /\ entry[n].st # "none" /\ rec[n].st = "none" /\ req[c].op = "delete"
                 /\ Patch(c) = Projected(req[c].known, entry[n], FALSE)
              \/ /\ entry[n].st # "none" /\ rec[n].st = "none" /\ req[c].op # "delete"
                 /\ Patch(c) = entry[n]
<1>1. req[c].n \in Notebooks /\ rec[req[c].n] \in Records /\ entry[req[c].n] \in Entries
  BY DEF At, Shape, TypeOK, WellFormed
<1>2. QED
  BY <1>1 DEF Patch

LEMMA PatchFields ==
    ASSUME Shape, DeadInv, PatchInv, NEW c \in Clients, At(c, "read")
    PROVE  /\ Patch(c).st = "active" => entry[req[c].n].st = "active"
           /\ Patch(c).st = "deleted" => rec[req[c].n].st # "active"
           /\ entry[req[c].n].st = "none" => Patch(c).st = "none"
<1> DEFINE n == req[c].n
<1>1. \A r, e, b : Projected(r, e, b).st = r.st
  BY DEF Projected
<1>2. req[c].op = "delete" => req[c].known.st = "deleted"
  BY DEF At, PatchInv
<1>3. /\ entry[n].st \in Statuses /\ rec[n].st \in Statuses
      /\ entry[n].st = "deleted" => rec[n].st # "active"
  BY PatchCases DEF DeadInv, Entries, Records
<1>4. QED
  BY <1>1, <1>2, <1>3, PatchCases DEF Statuses, Projected

-----------------------------------------------------------------------------
(* What a step changes of the store and of the requests, for the proofs that follow. *)

Others(c) == \A d \in Clients \ {c} : req'[d] = req[d]
Ends(c) == req'[c] = NoRequest
Reaches(c, step) == req'[c].pc = step /\ Keeps(c, c)

Nothing == UNCHANGED <<rec, files, entry, fresh, next, sweep, unsure, req>>
Finishes(c) == Others(c) /\ Ends(c) /\ UNCHANGED <<rec, files, entry, fresh, next, sweep, unsure>>
Starts(c) ==
    /\ Others(c) /\ At(c, "idle")
    /\ \/ req'[c].pc = "lookup" /\ req'[c].op = "create" /\ req'[c].n = 0
       \/ /\ req'[c].n \in Notebooks /\ entry[req'[c].n].st = "active"
          /\ \/ req'[c].pc = "write" /\ req'[c].op \in {"update", "delete"}
             \/ req'[c].pc = "park" /\ req'[c].op = "label"
    /\ UNCHANGED <<rec, files, entry, fresh, next, sweep, unsure>>
TakesId(c) ==
    /\ Others(c) /\ At(c, "lookup") /\ next \in Notebooks /\ next' = next + 1
    /\ req'[c].pc = "files" /\ req'[c].n = next /\ req'[c].op = req[c].op
    /\ UNCHANGED <<rec, files, entry, fresh, sweep, unsure>>
FilesWritten(c) ==
    /\ Others(c) /\ At(c, "files") /\ files' \in {files, files \union {req[c].n}}
    /\ Ends(c) \/ (Reaches(c, "meta") /\ req[c].n \in files')
    /\ UNCHANGED <<rec, entry, fresh, next, sweep, unsure>>
MetaWritten(c) ==
    /\ Others(c) /\ At(c, "meta")
    /\ PutRecord(req[c].n, NewRecord) \/ UNCHANGED rec
    /\ Reaches(c, "undo") \/ (Reaches(c, "append") /\ rec'[req[c].n] = NewRecord)
    /\ UNCHANGED <<files, entry, fresh, next, sweep, unsure>>
EntryAppended(c) ==
    /\ Others(c) /\ At(c, "append")
    /\ \/ Appended(req[c].n) /\ Reaches(c, "record") /\ UNCHANGED unsure
       \/ Appended(req[c].n) /\ Reaches(c, "undo") /\ unsure' = unsure \union {req[c].n}
       \/ Reaches(c, "undo") /\ UNCHANGED <<entry, fresh, unsure>>
    /\ UNCHANGED <<rec, files, next, sweep>>
Undone(c) ==
    /\ Others(c) /\ At(c, "undo") /\ Ends(c)
    /\ PutRecord(req[c].n, NoRecord) /\ files' = files \ {req[c].n}
    /\ UNCHANGED <<entry, fresh, next, sweep, unsure>>
Parks(c) ==
    /\ Others(c) /\ At(c, "park") /\ CommitEntry(req[c].n, Parked(req[c].n))
    /\ Ends(c) \/ Reaches(c, "write")
    /\ UNCHANGED <<rec, files, next, sweep, unsure>>
RecordEdited(c) ==
    /\ Others(c) /\ At(c, "write") /\ rec[req[c].n].st = "active"
    /\ PutRecord(req[c].n, Edited(c))
    /\ \/ Ends(c)
       \/ /\ req'[c].pc = "read" /\ req'[c].n = req[c].n /\ req'[c].op = req[c].op
          /\ req'[c].known = Edited(c)
    /\ UNCHANGED <<files, entry, fresh, next, sweep, unsure>>
Rereads(c) ==
    /\ Others(c) /\ Reaches(c, "read")
    /\ At(c, "commit") \/ (At(c, "write") /\ req[c].op = "label")
    /\ UNCHANGED <<rec, files, entry, fresh, next, sweep, unsure>>
PatchRead(c) ==
    /\ Others(c) /\ At(c, "read") /\ req'[c].pc = "commit" /\ req'[c].patch = Patch(c)
    /\ req'[c].n = req[c].n /\ req'[c].op = req[c].op /\ req'[c].known = req[c].known
    /\ fresh' = fresh \union {c}
    /\ UNCHANGED <<rec, files, entry, next, sweep, unsure>>
PatchCommitted(c) ==
    /\ Others(c) /\ At(c, "commit") /\ c \in fresh /\ CommitEntry(req[c].n, req[c].patch) /\ Ends(c)
    /\ UNCHANGED <<rec, files, next, sweep, unsure>>
Lists ==
    /\ sweep'.todo = sweep'.stale
    /\ \A m \in sweep'.stale : m \in Notebooks /\ entry[m].st = "deleted"
    /\ UNCHANGED <<rec, files, entry, fresh, next, req, unsure>>
Purges(n) ==
    /\ rec' \in {rec, [rec EXCEPT ![n] = NoRecord]} /\ files' \in {files, files \ {n}}
    /\ sweep'.stale \subseteq sweep.stale /\ sweep'.todo \subseteq sweep'.stale
    /\ UNCHANGED <<entry, fresh, next, req, unsure>>
Collects ==
    /\ Collected \/ UNCHANGED <<entry, fresh>>
    /\ sweep' = NoSweep
    /\ UNCHANGED <<rec, files, next, req, unsure>>

Effect ==
    \/ Nothing \/ Lists \/ Collects
    \/ \E n \in sweep.stale : Purges(n)
    \/ \E c \in Clients :
         \/ Finishes(c) \/ Starts(c) \/ TakesId(c) \/ FilesWritten(c) \/ MetaWritten(c)
         \/ EntryAppended(c) \/ Undone(c) \/ Parks(c) \/ RecordEdited(c) \/ Rereads(c)
         \/ PatchRead(c) \/ PatchCommitted(c)

\* Every step has one of these effects.
LEMMA StepEffect == Shape /\ SweepInv /\ [Next]_vars => Effect
<1> SUFFICES ASSUME Shape, SweepInv, [Next]_vars PROVE Effect
  OBVIOUS
<1> USE ConstantFields
<1>1. CASE UNCHANGED vars
  <2>1. Nothing
    BY <1>1 DEF vars, store, history, Nothing
  <2>2. QED
    BY <2>1 DEF Effect
<1>2. ASSUME NEW c \in Clients, NEW k \in Keys, Create(c, k) PROVE Effect
  <2>8. Starts(c)
    BY <1>2, CreateMeans DEF Starts, Others, store, history
  <2>9. QED
    BY <2>8 DEF Effect
<1>3. ASSUME NEW c \in Clients, NEW n \in Notebooks, Delete(c, n) PROVE Effect
  <2>8. Starts(c)
    BY <1>3, AskMeans DEF Delete, Starts, Others, store, history
  <2>9. QED
    BY <2>8 DEF Effect
<1>4. ASSUME NEW c \in Clients, NEW n \in Notebooks, NEW t \in Titles, Update(c, n, t) PROVE Effect
  <2>8. Starts(c)
    BY <1>4, AskMeans DEF Update, Starts, Others, store, history
  <2>9. QED
    BY <2>8 DEF Effect
<1>5. ASSUME NEW c \in Clients, NEW n \in Notebooks,
             NEW l \in Labels \union {"unset"}, SetLabels(c, n, l) PROVE Effect
  <2>8. Starts(c)
    BY <1>5, AskMeans DEF SetLabels, Starts, Others, store, history
  <2>9. QED
    BY <2>8 DEF Effect
<1>6. ASSUME NEW c \in Clients, Lookup(c) PROVE Effect
  <2>1. ASSUME idem[req[c].key] # 0 PROVE Finishes(c)
    BY <1>6, <2>1, GotoMeans DEF Lookup, Finishes, Others, Ends
  <2>2. ASSUME idem[req[c].key] = 0 PROVE TakesId(c)
    BY <1>6, <2>2, ContentAssumption DEF Lookup, TakesId, Others, Shape, TypeOK, Requests, Notebooks
  <2>8. Finishes(c) \/ TakesId(c)
    BY <1>6, <2>1, <2>2
  <2>9. QED
    BY <2>8 DEF Effect
<1>7. ASSUME NEW c \in Clients, WriteFiles(c) PROVE Effect
  <2>8. FilesWritten(c)
    BY <1>7, GotoMeans DEF WriteFiles, FilesWritten, Others, Ends, Reaches, After, history
  <2>9. QED
    BY <2>8 DEF Effect
<1>8. ASSUME NEW c \in Clients, WriteMeta(c) PROVE Effect
  <2>1. rec'[req[c].n] = NewRecord
    BY <1>8 DEF WriteMeta, PutRecord, At, Shape, TypeOK, WellFormed
  <2>8. MetaWritten(c)
    BY <1>8, <2>1, GotoMeans DEF WriteMeta, MetaWritten, Others, Ends, Reaches, After, history
  <2>9. QED
    BY <2>8 DEF Effect
<1>9. ASSUME NEW c \in Clients, Append(c) PROVE Effect
  <2>8. EntryAppended(c)
    BY <1>9, GotoMeans DEF Append, EntryAppended, Others, Ends, Reaches, After, history
  <2>9. QED
    BY <2>8 DEF Effect
<1>10. ASSUME NEW c \in Clients, Undo(c) PROVE Effect
  <2>8. Undone(c)
    BY <1>10, GotoMeans DEF Undo, Undone, Others, Ends, Reaches, history
  <2>9. QED
    BY <2>8 DEF Effect
<1>11. ASSUME NEW c \in Clients, RecordAnswer(c) PROVE Effect
  <2>8. Finishes(c)
    BY <1>11, GotoMeans DEF RecordAnswer, Finishes, Others, Ends, Reaches, history
  <2>9. QED
    BY <2>8 DEF Effect
<1>12. ASSUME NEW c \in Clients, Crash(c) PROVE Effect
  <2>8. Finishes(c)
    BY <1>12, GotoMeans DEF Crash, Finishes, Others, Ends, Reaches, store, history
  <2>9. QED
    BY <2>8 DEF Effect
<1>13. ASSUME NEW c \in Clients, Park(c) PROVE Effect
  <2>8. Parks(c)
    BY <1>13, GotoMeans DEF Park, Parks, Others, Ends, Reaches, history
  <2>9. QED
    BY <2>8 DEF Effect
<1>14. ASSUME NEW c \in Clients, WriteRecord(c) PROVE Effect
  <2>1. /\ Others(c) /\ req'[c].pc = "read" /\ req'[c].n = req[c].n /\ req'[c].op = req[c].op
        /\ req'[c].known = Edited(c)
    BY <1>14 DEF WriteRecord, Others, Shape, TypeOK, Requests
  <2>8. RecordEdited(c)
    BY <1>14, <2>1 DEF WriteRecord, RecordEdited, Others, Ends, Reaches, history
  <2>9. QED
    BY <2>8 DEF Effect
<1>15. ASSUME NEW c \in Clients, Reject(c) PROVE Effect
  <2>8. Finishes(c) \/ Rereads(c)
    BY <1>15, GotoMeans DEF Reject, Finishes, Rereads, Others, Ends, Reaches, store, history
  <2>9. QED
    BY <2>8 DEF Effect
<1>16. ASSUME NEW c \in Clients, ReadEntry(c) PROVE Effect
  <2>1. /\ Others(c) /\ req'[c].pc = "commit" /\ req'[c].n = req[c].n /\ req'[c].op = req[c].op
        /\ req'[c].known = req[c].known /\ req'[c].patch = Patch(c)
    BY <1>16 DEF ReadEntry, Others, Shape, TypeOK, Requests
  <2>8. PatchRead(c)
    BY <1>16, <2>1 DEF ReadEntry, PatchRead, history
  <2>9. QED
    BY <2>8 DEF Effect
<1>17. ASSUME NEW c \in Clients, CommitPatch(c) PROVE Effect
  <2>8. PatchCommitted(c) \/ Rereads(c)
    BY <1>17, GotoMeans DEF CommitPatch, Committed, PatchCommitted, Rereads, Others, Ends, Reaches, history
  <2>9. QED
    BY <2>8 DEF Effect
<1>18. ASSUME NEW n \in Notebooks, Age(n) PROVE Effect
  <2>8. Nothing
    BY <1>18 DEF Age, Nothing, history
  <2>9. QED
    BY <2>8 DEF Effect
<1>19. ASSUME NEW k \in Keys, PruneKey(k) PROVE Effect
  <2>8. Nothing
    BY <1>19 DEF PruneKey, Nothing
  <2>9. QED
    BY <2>8 DEF Effect
<1>20. CASE SweepList
  <2>8. Lists
    BY <1>20 DEF SweepList, Lists, Shape, TypeOK, store, history
  <2>9. QED
    BY <2>8 DEF Effect
<1>21. ASSUME NEW n \in Notebooks, Purge(n) PROVE Effect
  <2>0. sweep \in Sweeps /\ n \in sweep.todo /\ n \in sweep.stale
    BY <1>21 DEF Purge, SweepInv, Shape, TypeOK
  <2>1. ASSUME rec[n].st = "active" PROVE Purges(n)
    BY <1>21, <2>1 DEF Purge, Purges, history
  <2>2. ASSUME rec[n].st # "active" PROVE Purges(n)
    <3>1. sweep' = [sweep EXCEPT !.todo = @ \ {n}, !.pc = IF sweep.todo = {n} THEN "gc" ELSE @]
      BY <1>21, <2>2 DEF Purge
    <3>2. sweep'.stale = sweep.stale /\ sweep'.todo \subseteq sweep.todo
      BY <2>0, <3>1 DEF Sweeps
    <3>3. QED
      BY <1>21, <2>2, <3>2 DEF Purge, Purges, PutRecord, SweepInv, history
  <2>8. n \in sweep.stale /\ Purges(n)
    BY <1>21, <2>0, <2>1, <2>2
  <2>9. QED
    BY <2>8 DEF Effect
<1>22. CASE SweepGc
  <2>8. Collects
    BY <1>22 DEF SweepGc, Collects, history
  <2>9. QED
    BY <2>8 DEF Effect
<1>23. CASE SweepFails
  <2>1. ASSUME sweep.pc = "purge" PROVE \E n \in sweep.stale : Purges(n)
    BY <1>23, <2>1 DEF SweepFails, PutRecord, SweepInv, Purges, history
  <2>2. ASSUME sweep.pc = "gc" PROVE Collects
    BY <1>23, <2>2 DEF SweepFails, Collects, history
  <2>8. Collects \/ \E n \in sweep.stale : Purges(n)
    BY <1>23, <2>1, <2>2 DEF SweepFails
  <2>9. QED
    BY <2>8 DEF Effect
<1>24. ASSUME NEW c \in Clients, Fail(c) PROVE Effect
  <2>1. ASSUME At(c, "files") PROVE FilesWritten(c)
    BY <1>24, <2>1, GotoMeans DEF Fail, At, Others, Ends, Reaches, FilesWritten
  <2>2. ASSUME At(c, "meta") PROVE MetaWritten(c)
    BY <1>24, <2>2, GotoMeans DEF Fail, At, Others, Ends, Reaches, MetaWritten
  <2>3. ASSUME At(c, "append") PROVE EntryAppended(c)
    BY <1>24, <2>3, GotoMeans DEF Fail, At, Others, Ends, Reaches, EntryAppended
  <2>4. ASSUME At(c, "record") PROVE Finishes(c)
    BY <1>24, <2>4, GotoMeans DEF Fail, At, Others, Ends, Reaches, Finishes
  <2>5. ASSUME At(c, "park") PROVE Parks(c) \/ Finishes(c)
    BY <1>24, <2>5, GotoMeans DEF Fail, At, Others, Ends, Reaches, Parks, Finishes
  <2>6. ASSUME At(c, "write") PROVE RecordEdited(c) \/ Finishes(c)
    BY <1>24, <2>6, GotoMeans DEF Fail, At, Others, Ends, Reaches, RecordEdited, Finishes
  <2>7. ASSUME req[c].pc \in {"undo", "commit"} PROVE PatchCommitted(c) \/ Finishes(c)
    BY <1>24, <2>7, GotoMeans DEF Fail, At, Others, Ends, Reaches, Committed, PatchCommitted, Finishes
  <2>8. Finishes(c) \/ FilesWritten(c) \/ MetaWritten(c) \/ EntryAppended(c) \/ Parks(c)
        \/ RecordEdited(c) \/ PatchCommitted(c)
    BY <1>24, <2>1, <2>2, <2>3, <2>4, <2>5, <2>6, <2>7 DEF Fail
  <2>9. QED
    BY <2>8 DEF Effect
<1>25. QED
  BY NextCases, <1>1, <1>2, <1>3, <1>4, <1>5, <1>6, <1>7, <1>8, <1>9, <1>10, <1>11, <1>12, <1>13, <1>14, <1>15, <1>16, <1>17, <1>18, <1>19, <1>20, <1>21, <1>22, <1>23, <1>24

-----------------------------------------------------------------------------
(* What the catalog lists is there. *)

LEMMA ListedStep == Shape /\ ListedInv /\ [Next]_vars => ListedInv'
<1> SUFFICES ASSUME Shape, ListedInv, Effect PROVE ListedInv'
  BY StepEffect DEF ListedInv
<1> USE ConstantFields DEF ListedInv
<1>n. next \in Nat /\ Notebooks \subseteq Nat
  BY ContentAssumption DEF Shape, TypeOK, Notebooks
<1>1. CASE Nothing
  BY <1>1 DEF Nothing, IdsInv, CreateInv, DeadInv, SweepInv, PatchInv, Publishes, ListedExists
<1>2. ASSUME NEW c \in Clients, Finishes(c) PROVE ListedInv'
  <2> USE <1>2 DEF Finishes, Others, Ends, Reaches
  <2>1. IdsInv'
    BY <1>2, <1>n, Shape DEF Shape, TypeOK, WellFormed, Keeps, IdsInv
  <2>2. CreateInv'
    BY <1>2, <1>n, Shape DEF Shape, TypeOK, WellFormed, Keeps, CreateInv, Creating
  <2>3. DeadInv'
    BY <1>2, <1>n, Shape DEF Shape, TypeOK, WellFormed, Keeps, DeadInv
  <2>4. SweepInv'
    BY <1>2, <1>n, Shape DEF Shape, TypeOK, WellFormed, Keeps, SweepInv, Creating
  <2>5. PatchInv'
    BY <1>2, <1>n, Shape DEF Shape, TypeOK, WellFormed, Keeps, PatchInv, Publishes
  <2>6. ListedExists'
    BY <1>2, <1>n, Shape DEF Shape, TypeOK, WellFormed, Keeps, ListedExists
  <2>7. QED
    BY <2>1, <2>2, <2>3, <2>4, <2>5, <2>6
<1>3. ASSUME NEW c \in Clients, Starts(c) PROVE ListedInv'
  <2> USE <1>3 DEF Starts, Others
  <2>1. IdsInv'
    BY <1>3, Shape DEF At, Shape, TypeOK, WellFormed, Keeps, IdsInv
  <2>2. CreateInv'
    BY <1>3, Shape DEF At, Shape, TypeOK, WellFormed, Keeps, CreateInv, Creating
  <2>3. DeadInv'
    BY <1>3, Shape DEF At, Shape, TypeOK, WellFormed, Keeps, DeadInv
  <2>4. SweepInv'
    BY <1>3, Shape DEF At, Shape, TypeOK, WellFormed, Keeps, SweepInv, Creating
  <2>5. PatchInv'
    BY <1>3, Shape DEF At, Shape, TypeOK, WellFormed, Keeps, PatchInv, Publishes
  <2>6. ListedExists'
    BY <1>3, Shape DEF At, Shape, TypeOK, WellFormed, Keeps, ListedExists
  <2>7. QED
    BY <2>1, <2>2, <2>3, <2>4, <2>5, <2>6
<1>4. ASSUME NEW c \in Clients, TakesId(c) PROVE ListedInv'
  <2> USE <1>4 DEF TakesId, Others, Ends, Reaches
  <2>1. IdsInv'
    BY <1>n, <1>4, Shape DEF Shape, TypeOK, WellFormed, Keeps, At, CreateInv, Creating, SweepInv, IdsInv
  <2>2. CreateInv'
    BY <1>n, <1>4, Shape DEF Shape, TypeOK, WellFormed, Keeps, At, IdsInv, SweepInv, PatchInv, Publishes, CreateInv, Creating
  <2>3. DeadInv'
    BY <1>n, <1>4, Shape DEF Shape, TypeOK, WellFormed, Keeps, At, IdsInv, CreateInv, Creating, PatchInv, Publishes, SweepInv, DeadInv
  <2>4. SweepInv'
    <3>1. sweep.stale \subseteq Nat /\ next \in Nat
      BY <1>n DEF Shape, TypeOK, Sweeps, Notebooks
    <3>2. \A m \in sweep.stale : m < next
      BY DEF SweepInv
    <3>3. \A m \in sweep.stale : m # next /\ m < next + 1
      BY <3>1, <3>2
    <3>4. QED
      BY <1>4, <3>3 DEF SweepInv, Creating
  <2>5. PatchInv'
    BY <1>n, <1>4, Shape DEF Shape, TypeOK, WellFormed, Keeps, At, IdsInv, CreateInv, Creating, DeadInv, SweepInv, PatchInv, Publishes
  <2>6. ListedExists'
    BY <1>n, <1>4, Shape DEF Shape, TypeOK, WellFormed, Keeps, At, IdsInv, CreateInv, Creating, PatchInv, Publishes, SweepInv, ListedExists
  <2>7. QED
    BY <2>1, <2>2, <2>3, <2>4, <2>5, <2>6
<1>5. ASSUME NEW c \in Clients, FilesWritten(c) PROVE ListedInv'
  <2> USE <1>5 DEF FilesWritten, Others, Ends, Reaches
  <2>1. IdsInv'
    BY <1>5, <1>n, Shape DEF At, Shape, TypeOK, WellFormed, Keeps, IdsInv
  <2>2. CreateInv'
    <3>1. /\ req'[c].pc \in {"idle", "meta"}
          /\ req'[c].pc = "meta" => req'[c].n = req[c].n /\ req[c].n \in files'
          /\ files \subseteq files'
      BY <1>5 DEF Keeps
    <3>2. \A d \in Clients \ {c} : req'[c].n \in {0, req[c].n} /\ (req[d].pc \in Creating => req[d].n # 0)
      BY <1>5 DEF Keeps, Shape, WellFormed, Creating
    <3>3. QED
      BY <1>5, <3>1, <3>2 DEF At, CreateInv, Creating
  <2>3. DeadInv'
    BY <1>5, <1>n, Shape DEF At, Shape, TypeOK, WellFormed, Keeps, DeadInv
  <2>4. SweepInv'
    BY <1>5, <1>n, Shape DEF At, Shape, TypeOK, WellFormed, Keeps, SweepInv, Creating
  <2>5. PatchInv'
    BY <1>5, <1>n, Shape DEF At, Shape, TypeOK, WellFormed, Keeps, PatchInv, Publishes
  <2>6. ListedExists'
    BY <1>5, <1>n, Shape DEF At, Shape, TypeOK, WellFormed, Keeps, ListedExists
  <2>7. QED
    BY <2>1, <2>2, <2>3, <2>4, <2>5, <2>6
<1>6. ASSUME NEW c \in Clients, MetaWritten(c) PROVE ListedInv'
  <2> USE <1>6 DEF MetaWritten, Others, Ends, Reaches
  <2>1. IdsInv'
    BY <1>6, <1>n, Shape DEF At, PutRecord, Shape, TypeOK, WellFormed, Keeps, IdsInv
  <2>o. /\ req[c].n \in Notebooks /\ \A d \in Clients \ {c} : req[d].n # req[c].n
        /\ \A m \in Notebooks \ {req[c].n} : rec'[m] = rec[m]
    BY <1>6 DEF At, PutRecord, Shape, TypeOK, WellFormed, CreateInv, Creating
  <2>2. CreateInv'
    <3>1. \A d \in Clients \ {c} : req[d].pc = "append" => req[d].n \in Notebooks \ {req[c].n}
      BY <2>o DEF Shape, WellFormed
    <3>2. QED
      BY <1>6, <2>o, <3>1 DEF At, Keeps, CreateInv, Creating
  <2>3. DeadInv'
    BY <1>6, <1>n, Shape DEF At, PutRecord, Shape, TypeOK, WellFormed, Keeps, CreateInv, Creating, DeadInv
  <2>4. SweepInv'
    BY <1>6, <1>n, Shape DEF At, PutRecord, Shape, TypeOK, WellFormed, Keeps, SweepInv, Creating
  <2>5. PatchInv'
    <3>1. \A d \in Clients \ {c} : req[d].pc = "commit" => req[d].n \in Notebooks \ {req[c].n}
      BY <2>o DEF Shape, WellFormed
    <3>2. QED
      BY <1>6, <2>o, <3>1 DEF At, Keeps, PatchInv, Publishes
  <2>6. ListedExists'
    BY <1>6, <1>n, Shape DEF At, PutRecord, Shape, TypeOK, WellFormed, Keeps, ListedExists
  <2>7. QED
    BY <2>1, <2>2, <2>3, <2>4, <2>5, <2>6
<1>7. ASSUME NEW c \in Clients, EntryAppended(c) PROVE ListedInv'
  <2> USE <1>7 DEF EntryAppended, Others, Ends, Reaches
  <2>o. /\ req[c].n \in Notebooks /\ \A d \in Clients \ {c} : req[d].n # req[c].n
        /\ \A m \in Notebooks \ {req[c].n} : entry'[m] = entry[m]
        /\ entry[req[c].n].st = "none"
    BY <1>7 DEF At, Appended, CommitEntry, Shape, TypeOK, WellFormed, CreateInv, Creating
  <2>1. IdsInv'
    BY <1>7, <2>o DEF Keeps, IdsInv
  <2>2. CreateInv'
    <3>1. \A d \in Clients \ {c} : req[d].pc \in Creating \union {"undo"} => req[d].n \in Notebooks \ {req[c].n}
      BY <2>o DEF Shape, WellFormed, Creating
    <3>2. QED
      BY <1>7, <2>o, <3>1 DEF At, Keeps, CreateInv, Creating
  <2>3. DeadInv'
    BY <1>7, <2>o DEF At, Appended, CommitEntry, Shape, TypeOK, DeadInv
  <2>4. SweepInv'
    <3>1. req[c].n \notin sweep.stale /\ sweep.stale \subseteq Notebooks
      BY <1>7 DEF At, SweepInv, Creating, Shape, TypeOK, Sweeps
    <3>2. QED
      BY <1>7, <2>o, <3>1 DEF At, Keeps, SweepInv, Creating
  <2>5. PatchInv'
    <3>1. fresh' = {} \/ UNCHANGED <<entry, fresh>>
      BY <1>7 DEF Appended, CommitEntry
    <3>2. QED
      BY <1>7, <3>1 DEF At, Keeps, PatchInv, Publishes
  <2>6. ListedExists'
    <3>1. rec[req[c].n].st = "active" /\ req[c].n \in files
      BY <1>7 DEF At, CreateInv
    <3>2. unsure \subseteq unsure'
      BY <1>7
    <3>3. QED
      BY <1>7, <2>o, <3>1, <3>2 DEF ListedExists
  <2>7. QED
    BY <2>1, <2>2, <2>3, <2>4, <2>5, <2>6
<1>8. ASSUME NEW c \in Clients, Undone(c) PROVE ListedInv'
  <2> USE <1>8 DEF Undone, Others, Ends, Reaches
  <2>1. IdsInv'
    BY <1>8, Shape DEF PutRecord, At, Shape, TypeOK, WellFormed, Keeps, IdsInv
  <2>2. CreateInv'
    BY <1>8, Shape DEF PutRecord, At, Shape, TypeOK, WellFormed, Keeps, CreateInv, Creating
  <2>3. DeadInv'
    BY <1>8, Shape DEF PutRecord, At, Shape, TypeOK, WellFormed, Keeps, DeadInv
  <2>4. SweepInv'
    BY <1>8, Shape DEF PutRecord, At, Shape, TypeOK, WellFormed, Keeps, SweepInv, Creating
  <2>5. PatchInv'
    BY <1>8, Shape DEF PutRecord, At, Shape, TypeOK, WellFormed, Keeps, PatchInv, Publishes
  <2>6. ListedExists'
    BY <1>8, Shape DEF PutRecord, At, Shape, TypeOK, WellFormed, Keeps, CreateInv, Creating, ListedExists
  <2>7. QED
    BY <2>1, <2>2, <2>3, <2>4, <2>5, <2>6
<1>9. ASSUME NEW c \in Clients, Parks(c) PROVE ListedInv'
  <2> USE <1>9 DEF Parks, Others, Ends, Reaches
  <2>0. Parked(req[c].n).st = entry[req[c].n].st
    BY <1>9 DEF At, Parked, Shape, TypeOK, WellFormed, Entries
  <2>1. IdsInv'
    BY <1>9, <1>n, <2>0, Shape DEF At, CommitEntry, Shape, TypeOK, WellFormed, Keeps, IdsInv
  <2>2. CreateInv'
    BY <1>9, <1>n, <2>0, Shape DEF At, CommitEntry, Shape, TypeOK, WellFormed, Keeps, CreateInv, Creating
  <2>3. DeadInv'
    BY <1>9, <1>n, <2>0, Shape DEF At, CommitEntry, Shape, TypeOK, WellFormed, Keeps, DeadInv
  <2>4. SweepInv'
    BY <1>9, <1>n, <2>0, Shape DEF At, CommitEntry, Shape, TypeOK, WellFormed, Keeps, SweepInv, Creating
  <2>5. PatchInv'
    BY <1>9, <1>n, <2>0, Shape DEF At, CommitEntry, Shape, TypeOK, WellFormed, Keeps, PatchInv, Publishes
  <2>6. ListedExists'
    BY <1>9, <1>n, <2>0, Shape DEF At, CommitEntry, Shape, TypeOK, WellFormed, Keeps, ListedExists
  <2>7. QED
    BY <2>1, <2>2, <2>3, <2>4, <2>5, <2>6
<1>10. ASSUME NEW c \in Clients, RecordEdited(c) PROVE ListedInv'
  <2> USE <1>10 DEF RecordEdited, Others, Ends, Reaches
  <2>0. Edited(c).st = (IF req[c].op = "delete" THEN "deleted" ELSE "active")
    BY <1>10, EditedFields
  <2>1. IdsInv'
    BY <1>10, <1>n, <2>0, Shape DEF At, PutRecord, Shape, TypeOK, WellFormed, Keeps, IdsInv
  <2>2. CreateInv'
    BY <1>10, <1>n, <2>0, Shape DEF At, PutRecord, Shape, TypeOK, WellFormed, Keeps, CreateInv, Creating
  <2>3. DeadInv'
    BY <1>10, <1>n, <2>0, Shape DEF At, PutRecord, Shape, TypeOK, WellFormed, Keeps, DeadInv
  <2>4. SweepInv'
    BY <1>10, <1>n, <2>0, Shape DEF At, PutRecord, Shape, TypeOK, WellFormed, Keeps, SweepInv, Creating
  <2>5. PatchInv'
    BY <1>10, <1>n, <2>0, Shape DEF At, PutRecord, Shape, TypeOK, WellFormed, Keeps, PatchInv, Publishes
  <2>6. ListedExists'
    BY <1>10, <1>n, <2>0, Shape DEF At, PutRecord, Shape, TypeOK, WellFormed, Keeps, ListedExists
  <2>7. QED
    BY <2>1, <2>2, <2>3, <2>4, <2>5, <2>6
<1>11. ASSUME NEW c \in Clients, Rereads(c) PROVE ListedInv'
  <2> USE <1>11 DEF Rereads, Others, Ends, Reaches
  <2>1. IdsInv'
    BY <1>11, Shape DEF At, Shape, TypeOK, WellFormed, Keeps, IdsInv
  <2>2. CreateInv'
    BY <1>11, Shape DEF At, Shape, TypeOK, WellFormed, Keeps, CreateInv, Creating
  <2>3. DeadInv'
    BY <1>11, Shape DEF At, Shape, TypeOK, WellFormed, Keeps, DeadInv
  <2>4. SweepInv'
    BY <1>11, Shape DEF At, Shape, TypeOK, WellFormed, Keeps, SweepInv, Creating
  <2>5. PatchInv'
    BY <1>11, Shape DEF At, Shape, TypeOK, WellFormed, Keeps, PatchInv, Publishes
  <2>6. ListedExists'
    BY <1>11, Shape DEF At, Shape, TypeOK, WellFormed, Keeps, ListedExists
  <2>7. QED
    BY <2>1, <2>2, <2>3, <2>4, <2>5, <2>6
<1>12. ASSUME NEW c \in Clients, PatchRead(c) PROVE ListedInv'
  <2> USE <1>12 DEF PatchRead, Others, Ends, Reaches
  <2>e. /\ Patch(c).st = "active" => entry[req[c].n].st = "active"
        /\ Patch(c).st = "deleted" => rec[req[c].n].st # "active"
        /\ entry[req[c].n].st = "none" => Patch(c).st = "none"
    BY <1>12, PatchFields
  <2>1. IdsInv'
    BY <1>12, <2>e, Shape DEF At, Shape, TypeOK, WellFormed, Keeps, IdsInv
  <2>2. CreateInv'
    BY <1>12, <2>e, Shape DEF At, Shape, TypeOK, WellFormed, Keeps, CreateInv, Creating
  <2>3. DeadInv'
    BY <1>12, <2>e, Shape DEF At, Shape, TypeOK, WellFormed, Keeps, DeadInv
  <2>4. SweepInv'
    BY <1>12, <2>e, Shape DEF At, Shape, TypeOK, WellFormed, Keeps, SweepInv, Creating
  <2>5. PatchInv'
    BY <1>12, <2>e, Shape DEF At, Shape, TypeOK, WellFormed, Keeps, PatchInv, Publishes
  <2>6. ListedExists'
    BY <1>12, <2>e, Shape DEF At, Shape, TypeOK, WellFormed, Keeps, ListedExists
  <2>7. QED
    BY <2>1, <2>2, <2>3, <2>4, <2>5, <2>6
<1>13. ASSUME NEW c \in Clients, PatchCommitted(c) PROVE ListedInv'
  <2> USE <1>13 DEF PatchCommitted, Others, Ends, Reaches
  <2>1. IdsInv'
    BY <1>13, <1>n, Shape DEF At, CommitEntry, Shape, TypeOK, WellFormed, Keeps, IdsInv
  <2>2. CreateInv'
    <3>1. entry'[req[c].n].st # "none" => entry[req[c].n].st # "none"
      BY <1>13 DEF CommitEntry, At, PatchInv, Publishes, Shape, TypeOK, WellFormed
    <3>2. \A m \in Notebooks \ {req[c].n} : entry'[m] = entry[m]
      BY <1>13 DEF CommitEntry, Shape, TypeOK
    <3>3. QED
      BY <1>13, <3>1, <3>2 DEF CreateInv, Creating, Shape, WellFormed, At
  <2>3. DeadInv'
    BY <1>13, <1>n, Shape DEF At, CommitEntry, Shape, TypeOK, WellFormed, Keeps, PatchInv, Publishes, DeadInv
  <2>4. SweepInv'
    <3>1. \A m \in Notebooks : entry'[m].st = "active" => entry[m].st = "active"
      BY <1>13 DEF CommitEntry, At, PatchInv, Publishes, Shape, TypeOK, WellFormed
    <3>2. sweep'.stale \subseteq Notebooks
      BY <1>13 DEF Shape, TypeOK, Sweeps
    <3>3. QED
      BY <1>13, <3>1, <3>2 DEF SweepInv, Creating
  <2>5. PatchInv'
    BY <1>13, <1>n, Shape DEF At, CommitEntry, Shape, TypeOK, WellFormed, Keeps, PatchInv, Publishes
  <2>6. ListedExists'
    BY <1>13, <1>n, Shape DEF At, CommitEntry, Shape, TypeOK, WellFormed, Keeps, PatchInv, Publishes, ListedExists
  <2>7. QED
    BY <2>1, <2>2, <2>3, <2>4, <2>5, <2>6
<1>14. CASE Lists
  <2>1. ASSUME NEW m \in Notebooks, entry[m].st = "deleted" PROVE m < next
    <3>1. m \in Nat /\ next \in Nat
      BY <1>n
    <3>2. ~(m >= next)
      BY <2>1 DEF IdsInv
    <3>3. QED
      BY <3>1, <3>2
  <2>2. SweepInv'
    BY <1>14, <2>1 DEF Lists, SweepInv, CreateInv
  <2>3. QED
    BY <1>14, <2>2 DEF Lists, IdsInv, CreateInv, DeadInv, PatchInv, Publishes, ListedExists
<1>15. ASSUME NEW n \in sweep.stale, Purges(n) PROVE ListedInv'
  <2> USE <1>15 DEF Purges, Others, Ends, Reaches
  <2>1. IdsInv'
    BY <1>15, <1>n, Shape DEF Sweeps, Shape, TypeOK, WellFormed, Keeps, IdsInv
  <2>o. /\ n \in Notebooks /\ \A d \in Clients : req[d].pc \in Creating => req[d].n \in Notebooks \ {n}
        /\ \A m \in Notebooks \ {n} : rec'[m] = rec[m] /\ (m \in files' <=> m \in files)
        /\ rec'[n] \in {rec[n], NoRecord}
    BY <1>15 DEF SweepInv, Shape, TypeOK, Sweeps, WellFormed, Creating
  <2>2. CreateInv'
    BY <1>15, <2>o DEF CreateInv, Creating
  <2>3. DeadInv'
    BY <1>15, <1>n, Shape DEF Sweeps, Shape, TypeOK, WellFormed, Keeps, DeadInv
  <2>4. SweepInv'
    BY <1>15 DEF SweepInv, Creating
  <2>5. PatchInv'
    <3>1. \A m \in Notebooks : rec[m].st # "active" => rec'[m].st # "active"
      BY <2>o
    <3>2. \A d \in Clients : req[d].pc = "commit" => req[d].n \in Notebooks
      BY DEF Shape, WellFormed
    <3>3. QED
      BY <1>15, <3>1, <3>2 DEF PatchInv, Publishes
  <2>6. ListedExists'
    BY <1>15, <1>n, Shape DEF Sweeps, Shape, TypeOK, WellFormed, Keeps, IdsInv, CreateInv, Creating, PatchInv, Publishes, SweepInv, ListedExists
  <2>7. QED
    BY <2>1, <2>2, <2>3, <2>4, <2>5, <2>6
<1>16. CASE Collects
  <2> USE <1>16 DEF Collects, Others, Ends, Reaches
  <2>1. IdsInv'
    BY <1>16, <1>n, Shape DEF Collected, Shape, TypeOK, WellFormed, Keeps, IdsInv
  <2>2. CreateInv'
    <3>1. \A m \in Notebooks : entry[m].st = "none" => entry'[m].st = "none"
      BY <1>16 DEF Collected
    <3>2. \A d \in Clients : req[d].pc \in Creating \union {"undo"} => req[d].n \in Notebooks
      BY DEF Shape, WellFormed, Creating
    <3>3. QED
      BY <1>16, <3>1, <3>2 DEF CreateInv, Creating
  <2>3. DeadInv'
    BY <1>16, <1>n, Shape DEF Collected, Shape, TypeOK, WellFormed, Keeps, DeadInv
  <2>4. SweepInv'
    BY <1>16, <1>n, Shape DEF Collected, Shape, TypeOK, WellFormed, Keeps, SweepInv, Creating
  <2>5. PatchInv'
    BY <1>16, <1>n, Shape DEF Collected, Shape, TypeOK, WellFormed, Keeps, PatchInv, Publishes
  <2>6. ListedExists'
    BY <1>16, <1>n, Shape DEF Collected, Shape, TypeOK, WellFormed, Keeps, ListedExists
  <2>7. QED
    BY <2>1, <2>2, <2>3, <2>4, <2>5, <2>6
<1>17. QED
  BY <1>1, <1>2, <1>3, <1>4, <1>5, <1>6, <1>7, <1>8, <1>9, <1>10, <1>11, <1>12, <1>13, <1>14, <1>15, <1>16 DEF Effect

LEMMA ListedInit == Init => Shape /\ ListedInv
  BY ConstantsTyped, ConstantFields, ContentAssumption DEF Init, Shape, TypeOK, Notebooks, ListedInv, IdsInv,
     CreateInv, Creating, DeadInv, SweepInv, PatchInv, Publishes, ListedExists

\* What the catalog lists as active has its record and its files (ListedExists): the saga of
\* createNotebook appends the entry last, and the sweep removes only what no entry shows as
\* active, whatever fails.
THEOREM ListedExistsHolds == Spec => []ListedExists
<1>1. ListedInv => ListedExists
  BY DEF ListedInv
<1>2. QED
  BY <1>1, ListedInit, ShapeStep, ListedStep, PTL DEF Spec

-----------------------------------------------------------------------------
(* The labels of an entry. *)

\* A projection shows the labels of the record or none, and keeps the marker of a label
\* change that is not its own.
LEMMA PatchLabels ==
    ASSUME Shape, MarkerInv, LabelsNeverWrong, NEW c \in Clients, At(c, "read")
    PROVE  LET n == req[c].n
               p == Patch(c)
           IN /\ req[c].op # "label" /\ entry[n].pending => p.pending
              /\ p.pending => p.lab = "unknown"
              /\ n \notin overlaps /\ p.st # "none" /\ rec[n].st # "none" /\ p.lab # "unknown"
                 => p.lab = rec[n].lab
<1> DEFINE n == req[c].n
<1>1. /\ entry[n].pending => entry[n].lab = "unknown"
      /\ n \notin overlaps /\ entry[n].st # "none" /\ rec[n].st # "none" /\ entry[n].lab # "unknown"
         => entry[n].lab = rec[n].lab
  BY PatchCases DEF MarkerInv, LabelsNeverWrong, LabelsRight, Shown
<1>2. CASE Patch(c) = entry[n]
  BY <1>1, <1>2
<1>3. CASE Patch(c) = Projected(rec[n], entry[n], req[c].op = "label")
  <2>1. /\ Patch(c).pending = (entry[n].pending /\ ~(req[c].op = "label"))
        /\ Patch(c).lab = (IF entry[n].pending /\ ~(req[c].op = "label") THEN "unknown" ELSE rec[n].lab)
    BY <1>3 DEF Projected
  <2>2. QED
    BY <2>1
<1>4. CASE Patch(c) = Projected(req[c].known, entry[n], FALSE) /\ rec[n].st = "none"
  <2>1. /\ Patch(c).pending = (entry[n].pending /\ ~FALSE)
        /\ Patch(c).lab = (IF entry[n].pending /\ ~FALSE THEN "unknown" ELSE req[c].known.lab)
    BY <1>4 DEF Projected
  <2>2. QED
    BY <1>4, <2>1
<1>5. QED
  BY <1>2, <1>3, <1>4, PatchCases

\* A label change that begins beside another one of the notebook is remembered.
Remembers ==
    /\ overlaps \subseteq overlaps'
    /\ \A c, d \in Clients : /\ c # d /\ req[c].pc = "idle" /\ req'[c].op = "label"
                             /\ req[d].op = "label" /\ req[d].n = req'[c].n
                             => req'[c].n \in overlaps'
LEMMA OverlapStep == Shape /\ [Next]_vars => Remembers
<1> SUFFICES ASSUME Shape, [Next]_vars PROVE Remembers
  OBVIOUS
<1> USE ConstantFields
<1>0. \A d \in Clients : req[d].pc = "idle" => req[d].op = "create"
  BY DEF Shape, WellFormed
<1>1. ASSUME UNCHANGED overlaps, \A d \in Clients : req[d].pc = "idle" => req'[d].op # "label" PROVE Remembers
  BY <1>1 DEF Remembers
<1>2. ASSUME NEW c \in Clients, NEW r, Begin(c, r) PROVE Remembers
  <2>1. \A d \in Clients \ {c} : req'[d] = req[d]
    BY <1>2, BeginMeans
  <2>2. req'[c] = r
    BY <1>2, BeginMeans
  <2>3. /\ overlaps \subseteq overlaps'
        /\ r.op = "label" /\ Labelling(r.n) # {} => r.n \in overlaps'
    BY <1>2 DEF Begin
  <2>4. QED
    BY <1>0, <2>1, <2>2, <2>3 DEF Remembers, Labelling
<1>3. CASE UNCHANGED vars
  BY <1>0, <1>1, <1>3 DEF vars, history
<1>4. ASSUME NEW c \in Clients, NEW k \in Keys, Create(c, k) PROVE Remembers
  BY <1>2, <1>4 DEF Create
<1>5. ASSUME NEW c \in Clients, NEW n \in Notebooks,
             \/ Delete(c, n) \/ \E t \in Titles : Update(c, n, t)
             \/ \E l \in Labels \union {"unset"} : SetLabels(c, n, l)
      PROVE  Remembers
  BY <1>2, <1>5 DEF Delete, Update, SetLabels, Ask
<1>6. ASSUME NEW c \in Clients, NEW step, Goto(c, step), UNCHANGED overlaps, req[c].pc # "idle"
      PROVE  Remembers
  BY <1>0, <1>1, <1>6, GotoMeans
<1>7. ASSUME NEW c \in Clients, Lookup(c) \/ WriteRecord(c) \/ ReadEntry(c) PROVE Remembers
  <2>1. \A d \in Clients : req[d].pc = "idle" => req'[d].op # "label"
    BY <1>0, <1>7 DEF Lookup, WriteRecord, ReadEntry, At, Goto, Shape, TypeOK
  <2>2. QED
    BY <1>1, <1>7, <2>1 DEF Lookup, WriteRecord, ReadEntry, history
<1>8. ASSUME NEW c \in Clients,
             \/ WriteFiles(c) \/ WriteMeta(c) \/ Append(c) \/ Undo(c) \/ RecordAnswer(c)
             \/ Park(c) \/ Reject(c) \/ CommitPatch(c) \/ Crash(c) \/ Fail(c)
      PROVE  Remembers
  <2>1. req[c].pc # "idle" /\ UNCHANGED overlaps /\ \E step \in Steps : Goto(c, step)
    BY <1>8 DEF WriteFiles, WriteMeta, Append, Undo, RecordAnswer, Park, Reject, CommitPatch, Crash, Fail, At,
       After, Steps, history
  <2>2. QED
    BY <1>6, <2>1
<1>9. ASSUME \/ SweepList \/ SweepGc \/ SweepFails
             \/ \E n \in Notebooks : Age(n) \/ Purge(n)
             \/ \E k \in Keys : PruneKey(k)
      PROVE  Remembers
  <2>1. UNCHANGED <<req, overlaps>>
    BY <1>9 DEF SweepList, SweepGc, SweepFails, Age, Purge, PruneKey, history
  <2>2. QED
    BY <1>0, <1>1, <2>1
<1>10. QED
  BY <1>3, <1>4, <1>5, <1>7, <1>8, <1>9, NextCases

LEMMA LabelStep == Shape /\ ListedInv /\ LabelInv /\ [Next]_vars => LabelInv'
<1> SUFFICES ASSUME Shape, ListedInv, LabelInv, Effect, Remembers PROVE LabelInv'
  BY StepEffect, OverlapStep DEF ListedInv
<1> USE ConstantFields DEF LabelInv, Remembers, LabelsRight, Shown
<1>s. \A c \in Clients : req[c].pc \notin {"idle", "lookup"} => req[c].n \in Notebooks
  BY DEF Shape, WellFormed
<1>1. CASE Nothing
  BY <1>1 DEF Nothing, MarkerInv, LabelPatchInv, Publishes, LabelsNeverWrong
<1>2. ASSUME NEW c \in Clients, Finishes(c) PROVE LabelInv'
  <2>1. MarkerInv'
    BY <1>2, <1>s DEF Finishes, Others, Ends, Reaches, Keeps, MarkerInv
  <2>2. LabelPatchInv'
    BY <1>2, <1>s DEF Finishes, Others, Ends, Reaches, Keeps, LabelPatchInv, Publishes
  <2>3. LabelsNeverWrong'
    BY <1>2, <1>s DEF Finishes, Others, Ends, Reaches, Keeps, LabelsNeverWrong
  <2>4. QED
    BY <2>1, <2>2, <2>3
<1>3. ASSUME NEW c \in Clients, Starts(c) PROVE LabelInv'
  <2>1. MarkerInv'
    <3>1. \A d \in Clients : At(d, "idle") => req[d].op # "label"
      BY DEF Shape, WellFormed, At
    <3>2. QED
      BY <1>3, <3>1 DEF Starts, At, Others, MarkerInv
  <2>2. LabelPatchInv'
    BY <1>3, <1>s DEF Starts, At, Others, Ends, Reaches, Keeps, LabelPatchInv, Publishes
  <2>3. LabelsNeverWrong'
    BY <1>3, <1>s DEF Starts, At, Others, Ends, Reaches, Keeps, LabelsNeverWrong
  <2>4. QED
    BY <2>1, <2>2, <2>3
<1>4. ASSUME NEW c \in Clients, TakesId(c) PROVE LabelInv'
  <2>1. MarkerInv'
    BY <1>4 DEF TakesId, At, Others, MarkerInv, Shape, WellFormed
  <2>2. LabelPatchInv'
    BY <1>4, <1>s DEF TakesId, At, Others, Ends, Reaches, Keeps, LabelPatchInv, Publishes
  <2>3. LabelsNeverWrong'
    BY <1>4, <1>s DEF TakesId, At, Others, Ends, Reaches, Keeps, LabelsNeverWrong
  <2>4. QED
    BY <2>1, <2>2, <2>3
<1>5. ASSUME NEW c \in Clients, FilesWritten(c) PROVE LabelInv'
  <2>1. MarkerInv'
    BY <1>5, <1>s DEF FilesWritten, At, Others, Ends, Reaches, Keeps, MarkerInv
  <2>2. LabelPatchInv'
    BY <1>5, <1>s DEF FilesWritten, At, Others, Ends, Reaches, Keeps, LabelPatchInv, Publishes
  <2>3. LabelsNeverWrong'
    BY <1>5, <1>s DEF FilesWritten, At, Others, Ends, Reaches, Keeps, LabelsNeverWrong
  <2>4. QED
    BY <2>1, <2>2, <2>3
<1>6. ASSUME NEW c \in Clients, MetaWritten(c) PROVE LabelInv'
  <2>0. /\ req[c].n \in Notebooks /\ entry[req[c].n].st = "none"
        /\ \A d \in Clients \ {c} : req[d].n # req[c].n
        /\ \A m \in Notebooks \ {req[c].n} : rec'[m] = rec[m]
    BY <1>6, <1>s DEF MetaWritten, PutRecord, At, CreateInv, Creating, ListedInv, Shape, TypeOK
  <2>1. MarkerInv'
    BY <1>6, <1>s, <2>0 DEF MetaWritten, At, Others, Ends, Reaches, Keeps, MarkerInv
  <2>2. LabelPatchInv'
    BY <1>6, <1>s, <2>0 DEF MetaWritten, At, Others, Ends, Reaches, Keeps, LabelPatchInv, Publishes
  <2>3. LabelsNeverWrong'
    BY <1>6, <1>s, <2>0 DEF MetaWritten, At, Others, Ends, Reaches, Keeps, LabelsNeverWrong
  <2>4. QED
    BY <2>1, <2>2, <2>3
<1>7. ASSUME NEW c \in Clients, EntryAppended(c) PROVE LabelInv'
  <2>0. /\ req[c].n \in Notebooks /\ entry[req[c].n].st = "none" /\ rec[req[c].n].lab = "unset"
        /\ \A d \in Clients \ {c} : req[d].n # req[c].n
        /\ \A m \in Notebooks \ {req[c].n} : entry'[m] = entry[m]
        /\ \/ entry'[req[c].n] = entry[req[c].n] /\ fresh' = fresh
           \/ /\ entry'[req[c].n].lab = "unset" /\ ~entry'[req[c].n].pending
              /\ fresh' = {}
    BY <1>7, <1>s DEF EntryAppended, Appended, CommitEntry, At, CreateInv, Creating, ListedInv, Shape, TypeOK
  <2>1. MarkerInv'
    BY <1>7, <1>s, <2>0 DEF EntryAppended, At, Others, Ends, Reaches, Keeps, MarkerInv
  <2>2. LabelPatchInv'
    BY <1>7, <1>s, <2>0 DEF EntryAppended, At, Others, Ends, Reaches, Keeps, LabelPatchInv, Publishes
  <2>3. LabelsNeverWrong'
    BY <1>7, <1>s, <2>0 DEF EntryAppended, At, Others, Ends, Reaches, Keeps, LabelsNeverWrong
  <2>4. QED
    BY <2>1, <2>2, <2>3
<1>8. ASSUME NEW c \in Clients, Undone(c) PROVE LabelInv'
  <2>0. /\ rec'[req[c].n].st = "none" /\ \A m \in Notebooks \ {req[c].n} : rec'[m] = rec[m]
    BY <1>8, <1>s DEF Undone, PutRecord, At, Shape, TypeOK
  <2>1. MarkerInv'
    BY <1>8, <1>s, <2>0 DEF Undone, At, Others, Ends, Reaches, Keeps, MarkerInv
  <2>2. LabelPatchInv'
    BY <1>8, <1>s, <2>0 DEF Undone, At, Others, Ends, Reaches, Keeps, LabelPatchInv, Publishes
  <2>3. LabelsNeverWrong'
    BY <1>8, <1>s, <2>0 DEF Undone, At, Others, Ends, Reaches, Keeps, LabelsNeverWrong
  <2>4. QED
    BY <2>1, <2>2, <2>3
<1>9. ASSUME NEW c \in Clients, Parks(c) PROVE LabelInv'
  <2>0. /\ req[c].n \in Notebooks /\ req[c].op = "label" /\ fresh' = {}
        /\ \A m \in Notebooks \ {req[c].n} : entry'[m] = entry[m]
        /\ \/ entry[req[c].n].st = "none" /\ entry'[req[c].n] = entry[req[c].n]
           \/ entry'[req[c].n].pending /\ entry'[req[c].n].lab = "unknown"
    BY <1>9, <1>s DEF Parks, CommitEntry, Parked, At, Shape, TypeOK, WellFormed, Entries
  <2>1. MarkerInv'
    BY <1>9, <1>s, <2>0 DEF Parks, At, Others, Ends, Reaches, Keeps, MarkerInv
  <2>2. LabelPatchInv'
    BY <1>9, <1>s, <2>0 DEF Parks, At, Others, Ends, Reaches, Keeps, LabelPatchInv, Publishes
  <2>3. LabelsNeverWrong'
    BY <1>9, <1>s, <2>0 DEF Parks, At, Others, Ends, Reaches, Keeps, LabelsNeverWrong
  <2>4. QED
    BY <2>1, <2>2, <2>3
<1>10. ASSUME NEW c \in Clients, RecordEdited(c) PROVE LabelInv'
  <2>0. /\ req[c].n \in Notebooks /\ rec[req[c].n].st # "none" /\ rec'[req[c].n].st # "none"
        /\ req[c].op # "label" => rec'[req[c].n].lab = rec[req[c].n].lab
        /\ \A m \in Notebooks \ {req[c].n} : rec'[m] = rec[m]
    <3>1. rec'[req[c].n] = Edited(c) /\ req[c].n \in Notebooks
      BY <1>10, <1>s DEF RecordEdited, PutRecord, At, Shape, TypeOK
    <3>2. QED
      BY <1>10, <3>1, EditedFields DEF RecordEdited, PutRecord, At, Shape, TypeOK
  <2>1. MarkerInv'
    BY <1>10, <1>s, <2>0 DEF RecordEdited, At, Others, Ends, Reaches, Keeps, MarkerInv
  <2>2. LabelPatchInv'
    <3>1. ASSUME NEW d \in Clients, Publishes(d)', req[d].n = req[c].n, req[c].op = "label",
                 req[c].n \notin overlaps
          PROVE  req[d].patch.st = "none" \/ req[d].patch.lab = "unknown"
      <4>1. d # c /\ Publishes(d) /\ req[d].op # "label"
        BY <1>10, <3>1 DEF RecordEdited, At, Others, Ends, Publishes, MarkerInv
      <4>2. entry[req[c].n].st = "none" \/ entry[req[c].n].pending
        BY <1>10, <3>1 DEF RecordEdited, At, MarkerInv
      <4>3. QED
        BY <3>1, <4>1, <4>2 DEF LabelPatchInv, ListedInv, PatchInv
    <3>2. QED
      BY <1>10, <1>s, <2>0, <3>1 DEF RecordEdited, At, Others, Ends, LabelPatchInv, Publishes
  <2>3. LabelsNeverWrong'
    <3>1. req[c].op = "label" /\ req[c].n \notin overlaps
          => entry[req[c].n].st = "none" \/ entry[req[c].n].lab = "unknown"
      BY <1>10, <2>0 DEF RecordEdited, At, MarkerInv
    <3>2. QED
      BY <1>10, <2>0, <3>1 DEF RecordEdited, LabelsNeverWrong
  <2>4. QED
    BY <2>1, <2>2, <2>3
<1>11. ASSUME NEW c \in Clients, Rereads(c) PROVE LabelInv'
  <2>1. MarkerInv'
    BY <1>11, <1>s DEF Rereads, At, Others, Ends, Reaches, Keeps, MarkerInv
  <2>2. LabelPatchInv'
    BY <1>11, <1>s DEF Rereads, At, Others, Ends, Reaches, Keeps, LabelPatchInv, Publishes
  <2>3. LabelsNeverWrong'
    BY <1>11, <1>s DEF Rereads, At, Others, Ends, Reaches, Keeps, LabelsNeverWrong
  <2>4. QED
    BY <2>1, <2>2, <2>3
<1>12. ASSUME NEW c \in Clients, PatchRead(c) PROVE LabelInv'
  <2>1. MarkerInv'
    BY <1>12, <1>s DEF PatchRead, At, Others, Ends, Reaches, Keeps, MarkerInv
  <2>2. LabelPatchInv'
    BY <1>12, <1>s, PatchLabels DEF PatchRead, Others, LabelPatchInv, Publishes
  <2>3. LabelsNeverWrong'
    BY <1>12, <1>s DEF PatchRead, At, Others, Ends, Reaches, Keeps, LabelsNeverWrong
  <2>4. QED
    BY <2>1, <2>2, <2>3
<1>13. ASSUME NEW c \in Clients, PatchCommitted(c) PROVE LabelInv'
  <2>0. /\ req[c].n \in Notebooks /\ fresh' = {} /\ Publishes(c)
        /\ \A m \in Notebooks \ {req[c].n} : entry'[m] = entry[m]
        /\ entry'[req[c].n] = req[c].patch
        /\ entry[req[c].n].st = "none" => req[c].patch.st = "none"
    BY <1>13, <1>s DEF PatchCommitted, CommitEntry, At, Shape, TypeOK, Publishes, ListedInv, PatchInv
  <2>1. MarkerInv'
    BY <1>13, <1>s, <2>0 DEF PatchCommitted, At, Others, Ends, MarkerInv, LabelPatchInv
  <2>2. LabelPatchInv'
    BY <1>13, <1>s, <2>0 DEF PatchCommitted, At, Others, Ends, Reaches, Keeps, LabelPatchInv, Publishes
  <2>3. LabelsNeverWrong'
    BY <1>13, <2>0 DEF PatchCommitted, LabelsNeverWrong, LabelPatchInv
  <2>4. QED
    BY <2>1, <2>2, <2>3
<1>14. CASE Lists
  <2>1. MarkerInv'
    BY <1>14, <1>s DEF Lists, MarkerInv
  <2>2. LabelPatchInv'
    BY <1>14, <1>s DEF Lists, LabelPatchInv, Publishes
  <2>3. LabelsNeverWrong'
    BY <1>14, <1>s DEF Lists, LabelsNeverWrong
  <2>4. QED
    BY <2>1, <2>2, <2>3
<1>15. ASSUME NEW n \in sweep.stale, Purges(n) PROVE LabelInv'
  <2>0. \A m \in Notebooks : rec'[m] = rec[m] \/ rec'[m].st = "none"
    BY <1>15 DEF Purges, Shape, TypeOK
  <2>1. MarkerInv'
    BY <1>15, <1>s, <2>0 DEF Purges, MarkerInv
  <2>2. LabelPatchInv'
    BY <1>15, <1>s, <2>0 DEF Purges, LabelPatchInv, Publishes
  <2>3. LabelsNeverWrong'
    BY <1>15, <1>s, <2>0 DEF Purges, LabelsNeverWrong
  <2>4. QED
    BY <2>1, <2>2, <2>3
<1>16. CASE Collects
  <2>1. MarkerInv'
    BY <1>16, <1>s DEF Collects, Collected, MarkerInv
  <2>2. LabelPatchInv'
    BY <1>16, <1>s DEF Collects, Collected, LabelPatchInv, Publishes
  <2>3. LabelsNeverWrong'
    BY <1>16, <1>s DEF Collects, Collected, LabelsNeverWrong
  <2>4. QED
    BY <2>1, <2>2, <2>3
<1>17. QED
  BY <1>1, <1>2, <1>3, <1>4, <1>5, <1>6, <1>7, <1>8, <1>9, <1>10, <1>11, <1>12, <1>13, <1>14, <1>15, <1>16 DEF Effect

\* The labels that a catalog entry shows are those of the record, or unknown, unless label
\* changes of the notebook overlapped (LabelsNeverWrong): setSecurityLabels parks the projection
\* before it writes, and only the end of a label change clears the marker.  No assumption is made
\* on the clients: the exception is for each notebook by itself.
THEOREM LabelsNeverWrongHolds == Spec => []LabelsNeverWrong
<1>1. Init => Shape /\ ListedInv /\ LabelInv
  BY ConstantsTyped, ConstantFields, ContentAssumption DEF Init, Shape, TypeOK, Notebooks, ListedInv, IdsInv,
     CreateInv, Creating, DeadInv, SweepInv, PatchInv, Publishes, ListedExists, LabelInv, MarkerInv,
     LabelPatchInv, LabelsNeverWrong, LabelsRight, Shown
<1>2. Shape /\ ListedInv /\ LabelInv /\ [Next]_vars => (Shape /\ ListedInv /\ LabelInv)'
  BY ShapeStep, ListedStep, LabelStep
<1>3. LabelInv => LabelsNeverWrong
  BY DEF LabelInv
<1>4. QED
  BY <1>1, <1>2, <1>3, PTL DEF Spec

-----------------------------------------------------------------------------
(* Retries of a create. *)

LEMMA RetryStep == Shape /\ RetryInv /\ [Next]_vars => RetryInv'
<1> SUFFICES ASSUME Shape, RetryInv, [Next]_vars PROVE RetryInv'
  OBVIOUS
<1> USE ConstantFields DEF RetryInv
<1>1. ASSUME NEW c \in Clients, Others(c), req'[c].prior = {}, UNCHANGED told,
             \A k \in Keys : idem[k] # 0 => idem'[k] # 0
      PROVE  RetryInv'
  <2>1. \A d \in Clients : req[d].pc = "lookup" => req[d].key \in Keys
    BY DEF Shape, WellFormed
  <2>2. QED
    BY <1>1, <2>1 DEF Others
<1>2. CASE UNCHANGED vars
  BY <1>2 DEF vars, store, history
<1>3. ASSUME NEW c \in Clients, NEW k \in Keys, Create(c, k) PROVE RetryInv'
  BY <1>3, CreateMeans DEF store, history
<1>4. ASSUME NEW c \in Clients, NEW n \in Notebooks, NEW op, NEW v, NEW step, Ask(c, op, n, v, step)
      PROVE  RetryInv'
  BY <1>4, <1>1, AskMeans DEF store, history, Others
<1>5. ASSUME NEW c \in Clients, Lookup(c) PROVE RetryInv'
  <2>0. req[c].key \in Keys /\ told \in [Keys -> SUBSET Notebooks] /\ UNCHANGED idem
    BY <1>5 DEF Lookup, At, Shape, TypeOK, WellFormed
  <2>1. CASE idem[req[c].key] # 0
    <3>1. /\ \A k \in Keys : told'[k] # {} => told[k] # {} \/ k = req[c].key
          /\ \A d \in Clients \ {c} : req'[d] = req[d]
          /\ req'[c] = NoRequest
      BY <1>5, <2>0, <2>1, GotoMeans DEF Lookup
    <3>2. QED
      BY <2>0, <2>1, <3>1
  <2>2. CASE idem[req[c].key] = 0
    <3>1. Others(c) /\ req'[c].prior = req[c].prior /\ UNCHANGED told
      BY <1>5, <2>2 DEF Lookup, Others, Shape, TypeOK, Requests
    <3>2. QED
      BY <2>0, <2>2, <3>1, <1>1
  <2>3. QED
    BY <2>1, <2>2
<1>6. ASSUME NEW c \in Clients, NEW step, Goto(c, step), ~At(c, "lookup"), UNCHANGED <<idem, told>>
      PROVE  RetryInv'
  BY <1>6, <1>1, GotoMeans DEF Others, Keeps, At
<1>7. ASSUME NEW c \in Clients, RecordAnswer(c) PROVE RetryInv'
  <2>0. req[c].key \in Keys /\ req[c].n # 0
    BY <1>7 DEF RecordAnswer, At, Shape, WellFormed, Creating
  <2>1. /\ \A k \in Keys : told'[k] # {} => told[k] # {} \/ k = req[c].key
        /\ \A k \in Keys : idem[k] # 0 \/ k = req[c].key => idem'[k] # 0
    BY <1>7, <2>0 DEF RecordAnswer, Shape, TypeOK
  <2>2. \A d \in Clients : req[d].pc = "lookup" => req[d].key \in Keys
    BY DEF Shape, WellFormed
  <2>3. (\A d \in Clients \ {c} : req'[d] = req[d]) /\ req'[c] = NoRequest
    BY <1>7, GotoMeans DEF RecordAnswer
  <2>4. QED
    BY <2>0, <2>1, <2>2, <2>3
<1>8. ASSUME NEW c \in Clients, WriteRecord(c) \/ ReadEntry(c) PROVE RetryInv'
  <2>1. Others(c) /\ req'[c].prior = req[c].prior /\ ~At(c, "lookup") /\ UNCHANGED <<idem, told>>
    BY <1>8 DEF WriteRecord, ReadEntry, At, Others, Shape, TypeOK, Requests, history
  <2>2. QED
    BY <2>1, <1>1 DEF At
<1>9. ASSUME NEW k \in Keys, PruneKey(k) PROVE RetryInv'
  <2>1. /\ \A j \in Keys : told'[j] # {} => j # k /\ told[j] # {}
        /\ \A j \in Keys \ {k} : idem'[j] = idem[j]
        /\ UNCHANGED req
    BY <1>9 DEF PruneKey, Shape, TypeOK
  <2>2. \A c \in Clients : req[c].prior # {} => req[c].key \in Keys \ {k}
    BY <1>9 DEF PruneKey, At, Shape, WellFormed
  <2>3. QED
    BY <2>1, <2>2
<1>10. ASSUME NEW c \in Clients, Fail(c) PROVE RetryInv'
  <2>1. CASE At(c, "record")
    <3>1. req[c].key \in Keys /\ req[c].n # 0
      BY <2>1 DEF At, Shape, WellFormed, Creating
    <3>2. UNCHANGED told /\ \A k \in Keys : idem[k] # 0 => idem'[k] # 0
      BY <1>10, <2>1, <3>1 DEF Fail, At, Shape, TypeOK
    <3>3. Goto(c, "idle")
      BY <1>10, <2>1 DEF Fail, At
    <3>4. QED
      BY <3>2, <3>3, <1>1, GotoMeans DEF Others
  <2>2. CASE ~At(c, "record")
    <3>1. UNCHANGED <<idem, told>> /\ ~At(c, "lookup") /\ \E step \in Steps : Goto(c, step)
      BY <1>10, <2>2 DEF Fail, At, Steps
    <3>2. QED
      BY <3>1, <1>6
  <2>3. QED
    BY <2>1, <2>2
<1>11. ASSUME NEW c \in Clients, Crash(c) PROVE RetryInv'
  BY <1>11, <1>1, GotoMeans DEF Crash, store, history, Others
<1>12. CASE \/ SweepList \/ SweepGc \/ SweepFails
            \/ \E n \in Notebooks : Age(n) \/ Purge(n)
  <2>1. UNCHANGED <<idem, told, req>>
    BY <1>12 DEF SweepList, SweepGc, SweepFails, Age, Purge, store, history
  <2>2. QED
    BY <2>1
<1>13. ASSUME NEW c \in Clients,
              WriteFiles(c) \/ WriteMeta(c) \/ Append(c) \/ Undo(c) \/ Park(c) \/ Reject(c) \/ CommitPatch(c)
       PROVE  RetryInv'
  <2>1. UNCHANGED <<idem, told>> /\ ~At(c, "lookup") /\ \E step : Goto(c, step)
    BY <1>13 DEF WriteFiles, WriteMeta, Append, Undo, Park, Reject, CommitPatch, At, store, history
  <2>2. QED
    BY <2>1, <1>6
<1>14. QED
  BY NextCases, <1>2, <1>3, <1>4, <1>5, <1>7, <1>8, <1>9, <1>10, <1>11, <1>12, <1>13 DEF Delete, Update, SetLabels

\* A create that is repeated with its key after an answer creates no second notebook
\* (RetryCreatesNothing): the answer is recorded before it is given, and the record outlives
\* the requests that may repeat it.
THEOREM RetryCreatesNothingHolds == Spec => []RetryCreatesNothing
<1>1. Init => Shape /\ RetryInv
  BY ConstantsTyped, ConstantFields, ContentAssumption DEF Init, Shape, TypeOK, Notebooks, RetryInv
<1>2. Shape /\ RetryInv => RetryCreatesNothing
  BY DEF Shape, WellFormed, RetryInv, RetryCreatesNothing
<1>3. QED
  BY <1>1, <1>2, ShapeStep, RetryStep, PTL DEF Spec

-----------------------------------------------------------------------------
(* Records and entries settle. *)

\* The request of c is about n and will still bring the entry of n up to date: it has yet to
\* read, or it will have to read again, or what it has read is still exact.
Exact(c) ==
    req[c].patch = Projected(rec[req[c].n], entry[req[c].n], req[c].op = "label")
Owes(c, n) ==
    /\ req[c].n = n
    /\ \/ req[c].pc \in {"append", "read"}
       \/ req[c].pc = "write" /\ req[c].op = "label"
       \/ req[c].pc = "commit" /\ (c \notin fresh \/ Exact(c))
Relabels(c, n) ==
    req[c].n = n /\ req[c].op = "label" /\ req[c].pc \in {"write", "read", "commit"}
Deletes(c, n) == req[c].n = n /\ req[c].op = "delete" /\ req[c].pc \in {"read", "commit"}

Synced(n) == entry[n] = Projected(rec[n], NoEntry, TRUE)

\* A record is listed, except by the request that is about to; a marker belongs to a label
\* change; what is about to be committed is exact, or somebody else will commit after it; and
\* so the entry says what the record says, or somebody will bring it up to date.
EntryInv(n) ==
    n \notin hurt /\ rec[n].st # "none" =>
        /\ entry[n].st = "none" => \E c \in Clients : req[c].pc = "append" /\ req[c].n = n
        /\ entry[n].pending => \E c \in Clients : Relabels(c, n)
        /\ \A c \in Clients : Publishes(c) /\ req[c].n = n =>
             /\ req[c].patch.st # "none"
             /\ req[c].patch.pending => entry[n].pending /\ req[c].op # "label"
             /\ Exact(c) \/ \E d \in Clients \ {c} : Owes(d, n)
        /\ Synced(n) \/ \E c \in Clients : Owes(c, n)

\* One request deletes a notebook, and it alone lowers the count.
DeleteInv(n) ==
    n \notin hurt =>
        /\ entry[n].st = "active" /\ rec[n].st # "active" => \E c \in Clients : Deletes(c, n)
        /\ \A c \in Clients : Deletes(c, n) =>
             /\ rec[n].st # "active"
             /\ \A d \in Clients : Deletes(d, n) => d = c
             /\ Publishes(c) => req[c].patch.st # "active"

\* Only a creation that failed is undone.
UndoInv == \A c \in Clients : req[c].pc = "undo" => req[c].n \in hurt
\* A notebook that is not listed has no marker either.
BlankInv ==
    /\ \A n \in Notebooks : entry[n].st = "none" => ~entry[n].pending
    /\ \A c \in Clients : Publishes(c) /\ req[c].patch.st = "none" => ~req[c].patch.pending
\* What a sweep has purged stays so until its entry goes.
PurgedInv ==
    /\ sweep.pc = "gc" => sweep.todo = {}
    /\ \A n \in (sweep.stale \ sweep.todo) \ hurt : rec[n].st = "none"

\* The project counts the active notebooks and those whose deletion it has yet to count.
Counted == {n \in Notebooks : entry[n].st = "active" \/ \E c \in Clients : Deletes(c, n)}
CountInv == hurt = {} => count = Cardinality(Counted)

SettleInv ==
    /\ UndoInv /\ BlankInv /\ PurgedInv /\ CountInv
    /\ \A n \in Notebooks : EntryInv(n) /\ DeleteInv(n)
-----------------------------------------------------------------------------
\* A request that neither has yet to bring an entry up to date nor is about to publish one.
Aloof(r) == r.pc \notin {"append", "undo", "read", "commit"} /\ ~(r.pc = "write" /\ r.op = "label")

\* What a step changes of the notebooks, of the count and of who failed.
Idles ==
    /\ sweep' = sweep \/ (sweep'.pc # "gc" /\ sweep'.stale \subseteq sweep'.todo)
    /\ UNCHANGED <<rec, entry, fresh, count, req, hurt>>
Aside(c) ==
    /\ Others(c) /\ Aloof(req[c]) /\ Aloof(req'[c])
    /\ UNCHANGED <<rec, entry, fresh, count, hurt, sweep>>
Faulty(c) ==
    /\ Others(c) /\ req[c].n \in hurt' /\ hurt \subseteq hurt'
    /\ \A m \in Notebooks \ {req[c].n} : rec'[m] = rec[m] /\ entry'[m] = entry[m]
    /\ fresh' \in {fresh, {}}
    /\ \/ req'[c].pc = "idle" /\ req'[c].n = 0
       \/ req'[c].pc = "undo" /\ req'[c].n = req[c].n
    /\ UNCHANGED sweep
MetaOk(c) ==
    /\ Others(c) /\ At(c, "meta") /\ Reaches(c, "append") /\ PutRecord(req[c].n, NewRecord)
    /\ UNCHANGED <<entry, fresh, count, hurt, sweep>>
AppendOk(c) ==
    /\ Others(c) /\ At(c, "append") /\ Reaches(c, "record") /\ Appended(req[c].n)
    /\ UNCHANGED <<rec, hurt, sweep>>
ParkOk(c) ==
    /\ Others(c) /\ At(c, "park") /\ Reaches(c, "write") /\ CommitEntry(req[c].n, Parked(req[c].n))
    /\ UNCHANGED <<rec, count, hurt, sweep>>
EditOk(c) ==
    /\ Others(c) /\ At(c, "write") /\ rec[req[c].n].st = "active" /\ PutRecord(req[c].n, Edited(c))
    /\ req'[c].pc = "read" /\ req'[c].n = req[c].n /\ req'[c].op = req[c].op
    /\ UNCHANGED <<entry, fresh, count, hurt, sweep>>
RereadOk(c) ==
    /\ Others(c) /\ Reaches(c, "read")
    /\ (At(c, "commit") /\ c \notin fresh) \/ (At(c, "write") /\ req[c].op = "label")
    /\ UNCHANGED <<rec, entry, fresh, count, hurt, sweep>>
ReadOk(c) ==
    /\ Others(c) /\ At(c, "read") /\ req'[c].pc = "commit" /\ req'[c].patch = Patch(c)
    /\ req'[c].n = req[c].n /\ req'[c].op = req[c].op
    /\ fresh' = fresh \union {c}
    /\ UNCHANGED <<rec, entry, count, hurt, sweep>>
CommitOk(c) ==
    /\ Others(c) /\ At(c, "commit") /\ c \in fresh /\ Ends(c) /\ Committed(c)
    /\ UNCHANGED <<rec, hurt, sweep>>
Wipe(n) ==
    /\ n \in sweep.stale /\ PutRecord(n, NoRecord)
    /\ \/ sweep'.pc # "gc" /\ sweep'.stale = {}
       \/ /\ sweep'.stale = sweep.stale /\ sweep'.todo = sweep.todo \ {n}
          /\ sweep'.pc = "gc" => sweep'.todo = {}
    /\ UNCHANGED <<entry, fresh, count, req, hurt>>
Drops ==
    /\ sweep.pc = "gc" /\ Collected /\ sweep'.pc # "gc" /\ sweep'.stale = {}
    /\ UNCHANGED <<rec, count, req, hurt>>

Settles ==
    \/ Idles \/ Drops
    \/ \E n \in Notebooks : Wipe(n)
    \/ \E c \in Clients :
         \/ Aside(c) \/ Faulty(c) \/ MetaOk(c) \/ AppendOk(c) \/ ParkOk(c) \/ EditOk(c)
         \/ RereadOk(c) \/ ReadOk(c) \/ CommitOk(c)

\* A failed request is about a notebook, and changes no other.
LEMMA FailFaulty ==
    ASSUME Shape, NEW c \in Clients, Fail(c)
    PROVE  Faulty(c)
<1> USE ConstantFields
<1>1. req[c].n \in Notebooks /\ hurt' = hurt \union {req[c].n} /\ UNCHANGED sweep
  BY DEF Fail, At, Shape, WellFormed
<1>2. Goto(c, "idle") \/ Goto(c, "undo")
  BY DEF Fail
<1>3. /\ Others(c)
      /\ \/ req'[c].pc = "idle" /\ req'[c].n = 0
         \/ req'[c].pc = "undo" /\ req'[c].n = req[c].n
  BY <1>2, GotoMeans DEF Others, Keeps
<1>4. \A m \in Notebooks \ {req[c].n} : rec'[m] = rec[m]
  BY DEF Fail, PutRecord, Shape, TypeOK
<1>5. /\ \A m \in Notebooks \ {req[c].n} : entry'[m] = entry[m]
      /\ fresh' \in {fresh, {}}
  BY DEF Fail, Appended, Committed, CommitEntry, Shape, TypeOK
<1>6. QED
  BY <1>1, <1>3, <1>4, <1>5 DEF Faulty

\* Every step has one of these effects.
LEMMA StepSettles == Shape /\ SweepInv /\ UndoInv /\ [Next]_vars => Settles
<1> SUFFICES ASSUME Shape, SweepInv, UndoInv, [Next]_vars PROVE Settles
  OBVIOUS
<1> USE ConstantFields
<1>1. CASE UNCHANGED vars
  <2>1. Idles
    BY <1>1 DEF vars, store, history, Idles
  <2>2. QED
    BY <2>1 DEF Settles
<1>2. ASSUME NEW c \in Clients, NEW k \in Keys, Create(c, k) PROVE Settles
  <2>8. Aside(c)
    BY <1>2, CreateMeans DEF Aside, Aloof, At, Others, store, history
  <2>9. QED
    BY <2>8 DEF Settles
<1>3. ASSUME NEW c \in Clients, NEW n \in Notebooks, Delete(c, n) PROVE Settles
  <2>8. Aside(c)
    BY <1>3, AskMeans DEF Delete, Aside, Aloof, At, Others, store, history
  <2>9. QED
    BY <2>8 DEF Settles
<1>4. ASSUME NEW c \in Clients, NEW n \in Notebooks, NEW t \in Titles, Update(c, n, t) PROVE Settles
  <2>8. Aside(c)
    BY <1>4, AskMeans DEF Update, Aside, Aloof, At, Others, store, history
  <2>9. QED
    BY <2>8 DEF Settles
<1>5. ASSUME NEW c \in Clients, NEW n \in Notebooks,
             NEW l \in Labels \union {"unset"}, SetLabels(c, n, l) PROVE Settles
  <2>8. Aside(c)
    BY <1>5, AskMeans DEF SetLabels, Aside, Aloof, At, Others, store, history
  <2>9. QED
    BY <2>8 DEF Settles
<1>6. ASSUME NEW c \in Clients, Lookup(c) PROVE Settles
  <2>1. Others(c) /\ req'[c].pc \in {"idle", "files"} /\ UNCHANGED <<rec, entry, fresh, count, hurt, sweep>>
    <3>1. ASSUME idem[req[c].key] # 0 PROVE Others(c) /\ req'[c].pc = "idle"
      BY <1>6, <3>1, GotoMeans DEF Lookup, Others
    <3>2. ASSUME idem[req[c].key] = 0 PROVE Others(c) /\ req'[c].pc = "files"
      BY <1>6, <3>2 DEF Lookup, Others, Shape, TypeOK, Requests
    <3>3. QED
      BY <1>6, <3>1, <3>2 DEF Lookup
  <2>8. Aside(c)
    BY <1>6, <2>1 DEF Lookup, Aside, Aloof, At
  <2>9. QED
    BY <2>8 DEF Settles
<1>7. ASSUME NEW c \in Clients, WriteFiles(c) PROVE Settles
  <2>8. Aside(c)
    BY <1>7, GotoMeans DEF WriteFiles, Aside, Aloof, At, Others, After, history
  <2>9. QED
    BY <2>8 DEF Settles
<1>8. ASSUME NEW c \in Clients, WriteMeta(c) PROVE Settles
  <2>8. MetaOk(c)
    BY <1>8, GotoMeans DEF WriteMeta, MetaOk, Others, Reaches, After, history
  <2>9. QED
    BY <2>8 DEF Settles
<1>9. ASSUME NEW c \in Clients, Append(c) PROVE Settles
  <2>8. AppendOk(c)
    BY <1>9, GotoMeans DEF Append, AppendOk, Others, Reaches, After, history
  <2>9. QED
    BY <2>8 DEF Settles
<1>10. ASSUME NEW c \in Clients, Undo(c) PROVE Settles
  <2>1. req[c].n \in Notebooks /\ req[c].n \in hurt
    BY <1>10 DEF Undo, At, UndoInv, Shape, WellFormed
  <2>2. \A m \in Notebooks \ {req[c].n} : rec'[m] = rec[m]
    BY <1>10, <2>1 DEF Undo, PutRecord, Shape, TypeOK
  <2>8. Faulty(c)
    BY <1>10, <2>1, <2>2, GotoMeans DEF Undo, Faulty, Others, history
  <2>9. QED
    BY <2>8 DEF Settles
<1>11. ASSUME NEW c \in Clients, RecordAnswer(c) PROVE Settles
  <2>8. Aside(c)
    BY <1>11, GotoMeans DEF RecordAnswer, Aside, Aloof, At, Others
  <2>9. QED
    BY <2>8 DEF Settles
<1>12. ASSUME NEW c \in Clients, Crash(c) PROVE Settles
  <2>0. Others(c) /\ req'[c] = NoRequest /\ UNCHANGED <<rec, entry, fresh, count, sweep>>
    BY <1>12, GotoMeans DEF Crash, Others, store
  <2>1. CASE req[c].n = 0
    <3>1. hurt' = hurt
      BY <1>12, <2>1 DEF Crash
    <3>2. req[c].pc \in {"idle", "lookup"}
      BY <2>1 DEF Shape, WellFormed
    <3>3. Aside(c)
      BY <2>0, <3>1, <3>2 DEF Aside, Aloof
    <3>4. QED
      BY <3>3 DEF Settles
  <2>2. CASE req[c].n # 0
    <3>1. Faulty(c)
      BY <1>12, <2>0, <2>2 DEF Crash, Faulty
    <3>2. QED
      BY <3>1 DEF Settles
  <2>3. QED
    BY <2>1, <2>2
<1>13. ASSUME NEW c \in Clients, Park(c) PROVE Settles
  <2>8. ParkOk(c)
    BY <1>13, GotoMeans DEF Park, ParkOk, Others, Reaches, history
  <2>9. QED
    BY <2>8 DEF Settles
<1>14. ASSUME NEW c \in Clients, WriteRecord(c) PROVE Settles
  <2>1. Others(c) /\ req'[c].pc = "read" /\ req'[c].n = req[c].n /\ req'[c].op = req[c].op
    BY <1>14 DEF WriteRecord, Others, Shape, TypeOK, Requests
  <2>8. EditOk(c)
    BY <1>14, <2>1 DEF WriteRecord, EditOk, history
  <2>9. QED
    BY <2>8 DEF Settles
<1>15. ASSUME NEW c \in Clients, Reject(c) PROVE Settles
  <2>8. Aside(c) \/ RereadOk(c)
    BY <1>15, GotoMeans DEF Reject, Aside, Aloof, At, RereadOk, Others, Reaches, store, history
  <2>9. QED
    BY <2>8 DEF Settles
<1>16. ASSUME NEW c \in Clients, ReadEntry(c) PROVE Settles
  <2>1. /\ Others(c) /\ req'[c].pc = "commit" /\ req'[c].n = req[c].n /\ req'[c].op = req[c].op
        /\ req'[c].patch = Patch(c)
    BY <1>16 DEF ReadEntry, Others, Shape, TypeOK, Requests
  <2>8. ReadOk(c)
    BY <1>16, <2>1 DEF ReadEntry, ReadOk, history
  <2>9. QED
    BY <2>8 DEF Settles
<1>17. ASSUME NEW c \in Clients, CommitPatch(c) PROVE Settles
  <2>8. CommitOk(c) \/ RereadOk(c)
    BY <1>17, GotoMeans DEF CommitPatch, CommitOk, RereadOk, Others, Ends, Reaches, history
  <2>9. QED
    BY <2>8 DEF Settles
<1>18. CASE (\E n \in Notebooks : Age(n)) \/ (\E k \in Keys : PruneKey(k)) \/ SweepList
  <2>8. Idles
    BY <1>18 DEF Age, PruneKey, SweepList, Idles, store, history
  <2>9. QED
    BY <2>8 DEF Settles
<1>19. ASSUME NEW n \in Notebooks, Purge(n) PROVE Settles
  <2>0. sweep \in Sweeps /\ n \in sweep.todo /\ n \in sweep.stale /\ UNCHANGED <<entry, fresh, count, req, hurt>>
    BY <1>19 DEF Purge, SweepInv, Shape, TypeOK, history
  <2>1. ASSUME rec[n].st = "active" PROVE Idles
    BY <1>19, <2>0, <2>1 DEF Purge, Idles, NoSweep
  <2>2. ASSUME rec[n].st # "active" PROVE Wipe(n)
    <3>1. sweep' = [sweep EXCEPT !.todo = @ \ {n}, !.pc = IF sweep.todo = {n} THEN "gc" ELSE @]
          /\ PutRecord(n, NoRecord) /\ sweep.pc = "purge"
      BY <1>19, <2>2 DEF Purge
    <3>2. /\ sweep'.stale = sweep.stale /\ sweep'.todo = sweep.todo \ {n}
          /\ sweep'.pc = IF sweep.todo = {n} THEN "gc" ELSE sweep.pc
      BY <2>0, <3>1 DEF Sweeps
    <3>3. sweep'.pc = "gc" => sweep'.todo = {}
      BY <3>1, <3>2
    <3>4. QED
      BY <2>0, <3>1, <3>2, <3>3 DEF Wipe
  <2>9. QED
    BY <2>1, <2>2 DEF Settles
<1>20. CASE SweepGc
  <2>8. Drops
    BY <1>20 DEF SweepGc, Drops, NoSweep, history
  <2>9. QED
    BY <2>8 DEF Settles
<1>21. CASE SweepFails
  <2>0. sweep'.pc # "gc" /\ sweep'.stale = {} /\ UNCHANGED <<count, req, hurt>>
    BY <1>21 DEF SweepFails, NoSweep, history
  <2>1. ASSUME sweep.pc = "purge" PROVE Idles \/ \E n \in Notebooks : Wipe(n)
    <3>1. PICK n \in sweep.todo : PutRecord(n, NoRecord) \/ UNCHANGED rec
      BY <1>21, <2>1 DEF SweepFails
    <3>2. UNCHANGED <<entry, fresh>>
      BY <1>21, <2>1 DEF SweepFails
    <3>3. n \in sweep.stale /\ n \in Notebooks
      BY <3>1 DEF SweepInv, Shape, TypeOK, Sweeps
    <3>4. QED
      BY <2>0, <3>1, <3>2, <3>3 DEF Idles, Wipe
  <2>2. ASSUME sweep.pc = "gc" PROVE Drops \/ Idles
    BY <1>21, <2>0, <2>2 DEF SweepFails, Drops, Idles
  <2>9. QED
    BY <1>21, <2>1, <2>2 DEF SweepFails, Settles
<1>22. ASSUME NEW c \in Clients, Fail(c) PROVE Settles
  BY <1>22, FailFaulty DEF Settles
<1>23. QED
  BY NextCases, <1>1, <1>2, <1>3, <1>4, <1>5, <1>6, <1>7, <1>8, <1>9, <1>10, <1>11, <1>12, <1>13, <1>14,
     <1>15, <1>16, <1>17, <1>18, <1>19, <1>20, <1>21, <1>22

-----------------------------------------------------------------------------
\* A step that leaves notebook m and the requests about it alone, but for what they have read
\* of the catalog.
Involved(r, m) == r.n = m /\ ~Aloof(r)
Untouched(m) ==
    /\ rec'[m] = rec[m] /\ entry'[m] = entry[m]
    /\ m \in hurt => m \in hurt'
    /\ \A d \in Clients : req'[d] = req[d] \/ (~Involved(req[d], m) /\ ~Involved(req'[d], m))
    /\ fresh' = {} \/ \A d \in Clients : Involved(req[d], m) => (d \in fresh' <=> d \in fresh)

LEMMA UntouchedRoles ==
    ASSUME NEW m \in Notebooks, Untouched(m), NEW d \in Clients
    PROVE  /\ req'[d].pc = "append" /\ req'[d].n = m <=> req[d].pc = "append" /\ req[d].n = m
           /\ Relabels(d, m)' <=> Relabels(d, m)
           /\ Deletes(d, m)' <=> Deletes(d, m)
           /\ Owes(d, m) => Owes(d, m)'
           /\ Publishes(d)' /\ req'[d].n = m => Publishes(d) /\ req[d].n = m /\ req'[d] = req[d]
<1> USE DEF Untouched
<1>1. CASE req'[d] = req[d]
  <2>1. Publishes(d)' /\ req'[d].n = m => Publishes(d)
    BY <1>1 DEF Publishes, Involved, Aloof
  <2>2. Owes(d, m) => Owes(d, m)'
    BY <1>1 DEF Owes, Exact, Involved, Aloof
  <2>3. QED
    BY <1>1, <2>1, <2>2 DEF Relabels, Deletes
<1>2. CASE ~Involved(req[d], m) /\ ~Involved(req'[d], m)
  BY <1>2 DEF Involved, Aloof, Relabels, Deletes, Owes, Publishes
<1>3. QED
  BY <1>1, <1>2

LEMMA Apart ==
    ASSUME NEW m \in Notebooks, EntryInv(m), DeleteInv(m), Untouched(m)
    PROVE  EntryInv(m)' /\ DeleteInv(m)' /\ ((m \in Counted)' <=> m \in Counted)
<1>0. rec'[m] = rec[m] /\ entry'[m] = entry[m] /\ (m \in hurt => m \in hurt')
  BY DEF Untouched
<1>1. EntryInv(m)'
  <2>1. SUFFICES ASSUME m \notin hurt', rec'[m].st # "none"
        PROVE  /\ entry'[m].st = "none" => \E c \in Clients : req'[c].pc = "append" /\ req'[c].n = m
               /\ entry'[m].pending => \E c \in Clients : Relabels(c, m)'
               /\ \A c \in Clients : Publishes(c)' /\ req'[c].n = m =>
                    /\ req'[c].patch.st # "none"
                    /\ req'[c].patch.pending => entry'[m].pending /\ req'[c].op # "label"
                    /\ Exact(c)' \/ \E d \in Clients \ {c} : Owes(d, m)'
               /\ Synced(m)' \/ \E c \in Clients : Owes(c, m)'
    BY DEF EntryInv
  <2>2. m \notin hurt /\ rec[m].st # "none"
    BY <1>0, <2>1
  <2>3. ASSUME NEW c \in Clients, Publishes(c)', req'[c].n = m
        PROVE  /\ req'[c].patch.st # "none"
               /\ req'[c].patch.pending => entry'[m].pending /\ req'[c].op # "label"
               /\ Exact(c)' \/ \E d \in Clients \ {c} : Owes(d, m)'
    <3>1. Publishes(c) /\ req[c].n = m /\ req'[c] = req[c]
      BY <2>3, UntouchedRoles
    <3>2. Exact(c) => Exact(c)'
      BY <1>0, <3>1 DEF Exact
    <3>3. QED
      BY <1>0, <2>2, <3>1, <3>2, UntouchedRoles DEF EntryInv
  <2>4. Synced(m) => Synced(m)'
    BY <1>0 DEF Synced
  <2>5. QED
    BY <1>0, <2>2, <2>3, <2>4, UntouchedRoles DEF EntryInv
<1>2. DeleteInv(m)'
  <2>1. \A c \in Clients : Deletes(c, m) => req[c].n = m
    BY DEF Deletes
  <2>2. ASSUME NEW c \in Clients, Deletes(c, m), Publishes(c)' PROVE Publishes(c) /\ req'[c].patch = req[c].patch
    BY <2>2, UntouchedRoles DEF Deletes
  <2>3. QED
    BY <1>0, <2>2, UntouchedRoles DEF DeleteInv
<1>3. (m \in Counted)' <=> m \in Counted
  BY <1>0, UntouchedRoles DEF Counted
<1>4. QED
  BY <1>1, <1>2, <1>3

\* The other notebooks, when a request takes a step.
LEMMA Elsewhere ==
    ASSUME NEW c \in Clients, NEW m \in Notebooks \ {req[c].n}, Others(c), req'[c].n \in {req[c].n, 0},
           rec'[m] = rec[m], entry'[m] = entry[m], hurt \subseteq hurt',
           fresh' \in {fresh, {}, fresh \union {c}}
    PROVE  Untouched(m)
  BY ConstantFields DEF Untouched, Involved, Others

\* A notebook with a record is listed, or the request that creates it is alone with it.
LEMMA ListedOrAlone ==
    ASSUME CreateInv, NEW c \in Clients, NEW n \in Notebooks, EntryInv(n), n \notin hurt,
           rec[n].st # "none", req[c].n = n, req[c].pc \notin Creating
    PROVE  entry[n].st # "none"
  BY DEF CreateInv, EntryInv, Creating

\* What is counted is a finite set.
LEMMA CountedFinite == IsFiniteSet(Counted) /\ IsFiniteSet(Counted)'
<1>1. IsFiniteSet(Notebooks)
  BY ContentAssumption, FS_Interval DEF Notebooks
<1>2. Counted \subseteq Notebooks /\ Counted' \subseteq Notebooks
  BY DEF Counted
<1>3. QED
  BY <1>1, <1>2, FS_Subset

LEMMA CountKept ==
    ASSUME CountInv, hurt' = {} => hurt = {}, count' = count,
           \A m \in Notebooks : (m \in Counted)' <=> m \in Counted
    PROVE  CountInv'
<1>1. Counted' = Counted
  BY DEF Counted
<1>2. QED
  BY <1>1 DEF CountInv

NotebooksInv == (\A n \in Notebooks : EntryInv(n) /\ DeleteInv(n)) /\ CountInv

LEMMA AsideSettles ==
    ASSUME NotebooksInv, NEW c \in Clients, Aside(c)
    PROVE  NotebooksInv'
<1>1. \A m \in Notebooks : Untouched(m)
  BY DEF Aside, Untouched, Involved, Others
<1>2. QED
  BY <1>1, Apart, CountKept DEF Aside, NotebooksInv

LEMMA FaultySettles ==
    ASSUME NotebooksInv, NEW c \in Clients, Faulty(c)
    PROVE  NotebooksInv'
<1>1. \A m \in Notebooks \ {req[c].n} : Untouched(m)
  BY Elsewhere DEF Faulty
<1>2. \A m \in Notebooks : EntryInv(m)' /\ DeleteInv(m)'
  <2>1. \A m \in Notebooks \ {req[c].n} : EntryInv(m)' /\ DeleteInv(m)'
    BY <1>1, Apart DEF NotebooksInv
  <2>2. req[c].n \in hurt'
    BY DEF Faulty
  <2>3. ASSUME NEW m \in Notebooks, m = req[c].n PROVE EntryInv(m)' /\ DeleteInv(m)'
    BY <2>2, <2>3 DEF EntryInv, DeleteInv
  <2>4. QED
    BY <2>1, <2>3
<1>3. CountInv'
  BY DEF Faulty, CountInv
<1>4. QED
  BY <1>2, <1>3 DEF NotebooksInv

LEMMA MetaSettles ==
    ASSUME Shape, ListedInv, BlankInv, NotebooksInv, NEW c \in Clients, MetaOk(c)
    PROVE  NotebooksInv'
<1> DEFINE n == req[c].n
<1> USE ConstantFields
<1>0. /\ n \in Notebooks /\ rec' = [rec EXCEPT ![n] = NewRecord] /\ rec'[n] = NewRecord
      /\ \A m \in Notebooks \ {n} : rec'[m] = rec[m]
  BY DEF MetaOk, PutRecord, At, Shape, TypeOK, WellFormed
<1>1. /\ entry[n].st = "none" /\ ~entry[n].pending
      /\ \A d \in Clients \ {c} : req[d].n # n /\ req'[d].n # n
  BY <1>0 DEF MetaOk, At, ListedInv, CreateInv, BlankInv, Creating, Others
<1>2. req'[c].pc = "append" /\ req'[c].n = n /\ entry'[n] = entry[n] /\ UNCHANGED <<count, fresh, hurt>>
  BY DEF MetaOk, Reaches, Keeps
<1>3. \A m \in Notebooks \ {n} : Untouched(m)
  BY <1>0, <1>2, Elsewhere DEF MetaOk
<1>4. ASSUME NEW m \in Notebooks, m = n
      PROVE  EntryInv(m)' /\ DeleteInv(m)' /\ ((m \in Counted)' <=> m \in Counted)
  <2>1. Owes(c, m)'
    BY <1>2, <1>4 DEF Owes
  <2>2. \A d \in Clients : Publishes(d)' => req'[d].n # m
    BY <1>1, <1>2, <1>4 DEF Publishes
  <2>3. \A d \in Clients : ~Deletes(d, m) /\ ~Deletes(d, m)'
    BY <1>1, <1>2, <1>4 DEF Deletes, MetaOk, At
  <2>4. EntryInv(m)'
    BY <1>0, <1>1, <1>2, <1>4, <2>1, <2>2 DEF EntryInv
  <2>5. DeleteInv(m)'
    BY <1>1, <1>2, <1>4, <2>3 DEF DeleteInv
  <2>6. (m \in Counted)' <=> m \in Counted
    BY <1>2, <1>4, <2>3 DEF Counted
  <2>7. QED
    BY <2>4, <2>5, <2>6
<1>5. \A m \in Notebooks : EntryInv(m)' /\ DeleteInv(m)' /\ ((m \in Counted)' <=> m \in Counted)
  BY <1>3, <1>4, Apart DEF NotebooksInv
<1>6. QED
  BY <1>2, <1>5, CountKept DEF NotebooksInv

LEMMA AppendSettles ==
    ASSUME Shape, ListedInv, NotebooksInv, NEW c \in Clients, AppendOk(c)
    PROVE  NotebooksInv'
<1> DEFINE n == req[c].n
<1> USE ConstantFields
<1>0. /\ n \in Notebooks /\ fresh' = {} /\ count' = count + 1 /\ UNCHANGED <<rec, hurt>>
      /\ entry'[n] = [st |-> "active", title |-> "initial", lab |-> "unset", pending |-> FALSE]
      /\ \A m \in Notebooks \ {n} : entry'[m] = entry[m]
  BY DEF AppendOk, Appended, CommitEntry, At, Shape, TypeOK, WellFormed
<1>1. /\ entry[n].st = "none" /\ rec[n] = NewRecord
      /\ \A d \in Clients \ {c} : req[d].n # n /\ req'[d].n # n
  BY DEF AppendOk, At, ListedInv, CreateInv, Creating, Others
<1>2. req'[c].pc = "record" /\ req'[c].n = n
  BY DEF AppendOk, Reaches, Keeps
<1>3. \A m \in Notebooks \ {n} : Untouched(m)
  BY <1>0, <1>2, Elsewhere DEF AppendOk
<1>4. \A m \in Notebooks \ {n} : EntryInv(m)' /\ DeleteInv(m)' /\ ((m \in Counted)' <=> m \in Counted)
  BY <1>3, Apart DEF NotebooksInv
<1>5. ASSUME NEW m \in Notebooks, m = n
      PROVE  EntryInv(m)' /\ DeleteInv(m)' /\ (m \in Counted)' /\ m \notin Counted
  <2>1. Synced(m)'
    BY <1>0, <1>1, <1>5 DEF Synced, Projected, NewRecord, NoRecord
  <2>2. \A d \in Clients : ~Deletes(d, m) /\ ~Deletes(d, m)'
    BY <1>1, <1>2, <1>5 DEF Deletes, AppendOk, At
  <2>3. EntryInv(m)'
    BY <1>0, <1>5, <2>1 DEF EntryInv, Publishes
  <2>4. DeleteInv(m)'
    BY <1>0, <1>1, <1>5, <2>2 DEF DeleteInv
  <2>5. (m \in Counted)' /\ m \notin Counted
    BY <1>0, <1>1, <1>5, <2>2 DEF Counted
  <2>6. QED
    BY <2>3, <2>4, <2>5
<1>6. CountInv'
  <2>1. Counted' = Counted \union {n} /\ n \notin Counted
    <3>1. Counted \subseteq Notebooks /\ Counted' \subseteq Notebooks
      BY DEF Counted
    <3>2. QED
      BY <1>0, <1>4, <1>5, <3>1
  <2>2. Cardinality(Counted') = Cardinality(Counted) + 1
    BY <2>1, CountedFinite, FS_AddElement
  <2>3. QED
    BY <1>0, <2>2 DEF CountInv, NotebooksInv
<1>7. QED
  BY <1>4, <1>5, <1>6 DEF NotebooksInv

LEMMA ParkSettles ==
    ASSUME Shape, ListedInv, NotebooksInv, NEW c \in Clients, ParkOk(c)
    PROVE  NotebooksInv'
<1> DEFINE n == req[c].n
<1> USE ConstantFields
<1>0. /\ n \in Notebooks /\ fresh' = {} /\ UNCHANGED <<count, rec, hurt>>
      /\ entry'[n].st = entry[n].st
      /\ \A m \in Notebooks \ {n} : entry'[m] = entry[m]
  BY DEF ParkOk, Parked, CommitEntry, At, Shape, TypeOK, WellFormed, Entries
<1>1. /\ req[c].pc = "park" /\ req[c].op = "label" /\ req'[c].pc = "write"
      /\ req'[c].n = n /\ req'[c].op = "label"
      /\ \A d \in Clients \ {c} : req'[d] = req[d]
  BY DEF ParkOk, At, Reaches, Keeps, Others, Shape, WellFormed
<1>3. \A m \in Notebooks \ {n} : Untouched(m)
  BY <1>0, <1>1, Elsewhere DEF ParkOk
<1>4. ASSUME NEW m \in Notebooks, m = n
      PROVE  EntryInv(m)' /\ DeleteInv(m)' /\ ((m \in Counted)' <=> m \in Counted)
  <2>1. Owes(c, m)' /\ Relabels(c, m)'
    BY <1>1, <1>4 DEF Owes, Relabels
  <2>2. \A d \in Clients : Deletes(d, m)' <=> Deletes(d, m)
    BY <1>1 DEF Deletes
  <2>3. EntryInv(m) /\ DeleteInv(m)
    BY DEF NotebooksInv
  <2>4. EntryInv(m)'
    BY <1>0, <1>1, <1>4, <2>1, <2>3 DEF EntryInv, Publishes
  <2>5. DeleteInv(m)'
    BY <1>0, <1>4, <2>2, <2>3 DEF DeleteInv, Publishes
  <2>6. (m \in Counted)' <=> m \in Counted
    BY <1>0, <1>4, <2>2 DEF Counted
  <2>7. QED
    BY <2>4, <2>5, <2>6
<1>5. \A m \in Notebooks : EntryInv(m)' /\ DeleteInv(m)' /\ ((m \in Counted)' <=> m \in Counted)
  BY <1>3, <1>4, Apart DEF NotebooksInv
<1>6. QED
  BY <1>0, <1>5, CountKept DEF NotebooksInv

LEMMA EditSettles ==
    ASSUME Shape, ListedInv, NotebooksInv, NEW c \in Clients, EditOk(c)
    PROVE  NotebooksInv'
<1> DEFINE n == req[c].n
<1> USE ConstantFields
<1>0. /\ n \in Notebooks /\ rec[n].st = "active" /\ UNCHANGED <<count, fresh, entry, hurt>>
      /\ \A m \in Notebooks \ {n} : rec'[m] = rec[m]
      /\ rec'[n].st = IF req[c].op = "delete" THEN "deleted" ELSE "active"
  BY EditedFields DEF EditOk, PutRecord, At, Shape, TypeOK, WellFormed
<1>1. /\ req[c].pc = "write" /\ req'[c].pc = "read" /\ req'[c].n = n /\ req'[c].op = req[c].op
      /\ \A d \in Clients \ {c} : req'[d] = req[d]
  BY DEF EditOk, At, Others
<1>3. \A m \in Notebooks \ {n} : Untouched(m)
  BY <1>0, <1>1, Elsewhere DEF EditOk
<1>4. ASSUME NEW m \in Notebooks, m = n
      PROVE  EntryInv(m)' /\ DeleteInv(m)' /\ (m \notin hurt => ((m \in Counted)' <=> m \in Counted))
  <2>0. EntryInv(m) /\ DeleteInv(m) /\ rec[m].st = "active" /\ rec'[m].st # "none"
    BY <1>0, <1>4 DEF NotebooksInv
  <2>1. Owes(c, m)' /\ ~Publishes(c)'
    BY <1>1, <1>4 DEF Owes, Publishes
  <2>2. m \notin hurt => \A d \in Clients : ~Deletes(d, m)
    BY <2>0 DEF DeleteInv
  <2>3. \A d \in Clients : Deletes(d, m)' <=> Deletes(d, m) \/ (d = c /\ req[c].op = "delete")
    BY <1>1, <1>4 DEF Deletes
  <2>4. \A d \in Clients : Relabels(d, m) => Relabels(d, m)'
    BY <1>1, <1>4 DEF Relabels
  <2>5. EntryInv(m)'
    BY <1>0, <1>1, <1>4, <2>0, <2>1, <2>4 DEF EntryInv, Publishes
  <2>6. DeleteInv(m)'
    BY <1>0, <1>4, <2>0, <2>1, <2>2, <2>3 DEF DeleteInv
  <2>7. m \notin hurt => entry[m].st = "active"
    <3>1. ASSUME m \notin hurt PROVE entry[m].st # "none"
      BY <1>1, <1>4, <2>0, <3>1, ListedOrAlone DEF ListedInv, Creating
    <3>2. entry[m].st # "deleted" /\ entry[m].st \in Statuses
      BY <2>0 DEF ListedInv, DeadInv, Shape, TypeOK, Entries
    <3>3. QED
      BY <3>1, <3>2 DEF Statuses
  <2>8. m \notin hurt => ((m \in Counted)' <=> m \in Counted)
    BY <1>0, <2>7 DEF Counted
  <2>9. QED
    BY <2>5, <2>6, <2>8
<1>5. \A m \in Notebooks : EntryInv(m)' /\ DeleteInv(m)' /\ (m \notin hurt => ((m \in Counted)' <=> m \in Counted))
  BY <1>3, <1>4, Apart DEF NotebooksInv
<1>6. CountInv'
  <2>1. CASE hurt = {}
    BY <1>0, <1>5, <2>1, CountKept DEF NotebooksInv
  <2>2. CASE hurt # {}
    BY <1>0, <2>2 DEF CountInv
  <2>3. QED
    BY <2>1, <2>2
<1>7. QED
  BY <1>5, <1>6 DEF NotebooksInv

LEMMA RereadSettles ==
    ASSUME Shape, NotebooksInv, NEW c \in Clients, RereadOk(c)
    PROVE  NotebooksInv'
<1> DEFINE n == req[c].n
<1> USE ConstantFields
<1>0. n \in Notebooks /\ UNCHANGED <<rec, entry, count, fresh, hurt>>
  BY DEF RereadOk, At, Shape, WellFormed
<1>1. /\ req'[c].pc = "read" /\ req'[c].n = n /\ req'[c].op = req[c].op
      /\ (req[c].pc = "commit" /\ c \notin fresh) \/ (req[c].pc = "write" /\ req[c].op = "label")
      /\ \A d \in Clients \ {c} : req'[d] = req[d]
  BY DEF RereadOk, At, Reaches, Keeps, Others
<1>3. \A m \in Notebooks \ {n} : Untouched(m)
  BY <1>0, <1>1, Elsewhere DEF RereadOk
<1>4. ASSUME NEW m \in Notebooks, m = n
      PROVE  EntryInv(m)' /\ DeleteInv(m)' /\ ((m \in Counted)' <=> m \in Counted)
  <2>0. EntryInv(m) /\ DeleteInv(m)
    BY DEF NotebooksInv
  <2>1. Owes(c, m)' /\ ~Publishes(c)'
    BY <1>1, <1>4 DEF Owes, Publishes
  <2>2. \A d \in Clients : /\ Deletes(d, m)' <=> Deletes(d, m)
                           /\ Relabels(d, m)' <=> Relabels(d, m)
    BY <1>1, <1>4 DEF Deletes, Relabels
  <2>3. \A d \in Clients \ {c} : /\ Owes(d, m) => Owes(d, m)'
                                 /\ Exact(d) => Exact(d)'
                                 /\ Publishes(d)' => Publishes(d)
    BY <1>0, <1>1 DEF Owes, Exact, Publishes
  <2>4. EntryInv(m)'
    BY <1>0, <1>1, <1>4, <2>0, <2>1, <2>2, <2>3 DEF EntryInv
  <2>5. DeleteInv(m)'
    BY <1>0, <1>1, <1>4, <2>0, <2>1, <2>2, <2>3 DEF DeleteInv
  <2>6. (m \in Counted)' <=> m \in Counted
    BY <1>0, <1>4, <2>2 DEF Counted
  <2>7. QED
    BY <2>4, <2>5, <2>6
<1>5. \A m \in Notebooks : EntryInv(m)' /\ DeleteInv(m)' /\ ((m \in Counted)' <=> m \in Counted)
  BY <1>3, <1>4, Apart DEF NotebooksInv
<1>6. QED
  BY <1>0, <1>5, CountKept DEF NotebooksInv

LEMMA ReadSettles ==
    ASSUME Shape, ListedInv, NotebooksInv, NEW c \in Clients, ReadOk(c)
    PROVE  NotebooksInv'
<1> DEFINE n == req[c].n
<1> USE ConstantFields
<1>0. /\ n \in Notebooks /\ UNCHANGED <<rec, entry, count, hurt>>
      /\ fresh' = fresh \union {c}
  BY DEF ReadOk, At, Shape, WellFormed
<1>1. /\ req[c].pc = "read" /\ req'[c].pc = "commit" /\ req'[c].n = n /\ req'[c].op = req[c].op
      /\ req'[c].patch = Patch(c)
      /\ \A d \in Clients \ {c} : req'[d] = req[d]
  BY DEF ReadOk, At, Others
<1>3. \A m \in Notebooks \ {n} : Untouched(m)
  BY <1>0, <1>1, Elsewhere DEF ReadOk
<1>4. ASSUME NEW m \in Notebooks, m = n
      PROVE  EntryInv(m)' /\ DeleteInv(m)' /\ ((m \in Counted)' <=> m \in Counted)
  <2>0. EntryInv(m) /\ DeleteInv(m)
    BY DEF NotebooksInv
  <2>1. ASSUME m \notin hurt, rec[m].st # "none"
        PROVE  /\ Exact(c)' /\ Owes(c, m)'
               /\ req'[c].patch.st # "none"
               /\ req'[c].patch.pending => entry[m].pending /\ req[c].op # "label"
    <3>1. entry[m].st # "none"
      BY <1>1, <1>4, <2>0, <2>1, ListedOrAlone DEF ListedInv, Creating
    <3>2. Patch(c) = Projected(rec[m], entry[m], req[c].op = "label")
      BY <1>1, <1>4, <2>1, <3>1, PatchCases DEF At
    <3>3. Exact(c)'
      BY <1>0, <1>1, <1>4, <3>2 DEF Exact
    <3>4. Owes(c, m)'
      BY <1>1, <1>4, <3>3 DEF Owes
    <3>5. Patch(c).st = rec[m].st
      BY <3>2 DEF Projected
    <3>6. Patch(c).pending = (entry[m].pending /\ ~(req[c].op = "label"))
      BY <3>2 DEF Projected
    <3>7. req'[c].patch.pending => entry[m].pending /\ req[c].op # "label"
      BY <1>1, <3>6
    <3>8. QED
      BY <1>1, <2>1, <3>3, <3>4, <3>5, <3>7
  <2>2. \A d \in Clients : /\ Deletes(d, m)' <=> Deletes(d, m)
                           /\ Relabels(d, m)' <=> Relabels(d, m)
    BY <1>1, <1>4 DEF Deletes, Relabels
  <2>3. \A d \in Clients \ {c} : /\ Owes(d, m) => Owes(d, m)'
                                 /\ Exact(d) => Exact(d)'
                                 /\ Publishes(d)' => Publishes(d)
    BY <1>0, <1>1 DEF Owes, Exact, Publishes
  <2>4. EntryInv(m)'
    BY <1>0, <1>1, <1>4, <2>0, <2>1, <2>2, <2>3 DEF EntryInv
  <2>5. ASSUME m \notin hurt, Deletes(c, m) PROVE req'[c].patch.st # "active"
    <3>1. rec[m].st # "active" /\ req[c].known.st = "deleted"
      BY <1>1, <2>0, <2>5 DEF DeleteInv, ListedInv, PatchInv, Deletes
    <3>2. QED
      BY <1>1, <1>4, <2>5, <3>1, PatchCases DEF At, Projected, Deletes
  <2>6. DeleteInv(m)'
    BY <1>0, <1>1, <1>4, <2>0, <2>2, <2>3, <2>5 DEF DeleteInv
  <2>7. (m \in Counted)' <=> m \in Counted
    BY <1>0, <1>4, <2>2 DEF Counted
  <2>8. QED
    BY <2>4, <2>6, <2>7
<1>5. \A m \in Notebooks : EntryInv(m)' /\ DeleteInv(m)' /\ ((m \in Counted)' <=> m \in Counted)
  BY <1>3, <1>4, Apart DEF NotebooksInv
<1>6. QED
  BY <1>0, <1>5, CountKept DEF NotebooksInv

LEMMA CommitSettles ==
    ASSUME Shape, ListedInv, NotebooksInv, NEW c \in Clients, CommitOk(c)
    PROVE  NotebooksInv'
<1> DEFINE n == req[c].n
<1> USE ConstantFields
<1>0. /\ n \in Notebooks /\ fresh' = {} /\ UNCHANGED <<rec, hurt>>
      /\ entry'[n] = req[c].patch
      /\ \A m \in Notebooks \ {n} : entry'[m] = entry[m]
      /\ count' = IF req[c].op = "delete" /\ count > 0 THEN count - 1 ELSE count
  BY DEF CommitOk, Committed, CommitEntry, At, Shape, TypeOK, WellFormed
<1>1. /\ req[c].pc = "commit" /\ Publishes(c) /\ req'[c].pc = "idle" /\ req'[c].n = 0
      /\ \A d \in Clients \ {c} : req'[d] = req[d]
  BY DEF CommitOk, At, Others, Ends, Publishes
<1>2. /\ req[c].patch.st \in Statuses
      /\ req[c].patch.st = "active" => entry[n].st = "active"
      /\ req[c].patch.st = "deleted" => rec[n].st # "active"
  BY <1>1 DEF ListedInv, PatchInv, Shape, TypeOK, Requests, Entries
<1>3. \A m \in Notebooks \ {n} : Untouched(m)
  BY <1>0, <1>1, Elsewhere DEF CommitOk
<1>4. ASSUME NEW m \in Notebooks, m = n
      PROVE  /\ EntryInv(m)' /\ DeleteInv(m)'
             /\ m \notin hurt /\ req[c].op # "delete" => ((m \in Counted)' <=> m \in Counted)
             /\ m \notin hurt /\ req[c].op = "delete" => ~(m \in Counted)' /\ m \in Counted
  <2>0. EntryInv(m) /\ DeleteInv(m)
    BY DEF NotebooksInv
  <2>1. \A d \in Clients : /\ Deletes(d, m)' <=> Deletes(d, m) /\ d # c
                           /\ Relabels(d, m) /\ d # c => Relabels(d, m)' /\ Owes(d, m)'
                           /\ Owes(d, m) /\ d # c => Owes(d, m)'
                           /\ ~Publishes(d)'
    BY <1>0, <1>1, <1>4 DEF Deletes, Relabels, Owes, Publishes
  <2>2. EntryInv(m)'
    <3>1. SUFFICES ASSUME m \notin hurt, rec[m].st # "none" PROVE EntryInv(m)'
      BY <1>0 DEF EntryInv
    <3>2. /\ req[c].patch.st # "none"
          /\ req[c].patch.pending => entry[m].pending /\ req[c].op # "label"
          /\ Exact(c) \/ \E d \in Clients \ {c} : Owes(d, m)
      BY <1>1, <1>4, <2>0, <3>1 DEF EntryInv
    <3>3. ASSUME entry[m].pending, req[c].op # "label"
          PROVE  \E d \in Clients : Relabels(d, m)' /\ Owes(d, m)'
      <4>1. PICK d \in Clients : Relabels(d, m)
        BY <2>0, <3>1, <3>3 DEF EntryInv
      <4>2. d # c
        BY <3>3, <4>1 DEF Relabels
      <4>3. QED
        BY <2>1, <4>1, <4>2
    <3>4. ASSUME Exact(c), ~(entry[m].pending /\ req[c].op # "label") PROVE Synced(m)'
      <4>1. req[c].patch = Projected(rec[m], entry[m], req[c].op = "label")
        BY <1>4, <3>4 DEF Exact
      <4>2. req[c].patch = Projected(rec[m], NoEntry, TRUE)
        BY <3>4, <4>1 DEF Projected
      <4>3. QED
        BY <1>0, <1>4, <4>2 DEF Synced
    <3>5. Synced(m)' \/ \E d \in Clients : Owes(d, m)'
      BY <2>1, <3>2, <3>3, <3>4
    <3>6. QED
      BY <1>0, <1>4, <2>1, <3>2, <3>3, <3>5 DEF EntryInv
  <2>3. m \notin hurt /\ entry[m].st = "active" /\ rec[m].st # "active" => \E d \in Clients : Deletes(d, m)
    BY <2>0 DEF DeleteInv
  <2>4. CASE req[c].op = "delete"
    <3>1. Deletes(c, m)
      BY <1>1, <1>4, <2>4 DEF Deletes
    <3>2. m \notin hurt => req[c].patch.st # "active" /\ \A d \in Clients : ~Deletes(d, m)'
      BY <1>1, <2>0, <2>1, <3>1 DEF DeleteInv
    <3>3. DeleteInv(m)'
      BY <1>0, <1>4, <3>2 DEF DeleteInv
    <3>4. m \notin hurt => ~(m \in Counted)' /\ m \in Counted
      BY <1>0, <1>4, <3>1, <3>2 DEF Counted
    <3>5. QED
      BY <2>2, <2>4, <3>3, <3>4
  <2>5. CASE req[c].op # "delete"
    <3>1. \A d \in Clients : Deletes(d, m)' <=> Deletes(d, m)
      BY <2>1, <2>5 DEF Deletes
    <3>2. DeleteInv(m)'
      BY <1>0, <1>2, <1>4, <2>0, <2>1, <3>1 DEF DeleteInv
    <3>3. ASSUME m \notin hurt, entry[m].st = "active", rec[m].st = "active" PROVE req[c].patch.st = "active"
      <4>1. req[c].patch.st # "none"
        BY <1>1, <1>4, <2>0, <3>3 DEF EntryInv
      <4>2. QED
        BY <1>2, <1>4, <3>3, <4>1 DEF Statuses
    <3>4. m \notin hurt => ((m \in Counted)' <=> m \in Counted)
      BY <1>0, <1>2, <1>4, <2>3, <3>1, <3>3 DEF Counted
    <3>5. QED
      BY <2>2, <2>5, <3>2, <3>4
  <2>6. QED
    BY <2>4, <2>5
<1>5. \A m \in Notebooks \ {n} : EntryInv(m)' /\ DeleteInv(m)' /\ ((m \in Counted)' <=> m \in Counted)
  BY <1>3, Apart DEF NotebooksInv
<1>6. CountInv'
  <2>0. SUFFICES ASSUME hurt = {} PROVE CountInv'
    BY <1>0 DEF CountInv
  <2>1. CASE req[c].op # "delete"
    <3>1. \A m \in Notebooks : (m \in Counted)' <=> m \in Counted
      BY <1>4, <1>5, <2>0, <2>1
    <3>2. QED
      BY <1>0, <2>0, <2>1, <3>1, CountKept DEF NotebooksInv
  <2>2. CASE req[c].op = "delete"
    <3>1. Counted' = Counted \ {n} /\ n \in Counted
      <4>1. Counted \subseteq Notebooks /\ Counted' \subseteq Notebooks
        BY DEF Counted
      <4>2. QED
        BY <1>0, <1>4, <1>5, <2>0, <2>2, <4>1
    <3>2. Cardinality(Counted') = Cardinality(Counted) - 1
      BY <3>1, CountedFinite, FS_RemoveElement
    <3>3. Cardinality(Counted) \in Nat /\ Cardinality(Counted) # 0
      BY <3>1, CountedFinite, FS_CardinalityType, FS_EmptySet
    <3>4. count = Cardinality(Counted)
      BY <2>0 DEF NotebooksInv, CountInv
    <3>5. QED
      BY <1>0, <2>2, <3>2, <3>3, <3>4 DEF CountInv
  <2>3. QED
    BY <2>1, <2>2
<1>7. QED
  BY <1>4, <1>5, <1>6 DEF NotebooksInv

LEMMA IdleSettles ==
    ASSUME NotebooksInv, Idles
    PROVE  NotebooksInv'
<1>1. \A m \in Notebooks : Untouched(m)
  BY DEF Idles, Untouched
<1>2. QED
  BY <1>1, Apart, CountKept DEF Idles, NotebooksInv

LEMMA WipeSettles ==
    ASSUME Shape, ListedInv, NotebooksInv, NEW n \in Notebooks, Wipe(n)
    PROVE  NotebooksInv'
<1> USE ConstantFields
<1>0. /\ rec'[n].st = "none" /\ entry[n].st # "active" /\ UNCHANGED <<entry, fresh, count, req, hurt>>
      /\ \A m \in Notebooks \ {n} : rec'[m] = rec[m]
  BY DEF Wipe, PutRecord, ListedInv, SweepInv, Shape, TypeOK
<1>1. \A m \in Notebooks \ {n} : Untouched(m)
  BY <1>0 DEF Untouched
<1>2. \A d \in Clients : (Deletes(d, n)' <=> Deletes(d, n)) /\ (Publishes(d)' <=> Publishes(d))
  BY <1>0 DEF Deletes, Publishes
<1>3. EntryInv(n)' /\ DeleteInv(n)' /\ ((n \in Counted)' <=> n \in Counted)
  <2>1. DeleteInv(n)
    BY DEF NotebooksInv
  <2>2. EntryInv(n)'
    BY <1>0 DEF EntryInv
  <2>3. DeleteInv(n)'
    BY <1>0, <1>2, <2>1 DEF DeleteInv
  <2>4. (n \in Counted)' <=> n \in Counted
    BY <1>0, <1>2 DEF Counted
  <2>5. QED
    BY <2>2, <2>3, <2>4
<1>4. \A m \in Notebooks : EntryInv(m)' /\ DeleteInv(m)' /\ ((m \in Counted)' <=> m \in Counted)
  BY <1>1, <1>3, Apart DEF NotebooksInv
<1>5. QED
  BY <1>0, <1>4, CountKept DEF NotebooksInv

LEMMA DropsSettles ==
    ASSUME Shape, ListedInv, PurgedInv, NotebooksInv, Drops
    PROVE  NotebooksInv'
<1> USE ConstantFields
<1>0. /\ fresh' = {} /\ UNCHANGED <<rec, count, req, hurt>>
      /\ \A m \in Notebooks : entry'[m] = IF m \in sweep.stale THEN NoEntry ELSE entry[m]
      /\ \A m \in sweep.stale : entry[m].st # "active"
      /\ \A m \in sweep.stale \ hurt : rec[m].st = "none"
  BY DEF Drops, Collected, ListedInv, SweepInv, PurgedInv
<1>1. \A m \in Notebooks \ sweep.stale : Untouched(m)
  BY <1>0 DEF Untouched
<1>2. ASSUME NEW m \in Notebooks, m \in sweep.stale
      PROVE  EntryInv(m)' /\ DeleteInv(m)' /\ ((m \in Counted)' <=> m \in Counted)
  <2>1. DeleteInv(m) /\ entry'[m].st = "none"
    BY <1>0, <1>2 DEF NotebooksInv
  <2>2. \A d \in Clients : (Deletes(d, m)' <=> Deletes(d, m)) /\ ~Publishes(d)'
    BY <1>0 DEF Deletes, Publishes
  <2>3. EntryInv(m)'
    BY <1>0, <1>2 DEF EntryInv
  <2>4. DeleteInv(m)'
    BY <1>0, <2>1, <2>2 DEF DeleteInv
  <2>5. (m \in Counted)' <=> m \in Counted
    BY <1>0, <1>2, <2>1, <2>2 DEF Counted
  <2>6. QED
    BY <2>3, <2>4, <2>5
<1>3. \A m \in Notebooks : EntryInv(m)' /\ DeleteInv(m)' /\ ((m \in Counted)' <=> m \in Counted)
  BY <1>1, <1>2, Apart DEF NotebooksInv
<1>4. QED
  BY <1>0, <1>3, CountKept DEF NotebooksInv

-----------------------------------------------------------------------------
LEMMA BlankStep == Shape /\ ListedInv /\ BlankInv /\ [Next]_vars => BlankInv'
<1> SUFFICES ASSUME Shape, ListedInv, BlankInv, Effect PROVE BlankInv'
  BY StepEffect DEF ListedInv
<1> USE ConstantFields DEF BlankInv, Publishes
<1>1. CASE Nothing \/ Lists \/ \E n \in sweep.stale : Purges(n)
  BY <1>1 DEF Nothing, Lists, Purges
<1>2. CASE Collects
  BY <1>2 DEF Collects, Collected
<1>3. ASSUME NEW c \in Clients, Others(c), UNCHANGED <<entry, fresh>>, req'[c].pc # "commit"
      PROVE  BlankInv'
  BY <1>3 DEF Others
<1>4. ASSUME NEW c \in Clients, NEW e, NEW n \in Notebooks, Others(c), CommitEntry(n, e),
             e.st = "none" => ~e.pending
      PROVE  BlankInv'
  BY <1>4 DEF Others, CommitEntry, Shape, TypeOK
<1>5. ASSUME NEW c \in Clients, EntryAppended(c) PROVE BlankInv'
  <2>1. req[c].n \in Notebooks /\ Others(c) /\ req'[c].pc # "commit"
    BY <1>5 DEF EntryAppended, At, Reaches, Shape, WellFormed
  <2>2. CASE Appended(req[c].n)
    BY <2>1, <2>2, <1>4 DEF Appended
  <2>3. CASE UNCHANGED <<entry, fresh>>
    BY <2>1, <2>3, <1>3
  <2>4. QED
    BY <1>5, <2>2, <2>3 DEF EntryAppended
<1>6. ASSUME NEW c \in Clients, Parks(c) PROVE BlankInv'
  <2>1. req[c].n \in Notebooks /\ Others(c) /\ CommitEntry(req[c].n, Parked(req[c].n))
    BY <1>6 DEF Parks, At, Shape, WellFormed
  <2>2. Parked(req[c].n).st = "none" => ~Parked(req[c].n).pending
    BY <2>1 DEF Parked, Shape, TypeOK, Entries
  <2>3. QED
    BY <2>1, <2>2, <1>4
<1>7. ASSUME NEW c \in Clients, PatchCommitted(c) PROVE BlankInv'
  <2>1. req[c].n \in Notebooks /\ Others(c) /\ CommitEntry(req[c].n, req[c].patch)
    BY <1>7 DEF PatchCommitted, At, Shape, WellFormed
  <2>2. req[c].patch.st = "none" => ~req[c].patch.pending
    BY <1>7 DEF PatchCommitted, At
  <2>3. QED
    BY <2>1, <2>2, <1>4
<1>8. ASSUME NEW c \in Clients, PatchRead(c) PROVE BlankInv'
  <2>1. Patch(c).st = "none" => ~Patch(c).pending
    <3>1. At(c, "read") /\ (req[c].op = "delete" => req[c].known.st = "deleted")
      BY <1>8 DEF PatchRead, At, ListedInv, PatchInv
    <3>2. \A r, e, b : Projected(r, e, b).st = r.st
      BY DEF Projected
    <3>3. Patch(c).st = "none" => Patch(c) = entry[req[c].n] /\ req[c].n \in Notebooks
      BY <3>1, <3>2, PatchCases DEF Projected
    <3>4. QED
      BY <3>3
  <2>2. QED
    BY <1>8, <2>1 DEF PatchRead, Others
<1>9. ASSUME NEW c \in Clients,
             \/ Finishes(c) \/ Starts(c) \/ TakesId(c) \/ FilesWritten(c) \/ MetaWritten(c) \/ Undone(c)
             \/ RecordEdited(c) \/ Rereads(c)
      PROVE  BlankInv'
  <2>1. Others(c) /\ UNCHANGED <<entry, fresh>> /\ req'[c].pc # "commit"
    BY <1>9 DEF Finishes, Starts, TakesId, FilesWritten, MetaWritten, Undone, RecordEdited, Rereads, Ends, Reaches
  <2>2. QED
    BY <2>1, <1>3
<1>10. QED
  BY <1>1, <1>2, <1>5, <1>6, <1>7, <1>8, <1>9 DEF Effect

LEMMA UndoStep ==
    ASSUME UndoInv, Settles
    PROVE  UndoInv'
<1>1. CASE Idles \/ Drops \/ \E n \in Notebooks : Wipe(n)
  BY <1>1 DEF Idles, Drops, Wipe, UndoInv
<1>2. ASSUME NEW c \in Clients, Others(c), hurt \subseteq hurt', req'[c].pc = "undo" => req'[c].n \in hurt'
      PROVE  UndoInv'
  BY <1>2 DEF Others, UndoInv
<1>3. ASSUME NEW c \in Clients,
             \/ Aside(c) \/ Faulty(c) \/ MetaOk(c) \/ AppendOk(c) \/ ParkOk(c) \/ EditOk(c)
             \/ RereadOk(c) \/ ReadOk(c) \/ CommitOk(c)
      PROVE  Others(c) /\ hurt \subseteq hurt' /\ (req'[c].pc = "undo" => req'[c].n \in hurt')
  BY <1>3, ConstantFields DEF Aside, Aloof, Faulty, MetaOk, AppendOk, ParkOk, EditOk, RereadOk, ReadOk, CommitOk,
     Ends, Reaches
<1>4. QED
  BY <1>1, <1>2, <1>3 DEF Settles

LEMMA PurgedStep ==
    ASSUME Shape, SweepInv, PurgedInv, Settles
    PROVE  PurgedInv'
<1> USE ConstantFields
<1>0. sweep.stale \subseteq Notebooks
  BY DEF Shape, TypeOK, Sweeps
<1>1. CASE Idles
  BY <1>1 DEF Idles, PurgedInv
<1>2. CASE Drops
  BY <1>2 DEF Drops, PurgedInv
<1>3. ASSUME NEW n \in Notebooks, Wipe(n) PROVE PurgedInv'
  <2>1. \A m \in Notebooks : rec'[m] = IF m = n THEN NoRecord ELSE rec[m]
    BY <1>3 DEF Wipe, PutRecord, Shape, TypeOK
  <2>2. QED
    BY <1>0, <1>3, <2>1 DEF Wipe, PurgedInv
<1>4. ASSUME UNCHANGED sweep, hurt \subseteq hurt',
             \A m \in sweep.stale \ hurt' : rec[m].st = "none" => rec'[m].st = "none"
      PROVE  PurgedInv'
  BY <1>4 DEF PurgedInv
<1>5. ASSUME NEW c \in Clients, Aside(c) \/ AppendOk(c) \/ ParkOk(c) \/ RereadOk(c) \/ ReadOk(c) \/ CommitOk(c)
      PROVE  PurgedInv'
  BY <1>4, <1>5 DEF Aside, AppendOk, ParkOk, RereadOk, ReadOk, CommitOk
<1>6. ASSUME NEW c \in Clients, Faulty(c) PROVE PurgedInv'
  BY <1>0, <1>4, <1>6 DEF Faulty
<1>7. ASSUME NEW c \in Clients, MetaOk(c) PROVE PurgedInv'
  <2>1. \A m \in sweep.stale : m # req[c].n
    BY <1>7 DEF MetaOk, At, SweepInv, Creating
  <2>2. \A m \in sweep.stale : rec'[m] = rec[m]
    BY <1>0, <1>7, <2>1 DEF MetaOk, PutRecord, Shape, TypeOK
  <2>3. QED
    BY <1>4, <1>7, <2>2 DEF MetaOk
<1>8. ASSUME NEW c \in Clients, EditOk(c) PROVE PurgedInv'
  <2>1. \A m \in sweep.stale : rec[m].st = "none" => rec'[m] = rec[m]
    BY <1>0, <1>8 DEF EditOk, PutRecord, Shape, TypeOK
  <2>2. QED
    BY <1>4, <1>8, <2>1 DEF EditOk
<1>9. QED
  BY <1>1, <1>2, <1>3, <1>5, <1>6, <1>7, <1>8 DEF Settles

LEMMA SettleStep == Shape /\ ListedInv /\ SettleInv /\ [Next]_vars => SettleInv'
<1> SUFFICES ASSUME Shape, ListedInv, SettleInv, [Next]_vars PROVE SettleInv'
  OBVIOUS
<1>1. UndoInv /\ BlankInv /\ PurgedInv /\ NotebooksInv
  BY DEF SettleInv, NotebooksInv
<1>2. Settles
  BY <1>1, StepSettles DEF ListedInv
<1>3. UndoInv' /\ BlankInv' /\ PurgedInv'
  BY <1>1, <1>2, BlankStep, UndoStep, PurgedStep DEF ListedInv
<1>4. NotebooksInv'
  BY <1>1, <1>2, IdleSettles, DropsSettles, WipeSettles, AsideSettles, FaultySettles, MetaSettles, AppendSettles,
     ParkSettles, EditSettles, RereadSettles, ReadSettles, CommitSettles DEF Settles
<1>5. QED
  BY <1>3, <1>4 DEF SettleInv, NotebooksInv

LEMMA SettleInit == Init => SettleInv
<1> SUFFICES ASSUME Init PROVE SettleInv
  OBVIOUS
<1> USE ConstantFields
<1>1. /\ \A n \in Notebooks : rec[n] = NoRecord /\ entry[n] = NoEntry
      /\ \A c \in Clients : req[c] = NoRequest
      /\ sweep = NoSweep /\ fresh = {} /\ hurt = {} /\ count = 0
  BY DEF Init
<1>2. \A c \in Clients, n \in Notebooks : ~Deletes(c, n) /\ ~Publishes(c)
  BY <1>1 DEF Deletes, Publishes
<1>3. UndoInv /\ BlankInv /\ PurgedInv
  BY <1>1 DEF UndoInv, BlankInv, PurgedInv, Publishes, NoSweep
<1>4. \A n \in Notebooks : EntryInv(n) /\ DeleteInv(n)
  BY <1>1, <1>2 DEF EntryInv, DeleteInv
<1>5. Counted = {}
  BY <1>1, <1>2 DEF Counted
<1>6. CountInv
  BY <1>1, <1>5, FS_EmptySet DEF CountInv
<1>7. QED
  BY <1>3, <1>4, <1>6 DEF SettleInv

\* Once the requests about a notebook are over, none of which failed, its entry in the catalog
\* says what its record says, and once they are over for all, the project counts its active
\* notebooks (RecordsSettle): of several writers of a record each projects it after it wrote,
\* from a read that its commit checks, so the last commit is of a record that nobody changed
\* since, and the one request that deletes a notebook lowers the count.  Label changes may
\* overlap.
THEOREM RecordsSettleHolds == Spec => []RecordsSettle
<1>1. Init => Shape /\ ListedInv /\ SettleInv
  BY ListedInit, SettleInit
<1>2. ASSUME Shape, SettleInv PROVE RecordsSettle
  <2> USE ConstantFields
  <2>1. ASSUME NEW n \in Notebooks, ~Busy(n), NEW c \in Clients
        PROVE  ~Owes(c, n) /\ ~Deletes(c, n)
    BY <2>1 DEF Busy, At, Owes, Deletes
  <2>2. ASSUME NEW n \in Notebooks \ hurt, ~Busy(n), rec[n].st # "none"
        PROVE  entry[n] = Projected(rec[n], NoEntry, TRUE)
    BY <1>2, <2>1, <2>2 DEF SettleInv, EntryInv, Synced
  <2>3. ASSUME hurt = {}, \A n \in Notebooks : ~Busy(n)
        PROVE  count = Cardinality({n \in Notebooks : entry[n].st = "active"})
    <3>1. Counted = {n \in Notebooks : entry[n].st = "active"}
      BY <2>1, <2>3 DEF Counted
    <3>2. QED
      BY <1>2, <2>3, <3>1 DEF SettleInv, CountInv
  <2>4. QED
    BY <2>2, <2>3 DEF RecordsSettle
<1>3. QED
  BY <1>1, <1>2, ShapeStep, ListedStep, SettleStep, PTL DEF Spec

=============================================================================
