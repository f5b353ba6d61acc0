--------------------------- MODULE NotebookContent ---------------------------
(***************************************************************************)
(* The records of the notebooks of a project and their entries in the      *)
(* catalog.  A notebook's own record (meta.json) is authoritative; the     *)
(* catalog holds a projection of it, which every writer brings up to date  *)
(* after it has written the record: creation (NotebookService.ts, saga.ts, *)
(* with the idempotency keys of the API), updates, changes of the security *)
(* labels, deletion, and the sweep that purges what was deleted.           *)
(*                                                                         *)
(* A change of the catalog is one step that happens or not (this is what   *)
(* Catalog shows), except where its callback reads the record: then the    *)
(* two reads are one step and the commit another, which is refused if the  *)
(* catalog has changed between them, and repeated from the reads.          *)
(***************************************************************************)
EXTENDS Naturals, FiniteSets

CONSTANTS
    Clients,        \* requests that may run at the same time
    Keys,           \* idempotency keys
    Titles,         \* what an update changes: title, description, tags, profiles
    Labels,         \* security labels
    MaxNotebooks,   \* bound on notebook ids
    MaxEvents       \* bound on requests and faults together

ASSUME ContentAssumption ==
    /\ {MaxNotebooks, MaxEvents} \subseteq Nat
    /\ {"unset", "unknown"} \intersect Labels = {}
    /\ "initial" \notin Titles

VARIABLES
    rec,        \* rec[n]: meta.json
    files,      \* notebooks whose other objects exist
    entry,      \* entry[n]: the catalog entry
    count,      \* notebook_count of the project
    fresh,      \* clients whose read of the catalog is current
    idem,       \* idem[k]: the notebook recorded for key k, or 0
    next,       \* the next notebook id
    req,        \* req[c]: the request of client c
    sweep,      \* sweepDeletedNotebooks
    aged,       \* notebooks whose retention after deletion is over
    events,     \* requests and faults so far
    \* History.
    hurt,       \* notebooks about which a request failed
    unsure,     \* notebooks whose creation failed although its entry was appended
    told,       \* told[k]: the notebooks that requests with key k were answered
    overlaps    \* notebooks of which two label changes ran at the same time

store == <<rec, files, entry, count, fresh, idem, next, aged>>
history == <<hurt, unsure, told, overlaps>>
vars == <<store, req, sweep, events, history>>

Notebooks == 1..MaxNotebooks

\* NotebookMetaSchema, and the tri-state projection of it in the catalog: the labels of
\* an entry are known, known to be unset, or unknown (absent).
Statuses == {"none", "active", "deleted"}
Records == [st : Statuses, title : Titles \union {"initial"}, lab : Labels \union {"unset"}]
Entries == [st : Statuses, title : Titles \union {"initial"},
            lab : Labels \union {"unset", "unknown"}, pending : BOOLEAN]
NoRecord == [st |-> "none", title |-> "initial", lab |-> "unset"]
NoEntry == [st |-> "none", title |-> "initial", lab |-> "unset", pending |-> FALSE]

NewRecord == [NoRecord EXCEPT !.st = "active"]

Operations == {"create", "update", "label", "delete"}
\* The request of a client: its next step, notebook, new value, key, what the key's
\* requests had been answered when it began, the record it knows (as it was when the request
\* began, then as it wrote it: a version is its contents), and the patch it read.
Steps == {"idle", "lookup", "files", "meta", "append", "undo", "record",
          "park", "write", "read", "commit"}
Requests == [pc : Steps, op : Operations, n : 0..MaxNotebooks,
             to : Titles \union Labels \union {"initial", "unset"}, key : Keys \union {0},
             prior : SUBSET Notebooks, known : Records, patch : Entries]
NoRequest == [pc |-> "idle", op |-> "create", n |-> 0, to |-> "initial", key |-> 0,
              prior |-> {}, known |-> NoRecord, patch |-> NoEntry]
Sweeps == [pc : {"idle", "purge", "gc"}, stale : SUBSET Notebooks, todo : SUBSET Notebooks]
NoSweep == [pc |-> "idle", stale |-> {}, todo |-> {}]

\* Every variable has its type.
TypeOK ==
    /\ rec \in [Notebooks -> Records]
    /\ entry \in [Notebooks -> Entries]
    /\ files \subseteq Notebooks /\ aged \subseteq Notebooks
    /\ count \in Nat
    /\ fresh \subseteq Clients
    /\ idem \in [Keys -> 0..MaxNotebooks]
    /\ next \in 1..(MaxNotebooks + 1)
    /\ req \in [Clients -> Requests]
    /\ sweep \in Sweeps
    /\ events \in 0..MaxEvents
    /\ hurt \subseteq Notebooks /\ unsure \subseteq Notebooks /\ overlaps \subseteq Notebooks
    /\ told \in [Keys -> SUBSET Notebooks]

Init ==
    /\ rec = [n \in Notebooks |-> NoRecord]
    /\ entry = [n \in Notebooks |-> NoEntry]
    /\ files = {} /\ aged = {} /\ count = 0
    /\ fresh = {}
    /\ idem = [k \in Keys |-> 0]
    /\ next = 1
    /\ req = [c \in Clients |-> NoRequest]
    /\ sweep = NoSweep
    /\ events = 0
    /\ hurt = {} /\ unsure = {} /\ overlaps = {}
    /\ told = [k \in Keys |-> {}]

Event == events < MaxEvents /\ events' = events + 1

-----------------------------------------------------------------------------
(* Requests. *)

At(c, step) == req[c].pc = step
Goto(c, step) == req' = [req EXCEPT ![c] = IF step = "idle" THEN NoRequest ELSE [@ EXCEPT !.pc = step]]

Labelling(n) == {c \in Clients : req[c].op = "label" /\ req[c].n = n}

Begin(c, r) ==
    /\ At(c, "idle") /\ Event
    /\ req' = [req EXCEPT ![c] = r]
    /\ overlaps' = IF r.op = "label" /\ Labelling(r.n) # {} THEN overlaps \union {r.n} ELSE overlaps
    /\ UNCHANGED <<store, sweep, hurt, unsure, told>>

Create(c, k) == Begin(c, [NoRequest EXCEPT !.pc = "lookup", !.key = k, !.prior = told[k]])

\* The others are about a notebook that the catalog lists.
Ask(c, op, n, v, step) ==
    /\ entry[n].st = "active"
    /\ Begin(c, [NoRequest EXCEPT !.pc = step, !.op = op, !.n = n, !.to = v,
                                 !.known = rec[n]])
Update(c, n, t) == Ask(c, "update", n, t, "write")
Delete(c, n) == Ask(c, "delete", n, "initial", "write")
\* No lease keeps label changes apart, and a client need not name the version it knows.
SetLabels(c, n, l) == Ask(c, "label", n, l, "park")

PutRecord(n, r) == rec' = [rec EXCEPT ![n] = r]
\* A commit of the catalog: what others read of it is stale.
CommitEntry(n, e) == entry' = [entry EXCEPT ![n] = e] /\ fresh' = {}

-----------------------------------------------------------------------------
(* createNotebook, inside idempotentOperation. *)

\* A key that has a record replays its answer.
Lookup(c) ==
    LET k == req[c].key IN
    /\ At(c, "lookup")
    /\ IF idem[k] # 0
         THEN Goto(c, "idle") /\ told' = [told EXCEPT ![k] = @ \union {idem[k]}] /\ UNCHANGED next
         ELSE /\ next <= MaxNotebooks /\ next' = next + 1
              /\ req' = [req EXCEPT ![c].pc = "files", ![c].n = next]
              /\ UNCHANGED told
    /\ UNCHANGED <<rec, files, entry, count, fresh, idem, aged, sweep, events, hurt, unsure, overlaps>>

\* Mutant: the catalog entry before the record it is about.
AfterSwapped(step) == [files |-> "append", append |-> "meta", meta |-> "record"][step]
\* The steps of the saga.
After(step) == [files |-> "meta", meta |-> "append", append |-> "record"][step]

WriteFiles(c) ==
    /\ At(c, "files")
    /\ files' = files \union {req[c].n}
    /\ Goto(c, After("files"))
    /\ UNCHANGED <<rec, entry, count, fresh, idem, next, aged, sweep, events, history>>

WriteMeta(c) ==
    /\ At(c, "meta")
    /\ PutRecord(req[c].n, NewRecord)
    /\ Goto(c, After("meta"))
    /\ UNCHANGED <<files, entry, count, fresh, idem, next, aged, sweep, events, history>>

\* appendNotebookEntry with buildNotebookEntry.
Appended(n) ==
    /\ CommitEntry(n, [st |-> "active", title |-> "initial", lab |-> "unset", pending |-> FALSE])
    /\ count' = count + 1
Append(c) ==
    /\ At(c, "append")
    /\ Appended(req[c].n)
    /\ Goto(c, After("append"))
    /\ UNCHANGED <<rec, files, idem, next, aged, sweep, events, history>>

\* The compensation deletes every object of the notebook, meta.json included.
Undo(c) ==
    /\ At(c, "undo")
    /\ PutRecord(req[c].n, NoRecord)
    /\ files' = files \ {req[c].n}
    /\ Goto(c, "idle")
    /\ UNCHANGED <<entry, count, fresh, idem, next, aged, sweep, events, history>>

\* record: the first answer stored for the key stays; each request returns its own.
RecordAnswer(c) ==
    LET k == req[c].key IN
    /\ At(c, "record")
    /\ idem' = [idem EXCEPT ![k] = IF @ = 0 THEN req[c].n ELSE @]
    /\ told' = [told EXCEPT ![k] = @ \union {req[c].n}]
    /\ Goto(c, "idle")
    /\ UNCHANGED <<rec, files, entry, count, fresh, next, aged, sweep, events, hurt, unsure, overlaps>>

\* Mutant: prune does not wait until the day is over.
PruneKeyEarly(k) ==
    /\ idem[k] # 0
    /\ idem' = [idem EXCEPT ![k] = 0]
    /\ UNCHANGED <<rec, files, entry, count, fresh, next, aged, req, sweep, events, history>>
\* prune, a day later: no request of the key is running.
PruneKey(k) ==
    /\ idem[k] # 0 /\ \A c \in Clients : At(c, "idle") \/ req[c].key # k
    /\ idem' = [idem EXCEPT ![k] = 0]
    /\ told' = [told EXCEPT ![k] = {}]
    /\ UNCHANGED <<rec, files, entry, count, fresh, next, aged, req, sweep, events, hurt, unsure, overlaps>>

-----------------------------------------------------------------------------
(* Updates, changes of the labels and deletion. *)

Parked(n) == IF entry[n].st = "none" THEN entry[n]
             ELSE [entry[n] EXCEPT !.lab = "unknown", !.pending = TRUE]

\* setSecurityLabels parks the projection before it touches the record.
Park(c) ==
    /\ At(c, "park")
    /\ CommitEntry(req[c].n, Parked(req[c].n))
    /\ Goto(c, "write")
    /\ UNCHANGED <<rec, files, count, idem, next, aged, sweep, events, history>>

Edited(c) ==
    LET r == rec[req[c].n] IN
    CASE req[c].op = "update" -> [r EXCEPT !.title = req[c].to]
      [] req[c].op = "label" -> [r EXCEPT !.lab = req[c].to]
      [] req[c].op = "delete" -> [r EXCEPT !.st = "deleted"]

\* mutateObject on the record.
WriteRecord(c) ==
    /\ At(c, "write") /\ rec[req[c].n].st = "active"
    /\ PutRecord(req[c].n, Edited(c))
    /\ req' = [req EXCEPT ![c].pc = "read", ![c].known = Edited(c)]
    /\ UNCHANGED <<files, entry, count, fresh, idem, next, aged, sweep, events, history>>

\* Mutant: a repeated delete updates the catalog again.
RejectAgain(c) ==
    /\ At(c, "write")
    /\ rec[req[c].n].st # "active" \/ rec[req[c].n] # req[c].known
    /\ Goto(c, IF req[c].op = "update" THEN "idle" ELSE "read")
    /\ UNCHANGED <<store, sweep, events, history>>
\* The notebook is deleted or gone, or it is not the version the client named.  A label
\* change restores the projection it parked (unparkSecurityLabels); a repeated delete
\* writes nothing, and nothing to the catalog either.
Reject(c) ==
    /\ At(c, "write")
    /\ rec[req[c].n].st # "active" \/ rec[req[c].n] # req[c].known
    /\ Goto(c, IF req[c].op = "label" THEN "read" ELSE "idle")
    /\ UNCHANGED <<store, sweep, events, history>>

\* Mutant: a routine projection does not look at the marker.
ProjectedBlind(r, e, final) ==
    [st |-> r.st, title |-> r.title, lab |-> r.lab, pending |-> e.pending /\ ~final]
\* notebookCatalogPatch: only the end of a label change clears the marker.
Projected(r, e, final) ==
    [st |-> r.st, title |-> r.title,
     lab |-> IF e.pending /\ ~final THEN "unknown" ELSE r.lab,
     pending |-> e.pending /\ ~final]

\* updateNotebookEntry with loadNotebookCatalogPatch: the catalog, then the record, in
\* every attempt.  A delete whose record is gone already projects what it wrote.
Patch(c) ==
    LET n == req[c].n
        e == entry[n]
    IN CASE e.st = "none" -> e
         [] e.st # "none" /\ rec[n].st # "none" -> Projected(rec[n], e, req[c].op = "label")
         [] e.st # "none" /\ rec[n].st = "none" ->
              IF req[c].op = "delete" THEN Projected(req[c].known, e, FALSE) ELSE e
ReadEntry(c) ==
    /\ At(c, "read")
    /\ fresh' = fresh \union {c}
    /\ req' = [req EXCEPT ![c].pc = "commit", ![c].patch = Patch(c)]
    /\ UNCHANGED <<rec, files, entry, count, idem, next, aged, sweep, events, history>>

\* The delete lowers notebook_count in the commit of its tombstone.
Committed(c) ==
    /\ CommitEntry(req[c].n, req[c].patch)
    /\ count' = IF req[c].op = "delete" /\ count > 0 THEN count - 1 ELSE count

CommitPatch(c) ==
    /\ At(c, "commit")
    /\ IF c \in fresh THEN Committed(c) /\ Goto(c, "idle")
                      ELSE Goto(c, "read") /\ UNCHANGED <<entry, count, fresh>>
    /\ UNCHANGED <<rec, files, idem, next, aged, sweep, events, history>>

-----------------------------------------------------------------------------
(* Faults. *)

\* A request to the store fails, with or without effect, or is the last that is tried.
Fail(c) ==
    LET n == req[c].n IN
    /\ Event /\ hurt' = hurt \union {n}
    /\ \/ /\ At(c, "files")      \* compensableWrite cleans up itself
          /\ files' \in {files, files \union {n}}
          /\ Goto(c, "idle")
          /\ UNCHANGED <<rec, entry, count, fresh, idem, unsure>>
       \/ /\ At(c, "meta")
          /\ PutRecord(n, NewRecord) \/ UNCHANGED rec
          /\ Goto(c, "undo")
          /\ UNCHANGED <<files, entry, count, fresh, idem, unsure>>
       \/ /\ At(c, "append")
          /\ \/ Appended(n) /\ unsure' = unsure \union {n}
             \/ UNCHANGED <<entry, count, fresh, unsure>>
          /\ Goto(c, "undo")
          /\ UNCHANGED <<rec, files, idem>>
       \/ /\ At(c, "record")
          /\ idem' \in {idem, [idem EXCEPT ![req[c].key] = IF @ = 0 THEN n ELSE @]}
          /\ Goto(c, "idle")
          /\ UNCHANGED <<rec, files, entry, count, fresh, unsure>>
       \/ /\ At(c, "park")
          /\ CommitEntry(n, Parked(n)) \/ UNCHANGED <<entry, fresh>>
          /\ Goto(c, "idle")
          /\ UNCHANGED <<rec, files, count, idem, unsure>>
       \/ /\ At(c, "write") /\ rec[n].st = "active"
          /\ PutRecord(n, Edited(c)) \/ UNCHANGED rec
          /\ Goto(c, "idle")
          /\ UNCHANGED <<files, entry, count, fresh, idem, unsure>>
       \/ /\ req[c].pc \in {"undo", "commit"}
          /\ (At(c, "commit") /\ c \in fresh /\ Committed(c)) \/ UNCHANGED <<entry, count, fresh>>
          /\ Goto(c, "idle")
          /\ UNCHANGED <<rec, files, idem, unsure>>
    /\ UNCHANGED <<next, aged, sweep, told, overlaps>>

Crash(c) ==
    /\ ~At(c, "idle") /\ Event
    /\ hurt' = hurt \union ({req[c].n} \ {0})
    /\ Goto(c, "idle")
    /\ UNCHANGED <<store, sweep, unsure, told, overlaps>>

-----------------------------------------------------------------------------
(* sweepDeletedNotebooks. *)

\* 30 days pass after the deletion.
Age(n) ==
    /\ entry[n].st = "deleted" /\ n \notin aged
    /\ aged' = aged \union {n}
    /\ UNCHANGED <<rec, files, entry, count, fresh, idem, next, req, sweep, events, history>>

SweepList ==
    LET stale == {n \in aged : entry[n].st = "deleted"} IN
    /\ sweep.pc = "idle" /\ stale # {}
    /\ sweep' = [pc |-> "purge", stale |-> stale, todo |-> stale]
    /\ UNCHANGED <<store, req, events, history>>

\* Mutant: hardDeleteNotebook also refuses one whose record is gone already.
PurgeRecorded(n) ==
    /\ sweep.pc = "purge" /\ n \in sweep.todo
    /\ IF rec[n].st # "deleted"
         THEN sweep' = NoSweep /\ UNCHANGED <<rec, files>>
         ELSE /\ PutRecord(n, NoRecord)
              /\ files' = files \ {n}
              /\ sweep' = [sweep EXCEPT !.todo = @ \ {n},
                                        !.pc = IF sweep.todo = {n} THEN "gc" ELSE @]
    /\ UNCHANGED <<entry, count, fresh, idem, next, aged, req, events, history>>
\* hardDeleteNotebook refuses a notebook that is live, and the sweep ends.
Purge(n) ==
    /\ sweep.pc = "purge" /\ n \in sweep.todo
    /\ IF rec[n].st = "active"
         THEN sweep' = NoSweep /\ UNCHANGED <<rec, files>>
         ELSE /\ PutRecord(n, NoRecord)
              /\ files' = files \ {n}
              /\ sweep' = [sweep EXCEPT !.todo = @ \ {n},
                                        !.pc = IF sweep.todo = {n} THEN "gc" ELSE @]
    /\ UNCHANGED <<entry, count, fresh, idem, next, aged, req, events, history>>

\* The entries go last, in one commit.
Collected ==
    /\ entry' = [n \in Notebooks |-> IF n \in sweep.stale THEN NoEntry ELSE entry[n]]
    /\ fresh' = {}
SweepGc ==
    /\ sweep.pc = "gc"
    /\ Collected
    /\ sweep' = NoSweep
    /\ UNCHANGED <<rec, files, count, idem, next, aged, req, events, history>>

SweepFails ==
    /\ Event
    /\ \/ /\ sweep.pc = "purge"
          /\ \E n \in sweep.todo :
               /\ rec[n].st # "active"
               /\ PutRecord(n, NoRecord) \/ UNCHANGED rec
               /\ files' \in {files, files \ {n}}
          /\ UNCHANGED <<entry, fresh>>
       \/ /\ sweep.pc = "gc"
          /\ Collected \/ UNCHANGED <<entry, fresh>>
          /\ UNCHANGED <<rec, files>>
    /\ sweep' = NoSweep
    /\ UNCHANGED <<count, idem, next, aged, req, history>>

-----------------------------------------------------------------------------
ClientStep(c) ==
    \/ Lookup(c) \/ WriteFiles(c) \/ WriteMeta(c) \/ Append(c) \/ Undo(c) \/ RecordAnswer(c)
    \/ Park(c) \/ WriteRecord(c) \/ Reject(c) \/ ReadEntry(c) \/ CommitPatch(c)
SweepStep == SweepList \/ SweepGc \/ \E n \in Notebooks : Purge(n)

Next ==
    \/ \E c \in Clients :
         \/ \E k \in Keys : Create(c, k)
         \/ \E n \in Notebooks :
              \/ Delete(c, n)
              \/ \E t \in Titles : Update(c, n, t)
              \/ \E l \in Labels \union {"unset"} : SetLabels(c, n, l)
         \/ ClientStep(c) \/ Fail(c) \/ Crash(c)
    \/ \E n \in Notebooks : Age(n)
    \/ \E k \in Keys : PruneKey(k)
    \/ SweepStep \/ SweepFails

Spec == Init /\ [][Next]_vars

\* Time passes, and the sweep recurs.
Fairness ==
    /\ \A n \in Notebooks : WF_vars(Age(n))
    /\ WF_vars(SweepStep)

FairSpec == Spec /\ Fairness

-----------------------------------------------------------------------------
(* Properties *)

\* The labels that an entry shows are unknown or those of the record.
Shown(n) == entry[n].st # "none" /\ rec[n].st # "none" /\ entry[n].lab # "unknown"
LabelsRight(n) == Shown(n) => entry[n].lab = rec[n].lab

\* No entry ever shows wrong labels, whatever fails and whoever else updates, deletes or
\* projects the record meanwhile, unless label changes of the same notebook overlapped.
LabelsNeverWrong == \A n \in Notebooks \ overlaps : LabelsRight(n)

\* What setSecurityLabels says of itself: "a crash between writes leaves the projection
\* indeterminate, never wrong".  False in this model: of two label changes that overlap, the
\* end of the first clears the marker of the second, which then writes the record.
NeverWrongAtAll == \A n \in Notebooks : LabelsRight(n)

Busy(n) == \E c \in Clients : ~At(c, "idle") /\ req[c].n = n

\* Once the requests about a notebook are over, none of which failed, its entry says what
\* its record says; and once they are over for all, the project counts its active ones.
\* ("Reading only before the first attempt is unsafe ...": the projection of one writer
\* may be committed after the record of another.)
RecordsSettle ==
    /\ \A n \in Notebooks \ hurt :
         ~Busy(n) /\ rec[n].st # "none" => entry[n] = Projected(rec[n], NoEntry, TRUE)
    /\ hurt = {} /\ (\A n \in Notebooks : ~Busy(n))
       => count = Cardinality({n \in Notebooks : entry[n].st = "active"})

\* What the catalog lists can be opened: its record and files are there.  Excepted are
\* creations whose append took effect though it failed.
ListedExists ==
    \A n \in Notebooks \ unsure :
        entry[n].st = "active" => rec[n].st # "none" /\ n \in files

\* A create that is repeated with its key after an answer, not alongside, creates no
\* second notebook.
RetryCreatesNothing ==
    \A c \in Clients : req[c].op = "create" /\ req[c].prior # {} => req[c].n = 0

\* What the catalog lists as deleted is purged in the end, record, files and entry, though
\* sweeps fail half way.
DeletedPurged ==
    \A n \in Notebooks :
        entry[n].st = "deleted" ~> entry[n].st = "none" /\ rec[n].st = "none" /\ n \notin files

=============================================================================
