---------------------------- MODULE NotebookMove ----------------------------
(***************************************************************************)
(* The move of one notebook from a source to a destination project         *)
(* (NotebookMoveService.ts, moveObjects.ts), with what may write to the    *)
(* notebook meanwhile: a save and a file upload under the workspace lease  *)
(* (NotebookService.ts, NotebookWorkspaceService.ts), an editor session,   *)
(* and a delete.                                                           *)
(*                                                                         *)
(* The move record has a lease that its executor renews.  A retry or a     *)
(* cancel takes the lease of an executor that died or is stuck; the stuck  *)
(* one goes on until it next saves the record.  One action is one request  *)
(* to the store, or a run of reads whose answers the next one relies on.   *)
(***************************************************************************)
EXTENDS Naturals

CONSTANTS
    Movers,     \* clients that post the move, again and again
    Cancellers, \* clients that cancel it
    Writers,    \* the requests and sessions that change the notebook, once each
    Kinds,      \* what a writer may be: "save", "file", "session", "delete"
    MaxMoves,   \* bound on move ids
    MaxFaults,  \* bound on crashes, failed requests, leases lost and stale reads
    StalePosts, \* may a post reach the lease after another one has completed the move?
    None,
    Ghost       \* stands for a process that has died

ASSUME MoveAssumption ==
    /\ Kinds \subseteq {"save", "file", "session", "delete"}
    /\ MaxMoves \in Nat /\ MaxFaults \in Nat /\ StalePosts \in BOOLEAN
    /\ Movers \intersect Cancellers = {}
    /\ {None, Ghost} \intersect (Movers \union Cancellers \union Writers) = {}

VARIABLES
    nb,         \* nb[p]: the notebook's objects in project p
    cat,        \* its catalog entry: the project that lists it, and by which move
    rec,        \* the move record
    lapsed,     \* the lease in the record has expired
    nextId,     \* the next unused move id
    ex,         \* ex[e]: the request of client e
    ws,         \* the holder of the source workspace mutation lease
    wr,         \* wr[w]: the write w
    acked,      \* writes whose caller was told that they succeeded
    lifted,     \* moves that a cancel unfenced although their record was there (history)
    late,       \* moves that an executor fenced after it had lost the lease (history)
    faults      \* faults so far

moveVars == <<cat, rec, lapsed, nextId, ex, lifted, late>>
writeVars == <<ws, wr, acked>>
vars == <<nb, moveVars, writeVars, faults>>

Clients == Movers \union Cancellers
Ids == 1..MaxMoves
Projects == {"src", "dst"}
Phases == {"none", "preparing", "copying", "published", "complete"}

\* meta.json with its fence (move_id), update token and status; the other objects
\* as the set of writes they hold, and the version that source.json names.
Objects == [meta : BOOLEAN, fence : 0..MaxMoves, ver : Nat, del : BOOLEAN,
            files : BOOLEAN, body : SUBSET Writers, code : Writers \union {None}]
NoObjects == [meta |-> FALSE, fence |-> 0, ver |-> 0, del |-> FALSE,
              files |-> FALSE, body |-> {}, code |-> None]
\* The captured meta and source_record; a meta captured with its fence matches nothing.
Captures == [ver : Nat, code : Writers \union {None}, stamped : BOOLEAN]
NoCapture == [ver |-> 0, code |-> None, stamped |-> FALSE]
\* NotebookMoveSchema.
NoMove == [id |-> 0, phase |-> "none", by |-> None, cap |-> NoCapture]

MoveSteps == {"lease", "check", "ready", "fence", "drain", "settle", "abort", "unfence",
              "delete", "copy", "copymeta", "renew", "verify", "publish", "published",
              "open", "keep", "rmmeta", "rmfiles", "finish", "drop"}
CancelSteps == {"read", "look", "wipe", "repair"}
NoRequest == [pc |-> "idle", id |-> 0, cap |-> NoCapture]
WriteSteps == {"idle", "lease", "check", "meta", "put", "free", "admit", "recheck", "commit",
               "save", "bump", "end", "entry", "over"}
NoWrite == [pc |-> "idle", kind |-> "save", at |-> "src", lost |-> FALSE]

TypeOK ==
    /\ nb \in [Projects -> Objects]
    /\ cat \in [at : Projects, by : 0..MaxMoves, del : BOOLEAN]
    /\ rec \in [id : 0..MaxMoves, phase : Phases, by : Clients \union {None, Ghost},
                cap : Captures]
    /\ lapsed \in BOOLEAN
    /\ nextId \in 1..MaxMoves + 1
    /\ ex \in [Clients -> [pc : {"idle"} \union MoveSteps \union CancelSteps, id : 0..MaxMoves,
                           cap : Captures]]
    /\ ws \in Writers \union {None, Ghost}
    /\ wr \in [Writers -> [pc : WriteSteps, kind : Kinds \union {"save"}, at : Projects,
                           lost : BOOLEAN]]
    /\ acked \subseteq Writers
    /\ lifted \subseteq 0..MaxMoves /\ late \subseteq 0..MaxMoves
    /\ faults \in 0..MaxFaults

Init ==
    /\ nb = [p \in Projects |-> IF p = "src" THEN [NoObjects EXCEPT !.meta = TRUE, !.files = TRUE]
                                             ELSE NoObjects]
    /\ cat = [at |-> "src", by |-> 0, del |-> FALSE]
    /\ rec = NoMove /\ lapsed = FALSE /\ nextId = 1
    /\ ex = [e \in Clients |-> NoRequest]
    /\ ws = None
    /\ wr = [w \in Writers |-> NoWrite]
    /\ acked = {}
    /\ lifted = {} /\ late = {}
    /\ faults = 0

Fault == faults < MaxFaults /\ faults' = faults + 1
NoFault == UNCHANGED faults

-----------------------------------------------------------------------------
(* The move record and its lease. *)

Pending == rec.phase \in {"preparing", "copying", "published"}
\* Mutant: an expired lease is not taken over.
LeaseReleased == rec.by = None
LeaseFree == rec.by = None \/ lapsed

At(e, step) == ex[e].pc = step
Goto(e, step) == ex' = [ex EXCEPT ![e] = IF step = "idle" THEN NoRequest
                                         ELSE [@ EXCEPT !.pc = step]]

\* save (runLeased): the record must still name this executor.  Its lease may have
\* run out unnoticed; a renewal that failed makes this and every later save fail.
Save(e, patch, yes, no) ==
    \/ /\ rec.by = e
       /\ rec' = patch /\ lapsed' = FALSE
       /\ Goto(e, yes)
    \/ /\ rec.by # e \/ lapsed
       /\ rec' = IF rec.by = e THEN [rec EXCEPT !.by = Ghost] ELSE rec
       /\ Goto(e, no) /\ UNCHANGED lapsed

\* unfence: only the stamp of this move.
Unfenced(p, id) == IF nb[p].fence = id THEN [nb EXCEPT ![p].fence = 0] ELSE nb

\* NOTEBOOK_MOVE_LEASE_MS after the last renewal: the executor died, or it is in a
\* long step and its renewals fail.
LongSteps == {"check", "ready", "fence", "drain", "settle", "copy", "copymeta", "renew",
              "published", "open", "keep", "rmfiles", "finish"}
LeaseLapses ==
    /\ ~lapsed
    /\ \/ rec.by = Ghost /\ NoFault
       \/ rec.by \in Movers /\ ex[rec.by].pc \in LongSteps /\ Fault
    /\ lapsed' = TRUE
    /\ UNCHANGED <<nb, cat, rec, nextId, ex, lifted, late, writeVars>>

\* move up to the lease: the context that the caller is authorized against, with what
\* a new record would capture.
Post(m) ==
    /\ At(m, "idle")
    /\ \/ rec.phase \in {"copying", "published"}
       \/ /\ rec.phase \in {"none", "preparing"}
          /\ nb["src"].meta /\ ~nb["src"].del
          /\ nb["src"].fence \in {0, rec.id}
    /\ ex' = [ex EXCEPT ![m] =
                 [pc |-> "lease", id |-> 0,
                  cap |-> IF rec.phase \in {"copying", "published"} THEN rec.cap
                          ELSE [ver |-> nb["src"].ver, code |-> nb["src"].code,
                                stamped |-> nb["src"].fence # 0]]]
    /\ UNCHANGED <<nb, cat, rec, lapsed, nextId, lifted, late, writeVars, faults>>

\* Mutant: a published move is resumed at the clean-up.
ResumeAtCleanUp == [preparing |-> "check", copying |-> "copy", published |-> "keep"]
Resume == [preparing |-> "check", copying |-> "copy", published |-> "open"]

\* lease: create the record, also over that of a completed move, or take over a
\* pending one that nobody holds.
TakeLease(m) ==
    /\ At(m, "lease")
    /\ \/ /\ ~Pending
          /\ rec.phase = "complete" => StalePosts
          /\ nextId \in Ids
          /\ rec' = [id |-> nextId, phase |-> "preparing", by |-> m, cap |-> ex[m].cap]
          /\ ex' = [ex EXCEPT ![m].pc = "check", ![m].id = nextId]
          /\ nextId' = nextId + 1 /\ lapsed' = FALSE
       \/ /\ Pending /\ LeaseFree
          /\ rec' = [rec EXCEPT !.by = m]
          /\ ex' = [ex EXCEPT ![m] = [pc |-> Resume[rec.phase], id |-> rec.id, cap |-> rec.cap]]
          /\ lapsed' = FALSE /\ UNCHANGED nextId
       \/ /\ IF Pending THEN ~LeaseFree ELSE rec.phase = "complete" /\ ~StalePosts
          /\ Goto(m, "idle") /\ UNCHANGED <<rec, lapsed, nextId>>
    /\ UNCHANGED <<nb, cat, lifted, late, writeVars, faults>>

-----------------------------------------------------------------------------
(* Preparing: check, fence, drain. *)

Sessions(p) == {w \in Writers : wr[w].at = p /\ wr[w].pc \in {"recheck", "commit", "save",
                                                              "bump", "end"}}
preparing == <<cat, nextId, lifted, late, writeVars, faults>>

\* The metadata is that of the capture, and no other move has fenced it.
MetaUnchanged(m) ==
    /\ nb["src"].meta /\ nb["src"].fence \in {0, ex[m].id}
    /\ nb["src"].ver = ex[m].cap.ver /\ ~ex[m].cap.stamped

\* The captured metadata is still current, and the destination holds nothing.
Check(m) ==
    /\ At(m, "check")
    /\ IF MetaUnchanged(m) /\ ~nb["dst"].meta /\ ~nb["dst"].files
       THEN Save(m, rec, "ready", "abort")
       ELSE Goto(m, "abort") /\ UNCHANGED <<rec, lapsed>>
    /\ UNCHANGED <<nb, preparing>>

\* assertReadyForMove, and source.json is as captured.
Ready(m) ==
    /\ At(m, "ready")
    /\ Goto(m, IF Sessions("src") = {} /\ nb["src"].code = ex[m].cap.code THEN "fence" ELSE "abort")
    /\ UNCHANGED <<nb, rec, lapsed, preparing>>

\* fence: the conditional PUT that stamps the metadata proves that it is as captured.
\* Nothing tells the executor that its lease was taken since the last save.
Fence(m) ==
    /\ At(m, "fence")
    /\ IF MetaUnchanged(m)
       THEN /\ nb' = [nb EXCEPT !["src"].fence = ex[m].id] /\ Goto(m, "drain")
            /\ late' = IF rec.by = m THEN late ELSE late \union {ex[m].id}
       ELSE Goto(m, "abort") /\ UNCHANGED <<nb, late>>
    /\ UNCHANGED <<cat, rec, lapsed, nextId, lifted, writeVars, faults>>

\* Mutant: the move does not wait for writers that were admitted before the fence.
DrainSkipped(m) ==
    /\ At(m, "drain")
    /\ Goto(m, "settle")
    /\ UNCHANGED <<nb, rec, lapsed, preparing>>

\* The workspace lease is taken once, so that writers admitted before the fence
\* have finished; a busy one ends the attempt.
Drain(m) ==
    /\ At(m, "drain")
    /\ Goto(m, IF ws = None THEN "settle" ELSE "abort")
    /\ UNCHANGED <<nb, rec, lapsed, preparing>>

\* A session admitted before the fence is refused; then the copying begins.
Settle(m) ==
    /\ At(m, "settle")
    /\ IF Sessions("src") = {}
       THEN Save(m, [rec EXCEPT !.phase = "copying"], "copy", "abort")
       ELSE Goto(m, "abort") /\ UNCHANGED <<rec, lapsed>>
    /\ UNCHANGED <<nb, preparing>>

\* That save takes effect and its answer is lost.
SettleUnanswered(m) ==
    /\ At(m, "settle") /\ Sessions("src") = {} /\ rec.by = m
    /\ rec' = [rec EXCEPT !.phase = "copying"] /\ lapsed' = FALSE
    /\ Goto(m, "abort") /\ Fault
    /\ UNCHANGED <<nb, cat, nextId, lifted, late, writeVars>>

\* Nothing has been copied: release, unless another executor has taken over.
Abort(m) ==
    /\ At(m, "abort")
    /\ Save(m, rec, "unfence", "idle")
    /\ UNCHANGED <<nb, preparing>>

\* release, also for a cancel.
Release(e) ==
    /\ \/ /\ At(e, "unfence")
          /\ nb' = Unfenced("src", ex[e].id)
          /\ Goto(e, "delete") /\ UNCHANGED <<rec, lapsed>>
       \/ /\ At(e, "delete")
          /\ rec' = NoMove /\ lapsed' = FALSE
          /\ Goto(e, "idle") /\ UNCHANGED nb
    /\ UNCHANGED preparing

-----------------------------------------------------------------------------
(* Copying and publication. *)

copying == <<rec, lapsed, nextId, lifted, late, writeVars, faults>>

\* copyMovePrefix: create-if-absent; an object that differs is a conflict, one
\* that has gone from the source is left out.
CopyFiles(m) ==
    /\ At(m, "copy")
    /\ \/ /\ nb["src"].files /\ ~nb["dst"].files
          /\ nb' = [nb EXCEPT !["dst"].files = TRUE, !["dst"].body = nb["src"].body,
                              !["dst"].code = nb["src"].code]
          /\ Goto(m, "copymeta")
       \/ /\ nb["src"].files => nb["dst"].files
          /\ Goto(m, IF nb["src"].files => /\ nb["dst"].body = nb["src"].body
                                           /\ nb["dst"].code = nb["src"].code
                     THEN "copymeta" ELSE "drop")
          /\ UNCHANGED nb
    /\ UNCHANGED <<cat, copying>>

\* The metadata is copied last, and still fenced.
CopyMeta(m) ==
    /\ At(m, "copymeta")
    /\ \/ /\ nb["src"].meta /\ ~nb["dst"].meta
          /\ nb' = [nb EXCEPT !["dst"].meta = TRUE, !["dst"].fence = ex[m].id,
                              !["dst"].ver = nb["src"].ver, !["dst"].del = nb["src"].del]
          /\ Goto(m, "renew")
       \/ /\ nb["src"].meta => nb["dst"].meta
          /\ Goto(m, IF nb["src"].meta => /\ nb["dst"].fence = ex[m].id
                                          /\ nb["dst"].ver = nb["src"].ver
                     THEN "renew" ELSE "drop")
          /\ UNCHANGED nb
    /\ UNCHANGED <<cat, copying>>

\* Mutant: the copy is published whether or not the lease is still held.
RenewSkipped(m) ==
    /\ At(m, "renew")
    /\ Goto(m, "verify")
    /\ UNCHANGED <<nb, rec, lapsed, preparing>>

\* A cancelled or taken-over move must not reach the catalog.
Renew(m) ==
    /\ At(m, "renew")
    /\ Save(m, rec, "verify", "drop")
    /\ UNCHANGED <<nb, preparing>>

\* assertSourceMetaUnchanged.
Verify(m) ==
    /\ At(m, "verify")
    /\ Goto(m, IF /\ MetaUnchanged(m) /\ nb["src"].fence = ex[m].id
                  /\ nb["src"].code = ex[m].cap.code
               THEN "publish" ELSE "drop")
    /\ UNCHANGED <<nb, cat, copying>>

\* publish: one catalog commit, repeated without effect.
Publish(m) ==
    /\ At(m, "publish")
    /\ IF cat.at = "src" /\ ~cat.del
       THEN cat' = [cat EXCEPT !.at = "dst", !.by = ex[m].id] /\ Goto(m, "published")
       ELSE /\ Goto(m, IF cat.at = "dst" /\ cat.by = ex[m].id THEN "published" ELSE "drop")
            /\ UNCHANGED cat
    /\ UNCHANGED <<nb, copying>>

Published(m) ==
    /\ At(m, "published")
    /\ Save(m, [rec EXCEPT !.phase = "published"], "open", "drop")
    /\ UNCHANGED <<nb, preparing>>

-----------------------------------------------------------------------------
(* After publication. *)

\* The destination becomes readable.
Open(m) ==
    /\ At(m, "open")
    /\ nb' = Unfenced("dst", ex[m].id)
    /\ Goto(m, "keep")
    /\ UNCHANGED <<cat, copying>>

Keep(m) ==
    /\ At(m, "keep")
    /\ Save(m, rec, "rmmeta", "drop")
    /\ UNCHANGED <<nb, preparing>>

\* removeMovedObjects: the metadata first.
Remove(m) ==
    /\ \/ /\ At(m, "rmmeta")
          /\ nb' = [nb EXCEPT !["src"].meta = FALSE, !["src"].fence = 0]
          /\ Goto(m, "rmfiles")
       \/ /\ At(m, "rmfiles")
          /\ nb' = [nb EXCEPT !["src"] = NoObjects]
          /\ Goto(m, "finish")
    /\ UNCHANGED <<cat, copying>>

FinishMove(m) ==
    /\ At(m, "finish")
    /\ Save(m, [rec EXCEPT !.phase = "complete", !.by = None], "idle", "drop")
    /\ UNCHANGED <<nb, preparing>>

\* An error after the preparation gives the lease back, so that a retry can resume.
Drop(e) ==
    /\ At(e, "drop")
    /\ rec' = IF rec.by = e THEN [rec EXCEPT !.by = None] ELSE rec
    /\ lapsed' = IF rec.by = e THEN FALSE ELSE lapsed
    /\ Goto(e, "idle")
    /\ UNCHANGED <<nb, preparing>>

-----------------------------------------------------------------------------
(* Cancelling, and repairing a fence whose record has gone. *)

\* cancel takes the lease of a pending move that nobody runs; else it is refused.
CancelLease(c) ==
    /\ At(c, "idle") /\ Pending /\ LeaseFree
    /\ rec' = [rec EXCEPT !.by = c] /\ lapsed' = FALSE
    /\ ex' = [ex EXCEPT ![c].pc = "look", ![c].id = rec.id]
    /\ UNCHANGED <<nb, preparing>>

\* cancel finds no pending record; it remembers the id of the one it read, if any.
CancelRead(c) ==
    /\ At(c, "idle") /\ ~Pending
    /\ ex' = [ex EXCEPT ![c].pc = "read", ![c].id = rec.id]
    /\ UNCHANGED <<nb, rec, lapsed, preparing>>

\* Then the metadata: any other fence is taken for one that has no record.  A fence
\* whose record has come in between counts as a fault; at the bound the client gives up.
Stale(c) == nb["src"].fence = rec.id /\ rec.id # ex[c].id
FindOrphan(c) ==
    /\ At(c, "read")
    /\ \/ /\ nb["src"].fence \notin {0, ex[c].id}
          /\ ex' = [ex EXCEPT ![c].pc = "repair", ![c].id = nb["src"].fence]
          /\ IF Stale(c) THEN Fault ELSE NoFault
       \/ /\ nb["src"].fence \in {0, ex[c].id} \/ (Stale(c) /\ faults = MaxFaults)
          /\ Goto(c, "idle") /\ NoFault
    /\ UNCHANGED <<nb, cat, rec, lapsed, nextId, lifted, late, writeVars>>

\* isPublished: the catalog decides, not the phase.
Look(c) ==
    /\ At(c, "look")
    /\ Goto(c, IF rec.phase = "published" \/ (cat.at = "dst" /\ cat.by = ex[c].id)
               THEN "drop" ELSE "wipe")
    /\ UNCHANGED <<nb, rec, lapsed, preparing>>

\* The copies are removed; then release.
Wipe(c) ==
    /\ At(c, "wipe")
    /\ nb' = [nb EXCEPT !["dst"] = NoObjects]
    /\ Goto(c, "unfence")
    /\ UNCHANGED <<cat, copying>>

Repair(c) ==
    /\ At(c, "repair")
    /\ nb' = Unfenced("src", ex[c].id)
    /\ lifted' = IF ex[c].id \in {rec.id} \intersect {nb["src"].fence}
                   THEN lifted \union {ex[c].id} ELSE lifted
    /\ Goto(c, "idle")
    /\ UNCHANGED <<cat, rec, lapsed, nextId, late, writeVars, faults>>

-----------------------------------------------------------------------------
(* Failures of a move or a cancel. *)

BeforeCopy == {"check", "ready", "fence", "drain", "settle"}
\* A move's release is outside of its handlers: an error there leaves the lease behind,
\* as if the executor had died.
InRelease(e) == {"abort", "drop"} \union IF e \in Movers THEN {"unfence", "delete"} ELSE {}

\* A request fails: what follows depends on how far the move has come.
RequestFails(e) ==
    /\ ex[e].pc \in (MoveSteps \union CancelSteps) \ ({"lease", "read", "repair"} \union InRelease(e))
    /\ Goto(e, IF ex[e].pc \in BeforeCopy THEN "abort" ELSE "drop")
    /\ Fault
    /\ UNCHANGED <<nb, cat, rec, lapsed, nextId, lifted, late, writeVars>>

Dies(e) ==
    /\ ~At(e, "idle")
    /\ Goto(e, "idle")
    /\ rec' = IF rec.by = e THEN [rec EXCEPT !.by = Ghost] ELSE rec
    /\ Fault
    /\ UNCHANGED <<nb, cat, lapsed, nextId, lifted, late, writeVars>>

-----------------------------------------------------------------------------
(* The writers. *)

Readable(p) == nb[p].meta /\ nb[p].fence = 0
Doing(w, step) == wr[w].pc = step
Does(w, step) == wr' = [wr EXCEPT ![w].pc = step]
Here(w) == nb[wr[w].at]

\* A request arrives, or a session is opened, in a project where the notebook is
\* found; the checks of the route come first.
Arrive(w) ==
    /\ Doing(w, "idle")
    /\ \E k \in Kinds, p \in Projects :
         /\ Readable(p) /\ ~nb[p].del
         /\ wr' = [wr EXCEPT ![w] = [pc |-> CASE k = "session" -> "admit"
                                              [] k = "delete" -> "meta"
                                              [] OTHER -> "lease",
                                     kind |-> k, at |-> p, lost |-> FALSE]]
    /\ UNCHANGED <<nb, moveVars, ws, acked, faults>>

\* withMutation: the lease is acquired, or the caller gives up.  The claim in the
\* destination is another object, which only matters once the move is over.
AcquireWorkspace(w) ==
    /\ Doing(w, "lease")
    /\ IF ws = None
       THEN ws' = w /\ Does(w, "check")
       ELSE Does(w, "over") /\ UNCHANGED ws
    /\ UNCHANGED <<nb, moveVars, acked, faults>>

\* getNotebook under the lease; a save of code is refused while a session can save.
CheckNotebook(w) ==
    /\ Doing(w, "check")
    /\ Does(w, IF ~Readable(wr[w].at) \/ Here(w).del THEN "free"
               ELSE IF wr[w].kind = "file" THEN "put"
               ELSE IF Sessions(wr[w].at) # {} THEN "free" ELSE "meta")
    /\ UNCHANGED <<nb, moveVars, ws, acked, faults>>

\* The conditional PUT of meta.json, in which each writer looks for the fence.
WriteMeta(w) ==
    /\ Doing(w, "meta")
    /\ IF Readable(wr[w].at) /\ ~Here(w).del /\ ~wr[w].lost
       THEN /\ nb' = [nb EXCEPT ![wr[w].at].ver = @ + 1,
                                ![wr[w].at].del = wr[w].kind = "delete"]
            /\ Does(w, IF wr[w].kind = "delete" THEN "entry" ELSE "put")
       ELSE Does(w, IF wr[w].kind = "delete" THEN "over" ELSE "free") /\ UNCHANGED nb
    /\ UNCHANGED <<moveVars, ws, acked, faults>>

\* Then the objects; a save rewrites source.json too.  The lease is asked for before
\* them, and may be lost in between.
WriteFiles(w) ==
    /\ Doing(w, "put")
    /\ \/ /\ nb' = [nb EXCEPT ![wr[w].at].files = TRUE, ![wr[w].at].body = @ \union {w},
                              ![wr[w].at].code = IF wr[w].kind = "save" THEN w ELSE @]
          /\ wr' = [wr EXCEPT ![w].pc = "free"]
          /\ acked' = IF wr[w].lost THEN acked ELSE acked \union {w}
       \/ /\ wr[w].lost /\ wr[w].kind = "save"
          /\ Does(w, "free") /\ UNCHANGED <<nb, acked>>
    /\ UNCHANGED <<moveVars, ws, faults>>

\* The lease is released if it is still held; without it the caller gets an error.
FreeWorkspace(w) ==
    /\ Doing(w, "free")
    /\ Does(w, "over")
    /\ ws' = IF ws = w THEN None ELSE ws
    /\ UNCHANGED <<nb, moveVars, acked, faults>>

\* The lease ends: its holder died, or its renewals failed and it knows.
WorkspaceLapses ==
    /\ \/ ws = Ghost /\ UNCHANGED wr /\ NoFault
       \/ ws \in Writers /\ wr' = [wr EXCEPT ![ws].lost = TRUE] /\ Fault
    /\ ws' = None
    /\ UNCHANGED <<nb, moveVars, acked>>

\* A session is admitted: its record is written under the workspace lease.
AdmitSession(w) ==
    /\ Doing(w, "admit") /\ ws = None
    /\ Does(w, "recheck")
    /\ UNCHANGED <<nb, moveVars, ws, acked, faults>>

\* running_rechecks: a notebook that cannot be read any more ends the session.
RecheckSession(w) ==
    /\ Doing(w, "recheck")
    /\ Does(w, IF Readable(wr[w].at) /\ ~Here(w).del THEN "commit" ELSE "end")
    /\ UNCHANGED <<nb, moveVars, ws, acked, faults>>

\* commitSession: look for the fence, write the objects, then the metadata.
CommitSession(w) ==
    /\ \/ /\ Doing(w, "commit")
          /\ Does(w, IF Readable(wr[w].at) /\ ~Here(w).del THEN "save" ELSE "end")
          /\ UNCHANGED <<nb, acked>>
       \/ /\ Doing(w, "save")
          /\ nb' = [nb EXCEPT ![wr[w].at].files = TRUE, ![wr[w].at].body = @ \union {w},
                              ![wr[w].at].code = w]
          /\ Does(w, "bump") /\ UNCHANGED acked
       \/ /\ Doing(w, "bump")
          /\ IF Readable(wr[w].at)
             THEN /\ nb' = [nb EXCEPT ![wr[w].at].ver = @ + 1] /\ acked' = acked \union {w}
             ELSE UNCHANGED <<nb, acked>>
          /\ Does(w, "end")
    /\ UNCHANGED <<moveVars, ws, faults>>

\* The sandbox is reclaimed: the session no longer blocks a move.
EndSession(w) ==
    /\ Doing(w, "end")
    /\ Does(w, "over")
    /\ UNCHANGED <<nb, moveVars, ws, acked, faults>>

\* deleteNotebook updates the catalog entry after the metadata.
DeleteEntry(w) ==
    /\ Doing(w, "entry")
    /\ cat' = IF cat.at = wr[w].at THEN [cat EXCEPT !.del = TRUE] ELSE cat
    /\ Does(w, "over")
    /\ UNCHANGED <<nb, rec, lapsed, nextId, ex, ws, acked, lifted, late, faults>>

WriterDies(w) ==
    /\ wr[w].pc \notin {"idle", "over"}
    /\ Does(w, "over")
    /\ ws' = IF ws = w THEN Ghost ELSE ws
    /\ Fault
    /\ UNCHANGED <<nb, moveVars, acked>>

-----------------------------------------------------------------------------
MoveStep(m) ==
    \/ TakeLease(m) \/ Check(m) \/ Ready(m) \/ Fence(m) \/ Drain(m) \/ Settle(m) \/ Abort(m)
    \/ CopyFiles(m) \/ CopyMeta(m) \/ Renew(m) \/ Verify(m) \/ Publish(m) \/ Published(m)
    \/ Open(m) \/ Keep(m) \/ Remove(m) \/ FinishMove(m)
CancelStep(c) == CancelRead(c) \/ FindOrphan(c) \/ Look(c) \/ Wipe(c) \/ Repair(c)
ClientStep(e) == Release(e) \/ Drop(e)
WriteStep(w) ==
    \/ AcquireWorkspace(w) \/ CheckNotebook(w) \/ WriteMeta(w) \/ WriteFiles(w)
    \/ FreeWorkspace(w) \/ AdmitSession(w) \/ RecheckSession(w) \/ CommitSession(w)
    \/ EndSession(w) \/ DeleteEntry(w)

Next ==
    \/ \E m \in Movers : Post(m) \/ MoveStep(m) \/ SettleUnanswered(m)
    \/ \E c \in Cancellers : CancelLease(c) \/ CancelStep(c)
    \/ \E e \in Clients : ClientStep(e) \/ RequestFails(e) \/ Dies(e)
    \/ LeaseLapses \/ WorkspaceLapses
    \/ \E w \in Writers : Arrive(w) \/ WriteStep(w) \/ WriterDies(w)

Spec == Init /\ [][Next]_vars

\* Requests go on and a dead holder's lease runs out.  Clients post the move and
\* cancel it again, and are not beaten to the lease by each other for ever.
Fairness ==
    /\ \A m \in Movers : WF_vars(MoveStep(m) \/ ClientStep(m))
    /\ \A c \in Cancellers : WF_vars(CancelStep(c) \/ ClientStep(c))
    /\ SF_vars(LeaseFree /\ \E m \in Movers : Post(m))
    /\ SF_vars(LeaseFree /\ \E m \in Movers : TakeLease(m))
    /\ SF_vars(\E c \in Cancellers : CancelLease(c))
    /\ WF_vars(\/ rec.by = Ghost /\ LeaseLapses
               \/ ws = Ghost /\ WorkspaceLapses
               \/ \E w \in Writers : WriteStep(w))
FairSpec == Spec /\ Fairness

-----------------------------------------------------------------------------
(* Properties. *)

\* The project that the catalog lists holds the whole notebook, with every write
\* whose caller was told that it succeeded: whatever order the fence, the drain, the
\* copy, the publication, a cancel and the removal of the source take effect in.
\* Two races of the code are excepted.  A cancel that read the record before the move
\* and the metadata after its fence unfences the source of a move that goes on
\* (lifted).  An executor that lost its lease before the fence may stamp it again after
\* a cut-short cancel (late); that hides an upload, which changes no update token.
NothingLost ==
    /\ nb[cat.at].meta /\ nb[cat.at].files
    /\ cat.by \notin lifted =>
         {w \in acked : wr[w].kind = "file" => cat.by \notin late} \subseteq nb[cat.at].body

\* A copy that can be read is the one that the catalog lists: the two projects never
\* show the notebook at once, and a copy is not opened before its publication.  The
\* exception is the source that a cancel with a stale record unfenced (lifted).
ReadableIsListed ==
    /\ Readable("dst") => cat.at = "dst"
    /\ Readable("src") => cat.at = "src" \/ cat.by \in lifted

\* A notebook hidden by a fence can be read again in the end: the move is finished,
\* given up or cancelled, or the fence it left behind is repaired.
NotebookReturns == ~Readable(cat.at) ~> Readable(cat.at)

\* A publication is carried to its end by the retries, though the executor may die or
\* be cancelled at any step: the source's metadata goes and the record says complete.
PublicationCompletes ==
    cat.at = "dst" ~> rec.phase = "complete" /\ ~nb["src"].meta

=============================================================================
