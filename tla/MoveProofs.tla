----------------------------- MODULE MoveProofs -----------------------------
(***************************************************************************)
(* What holds of the move of a notebook for any number of clients that     *)
(* post and cancel it, of writers, of moves and of faults.                 *)
(*                                                                         *)
(* The argument.  An executor whose lease has run out may still be at work *)
(* beside the one that took over, so no invariant can say that one client  *)
(* acts at a time.  Two things replace it.  The steps that could destroy   *)
(* something (Sure) follow a save of the record at once, and are taken by  *)
(* its holder alone; all others are harmless when they are late, because   *)
(* the catalog, the phase of the record and the fences, which carry the    *)
(* move's id, only go forward.                                             *)
(*                                                                         *)
(* For the writes.  A save and a session commit change the update token,   *)
(* and the record's capture of it is never ahead of the source: as long as *)
(* the two agree, nothing was saved since.  An upload leaves the token as  *)
(* it is, and is kept out by the fence: one that was stamped under the     *)
(* lease and is still there has been there since the drain, which waited   *)
(* for every write in flight.                                              *)
(***************************************************************************)
EXTENDS NotebookMove, TLAPS

-----------------------------------------------------------------------------
(* Type correctness. *)

Requests == [pc : {"idle"} \union MoveSteps \union CancelSteps, id : 0..MaxMoves, cap : Captures]
Records == [id : 0..MaxMoves, phase : Phases, by : Clients \union {None, Ghost}, cap : Captures]
Writes == [pc : WriteSteps, kind : Kinds \union {"save"}, at : Projects, lost : BOOLEAN]
Entries == [at : Projects, by : 0..MaxMoves, del : BOOLEAN]

LEMMA Types ==
    ASSUME TypeOK
    PROVE  /\ nb \in [Projects -> Objects] /\ nb["src"] \in Objects /\ nb["dst"] \in Objects
           /\ cat \in Entries /\ rec \in Records /\ lapsed \in BOOLEAN
           /\ ex \in [Clients -> Requests] /\ wr \in [Writers -> Writes]
           /\ acked \subseteq Writers /\ ws \in Writers \union {None, Ghost}
           /\ lifted \subseteq 0..MaxMoves /\ late \subseteq 0..MaxMoves
           /\ 0 \in 0..MaxMoves /\ Ids \subseteq 0..MaxMoves
           /\ nextId \in Nat /\ nextId > 0 /\ 0..MaxMoves \subseteq Nat /\ nextId \in 1..MaxMoves + 1
<1>1. 0 \in 0..MaxMoves /\ Ids \subseteq 0..MaxMoves /\ 0..MaxMoves \subseteq Nat
  BY MoveAssumption DEF Ids
<1>2. nextId \in Nat /\ nextId > 0
  BY MoveAssumption DEF TypeOK
<1>3. "src" \in Projects /\ "dst" \in Projects
  BY DEF Projects
<1>4. QED
  BY <1>1, <1>2, <1>3 DEF TypeOK, Requests, Records, Writes, Entries

LEMMA Defaults ==
    /\ NoCapture \in Captures /\ NoRequest \in Requests /\ NoMove \in Records /\ NoWrite \in Writes
    /\ NoObjects \in Objects
    /\ NoRequest.pc = "idle" /\ NoRequest.id = 0 /\ NoRequest.cap = NoCapture
    /\ NoMove.id = 0 /\ NoMove.phase = "none" /\ NoMove.by = None /\ NoMove.cap = NoCapture
    /\ NoObjects.meta = FALSE /\ NoObjects.fence = 0 /\ NoObjects.files = FALSE /\ NoObjects.body = {} /\ NoObjects.ver = 0
<1>1. 0 \in 0..MaxMoves
  BY MoveAssumption
<1>2. NoCapture \in Captures
  BY DEF NoCapture, Captures
<1>3. NoObjects \in Objects
  BY <1>1 DEF NoObjects, Objects
<1>4. QED
  BY <1>1, <1>2, <1>3 DEF NoRequest, Requests, NoMove, Records, Phases, NoWrite, Writes,
     WriteSteps, Projects, NoObjects

\* The request of e goes on to a step, or ends.
Moved(e, step) ==
    /\ ex' \in [Clients -> Requests]
    /\ ex'[e].pc = step
    /\ ex'[e].id = IF step = "idle" THEN 0 ELSE ex[e].id
    /\ ex'[e].cap = IF step = "idle" THEN NoCapture ELSE ex[e].cap
    /\ \A f \in Clients : f # e => ex'[f] = ex[f]

LEMMA GotoMeans ==
    ASSUME TypeOK, NEW e \in Clients, NEW step \in {"idle"} \union MoveSteps \union CancelSteps, Goto(e, step)
    PROVE  Moved(e, step)
<1>1. ex \in [Clients -> Requests] /\ ex[e] \in Requests
  BY Types
<1>2. CASE step = "idle"
  <2>1. ex' = [ex EXCEPT ![e] = NoRequest]
    BY <1>1, <1>2 DEF Goto
  <2>2. QED
    BY <1>1, <1>2, <2>1, Defaults DEF Moved
<1>3. CASE step # "idle"
  <2> DEFINE x == [ex[e] EXCEPT !.pc = step]
  <2>1. ex' = [ex EXCEPT ![e] = x]
    BY <1>1, <1>3 DEF Goto
  <2>2. x \in Requests /\ x.pc = step /\ x.id = ex[e].id /\ x.cap = ex[e].cap
    BY <1>1 DEF Requests
  <2> HIDE DEF x
  <2>3. QED
    BY <1>1, <1>3, <2>1, <2>2 DEF Moved
<1>4. QED
  BY <1>2, <1>3

\* The lease passes to another holder, or to nobody.
Held(by) ==
    /\ rec' \in Records /\ rec'.by = by /\ rec'.id = rec.id /\ rec'.phase = rec.phase /\ rec'.cap = rec.cap

LEMMA HeldBy ==
    ASSUME TypeOK, NEW by \in Clients \union {None, Ghost}, rec' = [rec EXCEPT !.by = by]
    PROVE  Held(by)
  BY Types DEF Held, Records

LEMMA PhaseTo ==
    ASSUME TypeOK, NEW ph \in Phases, rec' = [rec EXCEPT !.phase = ph]
    PROVE  rec' \in Records /\ rec'.phase = ph /\ rec'.id = rec.id /\ rec'.by = rec.by /\ rec'.cap = rec.cap
  BY Types DEF Records

\* Only the fence changes.
FenceTo(p, f) ==
    /\ nb' \in [Projects -> Objects]
    /\ nb'[p].fence = f /\ nb'[p].meta = nb[p].meta /\ nb'[p].files = nb[p].files
    /\ nb'[p].body = nb[p].body /\ nb'[p].ver = nb[p].ver
    /\ \A q \in Projects : q # p => nb'[q] = nb[q]

LEMMA FenceMeans ==
    ASSUME TypeOK, NEW p \in Projects, NEW f \in 0..MaxMoves, nb' = [nb EXCEPT ![p].fence = f]
    PROVE  FenceTo(p, f)
<1> DEFINE x == [nb[p] EXCEPT !.fence = f]
<1>1. nb \in [Projects -> Objects] /\ nb[p] \in Objects
  BY Types
<1>2. nb' = [nb EXCEPT ![p] = x]
  BY <1>1
<1>3. x \in Objects /\ x.fence = f /\ x.meta = nb[p].meta /\ x.files = nb[p].files /\ x.body = nb[p].body
      /\ x.ver = nb[p].ver
  BY <1>1 DEF Objects
<1> HIDE DEF x
<1>4. QED
  BY <1>1, <1>2, <1>3 DEF FenceTo

LEMMA UnfencedMeans ==
    ASSUME TypeOK, NEW p \in Projects, NEW id, nb' = Unfenced(p, id)
    PROVE  FenceTo(p, IF nb[p].fence = id THEN 0 ELSE nb[p].fence)
<1>1. CASE nb[p].fence = id
  BY <1>1, FenceMeans, Types DEF Unfenced
<1>2. CASE nb[p].fence # id
  BY <1>2, Types DEF Unfenced, FenceTo
<1>3. QED
  BY <1>1, <1>2

-----------------------------------------------------------------------------
(* What a step changes of the move. *)

Beside == UNCHANGED <<ws, wr, acked>> /\ faults' \in 0..MaxFaults
Base == Beside /\ UNCHANGED <<lifted, late>>

Lapses ==
    /\ Base /\ UNCHANGED <<nb, cat, rec, nextId, ex>> /\ lapsed' = TRUE
    /\ rec.by = Ghost \/ (rec.by \in Movers /\ ex[rec.by].pc \in LongSteps)

Posts(m) ==
    /\ Base /\ UNCHANGED <<nb, cat, rec, lapsed, nextId>>
    /\ ex' \in [Clients -> Requests] /\ \A f \in Clients : f # m => ex'[f] = ex[f]
    /\ ex[m].pc = "idle" /\ ex'[m].pc = "lease" /\ ex'[m].id = 0
    /\ \/ rec.phase \in {"copying", "published"} /\ ex'[m].cap = rec.cap
       \/ ex'[m].cap.ver = nb["src"].ver

Creates(m) ==
    /\ Base /\ UNCHANGED <<nb, cat>>
    /\ ~Pending /\ (rec.phase = "complete" => StalePosts) /\ nextId \in Ids /\ nextId' = nextId + 1
    /\ rec' \in Records /\ rec'.id = nextId /\ rec'.phase = "preparing" /\ rec'.by = m /\ rec'.cap = ex[m].cap
    /\ lapsed' = FALSE
    /\ ex' \in [Clients -> Requests] /\ \A f \in Clients : f # m => ex'[f] = ex[f]
    /\ ex[m].pc = "lease" /\ ex'[m].pc = "check" /\ ex'[m].id = nextId /\ ex'[m].cap = ex[m].cap

TakesOver(e) ==
    /\ Base /\ UNCHANGED <<nb, cat, nextId>>
    /\ Pending /\ LeaseFree /\ Held(e) /\ lapsed' = FALSE
    /\ ex' \in [Clients -> Requests] /\ \A f \in Clients : f # e => ex'[f] = ex[f]
    /\ ex'[e].id = rec.id
    /\ \/ e \in Movers /\ ex[e].pc = "lease" /\ ex'[e].pc = Resume[rec.phase] /\ ex'[e].cap = rec.cap
       \/ e \in Cancellers /\ ex[e].pc = "idle" /\ ex'[e].pc = "look"

\* A cancel has read the record, or taken the fence for one without a record.
FindsOrphan(c) ==
    /\ Base /\ UNCHANGED <<nb, cat, rec, lapsed, nextId>>
    /\ ex' \in [Clients -> Requests] /\ \A f \in Clients : f # c => ex'[f] = ex[f]
    /\ c \in Cancellers
    /\ \/ ex[c].pc = "idle" /\ ex'[c].pc = "read" /\ ex'[c].id = rec.id
       \/ /\ ex[c].pc = "read" /\ ex'[c].pc = "repair"
          /\ ex'[c].id = nb["src"].fence /\ nb["src"].fence # 0

Way(e, step) ==
    \/ ex[e].pc \in BeforeCopy /\ step \in {"fence", "settle", "abort"} /\ (step = "settle" => ws = None)
    \/ /\ ex[e].pc = "copy" /\ step = "copymeta"
       /\ nb["src"].files => nb["dst"].files /\ nb["dst"].body = nb["src"].body
    \/ ex[e].pc = "copymeta" /\ step = "renew" /\ (nb["src"].meta => nb["dst"].meta)
    \/ /\ ex[e].pc = "verify" /\ step = "publish"
       /\ nb["src"].fence = ex[e].id /\ nb["src"].ver = ex[e].cap.ver /\ e \in Movers
    \/ ex[e].pc = "publish" /\ step = "published" /\ cat.at = "dst" /\ cat.by = ex[e].id
    \/ /\ ex[e].pc = "look" /\ step = "wipe"
       /\ rec.phase # "published" /\ ~(cat.at = "dst" /\ cat.by = ex[e].id)
    \/ step = "drop" /\ ex[e].pc \notin {"idle", "lease", "read", "repair", "abort", "drop"} \union BeforeCopy
    \/ ex[e].pc \in {"lease", "read"} /\ step = "idle"
Goes(e, step) ==
    /\ Base /\ UNCHANGED <<nb, cat, rec, lapsed, nextId>>
    /\ Moved(e, step) /\ Way(e, step)

SavesAs(e, step) ==
    \/ /\ rec'.phase = rec.phase /\ rec'.by = e
       /\ <<ex[e].pc, step>> \in {<<"check", "ready">>, <<"abort", "unfence">>, <<"renew", "verify">>,
                                  <<"keep", "rmmeta">>}
    \/ rec'.phase = "copying" /\ rec'.by = e /\ ex[e].pc = "settle" /\ step \in {"copy", "abort"}
    \/ rec'.phase = "published" /\ rec'.by = e /\ ex[e].pc = "published" /\ step = "open"
    \/ rec'.phase = "complete" /\ rec'.by = None /\ ex[e].pc = "finish" /\ step = "idle"
Saves(e, step) ==
    /\ Base /\ UNCHANGED <<nb, cat, nextId>>
    /\ rec.by = e /\ lapsed' = FALSE /\ Moved(e, step)
    /\ rec' \in Records /\ rec'.id = rec.id /\ rec'.cap = rec.cap
    /\ SavesAs(e, step)

LeaveWay(e, step) ==
    \/ step = "idle" /\ ex[e].pc # "idle"
    \/ step = "abort" /\ ex[e].pc \in BeforeCopy
    \/ step = "drop" /\ ex[e].pc \notin {"idle", "lease", "read", "repair"}
Leaves(e, step) ==
    /\ Base /\ UNCHANGED <<nb, cat, lapsed, nextId>>
    /\ Moved(e, step) /\ Held(IF rec.by = e THEN Ghost ELSE rec.by) /\ LeaveWay(e, step)

Drops(e) ==
    /\ Base /\ UNCHANGED <<nb, cat, nextId>>
    /\ ex[e].pc = "drop" /\ Moved(e, "idle")
    /\ Held(IF rec.by = e THEN None ELSE rec.by)
    /\ lapsed' = IF rec.by = e THEN FALSE ELSE lapsed

Deletes(e) ==
    /\ Base /\ UNCHANGED <<nb, cat, nextId>>
    /\ ex[e].pc = "delete" /\ Moved(e, "idle") /\ rec' = NoMove /\ lapsed' = FALSE

Fences(m) ==
    /\ Beside /\ UNCHANGED <<cat, rec, lapsed, nextId, lifted>>
    /\ late' = IF rec.by = m THEN late ELSE late \union {ex[m].id}
    /\ ex[m].pc = "fence" /\ Moved(m, "drain")
    /\ nb["src"].meta /\ nb["src"].fence \in {0, ex[m].id} /\ FenceTo("src", ex[m].id)

Lifts(e) == lifted' = IF ex[e].id \in {rec.id} \intersect {nb["src"].fence}
                        THEN lifted \union {ex[e].id} ELSE lifted
Unfences(e, p, step) ==
    /\ Beside /\ UNCHANGED <<cat, rec, lapsed, nextId, late>>
    /\ Moved(e, step) /\ FenceTo(p, IF nb[p].fence = ex[e].id THEN 0 ELSE nb[p].fence)
    /\ \/ p = "src" /\ ex[e].pc = "unfence" /\ step = "delete" /\ lifted' = lifted
       \/ p = "src" /\ ex[e].pc = "repair" /\ step = "idle" /\ Lifts(e)
       \/ p = "dst" /\ ex[e].pc = "open" /\ step = "keep" /\ lifted' = lifted

\* The objects in one project change.
OnlyAt(p) ==
    /\ nb' \in [Projects -> Objects]
    /\ \A q \in Projects : q # p => nb'[q] = nb[q]

CopiesFiles(m) ==
    /\ Base /\ UNCHANGED <<cat, rec, lapsed, nextId>>
    /\ ex[m].pc = "copy" /\ Moved(m, "copymeta") /\ OnlyAt("dst")
    /\ ~nb["dst"].files /\ nb'["dst"].files = TRUE /\ nb'["dst"].body = nb["src"].body
    /\ nb'["dst"].meta = nb["dst"].meta /\ nb'["dst"].fence = nb["dst"].fence

CopiesMeta(m) ==
    /\ Base /\ UNCHANGED <<cat, rec, lapsed, nextId>>
    /\ ex[m].pc = "copymeta" /\ Moved(m, "renew") /\ OnlyAt("dst")
    /\ ~nb["dst"].meta /\ nb'["dst"].meta = TRUE /\ nb'["dst"].fence = ex[m].id
    /\ nb'["dst"].files = nb["dst"].files /\ nb'["dst"].body = nb["dst"].body

Publishes(m) ==
    /\ Base /\ UNCHANGED <<nb, rec, lapsed, nextId>>
    /\ ex[m].pc = "publish" /\ Moved(m, "published")
    /\ cat.at = "src" /\ cat' \in Entries /\ cat'.at = "dst" /\ cat'.by = ex[m].id

Removes(m) ==
    /\ Base /\ UNCHANGED <<cat, rec, lapsed, nextId>> /\ OnlyAt("src")
    /\ nb'["src"].meta = FALSE /\ nb'["src"].fence = 0
    /\ \/ ex[m].pc = "rmmeta" /\ Moved(m, "rmfiles")
       \/ ex[m].pc = "rmfiles" /\ Moved(m, "finish")

Wipes(c) ==
    /\ Base /\ UNCHANGED <<cat, rec, lapsed, nextId>> /\ OnlyAt("dst")
    /\ ex[c].pc = "wipe" /\ Moved(c, "unfence") /\ nb'["dst"] = NoObjects

\* What a step of a writer does.
WBase == UNCHANGED <<rec, lapsed, nextId, ex, lifted, late>> /\ faults' \in 0..MaxFaults
Did(w, step) ==
    /\ wr' \in [Writers -> Writes]
    /\ wr'[w].pc = step /\ wr'[w].kind = wr[w].kind /\ wr'[w].at = wr[w].at /\ wr'[w].lost = wr[w].lost
    /\ \A v \in Writers : v # w => wr'[v] = wr[v]

Arrives(w) ==
    /\ WBase /\ UNCHANGED <<nb, cat, ws, acked>>
    /\ wr' \in [Writers -> Writes] /\ \A v \in Writers : v # w => wr'[v] = wr[v]
    /\ wr[w].pc = "idle" /\ wr'[w].lost = FALSE /\ Readable(wr'[w].at) /\ wr'[w].kind \in Kinds
    /\ \/ wr'[w].pc = "admit"
       \/ wr'[w].pc = "meta" /\ wr'[w].kind = "delete"
       \/ wr'[w].pc = "lease" /\ wr'[w].kind \in {"save", "file"}

WriterWay(w, step) ==
    \/ wr[w].pc = "lease" /\ step = "check" /\ ws = None /\ ws' = w
    \/ step = "over" /\ ws' \in {ws, None, Ghost} /\ (ws' # ws => ws = w)
    \/ /\ ws' = ws /\ wr[w].pc = "check" /\ step \in {"free", "put", "meta"}
       /\ (step = "put" <=> wr[w].kind = "file") \/ step = "free"
       /\ step = "put" => Readable(wr[w].at)
    \/ ws' = ws /\ wr[w].pc = "meta" /\ step = "free" /\ wr[w].kind # "delete"
    \/ ws' = ws /\ wr[w].pc = "put" /\ step = "free"
    \/ ws' = ws /\ step \in {"recheck", "commit", "save", "end"}
WriterGoes(w, step) ==
    /\ WBase /\ UNCHANGED <<nb, acked>>
    /\ cat' \in Entries /\ cat'.at = cat.at /\ cat'.by = cat.by
    /\ Did(w, step) /\ WriterWay(w, step)

\* The metadata in p gets a new update token.
Bumped(p) ==
    /\ nb' \in [Projects -> Objects] /\ nb'[p].ver = nb[p].ver + 1
    /\ nb'[p].meta = nb[p].meta /\ nb'[p].fence = nb[p].fence
    /\ nb'[p].files = nb[p].files /\ nb'[p].body = nb[p].body
    /\ \A q \in Projects : q # p => nb'[q] = nb[q]
\* The objects in p hold the write w.
Filled(p, w) ==
    /\ nb' \in [Projects -> Objects] /\ nb'[p].files = TRUE /\ nb'[p].body = nb[p].body \union {w}
    /\ nb'[p].meta = nb[p].meta /\ nb'[p].fence = nb[p].fence /\ nb'[p].ver = nb[p].ver
    /\ \A q \in Projects : q # p => nb'[q] = nb[q]

WritesMeta(w) ==
    /\ WBase /\ UNCHANGED <<cat, ws, acked>> /\ wr[w].pc = "meta" /\ Bumped(wr[w].at)
    /\ Readable(wr[w].at) /\ ~wr[w].lost
    /\ Did(w, IF wr[w].kind = "delete" THEN "entry" ELSE "put")
WritesFiles(w) ==
    /\ WBase /\ UNCHANGED <<cat, ws>> /\ wr[w].pc = "put" /\ Did(w, "free") /\ Filled(wr[w].at, w)
    /\ acked' = IF wr[w].lost THEN acked ELSE acked \union {w}
SessionSaves(w) ==
    /\ WBase /\ UNCHANGED <<cat, ws, acked>> /\ wr[w].pc = "save" /\ Did(w, "bump") /\ Filled(wr[w].at, w)
SessionBumps(w) ==
    /\ WBase /\ UNCHANGED <<cat, ws>> /\ wr[w].pc = "bump" /\ Did(w, "end") /\ Bumped(wr[w].at)
    /\ Readable(wr[w].at) /\ acked' = acked \union {w}
LosesWorkspace ==
    /\ WBase /\ UNCHANGED <<nb, cat, acked>> /\ ws' = None
    /\ wr' \in [Writers -> Writes]
    /\ \A v \in Writers : /\ wr'[v].pc = wr[v].pc /\ wr'[v].kind = wr[v].kind /\ wr'[v].at = wr[v].at
                          /\ wr'[v].lost = (wr[v].lost \/ v = ws)
WriteEffect ==
    \/ LosesWorkspace
    \/ \E w \in Writers : \/ Arrives(w) \/ WritesMeta(w) \/ WritesFiles(w) \/ SessionSaves(w) \/ SessionBumps(w)
                          \/ \E s \in WriteSteps : WriterGoes(w, s)

\* What the move sees of a writer's step.
WriterChange ==
    /\ UNCHANGED <<rec, lapsed, nextId, ex, lifted, late>>
    /\ cat' \in Entries /\ cat'.at = cat.at /\ cat'.by = cat.by
    /\ nb' \in [Projects -> Objects]
    /\ \A p \in Projects : /\ nb'[p].meta = nb[p].meta /\ nb'[p].fence = nb[p].fence
                           /\ nb[p].files => nb'[p].files
    /\ wr' \in [Writers -> Writes] /\ ws' \in Writers \union {None, Ghost} /\ acked' \subseteq Writers
    /\ faults' \in 0..MaxFaults

Steps == {"idle"} \union MoveSteps \union CancelSteps
Effect ==
    \/ Lapses
    \/ \E m \in Movers : \/ Posts(m) \/ Creates(m) \/ Fences(m) \/ CopiesFiles(m) \/ CopiesMeta(m)
                         \/ Publishes(m) \/ Removes(m)
    \/ \E e \in Clients : TakesOver(e) \/ FindsOrphan(e) \/ Drops(e) \/ Deletes(e) \/ Wipes(e)
    \/ \E e \in Clients, s \in Steps : \/ Goes(e, s) \/ Saves(e, s) \/ Leaves(e, s)
                                       \/ \E p \in Projects : Unfences(e, p, s)

LEMMA FaultsOK ==
    ASSUME TypeOK, Fault \/ faults' = faults
    PROVE  faults' \in 0..MaxFaults
  BY MoveAssumption DEF TypeOK, Fault

LEMMA ClientsAre ==
    /\ \A m \in Movers : m \in Clients
    /\ \A c \in Cancellers : c \in Clients /\ c \notin Movers
    /\ \A e \in Clients : e # None /\ e # Ghost
  BY MoveAssumption DEF Clients

LEMMA GoesTo ==
    ASSUME TypeOK, NEW e \in Clients, NEW step \in Steps, Goto(e, step), Way(e, step),
           UNCHANGED <<nb, cat, rec, lapsed, nextId, ws, wr, acked, lifted, late>>, Fault \/ faults' = faults
    PROVE  Effect
<1>1. Moved(e, step)
  BY GotoMeans DEF Steps
<1>2. Base
  BY FaultsOK DEF Base, Beside
<1>3. Goes(e, step)
  BY <1>1, <1>2 DEF Goes
<1>4. QED
  BY <1>3 DEF Effect

LEMMA SavesOrLeaves ==
    ASSUME TypeOK, NEW e \in Clients, NEW yes \in Steps, NEW no \in Steps, NEW patch, Save(e, patch, yes, no),
           UNCHANGED <<nb, cat, nextId, ws, wr, acked, lifted, late>>, faults' = faults,
           rec.by = e /\ rec' = patch =>
               rec' \in Records /\ rec'.id = rec.id /\ rec'.cap = rec.cap /\ SavesAs(e, yes),
           LeaveWay(e, no)
    PROVE  Effect
<1>1. Base
  BY FaultsOK DEF Base, Beside
<1>2. ASSUME rec.by = e, rec' = patch, lapsed' = FALSE, Goto(e, yes)
      PROVE  Effect
  <2>1. Moved(e, yes)
    BY <1>2, GotoMeans DEF Steps
  <2>2. Saves(e, yes)
    BY <1>1, <1>2, <2>1 DEF Saves
  <2>3. QED
    BY <2>2 DEF Effect
<1>3. ASSUME rec' = IF rec.by = e THEN [rec EXCEPT !.by = Ghost] ELSE rec, Goto(e, no), UNCHANGED lapsed
      PROVE  Effect
  <2>1. Moved(e, no)
    BY <1>3, GotoMeans DEF Steps
  <2>2. Held(IF rec.by = e THEN Ghost ELSE rec.by)
    <3>1. CASE rec.by = e
      BY <1>3, <3>1, HeldBy
    <3>2. CASE rec.by # e
      BY <1>3, <3>2, Types DEF Held
    <3>3. QED
      BY <3>1, <3>2
  <2>3. Leaves(e, no)
    BY <1>1, <1>3, <2>1, <2>2 DEF Leaves
  <2>4. QED
    BY <2>3 DEF Effect
<1>4. QED
  BY <1>2, <1>3 DEF Save

\* A save of the record as it is, before the copy or later.
LEMMA SavesSame ==
    ASSUME TypeOK, NEW e \in Clients, NEW yes \in Steps, NEW no \in Steps, Save(e, rec, yes, no),
           UNCHANGED <<nb, cat, nextId, ws, wr, acked, lifted, late>>, faults' = faults,
           <<ex[e].pc, yes>> \in {<<"check", "ready">>, <<"abort", "unfence">>, <<"renew", "verify">>, <<"keep", "rmmeta">>},
           LeaveWay(e, no)
    PROVE  Effect
<1>1. rec.by = e /\ rec' = rec =>
        rec' \in Records /\ rec'.id = rec.id /\ rec'.cap = rec.cap /\ SavesAs(e, yes)
  BY Types DEF SavesAs
<1>2. QED
  BY <1>1, SavesOrLeaves

LEMMA StepsAre ==
    /\ {"idle", "ready", "fence", "drain", "settle", "abort", "unfence", "delete", "copy", "copymeta", "renew",
        "verify", "publish", "published", "open", "keep", "rmmeta", "rmfiles", "finish", "drop", "look", "wipe",
        "read", "repair", "lease", "check"} = Steps
    /\ MoveSteps \subseteq Steps /\ CancelSteps \subseteq Steps
    /\ BeforeCopy = {"check", "ready", "fence", "drain", "settle"}
  BY DEF Steps, MoveSteps, CancelSteps, BeforeCopy

LEMMA PostEffect ==
    ASSUME TypeOK, NEW m \in Movers, Post(m)
    PROVE  Effect
<1> DEFINE c == IF rec.phase \in {"copying", "published"} THEN rec.cap
                ELSE [ver |-> nb["src"].ver, code |-> nb["src"].code, stamped |-> nb["src"].fence # 0]
           x == [pc |-> "lease", id |-> 0, cap |-> c]
<1>1. Base /\ UNCHANGED <<nb, cat, rec, lapsed, nextId>> /\ ex[m].pc = "idle" /\ m \in Clients
  BY FaultsOK, ClientsAre DEF Post, Base, Beside, writeVars, At
<1>2. c \in Captures /\ (\/ rec.phase \in {"copying", "published"} /\ c = rec.cap
                         \/ c.ver = nb["src"].ver)
  <2>1. CASE rec.phase \in {"copying", "published"}
    BY <2>1, Types DEF Records
  <2>2. CASE rec.phase \notin {"copying", "published"}
    BY <2>2, Types DEF Objects, Captures
  <2>3. QED
    BY <2>1, <2>2
<1>3. ex' = [ex EXCEPT ![m] = x]
  BY DEF Post
<1>4. ASSUME NEW k \in Captures PROVE [pc |-> "lease", id |-> 0, cap |-> k] \in Requests
  BY Types DEF Requests, MoveSteps
<1> HIDE DEF c
<1>5. x \in Requests /\ x.pc = "lease" /\ x.id = 0 /\ x.cap = c
  BY <1>2, <1>4
<1> HIDE DEF x
<1>6. ex' \in [Clients -> Requests] /\ ex'[m] = x /\ \A f \in Clients : f # m => ex'[f] = ex[f]
  BY <1>1, <1>3, <1>5, Types
<1>7. Posts(m)
  BY <1>1, <1>2, <1>5, <1>6 DEF Posts
<1>8. QED
  BY <1>7 DEF Effect

LEMMA TakeLeaseEffect ==
    ASSUME TypeOK, NEW m \in Movers, TakeLease(m)
    PROVE  Effect
<1>1. Base /\ UNCHANGED <<nb, cat>> /\ faults' = faults /\ UNCHANGED <<ws, wr, acked, lifted, late>> /\ ex[m].pc = "lease"
      /\ m \in Clients /\ ex[m] \in Requests /\ ex \in [Clients -> Requests]
  BY FaultsOK, ClientsAre, Types DEF TakeLease, Base, Beside, writeVars, At
<1>2. ASSUME ~Pending, rec.phase = "complete" => StalePosts, nextId \in Ids,
             rec' = [id |-> nextId, phase |-> "preparing", by |-> m, cap |-> ex[m].cap],
             ex' = [ex EXCEPT ![m].pc = "check", ![m].id = nextId], nextId' = nextId + 1, lapsed' = FALSE
      PROVE  Effect
  <2> DEFINE x == [ex[m] EXCEPT !.pc = "check", !.id = nextId]
  <2>1. nextId \in 0..MaxMoves
    BY <1>2, Types
  <2>2. x \in Requests /\ x.pc = "check" /\ x.id = nextId /\ x.cap = ex[m].cap
    BY <1>1, <2>1 DEF Requests, MoveSteps
  <2>3. ex' = [ex EXCEPT ![m] = x]
    BY <1>1, <1>2
  <2>4. rec' \in Records /\ rec'.id = nextId /\ rec'.phase = "preparing" /\ rec'.by = m /\ rec'.cap = ex[m].cap
    BY <1>1, <1>2, <2>1 DEF Records, Phases, Requests
  <2> HIDE DEF x
  <2>5. ex' \in [Clients -> Requests] /\ ex'[m] = x /\ \A f \in Clients : f # m => ex'[f] = ex[f]
    BY <1>1, <2>2, <2>3
  <2>6. Creates(m)
    BY <1>1, <1>2, <2>2, <2>4, <2>5 DEF Creates
  <2>7. QED
    BY <2>6 DEF Effect
<1>3. ASSUME Pending, LeaseFree, rec' = [rec EXCEPT !.by = m],
             ex' = [ex EXCEPT ![m] = [pc |-> Resume[rec.phase], id |-> rec.id, cap |-> rec.cap]],
             lapsed' = FALSE, UNCHANGED nextId
      PROVE  Effect
  <2> DEFINE x == [pc |-> Resume[rec.phase], id |-> rec.id, cap |-> rec.cap]
  <2>1. Held(m)
    BY <1>1, <1>3, HeldBy
  <2>2. Resume[rec.phase] \in Steps
    BY <1>3, StepsAre DEF Pending, Resume
  <2>3. x \in Requests /\ x.pc = Resume[rec.phase] /\ x.id = rec.id /\ x.cap = rec.cap
    BY <2>2, Types DEF Requests, Records, Steps
  <2> HIDE DEF x
  <2>4. ex' = [ex EXCEPT ![m] = x]
    BY <1>3 DEF x
  <2>5. ex' \in [Clients -> Requests] /\ ex'[m] = x /\ \A f \in Clients : f # m => ex'[f] = ex[f]
    BY <1>1, <2>3, <2>4
  <2>6. TakesOver(m)
    BY <1>1, <1>3, <2>1, <2>3, <2>5 DEF TakesOver
  <2>7. QED
    BY <1>1, <2>6 DEF Effect
<1>4. ASSUME Goto(m, "idle"), UNCHANGED <<rec, lapsed, nextId>>
      PROVE  Effect
  BY <1>1, <1>4, GoesTo, StepsAre DEF Way
<1>5. QED
  BY <1>2, <1>3, <1>4 DEF TakeLease

\* The steps that only save the record or go on.
LEMMA SavingSteps ==
    ASSUME TypeOK, NEW m \in Movers,
           \/ Check(m) \/ Settle(m) \/ Abort(m) \/ Renew(m) \/ Published(m) \/ Keep(m) \/ FinishMove(m)
    PROVE  Effect
<1>1. UNCHANGED <<nb, cat, nextId, ws, wr, acked, lifted, late>> /\ faults' = faults /\ m \in Clients
  BY ClientsAre DEF Check, Settle, Abort, Renew, Published, Keep, FinishMove, preparing, writeVars
<1> USE StepsAre
<1>2. CASE Check(m)
  <2>1. ex[m].pc = "check"
    BY <1>2 DEF Check, At
  <2>2. CASE Save(m, rec, "ready", "abort")
    BY <1>1, <2>1, <2>2, SavesSame DEF LeaveWay
  <2>3. CASE Goto(m, "abort") /\ UNCHANGED <<rec, lapsed>>
    BY <1>1, <2>1, <2>3, GoesTo DEF Way
  <2>4. QED
    BY <1>2, <2>2, <2>3 DEF Check
<1>3. CASE Settle(m)
  <2>1. ex[m].pc = "settle"
    BY <1>3 DEF Settle, At
  <2>2. ASSUME Save(m, [rec EXCEPT !.phase = "copying"], "copy", "abort") PROVE Effect
    <3>1. rec.by = m /\ rec' = [rec EXCEPT !.phase = "copying"] =>
            rec' \in Records /\ rec'.id = rec.id /\ rec'.cap = rec.cap /\ SavesAs(m, "copy")
      BY <2>1, PhaseTo DEF SavesAs, Phases
    <3>2. QED
      BY <1>1, <2>1, <2>2, <3>1, SavesOrLeaves DEF LeaveWay
  <2>3. CASE Goto(m, "abort") /\ UNCHANGED <<rec, lapsed>>
    BY <1>1, <2>1, <2>3, GoesTo DEF Way
  <2>4. QED
    BY <1>3, <2>2, <2>3 DEF Settle
<1>4. CASE Abort(m)
  <2>1. ex[m].pc = "abort" /\ Save(m, rec, "unfence", "idle")
    BY <1>4 DEF Abort, At
  <2>2. QED
    BY <1>1, <2>1, SavesSame DEF LeaveWay
<1>5. CASE Renew(m)
  <2>1. ex[m].pc = "renew" /\ Save(m, rec, "verify", "drop")
    BY <1>5 DEF Renew, At
  <2>2. QED
    BY <1>1, <2>1, SavesSame DEF LeaveWay
<1>6. CASE Published(m)
  <2>1. ex[m].pc = "published" /\ Save(m, [rec EXCEPT !.phase = "published"], "open", "drop")
    BY <1>6 DEF Published, At
  <2>2. rec.by = m /\ rec' = [rec EXCEPT !.phase = "published"] =>
          rec' \in Records /\ rec'.id = rec.id /\ rec'.cap = rec.cap /\ SavesAs(m, "open")
    BY <2>1, PhaseTo DEF SavesAs, Phases
  <2>3. QED
    BY <1>1, <2>1, <2>2, SavesOrLeaves DEF LeaveWay
<1>7. CASE Keep(m)
  <2>1. ex[m].pc = "keep" /\ Save(m, rec, "rmmeta", "drop")
    BY <1>7 DEF Keep, At
  <2>2. QED
    BY <1>1, <2>1, SavesSame DEF LeaveWay
<1>8. CASE FinishMove(m)
  <2>1. ex[m].pc = "finish" /\ Save(m, [rec EXCEPT !.phase = "complete", !.by = None], "idle", "drop")
    BY <1>8 DEF FinishMove, At
  <2>2. rec.by = m /\ rec' = [rec EXCEPT !.phase = "complete", !.by = None] =>
          rec' \in Records /\ rec'.id = rec.id /\ rec'.cap = rec.cap /\ SavesAs(m, "idle")
    BY <2>1, Types DEF SavesAs, Phases, Records
  <2>3. QED
    BY <1>1, <2>1, <2>2, SavesOrLeaves DEF LeaveWay
<1>9. QED
  BY <1>2, <1>3, <1>4, <1>5, <1>6, <1>7, <1>8

LEMMA SettleUnansweredEffect ==
    ASSUME TypeOK, NEW m \in Movers, SettleUnanswered(m)
    PROVE  Effect
<1>1. /\ Base /\ UNCHANGED <<nb, cat, nextId>> /\ m \in Clients
      /\ ex[m].pc = "settle" /\ rec.by = m /\ lapsed' = FALSE /\ Goto(m, "abort")
  BY FaultsOK, ClientsAre DEF SettleUnanswered, Base, Beside, writeVars, At
<1>2. Moved(m, "abort")
  BY <1>1, GotoMeans, StepsAre DEF Steps
<1>3. rec' \in Records /\ rec'.id = rec.id /\ rec'.cap = rec.cap /\ SavesAs(m, "abort")
  BY <1>1, PhaseTo DEF SettleUnanswered, SavesAs, Phases
<1>4. Saves(m, "abort")
  BY <1>1, <1>2, <1>3 DEF Saves
<1>5. QED
  BY <1>1, <1>4, StepsAre DEF Effect

\* The steps that decide from what they read.
LEMMA GoingSteps ==
    ASSUME TypeOK, NEW m \in Movers, Ready(m) \/ Drain(m) \/ Verify(m)
    PROVE  Effect
<1>1. UNCHANGED <<nb, cat, rec, lapsed, nextId, ws, wr, acked, lifted, late>> /\ faults' = faults /\ m \in Clients
  BY ClientsAre DEF Ready, Drain, Verify, preparing, copying, writeVars
<1> USE StepsAre
<1>2. CASE Ready(m)
  <2>1. PICK s \in {"fence", "abort"} : ex[m].pc = "ready" /\ Goto(m, s)
    BY <1>2 DEF Ready, At
  <2>2. Way(m, s) /\ s \in Steps
    BY <2>1 DEF Way
  <2>3. QED
    BY <1>1, <2>1, <2>2, GoesTo
<1>3. CASE Drain(m)
  <2>1. PICK s \in {"settle", "abort"} : ex[m].pc = "drain" /\ Goto(m, s) /\ (s = "settle" => ws = None)
    BY <1>3 DEF Drain, At
  <2>2. Way(m, s) /\ s \in Steps
    BY <2>1 DEF Way
  <2>3. QED
    BY <1>1, <2>1, <2>2, GoesTo
<1>4. CASE Verify(m)
  <2>1. PICK s \in {"publish", "drop"} :
          /\ ex[m].pc = "verify" /\ Goto(m, s)
          /\ s = "publish" => nb["src"].fence = ex[m].id /\ nb["src"].ver = ex[m].cap.ver
    BY <1>4 DEF Verify, At, MetaUnchanged
  <2>2. Way(m, s) /\ s \in Steps
    BY <2>1 DEF Way
  <2>3. QED
    BY <1>1, <2>1, <2>2, GoesTo
<1>5. QED
  BY <1>2, <1>3, <1>4

LEMMA FenceEffect ==
    ASSUME TypeOK, NEW m \in Movers, Fence(m)
    PROVE  Effect
<1>1. /\ UNCHANGED <<cat, rec, lapsed, nextId, ws, wr, acked, lifted>> /\ faults' = faults
      /\ m \in Clients /\ ex[m].pc = "fence" /\ ex[m].id \in 0..MaxMoves /\ Beside
  BY ClientsAre, Types, FaultsOK DEF Fence, writeVars, At, Requests, Beside
<1>2. ASSUME MetaUnchanged(m), nb' = [nb EXCEPT !["src"].fence = ex[m].id], Goto(m, "drain"),
             late' = IF rec.by = m THEN late ELSE late \union {ex[m].id}
      PROVE  Effect
  <2>1. Moved(m, "drain")
    BY <1>1, <1>2, GotoMeans, StepsAre DEF Steps
  <2>2. FenceTo("src", ex[m].id)
    BY <1>1, <1>2, FenceMeans DEF Projects
  <2>3. Fences(m)
    BY <1>1, <1>2, <2>1, <2>2 DEF Fences, MetaUnchanged
  <2>4. QED
    BY <2>3 DEF Effect
<1>3. ASSUME Goto(m, "abort"), UNCHANGED <<nb, late>>
      PROVE  Effect
  BY <1>1, <1>3, GoesTo, StepsAre DEF Way
<1>4. QED
  BY <1>2, <1>3 DEF Fence

LEMMA CopyFilesEffect ==
    ASSUME TypeOK, NEW m \in Movers, CopyFiles(m)
    PROVE  Effect
<1>1. UNCHANGED <<cat, rec, lapsed, nextId, ws, wr, acked, lifted, late>> /\ faults' = faults /\ m \in Clients /\ ex[m].pc = "copy"
      /\ Base
  BY ClientsAre, FaultsOK DEF CopyFiles, copying, writeVars, At, Base, Beside
<1>2. ASSUME ~nb["dst"].files, Goto(m, "copymeta"),
             nb' = [nb EXCEPT !["dst"].files = TRUE, !["dst"].body = nb["src"].body, !["dst"].code = nb["src"].code]
      PROVE  Effect
  <2> DEFINE x == [nb["dst"] EXCEPT !.files = TRUE, !.body = nb["src"].body, !.code = nb["src"].code]
  <2>1. nb' = [nb EXCEPT !["dst"] = x]
    BY <1>2, Types
  <2>2. x \in Objects /\ x.files = TRUE /\ x.body = nb["src"].body /\ x.meta = nb["dst"].meta /\ x.fence = nb["dst"].fence
    BY Types DEF Objects
  <2> HIDE DEF x
  <2>3. Moved(m, "copymeta")
    BY <1>1, <1>2, GotoMeans, StepsAre DEF Steps
  <2>4. nb' \in [Projects -> Objects] /\ nb'["dst"] = x /\ \A q \in Projects : q # "dst" => nb'[q] = nb[q]
    BY <2>1, <2>2, Types DEF Projects
  <2>5. CopiesFiles(m)
    BY <1>1, <1>2, <2>2, <2>3, <2>4 DEF CopiesFiles, OnlyAt
  <2>6. QED
    BY <2>5 DEF Effect
<1>3. ASSUME UNCHANGED nb, NEW s \in {"copymeta", "drop"}, Goto(m, s),
             s = "copymeta" => (nb["src"].files => nb["dst"].files /\ nb["dst"].body = nb["src"].body)
      PROVE  Effect
  <2>1. Way(m, s) /\ s \in Steps
    BY <1>1, <1>3, StepsAre DEF Way
  <2>2. QED
    BY <1>1, <1>3, <2>1, GoesTo
<1>4. QED
  BY <1>2, <1>3 DEF CopyFiles

LEMMA CopyMetaEffect ==
    ASSUME TypeOK, NEW m \in Movers, CopyMeta(m)
    PROVE  Effect
<1>1. UNCHANGED <<cat, rec, lapsed, nextId, ws, wr, acked, lifted, late>> /\ faults' = faults /\ m \in Clients /\ ex[m].pc = "copymeta"
      /\ Base /\ ex[m].id \in 0..MaxMoves
  BY ClientsAre, FaultsOK, Types DEF CopyMeta, copying, writeVars, At, Base, Beside, Requests
<1>2. ASSUME ~nb["dst"].meta, Goto(m, "renew"),
             nb' = [nb EXCEPT !["dst"].meta = TRUE, !["dst"].fence = ex[m].id,
                              !["dst"].ver = nb["src"].ver, !["dst"].del = nb["src"].del]
      PROVE  Effect
  <2> DEFINE x == [nb["dst"] EXCEPT !.meta = TRUE, !.fence = ex[m].id, !.ver = nb["src"].ver, !.del = nb["src"].del]
  <2>1. nb' = [nb EXCEPT !["dst"] = x]
    BY <1>2, Types
  <2>2. x \in Objects /\ x.meta = TRUE /\ x.fence = ex[m].id /\ x.files = nb["dst"].files /\ x.body = nb["dst"].body
    BY <1>1, Types DEF Objects
  <2> HIDE DEF x
  <2>3. Moved(m, "renew")
    BY <1>1, <1>2, GotoMeans, StepsAre DEF Steps
  <2>4. nb' \in [Projects -> Objects] /\ nb'["dst"] = x /\ \A q \in Projects : q # "dst" => nb'[q] = nb[q]
    BY <2>1, <2>2, Types DEF Projects
  <2>5. CopiesMeta(m)
    BY <1>1, <1>2, <2>2, <2>3, <2>4 DEF CopiesMeta, OnlyAt
  <2>6. QED
    BY <2>5 DEF Effect
<1>3. ASSUME UNCHANGED nb, NEW s \in {"renew", "drop"}, Goto(m, s),
             s = "renew" => (nb["src"].meta => nb["dst"].meta)
      PROVE  Effect
  <2>1. Way(m, s) /\ s \in Steps
    BY <1>1, <1>3, StepsAre DEF Way
  <2>2. QED
    BY <1>1, <1>3, <2>1, GoesTo
<1>4. QED
  BY <1>2, <1>3 DEF CopyMeta

LEMMA PublishEffect ==
    ASSUME TypeOK, NEW m \in Movers, Publish(m)
    PROVE  Effect
<1>1. UNCHANGED <<nb, rec, lapsed, nextId, ws, wr, acked, lifted, late>> /\ faults' = faults /\ m \in Clients /\ ex[m].pc = "publish"
      /\ Base /\ ex[m].id \in 0..MaxMoves
  BY ClientsAre, FaultsOK, Types DEF Publish, copying, writeVars, At, Base, Beside, Requests
<1>2. ASSUME cat.at = "src", cat' = [cat EXCEPT !.at = "dst", !.by = ex[m].id], Goto(m, "published")
      PROVE  Effect
  <2>1. cat' \in Entries /\ cat'.at = "dst" /\ cat'.by = ex[m].id
    BY <1>1, <1>2, Types DEF Entries, Projects
  <2>2. Moved(m, "published")
    BY <1>1, <1>2, GotoMeans, StepsAre DEF Steps
  <2>3. Publishes(m)
    BY <1>1, <1>2, <2>1, <2>2 DEF Publishes
  <2>4. QED
    BY <2>3 DEF Effect
<1>3. ASSUME UNCHANGED cat, NEW s \in {"published", "drop"}, Goto(m, s),
             s = "published" => cat.at = "dst" /\ cat.by = ex[m].id
      PROVE  Effect
  <2>1. Way(m, s) /\ s \in Steps
    BY <1>1, <1>3, StepsAre DEF Way
  <2>2. QED
    BY <1>1, <1>3, <2>1, GoesTo
<1>4. QED
  BY <1>2, <1>3 DEF Publish

LEMMA UnfencesEffect ==
    ASSUME TypeOK, NEW e \in Clients, NEW p \in Projects, NEW step \in Steps, nb' = Unfenced(p, ex[e].id), Goto(e, step),
           UNCHANGED <<cat, rec, lapsed, nextId, ws, wr, acked, late>>, faults' = faults,
           \/ <<p, ex[e].pc, step>> = <<"src", "unfence", "delete">> /\ lifted' = lifted
           \/ <<p, ex[e].pc, step>> = <<"src", "repair", "idle">> /\ Lifts(e)
           \/ <<p, ex[e].pc, step>> = <<"dst", "open", "keep">> /\ lifted' = lifted
    PROVE  Effect
<1>1. Beside /\ Moved(e, step)
  BY FaultsOK, GotoMeans DEF Beside, Steps
<1>2. FenceTo(p, IF nb[p].fence = ex[e].id THEN 0 ELSE nb[p].fence)
  BY UnfencedMeans
<1>3. Unfences(e, p, step)
  BY <1>1, <1>2 DEF Unfences
<1>4. QED
  BY <1>3 DEF Effect

LEMMA OpenEffect ==
    ASSUME TypeOK, NEW m \in Movers, Open(m)
    PROVE  Effect
  BY UnfencesEffect, ClientsAre, StepsAre DEF Open, copying, writeVars, At, Projects

LEMMA RepairEffect ==
    ASSUME TypeOK, NEW c \in Cancellers, Repair(c)
    PROVE  Effect
  BY UnfencesEffect, ClientsAre, StepsAre DEF Repair, Lifts, writeVars, At, Projects

LEMMA RemoveEffect ==
    ASSUME TypeOK, NEW m \in Movers, Remove(m)
    PROVE  Effect
<1>1. UNCHANGED <<cat, rec, lapsed, nextId, ws, wr, acked, lifted, late>> /\ faults' = faults /\ m \in Clients /\ Base
  BY ClientsAre, FaultsOK DEF Remove, copying, writeVars, Base, Beside
<1>2. ASSUME ex[m].pc = "rmmeta", Goto(m, "rmfiles"), nb' = [nb EXCEPT !["src"].meta = FALSE, !["src"].fence = 0]
      PROVE  Effect
  <2> DEFINE x == [nb["src"] EXCEPT !.meta = FALSE, !.fence = 0]
  <2>1. nb' = [nb EXCEPT !["src"] = x]
    BY <1>2, Types
  <2>2. x \in Objects /\ x.meta = FALSE /\ x.fence = 0
    BY Types DEF Objects
  <2> HIDE DEF x
  <2>3. Moved(m, "rmfiles")
    BY <1>1, <1>2, GotoMeans, StepsAre DEF Steps
  <2>4. nb' \in [Projects -> Objects] /\ nb'["src"] = x /\ \A q \in Projects : q # "src" => nb'[q] = nb[q]
    BY <2>1, <2>2, Types DEF Projects
  <2>5. Removes(m)
    BY <1>1, <1>2, <2>2, <2>3, <2>4 DEF Removes, OnlyAt
  <2>6. QED
    BY <2>5 DEF Effect
<1>3. ASSUME ex[m].pc = "rmfiles", Goto(m, "finish"), nb' = [nb EXCEPT !["src"] = NoObjects]
      PROVE  Effect
  <2>1. nb' \in [Projects -> Objects] /\ nb'["src"] = NoObjects /\ \A q \in Projects : q # "src" => nb'[q] = nb[q]
    BY <1>3, Types, Defaults DEF Projects
  <2>2. Moved(m, "finish")
    BY <1>1, <1>3, GotoMeans, StepsAre DEF Steps
  <2>3. Removes(m)
    BY <1>1, <1>3, <2>1, <2>2, Defaults DEF Removes, OnlyAt
  <2>4. QED
    BY <2>3 DEF Effect
<1>4. QED
  BY <1>2, <1>3 DEF Remove, At

LEMMA WipeEffect ==
    ASSUME TypeOK, NEW c \in Cancellers, Wipe(c)
    PROVE  Effect
<1>1. Base /\ UNCHANGED <<cat, rec, lapsed, nextId>> /\ c \in Clients /\ ex[c].pc = "wipe" /\ Goto(c, "unfence")
      /\ nb' = [nb EXCEPT !["dst"] = NoObjects]
  BY ClientsAre, FaultsOK DEF Wipe, copying, writeVars, Base, Beside, At
<1>2. nb' \in [Projects -> Objects] /\ nb'["dst"] = NoObjects /\ \A q \in Projects : q # "dst" => nb'[q] = nb[q]
  BY <1>1, Types, Defaults DEF Projects
<1>3. Moved(c, "unfence")
  BY <1>1, GotoMeans, StepsAre DEF Steps
<1>4. Wipes(c)
  BY <1>1, <1>2, <1>3 DEF Wipes, OnlyAt
<1>5. QED
  BY <1>1, <1>4 DEF Effect

LEMMA ReleaseEffect ==
    ASSUME TypeOK, NEW e \in Clients, Release(e)
    PROVE  Effect
<1>1. UNCHANGED <<cat, nextId, ws, wr, acked, lifted, late>> /\ faults' = faults /\ Base
  BY FaultsOK DEF Release, preparing, writeVars, Base, Beside
<1>2. ASSUME ex[e].pc = "unfence", nb' = Unfenced("src", ex[e].id), Goto(e, "delete"), UNCHANGED <<rec, lapsed>>
      PROVE  Effect
  BY <1>1, <1>2, UnfencesEffect, StepsAre DEF Projects
<1>3. ASSUME ex[e].pc = "delete", rec' = NoMove, lapsed' = FALSE, Goto(e, "idle"), UNCHANGED nb
      PROVE  Effect
  <2>1. Moved(e, "idle")
    BY <1>3, GotoMeans
  <2>2. Deletes(e)
    BY <1>1, <1>3, <2>1 DEF Deletes
  <2>3. QED
    BY <2>2 DEF Effect
<1>4. QED
  BY <1>2, <1>3 DEF Release, At

LEMMA DropEffect ==
    ASSUME TypeOK, NEW e \in Clients, Drop(e)
    PROVE  Effect
<1>1. Base /\ UNCHANGED <<nb, cat, nextId>> /\ ex[e].pc = "drop" /\ lapsed' = (IF rec.by = e THEN FALSE ELSE lapsed)
  BY FaultsOK DEF Drop, preparing, writeVars, Base, Beside, At
<1>2. Moved(e, "idle")
  BY GotoMeans DEF Drop
<1>3. Held(IF rec.by = e THEN None ELSE rec.by)
  <2>1. CASE rec.by = e
    BY <2>1, HeldBy DEF Drop
  <2>2. CASE rec.by # e
    BY <2>2, Types DEF Held, Drop
  <2>3. QED
    BY <2>1, <2>2
<1>4. Drops(e)
  BY <1>1, <1>2, <1>3 DEF Drops
<1>5. QED
  BY <1>4 DEF Effect

LEMMA CancelLeaseEffect ==
    ASSUME TypeOK, NEW c \in Cancellers, CancelLease(c)
    PROVE  Effect
<1> DEFINE x == [ex[c] EXCEPT !.pc = "look", !.id = rec.id]
<1>1. /\ Base /\ UNCHANGED <<nb, cat, nextId>> /\ c \in Clients /\ ex[c] \in Requests /\ ex[c].pc = "idle"
      /\ Pending /\ LeaseFree /\ lapsed' = FALSE
  BY FaultsOK, ClientsAre, Types DEF CancelLease, preparing, writeVars, Base, Beside, At
<1>2. Held(c)
  BY <1>1, HeldBy DEF CancelLease
<1>3. x \in Requests /\ x.pc = "look" /\ x.id = rec.id
  BY <1>1, Types DEF Requests, Records, CancelSteps
<1>4. ex' = [ex EXCEPT ![c] = x]
  BY <1>1, Types DEF CancelLease
<1> HIDE DEF x
<1>5. ex' \in [Clients -> Requests] /\ ex'[c] = x /\ \A f \in Clients : f # c => ex'[f] = ex[f]
  BY <1>1, <1>3, <1>4, Types
<1>6. TakesOver(c)
  BY <1>1, <1>2, <1>3, <1>5 DEF TakesOver
<1>7. QED
  BY <1>1, <1>6 DEF Effect

LEMMA CancelReadEffect ==
    ASSUME TypeOK, NEW c \in Cancellers, CancelRead(c)
    PROVE  Effect
<1> DEFINE x == [ex[c] EXCEPT !.pc = "read", !.id = rec.id]
<1>1. Base /\ UNCHANGED <<nb, cat, rec, lapsed, nextId>> /\ c \in Clients /\ ex[c] \in Requests /\ ex[c].pc = "idle"
  BY FaultsOK, ClientsAre, Types DEF CancelRead, preparing, writeVars, Base, Beside, At
<1>2. x \in Requests /\ x.pc = "read" /\ x.id = rec.id
  BY <1>1, Types DEF Requests, Records, CancelSteps
<1>3. ex' = [ex EXCEPT ![c] = x]
  BY <1>1, Types DEF CancelRead
<1> HIDE DEF x
<1>4. ex' \in [Clients -> Requests] /\ ex'[c] = x /\ \A f \in Clients : f # c => ex'[f] = ex[f]
  BY <1>1, <1>2, <1>3, Types
<1>5. FindsOrphan(c)
  BY <1>1, <1>2, <1>4 DEF FindsOrphan
<1>6. QED
  BY <1>1, <1>5 DEF Effect

LEMMA FindOrphanEffect ==
    ASSUME TypeOK, NEW c \in Cancellers, FindOrphan(c)
    PROVE  Effect
<1> DEFINE x == [ex[c] EXCEPT !.pc = "repair", !.id = nb["src"].fence]
<1>1. /\ UNCHANGED <<nb, cat, rec, lapsed, nextId, ws, wr, acked, lifted, late>> /\ (Fault \/ faults' = faults)
      /\ Base /\ c \in Clients /\ ex[c] \in Requests /\ ex[c].pc = "read"
  <2>1. /\ UNCHANGED <<nb, cat, rec, lapsed, nextId, ws, wr, acked, lifted, late>> /\ (Fault \/ faults' = faults)
        /\ ex[c].pc = "read"
    BY DEF FindOrphan, writeVars, At, NoFault
  <2>2. QED
    BY <2>1, FaultsOK, ClientsAre, Types DEF Base, Beside
<1>2. ASSUME nb["src"].fence # 0, ex' = [ex EXCEPT ![c].pc = "repair", ![c].id = nb["src"].fence]
      PROVE  Effect
  <2>1. x \in Requests /\ x.pc = "repair" /\ x.id = nb["src"].fence
    BY <1>1, Types DEF Requests, Objects, CancelSteps
  <2>2. ex' = [ex EXCEPT ![c] = x]
    BY <1>1, <1>2, Types
  <2> HIDE DEF x
  <2>3. ex' \in [Clients -> Requests] /\ ex'[c] = x /\ \A f \in Clients : f # c => ex'[f] = ex[f]
    BY <1>1, <2>1, <2>2, Types
  <2>4. FindsOrphan(c)
    BY <1>1, <1>2, <2>1, <2>3 DEF FindsOrphan
  <2>5. QED
    BY <1>1, <2>4 DEF Effect
<1>3. ASSUME Goto(c, "idle")
      PROVE  Effect
  BY <1>1, <1>3, GoesTo, StepsAre DEF Way
<1>4. QED
  BY <1>2, <1>3 DEF FindOrphan

LEMMA LookEffect ==
    ASSUME TypeOK, NEW c \in Cancellers, Look(c)
    PROVE  Effect
<1>1. UNCHANGED <<nb, cat, rec, lapsed, nextId, ws, wr, acked, lifted, late>> /\ faults' = faults /\ c \in Clients /\ ex[c].pc = "look"
  BY ClientsAre DEF Look, preparing, writeVars, At
<1>2. PICK s \in {"drop", "wipe"} :
        Goto(c, s) /\ (s = "wipe" => rec.phase # "published" /\ ~(cat.at = "dst" /\ cat.by = ex[c].id))
  BY DEF Look
<1>3. Way(c, s) /\ s \in Steps
  BY <1>1, <1>2, StepsAre DEF Way
<1>4. QED
  BY <1>1, <1>2, <1>3, GoesTo

LEMMA FailureEffect ==
    ASSUME TypeOK, NEW e \in Clients, RequestFails(e) \/ Dies(e)
    PROVE  Effect
<1>1. CASE RequestFails(e)
  <2>1. UNCHANGED <<nb, cat, rec, lapsed, nextId, ws, wr, acked, lifted, late>> /\ Fault
    BY <1>1 DEF RequestFails, writeVars
  <2>2. PICK s \in {"abort", "drop"} : Goto(e, s) /\ s = IF ex[e].pc \in BeforeCopy THEN "abort" ELSE "drop"
    BY <1>1 DEF RequestFails
  <2>3. ex[e].pc \notin {"idle", "lease", "read", "repair", "abort", "drop"}
    BY <1>1 DEF RequestFails, InRelease, MoveSteps, CancelSteps
  <2>4. Way(e, s) /\ s \in Steps
    BY <2>2, <2>3, StepsAre DEF Way
  <2>5. QED
    BY <2>1, <2>2, <2>4, GoesTo
<1>2. CASE Dies(e)
  <2>1. Base /\ UNCHANGED <<nb, cat, lapsed, nextId>> /\ ex[e].pc # "idle" /\ Goto(e, "idle")
    BY <1>2, FaultsOK DEF Dies, writeVars, Base, Beside, At
  <2>2. Moved(e, "idle")
    BY <2>1, GotoMeans
  <2>3. Held(IF rec.by = e THEN Ghost ELSE rec.by)
    <3>1. CASE rec.by = e
      BY <1>2, <3>1, HeldBy DEF Dies
    <3>2. CASE rec.by # e
      BY <1>2, <3>2, Types DEF Held, Dies
    <3>3. QED
      BY <3>1, <3>2
  <2>4. Leaves(e, "idle")
    BY <2>1, <2>2, <2>3 DEF Leaves, LeaveWay
  <2>5. QED
    BY <2>4, StepsAre DEF Effect
<1>3. QED
  BY <1>1, <1>2

LEMMA LapsesEffect ==
    ASSUME TypeOK, LeaseLapses
    PROVE  Effect
<1>1. faults' \in 0..MaxFaults
  BY FaultsOK DEF LeaseLapses, NoFault
<1>2. Lapses
  BY <1>1 DEF LeaseLapses, Lapses, Base, Beside, writeVars
<1>3. QED
  BY <1>2 DEF Effect

LEMMA DoesMeans ==
    ASSUME TypeOK, NEW w \in Writers, NEW step \in WriteSteps, Does(w, step)
    PROVE  Did(w, step)
<1> DEFINE x == [wr[w] EXCEPT !.pc = step]
<1>1. wr \in [Writers -> Writes] /\ wr[w] \in Writes
  BY Types
<1>2. wr' = [wr EXCEPT ![w] = x]
  BY <1>1 DEF Does
<1>3. x \in Writes /\ x.pc = step /\ x.kind = wr[w].kind /\ x.at = wr[w].at /\ x.lost = wr[w].lost
  BY <1>1 DEF Writes
<1> HIDE DEF x
<1>4. QED
  BY <1>1, <1>2, <1>3 DEF Did

LEMMA WriterSteps ==
    /\ {"idle", "lease", "check", "meta", "put", "free", "admit", "recheck", "commit", "save", "bump", "end", "entry",
        "over"} = WriteSteps
    /\ \A w \in Writers : w # None /\ w # Ghost
  BY MoveAssumption DEF WriteSteps

LEMMA GoesWriting ==
    ASSUME TypeOK, NEW w \in Writers, NEW step \in WriteSteps, Does(w, step), WriterWay(w, step),
           UNCHANGED <<nb, rec, lapsed, nextId, ex, acked, lifted, late>>, cat' = cat, faults' = faults \/ Fault
    PROVE  WriteEffect
<1>1. WBase
  BY FaultsOK DEF WBase
<1>2. Did(w, step)
  BY DoesMeans
<1>3. WriterGoes(w, step)
  BY <1>1, <1>2, Types DEF WriterGoes
<1>4. QED
  BY <1>3 DEF WriteEffect

LEMMA BumpMeans ==
    ASSUME TypeOK, NEW p \in Projects, NEW d \in BOOLEAN,
           \/ nb' = [nb EXCEPT ![p].ver = @ + 1, ![p].del = d]
           \/ nb' = [nb EXCEPT ![p].ver = @ + 1]
    PROVE  Bumped(p)
<1>1. nb \in [Projects -> Objects] /\ nb[p] \in Objects
  BY Types
<1>2. nb[p].ver + 1 \in Nat
  BY <1>1 DEF Objects
<1>3. ASSUME NEW x \in Objects, nb' = [nb EXCEPT ![p] = x], x.ver = nb[p].ver + 1, x.meta = nb[p].meta,
             x.fence = nb[p].fence, x.files = nb[p].files, x.body = nb[p].body
      PROVE  Bumped(p)
  BY <1>1, <1>3 DEF Bumped
<1>4. CASE nb' = [nb EXCEPT ![p].ver = @ + 1, ![p].del = d]
  <2> DEFINE x == [nb[p] EXCEPT !.ver = nb[p].ver + 1, !.del = d]
  <2>1. nb' = [nb EXCEPT ![p] = x]
    BY <1>1, <1>4
  <2>2. /\ x \in Objects /\ x.ver = nb[p].ver + 1 /\ x.meta = nb[p].meta
        /\ x.fence = nb[p].fence /\ x.files = nb[p].files /\ x.body = nb[p].body
    BY <1>1, <1>2 DEF Objects
  <2> HIDE DEF x
  <2>3. QED
    BY <1>3, <2>1, <2>2
<1>5. CASE nb' = [nb EXCEPT ![p].ver = @ + 1]
  <2> DEFINE x == [nb[p] EXCEPT !.ver = nb[p].ver + 1]
  <2>1. nb' = [nb EXCEPT ![p] = x]
    BY <1>1, <1>5
  <2>2. /\ x \in Objects /\ x.ver = nb[p].ver + 1 /\ x.meta = nb[p].meta
        /\ x.fence = nb[p].fence /\ x.files = nb[p].files /\ x.body = nb[p].body
    BY <1>1, <1>2 DEF Objects
  <2> HIDE DEF x
  <2>3. QED
    BY <1>3, <2>1, <2>2
<1>6. QED
  BY <1>4, <1>5

LEMMA PutObjects ==
    ASSUME NEW p \in Projects, NEW x \in Objects, nb \in [Projects -> Objects], nb' = [nb EXCEPT ![p] = x]
    PROVE  nb' \in [Projects -> Objects] /\ nb'[p] = x /\ \A q \in Projects : q # p => nb'[q] = nb[q]
  OBVIOUS

LEMMA FillMeans ==
    ASSUME TypeOK, NEW p \in Projects, NEW w \in Writers, NEW c \in Writers \union {None},
           nb' = [nb EXCEPT ![p].files = TRUE, ![p].body = @ \union {w}, ![p].code = c]
    PROVE  Filled(p, w)
<1> DEFINE x == [nb[p] EXCEPT !.files = TRUE, !.body = nb[p].body \union {w}, !.code = c]
<1>1. nb \in [Projects -> Objects] /\ nb[p] \in Objects
  BY Types
<1>2. nb' = [nb EXCEPT ![p] = x]
  BY <1>1
<1>3. nb[p].body \union {w} \in SUBSET Writers
  BY <1>1 DEF Objects
<1>4. /\ x \in Objects /\ x.files = TRUE /\ x.body = nb[p].body \union {w} /\ x.meta = nb[p].meta
      /\ x.fence = nb[p].fence /\ x.ver = nb[p].ver
  BY <1>1, <1>3 DEF Objects
<1> HIDE DEF x
<1>5. nb' \in [Projects -> Objects] /\ nb'[p] = x /\ \A q \in Projects : q # p => nb'[q] = nb[q]
  BY <1>1, <1>2, <1>4, PutObjects, Zenon
<1>6. QED
  BY <1>4, <1>5 DEF Filled

LEMMA ArriveEffect ==
    ASSUME TypeOK, NEW w \in Writers, Arrive(w)
    PROVE  WriteEffect
<1>1. WBase /\ UNCHANGED <<nb, cat, ws, acked>> /\ wr[w].pc = "idle"
  BY FaultsOK DEF Arrive, WBase, moveVars, Doing
<1>2. PICK k \in Kinds, p \in Projects :
        /\ Readable(p)
        /\ wr' = [wr EXCEPT ![w] = [pc |-> CASE k = "session" -> "admit"
                                             [] k = "delete" -> "meta"
                                             [] OTHER -> "lease",
                                    kind |-> k, at |-> p, lost |-> FALSE]]
  BY DEF Arrive
<1>3. PICK s \in {"admit", "meta", "lease"} :
        /\ s = CASE k = "session" -> "admit" [] k = "delete" -> "meta" [] OTHER -> "lease"
        /\ (s = "meta" => k = "delete") /\ (s = "lease" => k \in {"save", "file"})
  BY MoveAssumption
<1> DEFINE x == [pc |-> s, kind |-> k, at |-> p, lost |-> FALSE]
<1>4. x \in Writes /\ x.pc = s /\ x.kind = k /\ x.at = p /\ x.lost = FALSE
  BY WriterSteps DEF Writes
<1>5. wr' = [wr EXCEPT ![w] = x]
  BY <1>2, <1>3
<1> HIDE DEF x
<1>6. wr' \in [Writers -> Writes] /\ wr'[w] = x /\ \A v \in Writers : v # w => wr'[v] = wr[v]
  BY <1>4, <1>5, Types
<1>7. Arrives(w)
  BY <1>1, <1>2, <1>3, <1>4, <1>6 DEF Arrives
<1>8. QED
  BY <1>7 DEF WriteEffect

LEMMA WriterGoesEffect ==
    ASSUME TypeOK, NEW w \in Writers,
           \/ AcquireWorkspace(w) \/ CheckNotebook(w) \/ FreeWorkspace(w) \/ AdmitSession(w) \/ RecheckSession(w)
           \/ EndSession(w) \/ WriterDies(w)
    PROVE  WriteEffect
<1>1. UNCHANGED <<nb, rec, lapsed, nextId, ex, acked, lifted, late>> /\ cat' = cat /\ (faults' = faults \/ Fault)
  BY DEF AcquireWorkspace, CheckNotebook, FreeWorkspace, AdmitSession, RecheckSession, EndSession,
     WriterDies, moveVars
<1>2. PICK s \in WriteSteps : Does(w, s) /\ WriterWay(w, s)
  <2> USE WriterSteps
  <2>1. CASE AcquireWorkspace(w)
    BY <2>1 DEF AcquireWorkspace, WriterWay, Doing
  <2>2. CASE CheckNotebook(w)
    BY <2>2 DEF CheckNotebook, WriterWay, Doing
  <2>3. CASE FreeWorkspace(w)
    BY <2>3 DEF FreeWorkspace, WriterWay, Doing
  <2>4. CASE AdmitSession(w)
    BY <2>4 DEF AdmitSession, WriterWay, Doing
  <2>5. CASE RecheckSession(w)
    BY <2>5 DEF RecheckSession, WriterWay, Doing
  <2>6. CASE EndSession(w)
    BY <2>6 DEF EndSession, WriterWay, Doing
  <2>7. CASE WriterDies(w)
    BY <2>7 DEF WriterDies, WriterWay
  <2>8. QED
    BY <2>1, <2>2, <2>3, <2>4, <2>5, <2>6, <2>7
<1>3. QED
  BY <1>1, <1>2, GoesWriting

LEMMA WriteMetaEffect ==
    ASSUME TypeOK, NEW w \in Writers, WriteMeta(w)
    PROVE  WriteEffect
<1>1. /\ UNCHANGED <<rec, lapsed, nextId, ex, acked, ws, cat, lifted, late>> /\ faults' = faults /\ wr[w].pc = "meta" /\ WBase
      /\ wr[w].at \in Projects
  BY FaultsOK, Types DEF WriteMeta, moveVars, Doing, WBase, Writes
<1>2. ASSUME Readable(wr[w].at), ~wr[w].lost,
             nb' = [nb EXCEPT ![wr[w].at].ver = @ + 1, ![wr[w].at].del = wr[w].kind = "delete"],
             Does(w, IF wr[w].kind = "delete" THEN "entry" ELSE "put")
      PROVE  WriteEffect
  <2>1. Bumped(wr[w].at)
    BY <1>1, <1>2, BumpMeans
  <2>2. Did(w, IF wr[w].kind = "delete" THEN "entry" ELSE "put")
    BY <1>2, DoesMeans, WriterSteps
  <2>3. WritesMeta(w)
    BY <1>1, <1>2, <2>1, <2>2 DEF WritesMeta
  <2>4. QED
    BY <2>3 DEF WriteEffect
<1>3. ASSUME Does(w, IF wr[w].kind = "delete" THEN "over" ELSE "free"), UNCHANGED nb
      PROVE  WriteEffect
  <2>1. PICK s \in WriteSteps : Does(w, s) /\ WriterWay(w, s)
    BY <1>1, <1>3, WriterSteps DEF WriterWay
  <2>2. QED
    BY <1>1, <1>3, <2>1, GoesWriting
<1>4. QED
  BY <1>2, <1>3 DEF WriteMeta

LEMMA WriteFilesEffect ==
    ASSUME TypeOK, NEW w \in Writers, WriteFiles(w)
    PROVE  WriteEffect
<1>1. /\ UNCHANGED <<rec, lapsed, nextId, ex, ws, cat, lifted, late>> /\ faults' = faults /\ wr[w].pc = "put" /\ WBase
      /\ wr[w].at \in Projects
  BY FaultsOK, Types DEF WriteFiles, moveVars, Doing, WBase, Writes
<1>2. ASSUME wr' = [wr EXCEPT ![w].pc = "free"], acked' = IF wr[w].lost THEN acked ELSE acked \union {w},
             nb' = [nb EXCEPT ![wr[w].at].files = TRUE, ![wr[w].at].body = @ \union {w},
                              ![wr[w].at].code = IF wr[w].kind = "save" THEN w ELSE @]
      PROVE  WriteEffect
  <2>1. PICK c \in Writers \union {None} :
          nb' = [nb EXCEPT ![wr[w].at].files = TRUE, ![wr[w].at].body = @ \union {w}, ![wr[w].at].code = c]
    <3>1. CASE wr[w].kind = "save"
      BY <1>2, <3>1
    <3>2. CASE wr[w].kind # "save"
      <4>1. nb[wr[w].at].code \in Writers \union {None} /\ nb \in [Projects -> Objects] /\ nb[wr[w].at] \in Objects
        BY <1>1, Types DEF Objects
      <4>2. QED
        BY <1>1, <1>2, <3>2, <4>1 DEF Objects
    <3>3. QED
      BY <3>1, <3>2
  <2>2. Filled(wr[w].at, w)
    BY <1>1, <2>1, FillMeans
  <2>3. Did(w, "free")
    BY <1>2, DoesMeans, WriterSteps DEF Does
  <2>4. WritesFiles(w)
    BY <1>1, <1>2, <2>2, <2>3 DEF WritesFiles
  <2>5. QED
    BY <2>4 DEF WriteEffect
<1>3. ASSUME Does(w, "free"), UNCHANGED <<nb, acked>>
      PROVE  WriteEffect
  BY <1>1, <1>3, GoesWriting, WriterSteps DEF WriterWay
<1>4. QED
  BY <1>2, <1>3 DEF WriteFiles

LEMMA CommitSessionEffect ==
    ASSUME TypeOK, NEW w \in Writers, CommitSession(w)
    PROVE  WriteEffect
<1>1. /\ UNCHANGED <<rec, lapsed, nextId, ex, ws, cat, lifted, late>> /\ faults' = faults /\ WBase /\ wr[w].at \in Projects
  BY FaultsOK, Types DEF CommitSession, moveVars, WBase, Writes
<1>2. ASSUME NEW s \in {"save", "end"}, Does(w, s), UNCHANGED <<nb, acked>>
      PROVE  WriteEffect
  <2>1. WriterWay(w, s) /\ s \in WriteSteps
    BY <1>1, <1>2, WriterSteps DEF WriterWay
  <2>2. QED
    BY <1>1, <1>2, <2>1, GoesWriting
<1>3. ASSUME wr[w].pc = "save", Does(w, "bump"), UNCHANGED acked,
             nb' = [nb EXCEPT ![wr[w].at].files = TRUE, ![wr[w].at].body = @ \union {w}, ![wr[w].at].code = w]
      PROVE  WriteEffect
  <2>1. Filled(wr[w].at, w)
    BY <1>1, <1>3, FillMeans
  <2>2. Did(w, "bump")
    BY <1>3, DoesMeans, WriterSteps
  <2>3. SessionSaves(w)
    BY <1>1, <1>3, <2>1, <2>2 DEF SessionSaves
  <2>4. QED
    BY <2>3 DEF WriteEffect
<1>4. ASSUME wr[w].pc = "bump", Does(w, "end"), Readable(wr[w].at), acked' = acked \union {w},
             nb' = [nb EXCEPT ![wr[w].at].ver = @ + 1]
      PROVE  WriteEffect
  <2>1. Bumped(wr[w].at)
    BY <1>1, <1>4, BumpMeans
  <2>2. Did(w, "end")
    BY <1>4, DoesMeans, WriterSteps
  <2>3. SessionBumps(w)
    BY <1>1, <1>4, <2>1, <2>2 DEF SessionBumps
  <2>4. QED
    BY <2>3 DEF WriteEffect
<1>5. QED
  <2>1. CASE Doing(w, "commit") /\ Does(w, IF Readable(wr[w].at) /\ ~Here(w).del THEN "save" ELSE "end") /\ UNCHANGED <<nb, acked>>
    BY <1>2, <2>1
  <2>2. CASE Doing(w, "save")
    BY <1>3, <2>2 DEF CommitSession, Doing
  <2>3. CASE Doing(w, "bump")
    BY <1>2, <1>4, <2>3 DEF CommitSession, Doing
  <2>4. QED
    BY <2>1, <2>2, <2>3 DEF CommitSession

LEMMA DeleteEntryEffect ==
    ASSUME TypeOK, NEW w \in Writers, DeleteEntry(w)
    PROVE  WriteEffect
<1>1. UNCHANGED <<nb, acked>> /\ ws' = ws /\ WBase
  BY FaultsOK DEF DeleteEntry, WBase
<1>2. cat' \in Entries /\ cat'.at = cat.at /\ cat'.by = cat.by
  BY Types DEF DeleteEntry, Entries
<1>3. Did(w, "over")
  BY DoesMeans, WriterSteps DEF DeleteEntry
<1>4. WriterGoes(w, "over")
  BY <1>1, <1>2, <1>3 DEF WriterGoes, WriterWay
<1>5. QED
  BY <1>4, WriterSteps DEF WriteEffect

LEMMA WorkspaceLapsesEffect ==
    ASSUME TypeOK, WorkspaceLapses
    PROVE  WriteEffect
<1>1. WBase /\ UNCHANGED <<nb, cat, acked>> /\ ws' = None
  BY FaultsOK DEF WorkspaceLapses, WBase, moveVars, NoFault
<1>2. CASE ws = Ghost /\ UNCHANGED wr
  <2>1. \A v \in Writers : v # ws /\ wr[v].lost \in BOOLEAN
    BY <1>2, WriterSteps, Types DEF Writes
  <2>2. \A v \in Writers : wr'[v].lost = (wr[v].lost \/ v = ws)
    BY <1>2, <2>1
  <2>3. LosesWorkspace
    BY <1>1, <1>2, <2>2, Types DEF LosesWorkspace
  <2>4. QED
    BY <2>3 DEF WriteEffect
<1>3. CASE ws \in Writers /\ wr' = [wr EXCEPT ![ws].lost = TRUE]
  <2> DEFINE x == [wr[ws] EXCEPT !.lost = TRUE]
  <2>1. wr \in [Writers -> Writes] /\ wr[ws] \in Writes
    BY <1>3, Types
  <2>2. wr' = [wr EXCEPT ![ws] = x]
    BY <1>3, <2>1
  <2>3. x \in Writes /\ x.pc = wr[ws].pc /\ x.kind = wr[ws].kind /\ x.at = wr[ws].at /\ x.lost = TRUE
    BY <2>1 DEF Writes
  <2> HIDE DEF x
  <2>4. wr' \in [Writers -> Writes] /\ wr'[ws] = x /\ \A v \in Writers : v # ws => wr'[v] = wr[v]
    BY <1>3, <2>1, <2>2, <2>3
  <2>5. \A v \in Writers : wr[v].lost \in BOOLEAN
    BY <2>1 DEF Writes
  <2>6. \A v \in Writers : wr'[v].lost = (wr[v].lost \/ v = ws)
    BY <2>3, <2>4, <2>5
  <2>7. LosesWorkspace
    BY <1>1, <2>3, <2>4, <2>6 DEF LosesWorkspace
  <2>8. QED
    BY <2>7 DEF WriteEffect
<1>4. QED
  BY <1>2, <1>3 DEF WorkspaceLapses

LEMMA StepEffect ==
    ASSUME TypeOK, Next
    PROVE  Effect \/ WriteEffect
<1>1. ASSUME NEW m \in Movers, Post(m) \/ MoveStep(m) \/ SettleUnanswered(m)
      PROVE  Effect
  BY <1>1, PostEffect, TakeLeaseEffect, SavingSteps, SettleUnansweredEffect, GoingSteps,
     FenceEffect, CopyFilesEffect,
     CopyMetaEffect, PublishEffect, OpenEffect, RemoveEffect DEF MoveStep
<1>2. ASSUME NEW c \in Cancellers, CancelLease(c) \/ CancelStep(c)
      PROVE  Effect
  BY <1>2, CancelLeaseEffect, CancelReadEffect, FindOrphanEffect, LookEffect, WipeEffect, RepairEffect DEF CancelStep
<1>3. ASSUME NEW e \in Clients, ClientStep(e) \/ RequestFails(e) \/ Dies(e)
      PROVE  Effect
  BY <1>3, ReleaseEffect, DropEffect, FailureEffect DEF ClientStep
<1>4. ASSUME NEW w \in Writers, Arrive(w) \/ WriteStep(w) \/ WriterDies(w)
      PROVE  WriteEffect
  BY <1>4, ArriveEffect, WriterGoesEffect, WriteMetaEffect, WriteFilesEffect, CommitSessionEffect,
     DeleteEntryEffect
     DEF WriteStep
<1>5. QED
  BY <1>1, <1>2, <1>3, <1>4, LapsesEffect, WorkspaceLapsesEffect DEF Next

-----------------------------------------------------------------------------
(* Preservation. *)

LEMMA WritesAre ==
    ASSUME TypeOK, WriteEffect
    PROVE  WriterChange
<1>1. CASE LosesWorkspace
  BY <1>1, Types DEF LosesWorkspace, WBase, WriterChange
<1>2. ASSUME NEW w \in Writers, Arrives(w)
      PROVE  WriterChange
  BY <1>2, Types DEF Arrives, WBase, WriterChange
<1>3. ASSUME NEW w \in Writers, WritesMeta(w) \/ SessionBumps(w)
      PROVE  WriterChange
  <2>1. acked' \subseteq Writers
    BY <1>3, Types DEF WritesMeta, SessionBumps
  <2>2. QED
    BY <1>3, <2>1, Types DEF WritesMeta, SessionBumps, WBase, Did, Bumped, WriterChange
<1>4. ASSUME NEW w \in Writers, WritesFiles(w) \/ SessionSaves(w)
      PROVE  WriterChange
  <2>1. acked' \subseteq Writers
    BY <1>4, Types DEF WritesFiles, SessionSaves
  <2>2. QED
    BY <1>4, <2>1, Types DEF WritesFiles, SessionSaves, WBase, Did, Filled, WriterChange
<1>5. ASSUME NEW w \in Writers, NEW s \in WriteSteps, WriterGoes(w, s)
      PROVE  WriterChange
  BY <1>5, Types DEF WriterGoes, WriterWay, WBase, Did, WriterChange
<1>6. QED
  BY <1>1, <1>2, <1>3, <1>4, <1>5 DEF WriteEffect

\* Every variable keeps its type.
TypesHold ==
    /\ nb \in [Projects -> Objects] /\ cat \in Entries /\ rec \in Records /\ lapsed \in BOOLEAN
    /\ ex \in [Clients -> Requests] /\ wr \in [Writers -> Writes] /\ acked \subseteq Writers
    /\ ws \in Writers \union {None, Ghost} /\ nextId \in 1..MaxMoves + 1 /\ faults \in 0..MaxFaults
    /\ lifted \subseteq 0..MaxMoves /\ late \subseteq 0..MaxMoves

LEMMA TypesAre == TypeOK <=> TypesHold
  BY DEF TypesHold, TypeOK, Entries, Records, Requests, Writes

LEMMA TypesKept ==
    ASSUME TypeOK, Effect \/ WriterChange
    PROVE  TypesHold'
<1> USE Types
<1>0. nextId \in Ids => nextId + 1 \in 1..MaxMoves + 1
  BY MoveAssumption DEF Ids
<1>1. CASE WriterChange
  BY <1>1 DEF WriterChange, TypesHold, Base, Beside
<1>2. CASE Lapses
  BY <1>2 DEF Lapses, TypesHold, Base, Beside
<1>3. ASSUME NEW m \in Movers, Posts(m)
      PROVE  TypesHold'
  BY <1>3 DEF Posts, TypesHold, Base, Beside
<1>4. ASSUME NEW m \in Movers, Creates(m)
      PROVE  TypesHold'
  BY <1>4, <1>0 DEF Creates, TypesHold, Base, Beside
<1>5. ASSUME NEW m \in Movers, Fences(m)
      PROVE  TypesHold'
  <2>1. late' \subseteq 0..MaxMoves
    BY <1>5, ClientsAre DEF Fences, Requests
  <2>2. QED
    BY <1>5, <2>1 DEF Fences, Moved, FenceTo, TypesHold, Base, Beside
<1>6. ASSUME NEW m \in Movers, CopiesFiles(m)
      PROVE  TypesHold'
  BY <1>6 DEF CopiesFiles, Moved, OnlyAt, TypesHold, Base, Beside
<1>7. ASSUME NEW m \in Movers, CopiesMeta(m)
      PROVE  TypesHold'
  BY <1>7 DEF CopiesMeta, Moved, OnlyAt, TypesHold, Base, Beside
<1>8. ASSUME NEW m \in Movers, Publishes(m)
      PROVE  TypesHold'
  BY <1>8 DEF Publishes, Moved, TypesHold, Base, Beside
<1>9. ASSUME NEW m \in Movers, Removes(m)
      PROVE  TypesHold'
  BY <1>9 DEF Removes, Moved, OnlyAt, TypesHold, Base, Beside
<1>10. ASSUME NEW e \in Clients, TakesOver(e)
      PROVE  TypesHold'
  BY <1>10 DEF TakesOver, Held, LeaseFree, Resume, Pending, TypesHold, Base, Beside
<1>11. ASSUME NEW e \in Clients, FindsOrphan(e)
      PROVE  TypesHold'
  BY <1>11 DEF FindsOrphan, TypesHold, Base, Beside
<1>12. ASSUME NEW e \in Clients, Drops(e)
      PROVE  TypesHold'
  BY <1>12 DEF Drops, Moved, Held, TypesHold, Base, Beside
<1>13. ASSUME NEW e \in Clients, Deletes(e)
      PROVE  TypesHold'
  BY <1>13, Defaults DEF Deletes, Moved, TypesHold, Base, Beside
<1>14. ASSUME NEW e \in Clients, Wipes(e)
      PROVE  TypesHold'
  BY <1>14 DEF Wipes, Moved, OnlyAt, TypesHold, Base, Beside
<1>15. ASSUME NEW e \in Clients, NEW s \in Steps, Goes(e, s)
      PROVE  TypesHold'
  BY <1>15 DEF Goes, Moved, Way, TypesHold, Base, Beside
<1>16. ASSUME NEW e \in Clients, NEW s \in Steps, Saves(e, s)
      PROVE  TypesHold'
  BY <1>16 DEF Saves, Moved, SavesAs, TypesHold, Base, Beside
<1>17. ASSUME NEW e \in Clients, NEW s \in Steps, Leaves(e, s)
      PROVE  TypesHold'
  BY <1>17 DEF Leaves, Moved, LeaveWay, Held, TypesHold, Base, Beside
<1>18. ASSUME NEW e \in Clients, NEW p \in Projects, NEW s \in Steps, Unfences(e, p, s)
      PROVE  TypesHold'
  <2>1. lifted' \subseteq 0..MaxMoves
    BY <1>18 DEF Unfences, Lifts, Requests
  <2>2. QED
    BY <1>18, <2>1 DEF Unfences, Moved, FenceTo, TypesHold, Base, Beside
<1>19. QED
  BY <1>1, <1>2, <1>3, <1>4, <1>5, <1>6, <1>7, <1>8, <1>9, <1>10, <1>11, <1>12, <1>13, <1>14,
     <1>15, <1>16, <1>17, <1>18 DEF Effect

LEMMA Values ==
    ASSUME TypeOK
    PROVE  /\ rec.id \in Nat /\ nextId \in Nat /\ cat.by \in Nat
           /\ \A e \in Clients : ex[e].id \in Nat
           /\ nb["src"].fence \in Nat /\ nb["dst"].fence \in Nat
           /\ Projects = {"src", "dst"} /\ "src" # "dst" /\ cat.at \in {"src", "dst"}
<1>1. 0..MaxMoves \subseteq Nat
  BY Types
<1>2. rec.id \in 0..MaxMoves /\ cat.by \in 0..MaxMoves /\ cat.at \in Projects
  BY Types DEF Records, Entries
<1>3. \A e \in Clients : ex[e].id \in 0..MaxMoves
  BY Types DEF Requests
<1>4. nb["src"].fence \in 0..MaxMoves /\ nb["dst"].fence \in 0..MaxMoves
  BY Types DEF Objects
<1>5. QED
  BY <1>1, <1>2, <1>3, <1>4, Types DEF Projects

-----------------------------------------------------------------------------
(* Where the notebook can be read. *)

\* The record names a client that runs the move or the cancel of this record; in the steps of
\* Sure it cannot have lost its lease.
Sure == {"verify", "publish", "rmmeta", "unfence", "delete", "look", "wipe"}
LeaseInv ==
    /\ rec.by \in Clients => /\ Pending /\ ex[rec.by].id = rec.id
                             /\ ex[rec.by].pc \notin {"idle", "lease", "read", "repair"}
                             /\ lapsed => ex[rec.by].pc \in LongSteps \union {"abort", "drop"}
    /\ \A e \in Clients : ex[e].pc \in Sure => rec.by = e

\* Ids are given out once.
IdInv ==
    /\ rec.id < nextId /\ (rec.id = 0 <=> rec.phase = "none")
    /\ \A p \in Projects : nb[p].fence < nextId
    /\ \A e \in Clients : /\ ex[e].id < nextId
                          /\ ex[e].pc \notin {"idle", "lease", "read"} => ex[e].id # 0

\* The catalog, the phase of the record and the step of its executor agree.
AfterPublication == {"published", "open", "keep", "rmmeta", "rmfiles", "finish"}
Copies == {"copy", "copymeta", "renew", "verify", "publish"}
PhaseInv ==
    /\ cat.at = "dst" => rec.id = cat.by /\ rec.phase \in {"copying", "published", "complete"}
    /\ rec.phase \in {"published", "complete"} => cat.at = "dst"
    /\ \A e \in Clients : ex[e].pc \in AfterPublication => cat.at = "dst" /\ cat.by = ex[e].id
    /\ \A e \in Clients : ex[e].pc \in AfterPublication \ {"published"} => rec.phase \in {"published", "complete"}
    /\ rec.by \in Clients =>
         /\ ex[rec.by].pc \in BeforeCopy \union {"abort", "unfence", "delete", "wipe"} => cat.at = "src"
         /\ ex[rec.by].pc \in BeforeCopy => rec.phase = "preparing"
         /\ ex[rec.by].pc \in Copies => rec.phase = "copying"

\* The source is hidden from before the publication on, unless a cancel lifted its fence,
\* and the copy until then.
FenceInv ==
    /\ cat.at = "dst" /\ nb["src"].meta /\ cat.by \notin lifted => nb["src"].fence = cat.by
    /\ cat.at = "src" /\ nb["dst"].meta => nb["dst"].fence # 0
    /\ \A e \in Clients : ex[e].pc = "publish" /\ ex[e].id \notin lifted => nb["src"].fence = ex[e].id

\* What is listed is there, and what will be listed was copied.
Whole(p) == nb[p].meta /\ nb[p].files
WholeInv ==
    /\ Whole(cat.at)
    /\ rec.by \in Clients => /\ ex[rec.by].pc \in Copies \ {"copy"} => nb["dst"].files
                             /\ ex[rec.by].pc \in {"renew", "verify", "publish"} => nb["dst"].meta

PlaceInv == LeaseInv /\ IdInv /\ PhaseInv /\ FenceInv /\ WholeInv


LEMMA LeaseKept ==
    ASSUME TypeOK, LeaseInv, Effect \/ WriterChange
    PROVE  LeaseInv'
<1> USE Types, Values, ClientsAre
<1>1. CASE WriterChange
  BY <1>1 DEF WriterChange, LeaseInv, Pending, LongSteps, Sure, BeforeCopy
<1>2. CASE Lapses
  BY <1>2 DEF Lapses, LeaseInv, Pending, LongSteps, Sure, BeforeCopy
<1>3. ASSUME NEW m \in Movers, Posts(m)
      PROVE  LeaseInv'
  BY <1>3 DEF Posts, LeaseInv, Pending, LongSteps, Sure, BeforeCopy
<1>4. ASSUME NEW m \in Movers, Creates(m)
      PROVE  LeaseInv'
  BY <1>4 DEF Creates, LeaseInv, Pending, LongSteps, Sure, BeforeCopy
<1>5. ASSUME NEW m \in Movers, Fences(m)
      PROVE  LeaseInv'
  BY <1>5 DEF Fences, Moved, FenceTo, LeaseInv, Pending, LongSteps, Sure, BeforeCopy
<1>6. ASSUME NEW m \in Movers, CopiesFiles(m)
      PROVE  LeaseInv'
  BY <1>6 DEF CopiesFiles, Moved, OnlyAt, LeaseInv, Pending, LongSteps, Sure, BeforeCopy
<1>7. ASSUME NEW m \in Movers, CopiesMeta(m)
      PROVE  LeaseInv'
  BY <1>7 DEF CopiesMeta, Moved, OnlyAt, LeaseInv, Pending, LongSteps, Sure, BeforeCopy
<1>8. ASSUME NEW m \in Movers, Publishes(m)
      PROVE  LeaseInv'
  BY <1>8 DEF Publishes, Moved, LeaseInv, Pending, LongSteps, Sure, BeforeCopy
<1>9. ASSUME NEW m \in Movers, Removes(m)
      PROVE  LeaseInv'
  BY <1>9 DEF Removes, Moved, OnlyAt, LeaseInv, Pending, LongSteps, Sure, BeforeCopy
<1>10. ASSUME NEW e \in Clients, TakesOver(e)
      PROVE  LeaseInv'
  BY <1>10 DEF TakesOver, Held, LeaseFree, Resume, Pending, LeaseInv, LongSteps, Sure, BeforeCopy
<1>11. ASSUME NEW e \in Clients, FindsOrphan(e)
      PROVE  LeaseInv'
  BY <1>11 DEF FindsOrphan, LeaseInv, Pending, LongSteps, Sure, BeforeCopy
<1>12. ASSUME NEW e \in Clients, Drops(e)
      PROVE  LeaseInv'
  BY <1>12 DEF Drops, Moved, Held, LeaseInv, Pending, LongSteps, Sure, BeforeCopy
<1>13. ASSUME NEW e \in Clients, Deletes(e)
      PROVE  LeaseInv'
  BY <1>13, Defaults DEF Deletes, Moved, LeaseInv, Pending, LongSteps, Sure, BeforeCopy
<1>14. ASSUME NEW e \in Clients, Wipes(e)
      PROVE  LeaseInv'
  BY <1>14 DEF Wipes, Moved, OnlyAt, LeaseInv, Pending, LongSteps, Sure, BeforeCopy
<1>15. ASSUME NEW e \in Clients, NEW s \in Steps, Goes(e, s)
      PROVE  LeaseInv'
  BY <1>15 DEF Goes, Moved, Way, LeaseInv, Pending, LongSteps, Sure, BeforeCopy
<1>16. ASSUME NEW e \in Clients, NEW s \in Steps, Saves(e, s)
      PROVE  LeaseInv'
  BY <1>16 DEF Saves, Moved, SavesAs, LeaseInv, Pending, LongSteps, Sure, BeforeCopy
<1>17. ASSUME NEW e \in Clients, NEW s \in Steps, Leaves(e, s)
      PROVE  LeaseInv'
  BY <1>17 DEF Leaves, Moved, LeaveWay, Held, LeaseInv, Pending, LongSteps, Sure, BeforeCopy
<1>18. ASSUME NEW e \in Clients, NEW p \in Projects, NEW s \in Steps, Unfences(e, p, s)
      PROVE  LeaseInv'
  BY <1>18 DEF Unfences, Moved, FenceTo, LeaseInv, Pending, LongSteps, Sure, BeforeCopy
<1>19. QED
  BY <1>1, <1>2, <1>3, <1>4, <1>5, <1>6, <1>7, <1>8, <1>9, <1>10, <1>11, <1>12, <1>13, <1>14,
     <1>15, <1>16, <1>17, <1>18 DEF Effect

LEMMA IdKept ==
    ASSUME TypeOK, LeaseInv, IdInv, Effect \/ WriterChange
    PROVE  IdInv'
<1> USE Types, Values, ClientsAre
<1>1. CASE WriterChange
  BY <1>1 DEF WriterChange, IdInv, LeaseInv, Pending, Sure, BeforeCopy
<1>2. CASE Lapses
  BY <1>2 DEF Lapses, IdInv, LeaseInv, Pending, Sure, BeforeCopy
<1>3. ASSUME NEW m \in Movers, Posts(m)
      PROVE  IdInv'
  BY <1>3 DEF Posts, IdInv, LeaseInv, Pending, Sure, BeforeCopy
<1>4. ASSUME NEW m \in Movers, Creates(m)
      PROVE  IdInv'
  BY <1>4 DEF Creates, IdInv, LeaseInv, Pending, Sure, BeforeCopy
<1>5. ASSUME NEW m \in Movers, Fences(m)
      PROVE  IdInv'
  BY <1>5 DEF Fences, Moved, FenceTo, IdInv, LeaseInv, Pending, Sure, BeforeCopy
<1>6. ASSUME NEW m \in Movers, CopiesFiles(m)
      PROVE  IdInv'
  BY <1>6 DEF CopiesFiles, Moved, OnlyAt, IdInv, LeaseInv, Pending, Sure, BeforeCopy
<1>7. ASSUME NEW m \in Movers, CopiesMeta(m)
      PROVE  IdInv'
  BY <1>7 DEF CopiesMeta, Moved, OnlyAt, IdInv, LeaseInv, Pending, Sure, BeforeCopy
<1>8. ASSUME NEW m \in Movers, Publishes(m)
      PROVE  IdInv'
  BY <1>8 DEF Publishes, Moved, IdInv, LeaseInv, Pending, Sure, BeforeCopy
<1>9. ASSUME NEW m \in Movers, Removes(m)
      PROVE  IdInv'
  BY <1>9 DEF Removes, Moved, OnlyAt, IdInv, LeaseInv, Pending, Sure, BeforeCopy
<1>10. ASSUME NEW e \in Clients, TakesOver(e)
      PROVE  IdInv'
  BY <1>10 DEF TakesOver, Held, LeaseFree, Resume, Pending, IdInv, LeaseInv, Sure, BeforeCopy
<1>11. ASSUME NEW e \in Clients, FindsOrphan(e)
      PROVE  IdInv'
  BY <1>11 DEF FindsOrphan, IdInv, LeaseInv, Pending, Sure, BeforeCopy
<1>12. ASSUME NEW e \in Clients, Drops(e)
      PROVE  IdInv'
  BY <1>12 DEF Drops, Moved, Held, IdInv, LeaseInv, Pending, Sure, BeforeCopy
<1>13. ASSUME NEW e \in Clients, Deletes(e)
      PROVE  IdInv'
  BY <1>13, Defaults DEF Deletes, Moved, IdInv, LeaseInv, Pending, Sure, BeforeCopy
<1>14. ASSUME NEW e \in Clients, Wipes(e)
      PROVE  IdInv'
  BY <1>14, Defaults DEF Wipes, Moved, OnlyAt, IdInv, LeaseInv, Pending, Sure, BeforeCopy
<1>15. ASSUME NEW e \in Clients, NEW s \in Steps, Goes(e, s)
      PROVE  IdInv'
  BY <1>15 DEF Goes, Moved, Way, IdInv, LeaseInv, Pending, Sure, BeforeCopy
<1>16. ASSUME NEW e \in Clients, NEW s \in Steps, Saves(e, s)
      PROVE  IdInv'
  BY <1>16 DEF Saves, Moved, SavesAs, IdInv, LeaseInv, Pending, Sure, BeforeCopy
<1>17. ASSUME NEW e \in Clients, NEW s \in Steps, Leaves(e, s)
      PROVE  IdInv'
  BY <1>17 DEF Leaves, Moved, LeaveWay, Held, IdInv, LeaseInv, Pending, Sure, BeforeCopy
<1>18. ASSUME NEW e \in Clients, NEW p \in Projects, NEW s \in Steps, Unfences(e, p, s)
      PROVE  IdInv'
  BY <1>18 DEF Unfences, Moved, FenceTo, IdInv, LeaseInv, Pending, Sure, BeforeCopy
<1>19. QED
  BY <1>1, <1>2, <1>3, <1>4, <1>5, <1>6, <1>7, <1>8, <1>9, <1>10, <1>11, <1>12, <1>13, <1>14,
     <1>15, <1>16, <1>17, <1>18 DEF Effect

LEMMA PhaseKept ==
    ASSUME TypeOK, ~StalePosts, LeaseInv, IdInv, PhaseInv, Effect \/ WriterChange
    PROVE  PhaseInv'
<1> USE Types, Values, ClientsAre
<1>1. CASE WriterChange
  BY <1>1 DEF WriterChange, PhaseInv, LeaseInv, Pending, Sure, BeforeCopy, AfterPublication, Copies
<1>2. CASE Lapses
  BY <1>2 DEF Lapses, PhaseInv, LeaseInv, Pending, Sure, BeforeCopy, AfterPublication, Copies
<1>3. ASSUME NEW m \in Movers, Posts(m)
      PROVE  PhaseInv'
  BY <1>3 DEF Posts, PhaseInv, LeaseInv, Pending, Sure, BeforeCopy, AfterPublication, Copies
<1>4. ASSUME NEW m \in Movers, Creates(m)
      PROVE  PhaseInv'
  BY <1>4 DEF Creates, PhaseInv, LeaseInv, Pending, Sure, BeforeCopy, AfterPublication, Copies
<1>5. ASSUME NEW m \in Movers, Fences(m)
      PROVE  PhaseInv'
  BY <1>5 DEF Fences, Moved, FenceTo, PhaseInv, LeaseInv, Pending, Sure, BeforeCopy,
     AfterPublication, Copies
<1>6. ASSUME NEW m \in Movers, CopiesFiles(m)
      PROVE  PhaseInv'
  BY <1>6 DEF CopiesFiles, Moved, OnlyAt, PhaseInv, LeaseInv, Pending, Sure, BeforeCopy,
     AfterPublication, Copies
<1>7. ASSUME NEW m \in Movers, CopiesMeta(m)
      PROVE  PhaseInv'
  BY <1>7 DEF CopiesMeta, Moved, OnlyAt, PhaseInv, LeaseInv, Pending, Sure, BeforeCopy,
     AfterPublication, Copies
<1>8. ASSUME NEW m \in Movers, Publishes(m)
      PROVE  PhaseInv'
  BY <1>8 DEF Publishes, Moved, PhaseInv, LeaseInv, Pending, Sure, BeforeCopy, AfterPublication,
     Copies
<1>9. ASSUME NEW m \in Movers, Removes(m)
      PROVE  PhaseInv'
  BY <1>9 DEF Removes, Moved, OnlyAt, PhaseInv, LeaseInv, Pending, Sure, BeforeCopy,
     AfterPublication, Copies
<1>10. ASSUME NEW e \in Clients, TakesOver(e)
      PROVE  PhaseInv'
  BY <1>10 DEF TakesOver, Held, LeaseFree, Resume, Pending, PhaseInv, LeaseInv, Sure, BeforeCopy,
     AfterPublication, Copies
<1>11. ASSUME NEW e \in Clients, FindsOrphan(e)
      PROVE  PhaseInv'
  BY <1>11 DEF FindsOrphan, PhaseInv, LeaseInv, Pending, Sure, BeforeCopy, AfterPublication, Copies
<1>12. ASSUME NEW e \in Clients, Drops(e)
      PROVE  PhaseInv'
  BY <1>12 DEF Drops, Moved, Held, PhaseInv, LeaseInv, Pending, Sure, BeforeCopy, AfterPublication,
     Copies
<1>13. ASSUME NEW e \in Clients, Deletes(e)
      PROVE  PhaseInv'
  BY <1>13, Defaults DEF Deletes, Moved, PhaseInv, LeaseInv, Pending, Sure, BeforeCopy,
     AfterPublication, Copies
<1>14. ASSUME NEW e \in Clients, Wipes(e)
      PROVE  PhaseInv'
  BY <1>14 DEF Wipes, Moved, OnlyAt, PhaseInv, LeaseInv, Pending, Sure, BeforeCopy,
     AfterPublication, Copies
<1>15. ASSUME NEW e \in Clients, NEW s \in Steps, Goes(e, s)
      PROVE  PhaseInv'
  BY <1>15 DEF Goes, Moved, Way, PhaseInv, LeaseInv, Pending, Sure, BeforeCopy, AfterPublication,
     Copies, LongSteps
<1>16. ASSUME NEW e \in Clients, NEW s \in Steps, Saves(e, s)
      PROVE  PhaseInv'
  BY <1>16 DEF Saves, Moved, SavesAs, PhaseInv, LeaseInv, Pending, Sure, BeforeCopy,
     AfterPublication, Copies
<1>17. ASSUME NEW e \in Clients, NEW s \in Steps, Leaves(e, s)
      PROVE  PhaseInv'
  BY <1>17 DEF Leaves, Moved, LeaveWay, Held, PhaseInv, LeaseInv, Pending, Sure, BeforeCopy,
     AfterPublication, Copies
<1>18. ASSUME NEW e \in Clients, NEW p \in Projects, NEW s \in Steps, Unfences(e, p, s)
      PROVE  PhaseInv'
  BY <1>18 DEF Unfences, Moved, FenceTo, PhaseInv, LeaseInv, Pending, Sure, BeforeCopy,
     AfterPublication, Copies
<1>19. QED
  BY <1>1, <1>2, <1>3, <1>4, <1>5, <1>6, <1>7, <1>8, <1>9, <1>10, <1>11, <1>12, <1>13, <1>14,
     <1>15, <1>16, <1>17, <1>18 DEF Effect

LEMMA FenceKept ==
    ASSUME TypeOK, LeaseInv, IdInv, PhaseInv, FenceInv, Effect \/ WriterChange
    PROVE  FenceInv'
<1> USE Types, Values, ClientsAre
<1>1. CASE WriterChange
  BY <1>1 DEF WriterChange, FenceInv, Base, LeaseInv, IdInv, PhaseInv, Sure, BeforeCopy,
     AfterPublication, Copies
<1>2. CASE Lapses
  BY <1>2 DEF Lapses, FenceInv, Base, LeaseInv, IdInv, PhaseInv, Sure, BeforeCopy, AfterPublication,
     Copies
<1>3. ASSUME NEW m \in Movers, Posts(m)
      PROVE  FenceInv'
  BY <1>3 DEF Posts, FenceInv, Base, LeaseInv, IdInv, PhaseInv, Sure, BeforeCopy, AfterPublication, Copies
<1>4. ASSUME NEW m \in Movers, Creates(m)
      PROVE  FenceInv'
  BY <1>4 DEF Creates, FenceInv, Base, LeaseInv, IdInv, PhaseInv, Sure, BeforeCopy, AfterPublication,
     Copies
<1>5. ASSUME NEW m \in Movers, Fences(m)
      PROVE  FenceInv'
  BY <1>5 DEF Fences, Moved, FenceTo, FenceInv, Base, LeaseInv, IdInv, PhaseInv, Sure, BeforeCopy,
     AfterPublication, Copies
<1>6. ASSUME NEW m \in Movers, CopiesFiles(m)
      PROVE  FenceInv'
  BY <1>6 DEF CopiesFiles, Moved, OnlyAt, FenceInv, Base, LeaseInv, IdInv, PhaseInv, Sure, BeforeCopy,
     AfterPublication, Copies
<1>7. ASSUME NEW m \in Movers, CopiesMeta(m)
      PROVE  FenceInv'
  BY <1>7 DEF CopiesMeta, Moved, OnlyAt, FenceInv, Base, LeaseInv, IdInv, PhaseInv, Sure, BeforeCopy,
     AfterPublication, Copies
<1>8. ASSUME NEW m \in Movers, Publishes(m)
      PROVE  FenceInv'
  BY <1>8 DEF Publishes, Moved, FenceInv, Base, LeaseInv, IdInv, PhaseInv, Sure, BeforeCopy,
     AfterPublication, Copies
<1>9. ASSUME NEW m \in Movers, Removes(m)
      PROVE  FenceInv'
  BY <1>9 DEF Removes, Moved, OnlyAt, FenceInv, Base, LeaseInv, IdInv, PhaseInv, Sure, BeforeCopy,
     AfterPublication, Copies
<1>10. ASSUME NEW e \in Clients, TakesOver(e)
      PROVE  FenceInv'
  BY <1>10 DEF TakesOver, Held, LeaseFree, Resume, Pending, FenceInv, Base, LeaseInv, IdInv, PhaseInv,
     Sure, BeforeCopy, AfterPublication, Copies
<1>11. ASSUME NEW e \in Clients, FindsOrphan(e)
      PROVE  FenceInv'
  BY <1>11 DEF FindsOrphan, FenceInv, Base, LeaseInv, IdInv, PhaseInv, Sure, BeforeCopy,
     AfterPublication, Copies
<1>12. ASSUME NEW e \in Clients, Drops(e)
      PROVE  FenceInv'
  BY <1>12 DEF Drops, Moved, Held, FenceInv, Base, LeaseInv, IdInv, PhaseInv, Sure, BeforeCopy,
     AfterPublication, Copies
<1>13. ASSUME NEW e \in Clients, Deletes(e)
      PROVE  FenceInv'
  BY <1>13 DEF Deletes, Moved, FenceInv, Base, LeaseInv, IdInv, PhaseInv, Sure, BeforeCopy,
     AfterPublication, Copies
<1>14. ASSUME NEW e \in Clients, Wipes(e)
      PROVE  FenceInv'
  BY <1>14, Defaults DEF Wipes, Moved, OnlyAt, FenceInv, Base, LeaseInv, IdInv, PhaseInv, Sure,
     BeforeCopy, AfterPublication, Copies
<1>15. ASSUME NEW e \in Clients, NEW s \in Steps, Goes(e, s)
      PROVE  FenceInv'
  BY <1>15 DEF Goes, Moved, Way, FenceInv, Base, LeaseInv, IdInv, PhaseInv, Sure, BeforeCopy,
     AfterPublication, Copies
<1>16. ASSUME NEW e \in Clients, NEW s \in Steps, Saves(e, s)
      PROVE  FenceInv'
  BY <1>16 DEF Saves, Moved, SavesAs, FenceInv, Base, LeaseInv, IdInv, PhaseInv, Sure, BeforeCopy,
     AfterPublication, Copies
<1>17. ASSUME NEW e \in Clients, NEW s \in Steps, Leaves(e, s)
      PROVE  FenceInv'
  BY <1>17 DEF Leaves, Moved, LeaveWay, Held, FenceInv, Base, LeaseInv, IdInv, PhaseInv, Sure,
     BeforeCopy, AfterPublication, Copies
<1>18. ASSUME NEW e \in Clients, NEW p \in Projects, NEW s \in Steps, Unfences(e, p, s)
      PROVE  FenceInv'
  <2>1. /\ UNCHANGED <<cat, rec>> /\ Moved(e, s) /\ FenceTo(p, IF nb[p].fence = ex[e].id THEN 0 ELSE nb[p].fence)
        /\ lifted \subseteq lifted'
    BY <1>18 DEF Unfences, Lifts
  <2>2. CASE ex[e].pc # "repair"
    BY <1>18, <2>1, <2>2 DEF Unfences, Moved, FenceTo, FenceInv, LeaseInv, IdInv, PhaseInv, Sure, BeforeCopy,
       AfterPublication, Copies
  <2>3. CASE ex[e].pc = "repair"
    <3>1. p = "src" /\ s = "idle" /\ Lifts(e) /\ nb'["dst"] = nb["dst"] /\ nb'["src"].meta = nb["src"].meta
      BY <1>18, <2>1, <2>3 DEF Unfences, FenceTo
    <3>2. CASE nb["src"].fence = ex[e].id /\ ex[e].id = rec.id
      <4>1. rec.id \in lifted'
        BY <3>1, <3>2 DEF Lifts
      <4>2. cat.at = "dst" => cat.by \in lifted'
        BY <4>1 DEF PhaseInv
      <4>3. \A f \in Clients : ex'[f].pc = "publish" => ex'[f].id \in lifted'
        BY <2>1, <3>1, <4>1 DEF Moved, LeaseInv, Sure
      <4>4. QED
        BY <2>1, <3>1, <4>2, <4>3 DEF FenceInv
    <3>3. CASE nb["src"].fence = ex[e].id /\ ex[e].id # rec.id
      <4>1. \A f \in Clients : ex[f].pc = "publish" => ex[f].id = rec.id
        BY DEF LeaseInv, Sure
      <4>2. cat.at = "dst" /\ nb["src"].meta => cat.by \in lifted
        BY <3>3 DEF PhaseInv, FenceInv
      <4>3. \A f \in Clients : ex'[f].pc = "publish" => ex'[f].id \in lifted'
        BY <2>1, <3>1, <3>3, <4>1 DEF Moved, FenceInv
      <4>4. QED
        BY <2>1, <3>1, <4>2, <4>3 DEF FenceInv
    <3>4. CASE nb["src"].fence # ex[e].id
      BY <2>1, <3>1, <3>4 DEF Moved, FenceTo, FenceInv
    <3>5. QED
      BY <3>2, <3>3, <3>4
  <2>4. QED
    BY <2>2, <2>3
<1>19. QED
  BY <1>1, <1>2, <1>3, <1>4, <1>5, <1>6, <1>7, <1>8, <1>9, <1>10, <1>11, <1>12, <1>13, <1>14,
     <1>15, <1>16, <1>17, <1>18 DEF Effect

LEMMA WholeKept ==
    ASSUME TypeOK, LeaseInv, IdInv, PhaseInv, WholeInv, Effect \/ WriterChange
    PROVE  WholeInv'
<1> USE Types, Values, ClientsAre
<1>1. CASE WriterChange
  BY <1>1 DEF WriterChange, WholeInv, Whole, LeaseInv, PhaseInv, Sure, BeforeCopy,
     AfterPublication, Copies, Projects
<1>2. CASE Lapses
  BY <1>2 DEF Lapses, WholeInv, Whole, LeaseInv, PhaseInv, Sure, BeforeCopy, AfterPublication,
     Copies, Projects
<1>3. ASSUME NEW m \in Movers, Posts(m)
      PROVE  WholeInv'
  BY <1>3 DEF Posts, WholeInv, Whole, LeaseInv, PhaseInv, Sure, BeforeCopy, AfterPublication,
     Copies, Projects
<1>4. ASSUME NEW m \in Movers, Creates(m)
      PROVE  WholeInv'
  BY <1>4 DEF Creates, WholeInv, Whole, LeaseInv, PhaseInv, Sure, BeforeCopy, AfterPublication,
     Copies, Projects
<1>5. ASSUME NEW m \in Movers, Fences(m)
      PROVE  WholeInv'
  BY <1>5 DEF Fences, Moved, FenceTo, WholeInv, Whole, LeaseInv, PhaseInv, Sure, BeforeCopy,
     AfterPublication, Copies, Projects
<1>6. ASSUME NEW m \in Movers, CopiesFiles(m)
      PROVE  WholeInv'
  BY <1>6 DEF CopiesFiles, Moved, OnlyAt, WholeInv, Whole, LeaseInv, PhaseInv, Sure, BeforeCopy,
     AfterPublication, Copies, Projects
<1>7. ASSUME NEW m \in Movers, CopiesMeta(m)
      PROVE  WholeInv'
  BY <1>7 DEF CopiesMeta, Moved, OnlyAt, WholeInv, Whole, LeaseInv, PhaseInv, Sure, BeforeCopy,
     AfterPublication, Copies, Projects
<1>8. ASSUME NEW m \in Movers, Publishes(m)
      PROVE  WholeInv'
  BY <1>8 DEF Publishes, Moved, WholeInv, Whole, LeaseInv, PhaseInv, Sure, BeforeCopy,
     AfterPublication, Copies, Projects
<1>9. ASSUME NEW m \in Movers, Removes(m)
      PROVE  WholeInv'
  BY <1>9 DEF Removes, Moved, OnlyAt, WholeInv, Whole, LeaseInv, PhaseInv, Sure, BeforeCopy,
     AfterPublication, Copies, Projects
<1>10. ASSUME NEW e \in Clients, TakesOver(e)
      PROVE  WholeInv'
  BY <1>10 DEF TakesOver, Held, LeaseFree, Resume, Pending, WholeInv, Whole, LeaseInv, PhaseInv,
     Sure, BeforeCopy, AfterPublication, Copies, Projects
<1>11. ASSUME NEW e \in Clients, FindsOrphan(e)
      PROVE  WholeInv'
  BY <1>11 DEF FindsOrphan, WholeInv, Whole, LeaseInv, PhaseInv, Sure, BeforeCopy,
     AfterPublication, Copies, Projects
<1>12. ASSUME NEW e \in Clients, Drops(e)
      PROVE  WholeInv'
  BY <1>12 DEF Drops, Moved, Held, WholeInv, Whole, LeaseInv, PhaseInv, Sure, BeforeCopy,
     AfterPublication, Copies, Projects
<1>13. ASSUME NEW e \in Clients, Deletes(e)
      PROVE  WholeInv'
  BY <1>13, Defaults DEF Deletes, Moved, WholeInv, Whole, LeaseInv, PhaseInv, Sure, BeforeCopy,
     AfterPublication, Copies, Projects
<1>14. ASSUME NEW e \in Clients, Wipes(e)
      PROVE  WholeInv'
  BY <1>14 DEF Wipes, Moved, OnlyAt, WholeInv, Whole, LeaseInv, PhaseInv, Sure, BeforeCopy,
     AfterPublication, Copies, Projects
<1>15. ASSUME NEW e \in Clients, NEW s \in Steps, Goes(e, s)
      PROVE  WholeInv'
  BY <1>15 DEF Goes, Moved, Way, WholeInv, Whole, LeaseInv, PhaseInv, Sure, BeforeCopy,
     AfterPublication, Copies, Projects
<1>16. ASSUME NEW e \in Clients, NEW s \in Steps, Saves(e, s)
      PROVE  WholeInv'
  BY <1>16 DEF Saves, Moved, SavesAs, WholeInv, Whole, LeaseInv, PhaseInv, Sure, BeforeCopy,
     AfterPublication, Copies, Projects
<1>17. ASSUME NEW e \in Clients, NEW s \in Steps, Leaves(e, s)
      PROVE  WholeInv'
  BY <1>17 DEF Leaves, Moved, LeaveWay, Held, WholeInv, Whole, LeaseInv, PhaseInv, Sure,
     BeforeCopy, AfterPublication, Copies, Projects
<1>18. ASSUME NEW e \in Clients, NEW p \in Projects, NEW s \in Steps, Unfences(e, p, s)
      PROVE  WholeInv'
  BY <1>18 DEF Unfences, Moved, FenceTo, WholeInv, Whole, LeaseInv, PhaseInv, Sure, BeforeCopy,
     AfterPublication, Copies, Projects
<1>19. QED
  BY <1>1, <1>2, <1>3, <1>4, <1>5, <1>6, <1>7, <1>8, <1>9, <1>10, <1>11, <1>12, <1>13, <1>14,
     <1>15, <1>16, <1>17, <1>18 DEF Effect

LEMMA Listed ==
    ASSUME TypeOK, IdInv, PhaseInv, FenceInv, NEW p \in Projects, Readable(p)
    PROVE  cat.at = p \/ (p = "src" /\ cat.at = "dst" /\ cat.by \in lifted)
<1>1. CASE p = "src"
  BY <1>1, Values DEF Readable, FenceInv, PhaseInv, IdInv
<1>2. CASE p = "dst"
  BY <1>2, Values DEF Readable, FenceInv
<1>3. QED
  BY <1>1, <1>2 DEF Projects

LEMMA PlaceKept ==
    ASSUME TypeOK, ~StalePosts, PlaceInv, Effect \/ WriteEffect
    PROVE  PlaceInv'
<1>1. Effect \/ WriterChange
  BY WritesAre
<1>2. QED
  BY <1>1, LeaseKept, IdKept, PhaseKept, FenceKept, WholeKept DEF PlaceInv

-----------------------------------------------------------------------------
(* Acknowledged writes. *)

\* A write at its objects, whose caller will be told that it succeeded.
Writing(w) == wr[w].pc = "put" /\ wr[w].at = "src" /\ ~wr[w].lost
Saving(w) == Writing(w) /\ wr[w].kind # "file"
Uploading(w) == Writing(w) /\ wr[w].kind = "file"
\* The source is as it was captured: no save since.
AsCaptured == cat.at = "src" /\ nb["src"].ver = rec.cap.ver
\* The fence of the record is there and has been there all along: no upload since.
Shielded == cat.at = "src" /\ nb["src"].fence = rec.id /\ rec.id \notin late
\* The writers admitted before the fence have been waited for.
Drained == rec.phase = "copying" \/ (rec.by \in Clients /\ ex[rec.by].pc = "settle")
\* The executor that the record names has copied the files.
Copied == rec.by \in Clients /\ ex[rec.by].pc \in Copies \ {"copy"}

WriterInv ==
    /\ \A w \in Writers : wr[w].pc \in {"lease", "check", "put", "free"} => wr[w].kind \in {"save", "file"}
    /\ \A w \in Writers : wr[w].pc = "meta" => wr[w].kind \in {"save", "delete"}
    /\ \A w \in Writers : wr[w].pc \in {"check", "meta", "put", "free"} /\ wr[w].kind # "delete" /\ ~wr[w].lost
                            => ws = w
    /\ \A w \in Writers : wr[w].at = "dst" => cat.at = "dst"
    /\ \A w \in Writers : wr[w].pc = "bump" /\ wr[w].at = cat.at => w \in nb[cat.at].body
    /\ \A w \in acked : wr[w].pc # "idle"

CaptureInv ==
    /\ \A m \in Movers : ex[m].id = rec.id /\ rec.id # 0 => ex[m].cap = rec.cap
    /\ cat.at = "src" =>
         /\ rec.id # 0 => rec.cap.ver <= nb["src"].ver
         /\ \A m \in Movers : ex[m].pc = "lease" => ex[m].cap.ver <= nb["src"].ver

DrainInv ==
    /\ Drained /\ AsCaptured => \A w \in Writers : ~Saving(w)
    /\ Drained /\ Shielded => \A w \in Writers : ~Uploading(w)
    /\ cat.at = "dst" /\ cat.by \notin lifted => \A w \in Writers : ~Saving(w)
    /\ cat.at = "dst" /\ cat.by \notin lifted /\ cat.by \notin late => \A w \in Writers : ~Uploading(w)

AckInv ==
    /\ cat.at = "src" => acked \subseteq nb["src"].body
    /\ cat.at = "dst" /\ cat.by \notin lifted =>
         \A w \in acked : (wr[w].kind = "file" => cat.by \notin late) => w \in nb["dst"].body
    /\ Copied /\ AsCaptured => \A w \in acked : wr[w].kind # "file" => w \in nb["dst"].body
    /\ Copied /\ Shielded => \A w \in acked : wr[w].kind = "file" => w \in nb["dst"].body
    /\ \A e \in Clients : ex[e].pc = "publish" /\ cat.at = "src" /\ ex[e].id \notin lifted => AsCaptured

LossInv == WriterInv /\ CaptureInv /\ DrainInv /\ AckInv

LEMMA Versions ==
    ASSUME TypeOK
    PROVE  /\ nb["src"].ver \in Nat /\ rec.cap.ver \in Nat
           /\ \A e \in Clients : ex[e].cap.ver \in Nat
<1>1. nb["src"].ver \in Nat
  BY Types DEF Objects
<1>2. rec.cap \in Captures /\ \A e \in Clients : ex[e].cap \in Captures
  BY Types DEF Records, Requests
<1>3. QED
  BY <1>1, <1>2 DEF Captures

LEMMA WriterKept ==
    ASSUME TypeOK, PlaceInv, LossInv, Effect
    PROVE  WriterInv'
<1> USE Types, Values, ClientsAre
<1>1. CASE Lapses
  BY <1>1 DEF Lapses, WriterInv, LossInv, PlaceInv, LeaseInv, PhaseInv, WholeInv, Whole, Sure,
     AfterPublication, Base, Beside
<1>2. ASSUME NEW m \in Movers, Posts(m)
      PROVE  WriterInv'
  BY <1>2 DEF Posts, WriterInv, LossInv, PlaceInv, LeaseInv, PhaseInv, WholeInv, Whole, Sure,
     AfterPublication, Base, Beside
<1>3. ASSUME NEW m \in Movers, Creates(m)
      PROVE  WriterInv'
  BY <1>3 DEF Creates, WriterInv, LossInv, PlaceInv, LeaseInv, PhaseInv, WholeInv, Whole, Sure,
     AfterPublication, Base, Beside
<1>4. ASSUME NEW m \in Movers, Fences(m)
      PROVE  WriterInv'
  BY <1>4 DEF Fences, Moved, FenceTo, WriterInv, LossInv, PlaceInv, LeaseInv, PhaseInv, WholeInv,
     Whole, Sure, AfterPublication, Base, Beside
<1>5. ASSUME NEW m \in Movers, CopiesFiles(m)
      PROVE  WriterInv'
  BY <1>5 DEF CopiesFiles, Moved, OnlyAt, WriterInv, LossInv, PlaceInv, LeaseInv, PhaseInv,
     WholeInv, Whole, Sure, AfterPublication, Base, Beside
<1>6. ASSUME NEW m \in Movers, CopiesMeta(m)
      PROVE  WriterInv'
  BY <1>6 DEF CopiesMeta, Moved, OnlyAt, WriterInv, LossInv, PlaceInv, LeaseInv, PhaseInv,
     WholeInv, Whole, Sure, AfterPublication, Base, Beside
<1>7. ASSUME NEW m \in Movers, Publishes(m)
      PROVE  WriterInv'
  BY <1>7 DEF Publishes, Moved, WriterInv, LossInv, PlaceInv, LeaseInv, PhaseInv, WholeInv, Whole,
     Sure, AfterPublication, Base, Beside
<1>8. ASSUME NEW m \in Movers, Removes(m)
      PROVE  WriterInv'
  BY <1>8 DEF Removes, Moved, OnlyAt, WriterInv, LossInv, PlaceInv, LeaseInv, PhaseInv, WholeInv,
     Whole, Sure, AfterPublication, Base, Beside
<1>9. ASSUME NEW e \in Clients, TakesOver(e)
      PROVE  WriterInv'
  BY <1>9 DEF TakesOver, Held, LeaseFree, Resume, Pending, WriterInv, LossInv, PlaceInv, LeaseInv,
     PhaseInv, WholeInv, Whole, Sure, AfterPublication, Base, Beside
<1>10. ASSUME NEW e \in Clients, FindsOrphan(e)
      PROVE  WriterInv'
  BY <1>10 DEF FindsOrphan, WriterInv, LossInv, PlaceInv, LeaseInv, PhaseInv, WholeInv, Whole,
     Sure, AfterPublication, Base, Beside
<1>11. ASSUME NEW e \in Clients, Drops(e)
      PROVE  WriterInv'
  BY <1>11 DEF Drops, Moved, Held, WriterInv, LossInv, PlaceInv, LeaseInv, PhaseInv, WholeInv,
     Whole, Sure, AfterPublication, Base, Beside
<1>12. ASSUME NEW e \in Clients, Deletes(e)
      PROVE  WriterInv'
  BY <1>12 DEF Deletes, Moved, WriterInv, LossInv, PlaceInv, LeaseInv, PhaseInv, WholeInv, Whole,
     Sure, AfterPublication, Base, Beside
<1>13. ASSUME NEW e \in Clients, Wipes(e)
      PROVE  WriterInv'
  BY <1>13 DEF Wipes, Moved, OnlyAt, WriterInv, LossInv, PlaceInv, LeaseInv, PhaseInv, WholeInv,
     Whole, Sure, AfterPublication, Base, Beside
<1>14. ASSUME NEW e \in Clients, NEW s \in Steps, Goes(e, s)
      PROVE  WriterInv'
  BY <1>14 DEF Goes, Moved, Way, WriterInv, LossInv, PlaceInv, LeaseInv, PhaseInv, WholeInv, Whole,
     Sure, AfterPublication, Base, Beside
<1>15. ASSUME NEW e \in Clients, NEW s \in Steps, Saves(e, s)
      PROVE  WriterInv'
  BY <1>15 DEF Saves, Moved, SavesAs, WriterInv, LossInv, PlaceInv, LeaseInv, PhaseInv, WholeInv,
     Whole, Sure, AfterPublication, Base, Beside
<1>16. ASSUME NEW e \in Clients, NEW s \in Steps, Leaves(e, s)
      PROVE  WriterInv'
  BY <1>16 DEF Leaves, Moved, LeaveWay, Held, WriterInv, LossInv, PlaceInv, LeaseInv, PhaseInv,
     WholeInv, Whole, Sure, AfterPublication, Base, Beside
<1>17. ASSUME NEW e \in Clients, NEW p \in Projects, NEW s \in Steps, Unfences(e, p, s)
      PROVE  WriterInv'
  BY <1>17 DEF Unfences, Moved, FenceTo, WriterInv, LossInv, PlaceInv, LeaseInv, PhaseInv,
     WholeInv, Whole, Sure, AfterPublication, Base, Beside
<1>18. QED
  BY <1>1, <1>2, <1>3, <1>4, <1>5, <1>6, <1>7, <1>8, <1>9, <1>10, <1>11, <1>12, <1>13, <1>14,
     <1>15, <1>16, <1>17 DEF Effect

LEMMA CaptureKept ==
    ASSUME TypeOK, PlaceInv, LossInv, Effect
    PROVE  CaptureInv'
<1> USE Types, Values, ClientsAre, Versions
<1>1. CASE Lapses
  BY <1>1 DEF Lapses, CaptureInv, LossInv, PlaceInv, LeaseInv, PhaseInv, IdInv, AfterPublication,
     Base, Beside, Pending
<1>2. ASSUME NEW m \in Movers, Posts(m)
      PROVE  CaptureInv'
  BY <1>2 DEF Posts, CaptureInv, LossInv, PlaceInv, LeaseInv, PhaseInv, IdInv, AfterPublication,
     Base, Beside, Pending
<1>3. ASSUME NEW m \in Movers, Creates(m)
      PROVE  CaptureInv'
  BY <1>3 DEF Creates, CaptureInv, LossInv, PlaceInv, LeaseInv, PhaseInv, IdInv, AfterPublication,
     Base, Beside, Pending
<1>4. ASSUME NEW m \in Movers, Fences(m)
      PROVE  CaptureInv'
  BY <1>4 DEF Fences, Moved, FenceTo, CaptureInv, LossInv, PlaceInv, LeaseInv, PhaseInv, IdInv,
     AfterPublication, Base, Beside, Pending
<1>5. ASSUME NEW m \in Movers, CopiesFiles(m)
      PROVE  CaptureInv'
  BY <1>5 DEF CopiesFiles, Moved, OnlyAt, CaptureInv, LossInv, PlaceInv, LeaseInv, PhaseInv, IdInv,
     AfterPublication, Base, Beside, Pending
<1>6. ASSUME NEW m \in Movers, CopiesMeta(m)
      PROVE  CaptureInv'
  BY <1>6 DEF CopiesMeta, Moved, OnlyAt, CaptureInv, LossInv, PlaceInv, LeaseInv, PhaseInv, IdInv,
     AfterPublication, Base, Beside, Pending
<1>7. ASSUME NEW m \in Movers, Publishes(m)
      PROVE  CaptureInv'
  BY <1>7 DEF Publishes, Moved, CaptureInv, LossInv, PlaceInv, LeaseInv, PhaseInv, IdInv,
     AfterPublication, Base, Beside, Pending
<1>8. ASSUME NEW m \in Movers, Removes(m)
      PROVE  CaptureInv'
  BY <1>8 DEF Removes, Moved, OnlyAt, CaptureInv, LossInv, PlaceInv, LeaseInv, PhaseInv, IdInv,
     AfterPublication, Base, Beside, Pending
<1>9. ASSUME NEW e \in Clients, TakesOver(e)
      PROVE  CaptureInv'
  BY <1>9 DEF TakesOver, Held, LeaseFree, Resume, Pending, CaptureInv, LossInv, PlaceInv, LeaseInv,
     PhaseInv, IdInv, AfterPublication, Base, Beside
<1>10. ASSUME NEW e \in Clients, FindsOrphan(e)
      PROVE  CaptureInv'
  BY <1>10 DEF FindsOrphan, CaptureInv, LossInv, PlaceInv, LeaseInv, PhaseInv, IdInv,
     AfterPublication, Base, Beside, Pending
<1>11. ASSUME NEW e \in Clients, Drops(e)
      PROVE  CaptureInv'
  BY <1>11 DEF Drops, Moved, Held, CaptureInv, LossInv, PlaceInv, LeaseInv, PhaseInv, IdInv,
     AfterPublication, Base, Beside, Pending
<1>12. ASSUME NEW e \in Clients, Deletes(e)
      PROVE  CaptureInv'
  BY <1>12, Defaults DEF Deletes, Moved, CaptureInv, LossInv, PlaceInv, LeaseInv, PhaseInv, IdInv,
     AfterPublication, Base, Beside, Pending
<1>13. ASSUME NEW e \in Clients, Wipes(e)
      PROVE  CaptureInv'
  BY <1>13 DEF Wipes, Moved, OnlyAt, CaptureInv, LossInv, PlaceInv, LeaseInv, PhaseInv, IdInv,
     AfterPublication, Base, Beside, Pending
<1>14. ASSUME NEW e \in Clients, NEW s \in Steps, Goes(e, s)
      PROVE  CaptureInv'
  BY <1>14 DEF Goes, Moved, Way, CaptureInv, LossInv, PlaceInv, LeaseInv, PhaseInv, IdInv,
     AfterPublication, Base, Beside, Pending
<1>15. ASSUME NEW e \in Clients, NEW s \in Steps, Saves(e, s)
      PROVE  CaptureInv'
  BY <1>15 DEF Saves, Moved, SavesAs, CaptureInv, LossInv, PlaceInv, LeaseInv, PhaseInv, IdInv,
     AfterPublication, Base, Beside, Pending
<1>16. ASSUME NEW e \in Clients, NEW s \in Steps, Leaves(e, s)
      PROVE  CaptureInv'
  BY <1>16 DEF Leaves, Moved, LeaveWay, Held, CaptureInv, LossInv, PlaceInv, LeaseInv, PhaseInv,
     IdInv, AfterPublication, Base, Beside, Pending
<1>17. ASSUME NEW e \in Clients, NEW p \in Projects, NEW s \in Steps, Unfences(e, p, s)
      PROVE  CaptureInv'
  BY <1>17 DEF Unfences, Moved, FenceTo, CaptureInv, LossInv, PlaceInv, LeaseInv, PhaseInv, IdInv,
     AfterPublication, Base, Beside, Pending
<1>18. QED
  BY <1>1, <1>2, <1>3, <1>4, <1>5, <1>6, <1>7, <1>8, <1>9, <1>10, <1>11, <1>12, <1>13, <1>14,
     <1>15, <1>16, <1>17 DEF Effect

\* There is a record.
LEMMA HasRecord ==
    ASSUME PlaceInv, Drained \/ Copied \/ rec.by \in Clients
    PROVE  rec.id # 0
  BY DEF Drained, Copied, PlaceInv, LeaseInv, IdInv, Pending

\* The copy that is about to be published is that of the source as it was captured and fenced.
LEMMA AtPublication ==
    ASSUME TypeOK, PlaceInv, LossInv, NEW m \in Movers, Publishes(m)
    PROVE  /\ rec.by = m /\ rec.id = ex[m].id /\ Drained /\ Copied
           /\ ex[m].id \notin lifted => AsCaptured
           /\ ex[m].id \notin lifted /\ ex[m].id \notin late => Shielded
<1>1. ex[m].pc = "publish" /\ cat.at = "src" /\ m \in Clients
  BY ClientsAre DEF Publishes
<1>2. rec.by = m /\ rec.id = ex[m].id /\ rec.phase = "copying"
  BY <1>1 DEF PlaceInv, LeaseInv, PhaseInv, Sure, Copies
<1>3. QED
  BY <1>1, <1>2 DEF Drained, Copied, Copies, Shielded, LossInv, AckInv, PlaceInv, FenceInv

LEMMA DrainKept ==
    ASSUME TypeOK, PlaceInv, LossInv, Effect
    PROVE  DrainInv'
<1> USE Types, Values, ClientsAre
<1>1. CASE Lapses
  BY <1>1 DEF Lapses, DrainInv, AsCaptured, Shielded, Drained, Saving, Uploading, Writing, LossInv, PlaceInv, LeaseInv, PhaseInv,
     AfterPublication, Base, Beside
<1>2. ASSUME NEW m \in Movers, Posts(m)
      PROVE  DrainInv'
  BY <1>2 DEF Posts, DrainInv, AsCaptured, Shielded, Drained, Saving, Uploading, Writing, LossInv, PlaceInv, LeaseInv, PhaseInv,
     AfterPublication, Base, Beside
<1>3. ASSUME NEW m \in Movers, Creates(m)
      PROVE  DrainInv'
  BY <1>3 DEF Creates, DrainInv, AsCaptured, Shielded, Drained, Saving, Uploading, Writing, LossInv, PlaceInv, LeaseInv, PhaseInv,
     AfterPublication, Base, Beside
<1>4. ASSUME NEW m \in Movers, Fences(m)
      PROVE  DrainInv'
  <2>1. /\ UNCHANGED <<cat, rec, wr, lifted>> /\ nb'["src"].ver = nb["src"].ver
        /\ nb'["src"].fence = ex[m].id /\ ex[m].pc = "fence" /\ ex'[m].pc = "drain"
        /\ late' = IF rec.by = m THEN late ELSE late \union {ex[m].id}
        /\ \A f \in Clients : f # m => ex'[f] = ex[f]
    BY <1>4 DEF Fences, Moved, FenceTo, Beside
  <2>2. Drained' => Drained /\ rec.by # m
    BY <2>1 DEF Drained, PlaceInv, PhaseInv, BeforeCopy
  <2>3. Drained' => ~Shielded'
    BY <2>1, <2>2 DEF Shielded
  <2>4. QED
    BY <2>1, <2>2, <2>3 DEF DrainInv, AsCaptured, Saving, Uploading, Writing, LossInv
<1>5. ASSUME NEW m \in Movers, CopiesFiles(m)
      PROVE  DrainInv'
  BY <1>5 DEF CopiesFiles, Moved, OnlyAt, DrainInv, AsCaptured, Shielded, Drained, Saving, Uploading, Writing, LossInv, PlaceInv,
     LeaseInv, PhaseInv, AfterPublication, Base, Beside
<1>6. ASSUME NEW m \in Movers, CopiesMeta(m)
      PROVE  DrainInv'
  BY <1>6 DEF CopiesMeta, Moved, OnlyAt, DrainInv, AsCaptured, Shielded, Drained, Saving, Uploading, Writing, LossInv, PlaceInv,
     LeaseInv, PhaseInv, AfterPublication, Base, Beside
<1>7. ASSUME NEW m \in Movers, Publishes(m)
      PROVE  DrainInv'
  <2>1. UNCHANGED <<wr, lifted, late>> /\ cat'.at = "dst" /\ cat'.by = ex[m].id
    BY <1>7 DEF Publishes, Base, Beside
  <2>2. QED
    BY <1>7, <2>1, AtPublication DEF DrainInv, AsCaptured, Shielded, Saving, Uploading, Writing, LossInv
<1>8. ASSUME NEW m \in Movers, Removes(m)
      PROVE  DrainInv'
  BY <1>8 DEF Removes, Moved, OnlyAt, DrainInv, AsCaptured, Shielded, Drained, Saving, Uploading, Writing, LossInv, PlaceInv, LeaseInv,
     PhaseInv, AfterPublication, Base, Beside
<1>9. ASSUME NEW e \in Clients, TakesOver(e)
      PROVE  DrainInv'
  BY <1>9 DEF TakesOver, Held, LeaseFree, Resume, Pending, DrainInv, AsCaptured, Shielded, Drained, Saving, Uploading, Writing, LossInv,
     PlaceInv, LeaseInv, PhaseInv, AfterPublication, Base, Beside
<1>10. ASSUME NEW e \in Clients, FindsOrphan(e)
      PROVE  DrainInv'
  BY <1>10 DEF FindsOrphan, DrainInv, AsCaptured, Shielded, Drained, Saving, Uploading, Writing, LossInv, PlaceInv, LeaseInv, PhaseInv,
     AfterPublication, Base, Beside
<1>11. ASSUME NEW e \in Clients, Drops(e)
      PROVE  DrainInv'
  BY <1>11 DEF Drops, Moved, Held, DrainInv, AsCaptured, Shielded, Drained, Saving, Uploading, Writing, LossInv, PlaceInv, LeaseInv,
     PhaseInv, AfterPublication, Base, Beside
<1>12. ASSUME NEW e \in Clients, Deletes(e)
      PROVE  DrainInv'
  BY <1>12, Defaults DEF Deletes, Moved, DrainInv, AsCaptured, Shielded, Drained, Saving, Uploading, Writing, LossInv, PlaceInv,
     LeaseInv, PhaseInv, AfterPublication, Base, Beside
<1>13. ASSUME NEW e \in Clients, Wipes(e)
      PROVE  DrainInv'
  BY <1>13 DEF Wipes, Moved, OnlyAt, DrainInv, AsCaptured, Shielded, Drained, Saving, Uploading, Writing, LossInv, PlaceInv, LeaseInv,
     PhaseInv, AfterPublication, Base, Beside
<1>14. ASSUME NEW e \in Clients, NEW s \in Steps, Goes(e, s)
      PROVE  DrainInv'
  BY <1>14, WriterSteps DEF Goes, Moved, Way, DrainInv, AsCaptured, Shielded, Drained, Saving, Uploading, Writing, LossInv, PlaceInv,
     LeaseInv, PhaseInv, AfterPublication, Base, Beside, WriterInv, BeforeCopy
<1>15. ASSUME NEW e \in Clients, NEW s \in Steps, Saves(e, s)
      PROVE  DrainInv'
  BY <1>15 DEF Saves, Moved, SavesAs, DrainInv, AsCaptured, Shielded, Drained, Saving, Uploading, Writing, LossInv, PlaceInv, LeaseInv,
     PhaseInv, AfterPublication, Base, Beside
<1>16. ASSUME NEW e \in Clients, NEW s \in Steps, Leaves(e, s)
      PROVE  DrainInv'
  BY <1>16 DEF Leaves, Moved, LeaveWay, Held, DrainInv, AsCaptured, Shielded, Drained, Saving, Uploading, Writing, LossInv, PlaceInv,
     LeaseInv, PhaseInv, AfterPublication, Base, Beside
<1>17. ASSUME NEW e \in Clients, NEW p \in Projects, NEW s \in Steps, Unfences(e, p, s)
      PROVE  DrainInv'
  <2>1. /\ UNCHANGED <<cat, rec, wr, late>> /\ lifted \subseteq lifted' /\ nb'["src"].ver = nb["src"].ver
        /\ nb'["src"].fence \in {0, nb["src"].fence}
        /\ ex'[e].pc # "settle" /\ \A f \in Clients : f # e => ex'[f] = ex[f]
    BY <1>17 DEF Unfences, Moved, FenceTo, Beside, Lifts
  <2>2. Drained' => Drained
    BY <2>1 DEF Drained
  <2>3. Drained' /\ Shielded' => Shielded
    BY <2>1, <2>2, HasRecord DEF Shielded
  <2>4. QED
    BY <2>1, <2>2, <2>3 DEF DrainInv, AsCaptured, Saving, Uploading, Writing, LossInv
<1>18. QED
  BY <1>1, <1>2, <1>3, <1>4, <1>5, <1>6, <1>7, <1>8, <1>9, <1>10, <1>11, <1>12, <1>13, <1>14,
     <1>15, <1>16, <1>17 DEF Effect

LEMMA AckKept ==
    ASSUME TypeOK, PlaceInv, LossInv, Effect
    PROVE  AckInv'
<1> USE Types, Values, ClientsAre
<1>1. CASE Lapses
  BY <1>1 DEF Lapses, AckInv, AsCaptured, Shielded, Copied, LossInv, PlaceInv, LeaseInv, PhaseInv, WholeInv, Whole,
     Sure, AfterPublication, Copies, Base, Beside
<1>2. ASSUME NEW m \in Movers, Posts(m)
      PROVE  AckInv'
  BY <1>2 DEF Posts, AckInv, AsCaptured, Shielded, Copied, LossInv, PlaceInv, LeaseInv, PhaseInv, WholeInv, Whole,
     Sure, AfterPublication, Copies, Base, Beside
<1>3. ASSUME NEW m \in Movers, Creates(m)
      PROVE  AckInv'
  BY <1>3 DEF Creates, AckInv, AsCaptured, Shielded, Copied, LossInv, PlaceInv, LeaseInv, PhaseInv, WholeInv, Whole,
     Sure, AfterPublication, Copies, Base, Beside
<1>4. ASSUME NEW m \in Movers, Fences(m)
      PROVE  AckInv'
  BY <1>4 DEF Fences, Moved, FenceTo, AckInv, AsCaptured, Shielded, Copied, LossInv, PlaceInv, LeaseInv, PhaseInv,
     WholeInv, Whole, Sure, AfterPublication, Copies, Base, Beside
<1>5. ASSUME NEW m \in Movers, CopiesFiles(m)
      PROVE  AckInv'
  BY <1>5 DEF CopiesFiles, Moved, OnlyAt, AckInv, AsCaptured, Shielded, Copied, LossInv, PlaceInv, LeaseInv,
     PhaseInv, WholeInv, Whole, Sure, AfterPublication, Copies, Base, Beside
<1>6. ASSUME NEW m \in Movers, CopiesMeta(m)
      PROVE  AckInv'
  BY <1>6 DEF CopiesMeta, Moved, OnlyAt, AckInv, AsCaptured, Shielded, Copied, LossInv, PlaceInv, LeaseInv, PhaseInv,
     WholeInv, Whole, Sure, AfterPublication, Copies, Base, Beside
<1>7. ASSUME NEW m \in Movers, Publishes(m)
      PROVE  AckInv'
  <2>1. UNCHANGED <<nb, wr, acked, lifted, late>> /\ cat'.at = "dst" /\ cat'.by = ex[m].id
    BY <1>7 DEF Publishes, Base, Beside
  <2>2. ex[m].id \notin lifted => \A w \in acked : (wr[w].kind = "file" => ex[m].id \notin late) => w \in nb["dst"].body
    BY <1>7, AtPublication DEF LossInv, AckInv
  <2>3. QED
    BY <2>1, <2>2 DEF AckInv, AsCaptured, Shielded
<1>8. ASSUME NEW m \in Movers, Removes(m)
      PROVE  AckInv'
  BY <1>8 DEF Removes, Moved, OnlyAt, AckInv, AsCaptured, Shielded, Copied, LossInv, PlaceInv, LeaseInv, PhaseInv,
     WholeInv, Whole, Sure, AfterPublication, Copies, Base, Beside
<1>9. ASSUME NEW e \in Clients, TakesOver(e)
      PROVE  AckInv'
  BY <1>9 DEF TakesOver, Held, LeaseFree, Resume, Pending, AckInv, AsCaptured, Shielded, Copied, LossInv, PlaceInv,
     LeaseInv, PhaseInv, WholeInv, Whole, Sure, AfterPublication, Copies, Base, Beside
<1>10. ASSUME NEW e \in Clients, FindsOrphan(e)
      PROVE  AckInv'
  BY <1>10 DEF FindsOrphan, AckInv, AsCaptured, Shielded, Copied, LossInv, PlaceInv, LeaseInv, PhaseInv, WholeInv,
     Whole, Sure, AfterPublication, Copies, Base, Beside
<1>11. ASSUME NEW e \in Clients, Drops(e)
      PROVE  AckInv'
  BY <1>11 DEF Drops, Moved, Held, AckInv, AsCaptured, Shielded, Copied, LossInv, PlaceInv, LeaseInv, PhaseInv,
     WholeInv, Whole, Sure, AfterPublication, Copies, Base, Beside
<1>12. ASSUME NEW e \in Clients, Deletes(e)
      PROVE  AckInv'
  BY <1>12, Defaults DEF Deletes, Moved, AckInv, AsCaptured, Shielded, Copied, LossInv, PlaceInv, LeaseInv, PhaseInv,
     WholeInv, Whole, Sure, AfterPublication, Copies, Base, Beside
<1>13. ASSUME NEW e \in Clients, Wipes(e)
      PROVE  AckInv'
  BY <1>13 DEF Wipes, Moved, OnlyAt, AckInv, AsCaptured, Shielded, Copied, LossInv, PlaceInv, LeaseInv, PhaseInv,
     WholeInv, Whole, Sure, AfterPublication, Copies, Base, Beside
<1>14. ASSUME NEW e \in Clients, NEW s \in Steps, Goes(e, s)
      PROVE  AckInv'
  BY <1>14 DEF Goes, Moved, Way, AckInv, AsCaptured, Shielded, Copied, LossInv, PlaceInv, LeaseInv, PhaseInv,
     WholeInv, Whole, Sure, AfterPublication, Copies, Base, Beside, CaptureInv, IdInv, BeforeCopy
<1>15. ASSUME NEW e \in Clients, NEW s \in Steps, Saves(e, s)
      PROVE  AckInv'
  BY <1>15 DEF Saves, Moved, SavesAs, AckInv, AsCaptured, Shielded, Copied, LossInv, PlaceInv, LeaseInv, PhaseInv,
     WholeInv, Whole, Sure, AfterPublication, Copies, Base, Beside, BeforeCopy
<1>16. ASSUME NEW e \in Clients, NEW s \in Steps, Leaves(e, s)
      PROVE  AckInv'
  BY <1>16 DEF Leaves, Moved, LeaveWay, Held, AckInv, AsCaptured, Shielded, Copied, LossInv, PlaceInv, LeaseInv,
     PhaseInv, WholeInv, Whole, Sure, AfterPublication, Copies, Base, Beside, BeforeCopy
<1>17. ASSUME NEW e \in Clients, NEW p \in Projects, NEW s \in Steps, Unfences(e, p, s)
      PROVE  AckInv'
  <2>1. /\ UNCHANGED <<cat, rec, wr, acked, late>> /\ lifted \subseteq lifted' /\ nb'["src"].ver = nb["src"].ver
        /\ nb'["src"].body = nb["src"].body /\ nb'["dst"].body = nb["dst"].body
        /\ nb'["src"].fence \in {0, nb["src"].fence}
        /\ ex'[e].pc \in {"delete", "idle", "keep"} /\ \A f \in Clients : f # e => ex'[f] = ex[f]
    BY <1>17 DEF Unfences, Moved, FenceTo, Beside, Lifts
  <2>2. Copied' => Copied
    BY <2>1 DEF Copied, Copies
  <2>3. Copied' /\ Shielded' => Shielded
    BY <2>1, <2>2, HasRecord DEF Shielded
  <2>4. QED
    BY <2>1, <2>2, <2>3 DEF AckInv, AsCaptured, LossInv
<1>18. QED
  BY <1>1, <1>2, <1>3, <1>4, <1>5, <1>6, <1>7, <1>8, <1>9, <1>10, <1>11, <1>12, <1>13, <1>14,
     <1>15, <1>16, <1>17 DEF Effect

LEMMA WriteAt ==
    ASSUME TypeOK
    PROVE  \A w \in Writers : wr[w].at \in {"src", "dst"} /\ wr[w].lost \in BOOLEAN
  BY Types, Values DEF Writes

\* A new update token is given where the notebook is listed, or to a source whose fence a
\* cancel lifted; the capture is outdated.
LEMMA BumpOutdates ==
    ASSUME TypeOK, PlaceInv, LossInv, NEW p \in Projects, Readable(p), Bumped(p), UNCHANGED <<cat, rec, ex, lifted>>
    PROVE  /\ cat.at = p \/ (cat.at = "dst" /\ cat.by \in lifted)
           /\ rec.id # 0 => ~AsCaptured'
           /\ \A e \in Clients : ex[e].pc = "publish" /\ ex[e].id \notin lifted => cat.at # "src"
           /\ nb'["src"].body = nb["src"].body /\ nb'["dst"].body = nb["dst"].body
<1>1. cat.at = p \/ (cat.at = "dst" /\ cat.by \in lifted)
  BY Listed DEF PlaceInv
<1>2. ASSUME rec.id # 0, AsCaptured' PROVE FALSE
  <2>1. cat.at = "src" /\ p = "src" /\ nb'["src"].ver = rec.cap.ver
    BY <1>1, <1>2 DEF AsCaptured
  <2>2. rec.cap.ver <= nb["src"].ver /\ nb'["src"].ver = nb["src"].ver + 1
    BY <1>2, <2>1 DEF LossInv, CaptureInv, Bumped
  <2>3. QED
    BY <2>1, <2>2, Versions
<1>3. ASSUME NEW e \in Clients, ex[e].pc = "publish", ex[e].id \notin lifted, cat.at = "src" PROVE FALSE
  <2>1. nb["src"].fence # 0
    BY <1>3 DEF PlaceInv, FenceInv, IdInv
  <2>2. QED
    BY <1>1, <1>3, <2>1 DEF Readable
<1>4. QED
  BY <1>1, <1>2, <1>3, Values DEF Bumped

LEMMA WriterKeptByWrite ==
    ASSUME TypeOK, PlaceInv, LossInv, WriteEffect
    PROVE  WriterInv'
<1> USE Types, Values, ClientsAre, Versions, WriterSteps, WriteAt
<1>1. CASE LosesWorkspace
  <2>1. /\ \A v \in Writers : wr'[v].pc = wr[v].pc /\ wr'[v].kind = wr[v].kind /\ wr'[v].at = wr[v].at
        /\ UNCHANGED <<nb, cat, acked>>
    BY <1>1 DEF LosesWorkspace
  <2>2. \A v \in Writers : ~wr'[v].lost => ~wr[v].lost /\ v # ws
    BY <1>1, Zenon DEF LosesWorkspace
  <2>3. QED
    BY <2>1, <2>2, Types DEF WriterInv, LossInv
<1>2. ASSUME NEW w \in Writers, Arrives(w)
      PROVE  WriterInv'
  <2>1. wr'[w].at \in Projects /\ Readable(wr'[w].at)
    BY <1>2 DEF Arrives, Writes
  <2>2. wr'[w].at = "dst" => cat.at = "dst"
    BY <2>1, Listed DEF PlaceInv
  <2>3. QED
    BY <1>2, <2>2 DEF Arrives, WBase, WriterInv, LossInv
<1>3. ASSUME NEW w \in Writers, WritesMeta(w)
      PROVE  WriterInv'
  BY <1>3 DEF WritesMeta, Did, Bumped, WBase, WriterInv, LossInv, PlaceInv
<1>4. ASSUME NEW w \in Writers, WritesFiles(w)
      PROVE  WriterInv'
  BY <1>4 DEF WritesFiles, Did, Filled, WBase, WriterInv, LossInv, PlaceInv
<1>5. ASSUME NEW w \in Writers, SessionSaves(w)
      PROVE  WriterInv'
  BY <1>5 DEF SessionSaves, Did, Filled, WBase, WriterInv, LossInv, PlaceInv
<1>6. ASSUME NEW w \in Writers, SessionBumps(w)
      PROVE  WriterInv'
  <2>1. /\ UNCHANGED <<cat, ws>> /\ acked' = acked \union {w}
        /\ Did(w, "end") /\ \A p \in Projects : nb'[p].body = nb[p].body
    BY <1>6 DEF SessionBumps, Bumped
  <2>2. QED
    BY <2>1 DEF Did, WriterInv, LossInv
<1>7. ASSUME NEW w \in Writers, NEW s \in WriteSteps, WriterGoes(w, s)
      PROVE  WriterInv'
  BY <1>7 DEF WriterGoes, Did, WriterWay, WBase, WriterInv, LossInv, PlaceInv
<1>8. QED
  BY <1>1, <1>2, <1>3, <1>4, <1>5, <1>6, <1>7 DEF WriteEffect

LEMMA CaptureKeptByWrite ==
    ASSUME TypeOK, PlaceInv, LossInv, WriteEffect
    PROVE  CaptureInv'
<1> USE Types, Values, ClientsAre, Versions, WriterSteps, WriteAt
<1>1. CASE LosesWorkspace
  BY <1>1 DEF LosesWorkspace, WBase, CaptureInv, LossInv
<1>2. ASSUME NEW w \in Writers, Arrives(w)
      PROVE  CaptureInv'
  BY <1>2 DEF Arrives, WBase, CaptureInv, LossInv
<1>3. ASSUME NEW w \in Writers, WritesMeta(w)
      PROVE  CaptureInv'
  BY <1>3 DEF WritesMeta, Did, Bumped, WBase, CaptureInv, LossInv
<1>4. ASSUME NEW w \in Writers, WritesFiles(w)
      PROVE  CaptureInv'
  BY <1>4 DEF WritesFiles, Did, Filled, WBase, CaptureInv, LossInv
<1>5. ASSUME NEW w \in Writers, SessionSaves(w)
      PROVE  CaptureInv'
  BY <1>5 DEF SessionSaves, Did, Filled, WBase, CaptureInv, LossInv
<1>6. ASSUME NEW w \in Writers, SessionBumps(w)
      PROVE  CaptureInv'
  BY <1>6 DEF SessionBumps, Did, Bumped, WBase, CaptureInv, LossInv
<1>7. ASSUME NEW w \in Writers, NEW s \in WriteSteps, WriterGoes(w, s)
      PROVE  CaptureInv'
  BY <1>7 DEF WriterGoes, Did, WriterWay, WBase, CaptureInv, LossInv
<1>8. QED
  BY <1>1, <1>2, <1>3, <1>4, <1>5, <1>6, <1>7 DEF WriteEffect

LEMMA DrainKeptByWrite ==
    ASSUME TypeOK, PlaceInv, LossInv, WriteEffect
    PROVE  DrainInv'
<1> USE Types, Values, ClientsAre, Versions, WriterSteps, WriteAt
<1>1. CASE LosesWorkspace
  BY <1>1 DEF LosesWorkspace, WBase, DrainInv, AsCaptured, Shielded, Drained, Saving, Uploading, Writing, LossInv, PlaceInv
<1>2. ASSUME NEW w \in Writers, Arrives(w)
      PROVE  DrainInv'
  BY <1>2 DEF Arrives, WBase, DrainInv, AsCaptured, Shielded, Drained, Saving, Uploading, Writing, LossInv, PlaceInv
<1>3. ASSUME NEW w \in Writers, WritesMeta(w)
      PROVE  DrainInv'
  <2>1. /\ UNCHANGED <<cat, rec, ex, lifted, late>> /\ Did(w, IF wr[w].kind = "delete" THEN "entry" ELSE "put")
        /\ wr[w].at \in Projects /\ Readable(wr[w].at) /\ Bumped(wr[w].at) /\ wr[w].pc = "meta"
    BY <1>3 DEF WritesMeta, WBase
  <2>2. wr[w].kind # "file"
    BY <2>1 DEF LossInv, WriterInv
  <2>3. Drained' <=> Drained
    BY <2>1 DEF Drained
  <2>4. Drained => ~AsCaptured'
    BY <2>1, BumpOutdates, HasRecord
  <2>5. Shielded' <=> Shielded
    BY <2>1 DEF Shielded, Bumped
  <2>6. cat.at = "dst" /\ cat.by \notin lifted => ~(wr[w].at = "src")
    BY <2>1, Listed DEF PlaceInv
  <2>7. \A v \in Writers : /\ Uploading(v)' => Uploading(v)
                           /\ Saving(v)' => Saving(v) \/ wr[w].at = "src"
    BY <2>1, <2>2 DEF Did, Saving, Uploading, Writing
  <2>8. QED
    BY <2>1, <2>3, <2>4, <2>5, <2>6, <2>7 DEF DrainInv, LossInv
<1>4. ASSUME NEW w \in Writers, WritesFiles(w)
      PROVE  DrainInv'
  BY <1>4 DEF WritesFiles, Did, Filled, WBase, DrainInv, AsCaptured, Shielded, Drained, Saving, Uploading, Writing, LossInv, PlaceInv
<1>5. ASSUME NEW w \in Writers, SessionSaves(w)
      PROVE  DrainInv'
  BY <1>5 DEF SessionSaves, Did, Filled, WBase, DrainInv, AsCaptured, Shielded, Drained, Saving, Uploading, Writing, LossInv, PlaceInv
<1>6. ASSUME NEW w \in Writers, SessionBumps(w)
      PROVE  DrainInv'
  BY <1>6 DEF SessionBumps, Did, Bumped, WBase, DrainInv, AsCaptured, Shielded, Drained, Saving, Uploading, Writing, LossInv, PlaceInv,
     CaptureInv, IdInv, LeaseInv, Pending
<1>7. ASSUME NEW w \in Writers, NEW s \in WriteSteps, WriterGoes(w, s)
      PROVE  DrainInv'
  <2>1. /\ UNCHANGED <<nb, rec, ex, lifted, late>> /\ cat'.at = cat.at /\ cat'.by = cat.by /\ Did(w, s)
        /\ s = "put" => wr[w].pc = "check" /\ wr[w].kind = "file" /\ Readable(wr[w].at)
    BY <1>7 DEF WriterGoes, WriterWay, WBase
  <2>2. \A v \in Writers : /\ Saving(v)' => Saving(v)
                           /\ Uploading(v)' => Uploading(v) \/ Readable("src")
    BY <2>1 DEF Did, Saving, Uploading, Writing
  <2>3. Drained /\ Shielded => ~Readable("src")
    BY HasRecord DEF Shielded, Readable
  <2>4. cat.at = "dst" /\ cat.by \notin lifted => ~Readable("src")
    BY Listed DEF PlaceInv
  <2>5. (Drained' <=> Drained) /\ (AsCaptured' <=> AsCaptured) /\ (Shielded' <=> Shielded)
    BY <2>1 DEF Drained, AsCaptured, Shielded
  <2>6. QED
    BY <2>1, <2>2, <2>3, <2>4, <2>5 DEF DrainInv, LossInv
<1>8. QED
  BY <1>1, <1>2, <1>3, <1>4, <1>5, <1>6, <1>7 DEF WriteEffect

LEMMA AckKeptByWrite ==
    ASSUME TypeOK, PlaceInv, LossInv, WriteEffect
    PROVE  AckInv'
<1> USE Types, Values, ClientsAre, Versions, WriterSteps, WriteAt
<1>1. CASE LosesWorkspace
  BY <1>1 DEF LosesWorkspace, WBase, AckInv, AsCaptured, Shielded, Copied, LossInv, PlaceInv
<1>2. ASSUME NEW w \in Writers, Arrives(w)
      PROVE  AckInv'
  <2>1. \A v \in acked : wr'[v] = wr[v]
    BY <1>2, Types DEF Arrives, LossInv, WriterInv
  <2>2. UNCHANGED <<nb, cat, rec, ex, acked, lifted, late>>
    BY <1>2 DEF Arrives, WBase
  <2>3. QED
    BY <2>1, <2>2 DEF AckInv, AsCaptured, Shielded, Copied, LossInv
<1>3. ASSUME NEW w \in Writers, WritesMeta(w)
      PROVE  AckInv'
  <2>1. /\ wr[w].at \in Projects /\ Readable(wr[w].at) /\ Bumped(wr[w].at)
        /\ UNCHANGED <<cat, rec, ex, lifted, late>> /\ wr'[w].kind = wr[w].kind
        /\ \A v \in Writers : v # w => wr'[v] = wr[v]
    BY <1>3 DEF WritesMeta, Did, WBase
  <2>2. /\ cat.at = wr[w].at \/ (cat.at = "dst" /\ cat.by \in lifted)
        /\ Copied => ~AsCaptured'
        /\ \A e \in Clients : ex[e].pc = "publish" /\ ex[e].id \notin lifted => cat.at # "src"
        /\ nb'["src"].body = nb["src"].body /\ nb'["dst"].body = nb["dst"].body
    BY <2>1, BumpOutdates, HasRecord
  <2>3. (Copied' <=> Copied) /\ (Shielded' <=> Shielded) /\ \A v \in Writers : wr'[v].kind = wr[v].kind
    BY <2>1 DEF Copied, Shielded, Bumped
  <2>4. acked' = acked
    BY <1>3 DEF WritesMeta
  <2>5. QED
    BY <2>1, <2>2, <2>3, <2>4, Types DEF AckInv, LossInv
<1>4. ASSUME NEW w \in Writers, WritesFiles(w)
      PROVE  AckInv'
  BY <1>4 DEF WritesFiles, Did, Filled, WBase, AckInv, AsCaptured, Shielded, Copied, LossInv, PlaceInv, DrainInv,
     Drained, Saving, Uploading, Writing, WriterInv, PhaseInv
<1>5. ASSUME NEW w \in Writers, SessionSaves(w)
      PROVE  AckInv'
  BY <1>5 DEF SessionSaves, Did, Filled, WBase, AckInv, AsCaptured, Shielded, Copied, LossInv, PlaceInv
<1>6. ASSUME NEW w \in Writers, SessionBumps(w)
      PROVE  AckInv'
  <2>1. /\ wr[w].at \in Projects /\ Readable(wr[w].at) /\ Bumped(wr[w].at)
        /\ UNCHANGED <<cat, rec, ex, lifted, late>> /\ wr'[w].kind = wr[w].kind
        /\ \A v \in Writers : v # w => wr'[v] = wr[v]
    BY <1>6 DEF SessionBumps, Did, WBase
  <2>2. /\ cat.at = wr[w].at \/ (cat.at = "dst" /\ cat.by \in lifted)
        /\ Copied => ~AsCaptured'
        /\ \A e \in Clients : ex[e].pc = "publish" /\ ex[e].id \notin lifted => cat.at # "src"
        /\ nb'["src"].body = nb["src"].body /\ nb'["dst"].body = nb["dst"].body
    BY <2>1, BumpOutdates, HasRecord
  <2>3. (Copied' <=> Copied) /\ (Shielded' <=> Shielded) /\ \A v \in Writers : wr'[v].kind = wr[v].kind
    BY <2>1 DEF Copied, Shielded, Bumped
  <2>4. acked' = acked \union {w} /\ (cat.at = wr[w].at => w \in nb[cat.at].body)
    BY <1>6 DEF SessionBumps, WriterInv, LossInv
  <2>5. Copied => ~Shielded
    BY <2>1, <2>2, HasRecord DEF Shielded, Readable
  <2>6. QED
    BY <2>1, <2>2, <2>3, <2>4, <2>5, Types DEF AckInv, LossInv
<1>7. ASSUME NEW w \in Writers, NEW s \in WriteSteps, WriterGoes(w, s)
      PROVE  AckInv'
  BY <1>7 DEF WriterGoes, Did, WriterWay, WBase, AckInv, AsCaptured, Shielded, Copied, LossInv, PlaceInv
<1>8. QED
  BY <1>1, <1>2, <1>3, <1>4, <1>5, <1>6, <1>7 DEF WriteEffect

-----------------------------------------------------------------------------
(* The theorems. *)

LEMMA TypeStep ==
    ASSUME TypeOK, [Next]_vars
    PROVE  TypeOK'
<1>1. CASE Next
  <2>1. Effect \/ WriterChange
    BY <1>1, StepEffect, WritesAre
  <2>2. TypesHold'
    BY <2>1, TypesKept
  <2>3. (TypeOK <=> TypesHold)'
    BY TypesAre, PTL
  <2>4. QED
    BY <2>2, <2>3
<1>2. CASE UNCHANGED vars
  BY <1>2 DEF vars, moveVars, writeVars, TypeOK
<1>3. QED
  BY <1>1, <1>2

LEMMA InitTypes == Init => TypeOK
<1> SUFFICES ASSUME Init PROVE TypeOK
  OBVIOUS
<1> DEFINE full == [NoObjects EXCEPT !.meta = TRUE, !.files = TRUE]
<1>1. full \in Objects
  BY Defaults DEF Objects
<1> HIDE DEF full
<1>2. nb \in [Projects -> Objects]
  BY <1>1, Defaults DEF Init, full
<1>3. 0 \in 0..MaxMoves /\ 1 \in 1..MaxMoves + 1 /\ 0 \in 0..MaxFaults
  BY MoveAssumption
<1>4. TypesHold
  BY <1>2, <1>3, Defaults DEF TypesHold, Init, Entries, Projects
<1>5. QED
  BY <1>4, TypesAre

\* Every variable keeps its type, whatever clients, writers and faults do: the move ids
\* of the fences, the record and the requests stay among the ids given out.
THEOREM TypeCorrect == Spec => []TypeOK
<1>1. TypeOK /\ [Next]_vars => TypeOK'
  BY TypeStep
<1>2. QED
  BY InitTypes, <1>1, PTL DEF Spec

LEMMA InitPlace == Init => PlaceInv
<1> SUFFICES ASSUME Init PROVE PlaceInv
  OBVIOUS
<1>1. /\ nb["src"].meta = TRUE /\ nb["src"].files = TRUE /\ nb["src"].fence = 0
      /\ nb["dst"].meta = FALSE /\ nb["dst"].fence = 0
  BY Defaults DEF Init, Projects, NoObjects
<1>2. /\ rec.id = 0 /\ rec.phase = "none" /\ rec.by = None /\ cat.at = "src" /\ nextId = 1
      /\ \A e \in Clients : ex[e].pc = "idle" /\ ex[e].id = 0
  BY Defaults DEF Init
<1>3. LeaseInv
  BY <1>2, ClientsAre DEF LeaseInv, Sure
<1>4. IdInv
  BY <1>1, <1>2 DEF IdInv, Projects
<1>5. PhaseInv
  BY <1>2, ClientsAre DEF PhaseInv, AfterPublication
<1>6. FenceInv /\ WholeInv
  BY <1>1, <1>2, ClientsAre DEF FenceInv, WholeInv, Whole
<1>7. QED
  BY <1>3, <1>4, <1>5, <1>6 DEF PlaceInv

LEMMA PlaceStep ==
    ASSUME TypeOK, ~StalePosts, PlaceInv, [Next]_vars
    PROVE  PlaceInv'
<1>1. CASE Next
  BY <1>1, StepEffect, PlaceKept
<1>2. CASE UNCHANGED vars
  BY <1>2 DEF vars, moveVars, writeVars, PlaceInv, LeaseInv, IdInv, PhaseInv, FenceInv, WholeInv,
     Whole, Pending
<1>3. QED
  BY <1>1, <1>2

\* The place invariant holds, if no post outlives the move it belongs to.
LEMMA PlaceHolds == ~StalePosts => (Spec => []PlaceInv)
<1> SUFFICES ASSUME ~StalePosts PROVE Spec => []PlaceInv
  OBVIOUS
<1>1. TypeOK /\ PlaceInv /\ [Next]_vars => PlaceInv'
  BY PlaceStep
<1>2. QED
  BY TypeCorrect, InitPlace, <1>1, PTL DEF Spec

\* A copy that can be read is the one the catalog lists: for any number of clients that
\* post and cancel the move, and any number of crashes, failed requests, lost leases and
\* stale reads.  Only the source of a move that a cancel unfenced after a stale read can be
\* read besides, and never a copy that is not listed.  The hypothesis is the one of run
\* move_runs: a post that passed its checks before a move completed does not reach the
\* lease after it; run move_cancel shows what happens if it does.
THEOREM ReadableIsListedHolds == ~StalePosts => (Spec => []ReadableIsListed)
<1>1. TypeOK /\ PlaceInv => ReadableIsListed
  BY Listed DEF ReadableIsListed, PlaceInv, Projects
<1>2. QED
  BY TypeCorrect, PlaceHolds, <1>1, PTL

\* The project that the catalog lists holds the metadata and the files of the notebook.
ListedIsWhole == nb[cat.at].meta /\ nb[cat.at].files

\* Whatever writers do, file uploads included, and however often executors lose their
\* leases: the listed copy is whole at every step of the copy, the publication, the
\* removal of the source and the wipe of a cancelled copy.
THEOREM ListedIsWholeHolds == ~StalePosts => (Spec => []ListedIsWhole)
<1>1. PlaceInv => ListedIsWhole
  BY DEF ListedIsWhole, PlaceInv, WholeInv, Whole
<1>2. QED
  BY PlaceHolds, <1>1, PTL

LEMMA InitLoss == Init => LossInv
<1> SUFFICES ASSUME Init PROVE LossInv
  OBVIOUS
<1>1. /\ rec.id = 0 /\ rec.phase = "none" /\ rec.by = None /\ cat.at = "src" /\ acked = {}
      /\ \A e \in Clients : ex[e].pc = "idle"
  BY Defaults DEF Init
<1>2. \A w \in Writers : wr[w].pc = "idle" /\ wr[w].at = "src"
  BY DEF Init, NoWrite
<1>3. WriterInv
  BY <1>1, <1>2 DEF WriterInv
<1>4. CaptureInv
  BY <1>1, ClientsAre DEF CaptureInv
<1>5. DrainInv /\ AckInv
  BY <1>1, ClientsAre DEF DrainInv, AckInv, Drained, Copied
<1>6. QED
  BY <1>3, <1>4, <1>5 DEF LossInv

LEMMA LossStep ==
    ASSUME TypeOK, PlaceInv, LossInv, [Next]_vars
    PROVE  LossInv'
<1>1. CASE Effect
  BY <1>1, WriterKept, CaptureKept, DrainKept, AckKept DEF LossInv
<1>2. CASE WriteEffect
  BY <1>2, WriterKeptByWrite, CaptureKeptByWrite, DrainKeptByWrite, AckKeptByWrite DEF LossInv
<1>3. CASE UNCHANGED vars
  BY <1>3 DEF vars, moveVars, writeVars, LossInv, WriterInv, CaptureInv, DrainInv, AckInv,
     AsCaptured, Shielded, Drained, Copied, Saving, Uploading, Writing
<1>4. QED
  BY <1>1, <1>2, <1>3, StepEffect

\* No acknowledged save, upload, session commit or delete is lost by a move: the project
\* that the catalog lists holds the whole notebook with every write whose caller was told
\* that it succeeded, for any number of clients, writers, moves and faults.  NothingLost
\* excepts a move whose fence a cancel lifted and, for uploads, one that was fenced late;
\* the hypothesis is that of ReadableIsListedHolds.
THEOREM NothingLostHolds == ~StalePosts => (Spec => []NothingLost)
<1> SUFFICES ASSUME ~StalePosts PROVE Spec => []NothingLost
  OBVIOUS
<1>1. TypeOK /\ PlaceInv /\ LossInv /\ [Next]_vars => LossInv'
  BY LossStep
<1>2. TypeOK /\ PlaceInv /\ LossInv => NothingLost
  <2> SUFFICES ASSUME TypeOK, PlaceInv, LossInv PROVE NothingLost
    OBVIOUS
  <2>1. nb[cat.at].meta /\ nb[cat.at].files
    BY DEF PlaceInv, WholeInv, Whole
  <2>2. ASSUME cat.by \notin lifted, NEW w \in acked, wr[w].kind = "file" => cat.by \notin late
        PROVE  w \in nb[cat.at].body
    BY <2>2, Values DEF LossInv, AckInv
  <2>3. QED
    BY <2>1, <2>2 DEF NothingLost
<1>3. QED
  BY TypeCorrect, PlaceHolds, InitLoss, <1>1, <1>2, PTL DEF Spec
=============================================================================
