----------------------------- MODULE CatalogAbs -----------------------------
(***************************************************************************)
(* What the catalog promises its callers, with no snapshots, no ETags and  *)
(* no retries: one value (the set of index entries), calls that take       *)
(* effect atomically and at most once, and answers that tell the truth.    *)
(*                                                                         *)
(*   - "ok"       : the call took effect (or, for initialize, a catalog    *)
(*                  was there);                                            *)
(*   - "noop"     : the appended entry was already there, nothing changed; *)
(*   - "conflict", "refused" : the call did not take effect;               *)
(*   - "error", "crashed"    : the caller cannot tell. A call abandoned    *)
(*                  with its last request in flight may still take effect. *)
(*                                                                         *)
(* Module Catalog is shown to implement this specification.                *)
(***************************************************************************)
EXTENDS Naturals

CONSTANTS
    Procs,      \* concurrent calls into the CatalogService
    Entries,    \* index entries (notebooks) a call appends or removes
    Jobs,       \* what a call may ask for: records [kind, entry]
    NoJob       \* the job of an idle slot

VARIABLES
    value,      \* [exists, entries]: whether a catalog exists and what it lists
    lost,       \* TRUE iff a catalog that listed something has disappeared
    state,      \* state[p] in {"idle", "pending", "applied", "abandoned"}
    job,        \* job[p]: what call p asks for
    last        \* last[p]: the answer to p's last call

vars == <<value, lost, state, job, last>>

NoValue == [exists |-> FALSE, entries |-> {}]

Answers == {"none", "ok", "noop", "conflict", "refused", "error", "crashed"}

\* The entries after job j has been applied to a catalog that lists old.
Effect(j, old) ==
    CASE j.kind = "append" -> old \union {j.entry}
      [] j.kind = "remove" -> old \ {j.entry}
      [] OTHER -> {}

Init ==
    /\ value = NoValue
    /\ lost = FALSE
    /\ state = [p \in Procs |-> "idle"]
    /\ job = [p \in Procs |-> NoJob]
    /\ last = [p \in Procs |-> "none"]

Invoke(p, j) ==
    /\ state[p] = "idle"
    /\ state' = [state EXCEPT ![p] = "pending"]
    /\ job' = [job EXCEPT ![p] = j]
    /\ last' = [last EXCEPT ![p] = "none"]
    /\ UNCHANGED <<value, lost>>

(***************************************************************************)
(* The effect of call p. initialize creates an empty catalog, but never    *)
(* where one that listed something was lost; recovery replaces whatever is *)
(* there by any set of entries; the other calls modify the existing value. *)
(***************************************************************************)
TakeEffect(p) ==
    \/ /\ job[p].kind = "init"
       /\ ~value.exists
       /\ ~lost
       /\ value' = [exists |-> TRUE, entries |-> {}]
       /\ UNCHANGED lost
    \/ /\ job[p].kind = "recover"
       /\ \E new \in SUBSET Entries : value' = [exists |-> TRUE, entries |-> new]
       /\ lost' = FALSE
    \/ /\ job[p].kind \in {"append", "remove"}
       /\ value.exists
       /\ value' = [exists |-> TRUE, entries |-> Effect(job[p], value.entries)]
       /\ UNCHANGED lost

Apply(p) ==
    /\ state[p] = "pending"
    /\ TakeEffect(p)
    /\ state' = [state EXCEPT ![p] = "applied"]
    /\ UNCHANGED <<job, last>>

\* Which answers are truthful for call p in its present state.
Truthful(p, answer) ==
    CASE answer = "ok"   -> state[p] = "applied" \/ (job[p].kind = "init" /\ value.exists)
      [] answer = "noop" -> /\ state[p] = "pending"
                            /\ job[p].kind = "append"
                            /\ job[p].entry \in value.entries
      [] answer \in {"conflict", "refused"} -> state[p] = "pending"
      [] answer \in {"error", "crashed"} -> TRUE
      [] OTHER -> FALSE

Return(p, answer) ==
    /\ state[p] \in {"pending", "applied"}
    /\ Truthful(p, answer)
    /\ state' = [state EXCEPT ![p] = "idle"]
    /\ job' = [job EXCEPT ![p] = NoJob]
    /\ last' = [last EXCEPT ![p] = answer]
    /\ UNCHANGED <<value, lost>>

\* The caller is answered "error" while its last request is still in flight.
Abandon(p) ==
    /\ state[p] = "pending"
    /\ state' = [state EXCEPT ![p] = "abandoned"]
    /\ last' = [last EXCEPT ![p] = "error"]
    /\ UNCHANGED <<value, lost, job>>

Settle(p) ==
    /\ state[p] = "abandoned"
    /\ TakeEffect(p) \/ UNCHANGED <<value, lost>>
    /\ state' = [state EXCEPT ![p] = "idle"]
    /\ job' = [job EXCEPT ![p] = NoJob]
    /\ UNCHANGED last

\* The environment loses the catalog object (an operator's mistake, a bad restore).
Lose ==
    /\ value.exists
    /\ value' = NoValue
    /\ lost' = (lost \/ value.entries # {})
    /\ UNCHANGED <<state, job, last>>

Next ==
    \/ \E p \in Procs :
        \/ \E j \in Jobs : Invoke(p, j)
        \/ Apply(p)
        \/ \E answer \in Answers : Return(p, answer)
        \/ Abandon(p)
        \/ Settle(p)
    \/ Lose

Spec == Init /\ [][Next]_vars
=============================================================================
