----------------------------- MODULE MCCatalog -----------------------------
(***************************************************************************)
(* Instances of Catalog for TLC.                                           *)
(***************************************************************************)
EXTENDS Catalog, TLC

\* Calls, sweeps and notebooks are interchangeable.
Symmetry == Permutations(Procs) \union Permutations(Reapers) \union Permutations(Entries)

\* The cases explored together: many commits at one time; few of them with the clock
\* running and a retention sweep; few of them, and no removals, with catalog.json lost
\* and recovered.
Uses(k) == (\E p \in Procs : job[p].kind = k) \/ (\E s \in SnapIds : body[s].kind = k)
Recovering == losses > 0 \/ Uses("recover") \/ \E p \in Procs : last[p] = "refused"
ToUpload == {p \in Procs : pc[p] # "idle" /\ loc[p].mine = NoSnap}

Cases ==
    \/ /\ now = 0 /\ \A r \in Reapers : rpc[r] = "idle"
       /\ Recovering => /\ nextId + Cardinality(ToUpload) <= 4
                        /\ \A p \in Procs : loc[p].tries = 0
                        /\ ~Uses("remove")
    \/ ~Recovering /\ nextId <= 3 /\ \E p \in Procs : pc[p] = "idle"

=============================================================================
