----------------------------- MODULE MCWarmPool -----------------------------
(***************************************************************************)
(* An instance of WarmPool for TLC.                                        *)
(***************************************************************************)
EXTENDS WarmPool

CONSTANTS
    Spare,      \* a second sandbox, for the third case below
    Second      \* a second session, which comes after the first

PoolSize == [r \in Sweepers |-> 1]

\* The sandbox Spare has not been created.
Unspared == mem[Spare] = NoMember /\ flight[Spare] = "no" /\ by[Spare] = None

\* The cases explored together: one route and the reconciler with a fault, the case that
\* liveness is about (every fair step stays in it); two routes, with a fault or with a
\* sweep; the filling of a pool nobody claims from.
Cases ==
    \/ Spare \notin fresh /\ Unspared /\ spc[Second] = "idle"
    \/ /\ Spare \notin fresh /\ Unspared /\ opc = "idle"
       /\ faults = 0 \/ \A r \in Sweepers : wpc[r] = "idle"
       /\ spc[Second] # "idle" => \A s \in Sessions : spc[s] # "idle"
    \/ /\ opc = "idle" /\ clean = [a \in Actors |-> NoCleanup]
       /\ \A s \in Sessions : spc[s] = "idle"

=============================================================================
