----------------------------- MODULE MCAppPool -----------------------------
(***************************************************************************)
(* An instance of AppPool for TLC.                                         *)
(***************************************************************************)
EXTENDS AppPool

CONSTANT First  \* the visitor of the app that is already open

\* An app that is already open: session 1 runs version 1, and First visits it.
Established ==
    /\ source = 1 /\ cutoff = 0
    /\ ver = [v \in Versions |-> IF v = 1 THEN "kept" ELSE "none"]
    /\ saver = [w \in Savers |-> NoSave]
    /\ pool = [st |-> [s \in Sessions |-> IF s = 1 THEN "ready" ELSE "none"],
               rep |-> [s \in Sessions |-> 0],
               asg |-> [x \in Visitors |-> IF x = First THEN 1 ELSE 0],
               idle |-> {}, latest |-> 1, deleted |-> FALSE]
    /\ pin = [s \in Sessions |-> IF s = 1 THEN 1 ELSE 0]
    /\ rec = [s \in Sessions |-> IF s = 1 THEN "running" ELSE "none"]
    /\ checked = {1}
    /\ box = [s \in Sessions |-> IF s = 1 THEN "ready" ELSE "none"]
    /\ req = [c \in Clients |-> NoRequest]
    /\ sweep = NoSweep
    /\ late = {} /\ lapsed = {} /\ due = {}
    /\ events = 0

MCSpec == (Init \/ Established) /\ [][Next]_vars /\ Fairness

=============================================================================
