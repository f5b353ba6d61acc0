------------------------- MODULE MCNotebookContent -------------------------
(***************************************************************************)
(* An instance of NotebookContent for TLC.                                 *)
(***************************************************************************)
EXTENDS NotebookContent, TLC

\* A project that has one notebook already.
Established ==
    /\ rec = [n \in Notebooks |-> IF n = 1 THEN NewRecord ELSE NoRecord]
    /\ entry = [n \in Notebooks |-> IF n = 1 THEN Projected(NewRecord, NoEntry, TRUE) ELSE NoEntry]
    /\ files = {1} /\ aged = {} /\ count = 1
    /\ fresh = {}
    /\ idem = [k \in Keys |-> 0]
    /\ next = 2
    /\ req = [c \in Clients |-> NoRequest]
    /\ sweep = NoSweep
    /\ events = 0
    /\ hurt = {} /\ unsure = {} /\ overlaps = {}
    /\ told = [k \in Keys |-> {}]

MCSpec == (Init \/ Established) /\ [][Next]_vars /\ Fairness

=============================================================================
