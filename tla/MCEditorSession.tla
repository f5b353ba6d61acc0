-------------------------- MODULE MCEditorSession --------------------------
(***************************************************************************)
(* Instances of EditorSession for TLC: a first user's session, and those   *)
(* of a second user, who takes over.                                       *)
(***************************************************************************)
EXTENDS EditorSession

CONSTANTS first, second,    \* the users
          s1                \* the first user's session

SessionOwner == [s \in Sessions |-> IF s = s1 THEN first ELSE second]
TakenOverBy == [t \in Takeovers |-> second]

=============================================================================
