--------------------------- MODULE MCLiveSession ----------------------------
(* Small instances of LiveSession: the cfg files choose the bounds. *)
EXTENDS LiveSession

MCDirectOnly == [p \in Patterns |-> IF p = "direct" THEN 1 ELSE 0]
MCNone == [p \in Patterns |-> 0]
MCShellOnly == [p \in Patterns |-> IF p = "shell" THEN 1 ELSE 0]
=============================================================================
