---------------------------- MODULE MCLiveTable -----------------------------
(* Two connections and a paid session of one stream, and one request that  *)
(* ends the session or stops the stream.  A limit of one stream makes the  *)
(* check in Accept refuse, and loses nothing else: a connection may have   *)
(* passed it any time before.                                              *)
EXTENDS LiveTable, TLC

CONSTANTS s1, c1, c2, q1, e1

MCStreamOf == (c1 :> s1) @@ (c2 :> s1) @@ (q1 :> s1) @@ (e1 :> s1)

MCSymmetry == Permutations(Conns)
=============================================================================
