----------------------------- MODULE MCRoutes -------------------------------
(* Three requests on one name, with two payers: a gateway session's start; *)
(* a stream's start, a submission or a top-up; and a request about a       *)
(* session.  A ticket stands for its sender, too.                          *)
EXTENDS Routes, TLC

CONSTANTS q1, q2, q3

MCMayUse == (q1 :> {"session"}) @@
            (q2 :> {"vod", "abr", "stream", "topup"}) @@
            (q3 :> {"topup", "streamTopup", "end", "stop", "params", "status",
                   "streamStatus"})
MCSenderOf == [t \in Tickets |-> t]
MCRunners == {{"vod", "abr", "live"}, {"abr"}}
MCSymmetry == Permutations(Tickets)
=============================================================================
