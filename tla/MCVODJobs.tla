----------------------------- MODULE MCVODJobs ------------------------------
(* Small instances of VODJobs: the cfg files choose the bounds. *)
EXTENDS VODJobs, TLC

MCFirst == CHOOSE j \in Jobs : TRUE

(* One job is submitted once and paid for; the other twice, either way. *)
MCOffers == [j \in Jobs |-> IF j = MCFirst THEN Accounts \cup {Free}
                                           ELSE Accounts]
MCFirstTwice == [j \in Jobs |-> IF j = MCFirst THEN 2 ELSE 1]
MCOnce == [j \in Jobs |-> 1]
=============================================================================
