---------------------------- MODULE MCEncoders ------------------------------
(* A batch encode; one live encode with a fault, and one with two, so that *)
(* a child hangs and is then cancelled; a connection that publishes twice; *)
(* the listener.                                                           *)
EXTENDS Encoders

Scenario(k, p, c, f) ==
  [kind |-> k, publishes |-> p, chunks |-> c, faults |-> f]

MCScenarios ==
  {Scenario("batch", 0, 2, 1), Scenario("live", 1, 2, 1),
   Scenario("live", 1, 1, 2), Scenario("live", 2, 0, 1),
   Scenario("listen", 0, 0, 1)}
=============================================================================
