-------------------------- MODULE MCDemoPopulation --------------------------
(* Instances of DemoPopulation for TLC. *)
EXTENDS DemoPopulation

CONSTANTS r1, r2

TwoRuns == {r1, r2}
OneKeepsGoing == {r1}
=============================================================================
