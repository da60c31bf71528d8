------------------------ MODULE MCSignalProcessing ------------------------
(* SignalProcessing on a small instance: two keys, so that traffic on one is *)
(* unaffected by the other, and enough workers for a race and a late event.  *)
EXTENDS SignalProcessing, TLC

CONSTANTS k1, k2, w1, w2, w3

OneKey == {k1}
TwoKeys == {k1, k2}
TwoWorkers == {w1, w2}
ThreeWorkers == {w1, w2, w3}
Symmetry == Permutations(ThreeWorkers)
=============================================================================
