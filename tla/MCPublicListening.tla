------------------------- MODULE MCPublicListening -------------------------
(* One sync of a population run beside one Temporal activity. *)
EXTENDS PublicListening

CONSTANTS s1, s2, a

Syncs == {s1, s2}
PopulationSync == {s1}
OneItem == {a}
=============================================================================
