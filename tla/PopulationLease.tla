--------------------------- MODULE PopulationLease ---------------------------
(***************************************************************************)
(* What the lease on the population of one organization promises: it is    *)
(* had by one run at a time, without a break and never again after that;   *)
(* its heartbeat never goes back; and it is taken from a run only when     *)
(* more than Lease has passed since the heartbeat.                         *)
(***************************************************************************)
EXTENDS Naturals

CONSTANTS Run, Lease

VARIABLES now,      \* the clock
          holders,  \* the run that has the lease, if any
          beat,     \* the heartbeat it last wrote, or when the lease was released
          past      \* runs whose time with the lease is over

lvars == <<now, holders, beat, past>>

Init == now = 0 /\ holders = {} /\ beat = 0 /\ past = {}

Tick ==
  /\ now' = now + 1
  /\ UNCHANGED <<holders, beat, past>>

Take(r) ==
  /\ r \notin holders \cup past
  /\ holders = {} \/ now > beat + Lease
  /\ holders' = {r}
  /\ beat' \in 0 .. now
  /\ past' = past \cup holders
  /\ UNCHANGED now

Renew(r) ==
  /\ r \in holders
  /\ beat' \in beat .. now
  /\ UNCHANGED <<now, holders, past>>

Release(r) ==
  /\ r \in holders
  /\ holders' = {}
  /\ beat' = now
  /\ past' = past \cup {r}
  /\ UNCHANGED now

Next == Tick \/ \E r \in Run : Take(r) \/ Renew(r) \/ Release(r)

Spec == Init /\ [][Next]_lvars
=============================================================================
