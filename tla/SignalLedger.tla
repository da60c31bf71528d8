---------------------------- MODULE SignalLedger ----------------------------
(***************************************************************************)
(* What the signal pipeline promises of the database, whoever runs it: for *)
(* each dedupe key a signal is recorded, then classified, then routed, one *)
(* stage at a time; no stage is ever undone, and the decision taken when   *)
(* the signal was classified is the decision the route carries out.        *)
(***************************************************************************)
CONSTANT Key            \* dedupe keys of customer signals

VARIABLES stage,        \* how far the rows of a key have got
          decision      \* the persisted classification: none yet, ignore, act

lvars == <<stage, decision>>

Stage == {"absent", "recorded", "classified", "routed"}
Decision == {"none", "ignore", "act"}

Init ==
  /\ stage = [k \in Key |-> "absent"]
  /\ decision = [k \in Key |-> "none"]

Record(k) ==
  /\ stage[k] = "absent"
  /\ stage' = [stage EXCEPT ![k] = "recorded"]
  /\ UNCHANGED decision

Classify(k) ==
  /\ stage[k] = "recorded"
  /\ stage' = [stage EXCEPT ![k] = "classified"]
  /\ \E d \in {"ignore", "act"} : decision' = [decision EXCEPT ![k] = d]

Route(k) ==
  /\ stage[k] = "classified"
  /\ stage' = [stage EXCEPT ![k] = "routed"]
  /\ UNCHANGED decision

Next == \E k \in Key : Record(k) \/ Classify(k) \/ Route(k)

Spec == Init /\ [][Next]_lvars
=============================================================================
