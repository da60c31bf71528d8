------------------------- MODULE SignalLedgerProofs -------------------------
(***************************************************************************)
(* process_signal, however many attempts run it, implements SignalLedger:  *)
(* each step of a worker advances one key by one stage or changes nothing  *)
(* of the ledger.                                                          *)
(***************************************************************************)
EXTENDS SignalProcessingProofs

stages == [k \in Key |-> Stage(k)]
decisions == [k \in Key |-> Decision(k)]

\* Empty tables are the empty ledger.
LEMMA LedgerInit == Init => Ledger!Init
BY DEF Init, Ledger!Init, Stage, Decision, Classified, Routed

\* A step that leaves the three tables alone is a stutter of the ledger.
LEMMA LedgerStutter ==
  ASSUME UNCHANGED <<signals, classifications, routes>>
  PROVE  UNCHANGED <<stages, decisions>>
BY DEF stages, decisions, Stage, Decision, Classified, Routed

\* record_signal commits: absent becomes recorded.
LEMMA LedgerRecord ==
  ASSUME IInv, NEW w \in Worker, RecordSignal(w)
  PROVE  Ledger!Next \/ UNCHANGED <<stages, decisions>>
<1>1. CASE key[w] \in signals
  BY <1>1, LedgerStutter DEF RecordSignal
<1>2. CASE key[w] \notin signals
  <2> DEFINE k == key[w]
  <2>1. /\ k \in Key /\ signals' = signals \cup {k}
        /\ UNCHANGED <<classifications, routes>>
    BY <1>2 DEF IInv, TypeOK, RecordSignal
  <2>2. ~Classified(k) /\ ~Routed(k)
    BY <1>2 DEF IInv, ClassificationsKeyed, RoutesFollowTheirClassification, Classified, Routed
  <2> HIDE DEF k
  <2>3. stages[k] = "absent"
    BY <1>2, <2>1, <2>2 DEF stages, Stage, k
  <2>4. stages' = [stages EXCEPT ![k] = "recorded"]
    BY <2>1, <2>2 DEF stages, Stage, Classified, Routed
  <2>5. UNCHANGED decisions
    BY <2>1 DEF decisions, Decision, Classified
  <2> QED
    BY <2>1, <2>3, <2>4, <2>5 DEF Ledger!Next, Ledger!Record, stages, decisions
<1> QED
  BY <1>1, <1>2

\* record_classification commits: recorded becomes classified, once and for all.
LEMMA LedgerClassify ==
  ASSUME IInv, NEW w \in Worker, RecordClassification(w)
  PROVE  Ledger!Next \/ UNCHANGED <<stages, decisions>>
<1>1. CASE Classified(key[w])
  BY <1>1, LedgerStutter DEF RecordClassification
<1>2. CASE ~Classified(key[w])
  <2> DEFINE k == key[w]
             new == ClassificationOf(w, nextId)
             d == IF new.ignore THEN "ignore" ELSE "act"
  <2>1. /\ k \in Key /\ k \in signals /\ classifications' = classifications \cup {new}
        /\ UNCHANGED <<signals, routes>>
    BY <1>2 DEF IInv, TypeOK, RecordClassification, VerdictsCoherent, VerdictIsCoherent, Running
  <2>2. ~Classified(k) /\ ~Routed(k) /\ new.signal = k
    BY <1>2 DEF IInv, RoutesFollowTheirClassification, Classified, Routed, ClassificationOf
  <2>3. d \in {"ignore", "act"}
    OBVIOUS
  <2>4. d = IF new.ignore THEN "ignore" ELSE "act"
    OBVIOUS
  <2> HIDE DEF k, new, d
  <2>5. stages[k] = "recorded"
    BY <2>1, <2>2 DEF stages, Stage
  <2>6. stages' = [stages EXCEPT ![k] = "classified"]
    BY <2>1, <2>2 DEF stages, Stage, Classified, Routed
  <2>7. decisions' = [decisions EXCEPT ![k] = d]
    BY <2>1, <2>2, <2>4 DEF decisions, Decision, Classified
  <2> QED
    BY <2>1, <2>3, <2>5, <2>6, <2>7 DEF Ledger!Next, Ledger!Classify, stages, decisions
<1> QED
  BY <1>1, <1>2

\* record_route commits: classified becomes routed, and the decision stands.
LEMMA LedgerRoute ==
  ASSUME IInv, NEW w \in Worker, RecordRoute(w)
  PROVE  Ledger!Next \/ UNCHANGED <<stages, decisions>>
<1>1. CASE Routed(key[w])
  BY <1>1, LedgerStutter DEF RecordRoute
<1>2. CASE ~Routed(key[w])
  <2> DEFINE k == key[w]
             row == [signal |-> key[w], classification |-> cid[w], rule |-> verdict[w].rule]
  <2>1. /\ k \in Key /\ routes' = routes \cup {row} /\ row.signal = k
        /\ UNCHANGED <<signals, classifications>>
    BY <1>2 DEF IInv, TypeOK, RecordRoute
  <2>2. Classified(k) /\ ~Routed(k)
    BY <1>2 DEF IInv, RouterHoldsClassification, RecordRoute, Classified
  <2> HIDE DEF k, row
  <2>3. stages[k] = "classified"
    BY <2>1, <2>2 DEF stages, Stage
  <2>4. stages' = [stages EXCEPT ![k] = "routed"]
    BY <2>1, <2>2 DEF stages, Stage, Classified, Routed
  <2>5. UNCHANGED decisions
    BY <2>1 DEF decisions, Decision, Classified
  <2> QED
    BY <2>1, <2>3, <2>4, <2>5 DEF Ledger!Next, Ledger!Route, stages, decisions
<1> QED
  BY <1>1, <1>2

\* Every step of the workers is a step of the ledger or a stutter.
LEMMA LedgerStep ==
  ASSUME IInv, [Next]_vars
  PROVE  Ledger!Next \/ UNCHANGED <<stages, decisions>>
<1>1. ASSUME NEW w \in Worker, Attempt(w) \/ Crash(w),
             ~RecordSignal(w), ~RecordClassification(w), ~RecordRoute(w)
      PROVE  UNCHANGED <<signals, classifications, routes>>
  BY <1>1 DEF Attempt, ReadState, ClassifyAnswered, RouteAnswered, ClassifyFailed, Unexpected,
     FatalError, AuditClassify, AuditRoute, AuditFailure, Crash, Retry, tables
<1>2. ASSUME NEW w \in Worker, NEW k \in Key, Deliver(w, k)
      PROVE  UNCHANGED <<signals, classifications, routes>>
  BY <1>2 DEF Deliver, tables
<1>3. UNCHANGED vars => UNCHANGED <<signals, classifications, routes>>
  BY DEF vars, tables
<1> QED
  BY <1>1, <1>2, <1>3, LedgerStutter, LedgerRecord, LedgerClassify, LedgerRoute
  DEF Next, Finished

\* No interleaving, crash or retry skips a stage, undoes one or changes a
\* persisted decision, whatever the number of keys, workers and faults.
THEOREM SpecImplementsLedger == Spec => ImplementsLedger
<1>1. Init => Ledger!Init
  BY LedgerInit
<1>2. IInv /\ [Next]_vars => [Ledger!Next]_(Ledger!lvars)
  BY LedgerStep DEF Ledger!lvars, stages, decisions
<1>3. QED
  BY <1>1, <1>2, InvariantHolds, PTL DEF Spec, ImplementsLedger, Ledger!Spec
=============================================================================
