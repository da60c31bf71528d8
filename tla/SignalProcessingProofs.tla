----------------------- MODULE SignalProcessingProofs -----------------------
(***************************************************************************)
(* Type correctness and the safety invariants of SignalProcessing, for     *)
(* every set of keys and workers and every bound on the faults.            *)
(***************************************************************************)
EXTENDS SignalProcessing, FiniteSetTheorems, TLAPS

-----------------------------------------------------------------------------
(* Types. *)

\* The verdicts that steps write down are verdicts.
LEMMA VerdictTypes ==
  /\ NoVerdict \in Verdict
  /\ \A o \in Origin : Fallback(o) \in Verdict
BY DEF NoVerdict, Fallback, Verdict, Origin, Rule

\* What the classify model answered is a verdict, and its charge a number.
LEMMA ClassifyAnsweredType ==
  ASSUME TypeOK, NEW w \in Worker, ClassifyAnswered(w) PROVE TypeOK'
<1>1. key[w] \in Key
  BY DEF TypeOK, ClassifyAnswered
<1>2. \E v \in Verdict : verdict' = [verdict EXCEPT ![w] = v]
  BY DEF ClassifyAnswered, Verdict, Origin, Rule
<1>3. \E p \in Place : pc' = [pc EXCEPT ![w] = p]
  BY DEF ClassifyAnswered, Goto, Place, Running
<1> QED
  BY <1>1, <1>2, <1>3 DEF TypeOK, ClassifyAnswered, tables, faults

\* What the route model answered is a verdict.
LEMMA RouteAnsweredType ==
  ASSUME TypeOK, NEW w \in Worker, RouteAnswered(w) PROVE TypeOK'
<1>1. \E v \in Verdict : verdict' = [verdict EXCEPT ![w] = v]
  <2>1. PICK call \in {"ok", "error"}, rule \in {"agent_route", "agent_route_fallback"} :
          verdict' = [verdict EXCEPT ![w].call = call, ![w].rule = rule]
    BY DEF RouteAnswered
  <2>2. verdict[w] \in Verdict
    BY DEF TypeOK
  <2>3. [verdict[w] EXCEPT !.call = call, !.rule = rule] \in Verdict
    BY <2>2 DEF Verdict, Rule
  <2> QED
    BY <2>1, <2>3 DEF TypeOK
<1>2. key[w] \in Key
  BY DEF TypeOK, RouteAnswered
<1>3. \E p \in Place : pc' = [pc EXCEPT ![w] = p]
  BY DEF RouteAnswered, Goto, Place, Running
<1>4. UNCHANGED <<tables, money, key, cid, result, faults>>
  BY DEF RouteAnswered
<1> QED
  BY <1>1, <1>2, <1>3, <1>4 DEF TypeOK, tables, money, faults

\* A swallowed exception leaves the fallback verdict, which is one.
LEMMA UnexpectedType ==
  ASSUME TypeOK, NEW w \in Worker, Unexpected(w) PROVE TypeOK'
BY VerdictTypes DEF TypeOK, Unexpected, LoseAnswer, Goto, Place, Running, Origin, tables, money, faults

\* The classify row is a row of llm_calls.
LEMMA AuditClassifyType ==
  ASSUME TypeOK, NEW w \in Worker, AuditClassify(w) PROVE TypeOK'
<1>1. <<key[w], "classify", TRUE>> \in LlmRow
  BY DEF TypeOK, AuditClassify, LlmRow
<1> QED
  BY <1>1 DEF TypeOK, AuditClassify, Goto, Place, Running, tables, faults

\* The route row is a row of llm_calls.
LEMMA AuditRouteType ==
  ASSUME TypeOK, NEW w \in Worker, AuditRoute(w) PROVE TypeOK'
<1>1. <<key[w], "route", verdict[w].call = "ok">> \in LlmRow
  BY DEF TypeOK, AuditRoute, LlmRow
<1> QED
  BY <1>1 DEF TypeOK, AuditRoute, Goto, Place, Running, tables, faults

\* So is the failure row, whichever of its two ends follows it.
LEMMA AuditFailureType ==
  ASSUME TypeOK, NEW w \in Worker, AuditFailure(w) PROVE TypeOK'
<1>1. <<key[w], "classify", FALSE>> \in LlmRow
  BY DEF TypeOK, AuditFailure, LlmRow
<1>2. UNCHANGED <<tables, charged, key, faults>> /\ ledger' \subseteq LlmRow
  BY <1>1 DEF TypeOK, AuditFailure
<1>3. CASE pc[w] = "audit_failure"
  <2>1. Fallback("gateway_error") \in Verdict
    BY VerdictTypes DEF Origin
  <2>2. /\ pc' = [pc EXCEPT ![w] = "store"]
        /\ verdict' = [verdict EXCEPT ![w] = Fallback("gateway_error")]
        /\ UNCHANGED <<cid, result>>
    BY <1>3 DEF AuditFailure, Goto
  <2> QED
    BY <1>2, <1>3, <2>1, <2>2 DEF TypeOK, Place, Running, tables, faults
<1>4. CASE pc[w] = "audit_invalid"
  <2>1. Return(w, "failed")
    BY <1>4 DEF AuditFailure
  <2> QED
    BY <1>2, <1>4, <2>1, VerdictTypes
    DEF TypeOK, Return, DropLocals, Goto, Place, Status, tables, faults
<1> QED
  BY <1>3, <1>4 DEF AuditFailure

\* The row record_classification inserts is a classification row.
LEMMA RecordClassificationType ==
  ASSUME TypeOK, NEW w \in Worker, RecordClassification(w)
  PROVE  TypeOK'
<1>1. ClassificationOf(w, nextId) \in ClassificationRow
  <2>1. key[w] \in Key /\ verdict[w] \in Verdict
    BY DEF TypeOK, RecordClassification
  <2> QED
    BY <2>1 DEF TypeOK, ClassificationOf, ClassificationRow, Verdict
<1>2. CASE ~Classified(key[w])
  BY <1>1, <1>2
  DEF TypeOK, RecordClassification, Goto, Place, Running, money, faults
<1>3. CASE Classified(key[w])
  BY <1>3, VerdictTypes
  DEF TypeOK, RecordClassification, Raise, DropLocals, Goto, Place, money, faults
<1> QED
  BY <1>2, <1>3

\* The row record_route inserts is a route row.
LEMMA RecordRouteType ==
  ASSUME TypeOK, NEW w \in Worker, RecordRoute(w) PROVE TypeOK'
<1>1. [signal |-> key[w], classification |-> cid[w], rule |-> verdict[w].rule] \in RouteRow
  <2>1. key[w] \in Key /\ verdict[w] \in Verdict /\ cid[w] \in Nat
    BY DEF TypeOK, RecordRoute
  <2> QED
    BY <2>1 DEF RouteRow, Verdict
<1>2. CASE ~Routed(key[w])
  BY <1>1, <1>2, VerdictTypes
  DEF TypeOK, RecordRoute, Return, DropLocals, Goto, Place, Status, money, faults
<1>3. CASE Routed(key[w])
  BY <1>3, VerdictTypes
  DEF TypeOK, RecordRoute, Raise, DropLocals, Goto, Place, money, faults
<1> QED
  BY <1>2, <1>3

\* No step of an attempt, and no crash, leaves the types.
LEMMA TypeStep ==
  ASSUME TypeOK, NEW w \in Worker, Attempt(w) \/ Crash(w)
  PROVE  TypeOK'
<1>1. CASE ReadState(w)
  BY <1>1, VerdictTypes DEF TypeOK, ReadState, Goto, DropLocals, Return, Raise, tables, money, faults,
     Status, Place, Running
<1>2. CASE RecordSignal(w)
  BY <1>2, VerdictTypes DEF TypeOK, RecordSignal, Goto, DropLocals, Return, Raise, tables, money, faults,
     Status, Place, Running
<1>3. CASE ClassifyAnswered(w)
  BY <1>3, ClassifyAnsweredType
<1>4. CASE RouteAnswered(w)
  BY <1>4, RouteAnsweredType
<1>5. CASE ClassifyFailed(w)
  BY <1>5, VerdictTypes DEF TypeOK, ClassifyFailed, Goto, DropLocals, Return, Raise, tables, money, faults,
     Status, Place, Running
<1>6. CASE Unexpected(w)
  BY <1>6, UnexpectedType
<1>7. CASE FatalError(w)
  BY <1>7, VerdictTypes DEF TypeOK, FatalError, LoseAnswer, Goto, DropLocals, Return, Raise, tables, money, faults,
     Status, Place, Running
<1>8. CASE AuditClassify(w)
  BY <1>8, AuditClassifyType
<1>9. CASE AuditRoute(w)
  BY <1>9, AuditRouteType
<1>10. CASE AuditFailure(w)
  BY <1>10, AuditFailureType
<1>11. CASE RecordClassification(w)
  BY <1>11, RecordClassificationType
<1>12. CASE RecordRoute(w)
  BY <1>12, RecordRouteType
<1>13. CASE Retry(w)
  BY <1>13, VerdictTypes DEF TypeOK, Retry, Goto, DropLocals, Return, Raise, tables, money, faults,
     Status, Place, Running
<1>14. CASE Crash(w)
  BY <1>14, VerdictTypes DEF TypeOK, Crash, LoseAnswer, Goto, DropLocals, Return, Raise, tables, money, faults,
     Status, Place, Running
<1> QED
  BY <1>1, <1>2, <1>3, <1>4, <1>5, <1>6, <1>7, <1>8, <1>9, <1>10,
     <1>11, <1>12, <1>13, <1>14 DEF Attempt

\* An event that arrives names a key.
LEMMA TypeDeliver ==
  ASSUME TypeOK, NEW w \in Worker, NEW k \in Key, Deliver(w, k)
  PROVE  TypeOK'
BY DEF TypeOK, Deliver, Goto, Place, Running, tables, money, faults

\* Type correctness: every step keeps the tables and the workers' local state
\* in their types.
THEOREM TypeCorrect == Spec => []TypeOK
<1>1. Init => TypeOK
  BY VerdictTypes DEF Init, TypeOK, Status, Place
<1>2. TypeOK /\ [Next]_vars => TypeOK'
  <2> SUFFICES ASSUME TypeOK, [Next]_vars PROVE TypeOK'
    OBVIOUS
  <2>1. CASE \E w \in Worker, k \in Key : Deliver(w, k)
    BY <2>1, TypeDeliver
  <2>2. CASE \E w \in Worker : Attempt(w) \/ Crash(w)
    BY <2>2, TypeStep
  <2>3. CASE UNCHANGED vars
    BY <2>3 DEF vars, tables, money, faults, TypeOK
  <2> QED
    BY <2>1, <2>2, <2>3 DEF Next, Finished
<1>3. QED
  BY <1>1, <1>2, PTL DEF Spec

-----------------------------------------------------------------------------
(* Frames: what a step of one worker leaves to the others. *)

\* Tables and ledger only grow, and the locals of the other workers stay.
LEMMA FrameOfAttempt ==
  ASSUME TypeOK, NEW w \in Worker, Attempt(w) \/ Crash(w)
  PROVE  /\ signals \subseteq signals' /\ classifications \subseteq classifications'
         /\ routes \subseteq routes' /\ ledger \subseteq ledger' /\ key' = key
         /\ \A v \in Worker \ {w} : /\ pc'[v] = pc[v] /\ verdict'[v] = verdict[v]
                                   /\ cid'[v] = cid[v] /\ result'[v] = result[v]
<1>1. CASE ReadState(w)
  BY <1>1 DEF TypeOK, ReadState, Goto, DropLocals, Return, Raise, tables, money, faults
<1>2. CASE RecordSignal(w)
  BY <1>2 DEF TypeOK, RecordSignal, Goto, DropLocals, Return, Raise, tables, money, faults
<1>3. CASE ClassifyAnswered(w)
  BY <1>3 DEF TypeOK, ClassifyAnswered, Goto, DropLocals, Return, Raise, tables, money, faults
<1>4. CASE RouteAnswered(w)
  BY <1>4 DEF TypeOK, RouteAnswered, Goto, DropLocals, Return, Raise, tables, money, faults
<1>5. CASE ClassifyFailed(w)
  BY <1>5 DEF TypeOK, ClassifyFailed, Goto, DropLocals, Return, Raise, tables, money, faults
<1>6. CASE Unexpected(w)
  BY <1>6 DEF TypeOK, Unexpected, Fallback, Goto, DropLocals, Return, Raise, tables, money, faults
<1>7. CASE FatalError(w)
  BY <1>7 DEF TypeOK, FatalError, Goto, DropLocals, Return, Raise, tables, money, faults
<1>8. CASE AuditClassify(w)
  BY <1>8 DEF TypeOK, AuditClassify, Goto, DropLocals, Return, Raise, tables, money, faults
<1>9. CASE AuditRoute(w)
  BY <1>9 DEF TypeOK, AuditRoute, Goto, DropLocals, Return, Raise, tables, money, faults
<1>10. CASE AuditFailure(w)
  BY <1>10 DEF TypeOK, AuditFailure, Fallback, Goto, DropLocals, Return, Raise, tables, money, faults
<1>11. CASE RecordClassification(w)
  BY <1>11 DEF TypeOK, RecordClassification, ClassificationOf, Goto, DropLocals, Return, Raise, tables, money, faults
<1>12. CASE RecordRoute(w)
  BY <1>12 DEF TypeOK, RecordRoute, Goto, DropLocals, Return, Raise, tables, money, faults
<1>13. CASE Retry(w)
  BY <1>13 DEF TypeOK, Retry, Goto, DropLocals, Return, Raise, tables, money, faults
<1>14. CASE Crash(w)
  BY <1>14 DEF TypeOK, Crash, Goto, DropLocals, Return, Raise, tables, money, faults
<1> QED
  BY <1>1, <1>2, <1>3, <1>4, <1>5, <1>6, <1>7, <1>8, <1>9, <1>10,
     <1>11, <1>12, <1>13, <1>14 DEF Attempt

-----------------------------------------------------------------------------
(* The inductive invariant, conjunct by conjunct. *)

\* The classify model's verdict agrees with the rule it implies.
LEMMA ClassifyAnsweredCoherent ==
  ASSUME IInv, NEW w \in Worker, ClassifyAnswered(w)
  PROVE  VerdictIsCoherent(w)'
<1> USE DEF IInv, TypeOK
<1>1. /\ pc[w] = "classify" /\ key[w] \in signals /\ result[w] = "none"
      /\ UNCHANGED <<tables, ledger, key, cid, result, faults>>
  BY DEF ClassifyAnswered, VerdictsCoherent, VerdictIsCoherent, Running
<1>2. \/ /\ pc'[w] = "audit_classify"
         /\ verdict'[w].origin = "model"
         /\ verdict'[w].ignore <=> verdict'[w].rule = "ignored_by_classifier"
      \/ /\ pc'[w] = "route_call"
         /\ verdict'[w].origin = "model" /\ ~verdict'[w].ignore
  BY DEF ClassifyAnswered, Goto
<1> QED
  BY <1>1, <1>2 DEF VerdictIsCoherent, tables

\* record_llm_failure has its row before the fallback is stored.
LEMMA AuditFailureCoherent ==
  ASSUME IInv, NEW w \in Worker, AuditFailure(w)
  PROVE  VerdictIsCoherent(w)'
<1> USE DEF IInv, TypeOK
<1>1. /\ key[w] \in signals /\ result[w] = "none" /\ pc[w] \in {"audit_failure", "audit_invalid"}
      /\ <<key[w], "classify", FALSE>> \in ledger'
      /\ UNCHANGED <<tables, key>>
  BY DEF AuditFailure, VerdictsCoherent, VerdictIsCoherent, Running
<1>2. CASE pc[w] = "audit_failure"
  <2>1. /\ pc'[w] = "store" /\ verdict'[w] = Fallback("gateway_error")
        /\ result'[w] = "none"
    BY <1>1, <1>2 DEF AuditFailure, Goto
  <2> QED
    BY <1>1, <2>1 DEF VerdictIsCoherent, Fallback, tables
<1>3. CASE pc[w] = "audit_invalid"
  <2>1. pc'[w] = "done"
    BY <1>3 DEF AuditFailure, Return, Goto
  <2> QED
    BY <2>1 DEF VerdictIsCoherent, Running
<1> QED
  BY <1>1, <1>2, <1>3

\* A duplicate is answered only for a signal that has been classified.
LEMMA ReadStateAnswer ==
  ASSUME IInv, NEW w \in Worker, ReadState(w)
  PROVE  AnswerIsDurable(w)'
<1> USE DEF ReadState
<1>1. CASE Classified(key[w]) \/ Routed(key[w])
  <2>1. Classified(key[w])
    BY <1>1 DEF IInv, RoutesFollowTheirClassification, Routed, Classified
  <2>2. result'[w] = "duplicate" /\ UNCHANGED <<tables, key>>
    BY <1>1 DEF IInv, TypeOK, Return, DropLocals, Goto
  <2> QED
    BY <2>1, <2>2 DEF AnswerIsDurable, Classified, tables
<1>2. CASE ~(Classified(key[w]) \/ Routed(key[w]))
  BY <1>2 DEF IInv, TypeOK, AnswersAreDurable, AnswerIsDurable, Classified, tables, money
<1> QED
  BY <1>1, <1>2

\* The route write: its answer is durable, and the key it served is routed.
LEMMA RecordRouteStep ==
  ASSUME IInv, NEW w \in Worker, RecordRoute(w)
  PROVE  AnswerIsDurable(w)' /\ OnlyCutOffSignalsLackRoutes'
<1> DEFINE row == [signal |-> key[w], classification |-> cid[w], rule |-> verdict[w].rule]
<1>1. /\ pc[w] = "route" /\ ~Routed(key[w]) /\ key' = key
      /\ UNCHANGED <<classifications, cutOff>>
  BY DEF IInv, RecordRoute, RouteWriteNeverConflicts, faults
<1>2. /\ routes' = routes \cup {row}
      /\ pc' = [pc EXCEPT ![w] = "done"]
      /\ result'[w] = IF row.rule = "ignored_by_classifier" THEN "ignored" ELSE "processed"
  BY <1>1 DEF IInv, TypeOK, RecordRoute, Return, Goto
<1>3. row.signal = key[w]
  OBVIOUS
<1> HIDE DEF row
<1>4. AnswerIsDurable(w)'
  BY <1>1, <1>2, <1>3 DEF AnswerIsDurable
<1>5. ASSUME NEW k \in Key, Classified(k)', ~Routed(k)'
      PROVE  k \in cutOff' \/ \E v \in Worker : pc'[v] = "route" /\ key'[v] = k
  <2>1. Classified(k) /\ ~Routed(k) /\ k # key[w]
    BY <1>1, <1>2, <1>3, <1>5 DEF Classified, Routed
  <2>2. k \in cutOff \/ \E v \in Worker : pc[v] = "route" /\ key[v] = k
    BY <2>1 DEF IInv, OnlyCutOffSignalsLackRoutes
  <2> QED
    BY <1>1, <1>2, <2>1, <2>2 DEF IInv, TypeOK
<1> QED
  BY <1>4, <1>5 DEF OnlyCutOffSignalsLackRoutes

\* The classification write: the new row is keyed, held by its writer and
\* explained by the ledger.
LEMMA RecordClassificationStep ==
  ASSUME IInv, NEW w \in Worker, RecordClassification(w)
  PROVE  /\ ClassificationsKeyed' /\ RouterHoldsClassification'
         /\ ClassificationsAreExplained'
<1> USE DEF IInv, TypeOK
<1>1. /\ pc[w] = "store" /\ key[w] \in signals /\ key[w] \in Key
      /\ UNCHANGED <<signals, routes, ledger, key>>
      /\ verdict[w].ignore <=> verdict[w].rule = "ignored_by_classifier"
      /\ verdict[w].origin = "model" => <<key[w], "classify", TRUE>> \in ledger
      /\ verdict[w].origin = "gateway_error" => <<key[w], "classify", FALSE>> \in ledger
      /\ verdict[w].origin = "unexpected" => verdict[w].ignore
      /\ verdict[w].origin \in Origin \ {"none"}
  BY DEF RecordClassification, VerdictsCoherent, VerdictIsCoherent, Running, Verdict, money
<1>2. CASE ~Classified(key[w])
  <2> DEFINE new == ClassificationOf(w, nextId)
  <2>1. /\ classifications' = classifications \cup {new}
        /\ nextId' = nextId + 1
        /\ cid' = [cid EXCEPT ![w] = nextId] /\ pc' = [pc EXCEPT ![w] = "route"]
        /\ verdict' = verdict
    BY <1>2 DEF RecordClassification, Goto
  <2>2. /\ new.id = nextId /\ new.signal = key[w] /\ new.origin = verdict[w].origin
        /\ new.ignore = verdict[w].ignore
    BY DEF ClassificationOf
  <2>3. ClassificationsKeyed'
    <3>1. \A c \in classifications' : c.id < nextId' /\ c.signal \in signals'
      BY <1>1, <2>1, <2>2 DEF ClassificationsKeyed, ClassificationRow
    <3>2. \A c, d \in classifications' : c.signal = d.signal => c = d
      BY <1>2, <2>1, <2>2 DEF ClassificationsKeyed, Classified
    <3> QED
      BY <3>1, <3>2 DEF ClassificationsKeyed
  <2>4. RouterHoldsClassification'
    <3> SUFFICES ASSUME NEW v \in Worker, pc'[v] = "route"
       PROVE  \E c \in classifications' :
                          /\ c.id = cid'[v] /\ c.signal = key'[v]
                          /\ c.ignore <=> verdict'[v].rule = "ignored_by_classifier"
      BY DEF RouterHoldsClassification
    <3>1. CASE v = w
      BY <1>1, <2>1, <2>2, <3>1
    <3>2. CASE v # w
      BY <1>1, <2>1, <3>2 DEF RouterHoldsClassification
    <3> QED
      BY <3>1, <3>2
  <2>5. ClassificationsAreExplained'
    BY <1>1, <2>1, <2>2 DEF OnlyErrorsEscapeTheLedger, ClassificationsAreExplained, Origin
  <2> QED
    BY <2>3, <2>4, <2>5
<1>3. CASE Classified(key[w])
  <2>1. /\ UNCHANGED <<classifications, nextId>> /\ Raise(w)
    BY <1>3 DEF RecordClassification
  <2>2. ClassificationsKeyed' /\ ClassificationsAreExplained'
    BY <1>1, <2>1 DEF ClassificationsKeyed, OnlyErrorsEscapeTheLedger, ClassificationsAreExplained
  <2>3. RouterHoldsClassification'
    BY <1>1, <2>1 DEF RouterHoldsClassification, Raise, DropLocals, Goto
  <2> QED
    BY <2>2, <2>3
<1> QED
  BY <1>2, <1>3

\* VerdictsCoherent, one step per action of a worker.
LEMMA VerdictsCoherentStep ==
  ASSUME IInv, NEW w \in Worker, Attempt(w) \/ Crash(w)
  PROVE  VerdictsCoherent'
<1>1. VerdictIsCoherent(w)'
  <2>1. CASE ReadState(w)
    BY <2>1, ZenonT(30) DEF IInv, TypeOK, ReadState, VerdictsCoherent, VerdictIsCoherent,
       Running, Verdict,
       Goto, DropLocals, Return, Raise, tables, money, faults
  <2>2. CASE RecordSignal(w)
    BY <2>2 DEF IInv, TypeOK, RecordSignal, VerdictsCoherent, VerdictIsCoherent,
       Running, Verdict,
       Goto, DropLocals, Return, Raise, tables, money, faults
  <2>3. CASE ClassifyAnswered(w)
    BY <2>3, ClassifyAnsweredCoherent
  <2>4. CASE RouteAnswered(w)
    BY <2>4, ZenonT(30) DEF IInv, TypeOK, RouteAnswered, VerdictsCoherent, VerdictIsCoherent,
       Running, Verdict,
       Goto, DropLocals, Return, Raise, tables, money, faults
  <2>5. CASE ClassifyFailed(w)
    BY <2>5 DEF IInv, TypeOK, ClassifyFailed, VerdictsCoherent, VerdictIsCoherent,
       Running, Verdict,
       Goto, DropLocals, Return, Raise, tables, money, faults
  <2>6. CASE Unexpected(w)
    BY <2>6 DEF IInv, TypeOK, Unexpected, Fallback, VerdictsCoherent, VerdictIsCoherent,
       Running, Verdict,
       Goto, DropLocals, Return, Raise, tables, money, faults
  <2>7. CASE FatalError(w)
    BY <2>7 DEF IInv, TypeOK, FatalError, VerdictsCoherent, VerdictIsCoherent,
       Running, Verdict,
       Goto, DropLocals, Return, Raise, tables, money, faults
  <2>8. CASE AuditClassify(w)
    BY <2>8 DEF IInv, TypeOK, AuditClassify, VerdictsCoherent, VerdictIsCoherent,
       Running, Verdict,
       Goto, DropLocals, Return, Raise, tables, money, faults
  <2>9. CASE AuditRoute(w)
    BY <2>9 DEF IInv, TypeOK, AuditRoute, VerdictsCoherent, VerdictIsCoherent,
       Running, Verdict,
       Goto, DropLocals, Return, Raise, tables, money, faults
  <2>10. CASE AuditFailure(w)
    BY <2>10, AuditFailureCoherent
  <2>11. CASE RecordClassification(w)
    BY <2>11 DEF IInv, TypeOK, RecordClassification, ClassificationOf, VerdictsCoherent, VerdictIsCoherent,
       Running, Verdict,
       Goto, DropLocals, Return, Raise, tables, money, faults
  <2>12. CASE RecordRoute(w)
    BY <2>12 DEF IInv, TypeOK, RecordRoute, VerdictsCoherent, VerdictIsCoherent,
       Running, Verdict,
       Goto, DropLocals, Return, Raise, tables, money, faults
  <2>13. CASE Retry(w)
    BY <2>13 DEF IInv, TypeOK, Retry, VerdictsCoherent, VerdictIsCoherent,
       Running, Verdict,
       Goto, DropLocals, Return, Raise, tables, money, faults
  <2>14. CASE Crash(w)
    BY <2>14 DEF IInv, TypeOK, Crash, VerdictsCoherent, VerdictIsCoherent,
       Running, Verdict,
       Goto, DropLocals, Return, Raise, tables, money, faults
  <2> QED
    BY <2>1, <2>2, <2>3, <2>4, <2>5, <2>6, <2>7, <2>8, <2>9, <2>10,
     <2>11, <2>12, <2>13, <2>14 DEF Attempt
<1>2. ASSUME NEW v \in Worker, v # w
      PROVE  VerdictIsCoherent(v)'
  <2>1. /\ signals \subseteq signals' /\ classifications \subseteq classifications'
        /\ routes \subseteq routes' /\ ledger \subseteq ledger' /\ key'[v] = key[v]
        /\ pc'[v] = pc[v] /\ verdict'[v] = verdict[v] /\ result'[v] = result[v]
    BY <1>2, FrameOfAttempt DEF IInv
  <2>2. VerdictIsCoherent(v)
    BY DEF IInv, VerdictsCoherent
  <2> QED
    BY <2>1, <2>2 DEF VerdictIsCoherent, Running
<1> QED
  BY <1>1, <1>2 DEF VerdictsCoherent

\* AnswersAreDurable: tables only grow, so old answers stay true.
LEMMA AnswersAreDurableStep ==
  ASSUME IInv, NEW w \in Worker, Attempt(w) \/ Crash(w)
  PROVE  AnswersAreDurable'
<1>1. AnswerIsDurable(w)'
  <2>1. CASE ReadState(w)
    BY <2>1, ReadStateAnswer
  <2>2. CASE RecordSignal(w)
    BY <2>2 DEF IInv, TypeOK, RecordSignal, VerdictsCoherent, VerdictIsCoherent,
       AnswersAreDurable, AnswerIsDurable, Classified,
       Goto, DropLocals, Return, Raise, tables, money, faults
  <2>3. CASE ClassifyAnswered(w)
    BY <2>3 DEF IInv, TypeOK, ClassifyAnswered, VerdictsCoherent, VerdictIsCoherent,
       AnswersAreDurable, AnswerIsDurable, Classified,
       Goto, DropLocals, Return, Raise, tables, money, faults
  <2>4. CASE RouteAnswered(w)
    BY <2>4 DEF IInv, TypeOK, RouteAnswered, VerdictsCoherent, VerdictIsCoherent,
       AnswersAreDurable, AnswerIsDurable, Classified,
       Goto, DropLocals, Return, Raise, tables, money, faults
  <2>5. CASE ClassifyFailed(w)
    BY <2>5 DEF IInv, TypeOK, ClassifyFailed, VerdictsCoherent, VerdictIsCoherent,
       AnswersAreDurable, AnswerIsDurable, Classified,
       Goto, DropLocals, Return, Raise, tables, money, faults
  <2>6. CASE Unexpected(w)
    BY <2>6 DEF IInv, TypeOK, Unexpected, Fallback, VerdictsCoherent, VerdictIsCoherent,
       AnswersAreDurable, AnswerIsDurable, Classified,
       Goto, DropLocals, Return, Raise, tables, money, faults
  <2>7. CASE FatalError(w)
    BY <2>7 DEF IInv, TypeOK, FatalError, VerdictsCoherent, VerdictIsCoherent,
       AnswersAreDurable, AnswerIsDurable, Classified,
       Goto, DropLocals, Return, Raise, tables, money, faults
  <2>8. CASE AuditClassify(w)
    BY <2>8 DEF IInv, TypeOK, AuditClassify, VerdictsCoherent, VerdictIsCoherent,
       AnswersAreDurable, AnswerIsDurable, Classified,
       Goto, DropLocals, Return, Raise, tables, money, faults
  <2>9. CASE AuditRoute(w)
    BY <2>9 DEF IInv, TypeOK, AuditRoute, VerdictsCoherent, VerdictIsCoherent,
       AnswersAreDurable, AnswerIsDurable, Classified,
       Goto, DropLocals, Return, Raise, tables, money, faults
  <2>10. CASE AuditFailure(w)
    BY <2>10 DEF IInv, TypeOK, AuditFailure, Fallback, VerdictsCoherent, VerdictIsCoherent,
       AnswersAreDurable, AnswerIsDurable, Classified,
       Goto, DropLocals, Return, Raise, tables, money, faults
  <2>11. CASE RecordClassification(w)
    BY <2>11 DEF IInv, TypeOK, RecordClassification, ClassificationOf, VerdictsCoherent, VerdictIsCoherent,
       AnswersAreDurable, AnswerIsDurable, Classified,
       Goto, DropLocals, Return, Raise, tables, money, faults
  <2>12. CASE RecordRoute(w)
    BY <2>12, RecordRouteStep
  <2>13. CASE Retry(w)
    BY <2>13 DEF IInv, TypeOK, Retry, VerdictsCoherent, VerdictIsCoherent,
       AnswersAreDurable, AnswerIsDurable, Classified,
       Goto, DropLocals, Return, Raise, tables, money, faults
  <2>14. CASE Crash(w)
    BY <2>14 DEF IInv, TypeOK, Crash, VerdictsCoherent, VerdictIsCoherent,
       AnswersAreDurable, AnswerIsDurable, Classified,
       Goto, DropLocals, Return, Raise, tables, money, faults
  <2> QED
    BY <2>1, <2>2, <2>3, <2>4, <2>5, <2>6, <2>7, <2>8, <2>9, <2>10,
     <2>11, <2>12, <2>13, <2>14 DEF Attempt
<1>2. ASSUME NEW v \in Worker, v # w
      PROVE  AnswerIsDurable(v)'
  <2>1. /\ signals \subseteq signals' /\ classifications \subseteq classifications'
        /\ routes \subseteq routes' /\ ledger \subseteq ledger' /\ key'[v] = key[v]
        /\ pc'[v] = pc[v] /\ verdict'[v] = verdict[v] /\ result'[v] = result[v]
    BY <1>2, FrameOfAttempt DEF IInv
  <2>2. AnswerIsDurable(v)
    BY DEF IInv, AnswersAreDurable
  <2> QED
    BY <2>1, <2>2 DEF AnswerIsDurable, Classified
<1> QED
  BY <1>1, <1>2 DEF AnswersAreDurable

\* ClassificationsKeyed: only record_classification inserts, under its UNIQUE.
LEMMA ClassificationsKeyedStep ==
  ASSUME IInv, NEW w \in Worker, Attempt(w) \/ Crash(w)
  PROVE  ClassificationsKeyed'
<1>1. CASE ReadState(w)
  BY <1>1 DEF IInv, TypeOK, ReadState, ClassificationsKeyed,
     Goto, DropLocals, Return, Raise, tables, money, faults
<1>2. CASE RecordSignal(w)
  BY <1>2 DEF IInv, TypeOK, RecordSignal, ClassificationsKeyed,
     Goto, DropLocals, Return, Raise, tables, money, faults
<1>3. CASE ClassifyAnswered(w)
  BY <1>3 DEF IInv, TypeOK, ClassifyAnswered, ClassificationsKeyed,
     Goto, DropLocals, Return, Raise, tables, money, faults
<1>4. CASE RouteAnswered(w)
  BY <1>4 DEF IInv, TypeOK, RouteAnswered, ClassificationsKeyed,
     Goto, DropLocals, Return, Raise, tables, money, faults
<1>5. CASE ClassifyFailed(w)
  BY <1>5 DEF IInv, TypeOK, ClassifyFailed, ClassificationsKeyed,
     Goto, DropLocals, Return, Raise, tables, money, faults
<1>6. CASE Unexpected(w)
  BY <1>6 DEF IInv, TypeOK, Unexpected, Fallback, ClassificationsKeyed,
     Goto, DropLocals, Return, Raise, tables, money, faults
<1>7. CASE FatalError(w)
  BY <1>7 DEF IInv, TypeOK, FatalError, ClassificationsKeyed,
     Goto, DropLocals, Return, Raise, tables, money, faults
<1>8. CASE AuditClassify(w)
  BY <1>8 DEF IInv, TypeOK, AuditClassify, ClassificationsKeyed,
     Goto, DropLocals, Return, Raise, tables, money, faults
<1>9. CASE AuditRoute(w)
  BY <1>9 DEF IInv, TypeOK, AuditRoute, ClassificationsKeyed,
     Goto, DropLocals, Return, Raise, tables, money, faults
<1>10. CASE AuditFailure(w)
  BY <1>10 DEF IInv, TypeOK, AuditFailure, Fallback, ClassificationsKeyed,
     Goto, DropLocals, Return, Raise, tables, money, faults
<1>11. CASE RecordClassification(w)
  BY <1>11, RecordClassificationStep
<1>12. CASE RecordRoute(w)
  BY <1>12 DEF IInv, TypeOK, RecordRoute, ClassificationsKeyed,
     Goto, DropLocals, Return, Raise, tables, money, faults
<1>13. CASE Retry(w)
  BY <1>13 DEF IInv, TypeOK, Retry, ClassificationsKeyed,
     Goto, DropLocals, Return, Raise, tables, money, faults
<1>14. CASE Crash(w)
  BY <1>14 DEF IInv, TypeOK, Crash, ClassificationsKeyed,
     Goto, DropLocals, Return, Raise, tables, money, faults
<1> QED
  BY <1>1, <1>2, <1>3, <1>4, <1>5, <1>6, <1>7, <1>8, <1>9, <1>10,
     <1>11, <1>12, <1>13, <1>14 DEF Attempt

\* RouterHoldsClassification: the id a worker was given stays in the table.
LEMMA RouterHoldsClassificationStep ==
  ASSUME IInv, NEW w \in Worker, Attempt(w) \/ Crash(w)
  PROVE  RouterHoldsClassification'
<1>1. CASE ReadState(w)
  BY <1>1 DEF IInv, TypeOK, ReadState, RouterHoldsClassification,
     Goto, DropLocals, Return, Raise, tables, money, faults
<1>2. CASE RecordSignal(w)
  BY <1>2 DEF IInv, TypeOK, RecordSignal, RouterHoldsClassification,
     Goto, DropLocals, Return, Raise, tables, money, faults
<1>3. CASE ClassifyAnswered(w)
  BY <1>3 DEF IInv, TypeOK, ClassifyAnswered, RouterHoldsClassification,
     Goto, DropLocals, Return, Raise, tables, money, faults
<1>4. CASE RouteAnswered(w)
  BY <1>4 DEF IInv, TypeOK, RouteAnswered, RouterHoldsClassification,
     Goto, DropLocals, Return, Raise, tables, money, faults
<1>5. CASE ClassifyFailed(w)
  BY <1>5 DEF IInv, TypeOK, ClassifyFailed, RouterHoldsClassification,
     Goto, DropLocals, Return, Raise, tables, money, faults
<1>6. CASE Unexpected(w)
  BY <1>6 DEF IInv, TypeOK, Unexpected, Fallback, RouterHoldsClassification,
     Goto, DropLocals, Return, Raise, tables, money, faults
<1>7. CASE FatalError(w)
  BY <1>7 DEF IInv, TypeOK, FatalError, RouterHoldsClassification,
     Goto, DropLocals, Return, Raise, tables, money, faults
<1>8. CASE AuditClassify(w)
  BY <1>8 DEF IInv, TypeOK, AuditClassify, RouterHoldsClassification,
     Goto, DropLocals, Return, Raise, tables, money, faults
<1>9. CASE AuditRoute(w)
  BY <1>9 DEF IInv, TypeOK, AuditRoute, RouterHoldsClassification,
     Goto, DropLocals, Return, Raise, tables, money, faults
<1>10. CASE AuditFailure(w)
  BY <1>10 DEF IInv, TypeOK, AuditFailure, Fallback, RouterHoldsClassification,
     Goto, DropLocals, Return, Raise, tables, money, faults
<1>11. CASE RecordClassification(w)
  BY <1>11, RecordClassificationStep
<1>12. CASE RecordRoute(w)
  BY <1>12 DEF IInv, TypeOK, RecordRoute, RouterHoldsClassification,
     Goto, DropLocals, Return, Raise, tables, money, faults
<1>13. CASE Retry(w)
  BY <1>13 DEF IInv, TypeOK, Retry, RouterHoldsClassification,
     Goto, DropLocals, Return, Raise, tables, money, faults
<1>14. CASE Crash(w)
  BY <1>14 DEF IInv, TypeOK, Crash, RouterHoldsClassification,
     Goto, DropLocals, Return, Raise, tables, money, faults
<1> QED
  BY <1>1, <1>2, <1>3, <1>4, <1>5, <1>6, <1>7, <1>8, <1>9, <1>10,
     <1>11, <1>12, <1>13, <1>14 DEF Attempt

\* RoutesFollowTheirClassification: a route is written with the id its worker holds.
LEMMA RoutesFollowTheirClassificationStep ==
  ASSUME IInv, NEW w \in Worker, Attempt(w) \/ Crash(w)
  PROVE  RoutesFollowTheirClassification'
<1>1. CASE ReadState(w)
  BY <1>1 DEF IInv, TypeOK, ReadState, RoutesFollowTheirClassification, RouterHoldsClassification,
     Goto, DropLocals, Return, Raise, tables, money, faults
<1>2. CASE RecordSignal(w)
  BY <1>2 DEF IInv, TypeOK, RecordSignal, RoutesFollowTheirClassification, RouterHoldsClassification,
     Goto, DropLocals, Return, Raise, tables, money, faults
<1>3. CASE ClassifyAnswered(w)
  BY <1>3 DEF IInv, TypeOK, ClassifyAnswered, RoutesFollowTheirClassification, RouterHoldsClassification,
     Goto, DropLocals, Return, Raise, tables, money, faults
<1>4. CASE RouteAnswered(w)
  BY <1>4 DEF IInv, TypeOK, RouteAnswered, RoutesFollowTheirClassification, RouterHoldsClassification,
     Goto, DropLocals, Return, Raise, tables, money, faults
<1>5. CASE ClassifyFailed(w)
  BY <1>5 DEF IInv, TypeOK, ClassifyFailed, RoutesFollowTheirClassification, RouterHoldsClassification,
     Goto, DropLocals, Return, Raise, tables, money, faults
<1>6. CASE Unexpected(w)
  BY <1>6 DEF IInv, TypeOK, Unexpected, Fallback, RoutesFollowTheirClassification, RouterHoldsClassification,
     Goto, DropLocals, Return, Raise, tables, money, faults
<1>7. CASE FatalError(w)
  BY <1>7 DEF IInv, TypeOK, FatalError, RoutesFollowTheirClassification, RouterHoldsClassification,
     Goto, DropLocals, Return, Raise, tables, money, faults
<1>8. CASE AuditClassify(w)
  BY <1>8 DEF IInv, TypeOK, AuditClassify, RoutesFollowTheirClassification, RouterHoldsClassification,
     Goto, DropLocals, Return, Raise, tables, money, faults
<1>9. CASE AuditRoute(w)
  BY <1>9 DEF IInv, TypeOK, AuditRoute, RoutesFollowTheirClassification, RouterHoldsClassification,
     Goto, DropLocals, Return, Raise, tables, money, faults
<1>10. CASE AuditFailure(w)
  BY <1>10 DEF IInv, TypeOK, AuditFailure, Fallback, RoutesFollowTheirClassification, RouterHoldsClassification,
     Goto, DropLocals, Return, Raise, tables, money, faults
<1>11. CASE RecordClassification(w)
  BY <1>11 DEF IInv, TypeOK, RecordClassification, ClassificationOf, RoutesFollowTheirClassification, RouterHoldsClassification,
     Goto, DropLocals, Return, Raise, tables, money, faults
<1>12. CASE RecordRoute(w)
  BY <1>12 DEF IInv, TypeOK, RecordRoute, RoutesFollowTheirClassification, RouterHoldsClassification,
     Goto, DropLocals, Return, Raise, tables, money, faults
<1>13. CASE Retry(w)
  BY <1>13 DEF IInv, TypeOK, Retry, RoutesFollowTheirClassification, RouterHoldsClassification,
     Goto, DropLocals, Return, Raise, tables, money, faults
<1>14. CASE Crash(w)
  BY <1>14 DEF IInv, TypeOK, Crash, RoutesFollowTheirClassification, RouterHoldsClassification,
     Goto, DropLocals, Return, Raise, tables, money, faults
<1> QED
  BY <1>1, <1>2, <1>3, <1>4, <1>5, <1>6, <1>7, <1>8, <1>9, <1>10,
     <1>11, <1>12, <1>13, <1>14 DEF Attempt

\* RouteWriteNeverConflicts: a rival would have classified the signal before.
LEMMA RouteWriteNeverConflictsStep ==
  ASSUME IInv, NEW w \in Worker, Attempt(w) \/ Crash(w)
  PROVE  RouteWriteNeverConflicts'
<1>1. CASE ReadState(w)
  BY <1>1 DEF IInv, TypeOK, ReadState, RouteWriteNeverConflicts, Routed, Classified,
     RouterHoldsClassification, RoutesFollowTheirClassification,
     Goto, DropLocals, Return, Raise, tables, money, faults
<1>2. CASE RecordSignal(w)
  BY <1>2 DEF IInv, TypeOK, RecordSignal, RouteWriteNeverConflicts, Routed, Classified,
     RouterHoldsClassification, RoutesFollowTheirClassification,
     Goto, DropLocals, Return, Raise, tables, money, faults
<1>3. CASE ClassifyAnswered(w)
  BY <1>3 DEF IInv, TypeOK, ClassifyAnswered, RouteWriteNeverConflicts, Routed, Classified,
     RouterHoldsClassification, RoutesFollowTheirClassification,
     Goto, DropLocals, Return, Raise, tables, money, faults
<1>4. CASE RouteAnswered(w)
  BY <1>4 DEF IInv, TypeOK, RouteAnswered, RouteWriteNeverConflicts, Routed, Classified,
     RouterHoldsClassification, RoutesFollowTheirClassification,
     Goto, DropLocals, Return, Raise, tables, money, faults
<1>5. CASE ClassifyFailed(w)
  BY <1>5 DEF IInv, TypeOK, ClassifyFailed, RouteWriteNeverConflicts, Routed, Classified,
     RouterHoldsClassification, RoutesFollowTheirClassification,
     Goto, DropLocals, Return, Raise, tables, money, faults
<1>6. CASE Unexpected(w)
  BY <1>6 DEF IInv, TypeOK, Unexpected, Fallback, RouteWriteNeverConflicts, Routed, Classified,
     RouterHoldsClassification, RoutesFollowTheirClassification,
     Goto, DropLocals, Return, Raise, tables, money, faults
<1>7. CASE FatalError(w)
  BY <1>7 DEF IInv, TypeOK, FatalError, RouteWriteNeverConflicts, Routed, Classified,
     RouterHoldsClassification, RoutesFollowTheirClassification,
     Goto, DropLocals, Return, Raise, tables, money, faults
<1>8. CASE AuditClassify(w)
  BY <1>8 DEF IInv, TypeOK, AuditClassify, RouteWriteNeverConflicts, Routed, Classified,
     RouterHoldsClassification, RoutesFollowTheirClassification,
     Goto, DropLocals, Return, Raise, tables, money, faults
<1>9. CASE AuditRoute(w)
  BY <1>9 DEF IInv, TypeOK, AuditRoute, RouteWriteNeverConflicts, Routed, Classified,
     RouterHoldsClassification, RoutesFollowTheirClassification,
     Goto, DropLocals, Return, Raise, tables, money, faults
<1>10. CASE AuditFailure(w)
  BY <1>10 DEF IInv, TypeOK, AuditFailure, Fallback, RouteWriteNeverConflicts, Routed, Classified,
     RouterHoldsClassification, RoutesFollowTheirClassification,
     Goto, DropLocals, Return, Raise, tables, money, faults
<1>11. CASE RecordClassification(w)
  BY <1>11 DEF IInv, TypeOK, RecordClassification, ClassificationOf, RouteWriteNeverConflicts, Routed, Classified,
     RouterHoldsClassification, RoutesFollowTheirClassification,
     Goto, DropLocals, Return, Raise, tables, money, faults
<1>12. CASE RecordRoute(w)
  BY <1>12 DEF IInv, TypeOK, RecordRoute, RouteWriteNeverConflicts, Routed, Classified,
     RouterHoldsClassification, RoutesFollowTheirClassification,
     Goto, DropLocals, Return, Raise, tables, money, faults
<1>13. CASE Retry(w)
  BY <1>13 DEF IInv, TypeOK, Retry, RouteWriteNeverConflicts, Routed, Classified,
     RouterHoldsClassification, RoutesFollowTheirClassification,
     Goto, DropLocals, Return, Raise, tables, money, faults
<1>14. CASE Crash(w)
  BY <1>14 DEF IInv, TypeOK, Crash, RouteWriteNeverConflicts, Routed, Classified,
     RouterHoldsClassification, RoutesFollowTheirClassification,
     Goto, DropLocals, Return, Raise, tables, money, faults
<1> QED
  BY <1>1, <1>2, <1>3, <1>4, <1>5, <1>6, <1>7, <1>8, <1>9, <1>10,
     <1>11, <1>12, <1>13, <1>14 DEF Attempt

\* OnlyErrorsEscapeTheLedger: the audit row precedes the classification, and a paid
\* answer stays in sight until its row is there.
LEMMA OnlyErrorsEscapeTheLedgerStep ==
  ASSUME IInv, NEW w \in Worker, Attempt(w) \/ Crash(w)
  PROVE  OnlyErrorsEscapeTheLedger'
<1>1. ClassificationsAreExplained'
  <2>1. CASE RecordClassification(w)
    BY <2>1, RecordClassificationStep
  <2>2. CASE ~RecordClassification(w)
    <3>1. classifications' = classifications
      BY <2>2 DEF Attempt, Crash, ReadState, RecordSignal, ClassifyAnswered, RouteAnswered,
         ClassifyFailed, Unexpected, FatalError, AuditClassify, AuditRoute, AuditFailure,
         RecordRoute, Retry, tables
    <3>2. ledger \subseteq ledger'
      BY FrameOfAttempt DEF IInv
    <3> QED
      BY <3>1, <3>2 DEF IInv, OnlyErrorsEscapeTheLedger, ClassificationsAreExplained
  <2> QED
    BY <2>1, <2>2
<1>2. PaidAnswersAreAccounted'
  <2>1. CASE ReadState(w)
    BY <2>1 DEF IInv, TypeOK, ReadState, OnlyErrorsEscapeTheLedger,
       PaidAnswersAreAccounted, HoldsAnswer, LoseAnswer, Running,
       Goto, DropLocals, Return, Raise, tables, money, faults
  <2>2. CASE RecordSignal(w)
    BY <2>2 DEF IInv, TypeOK, RecordSignal, OnlyErrorsEscapeTheLedger,
       PaidAnswersAreAccounted, HoldsAnswer, LoseAnswer, Running,
       Goto, DropLocals, Return, Raise, tables, money, faults
  <2>3. CASE ClassifyAnswered(w)
    <3>1. /\ charged' = [charged EXCEPT ![key[w]] = @ + 1]
          /\ UNCHANGED <<ledger, key, unwritten>>
      BY <2>3 DEF ClassifyAnswered, faults
    <3>2. HoldsAnswer(w)' /\ \A v \in Worker : HoldsAnswer(v) => HoldsAnswer(v)'
      BY <2>3 DEF IInv, TypeOK, ClassifyAnswered, HoldsAnswer, Goto
    <3>3. \A k \in Key : k # key[w] => charged'[k] = charged[k]
      BY <3>1 DEF IInv, TypeOK
    <3> QED
      BY <3>1, <3>2, <3>3 DEF IInv, OnlyErrorsEscapeTheLedger, PaidAnswersAreAccounted
  <2>4. CASE RouteAnswered(w)
    BY <2>4 DEF IInv, TypeOK, RouteAnswered, OnlyErrorsEscapeTheLedger,
       PaidAnswersAreAccounted, HoldsAnswer, LoseAnswer, Running,
       Goto, DropLocals, Return, Raise, tables, money, faults
  <2>5. CASE ClassifyFailed(w)
    BY <2>5 DEF IInv, TypeOK, ClassifyFailed, OnlyErrorsEscapeTheLedger,
       PaidAnswersAreAccounted, HoldsAnswer, LoseAnswer, Running,
       Goto, DropLocals, Return, Raise, tables, money, faults
  <2>6. CASE Unexpected(w)
    BY <2>6 DEF IInv, TypeOK, Unexpected, Fallback, OnlyErrorsEscapeTheLedger,
       PaidAnswersAreAccounted, HoldsAnswer, LoseAnswer, Running,
       Goto, DropLocals, Return, Raise, tables, money, faults
  <2>7. CASE FatalError(w)
    BY <2>7 DEF IInv, TypeOK, FatalError, OnlyErrorsEscapeTheLedger,
       PaidAnswersAreAccounted, HoldsAnswer, LoseAnswer, Running,
       Goto, DropLocals, Return, Raise, tables, money, faults
  <2>8. CASE AuditClassify(w)
    BY <2>8 DEF IInv, TypeOK, AuditClassify, OnlyErrorsEscapeTheLedger,
       PaidAnswersAreAccounted, HoldsAnswer, LoseAnswer, Running,
       Goto, DropLocals, Return, Raise, tables, money, faults
  <2>9. CASE AuditRoute(w)
    BY <2>9 DEF IInv, TypeOK, AuditRoute, OnlyErrorsEscapeTheLedger,
       PaidAnswersAreAccounted, HoldsAnswer, LoseAnswer, Running,
       Goto, DropLocals, Return, Raise, tables, money, faults
  <2>10. CASE AuditFailure(w)
    BY <2>10 DEF IInv, TypeOK, AuditFailure, Fallback, OnlyErrorsEscapeTheLedger,
       PaidAnswersAreAccounted, HoldsAnswer, LoseAnswer, Running,
       Goto, DropLocals, Return, Raise, tables, money, faults
  <2>11. CASE RecordClassification(w)
    BY <2>11 DEF IInv, TypeOK, RecordClassification, OnlyErrorsEscapeTheLedger,
       PaidAnswersAreAccounted, HoldsAnswer, LoseAnswer, Running,
       Goto, DropLocals, Return, Raise, tables, money, faults
  <2>12. CASE RecordRoute(w)
    BY <2>12 DEF IInv, TypeOK, RecordRoute, OnlyErrorsEscapeTheLedger,
       PaidAnswersAreAccounted, HoldsAnswer, LoseAnswer, Running,
       Goto, DropLocals, Return, Raise, tables, money, faults
  <2>13. CASE Retry(w)
    BY <2>13 DEF IInv, TypeOK, Retry, OnlyErrorsEscapeTheLedger,
       PaidAnswersAreAccounted, HoldsAnswer, LoseAnswer, Running,
       Goto, DropLocals, Return, Raise, tables, money, faults
  <2>14. CASE Crash(w)
    BY <2>14 DEF IInv, TypeOK, Crash, OnlyErrorsEscapeTheLedger,
       PaidAnswersAreAccounted, HoldsAnswer, LoseAnswer, Running,
       Goto, DropLocals, Return, Raise, tables, money, faults
  <2> QED
    BY <2>1, <2>2, <2>3, <2>4, <2>5, <2>6, <2>7, <2>8, <2>9, <2>10,
       <2>11, <2>12, <2>13, <2>14 DEF Attempt
<1> QED
  BY <1>1, <1>2 DEF OnlyErrorsEscapeTheLedger

\* OnlyCutOffSignalsLackRoutes: a classified signal has its router until it dies.
LEMMA OnlyCutOffSignalsLackRoutesStep ==
  ASSUME IInv, NEW w \in Worker, Attempt(w) \/ Crash(w)
  PROVE  OnlyCutOffSignalsLackRoutes'
<1>1. CASE ReadState(w)
  BY <1>1 DEF IInv, TypeOK, ReadState, OnlyCutOffSignalsLackRoutes, Classified, Routed, Running,
     Goto, DropLocals, Return, Raise, tables, money, faults
<1>2. CASE RecordSignal(w)
  BY <1>2 DEF IInv, TypeOK, RecordSignal, OnlyCutOffSignalsLackRoutes, Classified, Routed, Running,
     Goto, DropLocals, Return, Raise, tables, money, faults
<1>3. CASE ClassifyAnswered(w)
  BY <1>3 DEF IInv, TypeOK, ClassifyAnswered, OnlyCutOffSignalsLackRoutes, Classified, Routed, Running,
     Goto, DropLocals, Return, Raise, tables, money, faults
<1>4. CASE RouteAnswered(w)
  BY <1>4 DEF IInv, TypeOK, RouteAnswered, OnlyCutOffSignalsLackRoutes, Classified, Routed, Running,
     Goto, DropLocals, Return, Raise, tables, money, faults
<1>5. CASE ClassifyFailed(w)
  BY <1>5 DEF IInv, TypeOK, ClassifyFailed, OnlyCutOffSignalsLackRoutes, Classified, Routed, Running,
     Goto, DropLocals, Return, Raise, tables, money, faults
<1>6. CASE Unexpected(w)
  BY <1>6 DEF IInv, TypeOK, Unexpected, Fallback, OnlyCutOffSignalsLackRoutes, Classified, Routed, Running,
     Goto, DropLocals, Return, Raise, tables, money, faults
<1>7. CASE FatalError(w)
  BY <1>7 DEF IInv, TypeOK, FatalError, OnlyCutOffSignalsLackRoutes, Classified, Routed, Running,
     Goto, DropLocals, Return, Raise, tables, money, faults
<1>8. CASE AuditClassify(w)
  BY <1>8 DEF IInv, TypeOK, AuditClassify, OnlyCutOffSignalsLackRoutes, Classified, Routed, Running,
     Goto, DropLocals, Return, Raise, tables, money, faults
<1>9. CASE AuditRoute(w)
  BY <1>9 DEF IInv, TypeOK, AuditRoute, OnlyCutOffSignalsLackRoutes, Classified, Routed, Running,
     Goto, DropLocals, Return, Raise, tables, money, faults
<1>10. CASE AuditFailure(w)
  BY <1>10 DEF IInv, TypeOK, AuditFailure, Fallback, OnlyCutOffSignalsLackRoutes, Classified, Routed, Running,
     Goto, DropLocals, Return, Raise, tables, money, faults
<1>11. CASE RecordClassification(w)
  BY <1>11 DEF IInv, TypeOK, RecordClassification, ClassificationOf, OnlyCutOffSignalsLackRoutes, Classified, Routed, Running,
     Goto, DropLocals, Return, Raise, tables, money, faults
<1>12. CASE RecordRoute(w)
  BY <1>12, RecordRouteStep
<1>13. CASE Retry(w)
  BY <1>13 DEF IInv, TypeOK, Retry, OnlyCutOffSignalsLackRoutes, Classified, Routed, Running,
     Goto, DropLocals, Return, Raise, tables, money, faults
<1>14. CASE Crash(w)
  BY <1>14 DEF IInv, TypeOK, Crash, OnlyCutOffSignalsLackRoutes, Classified, Routed, Running,
     Goto, DropLocals, Return, Raise, tables, money, faults
<1> QED
  BY <1>1, <1>2, <1>3, <1>4, <1>5, <1>6, <1>7, <1>8, <1>9, <1>10,
     <1>11, <1>12, <1>13, <1>14 DEF Attempt

\* An event that arrives disturbs no part of the invariant.
LEMMA InvDeliver ==
  ASSUME IInv, NEW w \in Worker, NEW k \in Key, Deliver(w, k)
  PROVE  IInv'
<1> USE DEF IInv
<1>1. /\ pc[w] = "idle" /\ pc' = [pc EXCEPT ![w] = "read"]
      /\ key' = [key EXCEPT ![w] = k] /\ result[w] = "none"
      /\ UNCHANGED <<tables, money, verdict, cid, result, faults>>
  BY DEF Deliver, Goto, VerdictsCoherent, VerdictIsCoherent
<1>2. TypeOK'
  BY TypeDeliver
<1>3. VerdictsCoherent'
  BY <1>1 DEF TypeOK, VerdictsCoherent, VerdictIsCoherent, Running, tables, money
<1>4. AnswersAreDurable'
  BY <1>1 DEF TypeOK, AnswersAreDurable, AnswerIsDurable, Classified, tables, money
<1>5. /\ ClassificationsKeyed' /\ RoutesFollowTheirClassification'
      /\ OnlyErrorsEscapeTheLedger'
  BY <1>1 DEF TypeOK, ClassificationsKeyed, RoutesFollowTheirClassification,
     OnlyErrorsEscapeTheLedger, ClassificationsAreExplained, PaidAnswersAreAccounted,
     HoldsAnswer, tables, money, faults
<1>6. RouterHoldsClassification' /\ RouteWriteNeverConflicts'
  BY <1>1 DEF TypeOK, RouterHoldsClassification, RouteWriteNeverConflicts, Routed, tables
<1>7. OnlyCutOffSignalsLackRoutes'
  BY <1>1 DEF TypeOK, OnlyCutOffSignalsLackRoutes, Classified, Routed, tables, faults
<1> QED
  BY <1>2, <1>3, <1>4, <1>5, <1>6, <1>7

\* Nor does a step that changes nothing.
LEMMA InvStutter ==
  ASSUME IInv, UNCHANGED vars
  PROVE  IInv'
<1> USE DEF IInv, vars, tables, money, faults
<1>1. TypeOK' /\ ClassificationsKeyed' /\ RouterHoldsClassification'
  BY DEF TypeOK, ClassificationsKeyed, RouterHoldsClassification
<1>2. VerdictsCoherent'
  BY DEF VerdictsCoherent, VerdictIsCoherent
<1>3. RoutesFollowTheirClassification' /\ RouteWriteNeverConflicts'
  BY DEF RoutesFollowTheirClassification, RouteWriteNeverConflicts, Routed
<1>4. OnlyErrorsEscapeTheLedger' /\ AnswersAreDurable'
  <2>1. ClassificationsAreExplained'
    BY DEF OnlyErrorsEscapeTheLedger, ClassificationsAreExplained
  <2>2. PaidAnswersAreAccounted'
    BY DEF OnlyErrorsEscapeTheLedger, PaidAnswersAreAccounted, HoldsAnswer
  <2>3. AnswersAreDurable'
    BY DEF AnswersAreDurable, AnswerIsDurable, Classified
  <2> QED
    BY <2>1, <2>2, <2>3 DEF OnlyErrorsEscapeTheLedger
<1>5. OnlyCutOffSignalsLackRoutes'
  BY DEF OnlyCutOffSignalsLackRoutes, Classified, Routed
<1> QED
  BY <1>1, <1>2, <1>3, <1>4, <1>5

\* The strengthened invariant holds of every behaviour of process_signal, for any
\* number of concurrent attempts.
THEOREM InvariantHolds == Spec => []IInv
<1>1. Init => IInv
  BY VerdictTypes DEF Init, IInv, TypeOK, Status, Place, Running, ClassificationsKeyed,
     VerdictsCoherent, VerdictIsCoherent, RouterHoldsClassification,
     RoutesFollowTheirClassification, RouteWriteNeverConflicts,
     OnlyErrorsEscapeTheLedger, ClassificationsAreExplained, PaidAnswersAreAccounted,
     AnswersAreDurable, AnswerIsDurable, OnlyCutOffSignalsLackRoutes, Classified, Routed
<1>2. IInv /\ [Next]_vars => IInv'
  <2> SUFFICES ASSUME IInv, [Next]_vars PROVE IInv'
    OBVIOUS
  <2>1. CASE \E w \in Worker, k \in Key : Deliver(w, k)
    BY <2>1, InvDeliver
  <2>2. ASSUME NEW w \in Worker, Attempt(w) \/ Crash(w) PROVE IInv'
    <3>1. TypeOK'
      BY <2>2, TypeStep DEF IInv
    <3> QED
      BY <2>2, <3>1, ClassificationsKeyedStep, VerdictsCoherentStep,
         RouterHoldsClassificationStep, RoutesFollowTheirClassificationStep,
         RouteWriteNeverConflictsStep, OnlyErrorsEscapeTheLedgerStep,
         AnswersAreDurableStep, OnlyCutOffSignalsLackRoutesStep DEF IInv
  <2>3. CASE UNCHANGED vars
    BY <2>3, InvStutter
  <2> QED
    BY <2>1, <2>2, <2>3 DEF Next, Finished
<1>3. QED
  BY <1>1, <1>2, PTL DEF Spec

\* Rival attempts cannot attach a route to another attempt's decision.
THEOREM RoutesFollow == Spec => []RoutesFollowTheirClassification
<1>1. IInv => RoutesFollowTheirClassification
  BY DEF IInv
<1> QED
  BY <1>1, InvariantHolds, PTL

\* record_route never meets its UNIQUE constraint: the write of the
\* classification has already chosen one worker per signal.
THEOREM RouteWriteSerialised == Spec => []RouteWriteNeverConflicts
<1>1. IInv => RouteWriteNeverConflicts
  BY DEF IInv
<1> QED
  BY <1>1, InvariantHolds, PTL

\* Model and gateway-failure classifications have their llm_calls rows, the one
\* classification without is the fallback of a swallowed exception, and only an
\* exception, a fatal error or a crash takes a paid answer before its row.
THEOREM OnlyErrorsEscape == Spec => []OnlyErrorsEscapeTheLedger
<1>1. IInv => OnlyErrorsEscapeTheLedger
  BY DEF IInv
<1> QED
  BY <1>1, InvariantHolds, PTL

\* The status process_signal returned is true of the database.
THEOREM AnswersDurable == Spec => []AnswersAreDurable
<1>1. IInv => AnswersAreDurable
  BY DEF IInv
<1> QED
  BY <1>1, InvariantHolds, PTL

\* A classified signal without a route was cut off between the last two commits.
THEOREM OnlyCutOff == Spec => []OnlyCutOffSignalsLackRoutes
<1>1. IInv => OnlyCutOffSignalsLackRoutes
  BY DEF IInv
<1> QED
  BY <1>1, InvariantHolds, PTL

-----------------------------------------------------------------------------
(* Attempts run out. *)

\* No event has more than thirteen steps ahead.
LEMMA StepsLeftBound ==
  ASSUME TypeOK, NEW w \in Worker
  PROVE  StepsLeft(w) \in 0 .. 13
<1>1. pc[w] \in Place
  BY DEF TypeOK
<1>2. CASE pc[w] \in {"read", "raised"}
  BY <1>2 DEF StepsLeft, Ahead
<1>3. CASE pc[w] \notin {"read", "raised"}
  BY <1>1, <1>3 DEF StepsLeft, Ahead, Place, Running
<1> QED
  BY <1>2, <1>3

\* A step of one worker takes nothing back from another: the tables only grow.
LEMMA OthersAddNoSteps ==
  ASSUME IInv, NEW w \in Worker, Attempt(w) \/ Crash(w), NEW v \in Worker \ {w}
  PROVE  StepsLeft(v)' <= StepsLeft(v) /\ pc'[v] = pc[v]
<1>1. /\ pc'[v] = pc[v] /\ key'[v] = key[v] /\ signals \subseteq signals'
      /\ classifications \subseteq classifications'
  BY FrameOfAttempt DEF IInv
<1>2. Classified(key[v]) => Classified(key[v])'
  BY <1>1 DEF Classified
<1>3. StepsLeft(v) \in 0 .. 13
  BY StepsLeftBound DEF IInv
<1>4. CASE pc[v] \in {"read", "raised"}
  BY <1>1, <1>2, <1>4 DEF StepsLeft, Ahead
<1>5. CASE pc[v] \notin {"read", "raised"}
  <2>1. StepsLeft(v)' = StepsLeft(v)
    BY <1>1, <1>5 DEF StepsLeft
  <2> QED
    BY <1>1, <1>3, <2>1
<1> QED
  BY <1>4, <1>5

\* Every step of an attempt but a fatal error uses one up.  An attempt that lost a
\* race finds its signal one stage further when it is retried, and the route write
\* has no race to lose.
LEMMA OwnStepUsesOne ==
  ASSUME IInv, NEW w \in Worker, Attempt(w), ~FatalError(w)
  PROVE  StepsLeft(w)' < StepsLeft(w)
<1> USE DEF IInv, TypeOK, Goto, Return, Raise, DropLocals
<1>0. /\ pc \in [Worker -> Place] /\ key'[w] = key[w]
      /\ signals \subseteq signals' /\ classifications \subseteq classifications'
  BY FrameOfAttempt
<1>1. CASE ReadState(w)
  <2>1. Classified(key[w]) \/ Routed(key[w]) => Classified(key[w])
    BY DEF RoutesFollowTheirClassification, Routed, Classified
  <2>2. CASE Classified(key[w])
    <3>1. pc[w] = "read" /\ pc'[w] = "done"
      BY <1>0, <1>1, <2>2 DEF ReadState
    <3> QED
      BY <2>2, <3>1 DEF StepsLeft, Ahead
  <2>3. CASE ~Classified(key[w])
    <3>1. /\ pc[w] = "read" /\ UNCHANGED <<signals, classifications>>
          /\ pc'[w] = IF key[w] \in signals THEN "classify" ELSE "insert"
      BY <1>0, <1>1, <2>1, <2>3 DEF ReadState, tables
    <3> QED
      BY <1>0, <2>3, <3>1 DEF StepsLeft, Ahead
  <2> QED
    BY <2>2, <2>3
<1>2. CASE RecordSignal(w)
  <2>1. /\ pc[w] = "insert" /\ key[w] \in signals'
        /\ pc'[w] = "classify" \/ pc'[w] = "raised"
    BY <1>0, <1>2 DEF RecordSignal
  <2> QED
    BY <1>0, <2>1 DEF StepsLeft, Ahead
<1>3. CASE ClassifyAnswered(w)
  <2>1. pc[w] = "classify" /\ pc'[w] \in {"audit_classify", "route_call"}
    BY <1>0, <1>3 DEF ClassifyAnswered
  <2> QED
    BY <2>1 DEF StepsLeft, Ahead
<1>4. CASE RouteAnswered(w) \/ ClassifyFailed(w)
  <2>1. \/ pc[w] = "route_call" /\ pc'[w] = "audit_classify"
        \/ pc[w] = "classify" /\ pc'[w] \in {"audit_failure", "audit_invalid"}
    BY <1>0, <1>4 DEF RouteAnswered, ClassifyFailed
  <2> QED
    BY <2>1 DEF StepsLeft, Ahead
<1>5. CASE Unexpected(w)
  <2>1. /\ pc[w] \in {"classify", "route_call", "audit_classify", "audit_route"}
        /\ pc'[w] = "store"
    BY <1>0, <1>5 DEF Unexpected
  <2> QED
    BY <2>1 DEF StepsLeft, Ahead
<1>6. CASE AuditClassify(w) \/ AuditRoute(w)
  <2>1. \/ pc[w] = "audit_classify" /\ pc'[w] \in {"store", "audit_route"}
        \/ pc[w] = "audit_route" /\ pc'[w] = "store"
    BY <1>0, <1>6 DEF AuditClassify, AuditRoute
  <2> QED
    BY <2>1 DEF StepsLeft, Ahead
<1>7. CASE AuditFailure(w)
  <2>1. /\ pc[w] \in {"audit_failure", "audit_invalid"}
        /\ pc'[w] \in {"store", "done"}
    BY <1>0, <1>7 DEF AuditFailure
  <2> QED
    BY <2>1 DEF StepsLeft, Ahead
<1>8. CASE RecordClassification(w)
  <2>1. /\ pc[w] = "store"
        /\ pc'[w] = "route" \/ (pc'[w] = "raised" /\ Classified(key[w]))
    BY <1>0, <1>8 DEF RecordClassification
  <2>2. Classified(key[w]) => Classified(key[w])'
    BY <1>0 DEF Classified
  <2> QED
    BY <2>1, <2>2 DEF StepsLeft, Ahead
<1>9. CASE RecordRoute(w)
  <2>1. pc[w] = "route" /\ ~Routed(key[w])
    BY <1>9 DEF RecordRoute, RouteWriteNeverConflicts
  <2>2. pc'[w] = "done"
    BY <1>0, <1>9, <2>1 DEF RecordRoute
  <2> QED
    BY <2>1, <2>2 DEF StepsLeft, Ahead
<1>10. CASE Retry(w)
  <2>1. /\ pc[w] = "raised" /\ pc'[w] = "read" /\ UNCHANGED <<signals, classifications>>
    BY <1>0, <1>10 DEF Retry, tables
  <2>2. Classified(key[w])' <=> Classified(key[w])
    BY <1>0, <2>1 DEF Classified
  <2> QED
    BY <1>0, <2>1, <2>2 DEF StepsLeft, Ahead
<1> QED
  BY <1>1, <1>2, <1>3, <1>4, <1>5, <1>6, <1>7, <1>8, <1>9, <1>10 DEF Attempt

\* Lost races are retried at most as often as the signal has stages: a worker uses
\* up one of at most thirteen steps with each it takes, for any number of rivals.
THEOREM AttemptsRunOut == Spec => RetriesRunOut
<1> DEFINE Uses(w) ==
        /\ StepsLeft(w) \in 0 .. 13
        /\ \/ Faults' > Faults
           \/ /\ StepsLeft(w)' <= StepsLeft(w)
              /\ pc'[w] # pc[w] => StepsLeft(w)' < StepsLeft(w)
<1>1. IInv /\ [Next]_vars => [\A w \in Worker : pc[w] # "idle" => Uses(w)]_vars
  <2> SUFFICES ASSUME IInv, Next, NEW w \in Worker, pc[w] # "idle"
               PROVE  Uses(w)
    OBVIOUS
  <2>0. StepsLeft(w) \in 0 .. 13 /\ crashes \in Nat /\ fatals \in Nat
    BY StepsLeftBound DEF IInv, TypeOK
  <2>1. ASSUME NEW v \in Worker, NEW k \in Key, Deliver(v, k)
        PROVE  Uses(w)
    <3>1. /\ v # w /\ pc'[w] = pc[w] /\ key'[w] = key[w]
          /\ UNCHANGED <<signals, classifications>>
      BY <2>1 DEF Deliver, Goto, tables, IInv, TypeOK
    <3>2. StepsLeft(w)' = StepsLeft(w)
      BY <3>1 DEF StepsLeft, Classified
    <3> QED
      BY <2>0, <3>1, <3>2
  <2>2. ASSUME NEW v \in Worker, FatalError(v) \/ Crash(v)
        PROVE  Uses(w)
    BY <2>0, <2>2 DEF FatalError, Crash, Faults
  <2>3. ASSUME NEW v \in Worker, Attempt(v), ~FatalError(v)
        PROVE  Uses(w)
    <3>1. CASE v = w
      <4>1. StepsLeft(w)' < StepsLeft(w)
        BY <2>3, <3>1, OwnStepUsesOne
      <4>2. pc'[w] \in Place
        BY <2>3, TypeStep DEF IInv, TypeOK
      <4>3. StepsLeft(w)' \in 0 .. 13
        BY <4>2 DEF StepsLeft, Ahead, Place, Running
      <4> QED
        BY <2>0, <4>1, <4>3
    <3>2. CASE v # w
      BY <2>0, <2>3, <3>2, OthersAddNoSteps
    <3> QED
      BY <3>1, <3>2
  <2>4. CASE UNCHANGED vars
    <3>1. StepsLeft(w)' = StepsLeft(w) /\ pc' = pc
      BY <2>4 DEF vars, tables, StepsLeft, Classified
    <3> QED
      BY <2>0, <3>1
  <2> QED
    BY <2>1, <2>2, <2>3, <2>4 DEF Next, Finished
<1> QED
  BY <1>1, InvariantHolds, PTL DEF Spec, RetriesRunOut

-----------------------------------------------------------------------------
(* What a signal may cost. *)

\* The workers that were given a signal, and those that may pay for it, can be counted.
LEMMA Countable ==
  ASSUME NEW k
  PROVE  /\ IsFiniteSet(Given(k)) /\ Cardinality(Given(k)) \in Nat
         /\ IsFiniteSet(MayPay(k)) /\ Cardinality(MayPay(k)) \in Nat
<1>1. IsFiniteSet(Given(k)) /\ IsFiniteSet(MayPay(k))
  BY WorkerAssumption, FS_Subset DEF Given, MayPay
<1> QED
  BY <1>1, FS_CardinalityType

\* And so they can after a step.
LEMMA CountableNext ==
  ASSUME NEW k
  PROVE  /\ IsFiniteSet(Given(k)') /\ Cardinality(Given(k)') \in Nat
         /\ IsFiniteSet(MayPay(k)') /\ Cardinality(MayPay(k)') \in Nat
<1>1. IsFiniteSet(Given(k)') /\ IsFiniteSet(MayPay(k)')
  BY WorkerAssumption, FS_Subset DEF Given, MayPay
<1> QED
  BY <1>1, FS_CardinalityType

\* One more worker adds at most one.
LEMMA OneMore ==
  ASSUME NEW S, IsFiniteSet(S), NEW x, NEW T \in SUBSET (S \cup {x})
  PROVE  IsFiniteSet(T) /\ Cardinality(T) <= Cardinality(S) + 1
<1>1. Cardinality(S) \in Nat
  BY FS_CardinalityType
<1>2. /\ IsFiniteSet(S \cup {x}) /\ Cardinality(S \cup {x}) \in Nat
      /\ Cardinality(S \cup {x}) <= Cardinality(S) + 1
  <2>1. /\ IsFiniteSet(S \cup {x})
        /\ Cardinality(S \cup {x}) = IF x \in S THEN Cardinality(S) ELSE Cardinality(S) + 1
    BY FS_AddElement
  <2> QED
    BY <1>1, <2>1
<1>3. /\ IsFiniteSet(T) /\ Cardinality(T) \in Nat
      /\ Cardinality(T) <= Cardinality(S \cup {x})
  BY <1>2, FS_Subset, FS_CardinalityType
<1> QED
  BY <1>1, <1>2, <1>3

\* A step after the delivery leaves the workers that were given a signal as they
\* are, and a worker that did not step may not pay for more than before.
LEMMA PayersOfAttempt ==
  ASSUME IInv, NEW w \in Worker, Attempt(w) \/ Crash(w), NEW k \in Key
  PROVE  Given(k)' = Given(k) /\ MayPay(k)' \subseteq MayPay(k) \cup {w}
<1>1. /\ key' = key /\ classifications \subseteq classifications'
      /\ \A v \in Worker \ {w} : pc'[v] = pc[v]
  BY FrameOfAttempt DEF IInv
<1>2. pc[w] # "idle"
  BY DEF Attempt, Crash, ReadState, RecordSignal, ClassifyAnswered, RouteAnswered,
     ClassifyFailed, Unexpected, FatalError, AuditClassify, AuditRoute, AuditFailure,
     RecordClassification, RecordRoute, Retry, Running
<1>3. pc'[w] # "idle"
  BY DEF IInv, TypeOK, Attempt, Crash, ReadState, RecordSignal, ClassifyAnswered,
     RouteAnswered, ClassifyFailed, Unexpected, FatalError, AuditClassify, AuditRoute,
     AuditFailure, RecordClassification, RecordRoute, Retry, Goto, Return, Raise
<1>4. Given(k)' = Given(k)
  BY <1>1, <1>2, <1>3 DEF Given
<1>5. Classified(k) => Classified(k)'
  BY <1>1 DEF Classified
<1>6. ASSUME NEW v \in MayPay(k)', v # w
      PROVE  v \in MayPay(k)
  <2>1. v \in Worker /\ v \in Given(k)
    BY <1>4, <1>6 DEF MayPay, Given
  <2>2. pc'[v] = pc[v]
    BY <1>1, <1>6, <2>1
  <2> QED
    BY <1>5, <1>6, <2>1, <2>2 DEF MayPay
<1> QED
  BY <1>4, <1>6

\* A worker comes to pay by its delivery or a fault only: it goes on to the
\* classify call from a signal nobody had classified, and one that lost the race
\* for the classification finds it when it is retried.
LEMMA PayersRemain ==
  ASSUME IInv, NEW w \in Worker, Attempt(w), ~FatalError(w), ~ClassifyAnswered(w),
         NEW k \in Key
  PROVE  MayPay(k)' \subseteq MayPay(k)
<1> SUFFICES ASSUME w \in MayPay(k)' PROVE w \in MayPay(k)
  BY PayersOfAttempt
<1> USE DEF IInv, TypeOK, Goto, Return, Raise, DropLocals
<1>0. /\ pc \in [Worker -> Place] /\ key' = key /\ key[w] = k
      /\ pc'[w] \in {"classify", "read", "insert", "raised"}
      /\ pc'[w] # "classify" => ~Classified(k)'
      /\ w \in Given(k)
  BY FrameOfAttempt, PayersOfAttempt DEF MayPay, Given
<1>1. CASE ReadState(w)
  BY <1>0, <1>1 DEF ReadState, MayPay
<1>2. CASE RecordSignal(w)
  <2>1. pc[w] = "insert" /\ UNCHANGED classifications
    BY <1>2 DEF RecordSignal
  <2>2. CASE key[w] \notin signals
    BY <1>0, <2>1, <2>2 DEF MayPay, ClassificationsKeyed, Classified
  <2>3. CASE key[w] \in signals
    <3>1. pc'[w] = "raised"
      BY <1>0, <1>2, <2>3 DEF RecordSignal
    <3> QED
      BY <1>0, <2>1, <3>1 DEF MayPay, Classified
  <2> QED
    BY <2>2, <2>3
<1>3. ~(RouteAnswered(w) \/ ClassifyFailed(w) \/ Unexpected(w) \/ AuditClassify(w)
        \/ AuditRoute(w) \/ AuditFailure(w))
  BY <1>0 DEF RouteAnswered, ClassifyFailed, Unexpected, AuditClassify, AuditRoute,
     AuditFailure
<1>4. ~RecordClassification(w)
  <2> SUFFICES ASSUME RecordClassification(w) PROVE FALSE
    OBVIOUS
  <2>1. CASE ~Classified(k)
    BY <1>0, <2>1 DEF RecordClassification
  <2>2. CASE Classified(k)
    <3>1. Classified(k)' /\ pc'[w] = "raised"
      BY <1>0, <2>2 DEF RecordClassification, Classified
    <3> QED
      BY <1>0, <3>1
  <2> QED
    BY <2>1, <2>2
<1>5. ~RecordRoute(w)
  BY <1>0 DEF RecordRoute, RouteWriteNeverConflicts
<1>6. CASE Retry(w)
  BY <1>0, <1>6 DEF Retry, MayPay, Classified, tables
<1> QED
  BY <1>1, <1>2, <1>3, <1>4, <1>5, <1>6 DEF Attempt

\* The account of a delivery: one more worker was given the signal, and may pay.
LEMMA ChargesDeliver ==
  ASSUME IInv, ChargesAccounted, NEW w \in Worker, NEW k \in Key, Deliver(w, k)
  PROVE  ChargesAccounted'
<1>1. /\ pc[w] = "idle" /\ pc' = [pc EXCEPT ![w] = "read"]
      /\ key' = [key EXCEPT ![w] = k]
      /\ UNCHANGED <<tables, money, faults>>
  BY DEF Deliver, Goto
<1>2. UNCHANGED <<charged, Faults, classifications>>
  BY <1>1 DEF money, faults, tables, Faults
<1> SUFFICES ASSUME NEW i \in Key
             PROVE  charged'[i] + Cardinality(MayPay(i)')
                      <= Cardinality(Given(i)') + Faults'
  BY DEF ChargesAccounted
<1>3. /\ charged[i] + Cardinality(MayPay(i)) <= Cardinality(Given(i)) + Faults
      /\ charged[i] \in Nat /\ Faults \in Nat
  BY DEF ChargesAccounted, IInv, TypeOK, Faults
<1>4. CASE i = k
  <2>1. Given(i)' = Given(i) \cup {w} /\ w \notin Given(i)
    BY <1>1, <1>4 DEF Given, IInv, TypeOK
  <2>2. MayPay(i)' \subseteq MayPay(i) \cup {w}
    BY <1>1, <1>2, <2>1 DEF MayPay, Given, Classified, IInv, TypeOK
  <2>3. Cardinality(Given(i)') = Cardinality(Given(i)) + 1
    BY <2>1, Countable, FS_AddElement
  <2>4. Cardinality(MayPay(i)') <= Cardinality(MayPay(i)) + 1
    BY <2>2, Countable, OneMore
  <2> QED
    BY <1>2, <1>3, <2>3, <2>4, Countable, CountableNext
<1>5. CASE i # k
  <2>1. Given(i)' = Given(i)
    BY <1>1, <1>5 DEF Given, IInv, TypeOK
  <2>2. MayPay(i)' = MayPay(i)
    BY <1>1, <1>2, <2>1 DEF MayPay, Given, Classified, IInv, TypeOK
  <2> QED
    BY <1>2, <1>3, <2>1, <2>2
<1> QED
  BY <1>4, <1>5

\* The account of an answer of the model: who could pay has paid.
LEMMA ChargesAnswered ==
  ASSUME IInv, ChargesAccounted, NEW w \in Worker, ClassifyAnswered(w)
  PROVE  ChargesAccounted'
<1> DEFINE k == key[w]
<1>1. /\ pc[w] = "classify" /\ k \in Key /\ UNCHANGED <<tables, key, faults>>
      /\ charged' = [charged EXCEPT ![k] = @ + 1]
      /\ pc'[w] \in {"audit_classify", "route_call"}
  BY DEF IInv, TypeOK, ClassifyAnswered, Goto
<1>2. w \in MayPay(k)
  BY <1>1 DEF MayPay, Given
<1> SUFFICES ASSUME NEW i \in Key
             PROVE  charged'[i] + Cardinality(MayPay(i)')
                      <= Cardinality(Given(i)') + Faults'
  BY DEF ChargesAccounted
<1>3. /\ charged[i] + Cardinality(MayPay(i)) <= Cardinality(Given(i)) + Faults
      /\ charged[i] \in Nat /\ Faults \in Nat /\ Faults' = Faults
  BY <1>1 DEF ChargesAccounted, IInv, TypeOK, Faults, faults
<1>4. Given(i)' = Given(i) /\ MayPay(i)' \subseteq MayPay(i) \ {w}
  <2>1. Given(i)' = Given(i) /\ MayPay(i)' \subseteq MayPay(i) \cup {w}
    BY PayersOfAttempt DEF Attempt
  <2>2. w \notin MayPay(i)'
    BY <1>1 DEF MayPay
  <2> QED
    BY <2>1, <2>2
<1>5. CASE i = k
  <2>1. /\ IsFiniteSet(MayPay(i) \ {w})
        /\ Cardinality(MayPay(i) \ {w}) = Cardinality(MayPay(i)) - 1
    BY <1>2, <1>5, Countable, FS_RemoveElement
  <2>2. Cardinality(MayPay(i)') <= Cardinality(MayPay(i)) - 1
    BY <1>4, <2>1, FS_Subset
  <2>3. charged'[i] = charged[i] + 1
    BY <1>1, <1>5 DEF IInv, TypeOK
  <2> QED
    BY <1>3, <1>4, <2>2, <2>3, Countable, CountableNext
<1>6. CASE i # k
  <2>1. Cardinality(MayPay(i)') <= Cardinality(MayPay(i))
    BY <1>4, Countable, FS_Subset
  <2>2. charged'[i] = charged[i]
    BY <1>1, <1>6 DEF IInv, TypeOK
  <2> QED
    BY <1>3, <1>4, <2>1, <2>2, Countable, CountableNext
<1> QED
  BY <1>5, <1>6

\* The account of a fault: it is counted, and the worker it struck may pay again.
LEMMA ChargesFault ==
  ASSUME IInv, ChargesAccounted, NEW w \in Worker, FatalError(w) \/ Crash(w)
  PROVE  ChargesAccounted'
<1>1. charged' = charged /\ Faults' = Faults + 1
  BY DEF FatalError, Crash, Faults, money, IInv, TypeOK
<1> SUFFICES ASSUME NEW i \in Key
             PROVE  charged'[i] + Cardinality(MayPay(i)')
                      <= Cardinality(Given(i)') + Faults'
  BY DEF ChargesAccounted
<1>2. /\ charged[i] + Cardinality(MayPay(i)) <= Cardinality(Given(i)) + Faults
      /\ charged[i] \in Nat /\ Faults \in Nat
  BY DEF ChargesAccounted, IInv, TypeOK, Faults
<1>3. Given(i)' = Given(i) /\ MayPay(i)' \subseteq MayPay(i) \cup {w}
  BY PayersOfAttempt DEF Attempt
<1>4. Cardinality(MayPay(i)') <= Cardinality(MayPay(i)) + 1
  BY <1>3, Countable, OneMore
<1> QED
  BY <1>1, <1>2, <1>3, <1>4, Countable, CountableNext

\* Any other step of an attempt costs nothing.
LEMMA ChargesElse ==
  ASSUME IInv, ChargesAccounted, NEW w \in Worker, Attempt(w), ~FatalError(w),
         ~ClassifyAnswered(w)
  PROVE  ChargesAccounted'
<1>1. charged' = charged /\ Faults' = Faults
  BY DEF Attempt, ReadState, RecordSignal, RouteAnswered, ClassifyFailed, Unexpected,
     AuditClassify, AuditRoute, AuditFailure, RecordClassification, RecordRoute, Retry,
     money, faults, Faults
<1> SUFFICES ASSUME NEW i \in Key
             PROVE  charged'[i] + Cardinality(MayPay(i)')
                      <= Cardinality(Given(i)') + Faults'
  BY DEF ChargesAccounted
<1>2. /\ charged[i] + Cardinality(MayPay(i)) <= Cardinality(Given(i)) + Faults
      /\ charged[i] \in Nat /\ Faults \in Nat
  BY DEF ChargesAccounted, IInv, TypeOK, Faults
<1>3. Given(i)' = Given(i) /\ MayPay(i)' \subseteq MayPay(i)
  BY PayersOfAttempt, PayersRemain
<1>4. Cardinality(MayPay(i)') <= Cardinality(MayPay(i))
  BY <1>3, Countable, FS_Subset
<1> QED
  BY <1>1, <1>2, <1>3, <1>4, Countable, CountableNext

\* What the double charge can come to: however deliveries, rivals and retries
\* interleave, a signal is paid for at most once per delivery and once per fault.
THEOREM ChargesBounded == Spec => []ChargesAreBounded
<1>1. Init => ChargesAccounted
  <2> SUFFICES ASSUME Init, NEW k \in Key
               PROVE  charged[k] + Cardinality(MayPay(k)) <= Cardinality(Given(k)) + Faults
    BY DEF ChargesAccounted
  <2>1. charged[k] = 0 /\ Faults = 0 /\ MayPay(k) = {}
    BY DEF Init, Faults, MayPay, Given
  <2>2. Cardinality(MayPay(k)) = 0
    BY <2>1, FS_EmptySet
  <2> QED
    BY <2>1, <2>2, Countable
<1>2. IInv /\ ChargesAccounted /\ [Next]_vars => ChargesAccounted'
  <2> SUFFICES ASSUME IInv, ChargesAccounted, [Next]_vars PROVE ChargesAccounted'
    OBVIOUS
  <2>1. CASE \E w \in Worker, k \in Key : Deliver(w, k)
    BY <2>1, ChargesDeliver
  <2>2. CASE \E w \in Worker : Attempt(w) \/ Crash(w)
    BY <2>2, ChargesAnswered, ChargesFault, ChargesElse
  <2>3. CASE UNCHANGED vars
    BY <2>3 DEF vars, tables, money, faults, ChargesAccounted, MayPay, Given, Faults,
       Classified
  <2> QED
    BY <2>1, <2>2, <2>3 DEF Next, Finished
<1>3. IInv /\ ChargesAccounted => ChargesAreBounded
  <2> SUFFICES ASSUME IInv, ChargesAccounted, NEW k \in Key
               PROVE  charged[k] <= Cardinality(Given(k)) + Faults
    BY DEF ChargesAreBounded
  <2> QED
    BY Countable DEF ChargesAccounted, IInv, TypeOK, Faults
<1> QED
  BY <1>1, <1>2, <1>3, InvariantHolds, PTL DEF Spec
=============================================================================
