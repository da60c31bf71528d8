-------------------------- MODULE LLMGatewayProofs --------------------------
(***************************************************************************)
(* Cost, budgets and the wall-clock cap of OpenRouterGateway, for every    *)
(* number of models and every timeout.                                     *)
(***************************************************************************)
EXTENDS LLMGateway, TLAPS

\* The two ways on from a failed model: the chain is exhausted or goes on.
LEMMA NextModelFacts ==
  ASSUME TypeOK, NEW cost \in Nat, NextModel(cost)
  PROVE  /\ pc' \in {"idle", "attempt"} /\ model' \in Model
         /\ attempt' \in 1 .. MAX_ATTEMPTS_PER_MODEL
         /\ outcome' \in Outcome /\ reported' \in Nat /\ clock' = clock
         /\ \/ /\ model = Models /\ model' = model /\ pc' = "idle"
               /\ outcome' = "exhausted" /\ reported' = cost
            \/ /\ model' = model + 1 /\ pc' = "attempt" /\ attempt' = 1
               /\ outcome' = outcome /\ reported' = reported
BY StageAssumption, SMTT(30) DEF TypeOK, NextModel, End, Model, Outcome, MAX_ATTEMPTS_PER_MODEL

\* Every step keeps the types.
LEMMA TypeStep ==
  ASSUME TypeOK, Next
  PROVE  TypeOK'
<1> USE StageAssumption DEF request, progress, history
<1>1. CASE \E j, v \in BOOLEAN : Start(j, v)
  BY <1>1 DEF TypeOK, Start, Model, Outcome, MAX_ATTEMPTS_PER_MODEL
<1>2. CASE Attempt \/ Resend
  <2>1. CASE Attempt
    BY <2>1 DEF TypeOK, Attempt, End, Outcome
  <2>2. CASE Resend
    BY <2>2 DEF TypeOK, Resend, End, Outcome
  <2> QED
    BY <1>2, <2>1, <2>2
<1>3. CASE Wait
  BY <1>3 DEF TypeOK, Wait
<1>4. CASE Answered
  <2>1. PICK cost \in {0, 1}, ok \in BOOLEAN :
          /\ billed' = billed + cost
          /\ \/ /\ ~validated
                /\ End(IF ok THEN "answer" ELSE "parse", cost)
                /\ UNCHANGED <<tally, gaveUp>>
             \/ /\ validated /\ ok
                /\ tally' = tally + cost
                /\ End("answer", tally + cost)
                /\ UNCHANGED gaveUp
             \/ /\ validated /\ ~ok
                /\ tally' = tally + cost
                /\ gaveUp' = gaveUp \cup {model}
                /\ NextModel(tally + cost)
    BY <1>4 DEF Answered
  <2>2. tally + cost \in Nat /\ billed + cost \in Nat
    BY DEF TypeOK
  <2>3. UNCHANGED <<request, total, noJsonMode, calls, overdue, tries, rejections>>
    BY <1>4 DEF Answered
  <2>4. CASE validated /\ ~ok
    BY <2>1, <2>2, <2>3, <2>4, NextModelFacts DEF TypeOK
  <2>5. CASE ~(validated /\ ~ok)
    BY <2>1, <2>2, <2>3, <2>5 DEF TypeOK, End, Outcome
  <2> QED
    BY <2>4, <2>5
<1>5. CASE TransientFailure
  <2>1. /\ tries' = [tries EXCEPT ![model] = @ + 1]
        /\ UNCHANGED <<request, total, tally, noJsonMode, billed, calls, overdue,
                       gaveUp, rejections>>
    BY <1>5 DEF TransientFailure
  <2>2. tries' \in [Model -> Nat] /\ tally \in Nat
    BY <2>1 DEF TypeOK
  <2>3. CASE attempt = MAX_ATTEMPTS_PER_MODEL
    BY <1>5, <2>1, <2>2, <2>3, NextModelFacts DEF TypeOK, TransientFailure
  <2>4. CASE attempt # MAX_ATTEMPTS_PER_MODEL
    <3>1. attempt \in 1 .. 2 /\ attempt + 1 \in 1 .. MAX_ATTEMPTS_PER_MODEL
      BY <2>4 DEF TypeOK, MAX_ATTEMPTS_PER_MODEL
    <3>2. clock + Backoff[attempt] \in Nat
      BY <3>1 DEF TypeOK, Backoff
    <3> QED
      BY <1>5, <2>1, <2>2, <2>4, <3>1, <3>2 DEF TypeOK, TransientFailure, End, Outcome
  <2> QED
    BY <2>3, <2>4
<1>6. CASE Unavailable
  <2>1. tally \in Nat
    BY DEF TypeOK
  <2> QED
    BY <1>6, <2>1, NextModelFacts DEF TypeOK, Unavailable
<1>7. CASE JsonModeRejected
  BY <1>7 DEF TypeOK, JsonModeRejected, End, Outcome
<1>8. CASE Refused
  BY <1>8 DEF TypeOK, Refused, End, Outcome
<1> QED
  BY <1>1, <1>2, <1>3, <1>4, <1>5, <1>6, <1>7, <1>8 DEF Next

\* The three ends of a response.
LEMMA AnsweredFacts ==
  ASSUME Answered
  PROVE  /\ pc = "sent"
         /\ UNCHANGED <<json, validated, total, noJsonMode, calls, overdue, tries, rejections>>
         /\ \E cost \in {0, 1} :
              /\ billed' = billed + cost
              /\ \/ /\ ~validated /\ pc' = "idle" /\ reported' = cost
                    /\ outcome' \in {"answer", "parse"}
                    /\ UNCHANGED <<clock, model, attempt, tally, gaveUp>>
                 \/ /\ validated /\ pc' = "idle" /\ tally' = tally + cost
                    /\ reported' = tally + cost /\ outcome' = "answer"
                    /\ UNCHANGED <<clock, model, attempt, gaveUp>>
                 \/ /\ validated /\ tally' = tally + cost
                    /\ gaveUp' = gaveUp \cup {model}
                    /\ NextModel(tally + cost)
BY DEF Answered, End, request

\* What a transient failure does: count, then give up, time out or back off.
LEMMA TransientFacts ==
  ASSUME TypeOK, TransientFailure
  PROVE  /\ pc = "sent"
         /\ tries' = [tries EXCEPT ![model] = @ + 1]
         /\ UNCHANGED <<json, validated, total, tally, noJsonMode, billed, calls, overdue,
                        gaveUp, rejections>>
         /\ \/ attempt = MAX_ATTEMPTS_PER_MODEL /\ NextModel(tally)
            \/ /\ pc' = "idle" /\ outcome' = "timeout" /\ reported' = 0
               /\ UNCHANGED <<clock, model, attempt>>
            \/ /\ attempt < MAX_ATTEMPTS_PER_MODEL /\ pc' = "attempt"
               /\ clock' <= Timeout /\ clock' = clock + Backoff[attempt]
               /\ attempt' = attempt + 1
               /\ UNCHANGED <<model, outcome, reported>>
BY DEF TransientFailure, End, request

\* A validated completion tallies what it is billed.
LEMMA CostStep ==
  ASSUME IInv, Next
  PROVE  CostSoFar' /\ ReportedCostIsBilled'
<1> USE DEF CostSoFar, ReportedCostIsBilled
<1>0. TypeOK /\ CostSoFar /\ ReportedCostIsBilled /\ (pc # "idle" => outcome = "none")
  BY DEF IInv
<1>1. CASE \E j, v \in BOOLEAN : Start(j, v)
  BY <1>1 DEF Start
<1>2. CASE Attempt \/ Resend
  BY <1>0, <1>2 DEF Attempt, Resend, End, request
<1>3. CASE Wait
  BY <1>0, <1>3 DEF Wait, request, history
<1>4. CASE Answered
  <2>1. PICK cost \in {0, 1} :
              /\ billed' = billed + cost
              /\ \/ /\ ~validated /\ pc' = "idle" /\ reported' = cost
                    /\ outcome' \in {"answer", "parse"}
                    /\ UNCHANGED <<clock, model, attempt, tally, gaveUp>>
                 \/ /\ validated /\ pc' = "idle" /\ tally' = tally + cost
                    /\ reported' = tally + cost /\ outcome' = "answer"
                    /\ UNCHANGED <<clock, model, attempt, gaveUp>>
                 \/ /\ validated /\ tally' = tally + cost
                    /\ gaveUp' = gaveUp \cup {model}
                    /\ NextModel(tally + cost)
    BY <1>4, AnsweredFacts
  <2>2. /\ outcome = "none" /\ billed = IF validated THEN tally ELSE 0
        /\ UNCHANGED validated /\ tally \in Nat
    BY <1>0, <1>4, AnsweredFacts DEF TypeOK
  <2>3. CASE ~validated
    BY <2>1, <2>2, <2>3
  <2>4. CASE validated /\ pc' = "idle" /\ outcome' = "answer"
    BY <2>1, <2>2, <2>4, <1>0, NextModelFacts
  <2>5. CASE validated /\ tally' = tally + cost /\ NextModel(tally + cost)
    <3>1. tally + cost \in Nat /\ billed' = tally'
      BY <2>1, <2>2, <2>5
    <3> QED
      BY <2>2, <2>5, <3>1, <1>0, NextModelFacts
  <2> QED
    BY <2>1, <2>3, <2>4, <2>5
<1>5. CASE TransientFailure
  <2>1. tally \in Nat
    BY <1>0 DEF TypeOK
  <2> QED
    BY <1>0, <1>5, <2>1, TransientFacts, NextModelFacts
<1>6. CASE Unavailable
  <2>1. tally \in Nat /\ NextModel(tally) /\ UNCHANGED <<validated, tally, billed>>
    BY <1>0, <1>6 DEF TypeOK, Unavailable, request
  <2> QED
    BY <1>0, <1>6, <2>1, NextModelFacts DEF Unavailable
<1>7. CASE JsonModeRejected
  BY <1>0, <1>7 DEF JsonModeRejected, End, request, progress
<1>8. CASE Refused
  BY <1>0, <1>8 DEF Refused, End, request, history
<1> QED
  BY <1>1, <1>2, <1>3, <1>4, <1>5, <1>6, <1>7, <1>8 DEF Next

\* The budget of the model being asked, and the fallbacks earned so far.
LEMMA BudgetStep ==
  ASSUME IInv, Next
  PROVE  BudgetSoFar' /\ FallbackIsEarned'
<1>0. TypeOK /\ BudgetSoFar /\ FallbackIsEarned /\ (pc # "idle" => outcome = "none")
  BY DEF IInv, CostSoFar
<1> USE DEF BudgetSoFar, FallbackIsEarned, Earned, MAX_ATTEMPTS_PER_MODEL
<1>1. CASE \E j, v \in BOOLEAN : Start(j, v)
  BY <1>1, StageAssumption DEF Start, Model
<1>2. CASE Attempt \/ Resend
  BY <1>0, <1>2 DEF Attempt, Resend, End
<1>3. CASE Wait
  BY <1>0, <1>3 DEF Wait, history
<1>4. \* Giving a model up, for whatever reason, earns the next one.
      ASSUME NEW cost \in Nat, NextModel(cost), pc = "sent", tries' \in [Model -> Nat],
             \A m \in Model \ {model} : tries'[m] = tries[m],
             gaveUp \subseteq gaveUp',
             tries'[model] = MAX_ATTEMPTS_PER_MODEL \/ model \in gaveUp',
             tries'[model] <= MAX_ATTEMPTS_PER_MODEL
      PROVE  BudgetSoFar' /\ FallbackIsEarned'
  <2>1. \A m \in Model : m < model => Earned(m)'
    BY <1>0, <1>4 DEF TypeOK, Model
  <2>2. \A m \in Model : m <= model => Earned(m)'
    BY <1>0, <1>4, <2>1 DEF TypeOK, Model
  <2>3. \A m \in Model : tries'[m] <= MAX_ATTEMPTS_PER_MODEL
    BY <1>0, <1>4
  <2>4. \A m \in Model : m > model => tries'[m] = 0
    BY <1>0, <1>4 DEF TypeOK, Model
  <2>5. CASE model = Models /\ model' = model /\ pc' = "idle" /\ outcome' = "exhausted"
    BY <2>2, <2>3, <2>4, <2>5 DEF Model
  <2>6. CASE model' = model + 1 /\ pc' = "attempt" /\ attempt' = 1 /\ outcome' = outcome
    <3>1. model' \in Model /\ model' > model
      BY <1>0, <1>4, <2>6, NextModelFacts DEF TypeOK, Model
    <3> QED
      BY <1>0, <1>4, <2>2, <2>3, <2>4, <2>6, <3>1 DEF TypeOK, Model
  <2> QED
    BY <1>0, <1>4, <2>5, <2>6, NextModelFacts
<1>5. CASE Answered
  <2>1. CASE pc' = "idle" /\ UNCHANGED <<model, gaveUp>> /\ outcome' # "exhausted"
    BY <1>0, <1>5, <2>1, AnsweredFacts
  <2>2. ASSUME NEW cost \in {0, 1}, NextModel(tally + cost), gaveUp' = gaveUp \cup {model}
        PROVE  BudgetSoFar' /\ FallbackIsEarned'
    <3>1. tally + cost \in Nat /\ UNCHANGED tries /\ pc = "sent"
      BY <1>0, <1>5, <2>2, AnsweredFacts DEF TypeOK
    <3>2. tries'[model] <= MAX_ATTEMPTS_PER_MODEL /\ tries' \in [Model -> Nat]
      BY <1>0, <3>1 DEF TypeOK
    <3> QED
      BY <1>4, <2>2, <3>1, <3>2 DEF Model
  <2> QED
    BY <1>5, <2>1, <2>2, AnsweredFacts
<1>6. CASE TransientFailure
  <2>1. /\ pc = "sent" /\ tries' = [tries EXCEPT ![model] = @ + 1] /\ tally \in Nat
        /\ UNCHANGED gaveUp /\ model \in Model
    BY <1>0, <1>6, TransientFacts DEF TypeOK
  <2>2. /\ tries' \in [Model -> Nat] /\ tries'[model] = attempt
        /\ attempt \in 1 .. 3
        /\ \A m \in Model \ {model} : tries'[m] = tries[m]
    BY <1>0, <2>1 DEF TypeOK
  <2>3. CASE attempt = MAX_ATTEMPTS_PER_MODEL /\ NextModel(tally)
    BY <1>4, <2>1, <2>2, <2>3
  <2>4. CASE pc' = "idle" /\ outcome' = "timeout" /\ model' = model
    BY <1>0, <2>1, <2>2, <2>4 DEF TypeOK, Model
  <2>5. CASE pc' = "attempt" /\ attempt' = attempt + 1 /\ UNCHANGED <<model, outcome>>
    BY <1>0, <2>1, <2>2, <2>5 DEF TypeOK, Model
  <2> QED
    BY <1>0, <1>6, <2>3, <2>4, <2>5, TransientFacts
<1>7. CASE Unavailable
  <2>1. /\ tally \in Nat /\ NextModel(tally) /\ pc = "sent" /\ UNCHANGED tries
        /\ gaveUp' = gaveUp \cup {model}
    BY <1>0, <1>7 DEF TypeOK, Unavailable
  <2>2. tries'[model] <= MAX_ATTEMPTS_PER_MODEL /\ tries' \in [Model -> Nat]
    BY <1>0, <2>1 DEF TypeOK
  <2> QED
    BY <1>4, <2>1, <2>2
<1>8. CASE JsonModeRejected
  BY <1>0, <1>8 DEF JsonModeRejected, End, progress
<1>9. CASE Refused
  BY <1>0, <1>9 DEF Refused, End, history
<1> QED
  BY <1>1, <1>2, <1>3, <1>5, <1>6, <1>7, <1>8, <1>9 DEF Next

\* The set of models without JSON mode remembers every rejection.
LEMMA RejectionsStep ==
  ASSUME IInv, Next
  PROVE  RejectionsRemembered'
<1>0. TypeOK /\ RejectionsRemembered
  BY DEF IInv
<1>1. CASE UNCHANGED <<noJsonMode, rejections>>
  BY <1>0, <1>1 DEF RejectionsRemembered
<1>2. CASE JsonModeRejected
  BY <1>0, <1>2 DEF TypeOK, RejectionsRemembered, JsonModeRejected
<1>3. ~JsonModeRejected => UNCHANGED <<noJsonMode, rejections>>
  BY DEF Next, Start, Attempt, Resend, Wait, Answered, TransientFailure, Unavailable,
     Refused, history
<1> QED
  BY <1>1, <1>2, <1>3

\* No step but the wait for a request takes a completion past its deadline, and
\* none sends a request after it.
LEMMA CapStep ==
  ASSUME IInv, Next
  PROVE  OneRequestOutlastsTheCap' /\ OverdueIsLate'
<1> USE DEF OneRequestOutlastsTheCap, OverdueIsLate
<1>0. TypeOK /\ OneRequestOutlastsTheCap /\ OverdueIsLate /\ clock \in Nat /\ calls \in Nat
  BY DEF IInv, TypeOK
<1>1. CASE \E j, v \in BOOLEAN : Start(j, v)
  BY <1>1, StageAssumption DEF Start
<1>2. CASE Attempt \/ Resend
  <2>1. \/ UNCHANGED <<clock, calls, overdue>>
        \/ clock < Timeout /\ UNCHANGED <<clock, overdue>>
    BY <1>2 DEF Attempt, Resend, End
  <2>2. CASE UNCHANGED <<clock, calls, overdue>>
    BY <1>0, <2>2
  <2>3. CASE clock < Timeout /\ UNCHANGED <<clock, overdue>>
    <3>1. overdue = {}
      BY <1>0, <2>3, StageAssumption
    <3> QED
      BY <1>0, <2>3, <3>1, StageAssumption
  <2> QED
    BY <2>1, <2>2, <2>3
<1>3. CASE Wait
  BY <1>0, <1>3, StageAssumption DEF Wait
<1>4. CASE Answered
  <2>1. \A cost \in {0, 1} : tally + cost \in Nat
    BY <1>0 DEF TypeOK
  <2> QED
    BY <1>0, <1>4, <2>1, AnsweredFacts, NextModelFacts
<1>5. CASE TransientFailure
  <2>1. tally \in Nat /\ UNCHANGED <<calls, overdue>>
    BY <1>0, <1>5, TransientFacts DEF TypeOK
  <2>2. CASE NextModel(tally)
    BY <1>0, <2>1, <2>2, NextModelFacts
  <2>3. CASE UNCHANGED clock
    BY <1>0, <2>1, <2>3
  <2>4. CASE clock' \in Nat /\ clock' <= Timeout /\ clock' > clock
    BY <1>0, <2>1, <2>4, StageAssumption
  <2>5. attempt < MAX_ATTEMPTS_PER_MODEL =>
          clock + Backoff[attempt] \in Nat /\ clock + Backoff[attempt] > clock
    <3> SUFFICES ASSUME attempt < MAX_ATTEMPTS_PER_MODEL
                 PROVE  clock + Backoff[attempt] \in Nat /\ clock + Backoff[attempt] > clock
      OBVIOUS
    <3>1. attempt \in {1, 2}
      BY <1>0 DEF TypeOK, MAX_ATTEMPTS_PER_MODEL
    <3> QED
      BY <1>0, <3>1 DEF Backoff
  <2> QED
    BY <1>0, <1>5, <2>2, <2>3, <2>4, <2>5, TransientFacts
<1>6. CASE Unavailable
  <2>1. tally \in Nat
    BY <1>0 DEF TypeOK
  <2> QED
    BY <1>0, <1>6, <2>1, NextModelFacts DEF Unavailable
<1>7. CASE JsonModeRejected
  BY <1>0, <1>7 DEF JsonModeRejected, End, progress
<1>8. CASE Refused
  BY <1>0, <1>8 DEF Refused, End, history
<1> QED
  BY <1>1, <1>2, <1>3, <1>4, <1>5, <1>6, <1>7, <1>8 DEF Next

\* Giving a model up closes its account: the next one starts with a fresh one.
LEMMA NextModelCloses ==
  ASSUME TypeOK, RequestsSoFar, pc = "sent", NEW cost \in Nat, NextModel(cost),
         UNCHANGED <<total, calls, noJsonMode>>
  PROVE  RequestsSoFar'
<1> USE DEF RequestsSoFar, Begun, Resent, MAX_ATTEMPTS_PER_MODEL
<1>1. /\ total <= 3 * (model - 1) + attempt /\ calls <= 4 * (model - 1) + attempt + 1
      /\ attempt \in 1 .. 3 /\ model \in Nat /\ total \in Nat /\ calls \in Nat
  BY DEF TypeOK, Model
<1>2. CASE model' = model /\ pc' = "idle"
  <2>1. attempt' = attempt
    BY <1>2, StageAssumption DEF NextModel, End, TypeOK, Model
  <2> QED
    BY <1>2, <2>1
<1>3. CASE model' = model + 1 /\ pc' = "attempt" /\ attempt' = 1
  BY <1>1, <1>3
<1> QED
  BY <1>2, <1>3, NextModelFacts

\* Every request is one of the attempts begun, or the resend of a refused one.
LEMMA RequestsStep ==
  ASSUME IInv, Next
  PROVE  RequestsSoFar'
<1>0. TypeOK /\ RequestsSoFar
  BY DEF IInv
<1> USE DEF RequestsSoFar, Begun, Resent, MAX_ATTEMPTS_PER_MODEL
<1>1. CASE \E j, v \in BOOLEAN : Start(j, v)
  BY <1>1 DEF Start
<1>2. CASE Attempt \/ Resend
  <2>1. total \in Nat /\ calls \in Nat /\ model \in Nat /\ attempt \in Nat
    BY <1>0 DEF TypeOK, Model
  <2> QED
    BY <1>0, <1>2, <2>1 DEF Attempt, Resend, End
<1>3. CASE Wait
  BY <1>0, <1>3 DEF Wait, history
<1>4. CASE Answered
  <2>1. /\ pc = "sent" /\ UNCHANGED <<total, calls, noJsonMode>>
        /\ \A cost \in {0, 1} : tally + cost \in Nat
    BY <1>0, <1>4, AnsweredFacts DEF TypeOK
  <2>2. CASE pc' = "idle" /\ UNCHANGED <<model, attempt>>
    BY <1>0, <2>1, <2>2
  <2>3. CASE \E cost \in {0, 1} : NextModel(tally + cost)
    BY <1>0, <2>1, <2>3, NextModelCloses
  <2> QED
    BY <1>4, <2>2, <2>3, AnsweredFacts
<1>5. CASE TransientFailure
  <2>1. /\ pc = "sent" /\ tally \in Nat /\ UNCHANGED <<total, calls, noJsonMode>>
    BY <1>0, <1>5, TransientFacts DEF TypeOK
  <2>2. CASE NextModel(tally)
    BY <1>0, <2>1, <2>2, NextModelCloses
  <2>3. CASE pc' = "idle" /\ UNCHANGED <<model, attempt>>
    BY <1>0, <2>1, <2>3
  <2>4. CASE pc' = "attempt" /\ attempt' = attempt + 1 /\ UNCHANGED model
    BY <1>0, <2>1, <2>4 DEF TypeOK
  <2> QED
    BY <1>0, <1>5, <2>2, <2>3, <2>4, TransientFacts
<1>6. CASE Unavailable
  <2>1. tally \in Nat
    BY <1>0 DEF TypeOK
  <2> QED
    BY <1>0, <1>6, <2>1, NextModelCloses DEF Unavailable
<1>7. CASE JsonModeRejected
  BY <1>0, <1>7 DEF JsonModeRejected, End, progress
<1>8. CASE Refused
  BY <1>0, <1>8 DEF Refused, End, history
<1> QED
  BY <1>1, <1>2, <1>3, <1>4, <1>5, <1>6, <1>7, <1>8 DEF Next

\* The strengthened invariant holds of every sequence of completions.
THEOREM InvariantHolds == Spec => []IInv
<1>1. Init => IInv
  <2> SUFFICES ASSUME Init PROVE IInv
    OBVIOUS
  <2>1. TypeOK
    <3>1. 1 \in Model /\ 1 \in 1 .. MAX_ATTEMPTS_PER_MODEL
      BY StageAssumption DEF Model, MAX_ATTEMPTS_PER_MODEL
    <3>2. tries \in [Model -> Nat] /\ rejections \in [Model -> Nat]
      BY DEF Init
    <3> QED
      BY <3>1, <3>2 DEF Init, TypeOK, Outcome
  <2>2. CostSoFar /\ ReportedCostIsBilled /\ RejectionsRemembered
    BY DEF Init, CostSoFar, ReportedCostIsBilled, RejectionsRemembered
  <2>3. BudgetSoFar /\ FallbackIsEarned
    BY DEF Init, BudgetSoFar, FallbackIsEarned, Model, MAX_ATTEMPTS_PER_MODEL
  <2>4. OneRequestOutlastsTheCap /\ OverdueIsLate
    BY StageAssumption DEF Init, OneRequestOutlastsTheCap, OverdueIsLate
  <2>5. RequestsSoFar
    BY DEF Init, RequestsSoFar, Begun, Resent, MAX_ATTEMPTS_PER_MODEL
  <2> QED
    BY <2>1, <2>2, <2>3, <2>4, <2>5 DEF IInv
<1>2. IInv /\ [Next]_vars => IInv'
  <2> SUFFICES ASSUME IInv, [Next]_vars PROVE IInv'
    OBVIOUS
  <2>1. CASE Next
    <3>1. TypeOK'
      BY <2>1, TypeStep DEF IInv
    <3> QED
      BY <2>1, <3>1, CostStep, BudgetStep, RejectionsStep, RequestsStep, CapStep DEF IInv
  <2>2. CASE UNCHANGED vars
    <3>1. UNCHANGED <<pc, json, validated, clock, model, attempt, total, tally,
                      noJsonMode, outcome, reported, billed, calls, overdue, tries, gaveUp,
                      rejections>>
      BY <2>2 DEF vars, request, progress, history
    <3> QED
      BY <3>1 DEF IInv, TypeOK, CostSoFar, BudgetSoFar, RejectionsRemembered,
         ReportedCostIsBilled, FallbackIsEarned, Earned, OneRequestOutlastsTheCap,
         OverdueIsLate, RequestsSoFar, Begun, Resent
  <2> QED
    BY <2>1, <2>2
<1> QED
  BY <1>1, <1>2, PTL DEF Spec

\* The gateway's state keeps its types: no model beyond the chain is asked.
THEOREM TypeCorrect == Spec => []TypeOK
<1>1. IInv => TypeOK
  BY DEF IInv
<1> QED
  BY <1>1, InvariantHolds, PTL

\* No response that was billed is missing from the cost a caller records, whatever
\* the sequence of failures, fallbacks and refused answers before it.
THEOREM CostIsReported == Spec => []ReportedCostIsBilled
<1>1. IInv => ReportedCostIsBilled
  BY DEF IInv
<1> QED
  BY <1>1, InvariantHolds, PTL

\* Every model before the one asked spent a budget of its own or failed for good.
THEOREM FallbacksAreEarned == Spec => []FallbackIsEarned
<1>1. IInv => FallbackIsEarned
  BY DEF IInv
<1> QED
  BY <1>1, InvariantHolds, PTL

\* Whatever the models, the timeout and the time the SDK takes, a completion that
\* outlasts timeout_s does so in one request, the last it sends.
THEOREM CapOutlastedOnce == Spec => []OneRequestOutlastsTheCap
<1>1. IInv => OneRequestOutlastsTheCap
  BY DEF IInv
<1> QED
  BY <1>1, InvariantHolds, PTL

\* A completion makes at most three attempts with each model and sends one request
\* more for JSON mode; no model refuses a native JSON request twice.
THEOREM RequestsBounded == Spec => []RequestsAreBounded
<1>1. IInv => RequestsAreBounded
  <2> SUFFICES ASSUME IInv PROVE RequestsAreBounded
    OBVIOUS
  <2>1. /\ model \in Nat /\ model <= Models /\ Models \in Nat /\ attempt \in 1 .. 3
        /\ total \in Nat /\ calls \in Nat
    BY StageAssumption DEF IInv, TypeOK, Model, MAX_ATTEMPTS_PER_MODEL
  <2>2. total <= 3 * (model - 1) + 3 /\ calls <= 4 * (model - 1) + 4
    BY <2>1 DEF IInv, RequestsSoFar, Begun, Resent, MAX_ATTEMPTS_PER_MODEL
  <2>3. \A m \in Model : rejections[m] <= 1
    BY DEF IInv, RejectionsRemembered
  <2> QED
    BY <2>1, <2>2, <2>3 DEF RequestsAreBounded, MAX_ATTEMPTS_PER_MODEL
<1> QED
  BY <1>1, InvariantHolds, PTL
=============================================================================
