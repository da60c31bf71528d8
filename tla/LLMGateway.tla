----------------------------- MODULE LLMGateway -----------------------------
(***************************************************************************)
(* OpenRouterGateway (gateway/openrouter.py): one instance serving one     *)
(* completion after another.  A completion walks the models of its stage,  *)
(* each with a budget of attempts of its own, under one wall-clock cap; a  *)
(* model that rejects native JSON mode is remembered by the instance.      *)
(* The SDK is external: one call of create(), a request here, may be       *)
(* several HTTP tries.  Its retries are left on (openrouter.py, 104), and  *)
(* the timeout it is given (314) is for each try and each phase of one, so *)
(* a request may last longer than the time that was left when it was sent. *)
(***************************************************************************)
EXTENDS Naturals

CONSTANTS Models,  \* how many models the stage has: the primary and fallbacks
          Timeout, \* timeout_s, in seconds
          Overrun  \* bound on the seconds a request lasts past the deadline

ASSUME StageAssumption ==
  Models \in Nat \ {0} /\ Timeout \in Nat \ {0} /\ Overrun \in Nat

MAX_ATTEMPTS_PER_MODEL == 3
Backoff == <<2, 4>> \* seconds slept after the first and the second attempt

VARIABLES pc,           \* where _complete is
          json,         \* is JSON output requested?
          validated,    \* complete_validated rather than complete?
          clock,        \* seconds since the completion began
          model,        \* model_idx, from 1
          attempt,      \* attempt on this model
          total,        \* total_attempts
          tally,        \* total_cost_usd, summed for a validated completion
          noJsonMode,   \* _no_json_mode_models
          outcome,      \* how the last completion ended
          reported,     \* the cost its response or exception carries
          billed,       \* history: known cost of the responses it received
          calls,        \* history: requests it sent
          overdue,      \* history: those it waited for past the deadline
          tries,        \* history: transient failures of each model
          gaveUp,       \* history: models it left for another reason
          rejections    \* history: native JSON requests each model refused

request == <<json, validated>>
progress == <<clock, model, attempt, total, tally>>
history == <<billed, calls, overdue, tries, gaveUp, rejections>>
vars == <<pc, request, progress, noJsonMode, outcome, reported, history>>

Model == 1 .. Models
Outcome == {"none", "answer", "parse", "exhausted", "timeout", "fatal",
            "internal", "error"}

-----------------------------------------------------------------------------
Init ==
  /\ pc = "idle" /\ json = FALSE /\ validated = FALSE
  /\ clock = 0 /\ model = 1 /\ attempt = 1 /\ total = 0 /\ tally = 0
  /\ noJsonMode = {} /\ outcome = "none" /\ reported = 0
  /\ billed = 0 /\ calls = 0 /\ overdue = {} /\ gaveUp = {}
  /\ tries = [m \in Model |-> 0] /\ rejections = [m \in Model |-> 0]

Start(wantsJson, validates) ==
  /\ pc = "idle"
  /\ pc' = "attempt" /\ json' = wantsJson /\ validated' = validates
  /\ clock' = 0 /\ model' = 1 /\ attempt' = 1 /\ total' = 0 /\ tally' = 0
  /\ outcome' = "none" /\ reported' = 0
  /\ billed' = 0 /\ calls' = 0 /\ overdue' = {} /\ gaveUp' = {}
  /\ tries' = [m \in Model |-> 0]
  /\ UNCHANGED <<noJsonMode, rejections>>

End(how, cost) ==
  /\ pc' = "idle" /\ outcome' = how /\ reported' = cost
  /\ UNCHANGED <<clock, model, attempt>>

\* Variants a plausible bug would give; the mutation runs substitute them.
NextModelOffByOne(cost) ==
  \/ /\ model > Models
     /\ End("exhausted", cost)
  \/ /\ model <= Models
     /\ pc' = "attempt" /\ model' = model + 1 /\ attempt' = 1
     /\ UNCHANGED <<clock, outcome, reported>>
NextModelKeepsAttempt(cost) ==
  \/ /\ model = Models
     /\ End("exhausted", cost)
  \/ /\ model < Models
     /\ pc' = "attempt" /\ model' = model + 1
     /\ UNCHANGED <<clock, attempt, outcome, reported>>

\* break: the next model starts with a fresh budget; after the last one the
\* error carries what the failed validations cost.
NextModel(cost) ==
  \/ /\ model = Models
     /\ End("exhausted", cost)
  \/ /\ model < Models
     /\ pc' = "attempt" /\ model' = model + 1 /\ attempt' = 1
     /\ UNCHANGED <<clock, outcome, reported>>

AttemptRetriesDeadline ==      \* the deadline's error caught with the transient ones
  /\ pc = "attempt"
  /\ \/ clock >= Timeout /\ UNCHANGED <<pc, progress, outcome, reported, calls>>
     \/ /\ clock < Timeout
        /\ pc' = "sent" /\ calls' = calls + 1 /\ total' = total + 1
        /\ UNCHANGED <<clock, model, attempt, tally, outcome, reported>>
  /\ UNCHANGED <<request, noJsonMode, billed, overdue, tries, gaveUp, rejections>>

\* The head of the attempt loop, and _do_call up to the request: nothing is
\* sent once the deadline has come.
Attempt ==
  /\ pc = "attempt"
  /\ total' = total + 1
  /\ \/ /\ clock >= Timeout
        /\ End("timeout", 0)
        /\ UNCHANGED calls
     \/ /\ clock < Timeout
        /\ pc' = "sent" /\ calls' = calls + 1
        /\ UNCHANGED <<clock, model, attempt, outcome, reported>>
  /\ UNCHANGED <<request, tally, noJsonMode, billed, overdue, tries, gaveUp, rejections>>

ResendUnchecked ==             \* the deadline looked at once per attempt
  /\ pc = "resend"
  /\ pc' = "sent" /\ calls' = calls + 1
  /\ UNCHANGED <<request, progress, noJsonMode, outcome, reported, billed, overdue,
                 tries, gaveUp, rejections>>

\* The prompt-suffix request of _call_once, within the same attempt.
Resend ==
  /\ pc = "resend"
  /\ \/ /\ clock >= Timeout
        /\ End("timeout", 0)
        /\ UNCHANGED calls
     \/ /\ clock < Timeout
        /\ pc' = "sent" /\ calls' = calls + 1
        /\ UNCHANGED <<clock, model, attempt, outcome, reported>>
  /\ UNCHANGED <<request, total, tally, noJsonMode, billed, overdue, tries, gaveUp, rejections>>

\* The request is under way.
Wait ==
  /\ pc = "sent"
  /\ clock < Timeout + Overrun
  /\ clock' = clock + 1
  /\ overdue' = IF clock >= Timeout THEN overdue \cup {calls} ELSE overdue
  /\ UNCHANGED <<pc, request, model, attempt, total, tally, noJsonMode,
                 outcome, reported, billed, calls, tries, gaveUp, rejections>>

\* The text of a response may lack a JSON object only where one was asked for; an
\* object that the validator refuses counts as none.
Extracted(wellFormed) == wellFormed \/ json \/ validated

AnsweredTalliesWhenValid ==
  /\ pc = "sent"
  /\ \E cost \in {0, 1}, wellFormed \in BOOLEAN :
       /\ billed' = billed + cost
       /\ \/ /\ ~validated
             /\ End(IF wellFormed THEN "answer" ELSE "parse", cost)
             /\ UNCHANGED <<tally, gaveUp>>
          \/ /\ validated /\ wellFormed
             /\ tally' = tally + cost
             /\ End("answer", tally + cost)
             /\ UNCHANGED gaveUp
          \/ /\ validated /\ ~wellFormed
             /\ gaveUp' = gaveUp \cup {model}
             /\ NextModel(tally)
             /\ UNCHANGED tally
  /\ UNCHANGED <<request, total, noJsonMode, calls, overdue, tries, rejections>>

\* A response: its cost may be missing (0).  JSON that cannot be extracted, and
\* for a validated completion content the validator refuses, is not well formed:
\* it ends a plain completion and sends a validated one to the next model.
Answered ==
  /\ pc = "sent"
  /\ \E cost \in {0, 1}, wellFormed \in BOOLEAN :
       /\ Extracted(wellFormed)
       /\ billed' = billed + cost
       /\ \/ /\ ~validated
             /\ End(IF wellFormed THEN "answer" ELSE "parse", cost)
             /\ UNCHANGED <<tally, gaveUp>>
          \/ /\ validated /\ wellFormed
             /\ tally' = tally + cost
             /\ End("answer", tally + cost)
             /\ UNCHANGED gaveUp
          \/ /\ validated /\ ~wellFormed
             /\ tally' = tally + cost
             /\ gaveUp' = gaveUp \cup {model}
             /\ NextModel(tally + cost)
  /\ UNCHANGED <<request, total, noJsonMode, calls, overdue, tries, rejections>>

\* A timeout, a lost connection, 429 or 5xx: the same model again after a
\* backoff, unless its budget is spent or the backoff would pass the deadline.
TransientFailure ==
  /\ pc = "sent"
  /\ tries' = [tries EXCEPT ![model] = @ + 1]
  /\ \/ /\ attempt = MAX_ATTEMPTS_PER_MODEL
        /\ NextModel(tally)
     \/ /\ attempt < MAX_ATTEMPTS_PER_MODEL
        /\ clock + Backoff[attempt] > Timeout
        /\ End("timeout", 0)
     \/ /\ attempt < MAX_ATTEMPTS_PER_MODEL
        /\ clock + Backoff[attempt] <= Timeout
        /\ pc' = "attempt" /\ clock' = clock + Backoff[attempt]
        /\ attempt' = attempt + 1
        /\ UNCHANGED <<model, outcome, reported>>
  /\ UNCHANGED <<request, total, tally, noJsonMode, billed, calls, overdue, gaveUp, rejections>>

\* 404, 413, 422 or no available provider: straight to the next model.
Unavailable ==
  /\ pc = "sent"
  /\ gaveUp' = gaveUp \cup {model}
  /\ NextModel(tally)
  /\ UNCHANGED <<request, total, tally, noJsonMode, billed, calls, overdue, tries, rejections>>

JsonModeRejectedForgets ==
  /\ pc = "sent" /\ json
  /\ pc' = "resend"
  /\ rejections' = [rejections EXCEPT ![model] = @ + 1]
  /\ UNCHANGED <<progress, outcome, reported, request, noJsonMode, billed, calls, overdue,
                 tries, gaveUp>>

\* 400 naming response_format.  A request that asked for native JSON mode is sent
\* again with the suffix; from any other the private exception leaves complete().
JsonModeRejected ==
  /\ pc = "sent"
  /\ \/ /\ json /\ model \notin noJsonMode
        /\ pc' = "resend" /\ noJsonMode' = noJsonMode \cup {model}
        /\ rejections' = [rejections EXCEPT ![model] = @ + 1]
        /\ UNCHANGED <<progress, outcome, reported>>
     \/ /\ ~json \/ model \in noJsonMode
        /\ End("internal", 0)
        /\ UNCHANGED <<total, tally, noJsonMode, rejections>>
  /\ UNCHANGED <<request, billed, calls, overdue, tries, gaveUp>>

\* 400, 401 and 403 are fatal; any other exception is an LLMGatewayError, or the
\* raw one when the body of a 200 response has no choices.
Refused ==
  /\ pc = "sent"
  /\ \E how \in {"fatal", "error"} : End(how, 0)
  /\ UNCHANGED <<request, total, tally, noJsonMode, history>>

Next ==
  \/ \E wantsJson, validates \in BOOLEAN : Start(wantsJson, validates)
  \/ Attempt \/ Resend \/ Wait
  \/ Answered \/ TransientFailure \/ Unavailable \/ JsonModeRejected \/ Refused

\* Only a caller's next request is not forced: the code of complete() runs on,
\* and a call of the SDK returns or raises at last (its tries are finite, but its
\* timeouts bound the phases of a try only: this is asked of the network).
Spec ==
  /\ Init /\ [][Next]_vars
  /\ WF_vars(Attempt \/ Resend \/ Wait)
  /\ WF_vars(Answered \/ TransientFailure \/ Unavailable \/ JsonModeRejected \/ Refused)

-----------------------------------------------------------------------------
\* Types of the gateway's state and of the completion in progress.
TypeOK ==
  /\ pc \in {"idle", "attempt", "resend", "sent"}
  /\ json \in BOOLEAN /\ validated \in BOOLEAN
  /\ clock \in Nat /\ model \in Model /\ attempt \in 1 .. MAX_ATTEMPTS_PER_MODEL
  /\ total \in Nat /\ tally \in Nat
  /\ noJsonMode \subseteq Model
  /\ outcome \in Outcome /\ reported \in Nat
  /\ billed \in Nat /\ calls \in Nat /\ overdue \subseteq Nat
  /\ tries \in [Model -> Nat] /\ gaveUp \subseteq Model
  /\ rejections \in [Model -> Nat]

\* What the caller records is what was billed: a response, the error of a chain
\* that was exhausted and a plain parse error carry the known cost of every
\* response received, those of models that failed validation included.
ReportedCostIsBilled ==
  outcome \in {"answer", "parse", "exhausted"} => reported = billed

\* A fallback is earned: a model is asked, and a chain is exhausted, only after
\* every model before it used its own full budget of transient failures or
\* failed for good, however the earlier budgets were spent.
Earned(m) == tries[m] = MAX_ATTEMPTS_PER_MODEL \/ m \in gaveUp
FallbackIsEarned ==
  /\ \A m \in Model : m < model => Earned(m)
  /\ outcome = "exhausted" => \A m \in Model : Earned(m)
  /\ \A m \in Model : tries[m] <= MAX_ATTEMPTS_PER_MODEL

\* What the code keeps of the wall-clock cap: a completion outlasts timeout_s by
\* one request at most, the last it sends, and for no other reason.  However its
\* retries, resends, backoffs and fallbacks fall, none begins past the deadline
\* and no backoff reaches beyond it.
OneRequestOutlastsTheCap ==
  /\ overdue \subseteq {calls}
  /\ clock > Timeout => overdue # {}

\* Retries, fallbacks and resends stay within their budgets together: a completion
\* makes at most three attempts with each model and sends one request more, and
\* over the life of an instance a model wastes one request on native JSON mode.
RequestsAreBounded ==
  /\ total <= MAX_ATTEMPTS_PER_MODEL * Models
  /\ calls <= (MAX_ATTEMPTS_PER_MODEL + 1) * Models
  /\ \A m \in Model : rejections[m] <= 1

\* Every completion ends, in an answer or an error.
CompletionEnds == pc = "attempt" ~> outcome # "none"

\* LLMResponse (gateway/base.py) says attempt_count is how many HTTP attempts were
\* burned getting the response.
AttemptCountIsHttpAttempts == outcome = "answer" => total = calls

-----------------------------------------------------------------------------
\* The strengthening that makes the safety invariants inductive.

\* A validated completion tallies all it was billed; a plain one is billed only
\* by the response that ends it.
CostSoFar ==
  /\ outcome = "none" => billed = IF validated THEN tally ELSE 0
  /\ outcome = "none" /\ ~validated => tally = 0
  /\ pc = "idle" \/ outcome = "none"

\* The failures counted are those of the models so far; the one being asked has
\* one less than its attempt.
BudgetSoFar ==
  /\ pc # "idle" => tries[model] = attempt - 1
  /\ pc # "idle" => \A m \in Model : m > model => tries[m] = 0

RejectionsRemembered ==
  \A m \in Model : rejections[m] = IF m \in noJsonMode THEN 1 ELSE 0

\* What the models so far may have cost in attempts and requests.  An attempt is
\* counted when it begins; a model that has refused JSON mode may have been sent
\* one request more, and one that is about to be sent it has not.
Begun == IF pc = "attempt" THEN attempt - 1 ELSE attempt
Resent == IF model \in noJsonMode /\ pc # "resend" THEN 1 ELSE 0
RequestsSoFar ==
  /\ total <= MAX_ATTEMPTS_PER_MODEL * (model - 1) + Begun
  /\ calls <= (MAX_ATTEMPTS_PER_MODEL + 1) * (model - 1) + Begun + Resent
  /\ pc = "resend" => model \in noJsonMode

\* Only a completion past its deadline has waited so long.
OverdueIsLate == overdue # {} => clock > Timeout

IInv ==
  /\ TypeOK /\ CostSoFar /\ BudgetSoFar /\ RejectionsRemembered
  /\ RequestsSoFar
  /\ ReportedCostIsBilled /\ FallbackIsEarned
  /\ OneRequestOutlastsTheCap /\ OverdueIsLate
=============================================================================
