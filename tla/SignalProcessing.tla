-------------------------- MODULE SignalProcessing --------------------------
(***************************************************************************)
(* process_signal (workflows/signal_processing.py) run by several workers  *)
(* at once over the tables of SqlMemory.  A worker is one execution        *)
(* context of the function: a Temporal activity attempt, an attempt that   *)
(* outlived its start-to-close timeout and still runs beside its retry, or *)
(* the public-listening loop of a CLI call.  Every write is a transaction  *)
(* of its own, so one database statement or one model call is one action.  *)
(* The injected legacy classifier takes the same steps as the triage agent *)
(* but never makes a route call: its behaviours are among these.           *)
(***************************************************************************)
EXTENDS Naturals, FiniteSets

CONSTANTS Key,          \* dedupe keys of the signals that may arrive
          Worker,       \* execution contexts, each given one event
          DemoProfile,  \* is model_profile one of DEMO_POPULATION_MODEL_PROFILES?
          MaxCrashes,   \* bound on killed workers and failed transactions
          MaxFatals     \* bound on configuration and credential errors

ASSUME WorkerAssumption == IsFiniteSet(Worker)
ASSUME ProfileAssumption == DemoProfile \in BOOLEAN
ASSUME BoundAssumption == MaxCrashes \in Nat /\ MaxFatals \in Nat

VARIABLES signals,         \* keys with a row in signals
          classifications, \* rows of classifications
          routes,          \* rows of routes
          nextId,          \* autoincrement of classifications
          ledger,          \* which rows llm_calls holds: <<key, stage, success>>
          charged,         \* classify calls of a key that a model answered, and billed
          pc,              \* where each worker is in process_signal
          key,             \* the event it was given
          verdict,         \* the classification and route it holds in memory
          cid,             \* the classification_id it was given
          result,          \* the status it returned
          crashes, fatals, \* faults so far
          cutOff,          \* keys whose worker died between its last two commits
          unwritten        \* keys of which a fault took a paid answer before its row

tables == <<signals, classifications, routes, nextId>>
money == <<ledger, charged>>
faults == <<crashes, fatals, cutOff, unwritten>>
vars == <<tables, money, pc, key, verdict, cid, result, faults>>

-----------------------------------------------------------------------------
NoKey == "no key"

Origin == {"none", "model", "gateway_error", "unexpected"}
Rule == {"none", "ignored_by_classifier", "agent_route", "agent_route_fallback"}
Status == {"none", "processed", "ignored", "duplicate", "failed"}

\* call: how the route stage ended, for its row in llm_calls.
Verdict == [origin : Origin, ignore : BOOLEAN, rule : Rule,
            call : {"none", "ok", "error"}]
NoVerdict == [origin |-> "none", ignore |-> FALSE, rule |-> "none", call |-> "none"]

\* make_fallback_classification is off-brand and IGNORE, so the rules router
\* answers it with ignored_by_classifier.
Fallback(origin) == [origin |-> origin, ignore |-> TRUE,
                     rule |-> "ignored_by_classifier", call |-> "none"]

LlmRow == Key \X {"classify", "route"} \X BOOLEAN

Running == {"read", "insert", "classify", "route_call", "audit_classify",
            "audit_route", "audit_failure", "audit_invalid", "store", "route"}
Place == Running \cup {"idle", "raised", "done"}

Classified(k) == \E c \in classifications : c.signal = k
Routed(k) == \E r \in routes : r.signal = k

Goto(w, place) == pc' = [pc EXCEPT ![w] = place]

\* An answer of the classify model is in memory and its row is not written: the
\* step that leaves this place other than towards the row loses the answer.
HoldsAnswer(w) == pc[w] \in {"route_call", "audit_classify"}
LoseAnswer(w) ==
  unwritten' = IF HoldsAnswer(w) THEN unwritten \cup {key[w]} ELSE unwritten

\* The call ends: what it held in local variables is gone.
DropLocals(w) ==
  /\ verdict' = [verdict EXCEPT ![w] = NoVerdict]
  /\ cid' = [cid EXCEPT ![w] = 0]
Return(w, status) ==
  /\ Goto(w, "done")
  /\ DropLocals(w)
  /\ result' = [result EXCEPT ![w] = status]
Raise(w) ==
  /\ Goto(w, "raised")
  /\ DropLocals(w)
  /\ UNCHANGED result

-----------------------------------------------------------------------------
Init ==
  /\ signals = {} /\ classifications = {} /\ routes = {} /\ nextId = 1
  /\ ledger = {} /\ charged = [k \in Key |-> 0]
  /\ pc = [w \in Worker |-> "idle"]
  /\ key = [w \in Worker |-> NoKey]
  /\ verdict = [w \in Worker |-> NoVerdict]
  /\ cid = [w \in Worker |-> 0]
  /\ result = [w \in Worker |-> "none"]
  /\ crashes = 0 /\ fatals = 0 /\ cutOff = {} /\ unwritten = {}

\* An event for k reaches a worker: a schedule, a retry and an overlapping sync
\* may all deliver the same external item.
Deliver(w, k) ==
  /\ pc[w] = "idle"
  /\ Goto(w, "read")
  /\ key' = [key EXCEPT ![w] = k]
  /\ UNCHANGED <<tables, money, verdict, cid, result, faults>>

\* Variants a plausible bug would give; the mutation runs substitute them.
ReadStateSkips(w) ==
  /\ pc[w] = "read"
  /\ IF Classified(key[w]) THEN Return(w, "skipped")
     ELSE /\ Goto(w, IF key[w] \in signals THEN "classify" ELSE "insert")
          /\ UNCHANGED <<verdict, cid, result>>
  /\ UNCHANGED <<tables, money, key, faults>>
ReadStateAnyRowIsDuplicate(w) ==
  /\ pc[w] = "read"
  /\ IF key[w] \in signals THEN Return(w, "duplicate")
     ELSE Goto(w, "insert") /\ UNCHANGED <<verdict, cid, result>>
  /\ UNCHANGED <<tables, money, key, faults>>

ReadStateSeesRoutesOnly(w) ==
  /\ pc[w] = "read"
  /\ IF Routed(key[w]) THEN Return(w, "duplicate")
     ELSE /\ Goto(w, IF key[w] \in signals THEN "classify" ELSE "insert")
          /\ UNCHANGED <<verdict, cid, result>>
  /\ UNCHANGED <<tables, money, key, faults>>

\* _existing_signal_state: one read decides between a duplicate, a resumed
\* signal and a new one.  What it saw may be stale at the next step.
ReadState(w) ==
  /\ pc[w] = "read"
  /\ \/ /\ Classified(key[w]) \/ Routed(key[w])
        /\ Return(w, "duplicate")
     \/ /\ ~Classified(key[w]) /\ ~Routed(key[w])
        /\ Goto(w, IF key[w] \in signals THEN "classify" ELSE "insert")
        /\ UNCHANGED <<verdict, cid, result>>
  /\ UNCHANGED <<tables, money, key, faults>>

\* record_signal: dedupe_key is UNIQUE, and the loser of a race gets the error.
RecordSignal(w) ==
  /\ pc[w] = "insert"
  /\ \/ /\ key[w] \notin signals
        /\ signals' = signals \cup {key[w]}
        /\ Goto(w, "classify")
        /\ UNCHANGED <<verdict, cid, result>>
     \/ /\ key[w] \in signals
        /\ Raise(w)
        /\ UNCHANGED signals
  /\ UNCHANGED <<classifications, routes, nextId, money, key, faults>>

\* The classify step of the triage agent answered: IGNORE and low confidence
\* are routed at once, anything else goes to the route model.
ClassifyAnswered(w) ==
  /\ pc[w] = "classify"
  /\ charged' = [charged EXCEPT ![key[w]] = @ + 1]
  /\ \/ /\ Goto(w, "audit_classify")
        /\ \E ignore \in BOOLEAN :
             verdict' = [verdict EXCEPT ![w] =
               [origin |-> "model", ignore |-> ignore, call |-> "none",
                rule |-> IF ignore THEN "ignored_by_classifier"
                                   ELSE "agent_route_fallback"]]
     \/ /\ Goto(w, "route_call")
        /\ verdict' = [verdict EXCEPT ![w] =
             [origin |-> "model", ignore |-> FALSE, call |-> "none", rule |-> "none"]]
  /\ UNCHANGED <<tables, ledger, key, cid, result, faults>>

\* The route model answered (an invalid owner, "(none)" or a low confidence
\* becomes the review fallback) or its gateway failed.
RouteAnswered(w) ==
  /\ pc[w] = "route_call"
  /\ Goto(w, "audit_classify")
  /\ \E call \in {"ok", "error"}, rule \in {"agent_route", "agent_route_fallback"} :
       /\ call = "error" => rule = "agent_route_fallback"
       /\ verdict' = [verdict EXCEPT ![w].call = call, ![w].rule = rule]
  /\ UNCHANGED <<tables, money, key, cid, result, faults>>

\* The gateway gave up on the classify stage with a retryable kind of error.
\* Only a demo profile tells an invalid classification from the others.
ClassifyFailed(w) ==
  /\ pc[w] = "classify"
  /\ \/ Goto(w, "audit_failure")
     \/ DemoProfile /\ Goto(w, "audit_invalid")
  /\ UNCHANGED <<tables, money, key, verdict, cid, result, faults>>

\* Any other exception between the first model call and the last audit row,
\* an audit row that cannot be written included, is swallowed: the signal goes
\* on as a fallback classification, whatever the model had answered.
Unexpected(w) ==
  /\ pc[w] \in {"classify", "route_call", "audit_classify", "audit_route"}
  /\ Goto(w, "store")
  /\ verdict' = [verdict EXCEPT ![w] = Fallback("unexpected")]
  /\ LoseAnswer(w)
  /\ UNCHANGED <<tables, money, key, cid, result, crashes, fatals, cutOff>>

\* Configuration and credential errors of either stage leave the function, and
\* what the classify stage already spent is never written down.
FatalError(w) ==
  /\ pc[w] \in {"classify", "route_call"}
  /\ fatals < MaxFatals
  /\ fatals' = fatals + 1
  /\ Raise(w)
  /\ LoseAnswer(w)
  /\ UNCHANGED <<tables, money, key, crashes, cutOff>>

AuditClassify(w) ==
  /\ pc[w] = "audit_classify"
  /\ ledger' = ledger \cup {<<key[w], "classify", TRUE>>}
  /\ Goto(w, IF verdict[w].call = "none" THEN "store" ELSE "audit_route")
  /\ UNCHANGED <<tables, charged, key, verdict, cid, result, faults>>

AuditRoute(w) ==
  /\ pc[w] = "audit_route"
  /\ ledger' = ledger \cup {<<key[w], "route", verdict[w].call = "ok">>}
  /\ Goto(w, "store")
  /\ UNCHANGED <<tables, charged, key, verdict, cid, result, faults>>

AuditFailureUnrecorded(w) ==
  /\ pc[w] = "audit_failure"
  /\ Goto(w, "store")
  /\ verdict' = [verdict EXCEPT ![w] = Fallback("gateway_error")]
  /\ UNCHANGED <<tables, money, key, cid, result, faults>>

\* record_llm_failure, then the fallback classification or, for an invalid
\* classification under a demo profile, the status "failed".
AuditFailure(w) ==
  /\ ledger' = ledger \cup {<<key[w], "classify", FALSE>>}
  /\ \/ /\ pc[w] = "audit_failure"
        /\ Goto(w, "store")
        /\ verdict' = [verdict EXCEPT ![w] = Fallback("gateway_error")]
        /\ UNCHANGED <<cid, result>>
     \/ /\ pc[w] = "audit_invalid"
        /\ Return(w, "failed")
  /\ UNCHANGED <<tables, charged, key, faults>>

ClassificationOf(w, id) ==
  [id |-> id, signal |-> key[w], origin |-> verdict[w].origin, ignore |-> verdict[w].ignore]

RecordClassificationUpserts(w) ==
  /\ pc[w] = "store"
  /\ classifications' = {c \in classifications : c.signal # key[w]}
                           \cup {ClassificationOf(w, nextId)}
  /\ nextId' = nextId + 1
  /\ cid' = [cid EXCEPT ![w] = nextId]
  /\ Goto(w, "route")
  /\ UNCHANGED <<signals, routes, money, key, verdict, result, faults>>
RecordClassificationReusesRow(w) ==
  /\ pc[w] = "store"
  /\ IF Classified(key[w])
       THEN /\ cid' = [cid EXCEPT ![w] =
                         (CHOOSE c \in classifications : c.signal = key[w]).id]
            /\ UNCHANGED <<classifications, nextId>>
       ELSE /\ classifications' = classifications \cup {ClassificationOf(w, nextId)}
            /\ nextId' = nextId + 1
            /\ cid' = [cid EXCEPT ![w] = nextId]
  /\ Goto(w, "route")
  /\ UNCHANGED <<signals, routes, money, key, verdict, result, faults>>
RecordClassificationEndsIgnored(w) ==
  /\ pc[w] = "store"
  /\ ~Classified(key[w])
  /\ classifications' = classifications \cup {ClassificationOf(w, nextId)}
  /\ nextId' = nextId + 1
  /\ IF verdict[w].ignore
       THEN Return(w, "ignored")
       ELSE /\ cid' = [cid EXCEPT ![w] = nextId]
            /\ Goto(w, "route")
            /\ UNCHANGED <<verdict, result>>
  /\ UNCHANGED <<signals, routes, money, key, faults>>

\* record_classification: signal_id is UNIQUE in classifications.
RecordClassification(w) ==
  /\ pc[w] = "store"
  /\ \/ /\ ~Classified(key[w])
        /\ classifications' = classifications \cup {ClassificationOf(w, nextId)}
        /\ nextId' = nextId + 1
        /\ cid' = [cid EXCEPT ![w] = nextId]
        /\ Goto(w, "route")
        /\ UNCHANGED <<verdict, result>>
     \/ /\ Classified(key[w])
        /\ Raise(w)
        /\ UNCHANGED <<classifications, nextId>>
  /\ UNCHANGED <<signals, routes, money, key, faults>>

\* record_route: signal_id is UNIQUE in routes too.  Then the status.
RecordRoute(w) ==
  /\ pc[w] = "route"
  /\ \/ /\ ~Routed(key[w])
        /\ routes' = routes \cup
             {[signal |-> key[w], classification |-> cid[w], rule |-> verdict[w].rule]}
        /\ Return(w, IF verdict[w].rule = "ignored_by_classifier"
                       THEN "ignored" ELSE "processed")
     \/ /\ Routed(key[w])
        /\ Raise(w)
        /\ UNCHANGED routes
  /\ UNCHANGED <<signals, classifications, nextId, money, key, faults>>

\* The process dies, or a transaction fails outside the swallowed region; an
\* attempt that has returned may die before Temporal learns its result.
Crash(w) ==
  /\ pc[w] \in Running \cup {"done"}
  /\ crashes < MaxCrashes
  /\ crashes' = crashes + 1
  /\ cutOff' = IF pc[w] = "route" THEN cutOff \cup {key[w]} ELSE cutOff
  /\ LoseAnswer(w)
  /\ Goto(w, "raised")
  /\ DropLocals(w)
  /\ result' = [result EXCEPT ![w] = "none"]
  /\ UNCHANGED <<tables, money, key, fatals>>

RetryResumesAtInsert(w) ==
  /\ pc[w] = "raised"
  /\ Goto(w, "insert")
  /\ UNCHANGED <<tables, money, key, verdict, cid, result, faults>>

\* Temporal's default policy starts a new attempt with the same request.
Retry(w) ==
  /\ pc[w] = "raised"
  /\ Goto(w, "read")
  /\ UNCHANGED <<tables, money, key, verdict, cid, result, faults>>

Finished ==
  /\ \A w \in Worker : pc[w] = "done"
  /\ UNCHANGED vars

Attempt(w) ==
  \/ ReadState(w) \/ RecordSignal(w) \/ ClassifyAnswered(w) \/ RouteAnswered(w)
  \/ ClassifyFailed(w) \/ Unexpected(w) \/ FatalError(w)
  \/ AuditClassify(w) \/ AuditRoute(w) \/ AuditFailure(w)
  \/ RecordClassification(w) \/ RecordRoute(w) \/ Retry(w)

Next ==
  \/ \E w \in Worker : (\E k \in Key : Deliver(w, k)) \/ Attempt(w) \/ Crash(w)
  \/ Finished

\* A running attempt goes on and a failed one is retried; whether an event
\* arrives, and whether a worker is killed, is up to the environment.
Spec == Init /\ [][Next]_vars /\ \A w \in Worker : WF_vars(Attempt(w))

-----------------------------------------------------------------------------
ClassificationRow == [id : Nat \ {0}, signal : Key, origin : Origin,
                      ignore : BOOLEAN]
RouteRow == [signal : Key, classification : Nat, rule : Rule]

\* Types of the tables and of the workers' local state.
TypeOK ==
  /\ signals \subseteq Key
  /\ classifications \subseteq ClassificationRow
  /\ routes \subseteq RouteRow
  /\ nextId \in Nat \ {0}
  /\ ledger \subseteq LlmRow
  /\ charged \in [Key -> Nat]
  /\ pc \in [Worker -> Place]
  /\ key \in [Worker -> Key \cup {NoKey}]
  /\ verdict \in [Worker -> Verdict]
  /\ cid \in [Worker -> Nat]
  /\ result \in [Worker -> Status]
  /\ crashes \in Nat /\ fatals \in Nat
  /\ cutOff \subseteq Key /\ unwritten \subseteq Key
  /\ \A w \in Worker : pc[w] # "idle" => key[w] \in Key

\* A route row belongs to the classification it names: that classification is
\* of the same signal and took the decision the route carries out, even when
\* several workers classified the signal and disagreed.
RoutesFollowTheirClassification ==
  \A r \in routes : \E c \in classifications :
    /\ c.id = r.classification /\ c.signal = r.signal
    /\ c.ignore <=> r.rule = "ignored_by_classifier"

\* The UNIQUE constraint on classifications already serialises the route write:
\* a worker about to record a route finds no route row and no rival.
RouteWriteNeverConflicts ==
  \A w \in Worker : pc[w] = "route" =>
    /\ ~Routed(key[w])
    /\ \A v \in Worker : pc[v] = "route" /\ key[v] = key[w] => v = w

\* What llm_calls tells, and what it does not.  A classification the model gave
\* has a successful classify row, and one that stands for a gateway failure has a
\* failure row, both written before it.  The one classification the ledger need
\* not know of is the fallback of a swallowed exception (signal_processing.py,
\* 297-299), which ignores the signal.
ClassificationsAreExplained ==
  \A c \in classifications :
    CASE c.origin = "model" -> <<c.signal, "classify", TRUE>> \in ledger
      [] c.origin = "gateway_error" -> <<c.signal, "classify", FALSE>> \in ledger
      [] OTHER -> c.origin = "unexpected" /\ c.ignore

\* A paid answer that has no row is still in the memory of an attempt that will
\* write it, or an exception, a fatal error or a crash took it on the way there:
\* no race and no retry loses one.
PaidAnswersAreAccounted ==
  \A k \in Key : charged[k] > 0 =>
    \/ <<k, "classify", TRUE>> \in ledger
    \/ k \in unwritten
    \/ \E w \in Worker : HoldsAnswer(w) /\ key[w] = k

OnlyErrorsEscapeTheLedger == ClassificationsAreExplained /\ PaidAnswersAreAccounted

\* What a caller was told is durable: a processed or ignored signal has its
\* route, a duplicate has been classified, a failure has its audit row.
AnswerIsDurable(w) ==
  /\ result[w] \in {"processed", "ignored"} =>
       \E r \in routes : /\ r.signal = key[w]
                         /\ result[w] = "ignored" <=> r.rule = "ignored_by_classifier"
  /\ result[w] = "duplicate" => Classified(key[w])
  /\ result[w] = "failed" => DemoProfile /\ <<key[w], "classify", FALSE>> \in ledger
AnswersAreDurable == \A w \in Worker : AnswerIsDurable(w)

\* A signal is left classified and unrouted for one reason only: its worker
\* died between the last two commits.  (Nothing repairs it then: every later
\* event for it is answered "duplicate".)
OnlyCutOffSignalsLackRoutes ==
  \A k \in Key : Classified(k) /\ ~Routed(k) =>
    k \in cutOff \/ \E w \in Worker : pc[w] = "route" /\ key[w] = k

-----------------------------------------------------------------------------
\* The strengthening that makes the safety invariants inductive.

\* Ids are handed out in order and a signal has one classification.
ClassificationsKeyed ==
  /\ \A c \in classifications : c.id < nextId /\ c.signal \in signals
  /\ \A c, d \in classifications : c.signal = d.signal => c = d

\* A verdict past the model calls agrees with its rule, its audit row is written
\* before it is stored, and only a call that returned has a result.
VerdictIsCoherent(w) ==
  /\ pc[w] \in {"route_call", "audit_classify", "audit_route"} => verdict[w].origin = "model"
  /\ pc[w] = "route_call" => ~verdict[w].ignore
  /\ pc[w] \in {"audit_classify", "audit_route", "store", "route"} =>
       (verdict[w].ignore <=> verdict[w].rule = "ignored_by_classifier")
  /\ pc[w] \in {"audit_route", "store", "route"} =>
       /\ verdict[w].origin = "model" => <<key[w], "classify", TRUE>> \in ledger
       /\ verdict[w].origin = "gateway_error" => <<key[w], "classify", FALSE>> \in ledger
       /\ verdict[w].origin = "unexpected" => verdict[w].ignore
       /\ verdict[w].origin # "none"
  /\ pc[w] = "audit_invalid" => DemoProfile
  /\ pc[w] \in Running \ {"read", "insert"} => key[w] \in signals
  /\ pc[w] # "done" => result[w] = "none"
VerdictsCoherent == \A w \in Worker : VerdictIsCoherent(w)

\* A worker about to record a route holds the id of the signal's classification.
RouterHoldsClassification ==
  \A w \in Worker : pc[w] = "route" =>
    \E c \in classifications :
      /\ c.id = cid[w] /\ c.signal = key[w]
      /\ c.ignore <=> verdict[w].rule = "ignored_by_classifier"

IInv ==
  /\ TypeOK /\ ClassificationsKeyed /\ VerdictsCoherent /\ RouterHoldsClassification
  /\ RoutesFollowTheirClassification /\ RouteWriteNeverConflicts
  /\ OnlyErrorsEscapeTheLedger /\ AnswersAreDurable /\ OnlyCutOffSignalsLackRoutes

-----------------------------------------------------------------------------
\* Seen per key, the workers together implement the ledger of stages.
Stage(k) == IF Routed(k) THEN "routed"
            ELSE IF Classified(k) THEN "classified"
            ELSE IF k \in signals THEN "recorded" ELSE "absent"
Decision(k) ==
  IF ~Classified(k) THEN "none"
  ELSE IF \E c \in classifications : c.signal = k /\ c.ignore THEN "ignore" ELSE "act"

Ledger == INSTANCE SignalLedger WITH
  stage <- [k \in Key |-> Stage(k)], decision <- [k \in Key |-> Decision(k)]

\* No interleaving, crash or retry skips a stage, undoes one, or changes a
\* persisted decision.
ImplementsLedger == Ledger!Spec

\* Every event a worker was given is eventually answered: a raised attempt is
\* retried, and races over the unique columns cannot go on for ever.
EveryEventIsAnswered ==
  \A w \in Worker : pc[w] = "read" ~> pc[w] = "done"

\* How many steps a worker's event may still take, faults aside: a lost race over
\* a unique column leaves the signal one stage further, so the next attempt finds
\* less to do.  A raised attempt first has to be retried.
Ahead == [done |-> 0, idle |-> 0, route |-> 1, store |-> 4,
          audit_route |-> 5, audit_classify |-> 6, route_call |-> 7,
          audit_failure |-> 5, audit_invalid |-> 5, classify |-> 8,
          insert |-> 11, read |-> 12, raised |-> 13]
StepsLeft(w) ==
  IF Classified(key[w]) /\ pc[w] \in {"read", "raised"}
    THEN Ahead[pc[w]] - 11
  ELSE IF key[w] \in signals /\ pc[w] \in {"read", "raised"}
    THEN Ahead[pc[w]] - 3
  ELSE Ahead[pc[w]]
Faults == crashes + fatals

\* No livelock among attempts: every step of a worker on its event uses up one of
\* at most thirteen, and no step of another worker adds to them; only a fault
\* starts the count anew.
RetriesRunOut ==
  [][\A w \in Worker : pc[w] # "idle" =>
        /\ StepsLeft(w) \in 0 .. 13
        /\ \/ Faults' > Faults
           \/ /\ StepsLeft(w)' <= StepsLeft(w)
              /\ pc'[w] # pc[w] => StepsLeft(w)' < StepsLeft(w)]_vars

\* Each delivery of a signal pays for at most one classification, and each fault
\* for at most one more: a retry that follows a lost race finds the winner's work
\* and does not pay again.  (The guarantee that does hold where
\* DuplicateIsNotChargedTwice does not.)
Given(k) == {w \in Worker : pc[w] # "idle" /\ key[w] = k}
ChargesAreBounded ==
  \A k \in Key : charged[k] <= Cardinality(Given(k)) + Faults

\* The inductive form counts the workers that may still pay, too.
MayPay(k) ==
  {w \in Given(k) : \/ pc[w] = "classify"
                    \/ pc[w] \in {"read", "insert", "raised"} /\ ~Classified(k)}
ChargesAccounted ==
  \A k \in Key : charged[k] + Cardinality(MayPay(k)) <= Cardinality(Given(k)) + Faults

-----------------------------------------------------------------------------
\* Two statements of the documents, which the runs named after them refute.

\* "duplicate signal event is idempotent and does not double-charge
\* classification" (the backend orchestration plan, line 684).
DuplicateIsNotChargedTwice == \A k \in Key : charged[k] <= 1

\* "llm_calls remains the cost, fallback, latency, and error ledger"
\* (docs/runbooks/temporal-workers.md, line 32): once no attempt on a key is
\* under way, a billed classify call has its row.
PaidCallsAreInTheLedger ==
  \A k \in Key :
    charged[k] > 0 /\ (\A w \in Worker : key[w] = k => pc[w] \notin Running) =>
      <<k, "classify", TRUE>> \in ledger
=============================================================================
