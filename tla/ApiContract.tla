---------------------------- MODULE ApiContract ----------------------------
(***************************************************************************)
(* The API's contract (lib/api-zod): for every endpoint the requests its   *)
(* schemas accept, which may carry an Idempotency-Key or not, and the shape *)
(* of its answer.  A path parameter or a required string is any value of    *)
(* its kind, an optional one may be left out ("undefined"), an enum is its  *)
(* members; a limit is a number, its default when it is left out, of which   *)
(* the public feed alone bounds the range.  What no page sends and every     *)
(* value of its kind satisfies is left out: offsets, the patterns' area, the *)
(* optional fields of bodies and the tenant headers.  So is the effect of a  *)
(* limit on the answer.                                                     *)
(***************************************************************************)
EXTENDS ApiClient

Left(S) == S \cup {"undefined"}      \* zod's optional()

Choices(field) == {f[field] : f \in Filters}

(* what an endpoint accepts and answers                                     *)
Endpoint(method, path, args, bodies, answer) ==
    [method |-> method, path |-> path, args |-> args, bodies |-> bodies,
     keyed |-> FALSE, answer |-> answer]
Reads(path, args, answer) == Endpoint("GET", path, args, {<<>>}, answer)
Keyed(endpoint) == [endpoint EXCEPT !.keyed = TRUE]

HealthCheckContract == Reads("/api/healthz", {<<>>}, "object")
ReadinessCheckContract == Reads("/api/readiness", {<<>>}, "object")
ListBrandsContract == Reads("/api/brands", {<<>>}, "array")
GetBrandStatsContract == Reads("/api/brands/{}/stats/{}", Brands \X Periods, "object")
ListSignalsContract ==
    Reads("/api/signals",
          Left(Brands) \X Left(Choices("source")) \X Left(Choices("area"))
              \X Left(Choices("severity")) \X Left(Choices("sentiment"))
              \X Left(Periods) \X Int,
          "object")
GetCriticalSignalsContract ==
    Reads("/api/signals/critical", Left(Brands) \X Left(Periods), "array")
GetSignalContract == Reads("/api/signals/{}", {<<s>> : s \in Routes}, "object")
ListRoutesContract ==
    Reads("/api/routes", Left(Brands) \X Left(Periods) \X Int, "array")
RerouteSignalContract ==
    Keyed(Endpoint("PATCH", "/api/routes/{}/reroute", {<<r>> : r \in Routes},
                   {<<o>> : o \in Owners}, "object"))
SubmitFeedbackContract ==
    Endpoint("POST", "/api/routes/{}/feedback", {<<r>> : r \in Routes},
             {<<"right">>, <<"wrong">>}, "object")
ListPatternsContract == Reads("/api/patterns", {<<b>> : b \in Left(Brands)}, "array")
GetPatternContract == Reads("/api/patterns/{}", {<<p>> : p \in Patterns}, "object")
StartSourceSyncContract ==
    Endpoint("POST", "/api/workflows/source-sync", {<<>>}, {<<b>> : b \in Brands}, "object")
StartListeningProfileSetupContract ==
    Endpoint("POST", "/api/listening-profiles/setup", {<<>>}, Brands \X Seq(STRING), "object")
DecideListeningProfileSuggestionContract ==
    Endpoint("PATCH", "/api/listening-profiles/suggestions/{}", [1 .. 1 -> Nat],
             {<<"accept">>, <<"edit">>, <<"reject">>}, "object")
ListSourceHealthContract == Reads("/api/source-health", {<<b>> : b \in Brands}, "array")
GetLlmTelemetryContract == Reads("/api/telemetry/llm", Brands \X Left(Periods), "object")
GetEvaluationSummaryContract ==
    Reads("/api/evaluations/summary", Brands \X Left(Periods), "object")
ListReportTemplatesContract == Reads("/api/reports/templates", {<<>>}, "array")
ListReportRunsContract == Reads("/api/reports/runs", {<<>>}, "array")
StartReportGenerationContract ==
    Endpoint("POST", "/api/reports/runs", {<<>>}, Brands \X STRING, "object")
ListAgentSessionsContract == Reads("/api/agents/sessions", {<<>>}, "array")
GetPublicBrandFeedContract == Reads("/api/public/feed", Brands \X (1 .. 50), "object")
ModeratePublicFeedItemContract ==
    Endpoint("PATCH", "/api/public/feed/items/{}/moderation", {<<s>> : s \in Routes},
             {<<a>> : a \in {"show", "hide", "takedown", "no_export"}}, "object")
StreamEventsContract == Reads("/api/events", {<<>>}, "unknown")

Contract ==
    <<HealthCheckContract, ReadinessCheckContract, ListBrandsContract, GetBrandStatsContract,
     ListSignalsContract, GetCriticalSignalsContract, GetSignalContract, ListRoutesContract,
     RerouteSignalContract, SubmitFeedbackContract, ListPatternsContract, GetPatternContract,
     StartSourceSyncContract, StartListeningProfileSetupContract,
     DecideListeningProfileSuggestionContract, ListSourceHealthContract,
     GetLlmTelemetryContract, GetEvaluationSummaryContract, ListReportTemplatesContract,
     ListReportRunsContract, StartReportGenerationContract, ListAgentSessionsContract,
     GetPublicBrandFeedContract, ModeratePublicFeedItemContract, StreamEventsContract>>

Accepts(endpoint, request) ==
    /\ request.method = endpoint.method /\ request.path = endpoint.path
    /\ request.args \in endpoint.args /\ request.body \in endpoint.bodies
    /\ request.key # NoKey => endpoint.keyed

MeetsContract(request) == \E i \in DOMAIN Contract : Accepts(Contract[i], request)

AnswersArray(request) ==
    \E i \in DOMAIN Contract : Accepts(Contract[i], request) /\ Contract[i].answer = "array"
=============================================================================
