----------------------------- MODULE ApiClient -----------------------------
(***************************************************************************)
(* The generated API client (lib/api-client-react): one operator per      *)
(* endpoint, giving the request its fetcher sends; the cache key a query  *)
(* has when the caller gives none; and customFetch's classification of a  *)
(* response.  A path is its route template, args the values put in it and *)
(* in the query string, body the values of a JSON body.  Every request of *)
(* the client is built by Get or Send, so none carries an Idempotency-Key *)
(* header; other callers of the API may add one (WithKey).                *)
(***************************************************************************)
EXTENDS Integers, Sequences

CONSTANTS Brands,      \* brand slugs
          Routes,      \* route ids; a route has one signal, which it names too
          Patterns,    \* pattern ids
          Owners,      \* owner ids
          Labels,      \* reporting windows, as the dashboard labels them
          Filters,     \* what the signal page may filter by: source, area, severity, sentiment
          Loading,     \* the fallback brand of BrandContext
          NoKey        \* a request without Idempotency-Key

ASSUME ClientAssumption == /\ Loading \notin Brands
                           /\ Labels \subseteq {"24h", "7d", "30d", "QTD"}

-----------------------------------------------------------------------------
(* Requests *)

ApiPeriodAsLabelled(label) == label    \* the label sent as it is
ApiPeriod(label) == IF label = "QTD" THEN "qtd" ELSE label
Periods == {"24h", "7d", "30d", "qtd"}

Request(method, path, args, body) ==
    [method |-> method, path |-> path, args |-> args, body |-> body, key |-> NoKey]

Get(path, args) == Request("GET", path, args, <<>>)

Send(method, path, args, body) == Request(method, path, args, body)

WithKey(request, k) == [request EXCEPT !.key = k]

(* an unset filter is left out of the query string                        *)
FilterParam(choice) == IF choice = "All" THEN "undefined" ELSE choice
FilterParams(f) == [source |-> FilterParam(f.source), area |-> FilterParam(f.area),
                    severity |-> FilterParam(f.severity), sentiment |-> FilterParam(f.sentiment)]

HealthCheck == Get("/api/healthz", <<>>)
ReadinessCheck == Get("/api/readiness", <<>>)
ListBrands == Get("/api/brands", <<>>)
GetBrandStats(brand, period) == Get("/api/brands/{}/stats/{}", <<brand, period>>)
ListSignals(brand, filter, period, limit) ==
    Get("/api/signals", <<brand, filter.source, filter.area, filter.severity,
                          filter.sentiment, period, limit>>)
GetCriticalSignals(brand, period) == Get("/api/signals/critical", <<brand, period>>)
GetSignal(signal) == Get("/api/signals/{}", <<signal>>)
ListRoutes(brand, period, limit) == Get("/api/routes", <<brand, period, limit>>)
RerouteSignal(route, owner) == Send("PATCH", "/api/routes/{}/reroute", <<route>>, <<owner>>)
SubmitFeedback(route, correct) == Send("POST", "/api/routes/{}/feedback", <<route>>, <<correct>>)
ListPatterns(brand) == Get("/api/patterns", <<brand>>)
GetPattern(pattern) == Get("/api/patterns/{}", <<pattern>>)
StartSourceSync(brand) == Send("POST", "/api/workflows/source-sync", <<>>, <<brand>>)
StartListeningProfileSetup(brand, names) ==
    Send("POST", "/api/listening-profiles/setup", <<>>, <<brand, names>>)
DecideListeningProfileSuggestion(suggestion, decision) ==
    Send("PATCH", "/api/listening-profiles/suggestions/{}", <<suggestion>>, <<decision>>)
ListSourceHealth(brand) == Get("/api/source-health", <<brand>>)
GetLlmTelemetry(brand, period) == Get("/api/telemetry/llm", <<brand, period>>)
GetEvaluationSummary(brand, period) == Get("/api/evaluations/summary", <<brand, period>>)
ListReportTemplates == Get("/api/reports/templates", <<>>)
ListReportRuns == Get("/api/reports/runs", <<>>)
StartReportGeneration(brand, role) == Send("POST", "/api/reports/runs", <<>>, <<brand, role>>)
ListAgentSessions == Get("/api/agents/sessions", <<>>)
GetPublicBrandFeed(brand, limit) == Get("/api/public/feed", <<brand, limit>>)
ModeratePublicFeedItem(signal, action) ==
    Send("PATCH", "/api/public/feed/items/{}/moderation", <<signal>>, <<action>>)
StreamEvents == Get("/api/events", <<>>)

(* A query: the key its data is cached under and the request its fetcher   *)
(* sends.  Without a key of the caller's, the key is the URL's template    *)
(* with what fills it.                                                      *)
Query(key, request) == [key |-> key, request |-> request]
DefaultKey(request) == <<request.path>> \o request.args
DefaultQuery(request) == Query(DefaultKey(request), request)

(* The requests the client's types allow, those for the public feed apart.  *)
(* A limit is any number, here an integer; one that is left out counts as    *)
(* the default of its schema.                                               *)
FeedbackInput == {"right", "wrong"}
Decisions == {"accept", "edit", "reject"}
ModerationActions == {"show", "hide", "takedown", "no_export"}

QueryRequests ==
    {HealthCheck, ReadinessCheck, ListBrands, ListReportTemplates, ListReportRuns,
     ListAgentSessions, StreamEvents}
    \cup {GetBrandStats(b, p) : b \in Brands, p \in Periods}
    \cup {ListSignals(b, FilterParams(f), p, n) :
                b \in Brands, f \in Filters, p \in Periods, n \in Int}
    \cup {GetCriticalSignals(b, p) : b \in Brands, p \in Periods}
    \cup {GetSignal(s) : s \in Routes}
    \cup {ListRoutes(b, p, n) : b \in Brands, p \in Periods, n \in Int}
    \cup {ListPatterns(b) : b \in Brands}
    \cup {GetPattern(p) : p \in Patterns}
    \cup {ListSourceHealth(b) : b \in Brands}
    \cup {GetLlmTelemetry(b, p) : b \in Brands, p \in Periods}
    \cup {GetEvaluationSummary(b, p) : b \in Brands, p \in Periods}

CommandRequests ==
    {RerouteSignal(r, o) : r \in Routes, o \in Owners}
    \cup {SubmitFeedback(r, correct) : r \in Routes, correct \in FeedbackInput}
    \cup {StartSourceSync(b) : b \in Brands}
    \cup {StartListeningProfileSetup(b, names) : b \in Brands, names \in Seq(STRING)}
    \cup {DecideListeningProfileSuggestion(n, d) : n \in Nat, d \in Decisions}
    \cup {StartReportGeneration(b, role) : b \in Brands, role \in STRING}
    \cup {ModeratePublicFeedItem(s, a) : s \in Routes, a \in ModerationActions}

-----------------------------------------------------------------------------
(* Responses: customFetch.  A response is its status, whether it has a     *)
(* body at all, its media type and what the body reads as.                 *)

ResponseType == [status : {200, 204, 404, 500},
                 empty : BOOLEAN,
                 media : {"json", "text", "other", "none"},
                 body : {"json", "text", "blank"}]

Ok(response) == response.status \in 200 .. 299

HasNoBody(response, method) ==
    \/ method = "HEAD"
    \/ response.status \in {204, 205, 304}
    \/ response.empty

ParseJsonBody(response) ==
    CASE response.body = "blank" -> "null"
      [] response.body = "json" -> "json"
      [] OTHER -> "ResponseParseError"

InferResponseType(response) ==
    CASE response.media = "json" -> "json"
      [] response.media \in {"text", "none"} -> "text"
      [] OTHER -> "blob"

ParseSuccessBody(response, method) ==
    IF HasNoBody(response, method) THEN "null"
    ELSE CASE InferResponseType(response) = "json" -> ParseJsonBody(response)
           [] InferResponseType(response) = "text" ->
                  IF response.body = "blank" THEN "null" ELSE "text"
           [] OTHER -> "blob"

(* The error raised for a response that is not ok carries the parsed body, *)
(* and never fails to parse it: a body that is no JSON is kept as text.    *)
ParseErrorBody(response, method) ==
    IF HasNoBody(response, method) THEN "null"
    ELSE IF response.media = "other" THEN "blob"
    ELSE IF response.body = "blank" THEN "null"
    ELSE response.body

ApiError(response, method) == [name |-> "ApiError", data |-> ParseErrorBody(response, method)]
ResponseParseError == [name |-> "ResponseParseError", data |-> "text"]
Resolved(data) == [name |-> "data", data |-> data]

CustomFetch(response, method) ==
    IF ~Ok(response) THEN ApiError(response, method)
    ELSE IF ParseSuccessBody(response, method) = "ResponseParseError" THEN ResponseParseError
    ELSE Resolved(ParseSuccessBody(response, method))
=============================================================================
