-------------------------- MODULE WebClientProofs --------------------------
(***************************************************************************)
(* Proofs about WebClient.  The request of a query is a function of its    *)
(* key, so what is cached under a key answers it; a query in view was asked *)
(* after every command but those its first load may have missed; and a row   *)
(* whose owner is not that of its data waits for a fetch that will show its  *)
(* own handoff.                                                             *)
(***************************************************************************)
EXTENDS WebClient, RouteHandoffsProofs

-----------------------------------------------------------------------------
(* The contract *)

LEMMA ContractHas ==
    /\ DOMAIN Contract = 1 .. 25
    /\ Contract[1] = HealthCheckContract /\ Contract[2] = ReadinessCheckContract
    /\ Contract[3] = ListBrandsContract /\ Contract[4] = GetBrandStatsContract
    /\ Contract[5] = ListSignalsContract /\ Contract[6] = GetCriticalSignalsContract
    /\ Contract[7] = GetSignalContract /\ Contract[8] = ListRoutesContract
    /\ Contract[9] = RerouteSignalContract /\ Contract[10] = SubmitFeedbackContract
    /\ Contract[11] = ListPatternsContract /\ Contract[12] = GetPatternContract
    /\ Contract[13] = StartSourceSyncContract
    /\ Contract[14] = StartListeningProfileSetupContract
    /\ Contract[15] = DecideListeningProfileSuggestionContract
    /\ Contract[16] = ListSourceHealthContract /\ Contract[17] = GetLlmTelemetryContract
    /\ Contract[18] = GetEvaluationSummaryContract
    /\ Contract[19] = ListReportTemplatesContract /\ Contract[20] = ListReportRunsContract
    /\ Contract[21] = StartReportGenerationContract
    /\ Contract[22] = ListAgentSessionsContract /\ Contract[23] = GetPublicBrandFeedContract
    /\ Contract[24] = ModeratePublicFeedItemContract /\ Contract[25] = StreamEventsContract
  BY DEF Contract

LEMMA OneAccepts ==
    ASSUME NEW request, NEW i \in 1 .. 25, Accepts(Contract[i], request)
    PROVE  MeetsContract(request)
  BY ContractHas DEF MeetsContract

(* A request without a key is accepted when its endpoint's schemas have its *)
(* values.                                                                   *)
LEMMA AcceptedRead ==
    ASSUME NEW path, NEW args, NEW known, NEW answer, args \in known
    PROVE  Accepts(Reads(path, known, answer), Get(path, args))
  <1>1. /\ Get(path, args).method = "GET" /\ Get(path, args).path = path
        /\ Get(path, args).args = args /\ Get(path, args).body = <<>>
        /\ Get(path, args).key = NoKey
    BY DEF Get, Request
  <1>2. /\ Reads(path, known, answer).method = "GET" /\ Reads(path, known, answer).path = path
        /\ Reads(path, known, answer).args = known /\ Reads(path, known, answer).bodies = {<<>>}
    BY DEF Reads, Endpoint
  <1> QED BY <1>1, <1>2 DEF Accepts

LEMMA AcceptedSend ==
    ASSUME NEW method, NEW path, NEW args, NEW known, NEW body, NEW bodies, NEW answer,
           args \in known, body \in bodies
    PROVE  Accepts(Endpoint(method, path, known, bodies, answer), Send(method, path, args, body))
  BY DEF Accepts, Endpoint, Send, Request

LEMMA AcceptedKeyed ==
    ASSUME NEW method, NEW path, NEW args, NEW known, NEW body, NEW bodies, NEW answer, NEW k,
           args \in known, body \in bodies
    PROVE  Accepts(Keyed(Endpoint(method, path, known, bodies, answer)),
                   WithKey(Send(method, path, args, body), k))
  BY DEF Accepts, Endpoint, Keyed, WithKey, Send, Request

LEMMA FilterParamsAllowed ==
    ASSUME NEW f \in Filters
    PROVE  /\ FilterParams(f).source \in Left(Choices("source"))
           /\ FilterParams(f).area \in Left(Choices("area"))
           /\ FilterParams(f).severity \in Left(Choices("severity"))
           /\ FilterParams(f).sentiment \in Left(Choices("sentiment"))
  <1>1. ASSUME NEW field
        PROVE  FilterParam(f[field]) \in Left(Choices(field))
    BY DEF FilterParam, Left, Choices
  <1> QED BY <1>1 DEF FilterParams

LEMMA ListSignalsAccepted ==
    ASSUME NEW b \in Brands, NEW f \in Filters, NEW p \in Periods, NEW n \in Int
    PROVE  Accepts(ListSignalsContract, ListSignals(b, FilterParams(f), p, n))
  <1> DEFINE known == Left(Brands) \X Left(Choices("source")) \X Left(Choices("area"))
                          \X Left(Choices("severity")) \X Left(Choices("sentiment"))
                          \X Left(Periods) \X Int
             args(g) == <<b, g.source, g.area, g.severity, g.sentiment, p, n>>
  <1>1. PICK g : g = FilterParams(f)
    OBVIOUS
  <1>2. /\ b \in Left(Brands) /\ p \in Left(Periods)
        /\ g.source \in Left(Choices("source")) /\ g.area \in Left(Choices("area"))
        /\ g.severity \in Left(Choices("severity"))
        /\ g.sentiment \in Left(Choices("sentiment"))
    BY <1>1, FilterParamsAllowed DEF Left
  <1>3. args(g) \in known
    BY <1>2
  <1>4. ListSignalsContract = Reads("/api/signals", known, "object")
    BY DEF ListSignalsContract
  <1>5. ListSignals(b, g, p, n) = Get("/api/signals", args(g))
    BY DEF ListSignals
  <1> HIDE DEF known, args
  <1> QED BY <1>1, <1>3, <1>4, <1>5, AcceptedRead

(* The requests of the client's types are what the schemas accept.           *)
LEMMA QueriesMeetContract ==
    ASSUME NEW request \in QueryRequests
    PROVE  MeetsContract(request)
  <1>1. ASSUME request \in {HealthCheck, ReadinessCheck, ListBrands, ListReportTemplates,
                            ListReportRuns, ListAgentSessions, StreamEvents}
        PROVE  MeetsContract(request)
    <2>1. <<>> \in {<<>>}
      OBVIOUS
    <2>2. /\ Accepts(Contract[1], HealthCheck) /\ Accepts(Contract[2], ReadinessCheck)
          /\ Accepts(Contract[3], ListBrands) /\ Accepts(Contract[19], ListReportTemplates)
          /\ Accepts(Contract[20], ListReportRuns) /\ Accepts(Contract[22], ListAgentSessions)
          /\ Accepts(Contract[25], StreamEvents)
      BY <2>1, ContractHas, AcceptedRead, SMTT(30)
         DEF HealthCheck, ReadinessCheck, ListBrands, ListReportTemplates, ListReportRuns,
             ListAgentSessions, StreamEvents, HealthCheckContract, ReadinessCheckContract,
             ListBrandsContract, ListReportTemplatesContract, ListReportRunsContract,
             ListAgentSessionsContract, StreamEventsContract
    <2> QED BY <1>1, <2>2, OneAccepts
  <1>2. ASSUME NEW b \in Brands, NEW p \in Periods
        PROVE  /\ Accepts(Contract[4], GetBrandStats(b, p))
               /\ Accepts(Contract[6], GetCriticalSignals(b, p))
               /\ \A n \in Int : Accepts(Contract[8], ListRoutes(b, p, n))
               /\ Accepts(Contract[17], GetLlmTelemetry(b, p))
               /\ Accepts(Contract[18], GetEvaluationSummary(b, p))
    <2>1. /\ <<b, p>> \in Brands \X Periods /\ <<b, p>> \in Left(Brands) \X Left(Periods)
          /\ <<b, p>> \in Brands \X Left(Periods)
          /\ \A n \in Int : <<b, p, n>> \in Left(Brands) \X Left(Periods) \X Int
      BY DEF Left
    <2>2. /\ Contract[4] = GetBrandStatsContract /\ Contract[6] = GetCriticalSignalsContract
          /\ Contract[8] = ListRoutesContract /\ Contract[17] = GetLlmTelemetryContract
          /\ Contract[18] = GetEvaluationSummaryContract
      BY ContractHas
    <2>3. Accepts(Contract[4], GetBrandStats(b, p)) /\ Accepts(Contract[6], GetCriticalSignals(b, p))
      BY <2>1, <2>2, AcceptedRead DEF GetBrandStats, GetCriticalSignals,
         GetBrandStatsContract, GetCriticalSignalsContract
    <2>4. \A n \in Int : Accepts(Contract[8], ListRoutes(b, p, n))
      BY <2>1, <2>2, AcceptedRead DEF ListRoutes, ListRoutesContract
    <2>5. Accepts(Contract[17], GetLlmTelemetry(b, p))
          /\ Accepts(Contract[18], GetEvaluationSummary(b, p))
      BY <2>1, <2>2, AcceptedRead DEF GetLlmTelemetry, GetEvaluationSummary,
         GetLlmTelemetryContract, GetEvaluationSummaryContract
    <2> QED BY <2>3, <2>4, <2>5
  <1>3. ASSUME NEW b \in Brands
        PROVE  Accepts(Contract[11], ListPatterns(b)) /\ Accepts(Contract[16], ListSourceHealth(b))
    <2>1. <<b>> \in {<<x>> : x \in Brands} /\ <<b>> \in {<<x>> : x \in Left(Brands)}
      BY DEF Left
    <2> QED BY <2>1, ContractHas, AcceptedRead
            DEF ListPatterns, ListSourceHealth, ListPatternsContract, ListSourceHealthContract
  <1>4. ASSUME NEW r \in Routes
        PROVE  Accepts(Contract[7], GetSignal(r))
    BY ContractHas, AcceptedRead DEF GetSignal, GetSignalContract
  <1>5. ASSUME NEW p \in Patterns
        PROVE  Accepts(Contract[12], GetPattern(p))
    BY ContractHas, AcceptedRead DEF GetPattern, GetPatternContract
  <1>6. ASSUME NEW b \in Brands, NEW f \in Filters, NEW p \in Periods, NEW n \in Int
        PROVE  Accepts(Contract[5], ListSignals(b, FilterParams(f), p, n))
    BY ContractHas, ListSignalsAccepted
  <1> QED BY <1>1, <1>2, <1>3, <1>4, <1>5, <1>6, OneAccepts DEF QueryRequests

LEMMA CommandsMeetContract ==
    ASSUME NEW request \in CommandRequests \cup Commands
    PROVE  MeetsContract(request)
  <1>1. ASSUME NEW r \in Routes, NEW o \in Owners
        PROVE  /\ Accepts(Contract[9], RerouteSignal(r, o))
               /\ \A k : Accepts(Contract[9], WithKey(RerouteSignal(r, o), k))
    <2>1. <<r>> \in {<<x>> : x \in Routes} /\ <<o>> \in {<<x>> : x \in Owners}
      OBVIOUS
    <2>2. ASSUME NEW k
          PROVE  Accepts(Contract[9], WithKey(RerouteSignal(r, o), k))
      <3>1. RerouteSignal(r, o) = Send("PATCH", "/api/routes/{}/reroute", <<r>>, <<o>>)
        BY DEF RerouteSignal
      <3>2. Contract[9] = Keyed(Endpoint("PATCH", "/api/routes/{}/reroute", {<<x>> : x \in Routes},
                                         {<<x>> : x \in Owners}, "object"))
        BY ContractHas DEF RerouteSignalContract
      <3>3. Accepts(Keyed(Endpoint("PATCH", "/api/routes/{}/reroute", {<<x>> : x \in Routes},
                                   {<<x>> : x \in Owners}, "object")),
                    WithKey(Send("PATCH", "/api/routes/{}/reroute", <<r>>, <<o>>), k))
        BY <2>1, AcceptedKeyed, Zenon
      <3> QED BY <3>1, <3>2, <3>3
    <2>3. RerouteSignal(r, o) = WithKey(RerouteSignal(r, o), NoKey)
      <3>1. ASSUME NEW method, NEW path, NEW args, NEW body
            PROVE  Request(method, path, args, body)
                   = WithKey(Request(method, path, args, body), NoKey)
        BY DEF WithKey, Request
      <3> QED BY <3>1 DEF RerouteSignal, Send
    <2> QED BY <2>2, <2>3
  <1>2. ASSUME NEW r \in Routes, NEW correct \in {"right", "wrong"}
        PROVE  Accepts(Contract[10], SubmitFeedback(r, correct))
    <2>1. <<r>> \in {<<x>> : x \in Routes} /\ <<correct>> \in {<<"right">>, <<"wrong">>}
      OBVIOUS
    <2>2. Contract[10] = SubmitFeedbackContract
      BY ContractHas
    <2>3. Accepts(Endpoint("POST", "/api/routes/{}/feedback", {<<x>> : x \in Routes},
                           {<<"right">>, <<"wrong">>}, "object"),
                  Send("POST", "/api/routes/{}/feedback", <<r>>, <<correct>>))
      BY <2>1, AcceptedSend, Zenon
    <2> QED BY <2>2, <2>3 DEF SubmitFeedback, SubmitFeedbackContract
  <1>3. ASSUME NEW b \in Brands
        PROVE  /\ Accepts(Contract[13], StartSourceSync(b))
               /\ \A names \in Seq(STRING) :
                     Accepts(Contract[14], StartListeningProfileSetup(b, names))
               /\ \A role \in STRING : Accepts(Contract[21], StartReportGeneration(b, role))
    <2>1. /\ <<>> \in {<<>>} /\ <<b>> \in {<<x>> : x \in Brands}
          /\ \A role \in STRING : <<b, role>> \in Brands \X STRING
          /\ \A names \in Seq(STRING) : <<b, names>> \in Brands \X Seq(STRING)
      OBVIOUS
    <2>2. /\ Contract[13] = StartSourceSyncContract
          /\ Contract[14] = StartListeningProfileSetupContract
          /\ Contract[21] = StartReportGenerationContract
      BY ContractHas
    <2>3. Accepts(Contract[13], StartSourceSync(b))
      BY <2>1, <2>2, AcceptedSend DEF StartSourceSync, StartSourceSyncContract
    <2>4. ASSUME NEW names \in Seq(STRING)
          PROVE  Accepts(Contract[14], StartListeningProfileSetup(b, names))
      BY <2>1, <2>2, AcceptedSend
         DEF StartListeningProfileSetup, StartListeningProfileSetupContract
    <2>5. ASSUME NEW role \in STRING
          PROVE  Accepts(Contract[21], StartReportGeneration(b, role))
      BY <2>1, <2>2, AcceptedSend
         DEF StartReportGeneration, StartReportGenerationContract
    <2> QED BY <2>3, <2>4, <2>5
  <1>4. ASSUME NEW n \in Nat, NEW d \in Decisions
        PROVE  Accepts(Contract[15], DecideListeningProfileSuggestion(n, d))
    <2>1. <<n>> \in [1 .. 1 -> Nat] /\ <<d>> \in {<<"accept">>, <<"edit">>, <<"reject">>}
      BY DEF Decisions
    <2>2. Contract[15] = DecideListeningProfileSuggestionContract
      BY ContractHas
    <2> QED BY <2>1, <2>2, AcceptedSend
            DEF DecideListeningProfileSuggestion, DecideListeningProfileSuggestionContract
  <1>5. ASSUME NEW r \in Routes, NEW a \in ModerationActions
        PROVE  Accepts(Contract[24], ModeratePublicFeedItem(r, a))
    <2>1. /\ <<r>> \in {<<x>> : x \in Routes}
          /\ <<a>> \in {<<x>> : x \in {"show", "hide", "takedown", "no_export"}}
      BY DEF ModerationActions
    <2>2. ModeratePublicFeedItem(r, a) =
             Send("PATCH", "/api/public/feed/items/{}/moderation", <<r>>, <<a>>)
      BY DEF ModeratePublicFeedItem
    <2>3. Contract[24] =
             Endpoint("PATCH", "/api/public/feed/items/{}/moderation", {<<x>> : x \in Routes},
                      {<<x>> : x \in {"show", "hide", "takedown", "no_export"}}, "object")
      BY ContractHas DEF ModeratePublicFeedItemContract
    <2>4. Accepts(Endpoint("PATCH", "/api/public/feed/items/{}/moderation", {<<x>> : x \in Routes},
                           {<<x>> : x \in {"show", "hide", "takedown", "no_export"}}, "object"),
                  Send("PATCH", "/api/public/feed/items/{}/moderation", <<r>>, <<a>>))
      BY <2>1, AcceptedSend, Zenon
    <2> QED BY <2>2, <2>3, <2>4
  <1>6. ASSUME request \in CommandRequests
        PROVE  MeetsContract(request)
    BY <1>6, <1>1, <1>2, <1>3, <1>4, <1>5, OneAccepts, SMTT(30) DEF CommandRequests, FeedbackInput
  <1>7. ASSUME request \in Commands
        PROVE  MeetsContract(request)
    <2>1. Marks \subseteq {"right", "wrong"}
      BY HandoffAssumption DEF FeedbackInput
    <2>2. ASSUME NEW r \in Routes, NEW o \in Owners, NEW k,
                 request = WithKey(RerouteSignal(r, o), k)
          PROVE  MeetsContract(request)
      BY <1>1, <2>2, OneAccepts
    <2>3. ASSUME NEW r \in Routes, NEW mark \in Marks, request = SubmitFeedback(r, mark)
          PROVE  MeetsContract(request)
      <3>1. Accepts(Contract[10], SubmitFeedback(r, mark))
        BY <1>2, <2>1
      <3> QED BY <2>3, <3>1, OneAccepts
    <2> QED BY <1>7, <2>2, <2>3 DEF Commands
  <1> QED BY <1>6, <1>7

(* A limit of the public feed that is out of range has no other endpoint.   *)
LEMMA FeedHasOneEndpoint ==
    ASSUME NEW i \in 1 .. 25, Contract[i].path = "/api/public/feed"
    PROVE  i = 23
  <1>1. ASSUME NEW path, NEW args, NEW answer
        PROVE  Reads(path, args, answer).path = path
    BY DEF Reads, Endpoint
  <1>2. ASSUME NEW method, NEW path, NEW args, NEW bodies, NEW answer
        PROVE  /\ Endpoint(method, path, args, bodies, answer).path = path
               /\ Keyed(Endpoint(method, path, args, bodies, answer)).path = path
    BY DEF Keyed, Endpoint
  <1>3. /\ HealthCheckContract.path = "/api/healthz"
        /\ ReadinessCheckContract.path = "/api/readiness"
        /\ ListBrandsContract.path = "/api/brands"
        /\ ListReportTemplatesContract.path = "/api/reports/templates"
        /\ ListReportRunsContract.path = "/api/reports/runs"
        /\ ListAgentSessionsContract.path = "/api/agents/sessions"
        /\ StreamEventsContract.path = "/api/events"
    BY <1>1 DEF HealthCheckContract, ReadinessCheckContract, ListBrandsContract,
       ListReportTemplatesContract, ListReportRunsContract, ListAgentSessionsContract,
       StreamEventsContract
  <1>4. /\ GetBrandStatsContract.path = "/api/brands/{}/stats/{}"
        /\ GetCriticalSignalsContract.path = "/api/signals/critical"
        /\ ListRoutesContract.path = "/api/routes"
        /\ GetLlmTelemetryContract.path = "/api/telemetry/llm"
        /\ GetEvaluationSummaryContract.path = "/api/evaluations/summary"
    BY <1>1 DEF GetBrandStatsContract, GetCriticalSignalsContract, ListRoutesContract,
       GetLlmTelemetryContract, GetEvaluationSummaryContract
  <1>5. /\ GetSignalContract.path = "/api/signals/{}"
        /\ ListPatternsContract.path = "/api/patterns"
        /\ GetPatternContract.path = "/api/patterns/{}"
        /\ ListSourceHealthContract.path = "/api/source-health"
    BY <1>1 DEF GetSignalContract, ListPatternsContract, GetPatternContract,
       ListSourceHealthContract
  <1>6. ListSignalsContract.path = "/api/signals"
    BY <1>1 DEF ListSignalsContract
  <1>7. /\ RerouteSignalContract.path = "/api/routes/{}/reroute"
        /\ SubmitFeedbackContract.path = "/api/routes/{}/feedback"
        /\ StartSourceSyncContract.path = "/api/workflows/source-sync"
    <2>1. RerouteSignalContract.path = "/api/routes/{}/reroute"
      BY DEF RerouteSignalContract, Endpoint, Keyed
    <2>2. SubmitFeedbackContract.path = "/api/routes/{}/feedback"
      BY DEF SubmitFeedbackContract, Endpoint
    <2>3. StartSourceSyncContract.path = "/api/workflows/source-sync"
      BY DEF StartSourceSyncContract, Endpoint
    <2> QED BY <2>1, <2>2, <2>3
  <1>8. /\ StartListeningProfileSetupContract.path = "/api/listening-profiles/setup"
        /\ DecideListeningProfileSuggestionContract.path =
              "/api/listening-profiles/suggestions/{}"
    <2>1. StartListeningProfileSetupContract.path = "/api/listening-profiles/setup"
      BY DEF StartListeningProfileSetupContract, Endpoint
    <2>2. DecideListeningProfileSuggestionContract.path = "/api/listening-profiles/suggestions/{}"
      BY DEF DecideListeningProfileSuggestionContract, Endpoint
    <2> QED BY <2>1, <2>2
  <1>9. /\ StartReportGenerationContract.path = "/api/reports/runs"
        /\ ModeratePublicFeedItemContract.path = "/api/public/feed/items/{}/moderation"
    <2>1. StartReportGenerationContract.path = "/api/reports/runs"
      BY DEF StartReportGenerationContract, Endpoint
    <2>2. ModeratePublicFeedItemContract.path = "/api/public/feed/items/{}/moderation"
      BY DEF ModeratePublicFeedItemContract, Endpoint
    <2> QED BY <2>1, <2>2
  <1>10. ASSUME i # 23
         PROVE  Contract[i].path # "/api/public/feed"
    <2>1. CASE i \in {1, 2, 3, 19, 20, 22, 25}
      BY <1>3, <2>1, ContractHas
    <2>2. CASE i \in {4, 6, 8, 17, 18, 7, 11, 12, 16, 5}
      BY <1>4, <1>5, <1>6, <2>2, ContractHas
    <2>3. CASE i \in {9, 10, 13, 14, 15, 21, 24}
      BY <1>7, <1>8, <1>9, <2>3, ContractHas
    <2> QED BY <1>10, <2>1, <2>2, <2>3
  <1> QED BY <1>10

LEMMA FeedWithinLimit ==
    ASSUME NEW b \in Brands, NEW n \in Int
    PROVE  MeetsContract(GetPublicBrandFeed(b, n)) <=> n \in 1 .. 50
  <1> DEFINE q == GetPublicBrandFeed(b, n)
             known == Brands \X (1 .. 50)
  <1>1. q = Get("/api/public/feed", <<b, n>>)
    BY DEF GetPublicBrandFeed
  <1>2. Contract[23] = Reads("/api/public/feed", known, "object")
    BY ContractHas DEF GetPublicBrandFeedContract
  <1>3. <<b, n>> \in known <=> n \in 1 .. 50
    OBVIOUS
  <1>4. q.path = "/api/public/feed" /\ q.args = <<b, n>>
    BY <1>1 DEF Get, Request
  <1> HIDE DEF q, known
  <1>5. ASSUME n \in 1 .. 50
        PROVE  MeetsContract(q)
    <2>1. Accepts(Contract[23], q)
      BY <1>1, <1>2, <1>3, <1>5, AcceptedRead
    <2> QED BY <2>1, OneAccepts
  <1>6. ASSUME MeetsContract(q)
        PROVE  n \in 1 .. 50
    <2>1. PICK i \in 1 .. 25 : Accepts(Contract[i], q)
      BY <1>6, ContractHas DEF MeetsContract
    <2>2. i = 23
      BY <1>4, <2>1, FeedHasOneEndpoint DEF Accepts
    <2>3. Contract[23].args = known
      BY <1>2 DEF Reads, Endpoint
    <2>4. <<b, n>> \in known
      BY <1>4, <2>1, <2>2, <2>3 DEF Accepts
    <2> QED BY <1>3, <2>4
  <1> QED BY <1>5, <1>6 DEF q

(* api.ts against api-zod: whatever brand, period, filter, limit, route,     *)
(* pattern, owner, judgement, names or suggestion its caller gives, the      *)
(* generated client sends no request that the API's schemas refuse, but for   *)
(* one: a limit of the public feed is any number to the client and 1 to 50   *)
(* to the schema.                                                            *)
THEOREM ClientMeetsContract ==
    /\ \A request \in QueryRequests \cup CommandRequests : MeetsContract(request)
    /\ \A b \in Brands, n \in Int : MeetsContract(GetPublicBrandFeed(b, n)) <=> n \in 1 .. 50
  BY QueriesMeetContract, CommandsMeetContract, FeedWithinLimit

-----------------------------------------------------------------------------
(* The server *)

LEMMA InitServer == Init => InitLog
  BY DEF Init

LEMMA StepServer ==
    ASSUME Next
    PROVE  [\E s \in Slots : HandoffStep(s)]_<<log, req, clock>>
  <1>1. WebSlots \subseteq Slots /\ OtherSlots \subseteq Slots
    BY WebAssumption
  <1>2. CASE \/ \E b \in Brands : ChooseBrand(b)
             \/ \E label \in Labels : ChoosePeriod(label)
             \/ \E pane \in Panes : ChoosePane(pane)
             \/ \E f \in Filters : ChooseFilter(f)
             \/ TogglePattern
             \/ \E page \in Pages : Go(page)
    BY <1>2 DEF ChooseBrand, ChoosePeriod, ChoosePane, ChooseFilter, TogglePattern, Go, Turn, server
  <1>3. CASE \E r \in Routes, o \in Owners : RerouteRow(r, o)
    BY <1>1, <1>3 DEF RerouteRow, HandoffStep, Submit
  <1>4. CASE \E r \in Routes, mark \in Marks : MarkRoute(r, mark)
    BY <1>1, <1>4 DEF MarkRoute, HandoffStep, Submit
  <1>5. CASE ServerActs
    BY <1>1, <1>5 DEF ServerActs, HandoffStep, Submit
  <1>6. CASE \E k \in Keys : FetchEnds(k)
    BY <1>6 DEF FetchEnds, FetchArrives, FetchFails, server
  <1>7. CASE \E s \in WebSlots : CommandSucceeds(s) \/ CommandFails(s)
    BY <1>1, <1>7 DEF CommandSucceeds, CommandFails, HandoffStep
  <1> QED BY <1>2, <1>3, <1>4, <1>5, <1>6, <1>7 DEF Next, UserActs

(* The application and the other callers are callers of RouteHandoffs: what  *)
(* is proved of the server's log holds behind the web application.           *)
THEOREM WebClientIsACaller == Spec => HandoffSpec
  <1>1. [Next]_vars => [\E s \in Slots : HandoffStep(s)]_<<log, req, clock>>
    BY StepServer DEF vars
  <1> QED BY <1>1, InitServer, PTL DEF Spec, HandoffSpec

(* Behind the application and the other callers, whatever they click, lose   *)
(* and fetch: what was accepted is recorded, once; the owners are those of   *)
(* the abstract ownership; every origin held its route; and what a page was   *)
(* shown of a moment of the log stays true of it, however late it arrives.   *)
THEOREM ServerPromisesHold ==
    Spec => /\ []AcceptedCommandIsRecorded /\ []HandoffChain
            /\ ImplementsOwnership /\ HistoryIsStable
  BY WebClientIsACaller, AcceptedCommandsAreRecorded, HandoffsNameAnOwnerOfTheirTime,
     HandoffsImplementOwnership, HistoryStable

(* The bookkeeping of RouteHandoffs' proofs, with the application as caller. *)
LEMMA ServerInvariant == Spec => []IInv
  BY WebClientIsACaller, HandoffInductive, PTL

-----------------------------------------------------------------------------
(* Keys and requests *)

ViewType == [page : Pages, brand : Brands \cup {None}, period : Labels, filter : Filters,
             pane : Panes, expanded : Patterns \cup {None}]

(* What a key says of the request its data answers.                          *)
KeyRequest(k) ==
    CASE k[1] = "/api/brands" -> ListBrands
      [] k[1] = "brand-stats" -> GetBrandStats(k[2], ApiPeriod(k[3]))
      [] k[1] = "dashboard-signals" ->
             ListSignals(k[2], FilterParams(AllFilters), ApiPeriod(k[3]), 100)
      [] k[1] \in {"dashboard-patterns", "patterns"} -> ListPatterns(k[2])
      [] k[1] = "signals" ->
             ListSignals(k[2], [source |-> FilterParam(k[3]), area |-> FilterParam(k[4]),
                                severity |-> FilterParam(k[5]),
                                sentiment |-> FilterParam(k[6])], "qtd", 100)
      [] k[1] = "routes" -> ListRoutes(k[2], "qtd", 100)
      [] k[1] = "pattern" -> GetPattern(k[2])

LEMMA QueryFields ==
    ASSUME NEW k, NEW request
    PROVE  Query(k, request).key = k /\ Query(k, request).request = request
  BY DEF Query

LEMMA BrandsKey == BrandsQuery.key = <<"/api/brands">> /\ BrandsQuery.request = ListBrands
  <1>1. BrandsQuery = Query(DefaultKey(ListBrands), ListBrands)
    BY DEF BrandsQuery, DefaultQuery
  <1>2. ListBrands.path = "/api/brands" /\ ListBrands.args = <<>>
    BY DEF ListBrands, Get, Request
  <1>3. <<"/api/brands">> \o <<>> = <<"/api/brands">>
    OBVIOUS
  <1>4. DefaultKey(ListBrands) = <<"/api/brands">>
    BY <1>2, <1>3 DEF DefaultKey
  <1> QED BY <1>1, <1>4, QueryFields

LEMMA DashboardKeys ==
    ASSUME NEW b, NEW l, NEW q \in DashboardQueries(b, l)
    PROVE  \/ q.key = <<"brand-stats", b, l>> /\ q.request = GetBrandStats(b, ApiPeriod(l))
           \/ /\ q.key = <<"dashboard-signals", b, l>>
              /\ q.request = ListSignals(b, FilterParams(AllFilters), ApiPeriod(l), 100)
           \/ q.key = <<"dashboard-patterns", b>> /\ q.request = ListPatterns(b)
  BY QueryFields DEF DashboardQueries

LEMMA PageKeys ==
    /\ \A b, f : /\ SignalsQuery(b, f).key =
                       <<"signals", b, f.source, f.area, f.severity, f.sentiment>>
                 /\ SignalsQuery(b, f).request = ListSignals(b, FilterParams(f), "qtd", 100)
    /\ \A b : /\ RoutesQuery(b).key = <<"routes", b>>
              /\ RoutesQuery(b).request = ListRoutes(b, "qtd", 100)
    /\ \A b : PatternsQuery(b).key = <<"patterns", b>> /\ PatternsQuery(b).request = ListPatterns(b)
    /\ \A p : PatternQuery(p).key = <<"pattern", p>> /\ PatternQuery(p).request = GetPattern(p)
  BY QueryFields DEF SignalsQuery, RoutesQuery, PatternsQuery, PatternQuery

(* The six shapes of a query of the pages.                                   *)
LEMMA QueryShapes ==
    ASSUME NEW q \in WrittenQueries
    PROVE  \/ q.key = <<"/api/brands">> /\ q.request = ListBrands
           \/ \E b \in Brands, l \in Labels :
                 \/ q.key = <<"brand-stats", b, l>> /\ q.request = GetBrandStats(b, ApiPeriod(l))
                 \/ /\ q.key = <<"dashboard-signals", b, l>>
                    /\ q.request = ListSignals(b, FilterParams(AllFilters), ApiPeriod(l), 100)
                 \/ q.key = <<"dashboard-patterns", b>> /\ q.request = ListPatterns(b)
           \/ \E b \in Brands, f \in Filters :
                 /\ q.key = <<"signals", b, f.source, f.area, f.severity, f.sentiment>>
                 /\ q.request = ListSignals(b, FilterParams(f), "qtd", 100)
           \/ \E b \in Brands : q.key = <<"routes", b>> /\ q.request = ListRoutes(b, "qtd", 100)
           \/ \E b \in Brands : q.key = <<"patterns", b>> /\ q.request = ListPatterns(b)
           \/ \E p \in Patterns : q.key = <<"pattern", p>> /\ q.request = GetPattern(p)
  <1>1. CASE q = BrandsQuery
    BY <1>1, BrandsKey
  <1>2. CASE \E b \in Brands, l \in Labels : q \in DashboardQueries(b, l)
    BY <1>2, DashboardKeys
  <1>3. CASE \E b \in Brands, f \in Filters : q = SignalsQuery(b, f)
    BY <1>3, PageKeys
  <1>4. CASE \E b \in Brands : q = RoutesQuery(b)
    BY <1>4, PageKeys
  <1>5. CASE \E b \in Brands : q = PatternsQuery(b)
    BY <1>5, PageKeys
  <1>6. CASE \E p \in Patterns : q = PatternQuery(p)
    BY <1>6, PageKeys
  <1>7. \/ q = BrandsQuery
        \/ \E b \in Brands, l \in Labels : q \in DashboardQueries(b, l)
        \/ \E b \in Brands, f \in Filters : q = SignalsQuery(b, f)
        \/ \E b \in Brands : q = RoutesQuery(b)
        \/ \E b \in Brands : q = PatternsQuery(b)
        \/ \E p \in Patterns : q = PatternQuery(p)
    BY DEF WrittenQueries
  <1> QED BY <1>1, <1>2, <1>3, <1>4, <1>5, <1>6, <1>7

LEMMA Periodic == \A l \in Labels : ApiPeriod(l) \in Periods
  BY ClientAssumption DEF ApiPeriod, Periods

(* What the proofs use of a key: the request is a function of it, which the  *)
(* API answers by an array where the pages call an array method.             *)
LEMMA KeyFacts ==
    ASSUME NEW q \in WrittenQueries
    PROVE  /\ q.request = KeyRequest(q.key)
           /\ q.request \in QueryRequests
           /\ Mapped(q.key) => AnswersArray(q.request)
           /\ q.key[1] \in {"/api/brands", "brand-stats", "dashboard-signals",
                            "dashboard-patterns", "signals", "routes", "patterns", "pattern"}
  <1>1. CASE q.key = <<"/api/brands">> /\ q.request = ListBrands
    <2>1. q.key[1] = "/api/brands"
      BY <1>1
    <2>2. q.request = KeyRequest(q.key)
      BY <1>1, <2>1 DEF KeyRequest
    <2>3. AnswersArray(ListBrands)
      <3>1. Accepts(Contract[3], ListBrands) /\ Contract[3].answer = "array"
        BY ContractHas, AcceptedRead DEF ListBrands, ListBrandsContract, Reads, Endpoint
      <3> QED BY <3>1, ContractHas DEF AnswersArray
    <2> QED BY <1>1, <2>1, <2>2, <2>3 DEF QueryRequests
  <1>2. ASSUME NEW b \in Brands, q.request = ListPatterns(b),
               q.key = <<"dashboard-patterns", b>> \/ q.key = <<"patterns", b>>
        PROVE  /\ q.request = KeyRequest(q.key) /\ q.request \in QueryRequests
               /\ AnswersArray(q.request) /\ q.key[1] \in {"dashboard-patterns", "patterns"}
    <2>1. q.key[1] \in {"dashboard-patterns", "patterns"} /\ q.key[2] = b
      BY <1>2
    <2>2. q.request = KeyRequest(q.key)
      BY <1>2, <2>1 DEF KeyRequest
    <2>3. AnswersArray(ListPatterns(b))
      <3>1. <<b>> \in {<<x>> : x \in Left(Brands)}
        BY DEF Left
      <3>2. Accepts(Contract[11], ListPatterns(b))
        BY <3>1, ContractHas, AcceptedRead DEF ListPatterns, ListPatternsContract
      <3>3. Contract[11].answer = "array"
        BY ContractHas DEF ListPatternsContract, Reads, Endpoint
      <3> QED BY <3>2, <3>3, ContractHas DEF AnswersArray
    <2>4. ListPatterns(b) \in QueryRequests
      BY DEF QueryRequests
    <2> QED BY <1>2, <2>1, <2>2, <2>3, <2>4
  <1>3. ASSUME NEW b \in Brands, q.request = ListRoutes(b, "qtd", 100), q.key = <<"routes", b>>
        PROVE  /\ q.request = KeyRequest(q.key) /\ q.request \in QueryRequests
               /\ AnswersArray(q.request) /\ q.key[1] = "routes"
    <2>1. q.key[1] = "routes" /\ q.key[2] = b
      BY <1>3
    <2>2. q.request = KeyRequest(q.key)
      BY <1>3, <2>1 DEF KeyRequest
    <2>3. AnswersArray(ListRoutes(b, "qtd", 100))
      <3>1. <<b, "qtd", 100>> \in Left(Brands) \X Left(Periods) \X Int
        BY DEF Left, Periods
      <3>2. Accepts(Contract[8], ListRoutes(b, "qtd", 100))
        BY <3>1, ContractHas, AcceptedRead DEF ListRoutes, ListRoutesContract
      <3>3. Contract[8].answer = "array"
        BY ContractHas DEF ListRoutesContract, Reads, Endpoint
      <3> QED BY <3>2, <3>3, ContractHas DEF AnswersArray
    <2>4. ListRoutes(b, "qtd", 100) \in QueryRequests
      <3>1. \A p \in Periods, n \in Int : ListRoutes(b, p, n) \in QueryRequests
        BY DEF QueryRequests
      <3> QED BY <3>1 DEF Periods
    <2> QED BY <1>3, <2>1, <2>2, <2>3, <2>4
  <1>4. ASSUME NEW b \in Brands, NEW l \in Labels, q.key = <<"brand-stats", b, l>>,
               q.request = GetBrandStats(b, ApiPeriod(l))
        PROVE  /\ q.request = KeyRequest(q.key) /\ q.request \in QueryRequests
               /\ q.key[1] = "brand-stats"
    <2>1. q.key[1] = "brand-stats" /\ q.key[2] = b /\ q.key[3] = l
      BY <1>4
    <2>2. q.request = KeyRequest(q.key)
      BY <1>4, <2>1 DEF KeyRequest
    <2>3. \A p \in Periods : GetBrandStats(b, p) \in QueryRequests
      BY DEF QueryRequests
    <2> QED BY <1>4, <2>1, <2>2, <2>3, Periodic
  <1>5. ASSUME NEW b \in Brands, NEW l \in Labels, q.key = <<"dashboard-signals", b, l>>,
               q.request = ListSignals(b, FilterParams(AllFilters), ApiPeriod(l), 100)
        PROVE  /\ q.request = KeyRequest(q.key) /\ q.request \in QueryRequests
               /\ q.key[1] = "dashboard-signals"
    <2>1. q.key[1] = "dashboard-signals" /\ q.key[2] = b /\ q.key[3] = l
      BY <1>5
    <2>2. q.request = KeyRequest(q.key)
      BY <1>5, <2>1 DEF KeyRequest
    <2>3. AllFilters \in Filters
      BY WebAssumption
    <2>4. \A f \in Filters, p \in Periods : ListSignals(b, FilterParams(f), p, 100) \in QueryRequests
      BY DEF QueryRequests
    <2> QED BY <1>5, <2>1, <2>2, <2>3, <2>4, Periodic
  <1>6. ASSUME NEW b \in Brands, NEW f \in Filters,
               q.key = <<"signals", b, f.source, f.area, f.severity, f.sentiment>>,
               q.request = ListSignals(b, FilterParams(f), "qtd", 100)
        PROVE  /\ q.request = KeyRequest(q.key) /\ q.request \in QueryRequests
               /\ q.key[1] = "signals"
    <2>1. /\ q.key[1] = "signals" /\ q.key[2] = b /\ q.key[3] = f.source /\ q.key[4] = f.area
          /\ q.key[5] = f.severity /\ q.key[6] = f.sentiment
      BY <1>6
    <2>2. KeyRequest(q.key) =
             ListSignals(q.key[2], [source |-> FilterParam(q.key[3]),
                                    area |-> FilterParam(q.key[4]),
                                    severity |-> FilterParam(q.key[5]),
                                    sentiment |-> FilterParam(q.key[6])], "qtd", 100)
      BY <2>1 DEF KeyRequest
    <2>3. q.request = KeyRequest(q.key)
      BY <1>6, <2>1, <2>2 DEF FilterParams
    <2>4. \A p \in Periods : ListSignals(b, FilterParams(f), p, 100) \in QueryRequests
      BY DEF QueryRequests
    <2> QED BY <1>6, <2>1, <2>3, <2>4 DEF Periods
  <1>7. ASSUME NEW p \in Patterns, q.key = <<"pattern", p>>, q.request = GetPattern(p)
        PROVE  /\ q.request = KeyRequest(q.key) /\ q.request \in QueryRequests
               /\ q.key[1] = "pattern"
    <2>1. q.key[1] = "pattern" /\ q.key[2] = p
      BY <1>7
    <2>2. q.request = KeyRequest(q.key)
      BY <1>7, <2>1 DEF KeyRequest
    <2>3. GetPattern(p) \in QueryRequests
      BY DEF QueryRequests
    <2> QED BY <1>7, <2>1, <2>2, <2>3
  <1>8. q.key[1] \in {"brand-stats", "dashboard-signals", "signals", "pattern"} => ~Mapped(q.key)
    BY DEF Mapped
  <1> QED BY QueryShapes, <1>1, <1>2, <1>3, <1>4, <1>5, <1>6, <1>7, <1>8

LEMMA KeysRequest ==
    ASSUME NEW k \in Keys
    PROVE  /\ KeyRequest(k) \in PageRequests /\ KeyRequest(k) # None
           /\ MeetsContract(KeyRequest(k))
           /\ Mapped(k) => AnswersArray(KeyRequest(k))
  <1>1. PICK q \in WrittenQueries : k = q.key
    BY DEF Keys
  <1>2. q.request \in PageRequests
    BY DEF PageRequests
  <1> QED BY <1>1, <1>2, KeyFacts, QueriesMeetContract, RequestsAssumption

(* Every answer has what the views use of it without a default.              *)
LEMMA Pathed ==
    ASSUME NEW name, NEW type, NEW path \in type
    PROVE  <<name>> \o path \in Answers!Of(name, type)
  BY DEF Answers!Of

LEMMA AnswersRender == \A k \in Keys : AnswerRenders[k] = TRUE
  <1>1. ASSUME NEW a, NEW b
        PROVE  <<a>> \o <<b>> = <<a, b>>
    <2>1. <<a>> \o <<b>> \in Seq({a, b}) /\ Len(<<a>> \o <<b>>) = 2
      OBVIOUS
    <2>2. (<<a>> \o <<b>>)[1] = a /\ (<<a>> \o <<b>>)[2] = b
      OBVIOUS
    <2>3. ASSUME NEW s \in Seq({a, b}), Len(s) = 2, s[1] = a, s[2] = b
          PROVE  s = <<a, b>>
      BY <2>3
    <2> QED BY <2>1, <2>2, <2>3
  <1>2. Answers!Renders(Answers!ToBrandView, Answers!Brand)
    <2>1. /\ <<"sourcesActive">> \in Answers!Brand /\ <<"ownerOptions", "owner">> \in Answers!Brand
      <3>1. <<"owner">> \in Answers!OwnerOption
        BY DEF Answers!OwnerOption, Answers!Fields
      <3>2. <<"ownerOptions">> \o <<"owner">> \in Answers!Of("ownerOptions", Answers!OwnerOption)
        BY <3>1, Pathed
      <3>3. <<"ownerOptions", "owner">> \in Answers!Brand
        BY <1>1, <3>2 DEF Answers!Brand
      <3>4. <<"sourcesActive">> \in Answers!Brand
        BY DEF Answers!Brand, Answers!Fields
      <3> QED BY <3>3, <3>4
    <2> QED BY <2>1 DEF Answers!Renders, Answers!ToBrandView, Answers!Uses
  <1>3. Answers!Renders(Answers!ToPatternView, Answers!Pattern)
    BY DEF Answers!Renders, Answers!ToPatternView, Answers!Pattern, Answers!Uses, Answers!Fields
  <1>4. Answers!Renders(Answers!RouteAuditToSignalView, Answers!RouteAudit)
    BY DEF Answers!Renders, Answers!RouteAuditToSignalView, Answers!RouteAudit, Answers!Uses,
           Answers!FormatSource, Answers!Fields
  <1>5. Answers!Renders(Answers!Dashboard, Answers!BrandStats)
    <2>1. <<"source">> \in Answers!SourceStat
      BY DEF Answers!SourceStat, Answers!Fields
    <2>2. <<"sourceMix">> \o <<"source">> \in Answers!Of("sourceMix", Answers!SourceStat)
      BY <2>1, Pathed
    <2>3. <<"sourceMix", "source">> \in Answers!BrandStats
      BY <1>1, <2>2 DEF Answers!BrandStats, Answers!Object
    <2> QED BY <2>3 DEF Answers!Renders, Answers!Dashboard, Answers!Uses
  <1>6. ASSUME NEW use \in Answers!ToSignalView \cup Answers!SignalRow
        PROVE  use \cap Answers!SignalDetail # {}
    <2>1. /\ <<"signal">> \in Answers!SignalDetail /\ <<"classification">> \in Answers!SignalDetail
          /\ <<"route">> \in Answers!SignalDetail
      BY DEF Answers!SignalDetail, Answers!Object
    <2>2. <<"signal", "source">> \in Answers!SignalDetail
      <3>1. <<"source">> \in Answers!Signal
        BY DEF Answers!Signal, Answers!Fields
      <3>2. <<"signal">> \o <<"source">> \in Answers!Of("signal", Answers!Signal)
        BY <3>1, Pathed
      <3> QED BY <1>1, <3>2 DEF Answers!SignalDetail, Answers!Object
    <2>3. \A f \in {"severity", "sentiment", "actionClass", "confidence"} :
             <<"classification", f>> \in Answers!SignalDetail
      <3>1. ASSUME NEW f \in {"severity", "sentiment", "actionClass", "confidence"}
            PROVE  <<f>> \in Answers!Classification
        BY DEF Answers!Classification, Answers!Fields
      <3>2. ASSUME NEW f \in {"severity", "sentiment", "actionClass", "confidence"}
            PROVE  <<"classification">> \o <<f>> \in Answers!Of("classification", Answers!Classification)
        BY <3>1, Pathed
      <3> QED BY <1>1, <3>2 DEF Answers!SignalDetail, Answers!Object
    <2>4. CASE use \in Answers!ToSignalView
      BY <2>1, <2>2, <2>4 DEF Answers!ToSignalView, Answers!Uses, Answers!FormatSource,
         Answers!FormatReach
    <2>5. CASE use \in Answers!SignalRow
      BY <2>3, <2>5 DEF Answers!SignalRow, Answers!Uses
    <2> QED BY <2>4, <2>5
  <1>7. ASSUME NEW use \in Answers!SignalsOf
        PROVE  use \cap Answers!Of("signals", Answers!SignalDetail) # {}
    <2>1. PICK paths \in Answers!ToSignalView \cup Answers!SignalRow :
              use = Answers!Of("signals", paths)
      BY DEF Answers!SignalsOf, Answers!Within
    <2>2. PICK path \in paths : path \in Answers!SignalDetail
      BY <1>6
    <2> QED BY <2>1, <2>2, Pathed
  <1>8. /\ Answers!Renders(Answers!SignalsOf, Answers!SignalList)
        /\ Answers!Renders(Answers!SignalsOf, Answers!PatternDetail)
    BY <1>7 DEF Answers!Renders, Answers!SignalList, Answers!PatternDetail, Answers!Object
  <1>9. ASSUME NEW k \in Keys
        PROVE  AnswerRenders[k] = TRUE
    <2>1. PICK q \in WrittenQueries : k = q.key
      BY DEF Keys
    <2>2. k[1] \in {"/api/brands", "brand-stats", "dashboard-signals",
                    "dashboard-patterns", "signals", "routes", "patterns", "pattern"}
      BY <2>1, KeyFacts
    <2> QED BY <1>2, <1>3, <1>4, <1>5, <1>8, <2>2 DEF AnswerRenders
  <1> QED BY <1>9

-----------------------------------------------------------------------------
(* The invariant *)

(* An entry of the cache answers, or asks for, the request of its key, as of *)
(* a moment of the log.                                                      *)
EntryOK(k, e, n) ==
    /\ e \in EntryType
    /\ e.request \in {None, KeyRequest(k)} /\ e.fetching \in {None, KeyRequest(k)}
    /\ e.kind # "none" => e.request = KeyRequest(k)
    /\ e.upTo <= n

CacheInv == /\ cache \in [Keys -> EntryType]
            /\ \A k \in Keys : EntryOK(k, cache[k], Len(log))

(* A page throws only on what is no answer, and nothing is left then that    *)
(* could change.                                                             *)
CrashInv == /\ crashed \in BOOLEAN
            /\ crashed => /\ \E k \in Keys : cache[k].kind \in {"text", "blob"}
                          /\ \A k \in Keys : cache[k].fetching = None
                          /\ \A r \in Routes : rows[r] = NoRow

(* What an entry shows or will show has at least n rows of the log.          *)
Abreast(e, n) == /\ e.fetching = None /\ ~e.error /\ e.kind = "json" => e.upTo >= n
                 /\ e.fetching # None => e.since >= n

(* ... those of every command of the application, but the ones in gone.      *)
UpToDate(k, e, gone) ==
    \A s \in WebSlots : ReadsLog(k) /\ req[s].phase = "acked" /\ s \notin gone
                        => Abreast(e, req[s].index)

MissedInv == /\ missed \in [Keys -> SUBSET WebSlots]
             /\ ~crashed => \A k \in ObservedKeys(view, cache) :
                                UpToDate(k, cache[k], missed[k])

RowType == [mounted : BOOLEAN, shown : Owners \cup {None}, base : Owners \cup {None},
            slot : WebSlots \cup {None}, failed : BOOLEAN]

(* A row that has asked shows what it asked for, until its data changes.     *)
Asking(r, row) ==
    \/ row.shown = row.base
    \/ /\ req[row.slot].phase # "free" /\ IsReroute(row.slot)
       /\ RouteOf(row.slot) = r /\ Asked(row.slot) = row.shown

(* A row that has not, and shows another owner than its data, shows that of  *)
(* a handoff of the application, which the fetch under way will answer, or   *)
(* which its data already shows undone.                                      *)
Overtaken(r, i, n) == /\ i \in Events("handoff", r, n)
                      /\ \E j \in Events("handoff", r, n) : log[i].at < log[j].at

Settling(r, row, e) ==
    \/ row.shown = row.base
    \/ \E i \in 1 .. Len(log) :
          /\ log[i].kind = "handoff" /\ log[i].route = r
          /\ log[i].slot \in WebSlots /\ log[i].to = row.shown
          /\ e.fetching # None => i <= e.since
          /\ e.fetching = None /\ ~e.error => Overtaken(r, i, e.upTo)

RowEntry(v, c) == c[RowsKey(v, ActiveBrand(v, c))]

RowOK(r, row, v, c) ==
    row.mounted =>
       /\ v.page # "memory" /\ r \in RoutesInView(v, c)
       /\ row.base = Owner(r, RowsUpTo(v, c))
       /\ row.slot # None => Asking(r, row)
       /\ row.slot = None => Settling(r, row, RowEntry(v, c))

RowsInv == /\ rows \in [Routes -> RowType]
           /\ \A r \in Routes : RowOK(r, rows[r], view, cache)

(* No request has a key, so each is recorded by a row of its own.            *)
OwnRows == \A s \in Slots :
              /\ req[s].phase # "free" => req[s].request.key = NoKey
              /\ req[s].phase \in {"recorded", "acked"} =>
                    /\ log[req[s].index].slot = s
                    /\ IsReroute(s) => log[req[s].index].kind = "handoff"

MarksInv == marks \in [Routes -> Marks \cup {None}]

WebInv == /\ OwnRows
          /\ view \in ViewType /\ CacheInv /\ CrashInv /\ MissedInv /\ RowsInv /\ MarksInv

-----------------------------------------------------------------------------
(* Entries *)

LEMMA LogReads ==
    ASSUME IInv, NEW k
    PROVE  /\ Len(log) \in Nat /\ LogRead(k) \in Nat /\ LogRead(k) <= Len(log)
           /\ ReadsLog(k) => LogRead(k) = Len(log)
  BY LogTyped DEF IInv, LogRead

LEMMA FetchTyped ==
    ASSUME IInv, NEW k, NEW e \in EntryType, NEW request \in PageRequests
    PROVE  Fetch(e, k, request) \in EntryType
  <1>1. LogRead(k) \in Nat
    BY LogReads
  <1> QED BY <1>1 DEF Fetch, EntryType

LEMMA DroppedFields ==
    ASSUME NEW e \in EntryType
    PROVE  /\ Dropped(e) \in EntryType
           /\ Dropped(e).kind = e.kind /\ Dropped(e).request = e.request
           /\ Dropped(e).upTo = e.upTo /\ Dropped(e).fetching = None
           /\ Failed(e) \in EntryType
           /\ Failed(e).kind = e.kind /\ Failed(e).request = e.request
           /\ Failed(e).upTo = e.upTo /\ Failed(e).fetching = None /\ Failed(e).error = TRUE
  BY DEF Dropped, Failed, EntryType

LEMMA AnsweredTyped ==
    ASSUME NEW e \in EntryType, NEW kind \in {"json", "text", "blob", "null"}, NEW n \in Nat
    PROVE  Answered(e, kind, n) \in EntryType
  BY DEF Answered, EntryType

LEMMA AnsweredFields ==
    ASSUME NEW e, NEW kind, NEW n
    PROVE  /\ Answered(e, kind, n).kind = kind /\ Answered(e, kind, n).request = e.fetching
           /\ Answered(e, kind, n).upTo = n /\ Answered(e, kind, n).fetching = None
  BY DEF Answered

LEMMA FetchOK ==
    ASSUME IInv, NEW k \in Keys, NEW n, NEW e, EntryOK(k, e, n)
    PROVE  EntryOK(k, Fetch(e, k, KeyRequest(k)), n)
  <1>1. e \in EntryType /\ KeyRequest(k) \in PageRequests
    BY KeysRequest DEF EntryOK
  <1>2. PICK f : f = Fetch(e, k, KeyRequest(k))
    OBVIOUS
  <1>3. /\ f.kind = e.kind /\ f.request = e.request
        /\ f.upTo = e.upTo /\ f.fetching = KeyRequest(k)
    BY <1>1, <1>2 DEF Fetch, EntryType
  <1>4. f \in EntryType
    BY <1>1, <1>2, FetchTyped
  <1> QED BY <1>2, <1>3, <1>4 DEF EntryOK

LEMMA DroppedOK ==
    ASSUME NEW k, NEW n, NEW e, EntryOK(k, e, n)
    PROVE  EntryOK(k, Dropped(e), n) /\ EntryOK(k, Failed(e), n)
  <1>1. e \in EntryType
    BY DEF EntryOK
  <1> QED BY <1>1, DroppedFields DEF EntryOK

LEMMA AnsweredOK ==
    ASSUME NEW k, NEW n \in Nat, NEW e, EntryOK(k, e, n), e.fetching # None,
           NEW kind \in {"json", "text", "blob", "null"}, NEW i \in 0 .. n
    PROVE  EntryOK(k, Answered(e, kind, i), n)
  <1>1. e \in EntryType /\ e.fetching = KeyRequest(k) /\ i \in Nat /\ i <= n
    BY DEF EntryOK
  <1>2. PICK f : f = Answered(e, kind, i)
    OBVIOUS
  <1>3. f.request = KeyRequest(k) /\ f.upTo <= n /\ f.fetching = None
    BY <1>1, <1>2, AnsweredFields
  <1>4. f \in EntryType
    BY <1>1, <1>2, AnsweredTyped
  <1> QED BY <1>2, <1>3, <1>4 DEF EntryOK

-----------------------------------------------------------------------------
(* What is in view *)

LEMMA ActiveBrands ==
    ASSUME NEW v, NEW c, ActiveBrand(v, c) # Loading
    PROVE  ActiveBrand(v, c) \in Brands /\ c[BrandsQuery.key].kind = "json"
  BY WebAssumption DEF ActiveBrand

LEMMA ObservedAreWritten ==
    ASSUME NEW v \in ViewType, NEW c
    PROVE  Observed(v, c) \subseteq WrittenQueries
  <1>1. BrandsQuery \in WrittenQueries
    BY DEF WrittenQueries
  <1>2. ASSUME NEW b \in Brands, NEW q \in PageQueries(v, b)
        PROVE  q \in WrittenQueries
    <2>1. /\ v.page \in Pages /\ v.period \in Labels /\ v.filter \in Filters
          /\ v.expanded \in Patterns \cup {None}
      BY DEF ViewType
    <2>2. CASE v.page = "dashboard"
      BY <1>2, <2>1, <2>2 DEF PageQueries, WrittenQueries
    <2>3. CASE v.page = "signals"
      <3>1. q = SignalsQuery(b, v.filter)
        BY <1>2, <2>3 DEF PageQueries
      <3>2. \A f \in Filters : SignalsQuery(b, f) \in WrittenQueries
        BY DEF WrittenQueries
      <3> QED BY <2>1, <3>1, <3>2
    <2>4. CASE v.page = "memory"
      <3>1. q = RoutesQuery(b)
        BY <1>2, <2>4 DEF PageQueries
      <3>2. RoutesQuery(b) \in WrittenQueries
        BY DEF WrittenQueries
      <3> QED BY <3>1, <3>2
    <2>5. CASE v.page = "patterns"
      <3>1. q = PatternsQuery(b) \/ (v.expanded # None /\ q = PatternQuery(v.expanded))
        BY <1>2, <2>5 DEF PageQueries
      <3>2. /\ PatternsQuery(b) \in WrittenQueries
            /\ \A p \in Patterns : PatternQuery(p) \in WrittenQueries
        BY DEF WrittenQueries
      <3> QED BY <2>1, <3>1, <3>2
    <2> QED BY <2>1, <2>2, <2>3, <2>4, <2>5 DEF Pages
  <1> QED BY <1>1, <1>2, ActiveBrands DEF Observed

LEMMA ObservedKey ==
    ASSUME NEW v \in ViewType, NEW c, NEW k \in ObservedKeys(v, c)
    PROVE  k \in Keys /\ ObservedRequest(v, c, k) = KeyRequest(k)
  <1>1. PICK q \in Observed(v, c) : q.key = k
    BY DEF ObservedKeys
  <1>2. k \in Keys
    BY <1>1, ObservedAreWritten DEF Keys
  <1>3. \A p \in Observed(v, c) : p.key = k => p.request = KeyRequest(k)
    BY ObservedAreWritten, KeyFacts
  <1> QED BY <1>1, <1>2, <1>3 DEF ObservedRequest

(* The key of the rows' data is that of a query in view.                     *)
LEMMA RowsKeys ==
    ASSUME NEW v \in ViewType, NEW c, ActiveBrand(v, c) # Loading,
           v.page = "patterns" => v.expanded # None
    PROVE  /\ RowsKey(v, ActiveBrand(v, c)) \in ObservedKeys(v, c)
           /\ ReadsLog(RowsKey(v, ActiveBrand(v, c)))
  <1> DEFINE b == ActiveBrand(v, c)
  <1>1. v.page \in Pages
    BY DEF ViewType
  <1>2. PageQueries(v, b) \subseteq Observed(v, c)
    BY DEF Observed
  <1>3. \A q \in PageQueries(v, b) : q.key \in ObservedKeys(v, c)
    BY <1>2 DEF ObservedKeys
  <1> HIDE DEF b
  <1>4. CASE v.page = "dashboard"
    <2> DEFINE q == Query(<<"dashboard-signals", b, v.period>>,
                          ListSignals(b, FilterParams(AllFilters), ApiPeriod(v.period), 100))
    <2>1. q \in PageQueries(v, b)
      BY <1>4 DEF PageQueries, DashboardQueries
    <2>2. q.key = <<"dashboard-signals", b, v.period>>
      BY QueryFields
    <2> HIDE DEF q
    <2>3. RowsKey(v, b) = q.key /\ q.key[1] = "dashboard-signals"
      BY <1>4, <2>2 DEF RowsKey
    <2> QED BY <1>3, <2>1, <2>3 DEF ReadsLog, b
  <1>5. CASE v.page = "signals"
    <2>1. SignalsQuery(b, v.filter) \in PageQueries(v, b)
      BY <1>5 DEF PageQueries
    <2>2. RowsKey(v, b) = SignalsQuery(b, v.filter).key
      BY <1>5 DEF RowsKey
    <2>3. SignalsQuery(b, v.filter).key[1] = "signals"
      BY PageKeys
    <2> QED BY <1>3, <2>1, <2>2, <2>3 DEF ReadsLog, b
  <1>6. CASE v.page = "memory"
    <2>1. RoutesQuery(b) \in PageQueries(v, b)
      BY <1>6 DEF PageQueries
    <2>2. RowsKey(v, b) = RoutesQuery(b).key
      BY <1>6 DEF RowsKey
    <2>3. RoutesQuery(b).key[1] = "routes"
      BY PageKeys
    <2> QED BY <1>3, <2>1, <2>2, <2>3 DEF ReadsLog, b
  <1>7. CASE v.page = "patterns"
    <2>1. PatternQuery(v.expanded) \in PageQueries(v, b)
      BY <1>7 DEF PageQueries
    <2>2. RowsKey(v, b) = PatternQuery(v.expanded).key
      BY <1>7 DEF RowsKey
    <2>3. PatternQuery(v.expanded).key[1] = "pattern"
      BY PageKeys
    <2> QED BY <1>3, <2>1, <2>2, <2>3 DEF ReadsLog, b
  <1> QED BY <1>1, <1>4, <1>5, <1>6, <1>7 DEF Pages

(* While the page stays, a key of its rows that was in view was that of its  *)
(* rows.                                                                     *)
LEMMA RowsKeyStays ==
    ASSUME NEW v \in ViewType, NEW w \in ViewType, v.page = w.page, v.page # "memory",
           NEW c, NEW b, RowsKey(w, b) \in ObservedKeys(v, c)
    PROVE  ActiveBrand(v, c) # Loading /\ RowsKey(w, b) = RowsKey(v, ActiveBrand(v, c))
  <1> DEFINE a == ActiveBrand(v, c)
             k == RowsKey(w, b)
  <1>1. v.page \in Pages
    BY DEF ViewType
  <1>2. k[1] \in {"dashboard-signals", "signals", "pattern"}
    <2>1. CASE w.page = "dashboard"
      BY <2>1 DEF RowsKey
    <2>2. CASE w.page = "signals"
      BY <2>2, PageKeys DEF RowsKey
    <2>3. CASE w.page = "patterns"
      BY <2>3, PageKeys DEF RowsKey
    <2> QED BY <1>1, <2>1, <2>2, <2>3 DEF Pages
  <1>3. BrandsQuery.key[1] = "/api/brands"
    BY BrandsKey
  <1>4. PICK q \in Observed(v, c) : q.key = k
    BY DEF ObservedKeys
  <1>5. q # BrandsQuery
    BY <1>2, <1>3, <1>4
  <1>6. a # Loading /\ q \in PageQueries(v, a)
    BY <1>5 DEF Observed
  <1> HIDE DEF a
  <1>7. CASE v.page = "dashboard"
    <2>1. k = <<"dashboard-signals", b, w.period>>
      BY <1>7 DEF RowsKey
    <2>2. q \in DashboardQueries(a, v.period)
      BY <1>6, <1>7 DEF PageQueries
    <2>3. q.key[1] = "dashboard-signals"
      BY <1>4, <2>1
    <2>4. q.key = <<"dashboard-signals", a, v.period>>
      BY <2>2, <2>3, DashboardKeys
    <2>5. RowsKey(v, a) = <<"dashboard-signals", a, v.period>>
      BY <1>7 DEF RowsKey
    <2> QED BY <1>4, <1>6, <2>4, <2>5 DEF a
  <1>8. CASE v.page = "signals"
    <2>1. q = SignalsQuery(a, v.filter)
      BY <1>6, <1>8 DEF PageQueries
    <2>2. RowsKey(v, a) = SignalsQuery(a, v.filter).key
      BY <1>8 DEF RowsKey
    <2> QED BY <1>4, <1>6, <2>1, <2>2 DEF a
  <1>9. CASE v.page = "patterns"
    <2>1. q = PatternsQuery(a) \/ q = PatternQuery(v.expanded)
      BY <1>6, <1>9 DEF PageQueries
    <2>2. k[1] = "pattern" /\ PatternsQuery(a).key[1] = "patterns"
      BY <1>9, PageKeys DEF RowsKey
    <2>3. q = PatternQuery(v.expanded)
      BY <1>4, <2>1, <2>2
    <2>4. RowsKey(v, a) = PatternQuery(v.expanded).key
      BY <1>9 DEF RowsKey
    <2> QED BY <1>4, <1>6, <2>3, <2>4 DEF a
  <1> QED BY <1>1, <1>7, <1>8, <1>9 DEF Pages

(* What is in view depends on what the answers are, not on what is fetched.  *)
SameData(c, d) == \A k \in Keys : c[k].kind = d[k].kind /\ c[k].upTo = d[k].upTo

LEMMA SameDataSameView ==
    ASSUME NEW v \in ViewType, NEW c, NEW d, SameData(c, d)
    PROVE  /\ ActiveBrand(v, c) = ActiveBrand(v, d)
           /\ ObservedKeys(v, c) = ObservedKeys(v, d)
           /\ HasRows(v, c) = HasRows(v, d)
           /\ RoutesInView(v, c) = RoutesInView(v, d)
           /\ HasRows(v, c) => RowsUpTo(v, c) = RowsUpTo(v, d)
  <1>1. BrandsQuery.key \in Keys
    BY DEF Keys, WrittenQueries
  <1>2. ActiveBrand(v, c) = ActiveBrand(v, d)
    BY <1>1 DEF ActiveBrand, SameData
  <1>3. Observed(v, c) = Observed(v, d)
    BY <1>2 DEF Observed
  <1>4. ObservedKeys(v, c) = ObservedKeys(v, d)
    BY <1>3 DEF ObservedKeys
  <1> DEFINE b == ActiveBrand(v, c)
             shows == b # Loading /\ (v.page = "patterns" => v.expanded # None)
  <1>5. shows => RowsKey(v, b) \in Keys
    BY RowsKeys, ObservedKey
  <1>6. HasRows(v, c) = HasRows(v, d) /\ (HasRows(v, c) => RowsUpTo(v, c) = RowsUpTo(v, d))
    BY <1>2, <1>5 DEF HasRows, RowsUpTo, SameData
  <1>7. ASSUME b \in Brands
        PROVE  PaneShows(v, c, b) = PaneShows(v, d, b)
    <2> DEFINE q == Query(<<"dashboard-patterns", b>>, ListPatterns(b))
    <2>1. "QTD" \in Labels
      BY WebAssumption
    <2>2. q \in DashboardQueries(b, "QTD")
      BY DEF DashboardQueries
    <2>3. q \in WrittenQueries /\ q.key = <<"dashboard-patterns", b>>
      BY <1>7, <2>1, <2>2, QueryFields DEF WrittenQueries
    <2>4. <<"dashboard-patterns", b>> \in Keys
      BY <2>3 DEF Keys
    <2> QED BY <2>4 DEF PaneShows, SameData
  <1>8. HasRows(v, c) => b \in Brands
    BY ActiveBrands DEF HasRows
  <1>9. RoutesInView(v, c) = RoutesInView(v, d)
    <2>1. CASE ~HasRows(v, c)
      BY <1>6, <2>1 DEF RoutesInView
    <2>2. CASE HasRows(v, c)
      <3>1. HasRows(v, d) /\ PaneShows(v, c, b) = PaneShows(v, d, b) /\ b = ActiveBrand(v, d)
        BY <1>2, <1>6, <1>7, <1>8, <2>2
      <3>2. PICK a, panes : a = b /\ panes = PaneShows(v, c, b)
        OBVIOUS
      <3>3. /\ ActiveBrand(v, c) = a /\ ActiveBrand(v, d) = a
            /\ PaneShows(v, c, a) = panes /\ PaneShows(v, d, a) = panes
        BY <3>1, <3>2
      <3>4. v.page \in Pages
        BY DEF ViewType
      <3>5. CASE v.page = "dashboard"
        BY <2>2, <3>1, <3>3, <3>5 DEF RoutesInView
      <3>6. CASE v.page # "dashboard"
        BY <2>2, <3>1, <3>3, <3>6 DEF RoutesInView
      <3> QED BY <3>5, <3>6
    <2> QED BY <2>1, <2>2
  <1> QED BY <1>2, <1>4, <1>6, <1>9

LEMMA ExpandTyped ==
    ASSUME NEW v \in ViewType, NEW c
    PROVE  Expand(v, c) \in ViewType /\ Expand(v, c).page = v.page
  <1>1. PatternsData(v, c)[2] = "json" => ActiveBrand(v, c) \in Brands
    <2>1. ActiveBrand(v, c) = Loading => PatternsData(v, c) = <<Loading, "none">>
      BY DEF PatternsData
    <2>2. ActiveBrand(v, c) = Loading => PatternsData(v, c)[2] = "none"
      BY <2>1
    <2> QED BY <2>2, ActiveBrands
  <1>2. ASSUME NEW p \in Patterns \cup {None}
        PROVE  [v EXCEPT !.expanded = p] \in ViewType /\ [v EXCEPT !.expanded = p].page = v.page
    BY DEF ViewType
  <1>3. (IF PatternsData(v, c)[2] = "json" THEN BrandPattern[ActiveBrand(v, c)] ELSE None)
            \in Patterns \cup {None}
    BY <1>1, WebAssumption
  <1> QED BY <1>2, <1>3 DEF Expand

-----------------------------------------------------------------------------
(* A render *)

(* What a fetch leaves of its entry.                                         *)
Came(k, e, f) ==
    \/ f = e
    \/ /\ e.fetching # None
       /\ \/ \E n \in e.since .. LogRead(k) : f = Answered(e, "json", n)
          \/ \E kind \in {"text", "blob", "null"} : f = Answered(e, kind, 0)
          \/ f = Failed(e)

LEMMA CameOK ==
    ASSUME IInv, NEW k, NEW e, EntryOK(k, e, Len(log)), NEW f, Came(k, e, f)
    PROVE  EntryOK(k, f, Len(log))
  <1>1. e \in EntryType /\ e.since \in Nat
    BY DEF EntryOK, EntryType
  <1>2. /\ Len(log) \in Nat /\ LogRead(k) \in Nat /\ LogRead(k) <= Len(log)
    BY LogReads
  <1>3. CASE f = e
    BY <1>3
  <1>4. CASE e.fetching # None /\ \E n \in e.since .. LogRead(k) : f = Answered(e, "json", n)
    <2>1. PICK n \in e.since .. LogRead(k) : f = Answered(e, "json", n)
      BY <1>4
    <2>2. n \in 0 .. Len(log)
      BY <1>1, <1>2
    <2> QED BY <1>2, <1>4, <2>1, <2>2, AnsweredOK
  <1>5. CASE e.fetching # None /\ \E kind \in {"text", "blob", "null"} : f = Answered(e, kind, 0)
    <2>1. PICK kind \in {"text", "blob", "null"} : f = Answered(e, kind, 0)
      BY <1>5
    <2>2. 0 \in 0 .. Len(log)
      BY <1>2
    <2> QED BY <1>2, <1>5, <2>1, <2>2, AnsweredOK
  <1>6. CASE f = Failed(e)
    BY <1>6, DroppedOK
  <1> QED BY <1>3, <1>4, <1>5, <1>6 DEF Came

LEMMA CameAbreast ==
    ASSUME NEW k, NEW e \in EntryType, NEW f, Came(k, e, f), LogRead(k) \in Nat,
           NEW n \in Nat, Abreast(e, n)
    PROVE  Abreast(f, n)
  <1>1. e.since \in Nat
    BY DEF EntryType
  <1>2. CASE f = e
    BY <1>2
  <1>3. CASE e.fetching # None /\ \E m \in e.since .. LogRead(k) : f = Answered(e, "json", m)
    <2>1. PICK m \in e.since .. LogRead(k) : f = Answered(e, "json", m)
      BY <1>3
    <2>2. f.upTo = m /\ f.fetching = None
      BY <2>1, AnsweredFields
    <2>3. e.since >= n
      BY <1>3 DEF Abreast
    <2>4. m \in Nat /\ m >= n
      BY <1>1, <2>3
    <2> QED BY <2>2, <2>4 DEF Abreast
  <1>4. CASE e.fetching # None /\ \E kind \in {"text", "blob", "null"} : f = Answered(e, kind, 0)
    <2>1. PICK kind \in {"text", "blob", "null"} : f = Answered(e, kind, 0)
      BY <1>4
    <2>2. f.kind = kind /\ f.fetching = None
      BY <2>1, AnsweredFields
    <2>3. f.kind # "json"
      BY <2>2
    <2> QED BY <2>2, <2>3 DEF Abreast
  <1>5. CASE f = Failed(e)
    BY <1>5, DroppedFields DEF Abreast
  <1> QED BY <1>2, <1>3, <1>4, <1>5 DEF Came

LEMMA AckedIndex ==
    ASSUME IInv, NEW s \in WebSlots, req[s].phase \in {"recorded", "acked"}
    PROVE  req[s].index \in Nat /\ req[s].index <= Len(log)
  <1>1. s \in Slots
    BY WebAssumption
  <1>2. req[s].index \in 1 .. Len(log)
    BY <1>1 DEF IInv, CommandHasItsRow
  <1> QED BY <1>2

LEMMA CameUpToDate ==
    ASSUME IInv, NEW k, NEW e \in EntryType, NEW f, Came(k, e, f), NEW gone, UpToDate(k, e, gone)
    PROVE  UpToDate(k, f, gone)
  <1>1. ASSUME NEW s \in WebSlots, ReadsLog(k), req[s].phase = "acked", s \notin gone
        PROVE  Abreast(f, req[s].index)
    <2>1. Abreast(e, req[s].index) /\ req[s].index \in Nat /\ LogRead(k) \in Nat
      BY <1>1, AckedIndex, LogReads DEF UpToDate
    <2> QED BY <2>1, CameAbreast
  <1> QED BY <1>1 DEF UpToDate

LEMMA FetchUpToDate ==
    ASSUME IInv, NEW k, NEW f, f.fetching # None, f.since = LogRead(k), NEW gone
    PROVE  UpToDate(k, f, gone)
  <1>1. ASSUME NEW s \in WebSlots, ReadsLog(k), req[s].phase = "acked"
        PROVE  Abreast(f, req[s].index)
    <2>1. /\ req[s].index \in Nat /\ req[s].index <= Len(log)
          /\ LogRead(k) = Len(log) /\ Len(log) \in Nat
      BY <1>1, AckedIndex, LogReads
    <2> QED BY <2>1 DEF Abreast
  <1> QED BY <1>1 DEF UpToDate

(* Queries that came into view are fetched, those that left are dropped.     *)
LEMMA Follows ==
    ASSUME IInv, NEW w \in ViewType, NEW c \in [Keys -> EntryType],
           NEW d, d = Follow(w, c), \A k \in Keys : EntryOK(k, c[k], Len(log))
    PROVE  /\ d \in [Keys -> EntryType] /\ \A k \in Keys : EntryOK(k, d[k], Len(log))
           /\ SameData(c, d)
           /\ \A k \in ObservedKeys(w, c) :
                 IF k \in ObservedKeys(view, cache) THEN d[k] = c[k]
                 ELSE d[k].fetching = KeyRequest(k) /\ d[k].since = LogRead(k)
  <1> DEFINE before == ObservedKeys(view, cache)
             now == ObservedKeys(w, c)
  <1>1. d = [k \in Keys |-> CASE k \in now \ before -> Fetch(c[k], k, ObservedRequest(w, c, k))
                              [] k \notin now -> Dropped(c[k])
                              [] OTHER -> c[k]]
    BY DEF Follow
  <1>2. \A k \in now : k \in Keys /\ ObservedRequest(w, c, k) = KeyRequest(k)
    BY ObservedKey
  <1> HIDE DEF before, now
  <1>3. ASSUME NEW k \in Keys
        PROVE  /\ k \in now \ before => d[k] = Fetch(c[k], k, KeyRequest(k))
               /\ k \notin now => d[k] = Dropped(c[k])
               /\ k \in now /\ k \in before => d[k] = c[k]
    <2>1. CASE k \in now \ before
      BY <1>1, <1>2, <2>1
    <2>2. CASE k \notin now
      BY <1>1, <2>2
    <2>3. CASE k \in now /\ k \in before
      BY <1>1, <2>3
    <2> QED BY <2>1, <2>2, <2>3
  <1>4. ASSUME NEW k \in Keys
        PROVE  EntryOK(k, d[k], Len(log)) /\ c[k].kind = d[k].kind /\ c[k].upTo = d[k].upTo
    <2>1. EntryOK(k, c[k], Len(log)) /\ c[k] \in EntryType
      OBVIOUS
    <2>2. KeyRequest(k) \in PageRequests
      BY KeysRequest
    <2>3. CASE k \in now \ before
      <3>1. EntryOK(k, Fetch(c[k], k, KeyRequest(k)), Len(log))
        BY <2>1, FetchOK
      <3>2. /\ Fetch(c[k], k, KeyRequest(k)).kind = c[k].kind
            /\ Fetch(c[k], k, KeyRequest(k)).upTo = c[k].upTo
        BY <2>1 DEF Fetch, EntryType
      <3> QED BY <1>3, <2>3, <3>1, <3>2
    <2>4. CASE k \notin now
      <3>1. EntryOK(k, Dropped(c[k]), Len(log))
        BY <2>1, DroppedOK
      <3>2. Dropped(c[k]).kind = c[k].kind /\ Dropped(c[k]).upTo = c[k].upTo
        BY <2>1, DroppedFields
      <3> QED BY <1>3, <2>4, <3>1, <3>2
    <2>5. CASE k \in now /\ k \in before
      BY <1>3, <2>1, <2>5
    <2> QED BY <2>3, <2>4, <2>5
  <1>5. d \in [Keys -> EntryType]
    <2>1. \A k \in Keys : d[k] \in EntryType
      BY <1>4 DEF EntryOK
    <2>2. d = [k \in Keys |-> d[k]]
      BY <1>1
    <2> HIDE <1>1
    <2> QED BY <2>1, <2>2
  <1>6. ASSUME NEW k \in now
        PROVE  IF k \in before THEN d[k] = c[k]
               ELSE d[k].fetching = KeyRequest(k) /\ d[k].since = LogRead(k)
    <2>1. k \in Keys /\ c[k] \in EntryType
      BY <1>2
    <2>2. CASE k \in before
      BY <1>3, <2>1, <2>2
    <2>3. CASE k \notin before
      <3>1. /\ Fetch(c[k], k, KeyRequest(k)).fetching = KeyRequest(k)
            /\ Fetch(c[k], k, KeyRequest(k)).since = LogRead(k)
        BY <2>1 DEF Fetch, EntryType
      <3>2. d[k] = Fetch(c[k], k, KeyRequest(k))
        BY <1>3, <2>1, <2>3
      <3> QED BY <2>3, <3>1, <3>2
    <2> QED BY <2>2, <2>3
  <1> QED BY <1>4, <1>5, <1>6 DEF SameData, before, now

(* A page throws only where something is shown that is no answer of the API. *)
LEMMA ThrowsOnNoAnswer ==
    ASSUME NEW w \in ViewType, NEW c \in [Keys -> EntryType], NEW n,
           \A k \in Keys : EntryOK(k, c[k], n), Throws(w, c)
    PROVE  \E k \in Keys : c[k].kind \in {"text", "blob"}
  <1>1. PICK k \in ObservedKeys(w, c) :
            \/ Mapped(k) /\ c[k].kind \notin {"none", "null"} /\ ~IsArray(c[k])
            \/ c[k].kind = "json" /\ ~AnswerRenders[k]
    BY DEF Throws
  <1>2. k \in Keys
    BY ObservedKey
  <1>3. Mapped(k) /\ c[k].kind \notin {"none", "null"} /\ ~IsArray(c[k])
    BY <1>1, <1>2, AnswersRender
  <1>4. c[k].kind # "none" => c[k].request = KeyRequest(k)
    BY <1>2 DEF EntryOK
  <1>5. AnswersArray(KeyRequest(k))
    BY <1>2, <1>3, KeysRequest
  <1>6. c[k].kind # "json"
    BY <1>3, <1>4, <1>5 DEF IsArray
  <1>7. c[k].kind \in {"none", "json", "text", "blob", "null"}
    BY <1>2 DEF EntryType
  <1> QED BY <1>2, <1>3, <1>6, <1>7

(* The cache after a render: of the page as it is now, or of one that threw. *)
LEMMA RenderedCache ==
    ASSUME IInv, WebInv, ~crashed, NEW v \in ViewType, NEW c \in [Keys -> EntryType],
           \A k \in Keys : Came(k, cache[k], c[k]),
           Render(v, c, rows, marks), UNCHANGED <<log, req, clock>>
    PROVE  CacheInv' /\ CrashInv' /\ MissedInv' /\ view' \in ViewType
  <1> DEFINE w == Expand(v, c)
  <1>1. w \in ViewType
    BY ExpandTyped
  <1>2. \A k \in Keys : EntryOK(k, cache[k], Len(log)) /\ cache[k] \in EntryType
    BY DEF WebInv, CacheInv
  <1>3. \A k \in Keys : EntryOK(k, c[k], Len(log))
    BY <1>2, CameOK
  <1>4. log' = log /\ req' = req /\ Len(log)' = Len(log)
    OBVIOUS
  <1>5. /\ missed \in [Keys -> SUBSET WebSlots]
        /\ \A k \in ObservedKeys(view, cache) : UpToDate(k, cache[k], missed[k])
    BY DEF WebInv, MissedInv
  <1> HIDE DEF w
  <1>6. CASE Throws(w, c)
    <2>1. /\ crashed' = TRUE /\ view' = w /\ cache' = [k \in Keys |-> Dropped(c[k])]
          /\ rows' = [r \in Routes |-> NoRow] /\ missed' = [k \in Keys |-> {}]
      BY <1>6 DEF Render, w
    <2>2. \A k \in Keys : /\ cache'[k] = Dropped(c[k]) /\ EntryOK(k, cache'[k], Len(log))
                          /\ cache'[k].kind = c[k].kind /\ cache'[k].fetching = None
      BY <1>3, <2>1, DroppedOK, DroppedFields
    <2>3. cache' \in [Keys -> EntryType]
      <3>1. \A k \in Keys : Dropped(c[k]) \in EntryType
        BY DroppedFields
      <3> QED BY <2>1, <3>1
    <2>4. CacheInv'
      BY <1>4, <2>2, <2>3 DEF CacheInv, EntryOK
    <2>5. \E k \in Keys : cache'[k].kind \in {"text", "blob"}
      BY <1>1, <1>3, <1>6, <2>2, ThrowsOnNoAnswer
    <2>6. CrashInv'
      BY <2>1, <2>2, <2>5 DEF CrashInv, NoRow
    <2>7. MissedInv'
      BY <2>1 DEF MissedInv
    <2> QED BY <1>1, <2>1, <2>4, <2>6, <2>7
  <1>7. CASE ~Throws(w, c)
    <2>1. /\ crashed' = crashed /\ view' = w /\ cache' = Follow(w, c)
          /\ missed' = StillMissed(w, c)
      BY <1>7 DEF Render, w
    <2>2. PICK d : d = cache'
      OBVIOUS
    <2>3. /\ d \in [Keys -> EntryType] /\ \A k \in Keys : EntryOK(k, d[k], Len(log))
          /\ SameData(c, d)
          /\ \A k \in ObservedKeys(w, c) :
                IF k \in ObservedKeys(view, cache) THEN d[k] = c[k]
                ELSE d[k].fetching = KeyRequest(k) /\ d[k].since = LogRead(k)
      BY <1>1, <1>3, <2>1, <2>2, Follows
    <2>4. CacheInv'
      BY <1>4, <2>2, <2>3 DEF CacheInv, EntryOK
    <2>5. CrashInv'
      <3>1. crashed = FALSE
        BY DEF WebInv, CrashInv
      <3> QED BY <2>1, <3>1 DEF CrashInv
    <2>6. ObservedKeys(w, d) = ObservedKeys(w, c)
      BY <1>1, <2>3, SameDataSameView
    <2>7. PICK M : M = missed'
      OBVIOUS
    <2>8. /\ M \in [Keys -> SUBSET WebSlots]
          /\ \A k \in Keys : k \in ObservedKeys(w, c) /\ k \in ObservedKeys(view, cache)
                           => M[k] = missed[k]
      BY <1>5, <2>1, <2>7 DEF StillMissed
    <2>9. ASSUME NEW k \in ObservedKeys(w, c)
          PROVE  UpToDate(k, d[k], M[k])
      <3>1. k \in Keys /\ KeyRequest(k) # None
        BY <1>1, ObservedKey, KeysRequest
      <3>2. CASE k \in ObservedKeys(view, cache)
        <4>1. /\ UpToDate(k, cache[k], missed[k]) /\ d[k] = c[k] /\ Came(k, cache[k], c[k])
              /\ M[k] = missed[k]
          BY <1>5, <2>3, <2>8, <3>1, <3>2
        <4> QED BY <1>2, <3>1, <4>1, CameUpToDate
      <3>3. CASE k \notin ObservedKeys(view, cache)
        BY <2>3, <3>1, <3>3, FetchUpToDate
      <3> QED BY <3>2, <3>3
    <2>10. ObservedKeys(view', cache') = ObservedKeys(w, c)
      BY <2>1, <2>2, <2>6
    <2>11. \A k, e, gone : UpToDate(k, e, gone)' = UpToDate(k, e, gone)
      BY <1>4 DEF UpToDate
    <2>12. MissedInv'
      <3>1. \A k \in ObservedKeys(view', cache') : UpToDate(k, cache'[k], missed'[k])
        BY <2>2, <2>7, <2>9, <2>10
      <3> QED BY <1>4, <2>7, <2>8, <3>1 DEF MissedInv, UpToDate
    <2> QED BY <1>1, <2>1, <2>4, <2>5, <2>12
  <1> QED BY <1>6, <1>7

-----------------------------------------------------------------------------
(* Rows *)

LEMMA ProjectionsTyped ==
    ASSUME IInv, NEW r \in Routes, NEW n \in Nat, n <= Len(log)
    PROVE  Owner(r, n) \in Owners /\ FeedbackCorrect(r, n) \in Marks \cup {None}
  <1>1. n \in 0 .. Len(log) /\ Len(log) \in Nat
    BY LogReads
  <1>2. Owner(r, n) \in Owners
    BY <1>1, OwnersAreOwners DEF OwnersOwn
  <1>3. CASE Events("feedback", r, n) = {}
    BY <1>2, <1>3 DEF FeedbackCorrect
  <1>4. CASE Events("feedback", r, n) # {}
    <2>1. PICK i : i = Newest(log, Events("feedback", r, n))
      OBVIOUS
    <2>2. i \in Events("feedback", r, n) /\ i \in 1 .. Len(log)
      BY <1>1, <1>4, <2>1, NewestEvent
    <2>3. log[i].kind = "feedback"
      BY <2>2 DEF Events
    <2>4. log[i] \in Row
      BY <2>2, LogTyped DEF IInv
    <2>5. log[i].to \in Marks
      BY <2>3, <2>4 DEF Row, HandoffRow, FeedbackRow
    <2> QED BY <1>2, <1>4, <2>1, <2>5 DEF FeedbackCorrect
  <1> QED BY <1>3, <1>4

(* A handoff among the first n rows is the owner's, or a newer one is.       *)
LEMMA HandoffShows ==
    ASSUME IInv, NEW r, NEW n \in 0 .. Len(log), NEW i \in Events("handoff", r, n)
    PROVE  Owner(r, n) = log[i].to \/ Overtaken(r, i, n)
  <1>1. PICK m : m = Newest(log, Events("handoff", r, n))
    OBVIOUS
  <1>2. /\ m \in Events("handoff", r, n)
        /\ \A j \in Events("handoff", r, n) \ {m} : log[j].at < log[m].at
    BY <1>1, NewestEvent
  <1>3. Owner(r, n) = log[m].to
    BY <1>1, <1>2 DEF Owner
  <1> QED BY <1>2, <1>3 DEF Overtaken

(* What a fetch brings settles a row, when its owner is that of the data.    *)
LEMMA CameSettles ==
    ASSUME IInv, NEW k, ReadsLog(k), NEW e \in EntryType, NEW f, Came(k, e, f),
           f.kind = "json", NEW r, NEW row, row.base = Owner(r, f.upTo),
           Settling(r, row, e)
    PROVE  Settling(r, row, f)
  <1>1. Len(log) \in Nat /\ LogRead(k) = Len(log) /\ e.since \in Nat
    BY LogReads DEF EntryType
  <1>2. CASE row.shown = row.base
    BY <1>2 DEF Settling
  <1>3. CASE row.shown # row.base
    <2>1. PICK i \in 1 .. Len(log) :
              /\ log[i].kind = "handoff" /\ log[i].route = r
              /\ log[i].slot \in WebSlots /\ log[i].to = row.shown
              /\ e.fetching # None => i <= e.since
              /\ e.fetching = None /\ ~e.error => Overtaken(r, i, e.upTo)
      BY <1>3 DEF Settling
    <2>2. CASE f = e
      BY <2>2
    <2>3. CASE e.fetching # None /\ \E m \in e.since .. LogRead(k) : f = Answered(e, "json", m)
      <3>1. PICK m \in e.since .. LogRead(k) : f = Answered(e, "json", m)
        BY <2>3
      <3>2. f.upTo = m /\ f.fetching = None
        BY <3>1, AnsweredFields
      <3>3. m \in Nat /\ i \in 1 .. m
        BY <1>1, <2>1, <2>3
      <3>4. i \in Events("handoff", r, m)
        BY <2>1, <3>3 DEF Events
      <3>5. Owner(r, m) # log[i].to
        BY <1>3, <2>1, <3>2
      <3>6. Overtaken(r, i, m)
        <4>1. m \in 0 .. Len(log)
          BY <1>1, <3>1, <3>3
        <4> QED BY <3>4, <3>5, <4>1, HandoffShows
      <3> QED BY <2>1, <3>2, <3>6 DEF Settling
    <2>4. CASE e.fetching # None /\ \E kind \in {"text", "blob", "null"} : f = Answered(e, kind, 0)
      <3>1. PICK kind \in {"text", "blob", "null"} : f = Answered(e, kind, 0)
        BY <2>4
      <3>2. f.kind = kind
        BY <3>1, AnsweredFields
      <3>3. f.kind # "json"
        BY <3>2
      <3> QED BY <3>3
    <2>5. CASE f = Failed(e)
      <3>1. f.fetching = None /\ f.error = TRUE
        BY <2>5, DroppedFields
      <3> QED BY <2>1, <3>1 DEF Settling
    <2> QED BY <2>2, <2>3, <2>4, <2>5 DEF Came
  <1> QED BY <1>2, <1>3

LEMMA NoRowTyped == NoRow \in RowType /\ NoRow.mounted = FALSE /\ NoRow.slot = None
  BY DEF NoRow, RowType

LEMMA RowsInView ==
    ASSUME NEW w \in ViewType, NEW c, NEW r \in RoutesInView(w, c)
    PROVE  /\ HasRows(w, c) /\ RowEntry(w, c).kind = "json" /\ RowEntry(w, c).upTo = RowsUpTo(w, c)
           /\ RowsKey(w, ActiveBrand(w, c)) \in ObservedKeys(w, c)
           /\ RowsKey(w, ActiveBrand(w, c)) \in Keys
           /\ ReadsLog(RowsKey(w, ActiveBrand(w, c)))
  <1>1. HasRows(w, c)
    BY DEF RoutesInView
  <1>2. /\ RowsKey(w, ActiveBrand(w, c)) \in ObservedKeys(w, c)
        /\ ReadsLog(RowsKey(w, ActiveBrand(w, c)))
    BY <1>1, RowsKeys DEF HasRows
  <1>3. RowEntry(w, c).kind = "json" /\ RowEntry(w, c).upTo = RowsUpTo(w, c)
    BY <1>1 DEF HasRows, RowEntry, RowsUpTo
  <1> QED BY <1>1, <1>2, <1>3, ObservedKey

(* A row as a render leaves it.                                              *)
LEMMA RenderedRow ==
    ASSUME IInv, WebInv, ~crashed, NEW w \in ViewType, NEW c \in [Keys -> EntryType],
           \A k \in Keys : Came(k, cache[k], c[k]),
           NEW d, d = Follow(w, c), NEW r \in Routes
    PROVE  RowShown(w, c, rows[r], r) \in RowType /\ RowOK(r, RowShown(w, c, rows[r], r), w, d)
  <1> DEFINE owner == Owner(r, RowsUpTo(w, c))
             row == RowShown(w, c, rows[r], r)
  <1>1. \A k \in Keys : EntryOK(k, cache[k], Len(log)) /\ cache[k] \in EntryType
    BY DEF WebInv, CacheInv
  <1>2. \A k \in Keys : EntryOK(k, c[k], Len(log))
    BY <1>1, CameOK
  <1>3. /\ SameData(c, d)
        /\ \A k \in ObservedKeys(w, c) :
              IF k \in ObservedKeys(view, cache) THEN d[k] = c[k]
              ELSE d[k].fetching = KeyRequest(k) /\ d[k].since = LogRead(k)
    BY <1>2, Follows
  <1>4. rows[r] \in RowType /\ RowOK(r, rows[r], view, cache) /\ view \in ViewType
    BY DEF WebInv, RowsInv
  <1>5. CASE w.page = "memory" \/ r \notin RoutesInView(w, c)
    <2>1. row = NoRow
      BY <1>5 DEF RowShown
    <2> HIDE DEF row
    <2> QED BY <2>1, NoRowTyped DEF RowOK, row
  <1>6. CASE w.page # "memory" /\ r \in RoutesInView(w, c)
    <2> DEFINE K == RowsKey(w, ActiveBrand(w, c))
    <2>1. /\ HasRows(w, c) /\ c[K].kind = "json" /\ c[K].upTo = RowsUpTo(w, c)
          /\ K \in ObservedKeys(w, c) /\ K \in Keys /\ ReadsLog(K)
      BY <1>6, RowsInView DEF RowEntry
    <2>2. /\ ActiveBrand(w, d) = ActiveBrand(w, c) /\ RoutesInView(w, d) = RoutesInView(w, c)
          /\ RowsUpTo(w, d) = RowsUpTo(w, c)
      BY <1>3, <2>1, SameDataSameView
    <2>3. RowEntry(w, d) = d[K]
      BY <2>2 DEF RowEntry
    <2>4. RowsUpTo(w, c) \in Nat /\ RowsUpTo(w, c) <= Len(log)
      BY <1>2, <2>1 DEF EntryOK, EntryType
    <2>5. owner \in Owners
      BY <2>4, ProjectionsTyped
    <2>6. PICK o : o = owner
      OBVIOUS
    <2> HIDE DEF K
    <2>7. CASE ~rows[r].mounted \/ w.page # view.page
      <3>1. row = [NoRow EXCEPT !.mounted = TRUE, !.shown = o, !.base = o]
        BY <1>6, <2>6, <2>7 DEF RowShown
      <3>2. /\ row \in RowType /\ row.base = o /\ row.shown = o /\ row.slot = None
        BY <2>5, <2>6, <3>1 DEF NoRow, RowType
      <3> HIDE DEF row, owner
      <3>3. RowOK(r, row, w, d)
        BY <1>6, <2>2, <2>6, <3>2 DEF RowOK, Settling, owner
      <3> QED BY <3>2, <3>3 DEF row
    <2>8. CASE rows[r].mounted /\ w.page = view.page /\ rows[r].base # owner
      <3>1. row = [rows[r] EXCEPT !.shown = o, !.base = o]
        BY <1>6, <2>6, <2>8 DEF RowShown
      <3>2. /\ row \in RowType /\ row.base = o /\ row.shown = o
        BY <1>4, <2>5, <2>6, <3>1 DEF RowType
      <3> HIDE DEF row, owner
      <3>3. RowOK(r, row, w, d)
        BY <1>6, <2>2, <2>6, <3>2 DEF RowOK, Settling, Asking, owner
      <3> QED BY <3>2, <3>3 DEF row
    <2>9. CASE rows[r].mounted /\ w.page = view.page /\ rows[r].base = owner
      <3>1. row = rows[r]
        BY <1>6, <2>9 DEF RowShown
      <3>2. /\ rows[r].slot # None => Asking(r, rows[r])
            /\ rows[r].slot = None => Settling(r, rows[r], RowEntry(view, cache))
        BY <1>4, <2>9 DEF RowOK
      <3>3. ASSUME rows[r].slot = None
            PROVE  Settling(r, rows[r], d[K])
        <4>1. CASE K \in ObservedKeys(view, cache)
          <5>1. ActiveBrand(view, cache) # Loading /\ K = RowsKey(view, ActiveBrand(view, cache))
            BY <1>4, <1>6, <2>9, <4>1, RowsKeyStays DEF K
          <5>2. RowEntry(view, cache) = cache[K]
            BY <5>1 DEF RowEntry
          <5>3. Came(K, cache[K], c[K]) /\ cache[K] \in EntryType /\ d[K] = c[K]
            BY <1>1, <1>3, <2>1, <4>1
          <5>4. rows[r].base = Owner(r, c[K].upTo)
            BY <2>1, <2>9
          <5>5. Settling(r, rows[r], cache[K])
            BY <3>2, <3>3, <5>2
          <5>6. Settling(r, rows[r], c[K])
            BY <2>1, <5>3, <5>4, <5>5, CameSettles
          <5> QED BY <5>3, <5>6
        <4>2. CASE K \notin ObservedKeys(view, cache)
          <5>1. d[K].fetching = KeyRequest(K) /\ d[K].since = LogRead(K)
            BY <1>3, <2>1, <4>2
          <5>2. d[K].fetching # None /\ d[K].since = Len(log) /\ Len(log) \in Nat
            BY <2>1, <5>1, KeysRequest, LogReads
          <5>3. CASE rows[r].shown = rows[r].base
            BY <5>3 DEF Settling
          <5>4. CASE rows[r].shown # rows[r].base
            <6>1. PICK i \in 1 .. Len(log) :
                      /\ log[i].kind = "handoff" /\ log[i].route = r
                      /\ log[i].slot \in WebSlots /\ log[i].to = rows[r].shown
              BY <3>2, <3>3, <5>4 DEF Settling
            <6>2. i <= Len(log)
              BY <5>2
            <6> QED BY <5>2, <6>1, <6>2 DEF Settling
          <5> QED BY <5>3, <5>4
        <4> QED BY <4>1, <4>2
      <3> HIDE DEF row, owner
      <3>4. RowOK(r, rows[r], w, d)
        BY <1>6, <2>2, <2>3, <2>9, <3>2, <3>3 DEF RowOK, owner
      <3> QED BY <1>4, <3>1, <3>4 DEF row
    <2> QED BY <2>7, <2>8, <2>9
  <1> QED BY <1>5, <1>6

(* What is said of rows depends on the log and the requests alone.           *)
LEMMA SameServerSameRows ==
    ASSUME UNCHANGED <<log, req>>, NEW r, NEW row, NEW v, NEW c, RowOK(r, row, v, c)
    PROVE  RowOK(r, row, v, c)'
  <1>1. \A kind, n : Events(kind, r, n)' = Events(kind, r, n)
    BY DEF Events
  <1>2. \A n : Owner(r, n)' = Owner(r, n)
    BY <1>1 DEF Owner
  <1>3. RoutesInView(v, c)' = RoutesInView(v, c) /\ RowsUpTo(v, c)' = RowsUpTo(v, c)
    BY DEF RoutesInView, RowsUpTo, HasRows, ActiveBrand, PaneShows
  <1>4. RowEntry(v, c)' = RowEntry(v, c)
    BY DEF RowEntry, ActiveBrand
  <1>5. Asking(r, row)' <=> Asking(r, row)
    BY DEF Asking, IsReroute, RouteOf, Asked
  <1>6. \A e : Settling(r, row, e) => Settling(r, row, e)'
    BY <1>1 DEF Settling, Overtaken
  <1> QED BY <1>2, <1>3, <1>4, <1>5, <1>6 DEF RowOK

LEMMA RenderedMarks ==
    ASSUME IInv, WebInv, NEW w \in ViewType, NEW c,
           \A k \in Keys : EntryOK(k, c[k], Len(log))
    PROVE  MarksShown(w, c, marks) \in [Routes -> Marks \cup {None}]
  <1>1. ASSUME NEW r \in Routes, r \in RoutesInView(w, c)
        PROVE  FeedbackCorrect(r, RowsUpTo(w, c)) \in Marks \cup {None}
    <2>1. RowsUpTo(w, c) \in Nat /\ RowsUpTo(w, c) <= Len(log)
      BY <1>1, RowsInView DEF EntryOK, EntryType, RowEntry
    <2> QED BY <2>1, ProjectionsTyped
  <1>2. [r \in Routes |-> IF r \in RoutesInView(w, c)
                          THEN FeedbackCorrect(r, RowsUpTo(w, c)) ELSE None]
            \in [Routes -> Marks \cup {None}]
    BY <1>1
  <1>3. marks \in [Routes -> Marks \cup {None}]
    BY DEF WebInv, MarksInv
  <1> QED BY <1>2, <1>3 DEF MarksShown

LEMMA RenderStep ==
    ASSUME IInv, WebInv, ~crashed, NEW v \in ViewType, NEW c \in [Keys -> EntryType],
           \A k \in Keys : Came(k, cache[k], c[k]),
           Render(v, c, rows, marks), UNCHANGED <<log, req, clock>>
    PROVE  WebInv'
  <1> DEFINE w == Expand(v, c)
  <1>1. w \in ViewType
    BY ExpandTyped
  <1>2. CacheInv' /\ CrashInv' /\ MissedInv' /\ view' \in ViewType
    BY RenderedCache
  <1>3. OwnRows'
    BY DEF WebInv, OwnRows, IsReroute
  <1> HIDE DEF w
  <1>4. CASE Throws(w, c)
    <2>1. rows' = [r \in Routes |-> NoRow] /\ marks' = [r \in Routes |-> None]
      BY <1>4 DEF Render, w
    <2>2. \A r \in Routes : rows'[r] = NoRow
      BY <2>1
    <2>3. RowsInv'
      <3>1. rows' \in [Routes -> RowType]
        BY <2>1, NoRowTyped
      <3> QED BY <2>2, <3>1, NoRowTyped DEF RowsInv, RowOK
    <2>4. MarksInv'
      BY <2>1 DEF MarksInv
    <2> QED BY <1>2, <1>3, <2>3, <2>4 DEF WebInv, ViewType
  <1>5. CASE ~Throws(w, c)
    <2>1. /\ view' = w /\ cache' = Follow(w, c)
          /\ rows' = [r \in Routes |-> RowShown(w, c, rows[r], r)]
          /\ marks' = MarksShown(w, c, marks)
      BY <1>5 DEF Render, w
    <2>2. PICK d : d = cache'
      OBVIOUS
    <2>3. ASSUME NEW r \in Routes
          PROVE  RowShown(w, c, rows[r], r) \in RowType
                 /\ RowOK(r, RowShown(w, c, rows[r], r), w, d)
      BY <1>1, <2>1, <2>2, RenderedRow
    <2>4. rows' \in [Routes -> RowType]
      BY <2>1, <2>3
    <2>5. ASSUME NEW r \in Routes
          PROVE  RowOK(r, rows[r], view, cache)'
      <3>1. PICK row, u : row = rows'[r] /\ u = view'
        OBVIOUS
      <3>2. RowOK(r, row, u, d)
        BY <2>1, <2>3, <3>1
      <3>3. RowOK(r, row, u, d)'
        BY <3>2, SameServerSameRows
      <3> QED BY <2>2, <3>1, <3>3
    <2>6. RowsInv'
      BY <2>4, <2>5 DEF RowsInv
    <2>7. \A k \in Keys : EntryOK(k, c[k], Len(log))
      BY CameOK DEF WebInv, CacheInv
    <2>8. MarksInv'
      BY <1>1, <2>1, <2>7, RenderedMarks DEF MarksInv
    <2> QED BY <1>2, <1>3, <2>6, <2>8 DEF WebInv, ViewType
  <1> QED BY <1>4, <1>5

-----------------------------------------------------------------------------
(* Steps that render *)

LEMMA TurnStep ==
    ASSUME IInv, WebInv, NEW v \in ViewType, Turn(v)
    PROVE  WebInv'
  <1>1. ~crashed /\ Render(v, cache, rows, marks) /\ UNCHANGED <<log, req, clock>>
    BY DEF Turn, server
  <1>2. cache \in [Keys -> EntryType] /\ \A k \in Keys : Came(k, cache[k], cache[k])
    BY DEF WebInv, CacheInv, Came
  <1> QED BY <1>1, <1>2, RenderStep

LEMMA ListedPattern ==
    ASSUME NEW v, NEW c, PatternsData(v, c)[2] = "json"
    PROVE  BrandPattern[ActiveBrand(v, c)] \in Patterns \cup {None}
  <1>1. ActiveBrand(v, c) = Loading => PatternsData(v, c) = <<Loading, "none">>
    BY DEF PatternsData
  <1>2. ActiveBrand(v, c) = Loading => PatternsData(v, c)[2] = "none"
    BY <1>1
  <1>3. ActiveBrand(v, c) \in Brands
    BY <1>2, ActiveBrands
  <1> QED BY <1>3, WebAssumption

LEMMA TurnsStep ==
    ASSUME IInv, WebInv,
           \/ \E b \in Brands : ChooseBrand(b)
           \/ \E label \in Labels : ChoosePeriod(label)
           \/ \E pane \in Panes : ChoosePane(pane)
           \/ \E f \in Filters : ChooseFilter(f)
           \/ TogglePattern
           \/ \E page \in Pages : Go(page)
    PROVE  WebInv'
  <1>1. view \in ViewType
    BY DEF WebInv
  <1>2. CASE \E b \in Brands : ChooseBrand(b)
    <2>1. PICK b \in Brands : Turn([view EXCEPT !.brand = b])
      BY <1>2 DEF ChooseBrand
    <2>2. [view EXCEPT !.brand = b] \in ViewType
      BY <1>1 DEF ViewType
    <2> QED BY <2>1, <2>2, TurnStep
  <1>3. CASE \E label \in Labels : ChoosePeriod(label)
    <2>1. PICK label \in Labels : Turn([view EXCEPT !.period = label])
      BY <1>3 DEF ChoosePeriod
    <2>2. [view EXCEPT !.period = label] \in ViewType
      BY <1>1 DEF ViewType
    <2> QED BY <2>1, <2>2, TurnStep
  <1>4. CASE \E pane \in Panes : ChoosePane(pane)
    <2>1. PICK pane \in Panes : Turn([view EXCEPT !.pane = pane])
      BY <1>4 DEF ChoosePane
    <2>2. [view EXCEPT !.pane = pane] \in ViewType
      BY <1>1 DEF ViewType
    <2> QED BY <2>1, <2>2, TurnStep
  <1>5. CASE \E f \in Filters : ChooseFilter(f)
    <2>1. PICK f \in Filters : Turn([view EXCEPT !.filter = f])
      BY <1>5 DEF ChooseFilter
    <2>2. [view EXCEPT !.filter = f] \in ViewType
      BY <1>1 DEF ViewType
    <2> QED BY <2>1, <2>2, TurnStep
  <1>6. CASE TogglePattern
    <2>1. PICK p : p = IF view.expanded = None
                       THEN BrandPattern[ActiveBrand(view, cache)] ELSE None
      OBVIOUS
    <2>2. Turn([view EXCEPT !.expanded = p]) /\ PatternsData(view, cache)[2] = "json"
      BY <1>6, <2>1 DEF TogglePattern
    <2>3. p \in Patterns \cup {None}
      BY <2>1, <2>2, ListedPattern
    <2>4. [view EXCEPT !.expanded = p] \in ViewType
      BY <1>1, <2>3 DEF ViewType
    <2> QED BY <2>2, <2>4, TurnStep
  <1>7. CASE \E page \in Pages : Go(page)
    <2>1. PICK page \in Pages : Turn(Opened(view, page))
      BY <1>7 DEF Go
    <2>2. "QTD" \in Labels /\ AllFilters \in Filters /\ "critical" \in Panes
      BY WebAssumption DEF Panes
    <2>3. Opened(view, page) \in ViewType
      BY <1>1, <2>2 DEF Opened, ViewType
    <2> QED BY <2>1, <2>3, TurnStep
  <1> QED BY <1>2, <1>3, <1>4, <1>5, <1>6, <1>7

(* An answer to a fetch under way, as a render finds it.                     *)
LEMMA CameStep ==
    ASSUME IInv, WebInv, NEW k \in Keys, cache[k].fetching # None,
           NEW f, Came(k, cache[k], f), NEW c, c = [cache EXCEPT ![k] = f],
           Render(view, c, rows, marks), UNCHANGED <<log, req, clock>>
    PROVE  WebInv'
  <1>1. ~crashed /\ view \in ViewType
    BY DEF WebInv, CrashInv
  <1>2. cache \in [Keys -> EntryType] /\ \A j \in Keys : EntryOK(j, cache[j], Len(log))
    BY DEF WebInv, CacheInv
  <1>3. f \in EntryType
    BY <1>2, CameOK DEF EntryOK
  <1>4. c \in [Keys -> EntryType]
    BY <1>2, <1>3
  <1>5. \A j \in Keys : Came(j, cache[j], c[j])
    <2>1. \A j \in Keys : c[j] = IF j = k THEN f ELSE cache[j]
      BY <1>2
    <2> QED BY <2>1 DEF Came
  <1> QED BY <1>1, <1>4, <1>5, RenderStep

LEMMA FetchArrivesStep ==
    ASSUME IInv, WebInv, NEW k \in Keys, FetchArrives(k)
    PROVE  WebInv'
  <1>1. cache \in [Keys -> EntryType]
    BY DEF WebInv, CacheInv
  <1>2. PICK n \in cache[k].since .. LogRead(k) :
            Render(view, [cache EXCEPT ![k] = Answered(cache[k], "json", n)], rows, marks)
    BY <1>1 DEF FetchArrives
  <1>3. Came(k, cache[k], Answered(cache[k], "json", n)) /\ cache[k].fetching # None
    BY <1>2 DEF Came, FetchArrives
  <1>4. UNCHANGED <<log, req, clock>>
    BY DEF FetchArrives, server
  <1> QED BY <1>2, <1>3, <1>4, CameStep

LEMMA FetchFailsStep ==
    ASSUME IInv, WebInv, NEW k \in Keys, FetchFails(k)
    PROVE  WebInv'
  <1>1. cache \in [Keys -> EntryType]
    BY DEF WebInv, CacheInv
  <1>2. cache[k].fetching # None /\ UNCHANGED <<log, req, clock>>
    BY DEF FetchFails, server
  <1>3. PICK f \in Faults :
            Render(view, [cache EXCEPT ![k] =
                             IF CustomFetch(f, "GET").name = "data"
                             THEN Answered(cache[k], CustomFetch(f, "GET").data, 0)
                             ELSE Failed(cache[k])], rows, marks)
    BY <1>1 DEF FetchFails
  <1>4. PICK result : result = CustomFetch(f, "GET")
    OBVIOUS
  <1>5. result # Resolved("json")
    BY <1>4, WebAssumption
  <1>6. result.name = "data" => result.data \in {"text", "blob", "null"}
    <2>1. ASSUME result.name = "data"
          PROVE  result = Resolved(ParseSuccessBody(f, "GET"))
                 /\ ParseSuccessBody(f, "GET") # "ResponseParseError"
      BY <1>4, <2>1 DEF CustomFetch, ApiError, ResponseParseError
    <2>2. ParseSuccessBody(f, "GET") \in {"json", "text", "blob", "null", "ResponseParseError"}
      BY DEF ParseSuccessBody, ParseJsonBody
    <2>3. \A data : Resolved(data).data = data
      BY DEF Resolved
    <2> QED BY <1>5, <2>1, <2>2, <2>3
  <1>7. PICK g : g = IF result.name = "data" THEN Answered(cache[k], result.data, 0)
                     ELSE Failed(cache[k])
    OBVIOUS
  <1>8. Came(k, cache[k], g)
    BY <1>2, <1>6, <1>7 DEF Came
  <1>9. Render(view, [cache EXCEPT ![k] = g], rows, marks)
    BY <1>3, <1>4, <1>7
  <1> QED BY <1>2, <1>8, <1>9, CameStep

-----------------------------------------------------------------------------
(* Steps of the server and of commands *)

(* The log keeps its rows, and a request that was sent what it asked.        *)
Kept == /\ Len(log') \in Nat /\ Len(log) <= Len(log')
        /\ \A i \in 1 .. Len(log) : log'[i] = log[i]
        /\ \A s \in Slots : req[s].phase # "free" =>
              req'[s].phase # "free" /\ req'[s].request = req[s].request

(* No command is answered.                                                   *)
NoAnswer == \A s \in Slots : req'[s].phase = "acked" =>
               req[s].phase = "acked" /\ req'[s].index = req[s].index

LEMMA KeptRow ==
    ASSUME IInv, Kept, NEW r, NEW row \in RowType, NEW v \in ViewType,
           NEW c \in [Keys -> EntryType], \A k \in Keys : EntryOK(k, c[k], Len(log)),
           RowOK(r, row, v, c)
    PROVE  RowOK(r, row, v, c)'
  <1>1. Len(log) \in Nat
    BY LogReads
  <1>2. CASE ~row.mounted
    BY <1>2 DEF RowOK
  <1>3. CASE row.mounted
    <2>1. /\ v.page # "memory" /\ r \in RoutesInView(v, c)
          /\ row.base = Owner(r, RowsUpTo(v, c))
          /\ row.slot # None => Asking(r, row)
          /\ row.slot = None => Settling(r, row, RowEntry(v, c))
      BY <1>3 DEF RowOK
    <2>2. RoutesInView(v, c)' = RoutesInView(v, c) /\ RowsUpTo(v, c)' = RowsUpTo(v, c)
      BY DEF RoutesInView, RowsUpTo, HasRows, ActiveBrand, PaneShows
    <2>3. RowEntry(v, c)' = RowEntry(v, c)
      BY DEF RowEntry, ActiveBrand
    <2>4. PICK e, n : e = RowEntry(v, c) /\ n = RowsUpTo(v, c)
      OBVIOUS
    <2>5. n \in 0 .. Len(log) /\ e.upTo = n
      BY <1>1, <2>1, <2>4, RowsInView DEF EntryOK, EntryType, RowEntry
    <2>6. Owner(r, n)' = Owner(r, n)
      BY <1>1, <2>5, PrefixStable DEF Kept
    <2>7. Asking(r, row) /\ row.slot # None => Asking(r, row)'
      <3>1. row.slot # None => row.slot \in Slots
        BY WebAssumption DEF RowType
      <3> QED BY <3>1 DEF Asking, IsReroute, RouteOf, Asked, Kept
    <2>8. Settling(r, row, e) => Settling(r, row, e)'
      <3>1. CASE row.shown = row.base
        BY <3>1 DEF Settling
      <3>2. ASSUME NEW i \in 1 .. Len(log),
                   log[i].kind = "handoff", log[i].route = r,
                   log[i].slot \in WebSlots, log[i].to = row.shown,
                   e.fetching # None => i <= e.since,
                   e.fetching = None /\ ~e.error => Overtaken(r, i, e.upTo)
            PROVE  Settling(r, row, e)'
        <4>1. log'[i] = log[i] /\ i \in 1 .. Len(log')
          BY <1>1 DEF Kept
        <4>2. Events("handoff", r, n)' = Events("handoff", r, n)
          BY <1>1, <2>5 DEF Events, Kept
        <4>3. Overtaken(r, i, n) => Overtaken(r, i, n)'
          <5>1. \A j \in Events("handoff", r, n) : log'[j] = log[j]
            BY <1>1, <2>5 DEF Events, Kept
          <5> QED BY <4>2, <5>1 DEF Overtaken
        <4> QED BY <2>5, <3>2, <4>1, <4>3 DEF Settling
      <3> QED BY <3>1, <3>2 DEF Settling
    <2> QED BY <2>1, <2>2, <2>3, <2>4, <2>6, <2>7, <2>8 DEF RowOK
  <1> QED BY <1>2, <1>3

(* A step that renders nothing.                                              *)
LEMMA QuietRender ==
    ASSUME IInv, WebInv, Kept, NoAnswer, OwnRows', UNCHANGED <<view, cache, missed, crashed>>,
           MarksInv',
           NEW R \in [Routes -> RowType], rows' = R,
           crashed => \A r \in Routes : R[r] = rows[r],
           \A r \in Routes : R[r] = rows[r] \/ RowOK(r, R[r], view, cache)'
    PROVE  WebInv'
  <1>1. /\ view \in ViewType /\ cache \in [Keys -> EntryType]
        /\ \A k \in Keys : EntryOK(k, cache[k], Len(log))
        /\ rows \in [Routes -> RowType] /\ \A r \in Routes : RowOK(r, rows[r], view, cache)
    BY DEF WebInv, CacheInv, RowsInv
  <1>2. Len(log) \in Nat /\ Len(log') \in Nat /\ Len(log) <= Len(log')
    BY LogReads DEF Kept
  <1>3. CacheInv'
    <2>1. \A k \in Keys : EntryOK(k, cache[k], Len(log'))
      BY <1>1, <1>2 DEF EntryOK, EntryType
    <2> QED BY <1>1, <2>1 DEF CacheInv
  <1>4. CrashInv'
    BY DEF WebInv, CrashInv
  <1>5. MissedInv'
    <2>1. \A k, e, gone : UpToDate(k, e, gone) => UpToDate(k, e, gone)'
      <3>1. \A s \in WebSlots : s \in Slots
        BY WebAssumption
      <3> QED BY <3>1 DEF UpToDate, NoAnswer
    <2>2. ~crashed => \A k \in ObservedKeys(view, cache) : UpToDate(k, cache[k], missed[k])'
      BY <2>1 DEF WebInv, MissedInv
    <2> QED BY <2>2 DEF WebInv, MissedInv
  <1>6. RowsInv'
    <2>1. ASSUME NEW r \in Routes
          PROVE  RowOK(r, R[r], view, cache)'
      <3>1. CASE R[r] = rows[r]
        <4>1. PICK row, v, c : row = R[r] /\ v = view /\ c = cache
          OBVIOUS
        <4>2. RowOK(r, row, v, c)
          BY <1>1, <3>1, <4>1
        <4>3. RowOK(r, row, v, c)'
          BY <1>1, <4>1, <4>2, KeptRow
        <4> QED BY <4>1, <4>3
      <3>2. CASE RowOK(r, R[r], view, cache)'
        BY <3>2
      <3> QED BY <3>1, <3>2
    <2> QED BY <2>1 DEF RowsInv
  <1> QED BY <1>1, <1>3, <1>4, <1>5, <1>6 DEF WebInv, ViewType

(* One request moves, and has a row of its own if it has one.                *)
LEMMA OwnRowsStep ==
    ASSUME IInv, OwnRows, Kept, NEW s \in Slots, NEW q, req' = [req EXCEPT ![s] = q],
           q.phase # "free" => q.request.key = NoKey,
           q.phase \in {"recorded", "acked"} =>
              /\ log'[q.index].slot = s
              /\ q.request.path = "/api/routes/{}/reroute" => log'[q.index].kind = "handoff"
    PROVE  OwnRows'
  <1>1. req'[s] = q /\ \A t \in Slots : t # s => req'[t] = req[t]
    BY DEF IInv, HandoffTypeOK
  <1>2. ASSUME NEW t \in Slots, t # s
        PROVE  /\ req'[t].phase # "free" => req'[t].request.key = NoKey
               /\ req'[t].phase \in {"recorded", "acked"} =>
                     /\ log'[req'[t].index].slot = t
                     /\ IsReroute(t)' => log'[req'[t].index].kind = "handoff"
    <2>1. req'[t] = req[t]
      BY <1>1, <1>2
    <2>2. req[t].phase \in {"recorded", "acked"} => req[t].index \in 1 .. Len(log)
      BY DEF IInv, CommandHasItsRow
    <2>3. req[t].phase \in {"recorded", "acked"} => log'[req[t].index] = log[req[t].index]
      BY <2>2 DEF Kept
    <2>4. IsReroute(t)' <=> IsReroute(t)
      BY <2>1 DEF IsReroute
    <2>5. /\ req[t].phase # "free" => req[t].request.key = NoKey
          /\ req[t].phase \in {"recorded", "acked"} =>
                /\ log[req[t].index].slot = t
                /\ IsReroute(t) => log[req[t].index].kind = "handoff"
      BY DEF OwnRows
    <2> QED BY <2>1, <2>3, <2>4, <2>5
  <1>3. IsReroute(s)' => q.request.path = "/api/routes/{}/reroute"
    BY <1>1 DEF IsReroute
  <1> QED BY <1>1, <1>2, <1>3 DEF OwnRows

LEMMA IssuedKept ==
    ASSUME IInv, NEW s \in Slots, NEW c, Issue(s, c)
    PROVE  /\ Kept /\ NoAnswer /\ UNCHANGED log /\ req[s].phase = "free"
           /\ req'[s].request = c /\ req'[s].phase = "sent"
           /\ \A t \in Slots : t # s => req'[t] = req[t]
           /\ OwnRows /\ c.key = NoKey => OwnRows'
  <1>1. PICK q : q = [NoRequest EXCEPT !.request = c, !.phase = "sent", !.since = Len(log)]
    OBVIOUS
  <1>2. req' = [req EXCEPT ![s] = q] /\ UNCHANGED log /\ req[s].phase = "free"
    BY <1>1 DEF Issue
  <1>3. q.request = c /\ q.phase = "sent"
    BY <1>1 DEF NoRequest
  <1>4. req'[s] = q /\ \A t \in Slots : t # s => req'[t] = req[t]
    BY <1>2 DEF IInv, HandoffTypeOK
  <1>5. Kept
    <2>1. Len(log) \in Nat
      BY LogReads
    <2> QED BY <1>2, <1>3, <1>4, <2>1 DEF Kept
  <1>6. OwnRows /\ c.key = NoKey => OwnRows'
    BY <1>2, <1>3, <1>5, OwnRowsStep
  <1>7. NoAnswer
    BY <1>3, <1>4 DEF NoAnswer
  <1> QED BY <1>2, <1>3, <1>4, <1>5, <1>6, <1>7

LEMMA RerouteRowStep ==
    ASSUME IInv, WebInv, NEW r \in Routes, NEW o \in Owners, RerouteRow(r, o)
    PROVE  WebInv'
  <1>1. PICK s \in WebSlots :
            /\ Issue(s, RerouteSignal(r, o))
            /\ rows' = [rows EXCEPT ![r].shown = o, ![r].slot = s, ![r].failed = FALSE]
    BY DEF RerouteRow
  <1>2. s \in Slots /\ s # None
    BY WebAssumption
  <1>3. /\ ~crashed /\ rows[r].mounted /\ UNCHANGED <<view, cache, marks, missed, crashed>>
    BY DEF RerouteRow
  <1>4. /\ RerouteSignal(r, o).key = NoKey /\ RerouteSignal(r, o).args = <<r>>
        /\ RerouteSignal(r, o).body = <<o>>
        /\ RerouteSignal(r, o).path = "/api/routes/{}/reroute"
    BY DEF RerouteSignal, Send, Request
  <1>5. /\ Kept /\ NoAnswer /\ OwnRows' /\ UNCHANGED log
        /\ req'[s].request = RerouteSignal(r, o) /\ req'[s].phase = "sent"
    BY <1>1, <1>2, <1>4, IssuedKept DEF WebInv
  <1>6. rows \in [Routes -> RowType] /\ \A q \in Routes : RowOK(q, rows[q], view, cache)
    BY DEF WebInv, RowsInv
  <1>7. PICK row : row = [rows[r] EXCEPT !.shown = o, !.slot = s, !.failed = FALSE]
    OBVIOUS
  <1>8. rows' = [rows EXCEPT ![r] = row]
    BY <1>1, <1>6, <1>7
  <1>9. /\ row \in RowType /\ row.mounted = rows[r].mounted /\ row.base = rows[r].base
        /\ row.slot = s /\ row.shown = o
    BY <1>6, <1>7 DEF RowType
  <1>10. PICK R : R = rows'
    OBVIOUS
  <1>11. R \in [Routes -> RowType] /\ \A q \in Routes : R[q] = IF q = r THEN row ELSE rows[q]
    BY <1>6, <1>8, <1>9, <1>10
  <1>12. RowOK(r, row, view, cache)'
    <2>1. /\ view.page # "memory" /\ r \in RoutesInView(view, cache)
          /\ rows[r].base = Owner(r, RowsUpTo(view, cache))
      BY <1>3, <1>6 DEF RowOK
    <2>2. /\ RoutesInView(view, cache)' = RoutesInView(view, cache)
          /\ RowsUpTo(view, cache)' = RowsUpTo(view, cache)
      BY <1>3
    <2>3. Asking(r, row)'
      <3>1. <<r>>[1] = r /\ <<o>>[1] = o
        OBVIOUS
      <3>2. req'[s].request.path = "/api/routes/{}/reroute" /\ req'[s].request.args[1] = r
            /\ req'[s].request.body[1] = o /\ req'[s].phase # "free"
        BY <1>4, <1>5, <3>1
      <3> QED BY <1>9, <3>2 DEF Asking, IsReroute, RouteOf, Asked
    <2>4. Owner(r, RowsUpTo(view, cache))' = Owner(r, RowsUpTo(view, cache))
      BY <1>3, <1>5 DEF Owner, Events
    <2> QED BY <1>2, <1>3, <1>9, <2>1, <2>2, <2>3, <2>4 DEF RowOK
  <1>13. MarksInv'
    BY <1>3 DEF WebInv, MarksInv
  <1>14. \A q \in Routes : R[q] = rows[q] \/ RowOK(q, R[q], view, cache)'
    BY <1>11, <1>12
  <1> QED BY <1>3, <1>5, <1>10, <1>11, <1>13, <1>14, QuietRender

LEMMA MarkRouteStep ==
    ASSUME IInv, WebInv, NEW r \in Routes, NEW mark \in Marks, MarkRoute(r, mark)
    PROVE  WebInv'
  <1>1. PICK s \in WebSlots : Issue(s, SubmitFeedback(r, mark))
    BY DEF MarkRoute
  <1>2. s \in Slots
    BY WebAssumption
  <1>3. SubmitFeedback(r, mark).key = NoKey
    BY DEF SubmitFeedback, Send, Request
  <1>4. Kept /\ NoAnswer /\ OwnRows'
    BY <1>1, <1>2, <1>3, IssuedKept DEF WebInv
  <1>5. UNCHANGED <<view, cache, rows, missed, crashed>>
    BY DEF MarkRoute
  <1>6. MarksInv'
    <2>1. marks' = [marks EXCEPT ![r] = mark]
      BY DEF MarkRoute
    <2> QED BY <2>1 DEF WebInv, MarksInv
  <1>7. rows \in [Routes -> RowType]
    BY DEF WebInv, RowsInv
  <1> QED BY <1>4, <1>5, <1>6, <1>7, QuietRender

LEMMA CommandFailsStep ==
    ASSUME IInv, WebInv, NEW s \in WebSlots, CommandFails(s)
    PROVE  WebInv'
  <1>1. s \in Slots /\ s # None
    BY WebAssumption
  <1>2. /\ req[s].phase = "failed" /\ log' = log /\ rows' = RolledBack(rows, s)
        /\ UNCHANGED <<view, cache, marks, missed, crashed>>
    BY DEF CommandFails, GiveUp
  <1>3. PICK q : q = [req[s] EXCEPT !.phase = "done"]
    OBVIOUS
  <1>4. req' = [req EXCEPT ![s] = q] /\ q.phase = "done" /\ q.request = req[s].request
    <2>1. req[s] \in RequestType /\ req \in [Slots -> RequestType]
      BY <1>1, Typed
    <2> QED BY <1>3, <2>1 DEF CommandFails, GiveUp, Advance, RequestType
  <1>5. req'[s] = q /\ \A t \in Slots : t # s => req'[t] = req[t]
    BY <1>1, <1>4 DEF IInv, HandoffTypeOK
  <1>6. Kept /\ NoAnswer
    BY <1>2, <1>4, <1>5, LogReads DEF Kept, NoAnswer
  <1>7. OwnRows'
    <2>1. OwnRows /\ q.request.key = NoKey
      BY <1>1, <1>2, <1>4 DEF WebInv, OwnRows
    <2> QED BY <1>1, <1>4, <1>6, <2>1, OwnRowsStep
  <1>8. rows \in [Routes -> RowType] /\ \A r \in Routes : RowOK(r, rows[r], view, cache)
    BY DEF WebInv, RowsInv
  <1>9. PICK R : R = rows'
    OBVIOUS
  <1>10. R = [r \in Routes |-> IF rows[r].slot = s
                              THEN [rows[r] EXCEPT !.slot = None, !.shown = rows[r].base,
                                                   !.failed = TRUE]
                              ELSE rows[r]]
    BY <1>2, <1>9 DEF RolledBack
  <1>11. ASSUME NEW r \in Routes, rows[r].slot = s
         PROVE  /\ R[r].mounted = rows[r].mounted /\ R[r].base = rows[r].base
                /\ R[r].shown = R[r].base /\ R[r].slot = None
    BY <1>8, <1>10, <1>11 DEF RowType
  <1>12. R \in [Routes -> RowType]
    BY <1>8, <1>10 DEF RowType
  <1>13. ASSUME NEW r \in Routes, rows[r].slot = s
         PROVE  RowOK(r, R[r], view, cache)'
    <2>1. PICK row : row = R[r]
      OBVIOUS
    <2>2. /\ row.mounted = rows[r].mounted /\ row.base = rows[r].base
          /\ row.shown = row.base /\ row.slot = None
      BY <1>11, <1>13, <2>1
    <2>3. rows[r].mounted => /\ view.page # "memory" /\ r \in RoutesInView(view, cache)
                             /\ rows[r].base = Owner(r, RowsUpTo(view, cache))
      BY <1>8 DEF RowOK
    <2>4. Owner(r, RowsUpTo(view, cache))' = Owner(r, RowsUpTo(view, cache))
      BY <1>2 DEF Owner, Events
    <2>5. RowOK(r, row, view, cache)'
      BY <1>2, <2>2, <2>3, <2>4 DEF RowOK, Settling
    <2>6. R[r]' = R[r]
      OBVIOUS
    <2> QED BY <2>1, <2>5
  <1>14. \A r \in Routes : rows[r].slot # s => R[r] = rows[r]
    BY <1>10
  <1>15. crashed => \A r \in Routes : R[r] = rows[r]
    <2>1. crashed => \A r \in Routes : rows[r].slot # s
      BY <1>1, NoRowTyped DEF WebInv, CrashInv
    <2> QED BY <1>14, <2>1
  <1>16. MarksInv'
    BY <1>2 DEF WebInv, MarksInv
  <1>17. \A r \in Routes : R[r] = rows[r] \/ RowOK(r, R[r], view, cache)'
    <2> HIDE <1>10, <1>11
    <2> QED BY <1>13, <1>14
  <1> QED BY <1>2, <1>6, <1>7, <1>9, <1>12, <1>15, <1>16, <1>17, QuietRender

(* A request that moves, without a row or with a row of its own.             *)
LEMMA MovedKept ==
    ASSUME IInv, OwnRows, NEW s \in Slots, NEW q, req' = [req EXCEPT ![s] = q],
           log' = log, req[s].phase # "free", q.request = req[s].request,
           q.phase \notin {"free", "recorded", "acked"}
    PROVE  Kept /\ NoAnswer /\ OwnRows'
  <1>1. req'[s] = q /\ \A t \in Slots : t # s => req'[t] = req[t]
    BY DEF IInv, HandoffTypeOK
  <1>2. Kept /\ NoAnswer
    BY <1>1, LogReads DEF Kept, NoAnswer
  <1>3. q.request.key = NoKey
    BY DEF OwnRows
  <1> QED BY <1>2, <1>3, OwnRowsStep

LEMMA FailKept ==
    ASSUME IInv, OwnRows, NEW s \in Slots, Fail(s), req[s].phase # "free"
    PROVE  Kept /\ NoAnswer /\ OwnRows'
  <1>1. PICK q : q = [req[s] EXCEPT !.phase = "failed", !.from = None]
    OBVIOUS
  <1>2. req[s] \in RequestType /\ req \in [Slots -> RequestType]
    BY Typed
  <1>3. req' = [req EXCEPT ![s] = q] /\ log' = log /\ q.phase = "failed"
        /\ q.request = req[s].request
    BY <1>1, <1>2 DEF Fail, RequestType
  <1> QED BY <1>3, MovedKept

LEMMA RecordKept ==
    ASSUME IInv, OwnRows, NEW s \in Slots, NEW e \in Row, Append1(s, e), req[s].phase # "free",
           e.slot = s, IsReroute(s) => e.kind = "handoff"
    PROVE  Kept /\ NoAnswer /\ OwnRows'
  <1>1. PICK M \in Nat : M = Len(log)
    BY LogReads
  <1>2. PICK q : q = [req[s] EXCEPT !.phase = "recorded", !.from = None, !.index = M + 1]
    OBVIOUS
  <1>3. req[s] \in RequestType /\ req \in [Slots -> RequestType] /\ log \in Seq(Row)
    BY Typed
  <1>4. req' = [req EXCEPT ![s] = q] /\ log' = Append(log, e)
    BY <1>1, <1>2, <1>3 DEF Append1, RequestType
  <1>5. q.request = req[s].request /\ q.phase = "recorded" /\ q.index = M + 1
    BY <1>2, <1>3 DEF RequestType
  <1>6. /\ Len(log') = M + 1 /\ log'[M + 1] = e
        /\ \A i \in 1 .. Len(log) : log'[i] = log[i]
    BY <1>1, <1>3, <1>4, Appended
  <1>7. req'[s] = q /\ \A t \in Slots : t # s => req'[t] = req[t]
    BY <1>3, <1>4
  <1>8. Kept /\ NoAnswer
    BY <1>1, <1>5, <1>6, <1>7 DEF Kept, NoAnswer
  <1>9. q.request.key = NoKey
    BY <1>5 DEF OwnRows
  <1>10. log'[q.index] = e
    BY <1>5, <1>6
  <1>11. q.request.path = "/api/routes/{}/reroute" => e.kind = "handoff"
    BY <1>5 DEF IsReroute
  <1> QED BY <1>4, <1>8, <1>9, <1>10, <1>11, OwnRowsStep

LEMMA ServeKept ==
    ASSUME IInv, OwnRows, NEW s \in Slots, Serve(s)
    PROVE  Kept /\ NoAnswer /\ OwnRows'
  <1>1. /\ req[s] \in RequestType /\ req \in [Slots -> RequestType]
        /\ req[s].phase # "free" => req[s].request \in Commands
    BY Typed
  <1>2. CASE RefuseReroute(s)
    BY <1>2, FailKept DEF RefuseReroute
  <1>3. CASE InsertClash(s)
    BY <1>3, FailKept DEF InsertClash
  <1>4. CASE ReadOwner(s)
    <2>1. PICK o : o = Owner(RouteOf(s), Len(log))
      OBVIOUS
    <2>2. PICK q : q = [req[s] EXCEPT !.phase = "read", !.from = o]
      OBVIOUS
    <2>3. /\ req' = [req EXCEPT ![s] = q] /\ log' = log /\ q.phase = "read"
          /\ q.request = req[s].request /\ req[s].phase # "free"
      BY <1>1, <1>4, <2>1, <2>2 DEF ReadOwner, RequestType
    <2> QED BY <2>3, MovedKept
  <1>5. ASSUME MakeRow(s), req[s].phase # "free"
        PROVE  Kept /\ NoAnswer /\ OwnRows'
    <2>1. PICK q : q = [req[s] EXCEPT !.phase = "inserting", !.at = clock + 1]
      OBVIOUS
    <2>2. /\ req' = [req EXCEPT ![s] = q] /\ log' = log /\ q.phase = "inserting"
          /\ q.request = req[s].request
      BY <1>1, <1>5, <2>1 DEF MakeRow, RequestType
    <2> QED BY <1>5, <2>2, MovedKept
  <1>6. CASE AnswerFromKey(s)
    <2>1. req[s].request.key = NoKey
      BY <1>6 DEF AnswerFromKey, OwnRows
    <2>2. KeyedRows(NoKey) = {}
      BY DEF KeyedRows
    <2> QED BY <1>6, <2>1, <2>2 DEF AnswerFromKey
  <1>7. CASE InsertHandoff(s)
    <2>1. PICK e \in Row : /\ Append1(s, e) /\ req[s].phase = "inserting"
                           /\ e.kind = "handoff" /\ e.slot = s
      BY <1>7, InsertHandoffFacts
    <2> QED BY <2>1, RecordKept
  <1>8. CASE RecordFeedback(s)
    <2>1. PICK e \in Row : Append1(s, e) /\ req[s].phase = "inserting" /\ e.slot = s
      BY <1>8, RecordFeedbackFacts
    <2>2. ~IsReroute(s)
      BY <1>8 DEF RecordFeedback, IsReroute, IsFeedback
    <2> QED BY <2>1, <2>2, RecordKept
  <1>9. CASE MakeHandoff(s) \/ MakeFeedback(s)
    BY <1>5, <1>9 DEF MakeHandoff, MakeFeedback
  <1> QED BY <1>2, <1>3, <1>4, <1>6, <1>7, <1>8, <1>9 DEF Serve

LEMMA ServerActsStep ==
    ASSUME IInv, WebInv, ServerActs
    PROVE  WebInv'
  <1>1. OwnRows
    BY DEF WebInv
  <1>2. ASSUME NEW s \in Slots, Serve(s)
        PROVE  Kept /\ NoAnswer /\ OwnRows'
    BY <1>1, <1>2, ServeKept
  <1>3. ASSUME NEW s \in WebSlots, Lose(s)
        PROVE  Kept /\ NoAnswer /\ OwnRows'
    <2>1. s \in Slots /\ Fail(s) /\ req[s].phase # "free"
      BY <1>3, WebAssumption DEF Lose
    <2> QED BY <1>1, <2>1, FailKept
  <1>4. ASSUME NEW s \in OtherSlots, NEW r \in Routes, NEW o \in Owners,
               Issue(s, RerouteSignal(r, o))
        PROVE  Kept /\ NoAnswer /\ OwnRows'
    <2>1. s \in Slots
      BY WebAssumption
    <2>2. RerouteSignal(r, o).key = NoKey
      BY DEF RerouteSignal, Send, Request
    <2> QED BY <1>1, <1>4, <2>1, <2>2, IssuedKept
  <1>5. Kept /\ NoAnswer /\ OwnRows'
    BY <1>2, <1>3, <1>4 DEF ServerActs
  <1>6. UNCHANGED <<view, cache, rows, marks, missed, crashed>>
    BY DEF ServerActs, client
  <1>7. MarksInv'
    BY <1>6 DEF WebInv, MarksInv
  <1>8. rows \in [Routes -> RowType]
    BY DEF WebInv, RowsInv
  <1> QED BY <1>5, <1>6, <1>7, <1>8, QuietRender

LEMMA RefetchedCache ==
    ASSUME IInv, WebInv, ~crashed, NEW d, d = Invalidated(cache)
    PROVE  /\ d \in [Keys -> EntryType] /\ \A k \in Keys : EntryOK(k, d[k], Len(log))
           /\ SameData(cache, d)
           /\ \A k \in ObservedKeys(view, cache) :
                 IF FirstLoad(cache[k]) THEN d[k] = cache[k]
                 ELSE d[k].fetching = KeyRequest(k) /\ d[k].since = LogRead(k)
  <1> DEFINE now == ObservedKeys(view, cache)
  <1>1. d = [k \in Keys |-> IF k \in now
                            THEN Refetch(cache[k], k, ObservedRequest(view, cache, k))
                            ELSE cache[k]]
    BY DEF Invalidated
  <1>2. view \in ViewType
    BY DEF WebInv
  <1>3. \A k \in now : k \in Keys /\ ObservedRequest(view, cache, k) = KeyRequest(k)
    BY <1>2, ObservedKey
  <1>4. /\ cache \in [Keys -> EntryType] /\ \A k \in Keys : EntryOK(k, cache[k], Len(log))
    BY DEF WebInv, CacheInv
  <1> HIDE DEF now
  <1>5. ASSUME NEW k \in Keys
        PROVE  /\ k \in now /\ ~FirstLoad(cache[k]) => d[k] = Fetch(cache[k], k, KeyRequest(k))
               /\ k \notin now \/ FirstLoad(cache[k]) => d[k] = cache[k]
    <2>1. CASE k \in now
      BY <1>1, <1>3, <2>1 DEF Refetch
    <2>2. CASE k \notin now
      BY <1>1, <2>2
    <2> QED BY <2>1, <2>2
  <1>6. ASSUME NEW k \in Keys
        PROVE  EntryOK(k, d[k], Len(log)) /\ cache[k].kind = d[k].kind /\ cache[k].upTo = d[k].upTo
    <2>1. EntryOK(k, cache[k], Len(log)) /\ cache[k] \in EntryType
      BY <1>4
    <2>2. KeyRequest(k) \in PageRequests
      BY KeysRequest
    <2>3. CASE k \in now /\ ~FirstLoad(cache[k])
      <3>1. EntryOK(k, Fetch(cache[k], k, KeyRequest(k)), Len(log))
        BY <2>1, FetchOK
      <3>2. /\ Fetch(cache[k], k, KeyRequest(k)).kind = cache[k].kind
            /\ Fetch(cache[k], k, KeyRequest(k)).upTo = cache[k].upTo
        BY <2>1 DEF Fetch, EntryType
      <3> QED BY <1>5, <2>3, <3>1, <3>2
    <2>4. CASE k \notin now \/ FirstLoad(cache[k])
      BY <1>5, <2>1, <2>4
    <2> QED BY <2>3, <2>4
  <1>7. d \in [Keys -> EntryType]
    <2>1. \A k \in Keys : d[k] \in EntryType
      BY <1>6 DEF EntryOK
    <2>2. d = [k \in Keys |-> d[k]]
      BY <1>1
    <2> HIDE <1>1
    <2> QED BY <2>1, <2>2
  <1>8. ASSUME NEW k \in now
        PROVE  IF FirstLoad(cache[k]) THEN d[k] = cache[k]
               ELSE d[k].fetching = KeyRequest(k) /\ d[k].since = LogRead(k)
    <2>1. k \in Keys /\ cache[k] \in EntryType
      BY <1>3, <1>4
    <2>2. CASE FirstLoad(cache[k])
      BY <1>5, <2>1, <2>2
    <2>3. CASE ~FirstLoad(cache[k])
      <3>1. /\ Fetch(cache[k], k, KeyRequest(k)).fetching = KeyRequest(k)
            /\ Fetch(cache[k], k, KeyRequest(k)).since = LogRead(k)
        BY <2>1 DEF Fetch, EntryType
      <3>2. d[k] = Fetch(cache[k], k, KeyRequest(k))
        BY <1>5, <1>8, <2>1, <2>3
      <3> QED BY <2>3, <3>1, <3>2
    <2> QED BY <2>2, <2>3
  <1> QED BY <1>6, <1>7, <1>8 DEF SameData, now

(* A row whose reroute was accepted has its handoff in the log, and the      *)
(* fetch that the answer starts will read it.                                *)
LEMMA ReleasedRow ==
    ASSUME IInv, WebInv, ~crashed, NEW d, d = Invalidated(cache), NEW s \in WebSlots,
           req[s].phase = "recorded", NEW r \in Routes, NEW row,
           row = IF rows[r].slot = s THEN [rows[r] EXCEPT !.slot = None] ELSE rows[r]
    PROVE  row \in RowType /\ RowOK(r, row, view, d)
  <1>1. view \in ViewType /\ rows[r] \in RowType /\ RowOK(r, rows[r], view, cache)
    BY DEF WebInv, RowsInv
  <1>2. /\ row \in RowType /\ row.mounted = rows[r].mounted /\ row.shown = rows[r].shown
        /\ row.base = rows[r].base
    BY <1>1 DEF RowType
  <1>3. rows[r].slot = s => row.slot = None
    BY <1>1 DEF RowType
  <1>4. rows[r].slot # s => row = rows[r]
    OBVIOUS
  <1>5. CASE ~row.mounted
    BY <1>2, <1>5 DEF RowOK
  <1>6. CASE row.mounted
    <2>1. /\ view.page # "memory" /\ r \in RoutesInView(view, cache)
          /\ rows[r].base = Owner(r, RowsUpTo(view, cache))
          /\ rows[r].slot # None => Asking(r, rows[r])
          /\ rows[r].slot = None => Settling(r, rows[r], RowEntry(view, cache))
      BY <1>1, <1>2, <1>6 DEF RowOK
    <2>2. /\ SameData(cache, d)
          /\ \A k \in ObservedKeys(view, cache) :
                IF FirstLoad(cache[k]) THEN d[k] = cache[k]
                ELSE d[k].fetching = KeyRequest(k) /\ d[k].since = LogRead(k)
      BY RefetchedCache
    <2>3. /\ HasRows(view, cache) /\ RowEntry(view, cache).kind = "json"
          /\ RowsKey(view, ActiveBrand(view, cache)) \in ObservedKeys(view, cache)
          /\ RowsKey(view, ActiveBrand(view, cache)) \in Keys
          /\ ReadsLog(RowsKey(view, ActiveBrand(view, cache)))
      BY <1>1, <2>1, RowsInView
    <2>4. /\ ActiveBrand(view, d) = ActiveBrand(view, cache)
          /\ RoutesInView(view, d) = RoutesInView(view, cache)
          /\ RowsUpTo(view, d) = RowsUpTo(view, cache)
      BY <1>1, <2>2, <2>3, SameDataSameView
    <2>5. PICK e : e = RowEntry(view, d)
      OBVIOUS
    <2>6. e.fetching # None /\ e.since = Len(log) /\ Len(log) \in Nat
      <3>1. PICK k : k = RowsKey(view, ActiveBrand(view, cache))
        OBVIOUS
      <3>2. ~FirstLoad(cache[k])
        BY <2>3, <3>1 DEF FirstLoad, RowEntry
      <3>3. d[k].fetching = KeyRequest(k) /\ d[k].since = LogRead(k)
        BY <2>2, <2>3, <3>1, <3>2
      <3>4. e = d[k]
        BY <2>4, <2>5, <3>1 DEF RowEntry
      <3> QED BY <2>3, <3>1, <3>3, <3>4, KeysRequest, LogReads
    <2>7. ASSUME NEW i \in 1 .. Len(log), log[i].kind = "handoff", log[i].route = r,
                 log[i].slot \in WebSlots, log[i].to = row.shown
          PROVE  Settling(r, row, e)
      <3>1. i <= Len(log)
        BY <2>6
      <3> QED BY <2>6, <2>7, <3>1 DEF Settling
    <2>8. row.shown = row.base => Settling(r, row, e)
      BY DEF Settling
    <2>9. ASSUME row.slot = None
          PROVE  Settling(r, row, e)
      <3>1. CASE row.shown = row.base
        BY <2>8, <3>1
      <3>2. CASE row.shown # row.base /\ rows[r].slot = s
        <4>1. s \in Slots /\ s # None
          BY WebAssumption
        <4>2. IsReroute(s) /\ RouteOf(s) = r /\ Asked(s) = row.shown
          BY <1>2, <2>1, <3>2, <4>1 DEF Asking
        <4>3. PICK i : i = req[s].index
          OBVIOUS
        <4>4. i \in 1 .. Len(log) /\ log[i].route = r /\ log[i].to = row.shown
          BY <4>1, <4>2, <4>3 DEF IInv, CommandHasItsRow
        <4>5. log[i].slot \in WebSlots /\ log[i].kind = "handoff"
          BY <4>1, <4>2, <4>3 DEF WebInv, OwnRows
        <4> QED BY <2>7, <4>4, <4>5
      <3>3. CASE row.shown # row.base /\ rows[r].slot # s
        <4>1. Settling(r, row, RowEntry(view, cache))
          BY <1>4, <2>1, <2>9, <3>3
        <4>2. PICK i \in 1 .. Len(log) :
                  /\ log[i].kind = "handoff" /\ log[i].route = r
                  /\ log[i].slot \in WebSlots /\ log[i].to = row.shown
          BY <3>3, <4>1 DEF Settling
        <4> QED BY <2>7, <4>2
      <3> QED BY <3>1, <3>2, <3>3
    <2>10. row.slot # None => Asking(r, row)
      BY <1>3, <1>4, <2>1
    <2> QED BY <1>2, <2>1, <2>4, <2>5, <2>9, <2>10 DEF RowOK
  <1> QED BY <1>2, <1>5, <1>6

LEMMA CommandSucceedsStep ==
    ASSUME IInv, WebInv, NEW s \in WebSlots, CommandSucceeds(s)
    PROVE  WebInv'
  <1>1. s \in Slots /\ s # None
    BY WebAssumption
  <1>2. /\ req[s].phase = "recorded" /\ log' = log /\ rows' = Released(rows, s)
        /\ cache' = (IF crashed THEN cache ELSE Invalidated(cache))
        /\ missed' = (IF crashed THEN missed ELSE MissedWith(s))
        /\ UNCHANGED <<view, marks, crashed>>
    BY DEF CommandSucceeds, Accept
  <1>3. PICK q : q = [req[s] EXCEPT !.phase = "acked"]
    OBVIOUS
  <1>4. /\ req' = [req EXCEPT ![s] = q] /\ q.phase = "acked" /\ q.request = req[s].request
        /\ q.index = req[s].index
    <2>1. req[s] \in RequestType /\ req \in [Slots -> RequestType]
      BY <1>1, Typed
    <2> QED BY <1>3, <2>1 DEF CommandSucceeds, Accept, Advance, RequestType
  <1>5. req'[s] = q /\ \A t \in Slots : t # s => req'[t] = req[t]
    BY <1>1, <1>4 DEF IInv, HandoffTypeOK
  <1>6. Kept
    BY <1>2, <1>4, <1>5, LogReads DEF Kept
  <1>7. OwnRows'
    <2>1. OwnRows /\ q.request.key = NoKey
      BY <1>1, <1>2, <1>4 DEF WebInv, OwnRows
    <2>2. log'[q.index].slot = s
          /\ (q.request.path = "/api/routes/{}/reroute" => log'[q.index].kind = "handoff")
      BY <1>1, <1>2, <1>4, <2>1 DEF OwnRows, IsReroute
    <2> QED BY <1>1, <1>4, <1>6, <2>1, <2>2, OwnRowsStep
  <1>8. /\ view \in ViewType /\ cache \in [Keys -> EntryType]
        /\ \A k \in Keys : EntryOK(k, cache[k], Len(log))
        /\ rows \in [Routes -> RowType] /\ \A r \in Routes : RowOK(r, rows[r], view, cache)
        /\ missed \in [Keys -> SUBSET WebSlots]
    BY DEF WebInv, CacheInv, RowsInv, MissedInv
  <1>9. Len(log') = Len(log)
    BY <1>2
  <1>10. MarksInv'
    BY <1>2 DEF WebInv, MarksInv
  <1>11. PICK R : R = rows'
    OBVIOUS
  <1>12. R = [r \in Routes |-> IF rows[r].slot = s THEN [rows[r] EXCEPT !.slot = None]
                               ELSE rows[r]]
    BY <1>2, <1>11 DEF Released
  <1>13. CASE crashed
    <2>1. cache' = cache /\ \A r \in Routes : rows[r] = NoRow
      BY <1>2, <1>13 DEF WebInv, CrashInv
    <2>2. \A r \in Routes : R[r] = rows[r] /\ R[r] = NoRow
      BY <1>1, <1>12, <2>1, NoRowTyped
    <2>3. R \in [Routes -> RowType]
      BY <1>12, <2>2, NoRowTyped
    <2>4. RowsInv'
      BY <1>11, <2>2, <2>3, NoRowTyped DEF RowsInv, RowOK
    <2>5. CacheInv'
      BY <1>8, <1>9, <2>1 DEF CacheInv, EntryOK
    <2>6. CrashInv'
      BY <1>2, <1>11, <2>1, <2>2 DEF WebInv, CrashInv, NoRow
    <2>7. MissedInv'
      BY <1>2, <1>8, <1>13 DEF MissedInv
    <2> QED BY <1>2, <1>7, <1>8, <1>10, <2>4, <2>5, <2>6, <2>7 DEF WebInv, ViewType
  <1>14. CASE ~crashed
    <2>1. PICK d : d = cache'
      OBVIOUS
    <2>2. d = Invalidated(cache)
      BY <1>2, <1>14, <2>1
    <2>3. /\ d \in [Keys -> EntryType] /\ \A k \in Keys : EntryOK(k, d[k], Len(log))
          /\ SameData(cache, d)
          /\ \A k \in ObservedKeys(view, cache) :
                IF FirstLoad(cache[k]) THEN d[k] = cache[k]
                ELSE d[k].fetching = KeyRequest(k) /\ d[k].since = LogRead(k)
      BY <1>14, <2>2, RefetchedCache
    <2>4. CacheInv'
      BY <1>9, <2>1, <2>3 DEF CacheInv, EntryOK
    <2>5. CrashInv'
      <3>1. crashed = FALSE
        BY <1>14 DEF WebInv, CrashInv
      <3> QED BY <1>2, <3>1 DEF CrashInv
    <2>6. MissedInv'
      <3>1. ObservedKeys(view, d) = ObservedKeys(view, cache)
        BY <1>8, <2>3, SameDataSameView
      <3>2. PICK M : M = missed'
        OBVIOUS
      <3>3. /\ M \in [Keys -> SUBSET WebSlots]
            /\ \A k \in ObservedKeys(view, cache) :
                  k \in Keys /\ FirstLoad(cache[k]) => M[k] = missed[k] \cup {s}
        BY <1>2, <1>8, <1>14, <3>2 DEF MissedWith
      <3>4. ASSUME NEW k \in ObservedKeys(view, cache), ReadsLog(k), NEW t \in WebSlots,
                   req'[t].phase = "acked", t \notin M[k]
            PROVE  Abreast(d[k], req'[t].index)
        <4>1. k \in Keys /\ KeyRequest(k) # None
          BY <1>8, ObservedKey, KeysRequest
        <4>2. req'[t].index = req[t].index /\ req[t].phase \in {"recorded", "acked"}
              /\ (t # s => req[t].phase = "acked")
          BY <1>2, <1>4, <1>5, <3>4, WebAssumption
        <4>3. /\ req[t].index \in Nat /\ req[t].index <= Len(log)
              /\ LogRead(k) = Len(log) /\ Len(log) \in Nat
          BY <3>4, <4>2, AckedIndex, LogReads
        <4>4. CASE FirstLoad(cache[k])
          <5>1. t # s /\ t \notin missed[k] /\ d[k] = cache[k]
            BY <2>3, <3>3, <3>4, <4>1, <4>4
          <5>2. UpToDate(k, cache[k], missed[k])
            BY <1>14 DEF WebInv, MissedInv
          <5> QED BY <3>4, <4>2, <5>1, <5>2 DEF UpToDate
        <4>5. CASE ~FirstLoad(cache[k])
          BY <2>3, <4>1, <4>2, <4>3, <4>5 DEF Abreast
        <4> QED BY <4>4, <4>5
      <3>5. ObservedKeys(view', cache') = ObservedKeys(view, cache)
        BY <1>2, <2>1, <3>1
      <3>6. \A k \in ObservedKeys(view', cache') : UpToDate(k, cache[k], missed[k])'
        BY <2>1, <3>2, <3>4, <3>5 DEF UpToDate
      <3> QED BY <3>2, <3>3, <3>6 DEF MissedInv
    <2>7. ASSUME NEW r \in Routes
          PROVE  R[r] \in RowType /\ RowOK(r, R[r], view, d)
      <3>1. PICK row : row = R[r]
        OBVIOUS
      <3>2. row = IF rows[r].slot = s THEN [rows[r] EXCEPT !.slot = None] ELSE rows[r]
        BY <1>12, <3>1
      <3> QED BY <1>2, <1>14, <2>2, <3>1, <3>2, ReleasedRow
    <2>8. R \in [Routes -> RowType]
      <3>1. R = [r \in Routes |-> R[r]]
        BY <1>12
      <3>2. \A r \in Routes : R[r] \in RowType
        BY <2>7
      <3> QED BY <3>1, <3>2
    <2>9. ASSUME NEW r \in Routes
          PROVE  RowOK(r, rows[r], view, cache)'
      <3>1. PICK row, v : row = R[r] /\ v = view
        OBVIOUS
      <3>2. RowOK(r, row, v, d) /\ row \in RowType /\ v \in ViewType
        BY <1>8, <2>7, <3>1
      <3>3. RowOK(r, row, v, d)'
        BY <1>6, <2>3, <3>2, KeptRow
      <3> QED BY <1>2, <1>11, <2>1, <3>1, <3>3
    <2>10. RowsInv'
      BY <1>11, <2>8, <2>9 DEF RowsInv
    <2> QED BY <1>2, <1>7, <1>8, <1>10, <2>4, <2>5, <2>6, <2>10 DEF WebInv, ViewType
  <1> QED BY <1>13, <1>14

-----------------------------------------------------------------------------
(* The invariant holds *)

LEMMA WebInit == Init => WebInv
  <1> SUFFICES ASSUME Init PROVE WebInv
    OBVIOUS
  <1>1. /\ log = <<>> /\ Len(log) = 0 /\ \A s \in Slots : req[s] = NoRequest
    BY DEF Init, InitLog
  <1>2. OwnRows
    BY <1>1 DEF OwnRows, NoRequest
  <1>3. view \in ViewType
    BY WebAssumption DEF Init, ViewType, Panes
  <1>4. /\ crashed = FALSE /\ missed = [k \in Keys |-> {}] /\ rows = [r \in Routes |-> NoRow]
        /\ marks = [r \in Routes |-> None]
    BY DEF Init
  <1>5. /\ BrandsQuery.key \in Keys /\ BrandsQuery.request = KeyRequest(BrandsQuery.key)
        /\ BrandsQuery.request \in PageRequests
    BY KeyFacts DEF Keys, WrittenQueries, PageRequests
  <1>6. PICK first : first = [NoData EXCEPT !.fetching = BrandsQuery.request]
    OBVIOUS
  <1>7. /\ first \in EntryType /\ NoData \in EntryType
        /\ first.kind = "none" /\ first.request = None /\ first.upTo = 0 /\ first.since = 0
        /\ first.fetching = BrandsQuery.request
    BY <1>5, <1>6 DEF NoData, EntryType
  <1>8. \A k \in Keys : cache[k] = IF k = BrandsQuery.key THEN first ELSE NoData
    BY <1>6 DEF Init
  <1>9. cache \in [Keys -> EntryType]
    BY <1>6, <1>7 DEF Init
  <1>10. CacheInv
    <2>1. \A k \in Keys : EntryOK(k, NoData, 0)
      BY <1>7 DEF EntryOK, NoData
    <2>2. EntryOK(BrandsQuery.key, first, 0)
      BY <1>5, <1>7 DEF EntryOK
    <2> QED BY <1>1, <1>8, <1>9, <2>1, <2>2 DEF CacheInv
  <1>11. CrashInv
    BY <1>4 DEF CrashInv
  <1>12. MissedInv
    <2>1. \A s \in WebSlots : req[s].phase = "free"
      BY <1>1, WebAssumption DEF NoRequest
    <2>2. \A k, e, gone : UpToDate(k, e, gone)
      BY <2>1 DEF UpToDate
    <2> QED BY <1>4, <2>2 DEF MissedInv
  <1>13. RowsInv
    BY <1>4, NoRowTyped DEF RowsInv, RowOK
  <1>14. MarksInv
    BY <1>4 DEF MarksInv
  <1> QED BY <1>2, <1>3, <1>10, <1>11, <1>12, <1>13, <1>14 DEF WebInv

LEMMA WebNext ==
    ASSUME IInv, WebInv, [Next]_vars
    PROVE  WebInv'
  <1>1. CASE UNCHANGED vars
    <2>1. UNCHANGED <<view, cache, rows, marks, missed, crashed, log, req>>
      BY <1>1 DEF vars
    <2>2. Kept /\ NoAnswer
      BY <2>1, LogReads DEF Kept, NoAnswer
    <2>3. OwnRows' /\ MarksInv'
      BY <2>1 DEF WebInv, OwnRows, IsReroute, MarksInv
    <2>4. rows \in [Routes -> RowType]
      BY DEF WebInv, RowsInv
    <2> QED BY <2>1, <2>2, <2>3, <2>4, QuietRender
  <1>2. CASE UserActs
    BY <1>2, TurnsStep, RerouteRowStep, MarkRouteStep DEF UserActs
  <1>3. CASE ServerActs
    BY <1>3, ServerActsStep
  <1>4. CASE \E k \in Keys : FetchEnds(k)
    BY <1>4, FetchArrivesStep, FetchFailsStep DEF FetchEnds
  <1>5. CASE \E s \in WebSlots : CommandSucceeds(s) \/ CommandFails(s)
    BY <1>5, CommandSucceedsStep, CommandFailsStep
  <1> QED BY <1>1, <1>2, <1>3, <1>4, <1>5 DEF Next

LEMMA WebInductive == Spec => [](IInv /\ WebInv)
  <1>1. IInv /\ WebInv /\ [Next]_vars => WebInv'
    BY WebNext
  <1> QED BY <1>1, WebInit, ServerInvariant, PTL DEF Spec

-----------------------------------------------------------------------------
(* The server's log and requests, and the application's state, keep their    *)
(* shape, and no request the pages or their commands send is refused by the   *)
(* API's schemas.                                                             *)
THEOREM WebClientTyped == Spec => []TypeOK
  <1>1. ASSUME IInv, WebInv
        PROVE  TypeOK
    <2>1. HandoffTypeOK /\ cache \in [Keys -> EntryType] /\ crashed \in BOOLEAN
      BY <1>1 DEF IInv, WebInv, CacheInv, CrashInv
    <2>2. view \in ViewType /\ rows \in [Routes -> RowType]
      BY <1>1 DEF WebInv, RowsInv
    <2>3. \A k \in Keys : cache[k].fetching # None => MeetsContract(cache[k].fetching)
      BY <1>1, KeysRequest DEF WebInv, CacheInv, EntryOK
    <2>4. ASSUME NEW s \in Slots, req[s].request # None
          PROVE  MeetsContract(req[s].request)
      <3>1. req[s].request \in Commands
        BY <2>1, <2>4 DEF HandoffTypeOK
      <3> QED BY <3>1, CommandsMeetContract
    <2>5. marks \in [Routes -> Marks \cup {None}] /\ missed \in [Keys -> SUBSET WebSlots]
      BY <1>1 DEF WebInv, MarksInv, MissedInv
    <2> QED BY <2>1, <2>2, <2>3, <2>4, <2>5 DEF TypeOK, ViewType, RowType
  <1> QED BY <1>1, WebInductive, PTL

(* Query keys written by hand: whatever brands, windows, filters and patterns *)
(* there are, the data under a key answers the request of the page that shows *)
(* it, and no answer of the API makes a page throw.                           *)
THEOREM KeysNameRequests == Spec => []CachedDataAnswersItsKey
  <1>1. ASSUME WebInv
        PROVE  CachedDataAnswersItsKey
    <2>1. ASSUME NEW q \in Observed(view, cache), cache[q.key].kind # "none"
          PROVE  cache[q.key].request = q.request
      <3>1. q \in WrittenQueries
        BY <1>1, ObservedAreWritten DEF WebInv
      <3>2. q.key \in Keys /\ q.request = KeyRequest(q.key)
        BY <3>1, KeyFacts DEF Keys
      <3> QED BY <1>1, <2>1, <3>2 DEF WebInv, CacheInv, EntryOK
    <2>2. crashed => \E k \in Keys : cache[k].kind \in {"text", "blob"}
      BY <1>1 DEF WebInv, CrashInv
    <2> QED BY <2>1, <2>2 DEF CachedDataAnswersItsKey
  <1> QED BY <1>1, WebInductive, PTL

(* invalidateQueries after a command: however its answer, other fetches and   *)
(* other callers' commands interleave, and whatever page was opened since, a  *)
(* settled query shows the command; but for a query whose first load was      *)
(* under way when the command was answered, until it is fetched once more.    *)
THEOREM AcknowledgedIsRead == Spec => []ReadYourWrites
  <1>1. WebInv => ReadYourWrites
    BY DEF WebInv, MissedInv, UpToDate, Abreast, ReadYourWrites
  <1> QED BY <1>1, WebInductive, PTL

(* The optimistic rows: once nothing is under way a row shows its data, or    *)
(* what it had asked for where that is already overtaken.                     *)
THEOREM RowsSettle == Spec => []SettledRow
  <1>1. ASSUME IInv, WebInv
        PROVE  SettledRow
    <2>1. ASSUME NEW r \in Routes, NEW e, e = RowEntry(view, cache),
                 rows[r].mounted, rows[r].slot = None, e.fetching = None, ~e.error
          PROVE  \/ rows[r].shown = Owner(r, e.upTo)
                 \/ \E i, j \in Events("handoff", r, e.upTo) :
                       log[i].at < log[j].at /\ log[i].slot \in WebSlots
                       /\ log[i].to = rows[r].shown
      <3>1. /\ view \in ViewType /\ r \in RoutesInView(view, cache)
            /\ rows[r].base = Owner(r, RowsUpTo(view, cache)) /\ Settling(r, rows[r], e)
        BY <1>1, <2>1 DEF WebInv, RowsInv, RowOK
      <3>2. /\ RowsKey(view, ActiveBrand(view, cache)) \in Keys
            /\ e = cache[RowsKey(view, ActiveBrand(view, cache))]
            /\ e.upTo = RowsUpTo(view, cache)
        BY <2>1, <3>1, RowsInView DEF RowEntry
      <3>3. CASE rows[r].shown = rows[r].base
        BY <3>1, <3>2, <3>3
      <3>4. CASE rows[r].shown # rows[r].base
        BY <2>1, <3>1, <3>4 DEF Settling, Overtaken
      <3> QED BY <3>3, <3>4
    <2> QED BY <2>1 DEF SettledRow, RowEntry
  <1> QED BY <1>1, WebInductive, PTL
=============================================================================
