----------------------------- MODULE WebClient -----------------------------
(***************************************************************************)
(* The Resound web application over the API: the query cache shared by    *)
(* the pages, the rows that show a reroute before the server has accepted *)
(* it, and the judgements of the memory page, while other callers move    *)
(* routes too.  One browser tab, one page load; the cache                  *)
(* is TanStack Query with the options App.tsx gives it (no retry, data     *)
(* stale at once), modelled from how the pages use it: a query is fetched  *)
(* when it comes into view, dropped when it leaves, at most once at a time.*)
(***************************************************************************)
EXTENDS RouteHandoffs, ApiContract

CONSTANTS FirstBrand,     \* brands[0] of the API's answer
          BrandRoutes,    \* the routes of a brand's signals
          PaneRoutes,     \* the routes a pane of the dashboard keeps, the emerging one apart
          FilterRoutes,   \* the routes a filter of the signal page keeps
          PatternRoutes,  \* the routes of a pattern's signals
          BrandPattern,   \* the pattern a brand lists first, or None
          FirstPages,     \* the pages the application may be opened at
          WebSlots,       \* requests of the application
          OtherSlots,     \* requests of other callers of the API
          Faults,         \* responses that carry no answer of the API
          MaxMoves        \* bound on clicks besides commands and on failed fetches, together

AllFilters == [source |-> "All", area |-> "All", severity |-> "All", sentiment |-> "All"]

Pages == {"dashboard", "signals", "memory", "patterns"}
Panes == {"critical", "sentiment", "volume", "emerging"}

ASSUME WebAssumption ==
    /\ FirstPages \subseteq Pages
    /\ FirstBrand \in Brands
    /\ "QTD" \in Labels /\ AllFilters \in Filters
    /\ BrandRoutes \in [Brands -> SUBSET Routes]
    /\ PatternRoutes \in [Patterns -> SUBSET Routes]
    /\ FilterRoutes \in [Filters -> SUBSET Routes]
    /\ PaneRoutes \in [Panes \ {"emerging"} -> SUBSET Routes]
    /\ BrandPattern \in [Brands -> Patterns \cup {None}]
    /\ WebSlots \cup OtherSlots = Slots
    /\ WebSlots \cap OtherSlots = {}
    /\ Faults \subseteq ResponseType
    /\ \A f \in Faults : CustomFetch(f, "GET") # Resolved("json")
    /\ MaxMoves \in Nat
    /\ None \notin Slots \cup Patterns \cup Brands

VARIABLES view,     \* the page and what was chosen on it
          cache,    \* the query cache
          rows,     \* SignalRow state, per route
          marks,    \* the memory page's feedbacks
          missed,   \* per key, the commands answered during its first load
          crashed,  \* a page threw while rendering
          moves

server == <<log, req, clock>>
client == <<view, cache, rows, marks, crashed>>
vars == <<log, req, clock, view, cache, rows, marks, missed, crashed, moves>>

-----------------------------------------------------------------------------
(* The queries of the pages: hand-written keys over generated requests     *)

BrandsQuery == DefaultQuery(ListBrands)

DashboardQueries(b, period) ==
    {Query(<<"brand-stats", b, period>>, GetBrandStats(b, ApiPeriod(period))),
     Query(<<"dashboard-signals", b, period>>,
           ListSignals(b, FilterParams(AllFilters), ApiPeriod(period), 100)),
     Query(<<"dashboard-patterns", b>>, ListPatterns(b))}

SignalsQueryAnySource(b, f) ==  \* the source is left out of the key
    Query(<<"signals", b, f.area, f.severity, f.sentiment>>,
          ListSignals(b, FilterParams(f), "qtd", 100))
SignalsQuery(b, f) ==
    Query(<<"signals", b, f.source, f.area, f.severity, f.sentiment>>,
          ListSignals(b, FilterParams(f), "qtd", 100))

RoutesQuery(b) == Query(<<"routes", b>>, ListRoutes(b, "qtd", 100))
PatternsQuery(b) == Query(<<"patterns", b>>, ListPatterns(b))
PatternQuery(p) == Query(<<"pattern", p>>, GetPattern(p))

PageQueries(v, b) ==
    CASE v.page = "dashboard" -> DashboardQueries(b, v.period)
      [] v.page = "signals" -> {SignalsQuery(b, v.filter)}
      [] v.page = "memory" -> {RoutesQuery(b)}
      [] v.page = "patterns" -> {PatternsQuery(b)} \cup
                                (IF v.expanded = None THEN {} ELSE {PatternQuery(v.expanded)})

WrittenQueries ==
    {BrandsQuery}
    \cup {SignalsQuery(b, f) : b \in Brands, f \in Filters}
    \cup {RoutesQuery(b) : b \in Brands}
    \cup {PatternsQuery(b) : b \in Brands}
    \cup {PatternQuery(p) : p \in Patterns}
    \cup UNION {DashboardQueries(b, l) : b \in Brands, l \in Labels}

Keys == {q.key : q \in WrittenQueries}
PageRequests == {q.request : q \in WrittenQueries}
ASSUME RequestsAssumption == None \notin PageRequests

(* pages that call an array method on what the query returned               *)
Mapped(k) == k[1] \in {"/api/brands", "dashboard-patterns", "patterns", "routes"}

(* queries whose answers give the views every field they use                *)
Answers == INSTANCE AnswerFields
AnswerRenders == [k \in Keys |->
    CASE k[1] = "/api/brands" -> Answers!Renders(Answers!ToBrandView, Answers!Brand)
      [] k[1] = "brand-stats" -> Answers!Renders(Answers!Dashboard, Answers!BrandStats)
      [] k[1] \in {"dashboard-signals", "signals"} ->
             Answers!Renders(Answers!SignalsOf, Answers!SignalList)
      [] k[1] = "pattern" -> Answers!Renders(Answers!SignalsOf, Answers!PatternDetail)
      [] k[1] \in {"dashboard-patterns", "patterns"} ->
             Answers!Renders(Answers!ToPatternView, Answers!Pattern)
      [] k[1] = "routes" -> Answers!Renders(Answers!RouteAuditToSignalView, Answers!RouteAudit)]

(* queries that show the owner or the judgement of a route                  *)
ReadsLog(k) == k[1] \in {"dashboard-signals", "signals", "routes", "pattern"}

-----------------------------------------------------------------------------
(* The cache.  An entry is what the last answer was ("none" before one,     *)
(* "json" for an answer of the API, else what customFetch made of something *)
(* that was not), the request it answered and the length of the log it was  *)
(* read from; whether the last fetch failed; and the request being fetched, *)
(* with the length of the log when it was sent.  Both lengths are 0 for the *)
(* queries whose answer does not depend on the log.                         *)
NoData == [kind |-> "none", request |-> None, upTo |-> 0, error |-> FALSE,
           fetching |-> None, since |-> 0]

LogRead(k) == IF ReadsLog(k) THEN Len(log) ELSE 0

Fetch(e, k, request) == [e EXCEPT !.fetching = request, !.since = LogRead(k),
                                  !.error = e.error /\ e.kind # "none"]
Dropped(e) == [e EXCEPT !.fetching = None, !.since = 0]
Answered(e, kind, n) == [kind |-> kind, request |-> e.fetching, upTo |-> n, error |-> FALSE,
                         fetching |-> None, since |-> 0]
Failed(e) == [Dropped(e) EXCEPT !.error = TRUE]

(* invalidateQueries: a first load under way is not started again           *)
FirstLoad(e) == e.fetching # None /\ e.kind = "none"
Refetch(e, k, request) == IF FirstLoad(e) THEN e ELSE Fetch(e, k, request)

-----------------------------------------------------------------------------
(* What is in view *)

ActiveBrand(v, c) ==
    IF c[BrandsQuery.key].kind # "json" THEN Loading
    ELSE IF v.brand \in Brands THEN v.brand ELSE FirstBrand

(* the queries with a mounted, enabled observer                            *)
Observed(v, c) ==
    {BrandsQuery} \cup (IF ActiveBrand(v, c) = Loading THEN {}
                        ELSE PageQueries(v, ActiveBrand(v, c)))
ObservedKeys(v, c) == {q.key : q \in Observed(v, c)}
ObservedRequest(v, c, k) == (CHOOSE q \in Observed(v, c) : q.key = k).request

(* the key of the query whose data the page's rows come from                *)
RowsKey(v, b) ==
    CASE v.page = "dashboard" -> <<"dashboard-signals", b, v.period>>
      [] v.page = "signals" -> SignalsQuery(b, v.filter).key
      [] v.page = "memory" -> RoutesQuery(b).key
      [] v.page = "patterns" -> PatternQuery(v.expanded).key

HasRows(v, c) ==
    /\ ActiveBrand(v, c) # Loading
    /\ v.page = "patterns" => v.expanded # None
    /\ c[RowsKey(v, ActiveBrand(v, c))].kind = "json"

RowsUpTo(v, c) == c[RowsKey(v, ActiveBrand(v, c))].upTo

PaneShows(v, c, b) ==
    IF v.pane # "emerging" THEN PaneRoutes[v.pane]
    ELSE IF c[<<"dashboard-patterns", b>>].kind = "json" /\ BrandPattern[b] # None
    THEN PatternRoutes[BrandPattern[b]] ELSE {}

RoutesInView(v, c) ==
    LET b == ActiveBrand(v, c) IN
    IF ~HasRows(v, c) THEN {}
    ELSE CASE v.page = "dashboard" -> BrandRoutes[b] \cap PaneShows(v, c, b)
           [] v.page = "signals" -> BrandRoutes[b] \cap FilterRoutes[v.filter]
           [] v.page = "patterns" -> PatternRoutes[v.expanded]
           [] v.page = "memory" -> BrandRoutes[b]

-----------------------------------------------------------------------------
(* The effects of a render.  Data that is read again and has not changed is *)
(* the same object, so an effect that depends on it does not run.           *)

PatternsData(v, c) ==
    IF ActiveBrand(v, c) = Loading THEN <<Loading, "none">>
    ELSE <<ActiveBrand(v, c), c[PatternsQuery(ActiveBrand(v, c)).key].kind>>

(* patterns.tsx: new data opens the first pattern, unless the open one is   *)
(* still listed                                                             *)
Expand(v, c) ==
    IF /\ v.page = "patterns"
       /\ view.page # "patterns" \/ PatternsData(v, c) # PatternsData(view, cache)
    THEN [v EXCEPT !.expanded = IF PatternsData(v, c)[2] = "json"
                                THEN BrandPattern[ActiveBrand(v, c)] ELSE None]
    ELSE v

RoutesData(v, c) ==
    <<ActiveBrand(v, c),
      [r \in RoutesInView(v, c) |-> RouteAudit(r, RowsUpTo(v, c))]>>

(* memory.tsx: new data replaces every mark                                 *)
MarksShown(v, c, ms) ==
    IF v.page # "memory" THEN [r \in Routes |-> None]
    ELSE IF v.page = view.page /\ RoutesData(v, c) = RoutesData(view, cache) THEN ms
    ELSE [r \in Routes |-> IF r \in RoutesInView(v, c)
                           THEN FeedbackCorrect(r, RowsUpTo(v, c)) ELSE None]

NoRow == [mounted |-> FALSE, shown |-> None, base |-> None, slot |-> None, failed |-> FALSE]

(* SignalRow: mounts with the owner of the data, and follows it when it     *)
(* changes                                                                  *)
RowShown(v, c, row, r) ==
    LET owner == Owner(r, RowsUpTo(v, c)) IN
    IF v.page = "memory" \/ r \notin RoutesInView(v, c) THEN NoRow
    ELSE IF ~row.mounted \/ v.page # view.page
    THEN [NoRow EXCEPT !.mounted = TRUE, !.shown = owner, !.base = owner]
    ELSE IF row.base # owner THEN [row EXCEPT !.shown = owner, !.base = owner] ELSE row

(* The commands a query in view may miss: its next fetch begins after them. *)
StillMissed(v, c) ==
    LET stays == ObservedKeys(v, c) \cap ObservedKeys(view, cache) IN
    [k \in Keys |-> IF k \in stays THEN missed[k] ELSE {}]

Follow(v, c) ==
    LET before == ObservedKeys(view, cache)
        now == ObservedKeys(v, c) IN
    [k \in Keys |-> CASE k \in now \ before -> Fetch(c[k], k, ObservedRequest(v, c, k))
                      [] k \notin now -> Dropped(c[k])
                      [] OTHER -> c[k]]

(* an array method called on what is no array (null is no data), or a field *)
(* of an answer used that the answer may lack                               *)
IsArray(e) == e.kind = "json" /\ AnswersArray(e.request)
Throws(v, c) == \E k \in ObservedKeys(v, c) :
                   \/ Mapped(k) /\ c[k].kind \notin {"none", "null"} /\ ~IsArray(c[k])
                   \/ c[k].kind = "json" /\ ~AnswerRenders[k]

(* the application after v, c, rs and ms: queries that came into view are   *)
(* fetched, those that left are dropped, effects run; or a page throws and  *)
(* takes the whole tree with it                                             *)
Render(v, c, rs, ms) ==
    LET w == Expand(v, c) IN
    IF Throws(w, c)
    THEN /\ crashed' = TRUE
         /\ view' = w
         /\ cache' = [k \in Keys |-> Dropped(c[k])]
         /\ rows' = [r \in Routes |-> NoRow]
         /\ marks' = [r \in Routes |-> None]
         /\ missed' = [k \in Keys |-> {}]
    ELSE /\ view' = w
         /\ cache' = Follow(w, c)
         /\ rows' = [r \in Routes |-> RowShown(w, c, rs[r], r)]
         /\ marks' = MarksShown(w, c, ms)
         /\ missed' = StillMissed(w, c)
         /\ UNCHANGED crashed

-----------------------------------------------------------------------------
(* What the user does *)

Opened(v, page) == [v EXCEPT !.page = page, !.period = "QTD", !.filter = AllFilters,
                             !.pane = "critical", !.expanded = None]

Turn(v) == /\ ~crashed /\ moves < MaxMoves
           /\ moves' = moves + 1
           /\ Render(v, cache, rows, marks)
           /\ UNCHANGED server

ChooseBrand(b) == /\ cache[BrandsQuery.key].kind = "json" /\ b # ActiveBrand(view, cache)
                  /\ Turn([view EXCEPT !.brand = b])
ChoosePeriod(label) == /\ view.page = "dashboard" /\ label # view.period
                       /\ Turn([view EXCEPT !.period = label])
ChoosePane(pane) == /\ view.page = "dashboard" /\ pane # view.pane
                    /\ Turn([view EXCEPT !.pane = pane])
ChooseFilter(f) == /\ view.page = "signals" /\ f # view.filter
                   /\ Turn([view EXCEPT !.filter = f])
TogglePattern == /\ view.page = "patterns" /\ PatternsData(view, cache)[2] = "json"
                 /\ BrandPattern[ActiveBrand(view, cache)] # None
                 /\ Turn([view EXCEPT !.expanded =
                             IF view.expanded = None
                             THEN BrandPattern[ActiveBrand(view, cache)] ELSE None])
Go(page) == page # view.page /\ Turn(Opened(view, page))

RerouteRow(r, o) ==
    /\ ~crashed
    /\ rows[r].mounted /\ rows[r].slot = None /\ o # rows[r].shown
    /\ \E s \in WebSlots :
          /\ Issue(s, RerouteSignal(r, o))
          /\ rows' = [rows EXCEPT ![r].shown = o, ![r].slot = s, ![r].failed = FALSE]
    /\ UNCHANGED <<view, cache, marks, missed, crashed, moves>>

MarkRoute(r, mark) ==
    /\ ~crashed
    /\ view.page = "memory" /\ r \in RoutesInView(view, cache) /\ marks[r] = None
    /\ \E s \in WebSlots : Issue(s, SubmitFeedback(r, mark))
    /\ marks' = [marks EXCEPT ![r] = mark]
    /\ UNCHANGED <<view, cache, rows, missed, crashed, moves>>

-----------------------------------------------------------------------------
(* Answers.  A query's answer is a projection of the log as it was at some  *)
(* moment since the request was sent.                                       *)

FetchArrives(k) ==
    /\ cache[k].fetching # None
    /\ \E n \in cache[k].since .. LogRead(k) :
          Render(view, [cache EXCEPT ![k] = Answered(@, "json", n)], rows, marks)
    /\ UNCHANGED server /\ UNCHANGED moves

(* No answer of the API: a status that is not ok, a body that does not     *)
(* parse, or the text of a page served in its place                        *)
FetchFails(k) ==
    /\ cache[k].fetching # None
    /\ moves < MaxMoves
    /\ moves' = moves + 1
    /\ \E f \in Faults :
          LET result == CustomFetch(f, "GET") IN
          Render(view, [cache EXCEPT ![k] = IF result.name = "data"
                                            THEN Answered(@, result.data, 0) ELSE Failed(@)],
                 rows, marks)
    /\ UNCHANGED server

Released(rs, s) == [r \in Routes |-> IF rs[r].slot = s THEN [rs[r] EXCEPT !.slot = None] ELSE rs[r]]
RolledBackKeepsOwner(rs, s) ==   \* the error is shown, the owner stays
    [r \in Routes |-> IF rs[r].slot = s THEN [rs[r] EXCEPT !.slot = None, !.failed = TRUE]
                      ELSE rs[r]]
RolledBack(rs, s) ==
    [r \in Routes |-> IF rs[r].slot = s
                      THEN [rs[r] EXCEPT !.slot = None, !.shown = rs[r].base, !.failed = TRUE]
                      ELSE rs[r]]

(* onSuccess: every query in view is fetched again                          *)
InvalidatedOnView(c) == c        \* nothing is refetched before it comes into view
Invalidated(c) ==
    LET now == ObservedKeys(view, c) IN
    [k \in Keys |-> IF k \in now THEN Refetch(c[k], k, ObservedRequest(view, c, k)) ELSE c[k]]

(* ... except by a first load, which may have been read before the command  *)
MissedWith(s) ==
    LET inView == ObservedKeys(view, cache) IN
    [k \in Keys |-> IF k \in inView /\ FirstLoad(cache[k]) THEN missed[k] \cup {s} ELSE {}]

CommandSucceeds(s) ==
    /\ Accept(s)
    /\ rows' = Released(rows, s)
    /\ cache' = IF crashed THEN cache ELSE Invalidated(cache)
    /\ missed' = IF crashed THEN missed ELSE MissedWith(s)
    /\ UNCHANGED <<view, marks, crashed, moves>>

(* onError: a row shows the owner of its data again; a mark stays           *)
CommandFails(s) ==
    /\ GiveUp(s)
    /\ rows' = RolledBack(rows, s)
    /\ UNCHANGED <<view, cache, marks, missed, crashed, moves>>

-----------------------------------------------------------------------------
Init ==
    /\ InitLog
    /\ view \in {[page |-> page, brand |-> None, period |-> "QTD", filter |-> AllFilters,
                  pane |-> "critical", expanded |-> None] : page \in FirstPages}
    /\ cache = [k \in Keys |-> IF k = BrandsQuery.key
                               THEN [NoData EXCEPT !.fetching = BrandsQuery.request] ELSE NoData]
    /\ rows = [r \in Routes |-> NoRow]
    /\ marks = [r \in Routes |-> None]
    /\ missed = [k \in Keys |-> {}]
    /\ crashed = FALSE
    /\ moves = 0

UserActs ==
    \/ \E b \in Brands : ChooseBrand(b)
    \/ \E label \in Labels : ChoosePeriod(label)
    \/ \E pane \in Panes : ChoosePane(pane)
    \/ \E f \in Filters : ChooseFilter(f)
    \/ TogglePattern
    \/ \E page \in Pages : Go(page)
    \/ \E r \in Routes, o \in Owners : RerouteRow(r, o)
    \/ \E r \in Routes, mark \in Marks : MarkRoute(r, mark)

(* The server's steps, and the reroutes of other callers, of which only    *)
(* what they leave in the log concerns the application.                     *)
ServerActs ==
    /\ \/ \E s \in Slots : Serve(s)
       \/ \E s \in WebSlots : Lose(s)
       \/ \E s \in OtherSlots, r \in Routes, o \in Owners :
             Accepted(r, o) /\ Issue(s, RerouteSignal(r, o))
    /\ UNCHANGED client /\ UNCHANGED <<missed, moves>>

FetchEnds(k) == FetchArrives(k) \/ FetchFails(k)

Next ==
    \/ UserActs
    \/ ServerActs
    \/ \E k \in Keys : FetchEnds(k)
    \/ \E s \in WebSlots : CommandSucceeds(s) \/ CommandFails(s)

Spec == Init /\ [][Next]_vars

-----------------------------------------------------------------------------
(* Properties *)

EntryType == [kind : {"none", "json", "text", "blob", "null"},
              request : PageRequests \cup {None}, upTo : Nat, error : BOOLEAN,
              fetching : PageRequests \cup {None}, since : Nat]

(* The shape of the server's log and requests and of the application's     *)
(* state; the requests are those the API's contract accepts.                *)
TypeOK ==
    /\ HandoffTypeOK
    /\ view \in [page : Pages, brand : Brands \cup {None}, period : Labels, filter : Filters,
                pane : Panes, expanded : Patterns \cup {None}]
    /\ cache \in [Keys -> EntryType]
    /\ \A k \in Keys : cache[k].fetching # None => MeetsContract(cache[k].fetching)
    /\ \A s \in Slots : req[s].request # None => MeetsContract(req[s].request)
    /\ rows \in [Routes -> [mounted : BOOLEAN, shown : Owners \cup {None},
                            base : Owners \cup {None}, slot : WebSlots \cup {None},
                            failed : BOOLEAN]]
    /\ marks \in [Routes -> Marks \cup {None}]
    /\ missed \in [Keys -> SUBSET WebSlots] /\ crashed \in BOOLEAN

(* The pages write their cache keys by hand, apart from the parameters of   *)
(* the request.  Whatever was chosen before, what a page shows was fetched  *)
(* with the request it would send itself: no key is shared by two requests. *)
(* And no answer of the API makes a page throw, as its contract has an       *)
(* array wherever a page calls an array method and a value for every field   *)
(* the views use without a default: only what is no answer does.             *)
CachedDataAnswersItsKey ==
    /\ ~crashed => \A q \in Observed(view, cache) :
                      cache[q.key].kind # "none" => cache[q.key].request = q.request
    /\ crashed => \E k \in Keys : cache[k].kind \in {"text", "blob"}

(* After a command's answer (SignalRow and memory: invalidateQueries), a     *)
(* settled query in view shows every command of the application that was     *)
(* accepted, whenever the query came into view; unless its first load was    *)
(* under way at the answer and it was not fetched since.  invalidateQueries  *)
(* does not start such a load again, so what it shows may be of before.      *)
ReadYourWrites ==
    ~crashed => \A k \in ObservedKeys(view, cache), s \in WebSlots :
                   /\ ReadsLog(k) /\ req[s].phase = "acked"
                   /\ cache[k].fetching = None /\ ~cache[k].error /\ cache[k].kind = "json"
                   => cache[k].upTo >= req[s].index \/ s \in missed[k]

(* A row with no command under way whose query has settled shows the owner  *)
(* of its data, or a reroute of its own that the data already shows undone. *)
SettledRow ==
    \A r \in Routes :
       LET e == cache[RowsKey(view, ActiveBrand(view, cache))] IN
       rows[r].mounted /\ rows[r].slot = None /\ e.fetching = None /\ ~e.error
       => \/ rows[r].shown = Owner(r, e.upTo)
          \/ \E i, j \in Events("handoff", r, e.upTo) :
                log[i].at < log[j].at /\ log[i].slot \in WebSlots /\ log[i].to = rows[r].shown
=============================================================================
