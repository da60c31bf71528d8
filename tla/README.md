# A verification project for Resound

Resound collects public customer signals about a brand (posts, reviews), has a language
model classify each of them, routes it to an owner, and keeps what was decided, by whom and
at what cost. The code is Python (`src/resound`): FastAPI for the HTTP API, SQLAlchemy over
one relational database, Temporal for background workflows, OpenRouter as the gateway to the
models, Apify for collection. The front end (`Resound-UI/Builtiful-Interface`, TypeScript)
is a React application over a generated client of that API, and beside it a sandbox that
previews mockups built with the same UI kit.

This directory holds TLA+ models of the parts where interleavings, failures and retries
decide whether the rows in the database, and what the user is shown of them, can be
believed, TLC runs on small instances, and TLAPS proofs of the same properties for instances
of any size.

## Inventory

| Part | State | Operations | Hard behaviour | What makes it correct | Where |
|---|---|---|---|---|---|
| Signal processing (`workflows/signal_processing.py`, writers of `memory`) | `signals`, `classifications`, `routes`, `llm_calls` | `process_signal`: read state, insert, classify, route, audit, two more inserts, each its own transaction | concurrent attempts on one event, Temporal retries beside a running attempt, crashes between commits, swallowed and fatal errors | rows agree with one another; answers are durable; only the fallback of a swallowed exception is classified without a row of the ledger; every event is answered | modelled |
| Signal triage agent (`agents/signal_triage.py`) | one agent session per run | classify, then route | one of two paid calls fails | the answer of the other is not lost | outcomes modelled inside signal processing |
| LLM gateway (`gateway/openrouter.py`) | models without JSON mode; locals of a completion | `complete`, `complete_validated` | retries, backoff, fallbacks, resend, one wall-clock cap over all | cost adds up, fallbacks are earned, one request at most outlasts the cap, it ends | modelled |
| Demo population (`ops/demo_population.py`) | one row of `workflow_jobs` used as a lease | acquire, renew, release around a sync per brand | runs that outlive their lease, kills, late heartbeats, partial failure | a displaced run stops and cannot end the new owner's lease; the status is true | modelled |
| Public listening sync (`workflows/public_listening.py`) | counts, `source_health`, workflow events | per source: run an actor, wait, process its items | one bad item ends a source, fatal errors end all, progress hook, overlapping syncs | every source is accounted for, nothing is counted twice, a lost lease stops it, it ends | modelled |
| Apify client (`social/apify.py`) | a run's status, deadline, poll interval | run, poll, fetch | deadline against late success | never polls past the deadline | as the sync sees it; the deadline is planned |
| Legacy pipeline (`pipeline.py`) | the same tables | `run_once` | a crash after `record_signal` strands a signal that `has_seen` then hides | every new signal is classified once | planned |
| Listening profiles (`memory` 683-894, `workflows/listening_setup.py`) | profile, revisions, suggestions | save, suggest, decide, set up | lost updates, repeated decisions, commit before history | an accepted value is in the profile; history explains the values | planned |
| Workflow jobs (`memory` 1155-1233, `api/routes/workflows.py`, `workflows/client.py`) | `workflow_jobs`, `workflow_events` | create, start, update handle, events | a start that fails after the row exists; a handle written after the workflow ended | a job's status tells its fate | planned |
| Handoffs, feedback (`api/projections.py` 294-357, `memory` 1394-1443, `api/routes/routes.py`) | `route_handoffs`, `feedback_events`, append-only | reroute, submit feedback, the projections that read them | retried requests, lost answers, two reroutes at once, an owner read in one transaction and recorded in another | one handoff per key; a handoff names an owner of its time; the newest handoff says who owns the route | modelled |
| Reports, retention (`reports/`, `workflows/retention.py`) | report runs, citations, signals | generate, verify, delete | citation against deletion, incomplete runs after a retry | a cited signal is kept | planned |
| Public feed (`memory` 1235-1292) | flags in a signal's metadata | show, hide, takedown, list | read-modify-write of the metadata | a takedown holds until a later show | planned |
| Rules router (`routers/rules.py`) | none | `route` | order of rules | first match wins, a default always answers | planned, as an operator |
| Tenancy (`memory` 530-656, `tenancy/`) | organizations, brands, memberships | `ensure_*` | select then insert | one row per slug | planned |
| Generated API client (`lib/api-client-react`), contract (`lib/api-zod`) | none between calls | 25 requests, their cache keys, `customFetch` | answers that are none of the API's | the application's requests meet the contract, and any of the client's but a public feed beyond its limit; an error never hides | modelled |
| Web application (`artifacts/resound/src`: pages, `SignalRow`, `BrandContext`, `viewModels`) | query cache (external), optimistic rows, marks, the page's choices | choose, reroute, judge; render effects | refetches beside commands, hand-written cache keys, rollbacks, effects that run on change only | data answers its key; the user reads his own writes, unless a first load was under way; a row settles on the server's owner | modelled |
| Mockup preview plugin (`mockup-sandbox/mockupPreviewPlugin.ts`) | generated module, two refresh flags, the watcher | refresh, watch, rescan | files that come or go during a listing, folded calls | no notice is lost; the module tells the directory | modelled |
| Mockup page (`mockup-sandbox/src/App.tsx`) | loads under way, component, error | open, load, hot update | a late load of a replaced module | what is shown is one of the page's modules | modelled |
| UI kit (`components/ui`, `hooks`; the two copies are the same code) | toast store and timers; sidebar; carousel; chart tooltip | the operations of each | timers outside React, state of an earlier render, remembered values | toasts go, and only dismissed ones; the cookie tells the sidebar that keeps its own state; buttons tell the position; labels are current | the parts with state modelled |
| Express API server (`artifacts/api-server`), drizzle schema (`lib/db`) | none | a health route | - | - | not modelled |
| Sources, other agents, configuration, CLI, dashboard, styling | none that is shared | I/O, parsing, presentation | - | - | not modelled |

How they meet: the CLI calls `populate_demo_brands`, which holds the lease and calls
`sync_public_listening` once per brand with a callback that renews it; the HTTP API starts
the same sync as a Temporal workflow. The sync calls `process_signal` for every item;
Temporal also runs `process_signal` as an activity of its own. `process_signal` runs the
triage agent, whose two stages are completions of the gateway. All of them meet in the
database: there is no lock in the program but the UNIQUE columns and the lease row. The web
application reads projections of the same rows through the generated client, and writes two
tables, handoffs and judgements; it has its own copy of what it read in the query cache,
which every command invalidates. The sandbox has no server but the preview plugin; it shares
the UI kit with the application.

## Modules

| Module | What it is |
|---|---|
| `SignalLedger` | abstract: per dedupe key, recorded, classified, routed, one stage at a time, and the decision persists |
| `SignalProcessing` | `process_signal` run by any set of workers over any set of keys; refines `SignalLedger` |
| `SignalProcessingProofs`, `SignalLedgerProofs` | its safety theorems; the refinement theorem |
| `PopulationLease` | abstract: one run has the lease at a time, renews it, releases it or loses it when it is stale |
| `DemoPopulation`, `DemoPopulationProofs` | the lock row and the run around it; refines `PopulationLease`; its theorems |
| `PublicListening`, `PublicListeningProofs` | attempts at `sync_public_listening` over shared sources and signals; refines `SignalLedger` too; its theorems |
| `LLMGateway`, `LLMGatewayProofs` | one gateway instance serving completions, and its theorems |
| `RouteOwnership` | abstract: every route has tickets, the newest says who owns it and whence; a key takes effect once |
| `RouteHandoffs`, `RouteHandoffsProofs` | reroute and feedback commands over the append-only log; refines `RouteOwnership`; its theorems |
| `ApiClient` | the requests of the generated client, cache keys, `customFetch` |
| `ApiContract` | what each endpoint accepts and answers, by the zod schemas |
| `AnswerFields` | which fields of an answer always have a value, and which the views use without a default |
| `WebClient`, `WebClientProofs` | the web application, composed with `RouteHandoffs` as its server and `ApiContract`; its theorems |
| `MockupPreview` | the preview plugin, its watcher and the directory |
| `ToastStore`, `SidebarState`, `CarouselState`, `ChartTooltip` | the components of the UI kit that keep state |
| `MockupSandbox`, `MockupSandboxProofs` | the plugin, the page and the kit together; its theorems |
| `MC*` | the small sets of the TLC runs |

### SignalProcessing

A *worker* is one execution of `process_signal`: a Temporal attempt, an attempt that
outlived its start-to-close timeout and still runs beside its retry, or a call from the sync
loop. One database statement or one model call is one action; the name of `pc`'s value is
the next thing the worker does.

| Action | Code |
|---|---|
| `Deliver` | a workflow or the sync hands the worker an event |
| `ReadState` | `_existing_signal_state` and the two early returns |
| `RecordSignal`, `RecordClassification`, `RecordRoute` | the three inserts; `dedupe_key` and both `signal_id` columns are UNIQUE, so each has a branch that raises |
| `ClassifyAnswered`, `RouteAnswered` | the triage agent's two stages with their review fallbacks |
| `ClassifyFailed`, `AuditFailure` | an `LLMGatewayError`: its audit row, then a fallback classification or, for an invalid one under a demo profile, the status `failed` |
| `AuditClassify`, `AuditRoute` | the `llm_calls` rows, after both stages |
| `Unexpected` | `except Exception`: a fallback classification replaces whatever was answered |
| `FatalError` | configuration and credential errors leave the function |
| `Crash`, `Retry` | a killed process or failed transaction; Temporal's next attempt |

A fallback classification is off-brand with action IGNORE, so the rules router can only
answer `ignored_by_classifier`; the router's other rules are therefore not needed here. The
injected classifier's path takes a subset of these steps (no route call). The
`agent_sessions` rows of the triage agent are left out: no property reads them, and an error
in writing them is among `Unexpected`. On the CLI's path nothing retries; the safety
properties do not need `Retry`, the liveness property speaks of Temporal's path. `charged`,
`cutOff` and `unwritten` are history: the classify answers a signal was billed for, the keys
whose worker died between the last two commits, and the keys of which a fault took a paid
answer before its row was written. A refused answer (`ClassifyFailed`) may have been billed
too; `charged` leaves it out, so what it bounds are successful answers.

### DemoPopulation

One invocation draws one owner token, so the token is the invocation. `Begin`, `Select`,
`Insert` and `Update` are the statements of `_acquire_population_lock`; `Beat` reads the
clock and `RenewForBrand` or `RenewInSync` is the conditional UPDATE of
`_renew_population_lock`, which may run any time later; `Work` is what a sync does between
two heartbeats, `SyncReturns` its return with the verdict of `_population_result`;
`BrandEnds` appends a summary and decides whether the loop goes on; `Abort` and `Release`
are the `except BaseException` and `finally` blocks. The processes share one clock (`now`):
a skew between hosts would shift `Lease` by as much. `Kill` stands for a killed process and
for a database error where the code catches none; the select of the row's id after the
acquiring UPDATE (439-443) is part of `Update`, and its failure is a `Kill` at the next
step. `displaced` and `overrun` are history.

### PublicListening

A member of `Sync` is one execution of `sync_public_listening`: a Temporal activity, an
activity that outlived its fifteen minutes beside its retry, or (`Leased`) the sync of a
population run, the only kind with a progress callback. `NextSource`, `TakeItem`, `Beat` and
`Poll` are the four places that call the hook; `MayGoOn` is `_report_progress`, whose error
leaves through `Raise`. `StartActor`, `Poll` and `Fetch` are the Apify calls; `ReadState` to
`RecordRoute` are what `process_signal` reads and commits (`SignalProcessing` has its audit
and errors in full); `LoadHealth`, `RecordOk` and `RecordFailed` are the select and the
write of `record_source_health`, whose row is UNIQUE per source and whose UPDATE writes only
changed columns. Nearly everything in the `try` block can raise, so `SourceFails` may end
the source at any of its places, a status `failed` and a refused commit included; from
`bad_load` on an error leaves the function. `Lapse` is another run's takeover in
`DemoPopulation`. `taken`, `credit` and `late` are history: the signals of the datasets, who
was counted as processed, and the paid work (an actor run, a classification) begun under a
lapsed lease. Locals that the code would overwrite before it reads them are reset, which
only keeps the state space small.

### LLMGateway

`Start` is `complete` or `complete_validated`, with or without JSON. `Attempt` is the head
of the inner loop with both deadline checks, `Resend` the second request of `_call_once`,
`Wait` the time a request takes. The answers of the SDK are `Answered`, `TransientFailure`,
`Unavailable`, `JsonModeRejected` and `Refused`, the classes of `_raise_classified`. The SDK
is external, and a request here is one call of its `create()`: the constructor
(`openrouter.py:104`) leaves the SDK's own retries on, and `timeout=remaining` (`:314`) is
given to every try and every phase of one, so that a call may last past the deadline. `Wait`
lets it, by up to `Overrun`; nothing in the code stops it. `docs/design_decisions.md:20`
calls `timeout_s` a hard ceiling. What the code keeps of that is `OneRequestOutlastsTheCap`:
the deadline is looked at before every request and every backoff, so only the last request
of a completion can be late. `overdue` is history: the requests that were under way at the
deadline. `Extracted` is the regular expression that looks for a JSON object. Costs are 0 or
1: what matters is which responses are summed. Time is in whole seconds; every constant of
the code is a whole number of seconds.

### RouteHandoffs

A *slot* is one request: what it asks, how far the server is with it, and the owner it read.
`RefuseReroute` and `ReadOwner` are `reroute_signal` up to its projection; `AnswerFromKey`,
`MakeHandoff`, `InsertHandoff` and `InsertClash` are `record_route_handoff`: the lookup by
key, the row, whose `created_at` is the server's clock at that moment, and the insert that
the unique index may refuse. `MakeFeedback` and `RecordFeedback` are `submit_feedback`. The
owner is validated only where the route's brand has a configuration (`Accepted`):
`_optional_brand_config` answers none where its file is missing, and then any owner is
taken. The router's first owner (`FirstOwner`) may be any owner too, `(none)` among them.
The projections order rows by time and then id, so the `Newest` handoff need not be the last
committed: a row made earlier and committed later changes nothing, although its caller was
answered with success. Every row made gets a later time than the one before, which assumes
that the server's clock does not go back; equal times fall to the id. `Lose` loses the
request, the work or the answer; `Retry` sends a keyed command again, also while the first
still runs. Handoffs and judgements share one log, in the order of their rows, and `Owner`,
`ReroutedFrom`, `FeedbackCorrect` and `RouteAudit` read any prefix of it, which is how a
stale answer is expressed. `AnswerFromKey` and `ReadOwner` are apart although the code reads
the owner first and looks the key up later, because another request may be served in
between. `Lose` ends the server's work with the caller's wait; in the code a handler whose
caller has gone runs on, and no conjunct turns on the difference, since an answer may be
lost after the row as well (`Lose` when `recorded`).

### ApiClient, ApiContract, AnswerFields

A request is a method, a path template and its values. The client never sends an
`Idempotency-Key` (`Request` has `NoKey`), although `record_route_handoff`'s docstring asks
callers for one. `CustomFetch` classifies a response by its status, emptiness, media type
and what its body reads as. The contract accepts a request by the same parts. In
`AnswerFields` an optional or nullable field is one the views may not use; a view's use with
a fallback (`route.confidence ?? classification.confidence`) needs one of several. The
schemas are kept with their required parts and what can refuse a request the pages send or
the client can be asked for: choices, the required `brandNames` of a listening profile, the
1 to 50 of the public feed's `limit`. Other limits and offsets, optional fields that are
free text and the tenant's headers are left out. The public feed's limit is the one place
where the client, which passes any number on, can send what the contract refuses, and
`ClientMeetsContract` says so; no page asks for that feed.

### WebClient

One tab and one page load. `Render` is what React does with a new choice or new data: the
queries in view are fetched and others dropped (`Follow`), effects run (`Expand`,
`MarksShown`, `RowShown`), or a page throws and, as there is no error boundary, takes the
tree with it. TanStack Query is external and modelled from its use: an entry holds the last
answer with the request it answered and the length of the log it was read from (any length
between the sending and the arrival); `invalidateQueries` refetches what is in view but not
a first load under way. `CommandSucceeds` and `CommandFails` are `onSuccess` and `onError`
of `SignalRow` and of the memory page. The server is `RouteHandoffs`, and other callers
reroute too. `missed` is history: per key, the commands answered while a first load of it
was under way. `invalidateQueries` does not start such a load again, so it may settle on the
log as it was before the command (the user sees his own command undone until the next
fetch). `ReadYourWrites` says that this is the only way: every settled query in view shows
every acknowledged command but those it missed in that way. Rows kept by an animation of
removal are left out, and so are refetches on focus or reconnection, which only add fetches;
a row that re-mounts on another page starts anew.

### MockupPreview, MockupSandbox

`Begin`, `Refresh` and `RefreshEnds` are `refresh` with its two flags; a listing returns any
set that differs from the directory only in files that came or went since it began
(`dirty`). `OnAdd`, `OnUnlink` and `Rescan` are its callers; `Watch`, `WatcherReady` and
`known` the watcher (chokidar, external), which ignores what its first scan finds. `news`
and `covered` are history. `OpenPage`, `HotUpdate`, `LoadArrives` and `LoadFails` are
`PreviewRenderer`. A mockup uses one of `WidgetSets`: the kit's modules are instances over
variables of `MockupSandbox`, mounted when the component is shown, and the toast store and
its timers outlive the component but not the page. The kit's components do not interact, so
sets with one or two of them cover them. A render and its passive effects are one step, so
the frame between them, in which an effect has not yet run, is left out; so is a toaster's
listener between its removal and its renewal within one flush. A watcher that an in-process
restart of Vite leaks is not modelled. `SidebarProvider` is modelled with all its props:
with `open` the page keeps the state and with `onOpenChange` it is told. `setOpen` writes
the cookie in every case, so under either prop the cookie may tell what the sidebar is not;
`CookieTellsSidebar` is the promise to the sidebar that keeps its own state. `CarouselState`
follows Embla's API from none to made to heard, and `ChartTooltip` the memo of its label:
`Dependencies` is the hook's dependency list.

## Runs

| Run | Instance | Shows |
|---|---|---|
| `signal_processing` | 3 workers, 1 key, demo profile, 1 crash, 1 fatal error (248,360 states) | all safety properties, what a signal may cost (`ChargesAreBounded`), and `ImplementsLedger` |
| `signal_processing_answers` | 2 workers, 2 keys, 1 crash, 1 fatal error (258,005 states) | `EveryEventIsAnswered`; `RetriesRunOut`, its bound in steps |
| `signal_processing_double_charge` | 2 workers, 1 key, no fault | refutes `DuplicateIsNotChargedTwice` |
| `signal_processing_unpaid_ledger` | 2 workers, 1 key, 1 fatal error | refutes `PaidCallsAreInTheLedger` |
| `population_lease` | 2 runs, one with `--continue-on-error`, 2 brands, lease 1, clock to 4, 1 kill (167,664 states) | all lease properties and the refinement of `PopulationLease` |
| `public_listening` | a leased sync and a Temporal one, 2 sources, 1 item each, 1 retry (1,729,911 states) | all safety properties of the sync |
| `public_listening_ends` | the same two, 1 source with 2 items, 1 retry, 1 kill (79,709 states) | `SyncEnds`; `SyncStepsRunOut`, its bound in steps |
| `llm_gateway` | 2 models, timeout 14 s, a request up to 2 s late (46,123 states) | all gateway properties, `RequestsAreBounded` among them, and `CompletionEnds` |
| `llm_gateway_attempts` | 2 models, timeout 8 s | refutes `AttemptCountIsHttpAttempts` |
| `route_handoffs` | 3 requests, 2 routes, one of a brand without a configuration, 1 key, an owner the brand does not know (1,396,958 states up to symmetry) | `AcceptedCommandIsRecorded`, `HandoffChain`, refinement of `RouteOwnership` |
| `web_client` | 2 brands, 1 route, 1 pattern, 2 windows, 2 filters, opened at any page, one request of the application and one of another caller, 1 click or fault besides the commands, faults 500 and a served page (279,554 states) | `CachedDataAnswersItsKey`, `ReadYourWrites`, `SettledRow` |
| `mockup_sandbox` | 1 mockup and a hidden file, 2 changes of the directory, 3 widget sets, 2 toasts, 2 slides, 4 chart payloads (409,264 states) | all sandbox properties |

Why these bounds are enough to see the hard cases. Keys do not interact in the safety
properties, so one key suffices there; three workers give a race of two, a crashed one with
its retry, and a late duplicate. Two keys are needed for liveness only to show that a worker
is not held up by another key's traffic. In the lease, a clock of 4 with a lease of 1 lets
the row go stale twice, so that a displaced run can come back to the row while its successor
is itself stale; two brands give a loop with a first and a last turn. Two sources let one
fail and the next go well; the two items of the second instance have the same external id,
so that a dataset repeats a signal, which the one-item instance cannot show; an exception
that leaves the function stands for a kill in the first instance. A timeout of 14 s holds
two full chains of backoffs (2 s + 4 s each) with time left for late answers, so that a
chain is exhausted as well as cut off; two seconds past it are enough for a late request to
fail, to be answered or to go on. Three requests of the route API are two that race and the
retry of one; a second route is there so that a row of one could be read for the other; one
key suffices, as a key is only compared with itself. In the web application one request of
its own and one of another caller give the stale read, the rollback and the row that another
caller moves back; two windows and two filters are what two keys could be confused over. One
click or fault multiplies the states by thirty, so the run opens at every page instead of
walking there, and longer walks rest on the theorems, which hold for any number. Two changes
of the directory let a file come and go during one listing; two toasts are one above the
limit of the store, two slides give a carousel with a first and a last one. The bounds
themselves (`MaxCrashes`, `MaxFatals`, `MaxTime`, `Overrun`, `MaxKills`, `MaxMoves`,
`MaxChanges`, `MaxToasts`, `MaxSlides`) are constants of the modules and the theorems hold
for every value of them.

The three `violation` runs are disagreements between a document of the repository and the
code; `PROJECT.json` quotes the lines under "findings".

- A second delivery of a signal that is recorded but not yet classified is taken for one to
  resume, and is classified and billed again. What does hold is `ChargesAreBounded`: a
  signal is paid for at most once per delivery and once per crash or fatal error, however
  its attempts race; retries that follow a lost race are free.
- `llm_calls` rows are written after both stages: a fatal error of the route stage loses the
  row of the classify call.
- `attempt_count` counts attempts, and an attempt that meets a refused JSON mode sends two
  requests.

What the runs show besides: a signal whose worker dies between its last two commits is
answered `duplicate` for ever and never routed (`OnlyCutOffSignalsLackRoutes` says that this
is the only way a signal is left unrouted); a displaced run does at most the work between
two heartbeats beside its successor. In the web application a reroute whose answer is lost
is rolled back on the page although the server has it, until the next fetch shows it again;
a judgement that was refused stays marked as given; a page served in place of an answer
takes the application down where the code maps over it; and a first load under way when a
command is answered is not started again, so it may show the log as it was before (the
commands `missed`, see above). These outcomes are in the models and no property is claimed
against them, as nothing in the repository says what a page should show instead;
`PROJECT.json` lists them among the hazards, with the reason.

## Fairness

`SignalProcessing` assumes weak fairness of each worker's own steps (`Attempt`): code that
has not been killed runs on, the models answer or fail (every completion ends, shown in
`LLMGateway`), and Temporal's default retry policy starts the next attempt of one that
raised. Nothing is assumed of `Deliver` and `Crash`. `LLMGateway` assumes that the code runs
on and that a request ends at last, which is asked of the network and the SDK, whose tries
are finite; the caller's next `Start` is not forced. `PublicListening` assumes that an
attempt that was not killed goes on: Apify's polls end by the deadline of `wait_for_run` and
the gateway's completions end, so both are one step there. `Retry`, `Kill` and `Lapse` are
not forced. `DemoPopulation`, `RouteHandoffs`, `WebClient` and `MockupSandbox` state no
liveness and assume no fairness.

## Proofs

The theorems hold for every set of keys, workers, runs, models, callers, routes, brands,
filters and files and every value of the numbers, under the ASSUMEs of the modules (numbers
are naturals, the workers finitely many, at least one brand, model and second; the default
window and the empty filter are among those the pages offer; a fault is no JSON answer).

- `SignalProcessing`: `IInv` adds to the properties that ids are handed out in order and a
  signal has one classification (`ClassificationsKeyed`), that a verdict in memory agrees
  with its rule and is audited before it is stored (`VerdictsCoherent`), and that a worker
  about to route holds the id of the signal's classification (`RouterHoldsClassification`).
  The last is why the route write cannot conflict: a rival at the same step would have
  needed a second classification. Each conjunct is a lemma over the actions; a frame lemma
  says what a worker's step leaves to the others. `OnlyErrorsEscape` says that a
  classification without its row in the ledger is the fallback of an exception the code
  swallowed (`Unexpected`) and nothing else, and that a paid answer without its row is still
  held by an attempt that will write it, or was lost to such an error, a fatal one or a
  crash. `AttemptsRunOut` gives each worker a number of steps (`StepsLeft`): a worker that
  lost a race finds its signal one stage further when it is retried, so that thirteen steps
  always do, and the tables only grow, so that no rival adds to them; the route write has no
  race to lose (`RouteWriteNeverConflicts`). `ChargesBounded` counts the workers that may
  still pay for a signal (`MayPay`): a delivery or a fault adds one, the model's answer
  moves one from there to the bill (`ChargesAccounted`), and a lost race adds none, because
  the loser at the classification is classified and the loser at the signal row had not
  paid.
- `SignalLedgerProofs`: under `IInv` the three inserts map to `Record`, `Classify`, `Route`
  and every other step to a stutter.
- `DemoPopulation`: `LeaseStates` says that past the acquisition a run owns the row or was
  displaced, never both, and that a displaced run never owns it again; `FinalIsHonest` says
  that `final_status` is `completed` only while every brand so far was filled;
  `TimesArePast` bounds the times read for late heartbeats, and says that the owner's
  heartbeat is no later than the time it read last. `FreshLeaseIsKept` follows, and with it
  `RunsImplementLease`: the row's owner is the lease's holder, the UPDATE and the INSERT of
  `_acquire_population_lock` are `Take`, a delayed heartbeat is a `Renew` that goes forward
  or nothing, `Release` ends it, and a kill leaves the holder its lease until it is stale.
- `PublicListening`: `SourcesInOrder` says that exactly the sources behind an attempt are in
  its lists and have a health row; `TakenAreStored` that what the source at hand brought is
  stored but for the item in work, and that a signal never comes from a source ahead;
  `LateWorkIsLast` that an attempt which did late work stands where a hook is ahead of the
  next. Two frame lemmas carry them past the steps of the others: locals are private and the
  shared rows only grow. `StepsRunOut` counts what an attempt has ahead: `AtItem` steps of
  the item at hand, the items left, the sources left; a rival's commit can only shorten it,
  since a refused write ends the source. `SyncImplementsLedger` maps the sync's view of the
  three inserts to `SignalLedger`, the specification that `SignalProcessing` implements: the
  two modules agree on what a signal may become.
- `LLMGateway`: `CostSoFar` relates the tally of a validated completion to what was billed,
  `BudgetSoFar` the failures of the current model to the attempt, `RejectionsRemembered` the
  refusals to the remembered models. `RequestsSoFar` bounds the requests up to the current
  model by its attempts and, where the model has refused JSON mode, one resend;
  `RequestsAreBounded` follows. `OverdueIsLate` says that a request is overdue only past the
  deadline, from where nothing is sent; `CapOutlastedOnce` follows.
- `RouteHandoffs`: `RowsOfRequests` says that a row has what the request that wrote it
  asked, `KeyNamesOneCommand` that requests with one key ask the same, `RequestsUnderWay`
  that the owner a request has read was the owner at some length of the log since it was
  sent, `OwnersOwn` that owners are owners, and `Stamps` that no two rows, in the log or
  about to enter it, were made at the same time, so that one of them is the newest. Every
  step leaves the log as it is (`QuietStep`) or appends one row (`RecordingStep`), and a
  projection of a prefix does not change with what follows (`PrefixStable`). In the
  refinement a row that is made draws a ticket, its insert is the abstract reroute, a
  command that fails or is answered from its key after that gives the ticket back, and every
  other step is a stutter. `AcceptedCommandsAreRecorded` includes that no request writes two
  rows (`OneRowPerRequest`), and `HistoryStable` that a projection of the log as it was
  never changes, on which the stale reads of `WebClient` rest.
- `WebClient`: every step is one of `RouteHandoffs` or leaves the server alone
  (`WebClientIsACaller`), so that module's invariant holds behind the application, and so do
  its properties, the action property and the refinement included (`ServerPromisesHold`).
  `WebInv` adds that the request of a cache entry is a function of its key (`CacheInv`),
  that a query in view was read, or is being read, no earlier than the row of any command
  acknowledged since that it has not missed (`MissedInv`), and that a row shows its data's
  owner, or waits for its own command, or its handoff is in the log and the fetch under way
  or the data covers it (`RowsInv`). `RenderStep` carries the three through a render with
  whatever a fetch brought; the other steps keep every row of the log (`Kept`).
  `ClientMeetsContract` compares the client's requests with the contract's schemas endpoint
  by endpoint: whatever a caller names is accepted, but for the public feed, which is
  accepted exactly with a limit of 1 to 50 (one that is left out counts as its default).
- `MockupSandbox`: `PluginInv` says that a notice never waits while no listing is under way
  (`Notified`) and that the module is what was listed last (`Written`); `PageInv` that a
  load not cancelled is of a listed module and nothing is shown before it ends; `KitInv`
  that exactly the dismissed toasts have a timer and a timer is of a toast there was
  (`TimersInv`), that the cookie tells the next state of a sidebar that keeps its own
  (`CookieTells`), that the buttons tell the position once the carousel was heard
  (`ButtonsTellPosition`) and that what a tooltip remembers was computed from the values it
  depends on (`Remembers`).

Model-checked only: `EveryEventIsAnswered`, `SyncEnds` and `CompletionEnds` (liveness under
fairness and ENABLED are beyond the prover). Their safety halves are proved for instances of
any size: `AttemptsRunOut` and `StepsRunOut` leave no room for a livelock among rivals, and
`RequestsBounded` with `CapOutlastedOnce` bounds a completion in requests and, but for its
last request, in time; what TLC adds is that a worker that has steps left can take one.
Proved without a run of their own, because a stronger property of the run covers them:
`FreshLeaseIsKept` (by `ImplementsLease`), `HandoffTypeOK` (by the application's `TypeOK`).
The types of `PublicListening`, its refinement of `SignalLedger` and `HistoryIsStable` are
theorems only; TLC agreed with them on the instances above. No module declares a RECURSIVE
operator.

## Plan

Done: `SignalProcessing` with `SignalLedger`; `DemoPopulation`; `LLMGateway`;
`PublicListening`; `RouteHandoffs` with `RouteOwnership`; `WebClient` over it, with its
proofs; `MockupSandbox`.

1. `WorkflowJobs`: a job's row, its workflow's handle and events, and a start that fails
   between them; `ApifyRun`: the poll loop with its deadline on a clock; `Tenancy`: the
   `ensure_*` races.
2. `ListeningProfile`: decisions and saves by several users, set-up retried. Proof that an
   accepted value was in the profile when accepted.
3. `LegacyPipeline` beside `SignalProcessing` on the same tables, and `RulesRouter` as an
   operator against a reference definition.
4. `RetentionAndReports` and `PublicFeed`.

The order of what is done is that of what a failure costs: first what spends money and
writes the rows everyone reads, then what users decide and what they are shown of it. The
Python parts that are left are each a few statements in one session; the prover takes module
2 next, the others are for TLC first.

## Not modelled

- HTTP clients of the sources, field mapping and prompts (data conversion); configuration
  parsing; the dashboard and the CLI's output (presentation); the agents other than triage
  (one call each, no state between calls).
- Of the read side, the counts, periods, tenancy filters and serialisation; the projections
  of the route log and the shapes of requests and answers are modelled.
- The Express server: it mounts a health route only, whose schema asks for fields that the
  handler does not give; the brands router is not mounted and the drizzle schema has no
  reader.
- Of the web application, layout and animation, the not-found page, and the refetches on
  focus and reconnection; of the generated client, the base URL and the getters of the token
  and the organization; of the UI kit, the components without state of their own, the form
  and its fields included (react-hook-form keeps it).

Database isolation is taken as one statement or one short transaction at a time, which is
what the code relies on beyond its UNIQUE columns; sessions that read and write in one
transaction belong to the modules still planned.
