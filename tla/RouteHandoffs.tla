--------------------------- MODULE RouteHandoffs ---------------------------
(***************************************************************************)
(* The API's two commands on a route, reroute and submit_feedback, over   *)
(* the append-only tables route_handoffs and feedback_events, here one    *)
(* log in the order of their commits.  A row carries the time at which the *)
(* server made it, before it was committed; the owner and the judgement a   *)
(* read shows are those of the newest of the rows committed by then.  A    *)
(* request occupies a slot: what it asked, how far the server has taken it, *)
(* the owner it read, the length of the log when it was sent and the time   *)
(* of its row.  Any number of callers: a caller that sends an                *)
(* Idempotency-Key may send its command again.                              *)
(***************************************************************************)
EXTENDS ApiClient, FiniteSets

CONSTANTS FirstOwner,   \* the owner the router chose, per route
          Configured,   \* routes of brands that have a configuration file
          ValidOwners,  \* owners the brand's configuration knows
          Marks,        \* judgements of a routing that are sent
          Slots,        \* requests of a behaviour
          IdempotencyKeys,
          None

ASSUME HandoffAssumption == /\ FirstOwner \in [Routes -> Owners]
                            /\ ValidOwners \subseteq Owners
                            /\ NoKey \notin IdempotencyKeys
                            /\ Marks \subseteq FeedbackInput
                            /\ None \notin Owners \cup FeedbackInput

VARIABLES log, req,
          clock   \* the newest time a row was made at

HandoffRow == [kind : {"handoff"}, route : Routes, from : Owners, to : Owners,
               since : Nat, at : Nat, key : IdempotencyKeys \cup {NoKey}, slot : Slots]
FeedbackRow == [kind : {"feedback"}, route : Routes, from : {None}, to : Marks,
                since : Nat, at : Nat, key : {NoKey}, slot : Slots]

(* order_by(created_at, id): the last row is the one made last.  Rows of    *)
(* the same instant count as made in the order of their ids.                *)
NewestCommitted(rows, S) == CHOOSE i \in S : \A j \in S : j <= i   \* no order_by created_at
Newest(rows, S) == CHOOSE i \in S : \A j \in S : rows[j].at <= rows[i].at

Events(kind, r, n) == {i \in 1 .. n : log[i].kind = kind /\ log[i].route = r}

(* The owner of a route and the judgement of its routing, as read from the *)
(* first n rows.                                                            *)
Owner(r, n) == IF Events("handoff", r, n) = {} THEN FirstOwner[r]
               ELSE log[Newest(log, Events("handoff", r, n))].to
ReroutedFrom(r, n) == IF Events("handoff", r, n) = {} THEN None
                      ELSE log[Newest(log, Events("handoff", r, n))].from
FeedbackCorrect(r, n) == IF Events("feedback", r, n) = {} THEN None
                         ELSE log[Newest(log, Events("feedback", r, n))].to

(* the time of the newest handoff, 0 when the route is still the router's  *)
HandoffAt(r, n) == IF Events("handoff", r, n) = {} THEN 0
                   ELSE log[Newest(log, Events("handoff", r, n))].at

RouteAudit(r, n) == [owner |-> Owner(r, n), reroutedFrom |-> ReroutedFrom(r, n),
                     feedbackCorrect |-> FeedbackCorrect(r, n),
                     createdAt |-> HandoffAt(r, n)]

-----------------------------------------------------------------------------
NoRequest == [request |-> None, phase |-> "free", from |-> None, since |-> 0, at |-> 0,
              index |-> 0]

IsReroute(s) == req[s].request.path = "/api/routes/{}/reroute"
IsFeedback(s) == req[s].request.path = "/api/routes/{}/feedback"
RouteOf(s) == req[s].request.args[1]
Asked(s) == req[s].request.body[1]

InitLog == log = <<>> /\ req = [s \in Slots |-> NoRequest] /\ clock = 0

Issue(s, request) ==
    /\ req[s].phase = "free"
    /\ req' = [req EXCEPT ![s] = [NoRequest EXCEPT !.request = request, !.phase = "sent",
                                                   !.since = Len(log)]]
    /\ UNCHANGED <<log, clock>>

Fail(s) == /\ req' = [req EXCEPT ![s].phase = "failed", ![s].from = None]
           /\ UNCHANGED <<log, clock>>
Advance(s, phase) == req' = [req EXCEPT ![s].phase = phase]

(* reroute_signal validates the owner when the route's brand has a         *)
(* configuration, and takes any owner when it has none                      *)
Accepted(r, o) == r \in Configured => o \in ValidOwners

RefuseReroute(s) ==
    /\ req[s].phase = "sent" /\ IsReroute(s)
    /\ ~Accepted(RouteOf(s), Asked(s))
    /\ Fail(s)

(* the current owner is read, to become the row's from_owner               *)
ReadOwnerOfRouter(s) ==        \* the router's owner, not the newest handoff's
    /\ req[s].phase = "sent" /\ IsReroute(s)
    /\ Accepted(RouteOf(s), Asked(s))
    /\ req' = [req EXCEPT ![s].phase = "read", ![s].from = FirstOwner[RouteOf(s)]]
    /\ UNCHANGED <<log, clock>>
ReadOwner(s) ==
    /\ req[s].phase = "sent" /\ IsReroute(s)
    /\ Accepted(RouteOf(s), Asked(s))
    /\ req' = [req EXCEPT ![s].phase = "read", ![s].from = Owner(RouteOf(s), Len(log))]
    /\ UNCHANGED <<log, clock>>

KeyedRows(k) == {i \in 1 .. Len(log) : k # NoKey /\ log[i].key = k}

(* a row with the request's key answers it: nothing is appended            *)
AnswerFromKey(s) ==
    /\ req[s].phase = "read"
    /\ \E i \in KeyedRows(req[s].request.key) :
          req' = [req EXCEPT ![s].phase = "recorded", ![s].from = None, ![s].index = i]
    /\ UNCHANGED <<log, clock>>

(* The row is made: created_at and submitted_at are the server's clock at   *)
(* that moment, not at the commit.                                          *)
MakeRow(s) ==
    /\ clock' = clock + 1
    /\ req' = [req EXCEPT ![s].phase = "inserting", ![s].at = clock + 1]
    /\ UNCHANGED log

MakeHandoff(s) ==
    /\ req[s].phase = "read"
    /\ KeyedRows(req[s].request.key) = {}
    /\ MakeRow(s)

MakeFeedback(s) == req[s].phase = "sent" /\ IsFeedback(s) /\ MakeRow(s)

Append1(s, entry) ==
    /\ log' = Append(log, entry)
    /\ req' = [req EXCEPT ![s].phase = "recorded", ![s].from = None, ![s].index = Len(log) + 1]
    /\ UNCHANGED clock

InsertHandoffAnyKey(s) ==      \* no unique index on idempotency_key
    /\ req[s].phase = "inserting" /\ IsReroute(s)
    /\ Append1(s, [kind |-> "handoff", route |-> RouteOf(s), from |-> req[s].from,
                   to |-> Asked(s), since |-> req[s].since, at |-> req[s].at,
                   key |-> req[s].request.key, slot |-> s])
InsertHandoff(s) ==
    /\ req[s].phase = "inserting" /\ IsReroute(s)
    /\ KeyedRows(req[s].request.key) = {}
    /\ Append1(s, [kind |-> "handoff", route |-> RouteOf(s), from |-> req[s].from,
                   to |-> Asked(s), since |-> req[s].since, at |-> req[s].at,
                   key |-> req[s].request.key, slot |-> s])

(* the unique index refuses a second row with the key                      *)
InsertClash(s) ==
    /\ req[s].phase = "inserting"
    /\ KeyedRows(req[s].request.key) # {}
    /\ Fail(s)

RecordFeedback(s) ==
    /\ req[s].phase = "inserting" /\ IsFeedback(s)
    /\ Append1(s, [kind |-> "feedback", route |-> RouteOf(s), from |-> None,
                   to |-> Asked(s), since |-> req[s].since, at |-> req[s].at,
                   key |-> req[s].request.key, slot |-> s])

(* the request, the server's work on it or its answer is lost              *)
Lose(s) ==
    /\ req[s].phase \in {"sent", "read", "inserting", "recorded"}
    /\ Fail(s)

Serve(s) ==
    \/ RefuseReroute(s) \/ ReadOwner(s) \/ AnswerFromKey(s) \/ MakeHandoff(s)
    \/ InsertHandoff(s) \/ InsertClash(s) \/ MakeFeedback(s) \/ RecordFeedback(s)

(* the caller learns of the success, or of the failure                     *)
Accept(s) == req[s].phase = "recorded" /\ Advance(s, "acked") /\ UNCHANGED <<log, clock>>
GiveUp(s) == req[s].phase = "failed" /\ Advance(s, "done") /\ UNCHANGED <<log, clock>>

(* A key names one command: it is sent again, after a failure or when the   *)
(* caller has waited long enough, and never for another.                    *)
KeyFree(request) == \A t \in Slots : req[t].phase # "free" => req[t].request.key # request.key

Retry(s) ==
    \E t \in Slots : /\ req[t].phase \notin {"free", "acked"}
                     /\ req[t].request.key # NoKey
                     /\ Issue(s, req[t].request)

Submit(s) ==
    \/ \E r \in Routes, o \in Owners :
          \/ Issue(s, RerouteSignal(r, o))
          \/ \E k \in IdempotencyKeys : /\ KeyFree(WithKey(RerouteSignal(r, o), k))
                                        /\ Issue(s, WithKey(RerouteSignal(r, o), k))
    \/ \E r \in Routes, mark \in Marks : Issue(s, SubmitFeedback(r, mark))

HandoffStep(s) == Submit(s) \/ Retry(s) \/ Serve(s) \/ Lose(s) \/ Accept(s) \/ GiveUp(s)

HandoffSpec == InitLog /\ [][\E s \in Slots : HandoffStep(s)]_<<log, req, clock>>

-----------------------------------------------------------------------------
(* Properties *)

Commands ==
    {WithKey(RerouteSignal(r, o), k) : r \in Routes, o \in Owners, k \in IdempotencyKeys \cup {NoKey}}
    \cup {SubmitFeedback(r, m) : r \in Routes, m \in Marks}

(* The shape of the log and of the requests.                                *)
HandoffTypeOK ==
    /\ log \in Seq(HandoffRow \cup FeedbackRow)
    /\ req \in [Slots -> [request : Commands \cup {None},
                          phase : {"free", "sent", "read", "inserting", "recorded", "acked",
                                   "failed", "done"},
                          from : Owners \cup {None}, since : Nat, at : Nat, index : Nat]]
    /\ clock \in Nat

(* A command the server has recorded has its row, and a keyed one has no    *)
(* second row however often and however concurrently it was sent.           *)
CommandHasItsRow ==
    /\ \A s \in Slots : req[s].phase \in {"recorded", "acked"} =>
          /\ req[s].index \in 1 .. Len(log)
          /\ log[req[s].index].route = RouteOf(s) /\ log[req[s].index].to = Asked(s)
    /\ \A i, j \in 1 .. Len(log) : log[i].key # NoKey /\ log[i].key = log[j].key => i = j

(* One transmission leaves one row at most, and none after its answer was    *)
(* lost: what the server has written it has done with.                       *)
Served == {"recorded", "acked", "failed", "done"}
OneRowPerRequest ==
    /\ \A i, j \in 1 .. Len(log) : log[i].slot = log[j].slot => i = j
    /\ \A i \in 1 .. Len(log) : req[log[i].slot].phase \in Served

(* record_route_handoff: "API callers should provide it so mobile retries   *)
(* don't create duplicate handoffs".  What was accepted is in the log, what  *)
(* was sent once is there at most once, and so is what was sent many times   *)
(* with a key.                                                              *)
AcceptedCommandIsRecorded == CommandHasItsRow /\ OneRowPerRequest

(* projections.reroute reads the owner and records it in another            *)
(* transaction: the origin a handoff names held the route at some moment     *)
(* while the command was under way.                                         *)
HandoffChain ==
    \A j \in 1 .. Len(log) : log[j].kind = "handoff" =>
        \E n \in log[j].since .. j - 1 : log[j].from = Owner(log[j].route, n)

(* What was read once stays true of its moment: the projections of a prefix  *)
(* of the log never change, so an answer may arrive at any time after it.    *)
HistoryIsStable ==
    [][/\ Len(log') \in Len(log) .. Len(log) + 1
       /\ \A r \in Routes, n \in 0 .. Len(log) : RouteAudit(r, n)' = RouteAudit(r, n)]_<<log, req, clock>>

(* replit.md: "Reroute is modeled as an append-only team handoff event; the *)
(* current owner is a projection."  The projections of the log implement     *)
(* ownership: the row made last wins, in whatever order rows are committed.  *)
Inserting == {s \in Slots : req[s].phase = "inserting"}
Ownership == INSTANCE RouteOwnership
             WITH Keys <- IdempotencyKeys,
                  owner <- [r \in Routes |-> Owner(r, Len(log))],
                  at <- [r \in Routes |-> HandoffAt(r, Len(log))],
                  used <- {log[i].key : i \in 1 .. Len(log)} \ {NoKey},
                  last <- clock,
                  open <- {req[s].at : s \in Inserting}
ImplementsOwnership == Ownership!Spec
=============================================================================
