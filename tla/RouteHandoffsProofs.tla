------------------------ MODULE RouteHandoffsProofs ------------------------
(***************************************************************************)
(* Proofs about RouteHandoffs.  A step either leaves the log as it is or    *)
(* appends one row; the projections of a prefix do not change with it.      *)
(***************************************************************************)
EXTENDS RouteHandoffs, WellFoundedInduction, TLAPS

Row == HandoffRow \cup FeedbackRow
AnyKey == IdempotencyKeys \cup {NoKey}
Unowned == {"free", "sent", "read", "inserting", "recorded", "acked", "failed", "done"}

(* No two rows are made at the same time, in the log or still to enter it.  *)
Stamps ==
    /\ \A i \in 1 .. Len(log) : log[i].at \in 1 .. clock
    /\ \A i, j \in 1 .. Len(log) : log[i].at = log[j].at => i = j
    /\ \A s \in Inserting : /\ req[s].at \in 1 .. clock
                            /\ \A i \in 1 .. Len(log) : log[i].at # req[s].at
    /\ \A s, t \in Inserting : req[s].at = req[t].at => s = t

(* Whoever owned a route after any prefix of the log is an owner.           *)
OwnersOwn == \A r \in Routes : \A n \in 0 .. Len(log) :
                 Owner(r, n) \in Owners /\ ReroutedFrom(r, n) \in Owners \cup {None}

(* A row has what the request that wrote it asked for.                      *)
RowsOfRequests ==
    \A i \in 1 .. Len(log) :
        /\ req[log[i].slot].phase # "free"
        /\ log[i].route = RouteOf(log[i].slot)
        /\ log[i].to = Asked(log[i].slot)
        /\ log[i].key = req[log[i].slot].request.key

KeyNamesOneCommand ==
    \A s, t \in Slots : /\ req[s].phase # "free" /\ req[t].phase # "free"
                        /\ req[s].request.key = req[t].request.key
                        /\ req[s].request.key # NoKey
                        => req[s].request = req[t].request

(* What a request under way has read is still a moment of the log.          *)
RequestsUnderWay ==
    \A s \in Slots :
        /\ req[s].phase # "free" => req[s].request \in Commands /\ req[s].since <= Len(log)
        /\ req[s].phase = "read" => IsReroute(s)
        /\ req[s].phase \in {"read", "inserting"} /\ IsReroute(s) =>
              /\ Accepted(RouteOf(s), Asked(s))
              /\ \E n \in req[s].since .. Len(log) : req[s].from = Owner(RouteOf(s), n)

IInv == /\ HandoffTypeOK /\ Stamps /\ RowsOfRequests /\ KeyNamesOneCommand
        /\ RequestsUnderWay /\ CommandHasItsRow /\ HandoffChain

-----------------------------------------------------------------------------
(* Commands *)

LEMMA CommandShape ==
    ASSUME NEW c \in Commands
    PROVE  /\ c.path \in {"/api/routes/{}/reroute", "/api/routes/{}/feedback"}
           /\ c.args[1] \in Routes
           /\ c.key \in AnyKey
           /\ c.path = "/api/routes/{}/reroute" => c.body[1] \in Owners
           /\ c.path = "/api/routes/{}/feedback" => c.body[1] \in Marks /\ c.key = NoKey
  <1>1. ASSUME NEW r \in Routes, NEW o \in Owners, NEW k \in AnyKey,
               c = WithKey(RerouteSignal(r, o), k)
        PROVE  /\ c.path = "/api/routes/{}/reroute" /\ c.args = <<r>>
               /\ c.body = <<o>> /\ c.key = k
    BY <1>1 DEF WithKey, RerouteSignal, Send, Request
  <1>2. ASSUME NEW r \in Routes, NEW mark \in Marks, c = SubmitFeedback(r, mark)
        PROVE  /\ c.path = "/api/routes/{}/feedback" /\ c.args = <<r>>
               /\ c.body = <<mark>> /\ c.key = NoKey
    BY <1>2 DEF SubmitFeedback, Send, Request
  <1>3. \/ \E r \in Routes, o \in Owners, k \in AnyKey : c = WithKey(RerouteSignal(r, o), k)
        \/ \E r \in Routes, mark \in Marks : c = SubmitFeedback(r, mark)
    BY DEF Commands, AnyKey
  <1>4. ASSUME NEW x
        PROVE  <<x>>[1] = x
    OBVIOUS
  <1>5. CASE \E r \in Routes, o \in Owners, k \in AnyKey : c = WithKey(RerouteSignal(r, o), k)
    <2>1. PICK r \in Routes, o \in Owners, k \in AnyKey : c = WithKey(RerouteSignal(r, o), k)
      BY <1>5
    <2>2. /\ c.path = "/api/routes/{}/reroute" /\ c.args = <<r>>
          /\ c.body = <<o>> /\ c.key = k
      BY <2>1, <1>1
    <2> QED BY <2>2, <1>4
  <1>6. CASE \E r \in Routes, mark \in Marks : c = SubmitFeedback(r, mark)
    <2>1. PICK r \in Routes, mark \in Marks : c = SubmitFeedback(r, mark)
      BY <1>6
    <2>2. /\ c.path = "/api/routes/{}/feedback" /\ c.args = <<r>>
          /\ c.body = <<mark>> /\ c.key = NoKey
      BY <2>1, <1>2
    <2> QED BY <2>2, <1>4 DEF AnyKey
  <1> QED BY <1>3, <1>5, <1>6

LEMMA PlainRerouteIsCommand ==
    ASSUME NEW r \in Routes, NEW o \in Owners
    PROVE  RerouteSignal(r, o) \in Commands /\ RerouteSignal(r, o).key = NoKey
  <1>1. RerouteSignal(r, o) = WithKey(RerouteSignal(r, o), NoKey)
    <2>1. ASSUME NEW method, NEW path, NEW args, NEW body
          PROVE  Request(method, path, args, body) = WithKey(Request(method, path, args, body), NoKey)
      BY DEF WithKey, Request
    <2> QED BY <2>1 DEF RerouteSignal, Send
  <1>2. RerouteSignal(r, o).key = NoKey
    BY DEF RerouteSignal, Send, Request
  <1> QED BY <1>1, <1>2 DEF Commands

LEMMA KeyedRerouteIsCommand ==
    ASSUME NEW r \in Routes, NEW o \in Owners, NEW k \in IdempotencyKeys
    PROVE  WithKey(RerouteSignal(r, o), k) \in Commands
  BY DEF Commands

LEMMA FeedbackIsCommand ==
    ASSUME NEW r \in Routes, NEW mark \in Marks
    PROVE  SubmitFeedback(r, mark) \in Commands /\ SubmitFeedback(r, mark).key = NoKey
  <1>1. SubmitFeedback(r, mark) \in Commands
    BY DEF Commands
  <1>2. SubmitFeedback(r, mark).key = NoKey
    BY DEF SubmitFeedback, Send, Request
  <1> QED BY <1>1, <1>2

-----------------------------------------------------------------------------
(* The log *)

LEMMA Appended ==
    ASSUME NEW L \in Seq(Row), NEW e \in Row
    PROVE  /\ Append(L, e) \in Seq(Row)
           /\ Len(Append(L, e)) = Len(L) + 1
           /\ \A i \in 1 .. Len(L) : Append(L, e)[i] = L[i]
           /\ Append(L, e)[Len(L) + 1] = e
  OBVIOUS

LEMMA NewestOfSome ==
    ASSUME NEW L, NEW S, S # {}, NEW c \in Nat, \A i \in S : L[i].at \in 1 .. c
    PROVE  Newest(L, S) \in S /\ \A j \in S : L[j].at <= L[Newest(L, S)].at
  <1> DEFINE T == {c - L[i].at : i \in S}
  <1>1. T \subseteq Nat /\ T # {}
    <2>1. \A i \in S : c - L[i].at \in Nat
      OBVIOUS
    <2> QED BY <2>1
  <1>2. PICK x \in T : \A y \in T : ~ (<<y, x>> \in OpToRel(<, Nat))
    BY <1>1, WFMin, NatLessThanWellFounded
  <1>3. \A y \in T : ~ (y < x)
    BY <1>1, <1>2 DEF OpToRel
  <1>4. PICK i \in S : x = c - L[i].at
    OBVIOUS
  <1>5. \A j \in S : L[j].at <= L[i].at
    <2>1. ASSUME NEW j \in S
          PROVE  L[j].at <= L[i].at
      <3>1. c - L[j].at \in T /\ ~ (c - L[j].at < c - L[i].at)
        BY <1>3, <1>4
      <3>2. L[i].at \in Nat /\ L[j].at \in Nat
        OBVIOUS
      <3> QED BY <3>1, <3>2
    <2> QED BY <2>1
  <1> QED BY <1>5 DEF Newest

LEMMA NewestIs ==
    ASSUME NEW L, NEW S, NEW m \in S, \A i \in S : L[i].at \in Nat,
           \A i \in S \ {m} : L[i].at < L[m].at
    PROVE  Newest(L, S) = m
  <1>1. \A i \in S : L[i].at <= L[m].at
    OBVIOUS
  <1>2. Newest(L, S) \in S /\ L[m].at <= L[Newest(L, S)].at
    BY <1>1 DEF Newest
  <1>3. PICK i \in S : i = Newest(L, S)
    BY <1>2
  <1>4. L[m].at <= L[i].at /\ L[i].at \in Nat /\ L[m].at \in Nat
    BY <1>2, <1>3
  <1> QED BY <1>3, <1>4

LEMMA LogTyped ==
    ASSUME HandoffTypeOK
    PROVE  /\ log \in Seq(Row) /\ Len(log) \in Nat /\ clock \in Nat
           /\ \A i \in 1 .. Len(log) : /\ log[i] \in Row /\ log[i].slot \in Slots
                                       /\ log[i].route \in Routes /\ log[i].since \in Nat
                                       /\ log[i].at \in Nat /\ log[i].key \in AnyKey
                                       /\ log[i].kind = "handoff" =>
                                             log[i].to \in Owners /\ log[i].from \in Owners
  <1>1. log \in Seq(Row) /\ clock \in Nat
    BY DEF HandoffTypeOK, Row
  <1>2. Len(log) \in Nat /\ \A i \in 1 .. Len(log) : log[i] \in Row
    BY <1>1
  <1>3. \A e \in Row : /\ e.slot \in Slots /\ e.route \in Routes /\ e.since \in Nat
                       /\ e.at \in Nat /\ e.key \in AnyKey
                       /\ e.kind = "handoff" => e.to \in Owners /\ e.from \in Owners
    BY DEF Row, HandoffRow, FeedbackRow, AnyKey
  <1> QED BY <1>1, <1>2, <1>3

(* The rows of a route have one newest row, if they have any.               *)
LEMMA NewestEvent ==
    ASSUME IInv, NEW kind, NEW r, NEW n \in 0 .. Len(log), Events(kind, r, n) # {}
    PROVE  LET m == Newest(log, Events(kind, r, n)) IN
           /\ m \in Events(kind, r, n) /\ m \in 1 .. Len(log)
           /\ \A i \in Events(kind, r, n) \ {m} : log[i].at < log[m].at
  <1> DEFINE S == Events(kind, r, n)
             m == Newest(log, S)
  <1>1. Len(log) \in Nat /\ clock \in Nat
    BY LogTyped DEF IInv
  <1>2. \A i \in S : i \in 1 .. Len(log)
    BY <1>1 DEF Events
  <1>3. \A i \in S : log[i].at \in 1 .. clock
    BY <1>2 DEF IInv, Stamps
  <1>4. m \in S /\ \A i \in S : log[i].at <= log[m].at
    BY <1>1, <1>3, NewestOfSome
  <1>5. \A i \in S : log[i].at = log[m].at => i = m
    BY <1>2, <1>4 DEF IInv, Stamps
  <1>6. \A i \in S \ {m} : log[i].at < log[m].at
    <2>1. ASSUME NEW i \in S \ {m}
          PROVE  log[i].at < log[m].at
      <3>1. log[i].at \in 1 .. clock /\ log[m].at \in 1 .. clock
        BY <1>3, <1>4
      <3>2. log[i].at <= log[m].at /\ log[i].at # log[m].at
        BY <1>4, <1>5
      <3> QED BY <1>1, <3>1, <3>2
    <2> QED BY <2>1
  <1> QED BY <1>2, <1>4, <1>6

LEMMA OwnersAreOwners ==
    ASSUME IInv
    PROVE  OwnersOwn
  <1> SUFFICES ASSUME NEW r \in Routes, NEW n \in 0 .. Len(log)
               PROVE  Owner(r, n) \in Owners /\ ReroutedFrom(r, n) \in Owners \cup {None}
    BY DEF OwnersOwn
  <1>1. CASE Events("handoff", r, n) = {}
    BY <1>1, HandoffAssumption DEF Owner, ReroutedFrom
  <1>2. CASE Events("handoff", r, n) # {}
    <2> DEFINE m == Newest(log, Events("handoff", r, n))
    <2>1. m \in Events("handoff", r, n) /\ m \in 1 .. Len(log)
      BY <1>2, NewestEvent
    <2>2. log[m].kind = "handoff"
      BY <2>1 DEF Events
    <2>3. log[m].to \in Owners /\ log[m].from \in Owners
      BY <2>1, <2>2, LogTyped DEF IInv
    <2> QED BY <1>2, <2>3 DEF Owner, ReroutedFrom
  <1> QED BY <1>1, <1>2

(* The projections of a prefix do not change when a row is appended.        *)
LEMMA PrefixStable ==
    ASSUME IInv, \A i \in 1 .. Len(log) : log'[i] = log[i],
           NEW r, NEW n \in 0 .. Len(log)
    PROVE  /\ Owner(r, n)' = Owner(r, n)
           /\ ReroutedFrom(r, n)' = ReroutedFrom(r, n)
           /\ FeedbackCorrect(r, n)' = FeedbackCorrect(r, n)
           /\ HandoffAt(r, n)' = HandoffAt(r, n)
  <1>1. Len(log) \in Nat
    BY LogTyped DEF IInv
  <1>2. ASSUME NEW kind
        PROVE  /\ Events(kind, r, n)' = Events(kind, r, n)
               /\ Events(kind, r, n) # {} =>
                     LET m == Newest(log, Events(kind, r, n)) IN
                     Newest(log, Events(kind, r, n))' = m /\ log'[m] = log[m]
    <2> DEFINE S == Events(kind, r, n)
               m == Newest(log, S)
    <2>1. \A i \in 1 .. n : i \in 1 .. Len(log)
      BY <1>1
    <2>2. Events(kind, r, n)' = S
      BY <2>1 DEF Events
    <2>3. CASE S # {}
      <3>1. m \in S /\ m \in 1 .. Len(log) /\ \A i \in S \ {m} : log[i].at < log[m].at
        BY <2>3, NewestEvent
      <3>2. \A i \in S : i \in 1 .. Len(log)
        BY <2>1 DEF Events
      <3>3. \A i \in S : log'[i] = log[i] /\ log[i].at \in Nat
        BY <3>2, LogTyped DEF IInv
      <3> HIDE DEF m
      <3>4. Newest(log', S) = m
        <4>1. \A i \in S : log'[i].at \in Nat
          BY <3>3
        <4>2. \A i \in S \ {m} : log'[i].at < log'[m].at
          BY <3>1, <3>3
        <4> HIDE DEF S
        <4> QED BY <3>1, <4>1, <4>2, NewestIs
      <3>5. Newest(log, Events(kind, r, n))' = m
        BY <2>2, <3>4
      <3> QED BY <2>2, <3>1, <3>3, <3>5 DEF m
    <2> QED BY <2>2, <2>3
  <1>3. /\ Events("handoff", r, n)' = Events("handoff", r, n)
        /\ Events("feedback", r, n)' = Events("feedback", r, n)
    BY <1>2
  <1>4. Owner(r, n)' = Owner(r, n)
    BY <1>2, <1>3 DEF Owner
  <1>5. ReroutedFrom(r, n)' = ReroutedFrom(r, n)
    BY <1>2, <1>3 DEF ReroutedFrom
  <1>6. FeedbackCorrect(r, n)' = FeedbackCorrect(r, n)
    BY <1>2, <1>3 DEF FeedbackCorrect
  <1>7. HandoffAt(r, n)' = HandoffAt(r, n)
    BY <1>2, <1>3 DEF HandoffAt
  <1> QED BY <1>4, <1>5, <1>6, <1>7

-----------------------------------------------------------------------------
(* Init, and steps that append nothing *)

LEMMA HandoffInit == InitLog => IInv
  <1> SUFFICES ASSUME InitLog PROVE IInv
    OBVIOUS
  <1>1. log = <<>> /\ Len(log) = 0 /\ 1 .. Len(log) = {}
    BY DEF InitLog
  <1>2. \A s \in Slots : req[s] = NoRequest
    BY DEF InitLog
  <1>3. \A s \in Slots : req[s].phase = "free"
    BY <1>2 DEF NoRequest
  <1>4. HandoffTypeOK
    <2>1. NoRequest \in [request : Commands \cup {None}, phase : Unowned,
                         from : Owners \cup {None}, since : Nat, at : Nat, index : Nat]
      BY DEF NoRequest, Unowned
    <2>2. req \in [Slots -> [request : Commands \cup {None}, phase : Unowned,
                            from : Owners \cup {None}, since : Nat, at : Nat, index : Nat]]
      BY <2>1 DEF InitLog
    <2>3. clock \in Nat
      BY DEF InitLog
    <2> QED BY <1>1, <2>2, <2>3 DEF HandoffTypeOK, Unowned
  <1>5. Stamps
    <2>1. Inserting = {}
      BY <1>3 DEF Inserting
    <2> QED BY <1>1, <2>1 DEF Stamps
  <1>6. RowsOfRequests /\ HandoffChain
    BY <1>1 DEF RowsOfRequests, HandoffChain
  <1>7. KeyNamesOneCommand /\ RequestsUnderWay
    BY <1>3 DEF KeyNamesOneCommand, RequestsUnderWay
  <1>8. CommandHasItsRow
    BY <1>1, <1>3 DEF CommandHasItsRow
  <1> QED BY <1>4, <1>5, <1>6, <1>7, <1>8 DEF IInv

(* What a step that leaves the log as it is does not change.                *)
LEMMA SameLog ==
    ASSUME IInv, UNCHANGED log
    PROVE  HandoffChain' /\ \A r, n : Owner(r, n)' = Owner(r, n)
  <1>1. \A kind, r, n : Events(kind, r, n)' = Events(kind, r, n)
    BY DEF Events
  <1>2. \A r, n : Owner(r, n)' = Owner(r, n)
    BY <1>1 DEF Owner
  <1>3. HandoffChain'
    BY <1>2 DEF IInv, HandoffChain
  <1> QED BY <1>2, <1>3

(* A step that leaves the log as it is and every request what it asked for. *)
LEMMA SameCommands ==
    ASSUME IInv, UNCHANGED log, HandoffTypeOK',
           \A s \in Slots : /\ (req[s].phase # "free") <=> (req'[s].phase # "free")
                            /\ req'[s].request = req[s].request
    PROVE  RowsOfRequests' /\ KeyNamesOneCommand'
  <1>1. \A i \in 1 .. Len(log) : log[i].slot \in Slots
    BY LogTyped DEF IInv
  <1>2. RowsOfRequests'
    BY <1>1 DEF IInv, RowsOfRequests, RouteOf, Asked
  <1>3. KeyNamesOneCommand'
    BY DEF IInv, KeyNamesOneCommand
  <1> QED BY <1>2, <1>3

RequestType == [request : Commands \cup {None}, phase : Unowned,
                from : Owners \cup {None}, since : Nat, at : Nat, index : Nat]

(* A step of one request that appends nothing: the request is new, or it    *)
(* goes on with the command it had; its row may be made.                    *)
LEMMA QuietStep ==
    ASSUME IInv, UNCHANGED log, NEW s \in Slots, NEW q \in RequestType,
           req' = [req EXCEPT ![s] = q], q.phase # "free",
           \/ /\ req[s].phase # "free"
              /\ q.request = req[s].request /\ q.since = req[s].since
           \/ /\ req[s].phase = "free" /\ q.phase = "sent"
              /\ q.request \in Commands /\ q.since = Len(log)
              /\ \A t \in Slots : /\ req[t].phase # "free"
                                  /\ req[t].request.key = q.request.key
                                  /\ q.request.key # NoKey
                                  => req[t].request = q.request,
           \/ q.phase # "inserting" /\ UNCHANGED clock
           \/ q.phase = "inserting" /\ clock' = clock + 1 /\ q.at = clock + 1,
           q.phase = "read" => IsReroute(s),
           q.phase \in {"read", "inserting"} /\ IsReroute(s) =>
              /\ Accepted(RouteOf(s), Asked(s))
              /\ \E n \in req[s].since .. Len(log) : q.from = Owner(RouteOf(s), n),
           q.phase \in {"recorded", "acked"} =>
              /\ q.index \in 1 .. Len(log)
              /\ log[q.index].route = RouteOf(s) /\ log[q.index].to = Asked(s)
    PROVE  IInv'
  <1>1. /\ req \in [Slots -> RequestType] /\ log \in Seq(Row) /\ Len(log) \in Nat
        /\ clock \in Nat
    BY LogTyped DEF IInv, HandoffTypeOK, RequestType, Unowned
  <1>2. req'[s] = q /\ \A t \in Slots \ {s} : req'[t] = req[t]
    BY <1>1
  <1>3. HandoffTypeOK'
    BY <1>1 DEF HandoffTypeOK, RequestType, Row, Unowned
  <1>4. HandoffChain' /\ \A r, n : Owner(r, n)' = Owner(r, n)
    BY SameLog
  <1>9. Stamps'
    <2>1. clock' \in Nat /\ clock <= clock'
      BY <1>1
    <2>2. \A i \in 1 .. Len(log) : log[i].at \in 1 .. clock /\ log[i].at \in 1 .. clock'
      BY <1>1, <2>1 DEF IInv, Stamps
    <2>3. ASSUME NEW t \in Slots \ {s}, t \in Inserting'
          PROVE  /\ t \in Inserting /\ req'[t].at = req[t].at
                 /\ req[t].at \in 1 .. clock /\ req[t].at \in 1 .. clock'
                 /\ \A i \in 1 .. Len(log) : log[i].at # req[t].at
      <3>1. t \in Inserting /\ req'[t] = req[t]
        BY <1>2, <2>3 DEF Inserting
      <3> QED BY <1>1, <2>1, <3>1 DEF IInv, Stamps
    <2>4. ASSUME s \in Inserting'
          PROVE  /\ req'[s].at = clock + 1 /\ clock + 1 \in 1 .. clock'
                 /\ \A i \in 1 .. Len(log) : log[i].at # clock + 1
                 /\ \A t \in Inserting' \ {s} : req'[t].at # clock + 1
      <3>1. req'[s].at = clock + 1 /\ clock' = clock + 1
        BY <1>2, <2>4 DEF Inserting
      <3>2. \A i \in 1 .. clock : i # clock + 1
        BY <1>1
      <3>3. \A t \in Inserting' : t \in Slots
        BY DEF Inserting
      <3> QED BY <1>1, <2>2, <2>3, <3>1, <3>2, <3>3
    <2>5. \A t \in Inserting' : t \in Slots \ {s} \/ t = s
      BY DEF Inserting
    <2>6. \A t \in Inserting' : /\ req'[t].at \in 1 .. clock'
                                 /\ \A i \in 1 .. Len(log) : log[i].at # req'[t].at
      BY <2>3, <2>4, <2>5
    <2>7. ASSUME NEW t \in Inserting', NEW u \in Inserting', req'[t].at = req'[u].at
          PROVE  t = u
      <3>1. CASE t # s /\ u # s
        BY <2>3, <2>5, <2>7, <3>1 DEF IInv, Stamps
      <3>2. CASE t = s \/ u = s
        BY <2>4, <2>7, <3>2
      <3> QED BY <3>1, <3>2
    <2> QED BY <2>2, <2>6, <2>7 DEF IInv, Stamps
  <1>5. RowsOfRequests'
    <2>1. ASSUME NEW i \in 1 .. Len(log)
          PROVE  /\ req'[log[i].slot].phase # "free"
                 /\ req'[log[i].slot].request = req[log[i].slot].request
      <3>1. log[i].slot \in Slots /\ req[log[i].slot].phase # "free"
        BY LogTyped DEF IInv, RowsOfRequests
      <3> QED BY <1>2, <3>1
    <2> QED BY <2>1 DEF IInv, RowsOfRequests, RouteOf, Asked
  <1>6. KeyNamesOneCommand'
    BY <1>2 DEF IInv, KeyNamesOneCommand
  <1>7. RequestsUnderWay'
    <2>1. ASSUME NEW t \in Slots \ {s}
          PROVE  /\ req'[t] = req[t] /\ IsReroute(t)' = IsReroute(t)
                 /\ RouteOf(t)' = RouteOf(t) /\ Asked(t)' = Asked(t)
      BY <1>2 DEF IsReroute, RouteOf, Asked
    <2>2. q.phase \in {"read", "inserting"} =>
             /\ req[s].phase # "free" /\ q.request = req[s].request
             /\ IsReroute(s)' = IsReroute(s) /\ RouteOf(s)' = RouteOf(s) /\ Asked(s)' = Asked(s)
             /\ q.since = req[s].since
      BY <1>2 DEF IsReroute, RouteOf, Asked
    <2>3. q.request \in Commands /\ q.since <= Len(log)
      BY <1>1 DEF IInv, RequestsUnderWay
    <2>4. ASSUME NEW t \in Slots \ {s}
          PROVE  /\ req'[t].phase # "free" => /\ req'[t].request \in Commands
                                              /\ req'[t].since <= Len(log)
                 /\ req'[t].phase = "read" => IsReroute(t)'
                 /\ req'[t].phase \in {"read", "inserting"} /\ IsReroute(t)' =>
                       /\ Accepted(RouteOf(t), Asked(t))'
                       /\ \E n \in req'[t].since .. Len(log) :
                             req'[t].from = Owner(RouteOf(t), n)'
      BY <1>4, <2>1 DEF IInv, RequestsUnderWay, Accepted
    <2>5. /\ req'[s].phase # "free" => /\ req'[s].request \in Commands
                                       /\ req'[s].since <= Len(log)
          /\ req'[s].phase = "read" => IsReroute(s)'
          /\ req'[s].phase \in {"read", "inserting"} /\ IsReroute(s)' =>
                /\ Accepted(RouteOf(s), Asked(s))'
                /\ \E n \in req'[s].since .. Len(log) : req'[s].from = Owner(RouteOf(s), n)'
      BY <1>2, <1>4, <2>2, <2>3 DEF Accepted
    <2> QED BY <2>4, <2>5 DEF RequestsUnderWay
  <1>8. CommandHasItsRow'
    <2>1. ASSUME NEW t \in Slots, req'[t].phase \in {"recorded", "acked"}
          PROVE  /\ req'[t].index \in 1 .. Len(log)
                 /\ log[req'[t].index].route = RouteOf(t)' /\ log[req'[t].index].to = Asked(t)'
      <3>1. CASE t = s
        <4>1. req'[s].request = req[s].request
          BY <1>2, <2>1, <3>1
        <4> QED BY <1>2, <2>1, <3>1, <4>1 DEF RouteOf, Asked
      <3>2. CASE t # s
        BY <1>2, <2>1, <3>2 DEF IInv, CommandHasItsRow, RouteOf, Asked
      <3> QED BY <3>1, <3>2
    <2> QED BY <2>1 DEF IInv, CommandHasItsRow
  <1> QED BY <1>3, <1>4, <1>5, <1>6, <1>7, <1>8, <1>9 DEF IInv

(* The step that records a command.                                         *)
LEMMA RecordingStep ==
    ASSUME IInv, NEW s \in Slots, NEW e \in Row,
           Append1(s, e), req[s].phase = "inserting", e.at = req[s].at,
           e.slot = s, e.route = RouteOf(s), e.to = Asked(s), e.key = req[s].request.key,
           e.key # NoKey => KeyedRows(e.key) = {},
           e.kind = "handoff" => \E n \in e.since .. Len(log) : e.from = Owner(e.route, n)
    PROVE  IInv'
  <1>0. PICK M, N : M \in Nat /\ M = Len(log) /\ N = M + 1
    BY LogTyped DEF IInv
  <1>1. req \in [Slots -> RequestType] /\ log \in Seq(Row) /\ Len(log) \in Nat
    BY LogTyped DEF IInv, HandoffTypeOK, RequestType, Unowned
  <1>2. /\ log' \in Seq(Row) /\ Len(log') = N /\ log'[N] = e
        /\ \A i \in 1 .. Len(log) : log'[i] = log[i]
    BY <1>0, <1>1, Appended DEF Append1
  <1>3. /\ req'[s] = [req[s] EXCEPT !.phase = "recorded", !.from = None, !.index = N]
        /\ \A t \in Slots \ {s} : req'[t] = req[t]
        /\ req' \in [Slots -> RequestType] /\ req'[s].phase = "recorded"
    <2>1. req' = [req EXCEPT ![s] = [req[s] EXCEPT !.phase = "recorded", !.from = None,
                                                   !.index = N]]
      BY <1>0, <1>1 DEF Append1
    <2>2. [req[s] EXCEPT !.phase = "recorded", !.from = None, !.index = N] \in RequestType
      <3>1. req[s] \in RequestType /\ N \in Nat
        BY <1>0, <1>1
      <3> QED BY <3>1 DEF RequestType, Unowned
    <2>3. req'[s] = [req[s] EXCEPT !.phase = "recorded", !.from = None, !.index = N]
      BY <1>1, <2>1
    <2>4. req'[s].phase = "recorded"
      BY <1>1, <2>3 DEF RequestType
    <2> QED BY <1>1, <2>1, <2>2, <2>3, <2>4
  <1>4. \A t \in Slots : /\ req'[t].request = req[t].request /\ req'[t].since = req[t].since
                         /\ (req'[t].phase # "free") <=> (req[t].phase # "free")
                         /\ RouteOf(t)' = RouteOf(t) /\ Asked(t)' = Asked(t)
                         /\ IsReroute(t)' = IsReroute(t)
    <2>1. /\ req'[s].request = req[s].request /\ req'[s].since = req[s].since
      BY <1>1, <1>3 DEF RequestType
    <2>2. \A t \in Slots : /\ req'[t].request = req[t].request /\ req'[t].since = req[t].since
                           /\ (req'[t].phase # "free") <=> (req[t].phase # "free")
      BY <1>3, <2>1, ZenonT(30)
    <2> QED BY <2>2 DEF RouteOf, Asked, IsReroute
  <1>5. HandoffTypeOK'
    <2>1. clock' \in Nat
      BY LogTyped DEF IInv, Append1
    <2> QED BY <1>2, <1>3, <2>1 DEF HandoffTypeOK, Row, RequestType, Unowned
  <1>6. \A r : \A n \in 0 .. Len(log) : Owner(r, n)' = Owner(r, n)
    BY <1>2, PrefixStable
  <1>7. Stamps'
    <2>1. s \in Inserting /\ clock' = clock
      BY DEF Inserting, Append1
    <2>2. \A t \in Inserting' : t \in Inserting /\ t # s /\ req'[t] = req[t]
      BY <1>3 DEF Inserting
    <2>3. \A i \in 1 .. N : i \in 1 .. Len(log) \/ i = N
      BY <1>0
    <2>4. \A i \in 1 .. N : log'[i].at \in 1 .. clock
      BY <1>2, <2>1, <2>3 DEF IInv, Stamps
    <2>5. \A i, j \in 1 .. N : log'[i].at = log'[j].at => i = j
      BY <1>2, <2>1, <2>3 DEF IInv, Stamps
    <2>6. ASSUME NEW t \in Inserting', NEW i \in 1 .. N
          PROVE  log'[i].at # req'[t].at
      <3>1. t \in Inserting /\ t # s /\ req'[t] = req[t]
        BY <2>2
      <3>2. CASE i = N
        BY <1>2, <2>1, <3>1, <3>2 DEF IInv, Stamps
      <3>3. CASE i \in 1 .. Len(log)
        BY <1>2, <3>1, <3>3 DEF IInv, Stamps
      <3> QED BY <2>3, <3>2, <3>3
    <2>7. /\ \A t \in Inserting' : req'[t].at \in 1 .. clock
          /\ \A t, u \in Inserting' : req'[t].at = req'[u].at => t = u
      BY <2>2 DEF IInv, Stamps
    <2> QED BY <1>2, <2>1, <2>4, <2>5, <2>6, <2>7 DEF Stamps
  <1>8. RowsOfRequests'
    <2>1. ASSUME NEW i \in 1 .. Len(log)
          PROVE  /\ req'[log'[i].slot].phase # "free"
                 /\ log'[i].route = req'[log'[i].slot].request.args[1]
                 /\ log'[i].to = req'[log'[i].slot].request.body[1]
                 /\ log'[i].key = req'[log'[i].slot].request.key
      <3>1. log'[i] = log[i] /\ log[i].slot \in Slots
        BY <1>2, LogTyped DEF IInv
      <3>2. /\ req'[log[i].slot].request = req[log[i].slot].request
            /\ (req'[log[i].slot].phase # "free") <=> (req[log[i].slot].phase # "free")
        BY <1>4, <3>1
      <3> QED BY <3>1, <3>2 DEF IInv, RowsOfRequests, RouteOf, Asked
    <2>2. /\ req'[log'[N].slot].phase # "free"
          /\ log'[N].route = req'[log'[N].slot].request.args[1]
          /\ log'[N].to = req'[log'[N].slot].request.body[1]
          /\ log'[N].key = req'[log'[N].slot].request.key
      BY <1>2, <1>4 DEF RouteOf, Asked
    <2>3. \A i \in 1 .. N : i \in 1 .. Len(log) \/ i = N
      BY <1>0
    <2> QED BY <1>2, <2>1, <2>2, <2>3 DEF RowsOfRequests, RouteOf, Asked
  <1>9. KeyNamesOneCommand'
    BY <1>4 DEF IInv, KeyNamesOneCommand
  <1>10. RequestsUnderWay'
    <2>1. ASSUME NEW t \in Slots, req'[t].phase # "free"
          PROVE  req'[t].request \in Commands /\ req'[t].since <= Len(log)'
      <3>1. req[t].since \in Nat
        BY <1>1 DEF RequestType
      <3> QED BY <1>0, <1>2, <1>4, <2>1, <3>1 DEF IInv, RequestsUnderWay
    <2>2. ASSUME NEW t \in Slots, req'[t].phase \in {"read", "inserting"}, IsReroute(t)'
          PROVE  /\ Accepted(RouteOf(t), Asked(t))'
                 /\ \E n \in req'[t].since .. Len(log)' : req'[t].from = Owner(RouteOf(t), n)'
      <3>1. t # s
        BY <1>3, <2>2
      <3>2. req'[t] = req[t] /\ req[t].since \in Nat
        BY <1>1, <1>3, <3>1 DEF RequestType
      <3>3. PICK n \in req[t].since .. Len(log) : req[t].from = Owner(RouteOf(t), n)
        BY <1>4, <2>2, <3>2 DEF IInv, RequestsUnderWay
      <3>4. n \in 0 .. Len(log) /\ n \in req'[t].since .. Len(log)'
        BY <1>0, <1>2, <3>2
      <3>5. RouteOf(t)' = RouteOf(t) /\ Owner(RouteOf(t), n)' = Owner(RouteOf(t), n)
        BY <1>4, <1>6, <3>4
      <3>6. Accepted(RouteOf(t), Asked(t))
        BY <1>4, <2>2, <3>2 DEF IInv, RequestsUnderWay
      <3> QED BY <1>4, <3>2, <3>3, <3>4, <3>5, <3>6 DEF Accepted
    <2>3. ASSUME NEW t \in Slots, req'[t].phase = "read"
          PROVE  IsReroute(t)'
      <3>1. t # s
        BY <1>3, <2>3
      <3> QED BY <1>3, <1>4, <2>3, <3>1 DEF IInv, RequestsUnderWay
    <2> QED BY <2>1, <2>2, <2>3 DEF RequestsUnderWay
  <1>11. CommandHasItsRow'
    <2>1. ASSUME NEW t \in Slots, req'[t].phase \in {"recorded", "acked"}
          PROVE  /\ req'[t].index \in 1 .. N
                 /\ log'[req'[t].index].route = RouteOf(t)'
                 /\ log'[req'[t].index].to = Asked(t)'
      <3>1. CASE t = s
        <4>1. req'[s].index = N /\ N \in 1 .. N
          BY <1>0, <1>1, <1>3 DEF RequestType
        <4> QED BY <1>2, <1>4, <3>1, <4>1
      <3>2. CASE t # s
        <4>1. /\ req'[t] = req[t] /\ req[t].index \in 1 .. Len(log)
              /\ log[req[t].index].route = RouteOf(t) /\ log[req[t].index].to = Asked(t)
          BY <1>3, <2>1, <3>2 DEF IInv, CommandHasItsRow
        <4> QED BY <1>0, <1>2, <1>4, <4>1
      <3> QED BY <3>1, <3>2
    <2>2. ASSUME NEW i \in 1 .. N, NEW j \in 1 .. N,
                 log'[i].key # NoKey, log'[i].key = log'[j].key
          PROVE  i = j
      <3>1. \A m \in 1 .. N : m \in 1 .. Len(log) \/ m = N
        BY <1>0
      <3>2. CASE i \in 1 .. Len(log) /\ j \in 1 .. Len(log)
        BY <1>2, <2>2, <3>2 DEF IInv, CommandHasItsRow
      <3>3. CASE i \in 1 .. Len(log) /\ j = N
        BY <1>2, <2>2, <3>3 DEF KeyedRows
      <3>4. CASE j \in 1 .. Len(log) /\ i = N
        BY <1>2, <2>2, <3>4 DEF KeyedRows
      <3> QED BY <3>1, <3>2, <3>3, <3>4
    <2> QED BY <1>2, <2>1, <2>2 DEF CommandHasItsRow
  <1>12. HandoffChain'
    <2>1. ASSUME NEW j \in 1 .. N, log'[j].kind = "handoff"
          PROVE  \E n \in log'[j].since .. j - 1 :
                    \E r : r = log'[j].route /\ log'[j].from = Owner(r, n)'
      <3>1. CASE j \in 1 .. Len(log)
        <4>1. log'[j] = log[j] /\ log[j].since \in Nat
          BY <1>2, <3>1, LogTyped DEF IInv
        <4>2. PICK n \in log[j].since .. j - 1 : log[j].from = Owner(log[j].route, n)
          BY <2>1, <3>1, <4>1 DEF IInv, HandoffChain
        <4>3. n \in 0 .. Len(log) /\ n \in log'[j].since .. j - 1
          BY <1>0, <3>1, <4>1
        <4>4. PICK r : r = log[j].route
          OBVIOUS
        <4>5. Owner(r, n)' = Owner(r, n)
          BY <1>6, <4>3
        <4> QED BY <4>1, <4>2, <4>3, <4>4, <4>5
      <3>2. CASE j = N
        <4>1. e.since \in Nat
          BY DEF Row, HandoffRow, FeedbackRow
        <4>2. PICK n \in e.since .. Len(log) : e.from = Owner(e.route, n)
          BY <1>2, <2>1, <3>2
        <4>3. n \in 0 .. Len(log) /\ n \in e.since .. j - 1
          BY <1>0, <3>2, <4>1
        <4>4. PICK r : r = e.route
          OBVIOUS
        <4>5. Owner(r, n)' = Owner(r, n)
          BY <1>6, <4>3
        <4> QED BY <1>2, <3>2, <4>2, <4>3, <4>4, <4>5
      <3> QED BY <1>0, <3>1, <3>2
    <2>2. HandoffChain' = \A j \in 1 .. Len(log') : log'[j].kind = "handoff" =>
             \E n \in log'[j].since .. j - 1 : log'[j].from = Owner(log[j].route, n)'
      BY DEF HandoffChain
    <2> QED BY <1>2, <2>1, <2>2
  <1> QED BY <1>5, <1>7, <1>8, <1>9, <1>10, <1>11, <1>12 DEF IInv

-----------------------------------------------------------------------------
(* The operations *)

LEMMA Typed ==
    ASSUME IInv, NEW s \in Slots
    PROVE  /\ req[s] \in RequestType /\ req \in [Slots -> RequestType]
           /\ log \in Seq(Row) /\ Len(log) \in Nat /\ clock \in Nat
           /\ req[s].phase # "free" => req[s].request \in Commands
  BY LogTyped DEF IInv, HandoffTypeOK, RequestType, Unowned, RequestsUnderWay

LEMMA IssueStep ==
    ASSUME IInv, NEW s \in Slots, NEW c \in Commands, Issue(s, c),
           \A t \in Slots : /\ req[t].phase # "free" /\ req[t].request.key = c.key
                           /\ c.key # NoKey
                           => req[t].request = c
    PROVE  IInv'
  <1> DEFINE q == [NoRequest EXCEPT !.request = c, !.phase = "sent", !.since = Len(log)]
  <1>1. req' = [req EXCEPT ![s] = q] /\ UNCHANGED <<log, clock>> /\ req[s].phase = "free"
    BY DEF Issue
  <1>2. /\ q \in RequestType /\ q.phase = "sent" /\ q.request = c /\ q.since = Len(log)
    BY Typed DEF NoRequest, RequestType, Unowned
  <1> HIDE DEF q
  <1> QED BY <1>1, <1>2, QuietStep

LEMMA FailStep ==
    ASSUME IInv, NEW s \in Slots, Fail(s), req[s].phase # "free"
    PROVE  IInv'
  <1> DEFINE q == [req[s] EXCEPT !.phase = "failed", !.from = None]
  <1>1. req' = [req EXCEPT ![s] = q] /\ UNCHANGED <<log, clock>>
    BY Typed DEF Fail
  <1>2. /\ q \in RequestType /\ q.phase = "failed"
        /\ q.request = req[s].request /\ q.since = req[s].since
    BY Typed DEF RequestType, Unowned
  <1> HIDE DEF q
  <1> QED BY <1>1, <1>2, QuietStep

LEMMA ReadOwnerStep ==
    ASSUME IInv, NEW s \in Slots, ReadOwner(s)
    PROVE  IInv'
  <1>1. PICK M \in Nat : M = Len(log)
    BY Typed
  <1> DEFINE q == [req[s] EXCEPT !.phase = "read", !.from = Owner(RouteOf(s), M)]
  <1>2. /\ req' = [req EXCEPT ![s] = q] /\ UNCHANGED <<log, clock>>
        /\ req[s].phase = "sent" /\ IsReroute(s) /\ Accepted(RouteOf(s), Asked(s))
    BY Typed, <1>1 DEF ReadOwner
  <1>3. RouteOf(s) \in Routes
    BY <1>2, Typed, CommandShape DEF RouteOf
  <1>4. Owner(RouteOf(s), M) \in Owners
    BY <1>1, <1>3, OwnersAreOwners DEF OwnersOwn
  <1>5. /\ q \in RequestType /\ q.phase = "read" /\ q.from = Owner(RouteOf(s), M)
        /\ q.request = req[s].request /\ q.since = req[s].since
    BY <1>4, Typed DEF RequestType, Unowned
  <1>6. M \in req[s].since .. Len(log)
    BY <1>1, <1>2, Typed DEF IInv, RequestsUnderWay, RequestType
  <1> HIDE DEF q
  <1> QED BY <1>2, <1>5, <1>6, QuietStep

LEMMA AnswerFromKeyStep ==
    ASSUME IInv, NEW s \in Slots, AnswerFromKey(s)
    PROVE  IInv'
  <1>2. PICK i \in KeyedRows(req[s].request.key) :
           req' = [req EXCEPT ![s].phase = "recorded", ![s].from = None, ![s].index = i]
    BY DEF AnswerFromKey
  <1> DEFINE q == [req[s] EXCEPT !.phase = "recorded", !.from = None, !.index = i]
  <1>1. /\ req' = [req EXCEPT ![s] = q] /\ UNCHANGED <<log, clock>> /\ req[s].phase = "read"
    BY <1>2, Typed DEF AnswerFromKey
  <1>3. /\ i \in 1 .. Len(log) /\ i \in Nat /\ log[i].key = req[s].request.key
        /\ req[s].request.key # NoKey
    BY <1>2, Typed DEF KeyedRows
  <1>4. /\ log[i].slot \in Slots /\ req[log[i].slot].phase # "free"
        /\ log[i].key = req[log[i].slot].request.key
        /\ log[i].route = RouteOf(log[i].slot) /\ log[i].to = Asked(log[i].slot)
    BY <1>3, LogTyped DEF IInv, RowsOfRequests
  <1>5. req[log[i].slot].request = req[s].request
    BY <1>1, <1>3, <1>4 DEF IInv, KeyNamesOneCommand
  <1>6. log[i].route = RouteOf(s) /\ log[i].to = Asked(s)
    BY <1>4, <1>5 DEF RouteOf, Asked
  <1>7. /\ q \in RequestType /\ q.phase = "recorded" /\ q.index = i
        /\ q.request = req[s].request /\ q.since = req[s].since
    BY <1>3, Typed DEF RequestType, Unowned
  <1> HIDE DEF q
  <1> QED BY <1>1, <1>3, <1>6, <1>7, QuietStep

(* The row is made: nothing has its time yet.                               *)
LEMMA MakeRowStep ==
    ASSUME IInv, NEW s \in Slots, MakeHandoff(s) \/ MakeFeedback(s)
    PROVE  IInv'
  <1> DEFINE q == [req[s] EXCEPT !.phase = "inserting", !.at = clock + 1]
  <1>1. /\ req' = [req EXCEPT ![s] = q] /\ UNCHANGED log /\ clock' = clock + 1
        /\ (req[s].phase = "read" \/ (req[s].phase = "sent" /\ IsFeedback(s)))
    BY Typed DEF MakeHandoff, MakeFeedback, MakeRow
  <1>2. /\ q \in RequestType /\ q.phase = "inserting" /\ q.from = req[s].from
        /\ q.at = clock + 1
        /\ q.request = req[s].request /\ q.since = req[s].since
    <2>1. req[s] \in RequestType /\ clock + 1 \in Nat
      BY Typed
    <2> QED BY <2>1 DEF RequestType, Unowned
  <1>3. IsReroute(s) =>
           /\ Accepted(RouteOf(s), Asked(s))
           /\ \E n \in req[s].since .. Len(log) : req[s].from = Owner(RouteOf(s), n)
    BY <1>1 DEF IInv, RequestsUnderWay, IsReroute, IsFeedback
  <1> HIDE DEF q
  <1> QED BY <1>1, <1>2, <1>3, QuietStep

LEMMA EndStep ==
    ASSUME IInv, NEW s \in Slots, Accept(s) \/ GiveUp(s)
    PROVE  IInv'
  <1>1. CASE Accept(s)
    <2> DEFINE q == [req[s] EXCEPT !.phase = "acked"]
    <2>1. /\ req' = [req EXCEPT ![s] = q] /\ UNCHANGED <<log, clock>>
          /\ req[s].phase = "recorded"
      BY <1>1, Typed DEF Accept, Advance
    <2>2. /\ q \in RequestType /\ q.phase = "acked" /\ q.index = req[s].index
          /\ q.request = req[s].request /\ q.since = req[s].since
      BY Typed DEF RequestType, Unowned
    <2>3. /\ req[s].index \in 1 .. Len(log)
          /\ log[req[s].index].route = RouteOf(s) /\ log[req[s].index].to = Asked(s)
      BY <2>1 DEF IInv, CommandHasItsRow
    <2> HIDE DEF q
    <2> QED BY <2>1, <2>2, <2>3, QuietStep
  <1>2. CASE GiveUp(s)
    <2> DEFINE q == [req[s] EXCEPT !.phase = "done"]
    <2>1. /\ req' = [req EXCEPT ![s] = q] /\ UNCHANGED <<log, clock>>
          /\ req[s].phase = "failed"
      BY <1>2, Typed DEF GiveUp, Advance
    <2>2. /\ q \in RequestType /\ q.phase = "done"
          /\ q.request = req[s].request /\ q.since = req[s].since
      BY Typed DEF RequestType, Unowned
    <2> HIDE DEF q
    <2> QED BY <2>1, <2>2, QuietStep
  <1> QED BY <1>1, <1>2

(* What InsertHandoff appends, and to what log.                             *)
LEMMA InsertHandoffFacts ==
    ASSUME IInv, NEW s \in Slots, InsertHandoff(s)
    PROVE  \E e \in Row :
             /\ Append1(s, e) /\ req[s].phase = "inserting" /\ e.at = req[s].at
             /\ e.kind = "handoff" /\ e.slot = s /\ e.route = RouteOf(s) /\ e.to = Asked(s)
             /\ e.key = req[s].request.key /\ KeyedRows(e.key) = {}
             /\ e.from \in Owners /\ e.to \in Owners /\ Accepted(e.route, e.to)
             /\ \E n \in e.since .. Len(log) : e.from = Owner(e.route, n)
  <1> DEFINE e == [kind |-> "handoff", route |-> RouteOf(s), from |-> req[s].from,
                   to |-> Asked(s), since |-> req[s].since, at |-> req[s].at,
                   key |-> req[s].request.key, slot |-> s]
  <1>1. /\ Append1(s, e) /\ req[s].phase = "inserting" /\ IsReroute(s)
        /\ KeyedRows(req[s].request.key) = {}
    BY DEF InsertHandoff
  <1>2. /\ Accepted(RouteOf(s), Asked(s)) /\ req[s].request \in Commands
        /\ req[s].since \in Nat /\ req[s].at \in Nat
    BY <1>1, Typed DEF IInv, RequestsUnderWay, RequestType
  <1>3. PICK n \in req[s].since .. Len(log) : req[s].from = Owner(RouteOf(s), n)
    BY <1>1 DEF IInv, RequestsUnderWay
  <1>4. RouteOf(s) \in Routes /\ req[s].request.key \in AnyKey /\ Asked(s) \in Owners
    BY <1>1, <1>2, CommandShape DEF RouteOf, Asked, IsReroute
  <1>5. req[s].from \in Owners
    <2>1. n \in 0 .. Len(log)
      BY <1>2, <1>3, Typed
    <2> QED BY <1>3, <1>4, <2>1, OwnersAreOwners DEF OwnersOwn
  <1>6. e \in Row
    BY <1>2, <1>4, <1>5 DEF Row, HandoffRow, AnyKey
  <1>7. \E m \in e.since .. Len(log) : e.from = Owner(e.route, m)
    BY <1>3
  <1> QED BY <1>1, <1>2, <1>4, <1>5, <1>6, <1>7

LEMMA InsertHandoffStep ==
    ASSUME IInv, NEW s \in Slots, InsertHandoff(s)
    PROVE  IInv'
  BY InsertHandoffFacts, RecordingStep

LEMMA RecordFeedbackFacts ==
    ASSUME IInv, NEW s \in Slots, RecordFeedback(s)
    PROVE  \E e \in Row :
             /\ Append1(s, e) /\ req[s].phase = "inserting" /\ e.at = req[s].at
             /\ e.kind = "feedback" /\ e.slot = s /\ e.route = RouteOf(s) /\ e.to = Asked(s)
             /\ e.key = req[s].request.key /\ e.key = NoKey
  <1> DEFINE e == [kind |-> "feedback", route |-> RouteOf(s), from |-> None,
                   to |-> Asked(s), since |-> req[s].since, at |-> req[s].at,
                   key |-> req[s].request.key, slot |-> s]
  <1>1. Append1(s, e) /\ req[s].phase = "inserting" /\ IsFeedback(s)
    BY DEF RecordFeedback
  <1>2. req[s].request \in Commands /\ req[s].since \in Nat /\ req[s].at \in Nat
    BY <1>1, Typed DEF RequestType
  <1>3. RouteOf(s) \in Routes /\ Asked(s) \in Marks /\ req[s].request.key = NoKey
    BY <1>1, <1>2, CommandShape DEF RouteOf, Asked, IsFeedback
  <1>4. e \in Row
    BY <1>2, <1>3 DEF Row, FeedbackRow
  <1> QED BY <1>1, <1>3, <1>4

LEMMA RecordFeedbackStep ==
    ASSUME IInv, NEW s \in Slots, RecordFeedback(s)
    PROVE  IInv'
  <1>1. PICK e \in Row :
             /\ Append1(s, e) /\ req[s].phase = "inserting" /\ e.at = req[s].at
             /\ e.kind = "feedback" /\ e.slot = s /\ e.route = RouteOf(s) /\ e.to = Asked(s)
             /\ e.key = req[s].request.key /\ e.key = NoKey
    BY RecordFeedbackFacts
  <1> QED BY <1>1, RecordingStep

LEMMA ServeStep ==
    ASSUME IInv, NEW s \in Slots, Serve(s)
    PROVE  IInv'
  <1>1. CASE RefuseReroute(s)
    BY <1>1, FailStep DEF RefuseReroute
  <1>2. CASE InsertClash(s)
    BY <1>2, FailStep DEF InsertClash
  <1> QED BY <1>1, <1>2, ReadOwnerStep, AnswerFromKeyStep, MakeRowStep, InsertHandoffStep,
             RecordFeedbackStep DEF Serve

LEMMA SubmitStep ==
    ASSUME IInv, NEW s \in Slots, Submit(s)
    PROVE  IInv'
  <1>1. ASSUME NEW r \in Routes, NEW o \in Owners, Issue(s, RerouteSignal(r, o))
        PROVE  IInv'
    BY <1>1, PlainRerouteIsCommand, IssueStep
  <1>2. ASSUME NEW r \in Routes, NEW o \in Owners, NEW k \in IdempotencyKeys,
               KeyFree(WithKey(RerouteSignal(r, o), k)), Issue(s, WithKey(RerouteSignal(r, o), k))
        PROVE  IInv'
    BY <1>2, KeyedRerouteIsCommand, IssueStep DEF KeyFree
  <1>3. ASSUME NEW r \in Routes, NEW mark \in Marks, Issue(s, SubmitFeedback(r, mark))
        PROVE  IInv'
    BY <1>3, FeedbackIsCommand, IssueStep
  <1> QED BY <1>1, <1>2, <1>3 DEF Submit

LEMMA RetryStep ==
    ASSUME IInv, NEW s \in Slots, Retry(s)
    PROVE  IInv'
  <1>1. PICK t \in Slots : /\ req[t].phase \notin {"free", "acked"}
                           /\ req[t].request.key # NoKey
                           /\ Issue(s, req[t].request)
    BY DEF Retry
  <1>2. req[t].request \in Commands
    BY <1>1, Typed
  <1>3. \A u \in Slots : /\ req[u].phase # "free" /\ req[u].request.key = req[t].request.key
                        => req[u].request = req[t].request
    BY <1>1 DEF IInv, KeyNamesOneCommand
  <1> QED BY <1>1, <1>2, <1>3, IssueStep

LEMMA HandoffStepInductive ==
    ASSUME IInv, NEW s \in Slots, HandoffStep(s)
    PROVE  IInv'
  <1>1. CASE Lose(s)
    BY <1>1, FailStep DEF Lose
  <1> QED BY <1>1, SubmitStep, RetryStep, ServeStep, EndStep DEF HandoffStep

LEMMA HandoffStutter ==
    ASSUME IInv, UNCHANGED <<log, req, clock>>
    PROVE  IInv'
  <1>1. RowsOfRequests' /\ KeyNamesOneCommand' /\ HandoffTypeOK'
    BY DEF IInv, RowsOfRequests, KeyNamesOneCommand, HandoffTypeOK, RouteOf, Asked
  <1>2. HandoffChain' /\ \A r, n : Owner(r, n)' = Owner(r, n)
    BY SameLog
  <1>3. RequestsUnderWay' /\ CommandHasItsRow'
    BY <1>2 DEF IInv, RequestsUnderWay, CommandHasItsRow, RouteOf, Asked, IsReroute, Accepted
  <1>4. Stamps'
    BY DEF IInv, Stamps, Inserting
  <1> QED BY <1>1, <1>2, <1>3, <1>4 DEF IInv

LEMMA HandoffInductive == HandoffSpec => []IInv
  <1>1. IInv /\ [\E s \in Slots : HandoffStep(s)]_<<log, req, clock>> => IInv'
    BY HandoffStepInductive, HandoffStutter
  <1> QED BY <1>1, HandoffInit, PTL DEF HandoffSpec

-----------------------------------------------------------------------------
(* Theorems *)

(* The log and the requests keep their shape, whatever callers ask for.      *)
THEOREM HandoffTypeCorrect == HandoffSpec => []HandoffTypeOK
  <1>1. IInv => HandoffTypeOK
    BY DEF IInv
  <1> QED BY <1>1, HandoffInductive, PTL

(* Served for good *)

LEMMA RowsAreServed ==
    ASSUME IInv, OneRowPerRequest, NEW s \in Slots, HandoffStep(s)
    PROVE  OneRowPerRequest'
  <1>0. log \in Seq(Row) /\ Len(log) \in Nat /\ \A i \in 1 .. Len(log) : log[i].slot \in Slots
    BY LogTyped DEF IInv
  <1>1. /\ \A t \in Slots \ {s} : req'[t] = req[t]
        /\ req[s].phase \in Served => req'[s].phase \in Served
    BY DEF HandoffStep, Submit, Retry, Issue, Serve, RefuseReroute, ReadOwner, AnswerFromKey,
       MakeHandoff, MakeFeedback, MakeRow, InsertHandoff, InsertClash, RecordFeedback, Append1, Advance, Lose, Fail, Accept,
       GiveUp, Served, IInv, HandoffTypeOK
  <1>2. CASE InsertHandoff(s) \/ RecordFeedback(s)
    <2>1. PICK e \in Row : Append1(s, e) /\ e.slot = s
      BY <1>2, InsertHandoffFacts, RecordFeedbackFacts
    <2>2. req[s].phase \notin Served /\ req'[s].phase = "recorded"
      BY <1>2, <2>1 DEF InsertHandoff, RecordFeedback, Append1, Served, IInv, HandoffTypeOK
    <2>3. /\ Len(log') = Len(log) + 1 /\ log'[Len(log) + 1] = e
          /\ \A i \in 1 .. Len(log) : log'[i] = log[i]
      BY <1>0, <2>1, Appended DEF Append1
    <2>4. \A i \in 1 .. Len(log) : log[i].slot # s
      BY <2>2 DEF OneRowPerRequest
    <2>5. \A i \in 1 .. Len(log') : i \in 1 .. Len(log) \/ i = Len(log) + 1
      BY <1>0, <2>3
    <2> QED
      BY <1>0, <1>1, <2>1, <2>2, <2>3, <2>4, <2>5 DEF OneRowPerRequest, Served
  <1>3. CASE ~InsertHandoff(s) /\ ~RecordFeedback(s)
    <2>1. UNCHANGED log
      BY <1>3 DEF HandoffStep, Submit, Retry, Issue, Serve, RefuseReroute, ReadOwner,
         AnswerFromKey, MakeHandoff, MakeFeedback, MakeRow, InsertClash, Lose, Fail, Accept, GiveUp
    <2> QED
      BY <1>0, <1>1, <2>1 DEF OneRowPerRequest
  <1> QED BY <1>2, <1>3

LEMMA OneRow == HandoffSpec => []OneRowPerRequest
  <1>1. InitLog => OneRowPerRequest
    BY DEF InitLog, OneRowPerRequest
  <1>2. IInv /\ OneRowPerRequest /\ [\E s \in Slots : HandoffStep(s)]_<<log, req, clock>>
           => OneRowPerRequest'
    <2>1. UNCHANGED <<log, req, clock>> /\ OneRowPerRequest => OneRowPerRequest'
      BY DEF OneRowPerRequest
    <2> QED BY <2>1, RowsAreServed
  <1> QED BY <1>1, <1>2, HandoffInductive, PTL DEF HandoffSpec

(* record_route_handoff: a recorded command has its row, a transmission one  *)
(* row at most and a keyed command one row, for any number of callers,       *)
(* retries and lost answers.                                                *)
THEOREM AcceptedCommandsAreRecorded == HandoffSpec => []AcceptedCommandIsRecorded
  <1>1. IInv /\ OneRowPerRequest => AcceptedCommandIsRecorded
    BY DEF IInv, AcceptedCommandIsRecorded
  <1> QED BY <1>1, HandoffInductive, OneRow, PTL

(* The log is only appended to, one row at a time: what a reader was shown   *)
(* of a route at some length of the log is the same for ever.                *)
THEOREM HistoryStable == HandoffSpec => HistoryIsStable
  <1> DEFINE Stable == /\ Len(log') \in Len(log) .. Len(log) + 1
                       /\ \A r \in Routes, n \in 0 .. Len(log) :
                             RouteAudit(r, n)' = RouteAudit(r, n)
  <1>1. IInv /\ [\E s \in Slots : HandoffStep(s)]_<<log, req, clock>> => [Stable]_<<log, req, clock>>
    <2> SUFFICES ASSUME IInv, NEW s \in Slots, HandoffStep(s)
                 PROVE  Stable
      OBVIOUS
    <2>1. log \in Seq(Row) /\ Len(log) \in Nat
      BY LogTyped DEF IInv
    <2>2. UNCHANGED log \/ \E e \in Row : log' = Append(log, e)
      <3>1. CASE InsertHandoff(s) \/ RecordFeedback(s)
        BY <3>1, InsertHandoffFacts, RecordFeedbackFacts DEF Append1
      <3>2. CASE ~InsertHandoff(s) /\ ~RecordFeedback(s)
        BY <3>2 DEF HandoffStep, Submit, Retry, Issue, Serve, RefuseReroute, ReadOwner,
           AnswerFromKey, MakeHandoff, MakeFeedback, MakeRow, InsertClash, Lose, Fail, Accept, GiveUp
      <3> QED BY <3>1, <3>2
    <2>3. /\ Len(log') \in Len(log) .. Len(log) + 1
          /\ \A i \in 1 .. Len(log) : log'[i] = log[i]
      BY <2>1, <2>2, Appended
    <2>4. ASSUME NEW r \in Routes, NEW n \in 0 .. Len(log)
          PROVE  RouteAudit(r, n)' = RouteAudit(r, n)
      BY <2>3, PrefixStable DEF RouteAudit
    <2> QED BY <2>3, <2>4
  <1> QED BY <1>1, HandoffInductive, PTL DEF HandoffSpec, HistoryIsStable

(* reroute reads the owner in one transaction and records it in another: the *)
(* origin of every handoff held the route while the command was under way.   *)
THEOREM HandoffsNameAnOwnerOfTheirTime == HandoffSpec => []HandoffChain
  <1>1. IInv => HandoffChain
    BY DEF IInv
  <1> QED BY <1>1, HandoffInductive, PTL

-----------------------------------------------------------------------------
(* The log implements ownership *)

UsedKeys == {log[i].key : i \in 1 .. Len(log)} \ {NoKey}
OwnerNow == [r \in Routes |-> Owner(r, Len(log))]
AtNow == [r \in Routes |-> HandoffAt(r, Len(log))]
OpenNow == {req[s].at : s \in Inserting}
OwnershipNow == <<OwnerNow, AtNow, UsedKeys, clock, OpenNow>>

AbstractNext ==
    \/ Ownership!Begin
    \/ \E t \in OpenNow : \/ Ownership!Abandon(t)
                           \/ \E r \in Routes, o \in Owners, k \in IdempotencyKeys \cup {NoKey} :
                                 Ownership!Reroute(t, r, o, k)

LEMMA OwnershipInit == InitLog => Ownership!Init
  <1> SUFFICES ASSUME InitLog PROVE Ownership!Init
    OBVIOUS
  <1>1. log = <<>> /\ Len(log) = 0 /\ 1 .. Len(log) = {} /\ clock = 0
    BY DEF InitLog
  <1>2. UsedKeys = {} /\ OpenNow = {}
    BY <1>1 DEF UsedKeys, OpenNow, Inserting, InitLog, NoRequest
  <1>3. \A r \in Routes : Owner(r, Len(log)) = FirstOwner[r] /\ HandoffAt(r, Len(log)) = 0
    BY <1>1 DEF Owner, HandoffAt, Events
  <1>4. OwnerNow = FirstOwner /\ AtNow = [r \in Routes |-> 0]
    BY <1>3, HandoffAssumption DEF OwnerNow, AtNow
  <1> QED BY <1>1, <1>2, <1>4 DEF Ownership!Init, UsedKeys, OwnerNow, AtNow, OpenNow

LEMMA SameOwners ==
    ASSUME UNCHANGED log
    PROVE  UNCHANGED <<OwnerNow, AtNow, UsedKeys>>
  BY DEF OwnerNow, AtNow, UsedKeys, Owner, HandoffAt, Events

(* The tickets under way after a step of one request.                       *)
LEMMA TicketsAfter ==
    ASSUME IInv, NEW s \in Slots, \A t \in Slots \ {s} : req'[t] = req[t]
    PROVE  /\ s \in Inserting /\ s \notin Inserting' => OpenNow' = OpenNow \ {req[s].at}
           /\ s \notin Inserting /\ s \in Inserting' => OpenNow' = OpenNow \cup {req'[s].at}
           /\ s \notin Inserting /\ s \notin Inserting' => OpenNow' = OpenNow
  <1>1. \A t \in Slots \ {s} : t \in Inserting' <=> t \in Inserting
    BY DEF Inserting
  <1>2. \A t : t \in Inserting \/ t \in Inserting' => t \in Slots
    BY DEF Inserting
  <1>3. CASE s \in Inserting /\ s \notin Inserting'
    <2>1. Inserting' = Inserting \ {s}
      BY <1>1, <1>2, <1>3
    <2>2. OpenNow' = {req[t].at : t \in Inserting \ {s}}
      BY <1>2, <2>1 DEF OpenNow
    <2>3. \A t \in Inserting \ {s} : req[t].at # req[s].at
      BY <1>3 DEF IInv, Stamps
    <2> QED BY <1>3, <2>2, <2>3 DEF OpenNow
  <1>4. CASE s \notin Inserting /\ s \in Inserting'
    <2>1. Inserting' = Inserting \cup {s}
      BY <1>1, <1>2, <1>4
    <2>2. \A t \in Inserting : req'[t] = req[t]
      BY <1>2, <1>4
    <2> QED BY <1>4, <2>1, <2>2 DEF OpenNow
  <1>5. CASE s \notin Inserting /\ s \notin Inserting'
    <2>1. Inserting' = Inserting
      BY <1>1, <1>2, <1>5
    <2>2. \A t \in Inserting : req'[t] = req[t]
      BY <1>2, <1>5
    <2> QED BY <1>5, <2>1, <2>2 DEF OpenNow
  <1> QED BY <1>3, <1>4, <1>5

(* A row that is made draws the next ticket.                                *)
LEMMA MakingBegins ==
    ASSUME IInv, NEW s \in Slots, MakeHandoff(s) \/ MakeFeedback(s)
    PROVE  Ownership!Begin
  <1>1. /\ \A t \in Slots \ {s} : req'[t] = req[t]
        /\ req'[s].phase = "inserting" /\ req'[s].at = clock + 1
        /\ s \notin Inserting /\ clock' = clock + 1 /\ UNCHANGED log
    BY Typed DEF MakeHandoff, MakeFeedback, MakeRow, Inserting, RequestType
  <1>2. OpenNow' = OpenNow \cup {clock'}
    BY <1>1, TicketsAfter DEF Inserting
  <1>3. UNCHANGED <<OwnerNow, AtNow, UsedKeys>>
    BY <1>1, SameOwners
  <1> QED BY <1>1, <1>2, <1>3 DEF Ownership!Begin, OwnerNow, AtNow, UsedKeys, OpenNow

(* A row that is given up returns its ticket; a request without one has none. *)
LEMMA FailingAbandons ==
    ASSUME IInv, NEW s \in Slots, Fail(s)
    PROVE  [AbstractNext]_OwnershipNow
  <1>1. /\ \A t \in Slots \ {s} : req'[t] = req[t]
        /\ s \notin Inserting' /\ UNCHANGED <<log, clock>>
    BY Typed DEF Fail, Inserting, RequestType
  <1>2. UNCHANGED <<OwnerNow, AtNow, UsedKeys>>
    BY <1>1, SameOwners
  <1>3. CASE s \in Inserting
    <2>1. PICK t : t = req[s].at
      OBVIOUS
    <2>2. OpenNow' = OpenNow \ {t} /\ t \in OpenNow
      BY <1>1, <1>3, <2>1, TicketsAfter DEF OpenNow
    <2>3. Ownership!Abandon(t)
      BY <1>1, <1>2, <2>2 DEF Ownership!Abandon, OwnerNow, AtNow, UsedKeys, OpenNow
    <2> QED BY <2>2, <2>3 DEF AbstractNext
  <1>4. CASE s \notin Inserting
    BY <1>1, <1>2, <1>4, TicketsAfter DEF OwnershipNow
  <1> QED BY <1>3, <1>4

(* After one more row the owner of its route is the one it names, if it is  *)
(* a handoff newer than the route's others; every other owner is as before.  *)
LEMMA OneMoreRow ==
    ASSUME IInv, NEW e \in Row, log' = Append(log, e), e.at \in Nat \ {0},
           \A i \in 1 .. Len(log) : log[i].at # e.at
    PROVE  /\ UsedKeys' = UsedKeys \cup ({e.key} \ {NoKey})
           /\ \A r \in Routes :
                /\ AtNow[r] \in Nat /\ AtNow[r] # e.at
                /\ IF e.kind = "handoff" /\ e.route = r /\ e.at > AtNow[r]
                   THEN OwnerNow'[r] = e.to /\ AtNow'[r] = e.at
                   ELSE OwnerNow'[r] = OwnerNow[r] /\ AtNow'[r] = AtNow[r]
  <1>0. PICK M, N : M \in Nat /\ M = Len(log) /\ N = M + 1
    BY LogTyped DEF IInv
  <1>1. /\ log' \in Seq(Row) /\ Len(log') = N /\ log'[N] = e
        /\ \A i \in 1 .. Len(log) : log'[i] = log[i]
    BY <1>0, Appended, LogTyped DEF IInv
  <1>2. /\ N \in 1 .. N /\ N \in Nat /\ M \in 0 .. Len(log) /\ 1 .. N = 1 .. M \cup {N}
        /\ N \notin 1 .. M
    BY <1>0
  <1>3. UsedKeys' = UsedKeys \cup ({e.key} \ {NoKey})
    BY <1>0, <1>1, <1>2 DEF UsedKeys
  <1>4. ASSUME NEW r \in Routes
        PROVE  /\ AtNow[r] \in Nat /\ AtNow[r] # e.at
               /\ IF e.kind = "handoff" /\ e.route = r /\ e.at > AtNow[r]
                  THEN OwnerNow'[r] = e.to /\ AtNow'[r] = e.at
                  ELSE OwnerNow'[r] = OwnerNow[r] /\ AtNow'[r] = AtNow[r]
    <2> DEFINE E == Events("handoff", r, M)
               m == Newest(log, E)
    <2>1. /\ OwnerNow'[r] = Owner(r, N)' /\ OwnerNow[r] = Owner(r, M)
          /\ AtNow'[r] = HandoffAt(r, N)' /\ AtNow[r] = HandoffAt(r, M)
      <3>1. /\ OwnerNow[r] = Owner(r, Len(log)) /\ OwnerNow'[r] = Owner(r, Len(log))'
            /\ AtNow[r] = HandoffAt(r, Len(log)) /\ AtNow'[r] = HandoffAt(r, Len(log))'
        BY DEF OwnerNow, AtNow
      <3>2. Owner(r, Len(log))' = Owner(r, N)' /\ HandoffAt(r, Len(log))' = HandoffAt(r, N)'
        BY <1>1 DEF Owner, HandoffAt, Events
      <3> QED BY <1>0, <3>1, <3>2
    <2>2. /\ \A i \in E : i \in 1 .. Len(log) /\ log'[i] = log[i] /\ log[i].at \in Nat
          /\ Events("handoff", r, M)' = E
      BY <1>0, <1>1, LogTyped DEF Events, IInv
    <2>3. E # {} => m \in E /\ \A i \in E \ {m} : log[i].at < log[m].at
      BY <1>2, NewestEvent
    <2>4. IF E = {} THEN AtNow[r] = 0 ELSE AtNow[r] = log[m].at /\ OwnerNow[r] = log[m].to
      BY <2>1 DEF HandoffAt, Owner
    <2> HIDE DEF m
    <2>5. AtNow[r] \in Nat /\ AtNow[r] # e.at
      BY <2>2, <2>3, <2>4
    <2>6. CASE e.kind = "handoff" /\ e.route = r
      <3> DEFINE F == Events("handoff", r, N)'
      <3>1. F = E \cup {N}
        BY <1>1, <1>2, <1>0, <2>2, <2>6 DEF Events
      <3>2. \A i \in F : log'[i].at \in Nat
        BY <1>1, <2>2, <3>1
      <3>3. CASE e.at > AtNow[r]
        <4>1. \A i \in E : log'[i].at < e.at
          BY <2>2, <2>3, <2>4, <2>5, <3>3
        <4>2. N \in F /\ \A i \in F \ {N} : log'[i].at < log'[N].at
          BY <1>1, <3>1, <4>1
        <4> HIDE DEF F
        <4>3. Newest(log', F) = N
          BY <3>2, <4>2, NewestIs
        <4>4. Owner(r, N)' = e.to /\ HandoffAt(r, N)' = e.at
          BY <1>1, <4>2, <4>3 DEF Owner, HandoffAt, F
        <4> QED BY <2>1, <2>5, <2>6, <3>3, <4>4
      <3>4. CASE ~(e.at > AtNow[r])
        <4>1. e.at < AtNow[r] /\ E # {}
          BY <2>4, <2>5, <3>4
        <4>2. m \in F /\ \A i \in F \ {m} : log'[i].at < log'[m].at
          <5>1. \A i \in E \ {m} : log'[i].at < log'[m].at
            BY <2>2, <2>3, <4>1
          <5>2. log'[N].at < log'[m].at
            BY <1>1, <2>2, <2>3, <2>4, <4>1
          <5> QED BY <2>3, <3>1, <4>1, <5>1, <5>2
        <4>3. log'[m] = log[m]
          BY <2>2, <2>3, <4>1
        <4> HIDE DEF F
        <4>4. Newest(log', F) = m
          BY <3>2, <4>2, NewestIs
        <4>5. Owner(r, N)' = log[m].to /\ HandoffAt(r, N)' = log[m].at
          BY <4>2, <4>3, <4>4 DEF Owner, HandoffAt, F
        <4> QED BY <2>1, <2>4, <2>5, <2>6, <3>4, <4>1, <4>5
      <3> QED BY <3>3, <3>4
    <2>7. CASE ~(e.kind = "handoff" /\ e.route = r)
      <3>1. Events("handoff", r, N)' = Events("handoff", r, M)'
        BY <1>1, <1>2, <2>7 DEF Events
      <3>2. Owner(r, N)' = Owner(r, M)' /\ HandoffAt(r, N)' = HandoffAt(r, M)'
        BY <3>1 DEF Owner, HandoffAt
      <3>3. Owner(r, M)' = Owner(r, M) /\ HandoffAt(r, M)' = HandoffAt(r, M)
        BY <1>0, <1>1, <1>2, PrefixStable
      <3> QED BY <2>1, <2>5, <2>7, <3>2, <3>3
    <2> QED BY <2>6, <2>7
  <1> QED BY <1>3, <1>4

(* What the step that records a command does to the tickets.                *)
LEMMA RecordedTicket ==
    ASSUME IInv, NEW s \in Slots, NEW e \in Row, Append1(s, e),
           req[s].phase = "inserting", e.at = req[s].at
    PROVE  /\ OpenNow' = OpenNow \ {e.at} /\ e.at \in OpenNow /\ UNCHANGED clock
           /\ e.at \in Nat \ {0} /\ \A i \in 1 .. Len(log) : log[i].at # e.at
           /\ log' = Append(log, e)
  <1>1. s \in Inserting
    BY DEF Inserting
  <1>2. /\ \A t \in Slots \ {s} : req'[t] = req[t]
        /\ s \notin Inserting' /\ UNCHANGED clock /\ log' = Append(log, e)
    BY Typed DEF Append1, Inserting, RequestType
  <1>3. OpenNow' = OpenNow \ {e.at} /\ e.at \in OpenNow
    BY <1>1, <1>2, TicketsAfter DEF OpenNow
  <1>4. e.at \in 1 .. clock /\ \A i \in 1 .. Len(log) : log[i].at # e.at
    BY <1>1 DEF IInv, Stamps
  <1> QED BY <1>2, <1>3, <1>4, Typed

LEMMA InsertReroutes ==
    ASSUME IInv, NEW s \in Slots, InsertHandoff(s)
    PROVE  AbstractNext
  <1>1. PICK e \in Row :
             /\ Append1(s, e) /\ req[s].phase = "inserting" /\ e.at = req[s].at
             /\ e.kind = "handoff" /\ e.slot = s /\ e.route = RouteOf(s) /\ e.to = Asked(s)
             /\ e.key = req[s].request.key /\ KeyedRows(e.key) = {}
             /\ e.from \in Owners /\ e.to \in Owners /\ Accepted(e.route, e.to)
             /\ \E n \in e.since .. Len(log) : e.from = Owner(e.route, n)
    BY InsertHandoffFacts
  <1>2. e.route \in Routes /\ e.key \in IdempotencyKeys \cup {NoKey}
    BY DEF Row, HandoffRow, FeedbackRow
  <1>3. e.key \notin UsedKeys
    BY <1>1 DEF UsedKeys, KeyedRows
  <1>4. /\ OpenNow' = OpenNow \ {e.at} /\ e.at \in OpenNow /\ UNCHANGED clock
        /\ e.at \in Nat \ {0} /\ \A i \in 1 .. Len(log) : log[i].at # e.at
        /\ log' = Append(log, e)
    BY <1>1, RecordedTicket
  <1>5. /\ UsedKeys' = UsedKeys \cup ({e.key} \ {NoKey})
        /\ \A r \in Routes :
              /\ AtNow[r] \in Nat /\ AtNow[r] # e.at
              /\ IF e.route = r /\ e.at > AtNow[r]
                 THEN OwnerNow'[r] = e.to /\ AtNow'[r] = e.at
                 ELSE OwnerNow'[r] = OwnerNow[r] /\ AtNow'[r] = AtNow[r]
    BY <1>1, <1>4, OneMoreRow
  <1>6. /\ OwnerNow' = [r \in Routes |-> OwnerNow'[r]] /\ OwnerNow = [r \in Routes |-> OwnerNow[r]]
        /\ AtNow' = [r \in Routes |-> AtNow'[r]] /\ AtNow = [r \in Routes |-> AtNow[r]]
    BY DEF OwnerNow, AtNow
  <1>7. \/ /\ e.at > AtNow[e.route]
           /\ OwnerNow' = [OwnerNow EXCEPT ![e.route] = e.to]
           /\ AtNow' = [AtNow EXCEPT ![e.route] = e.at]
        \/ e.at < AtNow[e.route] /\ UNCHANGED <<OwnerNow, AtNow>>
    <2>1. CASE e.at > AtNow[e.route]
      <3>1. \A r \in Routes : /\ OwnerNow'[r] = IF r = e.route THEN e.to ELSE OwnerNow[r]
                              /\ AtNow'[r] = IF r = e.route THEN e.at ELSE AtNow[r]
        BY <1>2, <1>5, <2>1
      <3> QED BY <1>6, <2>1, <3>1
    <2>2. CASE ~(e.at > AtNow[e.route])
      <3>1. e.at < AtNow[e.route]
        BY <1>2, <1>4, <1>5, <2>2
      <3>2. \A r \in Routes : OwnerNow'[r] = OwnerNow[r] /\ AtNow'[r] = AtNow[r]
        BY <1>5, <2>2
      <3> QED BY <1>6, <3>1, <3>2
    <2> QED BY <2>1, <2>2
  <1>8. Ownership!Reroute(e.at, e.route, e.to, e.key)
    BY <1>1, <1>3, <1>4, <1>5, <1>7
    DEF Ownership!Reroute, Accepted, UsedKeys, OwnerNow, AtNow, OpenNow
  <1> QED BY <1>1, <1>2, <1>4, <1>8 DEF AbstractNext

LEMMA FeedbackAbandons ==
    ASSUME IInv, NEW s \in Slots, RecordFeedback(s)
    PROVE  AbstractNext
  <1>1. PICK e \in Row : /\ Append1(s, e) /\ e.kind = "feedback" /\ e.key = NoKey
                         /\ req[s].phase = "inserting" /\ e.at = req[s].at
    BY RecordFeedbackFacts
  <1>2. /\ OpenNow' = OpenNow \ {e.at} /\ e.at \in OpenNow /\ UNCHANGED clock
        /\ e.at \in Nat \ {0} /\ \A i \in 1 .. Len(log) : log[i].at # e.at
        /\ log' = Append(log, e)
    BY <1>1, RecordedTicket
  <1>3. /\ UsedKeys' = UsedKeys
        /\ \A r \in Routes : OwnerNow'[r] = OwnerNow[r] /\ AtNow'[r] = AtNow[r]
    BY <1>1, <1>2, OneMoreRow DEF UsedKeys
  <1>4. OwnerNow' = OwnerNow /\ AtNow' = AtNow
    BY <1>3 DEF OwnerNow, AtNow
  <1>5. Ownership!Abandon(e.at)
    BY <1>2, <1>3, <1>4 DEF Ownership!Abandon, OwnerNow, AtNow, UsedKeys, OpenNow
  <1> QED BY <1>2, <1>5 DEF AbstractNext

LEMMA StepsMap ==
    ASSUME IInv, [\E s \in Slots : HandoffStep(s)]_<<log, req, clock>>
    PROVE  [AbstractNext]_OwnershipNow
  <1>1. CASE UNCHANGED <<log, req, clock>>
    BY <1>1, SameOwners DEF OwnershipNow, OpenNow, Inserting
  <1>2. ASSUME NEW s \in Slots, HandoffStep(s)
        PROVE  [AbstractNext]_OwnershipNow
    <2>1. CASE InsertHandoff(s)
      BY <2>1, InsertReroutes
    <2>2. CASE RecordFeedback(s)
      BY <2>2, FeedbackAbandons
    <2>3. CASE MakeHandoff(s) \/ MakeFeedback(s)
      BY <2>3, MakingBegins DEF AbstractNext
    <2>4. CASE RefuseReroute(s) \/ InsertClash(s) \/ Lose(s)
      BY <2>4, FailingAbandons DEF RefuseReroute, InsertClash, Lose
    <2>5. CASE Submit(s) \/ Retry(s) \/ ReadOwner(s) \/ AnswerFromKey(s) \/ Accept(s) \/ GiveUp(s)
      <3>1. /\ \A t \in Slots \ {s} : req'[t] = req[t]
            /\ s \notin Inserting /\ s \notin Inserting' /\ UNCHANGED <<log, clock>>
        <4>1. CASE Submit(s) \/ Retry(s)
          BY <4>1, Typed, ZenonT(30) DEF Submit, Retry, Issue, NoRequest, Inserting, RequestType
        <4>2. CASE ReadOwner(s) \/ Accept(s) \/ GiveUp(s)
          BY <4>2, Typed DEF ReadOwner, Accept, GiveUp, Advance, Inserting, RequestType
        <4>3. CASE AnswerFromKey(s)
          BY <4>3, Typed DEF AnswerFromKey, Inserting, RequestType
        <4> QED BY <2>5, <4>1, <4>2, <4>3
      <3>2. OpenNow' = OpenNow
        BY <3>1, TicketsAfter
      <3> QED BY <3>1, <3>2, SameOwners DEF OwnershipNow
    <2> QED BY <1>2, <2>1, <2>2, <2>3, <2>4, <2>5 DEF HandoffStep, Serve
  <1> QED BY <1>1, <1>2

(* The owner of a route is a projection of the append-only handoffs, the     *)
(* newest of them by the time it was made.  Seen through it, a command takes *)
(* effect at once, with an owner the route's brand accepts and a key not yet *)
(* used, and only one overtaken while it was under way loses to another.     *)
THEOREM HandoffsImplementOwnership == HandoffSpec => ImplementsOwnership
  <1>1. InitLog => Ownership!Init
    BY OwnershipInit
  <1>2. IInv /\ [\E s \in Slots : HandoffStep(s)]_<<log, req, clock>>
           => [AbstractNext]_OwnershipNow
    BY StepsMap
  <1>3. [][AbstractNext]_OwnershipNow /\ Ownership!Init => ImplementsOwnership
    BY PTL DEF ImplementsOwnership, Ownership!Spec, Ownership!Next, Ownership!ownershipVars,
       AbstractNext, OwnershipNow, OwnerNow, AtNow, UsedKeys, OpenNow
  <1> QED BY <1>1, <1>2, <1>3, HandoffInductive, PTL DEF HandoffSpec
=============================================================================
