----------------------- MODULE PublicListeningProofs -----------------------
(***************************************************************************)
(* Accounting of sources, signals and late work in sync_public_listening,  *)
(* for every number of attempts, sources, items, retries and kills.        *)
(***************************************************************************)
EXTENDS PublicListening, TLAPS

\* Every step of an attempt that is at one of the sources keeps the types.
LEMMA TypeStep ==
  ASSUME TypeOK, NEW s \in Sync, pc[s] \in InTry \cup Failing => src[s] \in Source,
          Step(s) \/ Kill(s) \/ Retry(s) \/ Lapse(s)
  PROVE  TypeOK'
<1> USE SyncAssumption, NumberAssumption
    DEF TypeOK, Failing, Goto, rows, results, bounds, lease, history,
        Source, Key, Running, InTry, Processing, Ended
<1>1. CASE Begin(s)
  BY <1>1 DEF Begin
<1>2. CASE NextSource(s)
  BY <1>2 DEF NextSource, MayGoOn
<1>3. CASE StartActor(s)
  BY <1>3, SMTT(30) DEF StartActor, CountLate
<1>4. CASE Poll(s)
  BY <1>4 DEF Poll, MayGoOn
<1>5. CASE Fetch(s)
  BY <1>5 DEF Fetch
<1>6. CASE TakeItem(s)
  <2>1. \A i \in Item : <<src[s], i>> \in Key
    BY <1>6 DEF TakeItem
  <2>2. left[s] - 1 \in 0 .. MaxItems
    BY <1>6 DEF TakeItem
  <2>3. left' \in [Sync -> 0 .. MaxItems]
    BY <1>6, <2>2 DEF TakeItem
  <2>4. item' \in [Sync -> Key \cup {NoItem}] /\ taken' \in [Sync -> SUBSET Key]
    <3>1. \/ UNCHANGED <<item, taken>>
          \/ \E k \in Key : /\ item' = [item EXCEPT ![s] = k]
                           /\ taken' = [taken EXCEPT ![s] = @ \cup {k}]
      BY <1>6, <2>1 DEF TakeItem
    <3>2. item \in [Sync -> Key \cup {NoItem}] /\ taken \in [Sync -> SUBSET Key]
      OBVIOUS
    <3> HIDE DEF Key, TypeOK
    <3> QED BY <3>1, <3>2
  <2>5. pc' \in [Sync -> Running \cup Ended \cup {"idle"}]
    BY <1>6 DEF TakeItem
  <2>6. UNCHANGED <<rows, src, loaded, results, bounds, lease, credit>>
    BY <1>6 DEF TakeItem
  <2> QED
    BY <2>3, <2>4, <2>5, <2>6
<1>7. CASE ReadState(s)
  BY <1>7 DEF ReadState
<1>8. CASE RecordSignal(s)
  BY <1>8 DEF RecordSignal
<1>9. CASE Classify(s)
  BY <1>9 DEF Classify, CountLate
<1>10. CASE RecordClassification(s)
  BY <1>10 DEF RecordClassification
<1>11. CASE RecordRoute(s)
  <2>1. stage' \in [Key -> {"absent", "recorded", "classified", "routed"}]
    BY <1>11 DEF RecordRoute
  <2>2. credit' \in [Key -> Nat]
    <3>1. credit \in [Key -> Nat] /\ credit' = [credit EXCEPT ![item[s]] = @ + 1]
      BY <1>11 DEF RecordRoute
    <3> HIDE DEF Key, TypeOK
    <3>2. \A k \in Key : credit[k] + 1 \in Nat
      BY <3>1
    <3> QED BY <3>1, <3>2
  <2>3. pc' \in [Sync -> Running \cup Ended \cup {"idle"}]
    BY <1>11 DEF RecordRoute
  <2>4. UNCHANGED <<health, event, src, left, item, loaded, results, bounds, lease, taken>>
    BY <1>11 DEF RecordRoute
  <2> QED
    BY <2>1, <2>2, <2>3, <2>4
<1>12. CASE Beat(s)
  BY <1>12 DEF Beat, MayGoOn
<1>13. CASE LoadHealth(s)
  BY <1>13 DEF LoadHealth
<1>14. CASE RecordOk(s)
  BY <1>14, SMTT(30) DEF RecordOk, WriteHealth
<1>15. CASE SourceFails(s)
  BY <1>15 DEF SourceFails
<1>16. CASE RecordFailed(s)
  BY <1>16, SMTT(30) DEF RecordFailed, WriteHealth
<1>17. CASE Raise(s)
  BY <1>17 DEF Raise
<1>18. CASE Finish(s)
  BY <1>18 DEF Finish
<1>19. CASE Kill(s)
  BY <1>19 DEF Kill
<1>20. CASE Retry(s)
  BY <1>20 DEF Retry
<1>21. CASE Lapse(s)
  BY <1>21 DEF Lapse
<1> QED
  BY <1>1, <1>2, <1>3, <1>4, <1>5, <1>6, <1>7, <1>8, <1>9, <1>10, <1>11, <1>12, <1>13, <1>14, <1>15, <1>16, <1>17, <1>18, <1>19, <1>20, <1>21 DEF Step, Process

\* No step of one attempt changes the locals of another.
LEMMA OthersKeepTheirLocals ==
  ASSUME TypeOK, NEW s \in Sync, Step(s) \/ Kill(s) \/ Retry(s) \/ Lapse(s),
         NEW t \in Sync, t # s
  PROVE  /\ pc'[t] = pc[t] /\ src'[t] = src[t] /\ left'[t] = left[t]
         /\ item'[t] = item[t] /\ loaded'[t] = loaded[t]
         /\ synced'[t] = synced[t] /\ failed'[t] = failed[t] /\ taken'[t] = taken[t]
         /\ event'[t] = event[t] /\ late'[t] = late[t]
<1> USE DEF TypeOK, Goto, CountLate, WriteHealth, rows, results, bounds, lease, history
<1>1. CASE Begin(s) \/ NextSource(s) \/ StartActor(s) \/ Poll(s) \/ Fetch(s)
  BY <1>1 DEF Begin, NextSource, StartActor, Poll, Fetch
<1>2. CASE TakeItem(s) \/ ReadState(s)
  BY <1>2 DEF TakeItem, ReadState
<1>3. CASE RecordSignal(s) \/ Classify(s) \/ RecordClassification(s) \/ RecordRoute(s) \/ Beat(s)
  BY <1>3 DEF RecordSignal, Classify, RecordClassification, RecordRoute, Beat
<1>4. CASE LoadHealth(s) \/ RecordOk(s) \/ SourceFails(s) \/ RecordFailed(s)
  BY <1>4 DEF LoadHealth, RecordOk, SourceFails, RecordFailed
<1>5. CASE Raise(s) \/ Finish(s) \/ Kill(s) \/ Retry(s) \/ Lapse(s)
  BY <1>5 DEF Raise, Finish, Kill, Retry, Lapse
<1> QED
  BY <1>1, <1>2, <1>3, <1>4, <1>5 DEF Step, Process

\* The rows the attempts share only grow: a stored signal stays stored, a health
\* row stays there, and a lapsed lease does not come back.
LEMMA RowsOnlyGrow ==
  ASSUME TypeOK, NEW s \in Sync, Step(s) \/ Kill(s) \/ Retry(s) \/ Lapse(s)
  PROVE  /\ \A k \in Key : Stored(k) => Stored(k)'
         /\ \A c \in Source : health[c] # "none" => health'[c] # "none"
         /\ lapsed \subseteq lapsed'
<1> USE DEF TypeOK, Stored, WriteHealth, rows, lease
<1>1. CASE Begin(s) \/ NextSource(s) \/ StartActor(s) \/ Poll(s) \/ Fetch(s)
  BY <1>1 DEF Begin, NextSource, StartActor, Poll, Fetch
<1>2. CASE TakeItem(s) \/ ReadState(s)
  BY <1>2 DEF TakeItem, ReadState
<1>3. CASE RecordSignal(s) \/ Classify(s) \/ RecordClassification(s) \/ RecordRoute(s) \/ Beat(s)
  BY <1>3 DEF RecordSignal, Classify, RecordClassification, RecordRoute, Beat
<1>4. CASE LoadHealth(s) \/ RecordOk(s) \/ SourceFails(s) \/ RecordFailed(s)
  BY <1>4 DEF LoadHealth, RecordOk, SourceFails, RecordFailed
<1>5. CASE Raise(s) \/ Finish(s) \/ Kill(s) \/ Retry(s) \/ Lapse(s)
  BY <1>5 DEF Raise, Finish, Kill, Retry, Lapse
<1> QED
  BY <1>1, <1>2, <1>3, <1>4, <1>5 DEF Step, Process

\* A signal is counted when its route is recorded, and that happens once.
LEMMA CountStep ==
  ASSUME TypeOK, NoSignalCountedTwice, NEW s \in Sync, Step(s) \/ Kill(s) \/ Retry(s) \/ Lapse(s)
  PROVE  NoSignalCountedTwice'
<1> USE DEF TypeOK, NoSignalCountedTwice, rows, history
<1>1. CASE Begin(s) \/ NextSource(s) \/ StartActor(s) \/ Poll(s) \/ Fetch(s)
  BY <1>1 DEF Begin, NextSource, StartActor, Poll, Fetch
<1>2. CASE TakeItem(s) \/ ReadState(s)
  BY <1>2 DEF TakeItem, ReadState
<1>3. CASE RecordSignal(s) \/ Classify(s) \/ RecordClassification(s) \/ RecordRoute(s) \/ Beat(s)
  BY <1>3 DEF RecordSignal, Classify, RecordClassification, RecordRoute, Beat
<1>4. CASE LoadHealth(s) \/ RecordOk(s) \/ SourceFails(s) \/ RecordFailed(s)
  BY <1>4 DEF LoadHealth, RecordOk, SourceFails, RecordFailed
<1>5. CASE Raise(s) \/ Finish(s) \/ Kill(s) \/ Retry(s) \/ Lapse(s)
  BY <1>5 DEF Raise, Finish, Kill, Retry, Lapse
<1> QED
  BY <1>1, <1>2, <1>3, <1>4, <1>5 DEF Step, Process

\* Late work: an attempt begins paid work only from places a hook guards.
LEMMA LateStep ==
  ASSUME TypeOK, NEW s \in Sync, Step(s) \/ Kill(s) \/ Retry(s) \/ Lapse(s),
         NEW t \in Sync, LateWorkIsLast(t)
  PROVE  LateWorkIsLast(t)'
<1>1. CASE t # s
  BY <1>1, OthersKeepTheirLocals, RowsOnlyGrow DEF LateWorkIsLast
<1>2. CASE t = s
  <2> USE <1>2, SyncAssumption DEF LateWorkIsLast, TypeOK, Goto, MayGoOn, CountLate, lease
  <2>1. CASE Begin(s)
    BY <2>1 DEF Begin
  <2>2. CASE NextSource(s)
    BY <2>2 DEF NextSource
  <2>3. CASE StartActor(s)
    BY <2>3 DEF StartActor
  <2>4. CASE Poll(s)
    BY <2>4 DEF Poll
  <2>5. CASE Fetch(s)
    BY <2>5 DEF Fetch
  <2>6. CASE TakeItem(s)
    BY <2>6 DEF TakeItem
  <2>7. CASE ReadState(s)
    BY <2>7 DEF ReadState
  <2>8. CASE RecordSignal(s)
    BY <2>8 DEF RecordSignal
  <2>9. CASE Classify(s)
    BY <2>9 DEF Classify
  <2>10. CASE RecordClassification(s)
    BY <2>10 DEF RecordClassification
  <2>11. CASE RecordRoute(s)
    BY <2>11 DEF RecordRoute
  <2>12. CASE Beat(s)
    BY <2>12 DEF Beat
  <2>13. CASE LoadHealth(s)
    BY <2>13 DEF LoadHealth
  <2>14. CASE RecordOk(s)
    BY <2>14 DEF RecordOk
  <2>15. CASE SourceFails(s)
    BY <2>15 DEF SourceFails
  <2>16. CASE RecordFailed(s)
    BY <2>16 DEF RecordFailed
  <2>17. CASE Raise(s)
    BY <2>17 DEF Raise
  <2>18. CASE Finish(s)
    BY <2>18 DEF Finish
  <2>19. CASE Kill(s)
    BY <2>19 DEF Kill
  <2>20. CASE Retry(s)
    BY <2>20 DEF Retry
  <2>21. CASE Lapse(s)
    BY <2>21 DEF Lapse
  <2> QED
    BY <2>1, <2>2, <2>3, <2>4, <2>5, <2>6, <2>7, <2>8, <2>9, <2>10, <2>11, <2>12, <2>13, <2>14, <2>15, <2>16, <2>17, <2>18, <2>19, <2>20, <2>21 DEF Step, Process
<1> QED
  BY <1>1, <1>2





\* An attempt returns by Finish, which records the event.
LEMMA EventStep ==
  ASSUME TypeOK, NEW s \in Sync, Step(s) \/ Kill(s) \/ Retry(s) \/ Lapse(s),
         NEW t \in Sync, EventTells(t)
  PROVE  EventTells(t)'
<1>1. CASE t # s
  BY <1>1, OthersKeepTheirLocals DEF EventTells
<1>2. CASE t = s
  <2> USE <1>2 DEF EventTells, TypeOK, Goto, rows, results
  <2>1. CASE Begin(s) \/ NextSource(s) \/ StartActor(s) \/ Poll(s) \/ Fetch(s)
    BY <2>1 DEF Begin, NextSource, StartActor, Poll, Fetch
  <2>2. CASE TakeItem(s) \/ ReadState(s)
    BY <2>2 DEF TakeItem, ReadState
  <2>3. CASE RecordSignal(s) \/ Classify(s) \/ RecordClassification(s) \/ RecordRoute(s) \/ Beat(s)
    BY <2>3 DEF RecordSignal, Classify, RecordClassification, RecordRoute, Beat
  <2>4. CASE LoadHealth(s) \/ RecordOk(s) \/ SourceFails(s) \/ RecordFailed(s)
    BY <2>4 DEF LoadHealth, RecordOk, SourceFails, RecordFailed
  <2>5. CASE Raise(s) \/ Finish(s) \/ Kill(s) \/ Retry(s) \/ Lapse(s)
    BY <2>5 DEF Raise, Finish, Kill, Retry, Lapse
  <2> QED
    BY <2>1, <2>2, <2>3, <2>4, <2>5 DEF Step, Process
<1> QED
  BY <1>1, <1>2

\* An item is processed only after TakeItem took it off the dataset.
LEMMA ItemStep ==
  ASSUME TypeOK, NEW s \in Sync, Step(s) \/ Kill(s) \/ Retry(s) \/ Lapse(s),
         NEW t \in Sync, ItemIsTaken(t)
  PROVE  ItemIsTaken(t)'
<1>1. CASE t # s
  BY <1>1, OthersKeepTheirLocals DEF ItemIsTaken
<1>2. CASE t = s
  <2> USE <1>2, NumberAssumption DEF ItemIsTaken, TypeOK, Goto, Processing, rows
  <2>1. CASE Begin(s) \/ NextSource(s) \/ StartActor(s) \/ Poll(s) \/ Fetch(s)
    BY <2>1 DEF Begin, NextSource, StartActor, Poll, Fetch
  <2>2. CASE TakeItem(s) \/ ReadState(s)
    BY <2>2 DEF TakeItem, ReadState
  <2>3. CASE RecordSignal(s) \/ Classify(s) \/ RecordClassification(s) \/ RecordRoute(s) \/ Beat(s)
    BY <2>3 DEF RecordSignal, Classify, RecordClassification, RecordRoute, Beat
  <2>4. CASE LoadHealth(s) \/ RecordOk(s) \/ SourceFails(s) \/ RecordFailed(s)
    BY <2>4 DEF LoadHealth, RecordOk, SourceFails, RecordFailed
  <2>5. CASE Raise(s) \/ Finish(s) \/ Kill(s) \/ Retry(s) \/ Lapse(s)
    BY <2>5 DEF Raise, Finish, Kill, Retry, Lapse, Running, Ended
  <2> QED
    BY <2>1, <2>2, <2>3, <2>4, <2>5 DEF Step, Process
<1> QED
  BY <1>1, <1>2

\* Sources are taken in order, and each is accounted for before the next.
LEMMA SourcesStep ==
  ASSUME TypeOK, NEW s \in Sync, Step(s) \/ Kill(s) \/ Retry(s) \/ Lapse(s),
         NEW t \in Sync, SourcesInOrder(t)
  PROVE  SourcesInOrder(t)'
<1>1. CASE t # s
  BY <1>1, OthersKeepTheirLocals, RowsOnlyGrow DEF SourcesInOrder
<1>2. CASE t = s
  <2> USE <1>2, NumberAssumption
      DEF SourcesInOrder, TypeOK, Goto, WriteHealth, Source, Failing, InTry, Processing, Running,
          rows, results
  <2>1. CASE Begin(s)
    BY <2>1 DEF Begin
  <2>2. CASE NextSource(s)
    BY <2>2 DEF NextSource
  <2>3. CASE StartActor(s)
    BY <2>3 DEF StartActor
  <2>4. CASE Poll(s)
    BY <2>4 DEF Poll
  <2>5. CASE Fetch(s)
    BY <2>5 DEF Fetch
  <2>6. CASE TakeItem(s)
    BY <2>6 DEF TakeItem
  <2>7. CASE ReadState(s)
    BY <2>7 DEF ReadState
  <2>8. CASE RecordSignal(s)
    BY <2>8 DEF RecordSignal
  <2>9. CASE Classify(s)
    BY <2>9 DEF Classify
  <2>10. CASE RecordClassification(s)
    BY <2>10 DEF RecordClassification
  <2>11. CASE RecordRoute(s)
    BY <2>11 DEF RecordRoute
  <2>12. CASE Beat(s)
    BY <2>12 DEF Beat
  <2>13. CASE LoadHealth(s)
    BY <2>13 DEF LoadHealth
  <2>14. CASE RecordOk(s)
    BY <2>14 DEF RecordOk
  <2>15. CASE SourceFails(s)
    BY <2>15 DEF SourceFails
  <2>16. CASE RecordFailed(s)
    BY <2>16 DEF RecordFailed
  <2>17. CASE Raise(s)
    BY <2>17 DEF Raise
  <2>18. CASE Finish(s)
    BY <2>18 DEF Finish
  <2>19. CASE Kill(s)
    BY <2>19 DEF Kill
  <2>20. CASE Retry(s)
    BY <2>20 DEF Retry
  <2>21. CASE Lapse(s)
    BY <2>21 DEF Lapse
  <2> QED
    BY <2>1, <2>2, <2>3, <2>4, <2>5, <2>6, <2>7, <2>8, <2>9, <2>10, <2>11, <2>12, <2>13, <2>14, <2>15, <2>16, <2>17, <2>18, <2>19, <2>20, <2>21 DEF Step, Process
<1> QED
  BY <1>1, <1>2

\* What a source brought is stored by the time the source is synced.
LEMMA TakenStep ==
  ASSUME TypeOK, NEW s \in Sync, Step(s) \/ Kill(s) \/ Retry(s) \/ Lapse(s),
         NEW t \in Sync, SourcesInOrder(t), TakenAreStored(t)
  PROVE  TakenAreStored(t)'
<1>1. CASE t # s
  <2>1. /\ pc'[t] = pc[t] /\ src'[t] = src[t] /\ item'[t] = item[t]
        /\ synced'[t] = synced[t] /\ taken'[t] = taken[t]
    BY <1>1, OthersKeepTheirLocals
  <2>2. \A k \in Key : Stored(k) => Stored(k)'
    BY RowsOnlyGrow
  <2>3. taken[t] \subseteq Key
    BY DEF TypeOK
  <2> QED
    BY <2>1, <2>2, <2>3 DEF TakenAreStored, Stored, InTry, Processing
<1>2. CASE t = s
  <2>0. \A k \in Key : Stored(k) => Stored(k)'
    BY RowsOnlyGrow
  <2>00. /\ taken[s] \subseteq Key /\ \A k \in Key : k[1] \in Nat
        /\ synced[s] \subseteq Nat /\ src[s] \in Nat
    BY NumberAssumption DEF TypeOK, Key, Source
  <2> USE <1>2, <2>0, <2>00, NumberAssumption
      DEF TakenAreStored, SourcesInOrder, TypeOK, Goto, Source, Failing, InTry, Processing, Running,
          rows, results, history
  <2>1. CASE Begin(s)
    BY <2>1 DEF Begin
  <2>2. CASE NextSource(s)
    BY <2>2 DEF NextSource
  <2>3. CASE StartActor(s)
    BY <2>3 DEF StartActor
  <2>4. CASE Poll(s)
    BY <2>4 DEF Poll
  <2>5. CASE Fetch(s)
    BY <2>5 DEF Fetch
  <2>6. CASE TakeItem(s)
    <3>1. CASE UNCHANGED <<pc, item, taken>>
      BY <2>6, <3>1 DEF TakeItem
    <3>2. CASE \E i \in Item : /\ item' = [item EXCEPT ![s] = <<src[s], i>>]
                              /\ taken' = [taken EXCEPT ![s] = taken[s] \cup {<<src[s], i>>}]
                              /\ Goto(s, "read")
      <4>1. PICK i \in Item : /\ item' = [item EXCEPT ![s] = <<src[s], i>>]
                            /\ taken' = [taken EXCEPT ![s] = taken[s] \cup {<<src[s], i>>}]
                            /\ Goto(s, "read")
        BY <3>2
      <4>2. /\ pc[s] = "items" /\ pc'[s] = "read" /\ src' = src /\ synced' = synced
            /\ item'[s] = <<src[s], i>> /\ taken'[s] = taken[s] \cup {<<src[s], i>>}
            /\ \A k \in Key : Stored(k)' = Stored(k)
        BY <2>6, <4>1 DEF TakeItem, Stored
      <4>3. src[s] \in Source /\ src[s] \notin synced[s]
        BY <4>2
      <4>4. <<src[s], i>> \in Key /\ <<src[s], i>>[1] = src[s]
        BY <4>3 DEF Key
      <4> HIDE DEF Goto
      <4> QED
        BY <4>2, <4>3, <4>4
    <3> QED
      BY <2>6, <3>1, <3>2 DEF TakeItem
  <2>7. CASE ReadState(s)
    BY <2>7 DEF ReadState
  <2>8. CASE RecordSignal(s)
    BY <2>8 DEF RecordSignal
  <2>9. CASE Classify(s)
    BY <2>9 DEF Classify
  <2>10. CASE RecordClassification(s)
    <3>1. /\ pc[s] = "store" /\ pc'[s] = "route" /\ item[s] \in Key
          /\ UNCHANGED <<src, item, synced, taken>>
      BY <2>10 DEF RecordClassification
    <3>2. Stored(item[s])'
      BY <2>10, <3>1 DEF RecordClassification, Stored
    <3> QED
      BY <3>1, <3>2
  <2>11. CASE RecordRoute(s)
    BY <2>11 DEF RecordRoute
  <2>12. CASE Beat(s)
    BY <2>12 DEF Beat
  <2>13. CASE LoadHealth(s)
    BY <2>13 DEF LoadHealth
  <2>14. CASE RecordOk(s)
    <3>1. /\ pc[s] = "ok_write" /\ pc'[s] = "source" /\ src'[s] = src[s] + 1
          /\ synced'[s] = synced[s] \cup {src[s]} /\ taken' = taken
      BY <2>14 DEF RecordOk
    <3>2. \A k \in taken[s] : k[1] \in synced'[s] => Stored(k)
      BY <3>1
    <3> QED
      BY <3>1, <3>2
  <2>15. CASE SourceFails(s)
    BY <2>15 DEF SourceFails
  <2>16. CASE RecordFailed(s)
    <3>1. /\ pc[s] = "bad_write" /\ pc'[s] = "source" /\ src'[s] = src[s] + 1
          /\ synced' = synced /\ taken' = taken
      BY <2>16 DEF RecordFailed
    <3> QED
      BY <3>1
  <2>17. CASE Raise(s)
    BY <2>17 DEF Raise
  <2>18. CASE Finish(s)
    BY <2>18 DEF Finish
  <2>19. CASE Kill(s)
    BY <2>19 DEF Kill
  <2>20. CASE Retry(s)
    BY <2>20 DEF Retry
  <2>21. CASE Lapse(s)
    BY <2>21 DEF Lapse
  <2> QED
    BY <2>1, <2>2, <2>3, <2>4, <2>5, <2>6, <2>7, <2>8, <2>9, <2>10, <2>11, <2>12, <2>13, <2>14, <2>15, <2>16, <2>17, <2>18, <2>19, <2>20, <2>21 DEF Step, Process
<1> QED
  BY <1>1, <1>2

\* The invariant holds at the start: nothing is stored, counted or late.
LEMMA InitIInv == Init => IInv
<1> SUFFICES ASSUME Init PROVE IInv
  OBVIOUS
<1> USE SyncAssumption, NumberAssumption DEF Init
<1>1. TypeOK
  BY DEF TypeOK, Source, Running, Ended
<1>2. NoSignalCountedTwice
  BY DEF NoSignalCountedTwice
<1>3. ASSUME NEW s \in Sync PROVE SourcesInOrder(s)
  <2>1. /\ pc[s] = "idle" /\ src[s] = 1 /\ loaded[s] = "none"
        /\ synced[s] = {} /\ failed[s] = {} /\ 1 .. 0 = {}
    BY <1>3
  <2>2. \A c \in Source : ~ (c < 1)
    BY DEF Source
  <2> QED
    BY <2>1, <2>2 DEF SourcesInOrder, Failing, InTry, Processing
<1>4. ASSUME NEW s \in Sync PROVE TakenAreStored(s)
  BY <1>4 DEF TakenAreStored, Processing
<1>5. ASSUME NEW s \in Sync PROVE LateWorkIsLast(s) /\ EventTells(s) /\ ItemIsTaken(s)
  BY <1>5 DEF LateWorkIsLast, EventTells, ItemIsTaken, Processing
<1> QED
  BY <1>1, <1>2, <1>3, <1>4, <1>5 DEF IInv

\* Every step keeps it.
LEMMA IInvStep == IInv /\ [Next]_vars => IInv'
<1> SUFFICES ASSUME IInv, [Next]_vars PROVE IInv'
  OBVIOUS
<1>1. CASE UNCHANGED vars
  BY <1>1 DEF vars, rows, results, bounds, lease, history, IInv, TypeOK, NoSignalCountedTwice,
              SourcesInOrder, TakenAreStored, LateWorkIsLast, EventTells, ItemIsTaken, Stored
<1>2. ASSUME NEW s \in Sync, Step(s) \/ Kill(s) \/ Retry(s) \/ Lapse(s)
      PROVE  IInv'
  <2>1. pc[s] \in InTry \cup Failing => src[s] \in Source
    BY DEF IInv, SourcesInOrder, InTry, Processing, Failing
  <2>2. TypeOK' /\ NoSignalCountedTwice'
    BY <1>2, <2>1, TypeStep, CountStep DEF IInv
  <2>3. ASSUME NEW t \in Sync
        PROVE  SourcesInOrder(t)' /\ TakenAreStored(t)' /\ LateWorkIsLast(t)' /\ EventTells(t)'
                 /\ ItemIsTaken(t)'
    BY <1>2, SourcesStep, TakenStep, LateStep, EventStep, ItemStep DEF IInv
  <2> QED
    BY <2>2, <2>3 DEF IInv
<1> QED
  BY <1>1, <1>2 DEF Next, AllEnded

\* The inductive invariant of a sync beside its rivals.
THEOREM Inductive == Spec => []IInv
BY InitIInv, IInvStep, PTL DEF Spec

\* Types hold however the attempts interleave.
THEOREM TypeCorrect == Spec => []TypeOK
<1>1. IInv => TypeOK
  BY DEF IInv
<1> QED
  BY <1>1, Inductive, PTL

\* A signal is counted as processed at most once, over every attempt and retry.
THEOREM CountedOnce == Spec => []NoSignalCountedTwice
<1>1. IInv => NoSignalCountedTwice
  BY DEF IInv
<1> QED
  BY <1>1, Inductive, PTL

\* Whatever fails, a source is listed as synced only with all its signals stored.
THEOREM SyncedStored == Spec => []SyncedSourcesAreStored
<1>1. IInv => SyncedSourcesAreStored
  BY DEF IInv, SyncedSourcesAreStored, TakenAreStored
<1> QED
  BY <1>1, Inductive, PTL

\* A sync that returns has accounted for every source, with its health row.
THEOREM ReturnAccounts == Spec => []ReturnAccountsForEverySource
<1>1. IInv => ReturnAccountsForEverySource
  <2> SUFFICES ASSUME IInv, NEW s \in Sync, pc[s] = "returned"
               PROVE  /\ synced[s] \cup failed[s] = Source
                      /\ synced[s] \cap failed[s] = {}
                      /\ \A c \in Source : health[c] # "none"
                      /\ s \notin Leased => event[s] = IF synced[s] = Source THEN "completed"
                                                                             ELSE "partial"
    BY DEF ReturnAccountsForEverySource
  <2>1. SourcesInOrder(s) /\ EventTells(s) /\ src[s] = Sources + 1
    BY DEF IInv, SourcesInOrder
  <2>2. synced[s] \cup failed[s] = Source /\ synced[s] \cap failed[s] = {}
    BY <2>1, NumberAssumption DEF SourcesInOrder, Failing, Source
  <2>3. \A c \in Source : health[c] # "none"
    BY <2>1, NumberAssumption DEF SourcesInOrder, Source
  <2>4. failed[s] = {} <=> synced[s] = Source
    BY <2>2
  <2> QED
    BY <2>1, <2>2, <2>3, <2>4 DEF EventTells
<1> QED
  BY <1>1, Inductive, PTL

\* After its lease has lapsed, an attempt begins at most one more unit of paid work.
THEOREM LapsedStops == Spec => []LapsedSyncStops
<1>1. IInv => LapsedSyncStops
  BY DEF IInv, LapsedSyncStops, LateWorkIsLast
<1> QED
  BY <1>1, Inductive, PTL

-----------------------------------------------------------------------------
(* A sync runs out of steps. *)

\* Each step of an attempt ends it, moves it on or uses up a step.
LEMMA OwnStepCounts ==
  ASSUME IInv, NEW s \in Sync, pc[s] \in Running, Step(s)
  PROVE  \/ pc'[s] \in Ended
         \/ src'[s] = src[s] + 1
         \/ src'[s] = src[s] /\ StepsAtSource(s)' < StepsAtSource(s)
<1> USE NumberAssumption DEF IInv, TypeOK, Goto, Running, InTry, Processing, Ended
<1> DEFINE Uses == src'[s] = src[s] /\ StepsAtSource(s)' < StepsAtSource(s)
<1>0. left[s] \in 0 .. MaxItems
  OBVIOUS
<1>1. CASE Begin(s)
  BY <1>1 DEF Begin
<1>2. CASE NextSource(s) \/ StartActor(s) \/ Poll(s)
  <2>1. src'[s] = src[s]
    BY <1>2 DEF NextSource, StartActor, Poll
  <2>2. \/ pc[s] = "source" /\ pc'[s] \in {"finish", "actor"}
        \/ pc[s] = "actor" /\ pc'[s] \in {"poll", "fetch"}
        \/ pc[s] = "poll" /\ pc'[s] = "fetch"
    BY <1>2 DEF NextSource, StartActor, Poll
  <2>3. Uses
    BY <2>1, <2>2 DEF StepsAtSource, AtItem, AroundItems, BeforeItems
  <2> QED
    BY <2>3
<1>3. CASE Fetch(s)
  <2>1. /\ pc[s] = "fetch" /\ pc'[s] = "items" /\ src'[s] = src[s]
        /\ left'[s] \in 0 .. MaxItems
    BY <1>3 DEF Fetch
  <2>2. StepsAtSource(s)' = 5 + 7 * left'[s] /\ StepsAtSource(s) = 7 * MaxItems + 6
    BY <2>1 DEF StepsAtSource, AtItem, AroundItems, BeforeItems
  <2> QED
    BY <2>1, <2>2
<1>4. CASE TakeItem(s)
  <2>1. /\ pc[s] = "items" /\ pc'[s] \in {"items", "read"} /\ src'[s] = src[s]
        /\ left'[s] = left[s] - 1
    BY <1>4 DEF TakeItem
  <2>2. StepsAtSource(s)' \in {5 + 7 * left'[s], 5 + 7 * left'[s] + 6}
    BY <2>1 DEF StepsAtSource, AtItem
  <2>3. StepsAtSource(s) = 5 + 7 * left[s]
    BY <2>1 DEF StepsAtSource, AtItem
  <2> QED
    BY <1>0, <2>1, <2>2, <2>3
<1>5. CASE Process(s) \/ Beat(s)
  <2>1. src'[s] = src[s] /\ left'[s] = left[s]
    BY <1>5 DEF Process, Beat, ReadState, RecordSignal, Classify, RecordClassification,
       RecordRoute
  <2>2. \/ pc[s] = "read" /\ pc'[s] \in {"beat", "insert", "classify"}
        \/ pc[s] = "insert" /\ pc'[s] = "classify"
        \/ pc[s] = "classify" /\ pc'[s] = "store"
        \/ pc[s] = "store" /\ pc'[s] = "route"
        \/ pc[s] = "route" /\ pc'[s] = "beat"
        \/ pc[s] = "beat" /\ pc'[s] = "items"
    BY <1>5 DEF Process, Beat, ReadState, RecordSignal, Classify, RecordClassification,
       RecordRoute
  <2>3. Uses
    BY <1>0, <2>1, <2>2 DEF StepsAtSource, AtItem
  <2> QED
    BY <2>3
<1>6. CASE LoadHealth(s) \/ SourceFails(s)
  <2>1. src'[s] = src[s]
    BY <1>6 DEF LoadHealth, SourceFails
  <2>2. \/ pc[s] = "items" /\ pc'[s] = "ok_write"
        \/ pc[s] = "bad_load" /\ pc'[s] = "bad_write"
        \/ pc[s] \in InTry /\ pc'[s] = "bad_load"
    BY <1>6 DEF LoadHealth, SourceFails
  <2>3. Uses
    BY <1>0, <2>1, <2>2 DEF StepsAtSource, AtItem, AroundItems, BeforeItems
  <2> QED
    BY <2>3
<1>7. CASE RecordOk(s) \/ RecordFailed(s)
  BY <1>7 DEF RecordOk, RecordFailed
<1>8. CASE Raise(s) \/ Finish(s)
  BY <1>8 DEF Raise, Finish
<1> QED
  BY <1>1, <1>2, <1>3, <1>4, <1>5, <1>6, <1>7, <1>8 DEF Step

\* What an attempt has left at a source is within the items one fetch can bring.
LEMMA StepsBounded ==
  ASSUME IInv, NEW s \in Sync, pc[s] \in Running
  PROVE  StepsAtSource(s) \in 1 .. 9 + 7 * MaxItems
<1>1. left[s] \in 0 .. MaxItems /\ pc[s] \in Running
  BY DEF IInv, TypeOK
<1>2. CASE pc[s] \in Processing \cup {"items", "beat"}
  <2>1. AtItem[pc[s]] \in 0 .. 6 /\ (pc[s] = "items" => AtItem[pc[s]] = 0)
    BY <1>2 DEF AtItem, Processing
  <2>2. StepsAtSource(s) = 5 + 7 * left[s] + AtItem[pc[s]]
    BY <1>2 DEF StepsAtSource
  <2>3. pc[s] # "items" => left[s] < MaxItems
    BY <1>2 DEF IInv, ItemIsTaken
  <2> QED
    BY <1>1, <2>1, <2>2, <2>3, NumberAssumption
<1>3. CASE pc[s] \in {"source", "actor", "poll", "fetch"}
  BY <1>3, NumberAssumption DEF StepsAtSource, BeforeItems, Processing
<1>4. CASE pc[s] \in {"ok_write", "bad_load", "bad_write", "finish"}
  BY <1>4, NumberAssumption DEF StepsAtSource, AroundItems, Processing
<1> QED
  BY <1>1, <1>2, <1>3, <1>4 DEF Running, InTry

\* A sync takes at most 9 + 7 * MaxItems steps at each of its sources, for every
\* number of rivals and whatever they commit: it never goes round for ever.
THEOREM StepsRunOut == Spec => SyncStepsRunOut
<1> DEFINE Uses(s) ==
        /\ StepsAtSource(s) \in 1 .. 9 + 7 * MaxItems
        /\ \/ pc'[s] \in Ended
           \/ src'[s] = src[s] + 1
           \/ UNCHANGED <<pc[s], src[s], left[s]>>
           \/ src'[s] = src[s] /\ StepsAtSource(s)' < StepsAtSource(s)
<1>1. IInv /\ [Next]_vars => [\A s \in Sync : pc[s] \in Running => Uses(s)]_vars
  <2> SUFFICES ASSUME IInv, Next, NEW s \in Sync, pc[s] \in Running
               PROVE  Uses(s)
    OBVIOUS
  <2>0. StepsAtSource(s) \in 1 .. 9 + 7 * MaxItems
    BY StepsBounded
  <2>1. ASSUME NEW t \in Sync, t # s, Step(t) \/ Kill(t) \/ Retry(t) \/ Lapse(t)
        PROVE  Uses(s)
    BY <2>0, <2>1, OthersKeepTheirLocals DEF IInv
  <2>2. CASE Step(s)
    BY <2>0, <2>2, OwnStepCounts
  <2>3. CASE Kill(s) \/ Retry(s) \/ Lapse(s)
    BY <2>0, <2>3 DEF Kill, Retry, Lapse, Goto, IInv, TypeOK, Ended, Running, InTry, Processing
  <2>4. CASE UNCHANGED vars
    BY <2>0, <2>4 DEF vars
  <2> QED
    BY <2>1, <2>2, <2>3, <2>4 DEF Next, AllEnded
<1> QED
  BY <1>1, Inductive, PTL DEF Spec, SyncStepsRunOut

-----------------------------------------------------------------------------
(* The sync implements the ledger of stages. *)

decisions == [k \in Key |-> IF Stored(k) THEN "act" ELSE "none"]

\* Each commit of a sync advances one signal by one stage, and nothing else does.
LEMMA SyncLedgerStep ==
  ASSUME IInv, [Next]_vars
  PROVE  Ledger!Next \/ UNCHANGED <<stage, decisions>>
<1> USE DEF IInv, TypeOK
<1>1. ASSUME NEW s \in Sync, RecordSignal(s)
      PROVE  Ledger!Next
  <2>1. /\ item[s] \in Key /\ stage[item[s]] = "absent"
        /\ stage' = [stage EXCEPT ![item[s]] = "recorded"]
    BY <1>1 DEF RecordSignal, TakenAreStored, Processing
  <2>2. UNCHANGED decisions
    BY <2>1 DEF decisions, Stored
  <2> QED
    BY <2>1, <2>2 DEF Ledger!Next, Ledger!Record, decisions
<1>2. ASSUME NEW s \in Sync, RecordClassification(s)
      PROVE  Ledger!Next
  <2>1. /\ item[s] \in Key /\ stage[item[s]] = "recorded"
        /\ stage' = [stage EXCEPT ![item[s]] = "classified"]
    BY <1>2 DEF RecordClassification, TakenAreStored, Processing
  <2>2. decisions' = [decisions EXCEPT ![item[s]] = "act"]
    BY <2>1 DEF decisions, Stored
  <2> QED
    BY <2>1, <2>2 DEF Ledger!Next, Ledger!Classify, decisions
<1>3. ASSUME NEW s \in Sync, RecordRoute(s)
      PROVE  Ledger!Next
  <2>1. /\ item[s] \in Key /\ stage[item[s]] = "classified"
        /\ stage' = [stage EXCEPT ![item[s]] = "routed"]
    BY <1>3 DEF RecordRoute, TakenAreStored, Processing
  <2>2. UNCHANGED decisions
    BY <2>1 DEF decisions, Stored
  <2> QED
    BY <2>1, <2>2 DEF Ledger!Next, Ledger!Route, decisions
<1>4. ASSUME NEW s \in Sync, Step(s) \/ Kill(s) \/ Retry(s) \/ Lapse(s),
             ~RecordSignal(s), ~RecordClassification(s), ~RecordRoute(s)
      PROVE  UNCHANGED stage
  BY <1>4 DEF Step, Process, Begin, NextSource, StartActor, Poll, Fetch, TakeItem, ReadState,
     Classify, Beat, LoadHealth, RecordOk, SourceFails, RecordFailed, Raise, Finish, Kill,
     Retry, Lapse, rows
<1>5. UNCHANGED vars => UNCHANGED stage
  BY DEF vars, rows
<1>6. UNCHANGED stage => UNCHANGED decisions
  BY DEF decisions, Stored
<1> QED
  BY <1>1, <1>2, <1>3, <1>4, <1>5, <1>6 DEF Next, AllEnded

\* Overlapping, retried, killed and failing syncs keep the promise that module
\* SignalProcessing keeps in full: no stage of a signal is skipped or undone.
THEOREM SyncImplementsLedger == Spec => ImplementsLedger
<1>1. Init => Ledger!Init
  BY DEF Init, Ledger!Init, Stored
<1>2. IInv /\ [Next]_vars => [Ledger!Next]_(Ledger!lvars)
  BY SyncLedgerStep DEF Ledger!lvars, decisions
<1> QED
  BY <1>1, <1>2, Inductive, PTL DEF Spec, ImplementsLedger, Ledger!Spec
=============================================================================
