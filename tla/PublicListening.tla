--------------------------- MODULE PublicListening ---------------------------
(***************************************************************************)
(* sync_public_listening (workflows/public_listening.py) of one brand, run *)
(* by several attempts at once: Temporal activities, one that outlived its *)
(* timeout beside its retry, and the sync of a population run, which must  *)
(* stop when its lease has lapsed.  They share the signal rows and one     *)
(* source_health row per source.  process_signal is seen as its reads and  *)
(* commits (module SignalProcessing has it in full); Apify is external.    *)
(* Any exception inside the try block of a source may end it: that is one  *)
(* action, SourceFails, and a commit that a UNIQUE column refuses has no   *)
(* other way on.                                                           *)
(***************************************************************************)
EXTENDS Naturals

CONSTANTS Sync,       \* attempts at the sync
          Leased,     \* those of population runs: they have a progress callback
          Sources,    \* how many sources are enabled, taken in order
          Item,       \* external ids a source may bring
          MaxItems,   \* max_items_per_source
          MaxRetries, \* bound on Temporal's retries
          MaxKills    \* bound on killed attempts

ASSUME SyncAssumption == Leased \subseteq Sync
ASSUME NumberAssumption ==
  /\ Sources \in Nat /\ MaxItems \in Nat \ {0}
  /\ MaxRetries \in Nat /\ MaxKills \in Nat

VARIABLES stage,   \* how far the rows of each signal have got
          health,  \* status of each source_health row
          event,   \* the last workflow_events row of each attempt
          pc,      \* where each attempt is
          src,     \* the source it is at
          left,    \* items of the dataset it has not taken yet
          item,    \* the signal it is processing
          loaded,  \* the source_health row as its session read it
          synced,  \* synced_sources
          failed,  \* the keys of failed_sources
          retries, kills,
          taken,   \* history: the signals it took from the datasets
          credit,  \* history: how often a signal was counted as processed
          lapsed,  \* attempts whose lease is lost
          late     \* history: units of paid work an attempt began after that

rows == <<stage, health, event>>
results == <<synced, failed>>
bounds == <<retries, kills>>
lease == <<lapsed, late>>
history == <<taken, credit>>
vars == <<rows, pc, src, left, item, loaded, results, bounds, lease, history>>

-----------------------------------------------------------------------------
Source == 1 .. Sources
Key == Source \X Item       \* the dedupe key contains the source
NoItem == <<0, "no item">>

Processing == {"read", "insert", "classify", "store", "route"}
InTry == Processing \cup {"actor", "poll", "fetch", "items", "beat", "ok_write"}
Running == InTry \cup {"source", "bad_load", "bad_write", "finish"}
Ended == {"returned", "raised"}

Stored(k) == stage[k] \in {"classified", "routed"}

Goto(s, place) == pc' = [pc EXCEPT ![s] = place]

\* Variants a plausible bug would give; the mutation runs substitute them.
ProgressHookIsLogged(s) == TRUE
\* _report_progress: a hook that cannot confirm the lease raises.
MayGoOn(s) == s \notin lapsed

CountLate(s) == late' = [late EXCEPT ![s] = IF s \in lapsed THEN @ + 1 ELSE @]

\* record_source_health selects the row and then inserts or updates it; an
\* update writes only the columns that differ from what was selected.
CanWrite(s) == loaded[s] # "none" \/ health[src[s]] = "none"
WriteHealth(s, status) ==
  /\ health' = [health EXCEPT ![src[s]] = IF loaded[s] = status THEN @ ELSE status]
  /\ loaded' = [loaded EXCEPT ![s] = "none"]

-----------------------------------------------------------------------------
Init ==
  /\ stage = [k \in Key |-> "absent"]
  /\ health = [c \in Source |-> "none"]
  /\ event = [s \in Sync |-> "none"]
  /\ pc = [s \in Sync |-> "idle"]
  /\ src = [s \in Sync |-> 1]
  /\ left = [s \in Sync |-> 0]
  /\ item = [s \in Sync |-> NoItem]
  /\ loaded = [s \in Sync |-> "none"]
  /\ synced = [s \in Sync |-> {}] /\ failed = [s \in Sync |-> {}]
  /\ retries = 0 /\ kills = 0
  /\ taken = [s \in Sync |-> {}] /\ credit = [k \in Key |-> 0]
  /\ lapsed = {} /\ late = [s \in Sync |-> 0]

\* Only the HTTP API gives the request a job to record events for.
Begin(s) ==
  /\ pc[s] = "idle"
  /\ Goto(s, "source")
  /\ event' = [event EXCEPT ![s] = IF s \in Leased THEN @ ELSE "running"]
  /\ UNCHANGED <<stage, health, src, left, item, loaded, results, bounds, lease, history>>

NextSource(s) ==
  /\ pc[s] = "source"
  /\ \/ src[s] > Sources /\ Goto(s, "finish")
     \/ src[s] <= Sources /\ MayGoOn(s) /\ Goto(s, "actor")
  /\ UNCHANGED <<rows, src, left, item, loaded, results, bounds, lease, history>>

\* run_actor waits up to a minute: the run may have succeeded when it returns.
StartActor(s) ==
  /\ pc[s] = "actor"
  /\ CountLate(s)
  /\ \E place \in {"poll", "fetch"} : Goto(s, place)
  /\ UNCHANGED <<rows, src, left, item, loaded, results, bounds, lapsed, history>>

\* wait_for_run: the hook before each sleep.  A poll that finds the run still
\* running changes nothing; the deadline sees to it that this ends.
Poll(s) ==
  /\ pc[s] = "poll"
  /\ MayGoOn(s)
  /\ Goto(s, "fetch")
  /\ UNCHANGED <<rows, src, left, item, loaded, results, bounds, lease, history>>

\* fetch_dataset_items, cut to max_items_per_source.
Fetch(s) ==
  /\ pc[s] = "fetch"
  /\ Goto(s, "items")
  /\ \E n \in 0 .. MaxItems : left' = [left EXCEPT ![s] = n]
  /\ UNCHANGED <<rows, src, item, loaded, results, bounds, lease, history>>

TakeItemPastTheEnd(s) ==
  /\ pc[s] = "items"
  /\ MayGoOn(s)
  /\ left' = [left EXCEPT ![s] = IF @ = 0 THEN MaxItems + 1 ELSE @ - 1]
  /\ UNCHANGED <<rows, pc, src, item, loaded, results, bounds, lease, history>>

\* An item that cannot be normalised is skipped; another is a signal.
TakeItem(s) ==
  /\ pc[s] = "items" /\ left[s] > 0
  /\ MayGoOn(s)
  /\ left' = [left EXCEPT ![s] = @ - 1]
  /\ \/ UNCHANGED <<pc, item, taken>>
     \/ \E i \in Item :
          /\ item' = [item EXCEPT ![s] = <<src[s], i>>]
          /\ taken' = [taken EXCEPT ![s] = @ \cup {<<src[s], i>>}]
          /\ Goto(s, "read")
  /\ UNCHANGED <<rows, src, loaded, results, bounds, lease, credit>>

ReadStateAnyRowIsDuplicate(s) ==
  /\ pc[s] = "read"
  /\ Goto(s, IF stage[item[s]] = "absent" THEN "insert" ELSE "beat")
  /\ UNCHANGED <<rows, src, left, item, loaded, results, bounds, lease, history>>

\* _existing_signal_state: a classified signal is a duplicate and is skipped.
ReadState(s) ==
  /\ pc[s] = "read"
  /\ Goto(s, IF Stored(item[s]) THEN "beat"
             ELSE IF stage[item[s]] = "absent" THEN "insert" ELSE "classify")
  /\ UNCHANGED <<rows, src, left, item, loaded, results, bounds, lease, history>>

RecordSignal(s) ==
  /\ pc[s] = "insert" /\ stage[item[s]] = "absent"
  /\ stage' = [stage EXCEPT ![item[s]] = "recorded"]
  /\ Goto(s, "classify")
  /\ UNCHANGED <<health, event, src, left, item, loaded, results, bounds, lease, history>>

\* The models answered, or a fallback classification stands for them.
Classify(s) ==
  /\ pc[s] = "classify"
  /\ CountLate(s)
  /\ Goto(s, "store")
  /\ UNCHANGED <<rows, src, left, item, loaded, results, bounds, lapsed, history>>

RecordClassification(s) ==
  /\ pc[s] = "store" /\ stage[item[s]] = "recorded"
  /\ stage' = [stage EXCEPT ![item[s]] = "classified"]
  /\ Goto(s, "route")
  /\ UNCHANGED <<health, event, src, left, item, loaded, results, bounds, lease, history>>

\* processed and ignored both count as processed.
RecordRoute(s) ==
  /\ pc[s] = "route" /\ stage[item[s]] = "classified"
  /\ stage' = [stage EXCEPT ![item[s]] = "routed"]
  /\ credit' = [credit EXCEPT ![item[s]] = @ + 1]
  /\ Goto(s, "beat")
  /\ UNCHANGED <<health, event, src, left, item, loaded, results, bounds, lease, taken>>

BeatCountsEveryAnswer(s) ==
  /\ pc[s] = "beat"
  /\ MayGoOn(s)
  /\ credit' = [credit EXCEPT ![item[s]] = @ + 1]
  /\ Goto(s, "items")
  /\ item' = [item EXCEPT ![s] = NoItem]
  /\ UNCHANGED <<rows, src, left, loaded, results, bounds, lease, taken>>

\* The hook after each item that was answered.
Beat(s) ==
  /\ pc[s] = "beat"
  /\ MayGoOn(s)
  /\ Goto(s, "items")
  /\ item' = [item EXCEPT ![s] = NoItem]
  /\ UNCHANGED <<rows, src, left, loaded, results, bounds, lease, history>>

\* record_source_health selects the row of the source.
LoadHealth(s) ==
  /\ \/ pc[s] = "items" /\ left[s] = 0 /\ Goto(s, "ok_write")
     \/ pc[s] = "bad_load" /\ Goto(s, "bad_write")
  /\ loaded' = [loaded EXCEPT ![s] = health[src[s]]]
  /\ UNCHANGED <<rows, src, left, item, results, bounds, lease, history>>

RecordOk(s) ==
  /\ pc[s] = "ok_write" /\ CanWrite(s)
  /\ WriteHealth(s, "ok")
  /\ synced' = [synced EXCEPT ![s] = @ \cup {src[s]}]
  /\ src' = [src EXCEPT ![s] = @ + 1]
  /\ Goto(s, "source")
  /\ UNCHANGED <<stage, event, left, item, failed, bounds, lease, history>>

SourceFailsUnlisted(s) ==
  /\ pc[s] \in InTry \ {"beat"}
  /\ Goto(s, "bad_load")
  /\ UNCHANGED <<rows, src, left, item, loaded, results, bounds, lease, history>>

\* except Exception: an actor that fails or times out, a status "failed", a
\* refused commit, and even the health row of a source that went well.
SourceFails(s) ==
  /\ pc[s] \in InTry \ {"beat"}
  /\ failed' = [failed EXCEPT ![s] = @ \cup {src[s]}]
  /\ Goto(s, "bad_load")
  /\ left' = [left EXCEPT ![s] = 0]
  /\ item' = [item EXCEPT ![s] = NoItem]
  /\ UNCHANGED <<rows, src, loaded, synced, bounds, lease, history>>

RecordFailedStays(s) ==
  /\ pc[s] = "bad_write" /\ CanWrite(s)
  /\ WriteHealth(s, "failed")
  /\ Goto(s, "source")
  /\ UNCHANGED <<stage, event, src, left, item, results, bounds, lease, history>>

RecordFailed(s) ==
  /\ pc[s] = "bad_write" /\ CanWrite(s)
  /\ WriteHealth(s, "failed")
  /\ src' = [src EXCEPT ![s] = @ + 1]
  /\ Goto(s, "source")
  /\ UNCHANGED <<stage, event, left, item, results, bounds, lease, history>>

\* What leaves the function: a fatal gateway error, a hook that raises, a write
\* of the failed health row that is refused.
Raise(s) ==
  /\ \/ pc[s] \in {"classify", "bad_load", "bad_write"}
     \/ /\ s \in Leased
        /\ \/ pc[s] = "source" /\ src[s] <= Sources
           \/ pc[s] = "items" /\ left[s] > 0
           \/ pc[s] \in {"poll", "beat"}
  /\ Goto(s, "raised")
  /\ UNCHANGED <<rows, src, left, item, loaded, results, bounds, lease, history>>

Finish(s) ==
  /\ pc[s] = "finish"
  /\ Goto(s, "returned")
  /\ event' = [event EXCEPT ![s] = IF s \in Leased THEN @
                                   ELSE IF failed[s] = {} THEN "completed" ELSE "partial"]
  /\ UNCHANGED <<stage, health, src, left, item, loaded, results, bounds, lease, history>>

\* The process dies, or a workflow event cannot be written.
Kill(s) ==
  /\ pc[s] \in Running
  /\ kills < MaxKills
  /\ kills' = kills + 1
  /\ Goto(s, "raised")
  /\ UNCHANGED <<rows, src, left, item, loaded, results, retries, lease, history>>

\* Temporal runs the activity again from its start; the CLI does not.
Retry(s) ==
  /\ pc[s] = "raised" /\ s \notin Leased
  /\ retries < MaxRetries
  /\ retries' = retries + 1
  /\ Goto(s, "idle")
  /\ src' = [src EXCEPT ![s] = 1]
  /\ left' = [left EXCEPT ![s] = 0]
  /\ item' = [item EXCEPT ![s] = NoItem]
  /\ loaded' = [loaded EXCEPT ![s] = "none"]
  /\ synced' = [synced EXCEPT ![s] = {}]
  /\ failed' = [failed EXCEPT ![s] = {}]
  /\ taken' = [taken EXCEPT ![s] = {}]
  /\ UNCHANGED <<rows, kills, lease, credit>>

\* Another population run takes the lease over (module DemoPopulation).
Lapse(s) ==
  /\ s \in Leased \ lapsed
  /\ pc[s] \in Running
  /\ lapsed' = lapsed \cup {s}
  /\ UNCHANGED <<rows, pc, src, left, item, loaded, results, bounds, late, history>>

AllEnded ==
  /\ \A s \in Sync : pc[s] \in Ended
  /\ UNCHANGED vars

Process(s) ==
  ReadState(s) \/ RecordSignal(s) \/ Classify(s) \/ RecordClassification(s) \/ RecordRoute(s)

Step(s) ==
  \/ Begin(s) \/ NextSource(s) \/ StartActor(s) \/ Poll(s) \/ Fetch(s) \/ TakeItem(s)
  \/ Process(s) \/ Beat(s) \/ LoadHealth(s) \/ RecordOk(s)
  \/ SourceFails(s) \/ RecordFailed(s) \/ Raise(s) \/ Finish(s)

Next == (\E s \in Sync : Step(s) \/ Kill(s) \/ Retry(s) \/ Lapse(s)) \/ AllEnded

\* An attempt that is not killed goes on; the deadline of wait_for_run and the
\* cap of the gateway end its waits.
Spec == Init /\ [][Next]_vars /\ \A s \in Sync : WF_vars(Step(s))

-----------------------------------------------------------------------------
\* Types of the shared rows, the attempts' locals and the history.
TypeOK ==
  /\ stage \in [Key -> {"absent", "recorded", "classified", "routed"}]
  /\ health \in [Source -> {"none", "ok", "failed"}]
  /\ event \in [Sync -> {"none", "running", "completed", "partial"}]
  /\ pc \in [Sync -> Running \cup Ended \cup {"idle"}]
  /\ src \in [Sync -> 1 .. Sources + 1]
  /\ left \in [Sync -> 0 .. MaxItems]
  /\ item \in [Sync -> Key \cup {NoItem}]
  /\ loaded \in [Sync -> {"none", "ok", "failed"}]
  /\ synced \in [Sync -> SUBSET Source] /\ failed \in [Sync -> SUBSET Source]
  /\ retries \in Nat /\ kills \in Nat
  /\ taken \in [Sync -> SUBSET Key] /\ credit \in [Key -> Nat]
  /\ lapsed \subseteq Leased /\ late \in [Sync -> Nat]

\* processed_count adds up: over all attempts, overlapping, retried or killed, a
\* signal is counted as processed at most once, and then it has its route.
NoSignalCountedTwice ==
  \A k \in Key : /\ credit[k] <= 1
                 /\ credit[k] = 1 => stage[k] = "routed"

\* A source listed as synced lost nothing: every signal the attempt took from it
\* is classified, by this attempt or by the rival it was a duplicate of.
SyncedSourcesAreStored ==
  \A s \in Sync : \A k \in taken[s] : k[1] \in synced[s] => Stored(k)

\* An attempt that returns accounts for every source, once: synced or failed,
\* with a health row, and its event is "completed" only if none failed.
ReturnAccountsForEverySource ==
  \A s \in Sync : pc[s] = "returned" =>
    /\ synced[s] \cup failed[s] = Source
    /\ synced[s] \cap failed[s] = {}
    /\ \A c \in Source : health[c] # "none"
    /\ s \notin Leased => event[s] = IF synced[s] = Source THEN "completed" ELSE "partial"

\* The hooks are close enough: after its lease has lapsed, an attempt begins at
\* most one more actor run or signal, whatever fails around it.
LapsedSyncStops == \A s \in Sync : late[s] <= 1

\* A sync comes to its end, whatever its rivals do to the rows it needs.
SyncEnds == \A s \in Sync : pc[s] = "source" ~> pc[s] \in Ended

\* Steps left at the source at hand: an item is read, recorded, classified, stored,
\* routed and reported before the next is taken.
AtItem == [items |-> 0, beat |-> 1, route |-> 2, store |-> 3, classify |-> 4,
           insert |-> 5, read |-> 6]
AroundItems == [returned |-> 0, raised |-> 0, idle |-> 0, finish |-> 1,
                bad_write |-> 2, bad_load |-> 3, ok_write |-> 4]
BeforeItems == [fetch |-> 6, poll |-> 7, actor |-> 8, source |-> 9]
StepsAtSource(s) ==
  IF pc[s] \in Processing \cup {"items", "beat"} THEN 5 + 7 * left[s] + AtItem[pc[s]]
  ELSE IF pc[s] \in {"source", "actor", "poll", "fetch"} THEN 7 * MaxItems + BeforeItems[pc[s]]
  ELSE AroundItems[pc[s]]

\* No sync goes round for ever: each step of an attempt ends it, moves it on to the
\* next source or uses up one of the at most 9 + 7 * MaxItems steps it has at this
\* one, and what its rivals do to the shared rows gives none of them back.
SyncStepsRunOut ==
  [][\A s \in Sync : pc[s] \in Running =>
        /\ StepsAtSource(s) \in 1 .. 9 + 7 * MaxItems
        /\ \/ pc'[s] \in Ended
           \/ src'[s] = src[s] + 1
           \/ UNCHANGED <<pc[s], src[s], left[s]>>
           \/ src'[s] = src[s] /\ StepsAtSource(s)' < StepsAtSource(s)]_vars

-----------------------------------------------------------------------------
\* Seen per signal, the attempts implement the ledger of stages.  The sync does not
\* tell an ignored signal from another: both count as processed.
Ledger == INSTANCE SignalLedger WITH
  decision <- [k \in Key |-> IF Stored(k) THEN "act" ELSE "none"]

\* No overlap, retry, kill or failed source skips a stage of a signal or undoes one.
ImplementsLedger == Ledger!Spec

-----------------------------------------------------------------------------
\* The strengthening that makes the safety invariants inductive.
Failing == {"bad_load", "bad_write"}

\* The sources behind an attempt are accounted for, the one it is at only if it
\* has just failed; those left behind have their health row.
SourcesInOrder(s) ==
  /\ pc[s] # "raised" =>
       /\ synced[s] \cup failed[s] = 1 .. (IF pc[s] \in Failing THEN src[s] ELSE src[s] - 1)
       /\ synced[s] \cap failed[s] = {}
       /\ \A c \in Source : c < src[s] => health[c] # "none"
       /\ pc[s] \in InTry \cup Failing => src[s] \in Source
       /\ pc[s] \in {"finish", "returned"} => src[s] = Sources + 1
       /\ pc[s] = "idle" => src[s] = 1
  /\ loaded[s] # "none" => src[s] \in Source /\ health[src[s]] # "none"

\* The signals taken from the source at hand are stored, but for the one being
\* processed; nothing was taken from a source ahead.
TakenAreStored(s) ==
  /\ \A k \in taken[s] :
       /\ k[1] \in synced[s] => Stored(k)
       /\ pc[s] \in InTry /\ k[1] = src[s] => Stored(k) \/ (pc[s] \in Processing /\ k = item[s])
       /\ pc[s] # "raised" => k[1] <= src[s]
       /\ pc[s] = "source" => k[1] < src[s]
       /\ pc[s] # "idle"
  /\ pc[s] \in Processing \cup {"beat"} => item[s] \in Key /\ item[s][1] = src[s]
  /\ pc[s] = "route" => Stored(item[s])

\* Late work is where the lease has lapsed, and then a hook is ahead of more.
LateWorkIsLast(s) ==
  /\ late[s] <= 1
  /\ late[s] # 0 => s \in lapsed /\ pc[s] \notin {"actor", "read", "insert", "classify"}

\* The event of an attempt that returned says whether a source failed.
EventTells(s) ==
  pc[s] = "returned" /\ s \notin Leased =>
    event[s] = IF failed[s] = {} THEN "completed" ELSE "partial"

\* The item being processed is no longer among those left to take.
ItemIsTaken(s) == pc[s] \in Processing \cup {"beat"} => left[s] < MaxItems

IInv ==
  /\ TypeOK /\ NoSignalCountedTwice
  /\ \A s \in Sync :
       SourcesInOrder(s) /\ TakenAreStored(s) /\ LateWorkIsLast(s) /\ EventTells(s)
         /\ ItemIsTaken(s)
=============================================================================
