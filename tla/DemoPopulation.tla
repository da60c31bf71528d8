--------------------------- MODULE DemoPopulation ---------------------------
(***************************************************************************)
(* populate_demo_brands (ops/demo_population.py): several invocations for  *)
(* one organization, serialised by a lease kept in one workflow_jobs row.  *)
(* The lease has no fencing: an owner that lost it learns so at its next   *)
(* heartbeat.  The sync of one brand is seen as the work it does between   *)
(* two heartbeats; each invocation draws one owner token, so the token is  *)
(* the invocation.                                                         *)
(***************************************************************************)
EXTENDS Naturals

CONSTANTS Run,             \* invocations of populate_demo_brands
          ContinueOnError, \* those given --continue-on-error
          Brands,          \* how many brands each one fills
          Lease,           \* LOCK_LEASE_DURATION
          MaxTime,         \* bound on the clock
          MaxKills         \* bound on killed invocations

ASSUME RunAssumption == ContinueOnError \subseteq Run
ASSUME NumberAssumption ==
  /\ Brands \in Nat \ {0}
  /\ Lease \in Nat /\ MaxTime \in Nat /\ MaxKills \in Nat

VARIABLES now,       \* _utc_now()
          row,       \* the organization's row in workflow_jobs
          pc,        \* where each invocation is
          at,        \* the time it read for its next write to the row
          done,      \* brands it has a summary of
          final,     \* final_status
          raising,   \* an exception is on its way through the finally block
          kills,
          filled,    \* history: brands it filled with success
          displaced, \* history: runs whose lease another one took over
          overrun    \* history: units of work a run began its write of after that

history == <<filled, displaced, overrun>>
vars == <<now, row, pc, at, done, final, raising, kills, history>>

-----------------------------------------------------------------------------
NoRow == [owner |-> "nobody", status |-> "none", updated |-> 0]

Acquiring == {"select", "insert", "update"}
Working == {"seed", "work"}
InTry == Working \cup {"loop", "loop_renew", "sync", "sync_renew"}
Ended == {"rejected", "returned", "raised", "killed"}
Place == {"idle", "release"} \cup Acquiring \cup InTry \cup Ended

\* The WHERE clause of _renew_population_lock and _release_population_lock.
Owns(r) == row.owner = r /\ row.status = "running"
Stale(time) == row.updated + Lease < time

Goto(r, place) == pc' = [pc EXCEPT ![r] = place]
CountOverrun(r) ==
  overrun' = [overrun EXCEPT ![r] =
                IF pc[r] \in Working /\ r \in displaced THEN @ + 1 ELSE @]

\* Any exception that leaves the loop passes through the finally block.
Abort(r) ==
  /\ Goto(r, "release")
  /\ final' = [final EXCEPT ![r] = "failed"]
  /\ raising' = [raising EXCEPT ![r] = TRUE]

BrandEndsCountsLate(r, ok) ==
  /\ done' = [done EXCEPT ![r] = @ + 1]
  /\ filled' = [filled EXCEPT ![r] = IF ok THEN @ \cup {done[r] + 1} ELSE @]
  /\ final' = [final EXCEPT ![r] = IF ok THEN @ ELSE "failed"]
  /\ Goto(r, IF done[r] = Brands \/ (~ok /\ r \notin ContinueOnError)
               THEN "release" ELSE "loop")
\* One summary is appended; a failed brand ends the loop unless told otherwise.
BrandEnds(r, ok) ==
  /\ done' = [done EXCEPT ![r] = @ + 1]
  /\ filled' = [filled EXCEPT ![r] = IF ok THEN @ \cup {done[r] + 1} ELSE @]
  /\ final' = [final EXCEPT ![r] = IF ok THEN @ ELSE "failed"]
  /\ Goto(r, IF done'[r] = Brands \/ (~ok /\ r \notin ContinueOnError)
               THEN "release" ELSE "loop")

-----------------------------------------------------------------------------
Init ==
  /\ now = 0 /\ row = NoRow /\ kills = 0 /\ displaced = {}
  /\ pc = [r \in Run |-> "idle"]
  /\ at = [r \in Run |-> 0]
  /\ done = [r \in Run |-> 0]
  /\ final = [r \in Run |-> "completed"]
  /\ raising = [r \in Run |-> FALSE]
  /\ filled = [r \in Run |-> {}]
  /\ overrun = [r \in Run |-> 0]

Tick ==
  /\ now < MaxTime
  /\ now' = now + 1
  /\ UNCHANGED <<row, pc, at, done, final, raising, kills, history>>

\* _acquire_population_lock draws its token and its time first.
Begin(r) ==
  /\ pc[r] = "idle"
  /\ at' = [at EXCEPT ![r] = now]
  /\ Goto(r, "select")
  /\ UNCHANGED <<now, row, done, final, raising, kills, history>>

Select(r) ==
  /\ pc[r] = "select"
  /\ Goto(r, IF row = NoRow THEN "insert" ELSE "update")
  /\ UNCHANGED <<now, row, at, done, final, raising, kills, history>>

\* workflow_id is UNIQUE: the loser of the first insert falls back on UPDATE.
Insert(r) ==
  /\ pc[r] = "insert"
  /\ \/ /\ row = NoRow
        /\ row' = [owner |-> r, status |-> "running", updated |-> at[r]]
        /\ Goto(r, "seed")
     \/ /\ row # NoRow
        /\ Goto(r, "update")
        /\ UNCHANGED row
  /\ UNCHANGED <<now, at, done, final, raising, kills, history>>

\* Variants a plausible bug would give; the mutation runs substitute them.
UpdateCountsFromHeartbeat(r) ==
  /\ pc[r] = "update"
  /\ \/ /\ row.status # "running" \/ row.updated < at[r]
        /\ row' = [owner |-> r, status |-> "running", updated |-> at[r]]
        /\ displaced' = displaced \cup {s \in Run : Owns(s)}
        /\ Goto(r, "seed")
     \/ /\ row.status = "running" /\ row.updated >= at[r]
        /\ Goto(r, "rejected")
        /\ UNCHANGED <<row, displaced>>
  /\ UNCHANGED <<now, at, done, final, raising, kills, filled, overrun>>

\* The conditional UPDATE: only a row that is not running, or not renewed for
\* longer than the lease, changes hands.
Update(r) ==
  /\ pc[r] = "update"
  /\ \/ /\ row.status # "running" \/ Stale(at[r])
        /\ row' = [owner |-> r, status |-> "running", updated |-> at[r]]
        /\ displaced' = displaced \cup {s \in Run : Owns(s)}
        /\ Goto(r, "seed")
     \/ /\ row.status = "running" /\ ~Stale(at[r])
        /\ Goto(r, "rejected")
        /\ UNCHANGED <<row, displaced>>
  /\ UNCHANGED <<now, at, done, final, raising, kills, filled, overrun>>

\* seed_demo_brands writes brands and profiles under the fresh lease.
Seed(r) ==
  /\ pc[r] = "seed"
  /\ CountOverrun(r)
  /\ Goto(r, "loop")
  /\ UNCHANGED <<now, row, at, done, final, raising, kills, filled, displaced>>

\* A heartbeat reads the clock before its UPDATE runs.
Beat(r) ==
  /\ pc[r] \in {"loop", "sync"}
  /\ at' = [at EXCEPT ![r] = now]
  /\ Goto(r, IF pc[r] = "loop" THEN "loop_renew" ELSE "sync_renew")
  /\ UNCHANGED <<now, row, done, final, raising, kills, history>>

\* _renew_population_lock at the top of the brand loop, outside its try block.
RenewForBrand(r) ==
  /\ pc[r] = "loop_renew"
  /\ \/ /\ Owns(r)
        /\ row' = [row EXCEPT !.updated = at[r]]
        /\ Goto(r, "sync")
        /\ UNCHANGED <<final, raising>>
     \/ /\ ~Owns(r)
        /\ Abort(r)
        /\ UNCHANGED row
  /\ UNCHANGED <<now, at, done, kills, history>>

RenewInSyncIgnoresLoss(r) ==
  /\ pc[r] = "sync_renew"
  /\ Goto(r, "work")
  /\ row' = [row EXCEPT !.updated = IF Owns(r) THEN at[r] ELSE @]
  /\ UNCHANGED <<now, at, done, final, raising, kills, history>>

\* The progress callback inside sync_public_listening: a lost lease, or a
\* heartbeat the database refused, ends the sync of this brand.
RenewInSync(r) ==
  /\ pc[r] = "sync_renew"
  /\ \/ /\ Owns(r)
        /\ row' = [row EXCEPT !.updated = at[r]]
        /\ Goto(r, "work")
        /\ UNCHANGED <<done, final, filled>>
     \/ /\ BrandEnds(r, FALSE)
        /\ UNCHANGED row
  /\ UNCHANGED <<now, at, raising, kills, displaced, overrun>>

\* What the sync does up to its next heartbeat: an actor run or a poll of it,
\* one signal, a source_health row.  An exception here fails the brand.
Work(r) ==
  /\ pc[r] = "work"
  /\ CountOverrun(r)
  /\ \/ Goto(r, "sync") /\ UNCHANGED <<done, final, filled>>
     \/ BrandEnds(r, FALSE)
  /\ UNCHANGED <<now, row, at, raising, kills, displaced>>

\* The sync returns, and _population_result judges what it brought.
SyncReturns(r) ==
  /\ pc[r] = "sync"
  /\ \E ok \in BOOLEAN : BrandEnds(r, ok)
  /\ UNCHANGED <<now, row, at, raising, kills, displaced, overrun>>

\* Ctrl-C, or an exception of seed_demo_brands or load_brand_config.
Interrupt(r) ==
  /\ pc[r] \in InTry
  /\ CountOverrun(r)
  /\ Abort(r)
  /\ UNCHANGED <<now, row, at, done, kills, filled, displaced>>

ReleaseByWorkflow(r) ==
  /\ pc[r] = "release"
  /\ row' = [row EXCEPT !.status = final[r], !.updated = now]
  /\ Goto(r, IF raising[r] THEN "raised" ELSE "returned")
  /\ UNCHANGED <<now, at, done, final, raising, kills, history>>
ReleaseKeepsFailures(r) ==
  /\ pc[r] = "release"
  /\ \/ /\ Owns(r)
        /\ row' = IF final[r] = "failed" THEN row ELSE [row EXCEPT !.status = final[r]]
        /\ Goto(r, IF raising[r] THEN "raised" ELSE "returned")
     \/ /\ ~Owns(r)
        /\ Goto(r, "raised")
        /\ UNCHANGED row
  /\ UNCHANGED <<now, at, done, final, raising, kills, history>>
ReleaseAlwaysCompletes(r) ==
  /\ pc[r] = "release"
  /\ \/ /\ Owns(r)
        /\ row' = [row EXCEPT !.status = "completed", !.updated = now]
        /\ Goto(r, IF raising[r] THEN "raised" ELSE "returned")
     \/ /\ ~Owns(r)
        /\ Goto(r, "raised")
        /\ UNCHANGED row
  /\ UNCHANGED <<now, at, done, final, raising, kills, history>>

\* _release_population_lock in the finally block: losing the lease is an error.
Release(r) ==
  /\ pc[r] = "release"
  /\ \/ /\ Owns(r)
        /\ row' = [row EXCEPT !.status = final[r], !.updated = now]
        /\ Goto(r, IF raising[r] THEN "raised" ELSE "returned")
     \/ /\ ~Owns(r)
        /\ Goto(r, "raised")
        /\ UNCHANGED row
  /\ UNCHANGED <<now, at, done, final, raising, kills, history>>

\* The process is killed, or the database fails it where nothing is caught: in
\* _acquire_population_lock, before the try block, or in the release.
Kill(r) ==
  /\ pc[r] \notin Ended \cup {"idle"}
  /\ kills < MaxKills
  /\ kills' = kills + 1
  /\ CountOverrun(r)
  /\ Goto(r, "killed")
  /\ UNCHANGED <<now, row, at, done, final, raising, filled, displaced>>

AllEnded ==
  /\ \A r \in Run : pc[r] \in Ended
  /\ UNCHANGED vars

Step(r) ==
  \/ Begin(r) \/ Select(r) \/ Insert(r) \/ Update(r)
  \/ Seed(r) \/ Beat(r) \/ RenewForBrand(r) \/ RenewInSync(r)
  \/ Work(r) \/ SyncReturns(r) \/ Interrupt(r) \/ Release(r) \/ Kill(r)

Next == Tick \/ (\E r \in Run : Step(r)) \/ AllEnded

Spec == Init /\ [][Next]_vars

-----------------------------------------------------------------------------
RowType == [owner : Run, status : {"running", "completed", "failed"}, updated : Nat]

\* Types of the lock row, the invocations' locals and the history.
TypeOK ==
  /\ now \in Nat /\ kills \in Nat
  /\ row \in RowType \cup {NoRow}
  /\ pc \in [Run -> Place]
  /\ at \in [Run -> Nat]
  /\ done \in [Run -> 0 .. Brands]
  /\ final \in [Run -> {"completed", "failed"}]
  /\ raising \in [Run -> BOOLEAN]
  /\ filled \in [Run -> SUBSET (1 .. Brands)]
  /\ displaced \subseteq Run
  /\ overrun \in [Run -> Nat]

\* A run that lost its lease does at most what fits between two heartbeats
\* before it stops: it never begins a second unit of work beside the new owner,
\* not even with --continue-on-error.
DisplacedRunStops == \A r \in Run : overrun[r] <= 1

\* populate_demo_brands returns a summary only to a run that held the lease
\* without a break from its acquisition to its release.
SummaryMeansUnbrokenLease == \A r \in Run : pc[r] = "returned" => r \notin displaced

\* The row says "completed" only if its last owner filled every brand, whatever
\* displaced or interrupted runs did to it in between.
CompletedMeansEveryBrand ==
  row.status = "completed" => filled[row.owner] = 1 .. Brands

\* Only a live run or a killed one keeps the row running: every other way out
\* gives the lease back.
EndedRunsLeaveNoLease ==
  row.status = "running" => pc[row.owner] \in InTry \cup {"release", "killed"}

\* The invocations implement the lease: holding is owning a running row, and it
\* is over for a run that was displaced or that came out of its release.
LeaseOf == INSTANCE PopulationLease WITH
  holders <- {r \in Run : Owns(r)}, beat <- row.updated,
  past <- displaced \cup {r \in Run : pc[r] \in {"returned", "raised"}}

\* Whatever the races over the row, however late a heartbeat or a release comes,
\* a run has the lease once and without a break, and the heartbeat never goes back.
ImplementsLease == LeaseOf!Spec

\* The lease is taken from a running owner only when more than Lease has passed
\* since the heartbeat it last wrote; a run that beats in time keeps it.
FreshLeaseIsKept ==
  [][\A r \in Run : Owns(r) /\ row'.owner # r => now > row.updated + Lease]_vars

-----------------------------------------------------------------------------
\* The strengthening that makes the safety invariants inductive.

\* Past the acquisition a run owns the row or was displaced, never both; the row
\* never comes back to it, and one that is about to work has not yet overrun.
LeaseState(r) ==
  /\ pc[r] \in InTry \cup {"release"} => Owns(r) \/ r \in displaced
  /\ r \in displaced => row.owner # r
  /\ pc[r] \in {"idle"} \cup Acquiring => ~Owns(r) /\ r \notin displaced
  /\ overrun[r] > 0 => r \in displaced /\ pc[r] \notin Working
  /\ overrun[r] <= 1
LeaseStates == \A r \in Run : LeaseState(r)

\* final_status is "completed" only while every brand so far was filled.
FinalIsHonest ==
  \A r \in Run :
    /\ final[r] = "completed" => filled[r] = 1 .. done[r]
    /\ final[r] = "completed" /\ pc[r] = "release" => done[r] = Brands
    /\ pc[r] \in {"idle", "loop", "loop_renew", "sync", "sync_renew"}
         \cup Acquiring \cup Working => done[r] < Brands

\* A clock that was read is in the past, and no heartbeat on the row is later than
\* the one its owner read last.
TimesArePast ==
  /\ \A r \in Run : at[r] <= now /\ (Owns(r) => row.updated <= at[r])

IInv ==
  /\ TypeOK /\ LeaseStates /\ FinalIsHonest /\ TimesArePast
  /\ SummaryMeansUnbrokenLease /\ CompletedMeansEveryBrand /\ EndedRunsLeaveNoLease
=============================================================================
