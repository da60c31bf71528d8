----------------------- MODULE DemoPopulationProofs -----------------------
(***************************************************************************)
(* The lease of populate_demo_brands, for every set of invocations, number *)
(* of brands and lease duration.                                           *)
(***************************************************************************)
EXTENDS DemoPopulation, TLAPS

\* A brand that ends adds one summary and, if it was filled, one brand.
LEMMA BrandEndsFacts ==
  ASSUME TypeOK, FinalIsHonest, NEW r \in Run, NEW ok \in BOOLEAN,
         pc[r] \in {"sync", "sync_renew", "work"}, BrandEnds(r, ok)
  PROVE  /\ done[r] + 1 \in 1 .. Brands /\ done'[r] = done[r] + 1
         /\ done' \in [Run -> 0 .. Brands]
         /\ filled' \in [Run -> SUBSET (1 .. Brands)]
         /\ final' \in [Run -> {"completed", "failed"}]
         /\ pc' \in [Run -> Place]
         /\ pc'[r] \in {"loop", "release"}
         /\ final'[r] = "completed" => filled'[r] = 1 .. done'[r]
         /\ final'[r] = "completed" /\ pc'[r] = "release" => done'[r] = Brands
         /\ pc'[r] = "loop" => done'[r] < Brands
         /\ \A s \in Run \ {r} : /\ done'[s] = done[s] /\ filled'[s] = filled[s]
                                /\ final'[s] = final[s] /\ pc'[s] = pc[s]
<1>1. done[r] \in Nat /\ done[r] < Brands /\ Brands \in Nat
  BY NumberAssumption DEF TypeOK, FinalIsHonest, Working
<1>2. done[r] + 1 \in 1 .. Brands /\ done'[r] = done[r] + 1
  BY <1>1 DEF TypeOK, BrandEnds
<1>3. /\ done' \in [Run -> 0 .. Brands]
      /\ filled' \in [Run -> SUBSET (1 .. Brands)]
      /\ final' \in [Run -> {"completed", "failed"}]
      /\ pc' \in [Run -> Place]
      /\ pc'[r] \in {"loop", "release"}
  BY <1>1, <1>2 DEF TypeOK, BrandEnds, Goto, Place, InTry, Working
<1>4. \A s \in Run \ {r} : /\ done'[s] = done[s] /\ filled'[s] = filled[s]
                           /\ final'[s] = final[s] /\ pc'[s] = pc[s]
  BY DEF TypeOK, BrandEnds, Goto
<1>5. ASSUME final'[r] = "completed" PROVE filled'[r] = 1 .. done'[r] /\ ok
  <2>1. ok /\ final[r] = "completed"
    BY <1>5 DEF TypeOK, BrandEnds
  <2>2. filled[r] = 1 .. done[r] /\ filled'[r] = filled[r] \cup {done[r] + 1}
    BY <2>1 DEF TypeOK, BrandEnds, FinalIsHonest
  <2> QED
    BY <1>1, <1>2, <2>1, <2>2
<1>6. final'[r] = "completed" /\ pc'[r] = "release" => done'[r] = Brands
  BY <1>2, <1>5 DEF TypeOK, BrandEnds, Goto
<1>7. pc'[r] = "loop" => done'[r] < Brands
  BY <1>1, <1>2 DEF TypeOK, BrandEnds, Goto
<1> QED
  BY <1>2, <1>3, <1>4, <1>5, <1>6, <1>7

\* A heartbeat of the owner changes nothing but the time.
LEMMA RenewFacts ==
  ASSUME TypeOK, NEW r \in Run, Owns(r), row' = [row EXCEPT !.updated = at[r]]
  PROVE  /\ row' \in RowType
         /\ row'.owner = row.owner /\ row'.status = row.status
         /\ \A s \in Run : Owns(s)' <=> Owns(s)
<1>1. row \in RowType /\ at[r] \in Nat
  BY DEF TypeOK, Owns, NoRow
<1>2. row' \in RowType /\ row'.owner = row.owner /\ row'.status = row.status
  BY <1>1 DEF RowType
<1> QED
  BY <1>2 DEF Owns

\* A release by the owner leaves the row to nobody.
LEMMA ReleaseFacts ==
  ASSUME TypeOK, NEW r \in Run, Owns(r),
         row' = [row EXCEPT !.status = final[r], !.updated = now]
  PROVE  /\ row' \in RowType
         /\ row'.owner = r /\ row'.status = final[r]
         /\ row'.status # "running"
         /\ \A s \in Run : ~Owns(s)'
<1>1. row \in RowType /\ now \in Nat /\ final[r] \in {"completed", "failed"}
  BY DEF TypeOK, Owns, NoRow
<1>2. row' \in RowType /\ row'.owner = r /\ row'.status = final[r]
  BY <1>1 DEF RowType, Owns
<1> QED
  BY <1>1, <1>2 DEF Owns

\* Only a displaced run at work overruns, and by one.
LEMMA CountFacts ==
  ASSUME TypeOK, NEW r \in Run, CountOverrun(r)
  PROVE  /\ overrun' \in [Run -> Nat]
         /\ \A s \in Run \ {r} : overrun'[s] = overrun[s]
         /\ pc[r] \in Working /\ r \in displaced => overrun'[r] = overrun[r] + 1
         /\ ~(pc[r] \in Working /\ r \in displaced) => overrun'[r] = overrun[r]
BY DEF TypeOK, CountOverrun

\* The owner of a row that is running or completed is an invocation.
LEMMA OwnerIsARun ==
  ASSUME TypeOK, row.status \in {"running", "completed"}
  PROVE  row.owner \in Run
BY DEF TypeOK, NoRow, RowType

\* Every step keeps the types.
LEMMA TypeStep ==
  ASSUME IInv, NEW r \in Run, Step(r)
  PROVE  TypeOK'
<1>1. CASE Begin(r)
  BY <1>1, NumberAssumption DEF IInv, TypeOK, Goto, Abort, CountOverrun, history, RowType,
     NoRow, Place, InTry, Working, Acquiring, Ended, Begin
<1>2. CASE Select(r)
  BY <1>2, NumberAssumption DEF IInv, TypeOK, Goto, Abort, CountOverrun, history, RowType,
     NoRow, Place, InTry, Working, Acquiring, Ended, Select
<1>3. CASE Insert(r)
  BY <1>3, NumberAssumption DEF IInv, TypeOK, Goto, Abort, CountOverrun, history, RowType,
     NoRow, Place, InTry, Working, Acquiring, Ended, Insert
<1>4. CASE Update(r)
  BY <1>4, NumberAssumption DEF IInv, TypeOK, Goto, Abort, CountOverrun, history, RowType,
     NoRow, Place, InTry, Working, Acquiring, Ended, Update
<1>5. CASE Seed(r)
  BY <1>5, NumberAssumption DEF IInv, TypeOK, Goto, Abort, CountOverrun, history, RowType,
     NoRow, Place, InTry, Working, Acquiring, Ended, Seed
<1>6. CASE Beat(r)
  BY <1>6, NumberAssumption DEF IInv, TypeOK, Goto, Abort, CountOverrun, history, RowType,
     NoRow, Place, InTry, Working, Acquiring, Ended, Beat
<1>7. CASE RenewForBrand(r)
  <2>1. CASE Owns(r) /\ row' = [row EXCEPT !.updated = at[r]]
    <3>1. /\ pc[r] = "loop_renew" /\ pc' = [pc EXCEPT ![r] = "sync"]
          /\ UNCHANGED <<now, at, done, final, raising, kills, filled, displaced, overrun>>
      BY <1>7, <2>1 DEF RenewForBrand, Abort, Goto, history
    <3> QED
      BY <2>1, <3>1, RenewFacts DEF IInv, TypeOK, Place, InTry, Working, Acquiring, Ended
  <2>2. CASE ~Owns(r)
    <3>1. /\ pc[r] = "loop_renew" /\ pc' = [pc EXCEPT ![r] = "release"]
          /\ final' = [final EXCEPT ![r] = "failed"]
          /\ raising' = [raising EXCEPT ![r] = TRUE]
          /\ UNCHANGED <<row, now, at, done, kills, filled, displaced, overrun>>
      BY <1>7, <2>2 DEF RenewForBrand, Abort, Goto, history
    <3> QED
      BY <2>2, <3>1 DEF IInv, TypeOK, Place, InTry, Working, Acquiring, Ended, Owns
  <2> QED
    BY <1>7, <2>1, <2>2 DEF RenewForBrand
<1>8. CASE RenewInSync(r)
  <2>1. CASE BrandEnds(r, FALSE) /\ UNCHANGED row
    <3>1. /\ pc[r] = "sync_renew" /\ UNCHANGED <<row, now, at, raising, kills, displaced>>
          /\ UNCHANGED overrun
      BY <1>8, <2>1 DEF RenewInSync
    <3>2. /\ done' \in [Run -> 0 .. Brands] /\ pc' \in [Run -> Place]
          /\ filled' \in [Run -> SUBSET (1 .. Brands)]
          /\ final' \in [Run -> {"completed", "failed"}]
      BY <2>1, <3>1, BrandEndsFacts DEF IInv
    <3> QED
      BY <3>1, <3>2 DEF IInv, TypeOK
  <2>2. CASE Owns(r) /\ row' = [row EXCEPT !.updated = at[r]] /\ Goto(r, "work")
                /\ UNCHANGED <<done, final, filled>>
    <3>1. /\ pc[r] = "sync_renew" /\ pc' = [pc EXCEPT ![r] = "work"]
          /\ UNCHANGED <<now, at, done, final, raising, kills, filled, displaced, overrun>>
      BY <1>8, <2>2 DEF RenewInSync, Goto
    <3> QED
      BY <2>2, <3>1, RenewFacts DEF IInv, TypeOK, Place, InTry, Working, Acquiring, Ended,
         Owns
  <2> QED
    BY <1>8, <2>1, <2>2 DEF RenewInSync
<1>9. CASE Work(r)
  <2>1. pc[r] = "work" /\ CountOverrun(r) /\ UNCHANGED <<now, row, at, raising, kills,
  displaced>>
    BY <1>9 DEF Work
  <2>2. CASE BrandEnds(r, FALSE)
    <3>1. /\ done' \in [Run -> 0 .. Brands] /\ pc' \in [Run -> Place]
          /\ filled' \in [Run -> SUBSET (1 .. Brands)]
          /\ final' \in [Run -> {"completed", "failed"}]
      BY <2>1, <2>2, BrandEndsFacts DEF IInv
    <3> QED
      BY <2>1, <3>1, CountFacts DEF IInv, TypeOK
  <2>3. CASE pc' = [pc EXCEPT ![r] = "sync"] /\ UNCHANGED <<done, final, filled>>
    BY <2>1, <2>3, CountFacts DEF IInv, TypeOK, Place, InTry, Working, Acquiring, Ended,
       Owns
  <2> QED
    BY <1>9, <2>2, <2>3 DEF Work, Goto
<1>10. CASE SyncReturns(r)
  <2>1. PICK ok \in BOOLEAN : BrandEnds(r, ok)
    BY <1>10 DEF SyncReturns
  <2>2. pc[r] = "sync" /\ UNCHANGED <<now, row, at, raising, kills, displaced, overrun>>
    BY <1>10 DEF SyncReturns
  <2>3. /\ done' \in [Run -> 0 .. Brands] /\ pc' \in [Run -> Place]
        /\ filled' \in [Run -> SUBSET (1 .. Brands)]
        /\ final' \in [Run -> {"completed", "failed"}]
    BY <2>1, <2>2, BrandEndsFacts DEF IInv
  <2> QED
    BY <2>2, <2>3 DEF IInv, TypeOK
<1>11. CASE Interrupt(r)
  BY <1>11, NumberAssumption DEF IInv, TypeOK, Goto, Abort, CountOverrun, history, RowType,
     NoRow, Place, InTry, Working, Acquiring, Ended, Interrupt
<1>12. CASE Release(r)
  <2>1. /\ pc[r] = "release"
        /\ UNCHANGED <<now, at, done, final, raising, kills, filled, displaced, overrun>>
    BY <1>12 DEF Release, history
  <2>2. CASE Owns(r)
    <3>1. /\ row' = [row EXCEPT !.status = final[r], !.updated = now]
          /\ pc' = [pc EXCEPT ![r] = IF raising[r] THEN "raised" ELSE "returned"]
      BY <1>12, <2>2 DEF Release, Goto
    <3> QED
      BY <2>1, <2>2, <3>1, ReleaseFacts DEF IInv, TypeOK, Place, InTry, Working, Acquiring,
         Ended, Owns
  <2>3. CASE ~Owns(r)
    <3>1. pc' = [pc EXCEPT ![r] = "raised"] /\ UNCHANGED row
      BY <1>12, <2>3 DEF Release, Goto
    <3> QED
      BY <2>1, <2>3, <3>1 DEF IInv, TypeOK, Place, InTry, Working, Acquiring, Ended, Owns
  <2> QED
    BY <2>2, <2>3
<1>13. CASE Kill(r)
  BY <1>13, NumberAssumption DEF IInv, TypeOK, Goto, Abort, CountOverrun, history, RowType,
     NoRow, Place, InTry, Working, Acquiring, Ended, Kill
<1> QED
  BY <1>1, <1>2, <1>3, <1>4, <1>5, <1>6, <1>7, <1>8, <1>9, <1>10, <1>11, <1>12,
     <1>13 DEF Step

\* A run owns the lease or was displaced, and works only while it has not overrun.
LEMMA LeaseStatesStep ==
  ASSUME IInv, NEW r \in Run, Step(r)
  PROVE  LeaseStates'
<1>1. CASE Begin(r)
  BY <1>1 DEF IInv, TypeOK, Goto, Abort, CountOverrun, history, LeaseStates, LeaseState,
     Owns, NoRow, Place, InTry, Working, Acquiring, Ended, Begin
<1>2. CASE Select(r)
  BY <1>2 DEF IInv, TypeOK, Goto, Abort, CountOverrun, history, LeaseStates, LeaseState,
     Owns, NoRow, Place, InTry, Working, Acquiring, Ended, Select
<1>3. CASE Insert(r)
  BY <1>3 DEF IInv, TypeOK, Goto, Abort, CountOverrun, history, LeaseStates, LeaseState,
     Owns, NoRow, Place, InTry, Working, Acquiring, Ended, Insert
<1>4. CASE Update(r)
  BY <1>4 DEF IInv, TypeOK, Goto, Abort, CountOverrun, history, LeaseStates, LeaseState,
     Owns, NoRow, Place, InTry, Working, Acquiring, Ended, Update
<1>5. CASE Seed(r)
  BY <1>5 DEF IInv, TypeOK, Goto, Abort, CountOverrun, history, LeaseStates, LeaseState,
     Owns, NoRow, Place, InTry, Working, Acquiring, Ended, Seed
<1>6. CASE Beat(r)
  BY <1>6 DEF IInv, TypeOK, Goto, Abort, CountOverrun, history, LeaseStates, LeaseState,
     Owns, NoRow, Place, InTry, Working, Acquiring, Ended, Beat
<1>7. CASE RenewForBrand(r)
  <2>1. CASE Owns(r) /\ row' = [row EXCEPT !.updated = at[r]]
    <3>1. /\ pc[r] = "loop_renew" /\ pc' = [pc EXCEPT ![r] = "sync"]
          /\ UNCHANGED <<now, at, done, final, raising, kills, filled, displaced, overrun>>
      BY <1>7, <2>1 DEF RenewForBrand, Abort, Goto, history
    <3> QED
      BY <2>1, <3>1, RenewFacts DEF IInv, TypeOK, Place, InTry, Working, Acquiring, Ended,
         LeaseStates, LeaseState
  <2>2. CASE ~Owns(r)
    <3>1. /\ pc[r] = "loop_renew" /\ pc' = [pc EXCEPT ![r] = "release"]
          /\ final' = [final EXCEPT ![r] = "failed"]
          /\ raising' = [raising EXCEPT ![r] = TRUE]
          /\ UNCHANGED <<row, now, at, done, kills, filled, displaced, overrun>>
      BY <1>7, <2>2 DEF RenewForBrand, Abort, Goto, history
    <3> QED
      BY <2>2, <3>1 DEF IInv, TypeOK, Place, InTry, Working, Acquiring, Ended, LeaseStates,
         LeaseState, Owns
  <2> QED
    BY <1>7, <2>1, <2>2 DEF RenewForBrand
<1>8. CASE RenewInSync(r)
  <2>1. CASE BrandEnds(r, FALSE) /\ UNCHANGED row
    <3>1. /\ pc[r] = "sync_renew" /\ UNCHANGED <<row, now, at, raising, kills, displaced>>
          /\ UNCHANGED overrun
      BY <1>8, <2>1 DEF RenewInSync
    <3>2. /\ pc'[r] \in {"loop", "release"}
          /\ \A s \in Run \ {r} : pc'[s] = pc[s]
      BY <2>1, <3>1, BrandEndsFacts DEF IInv
    <3> QED
      BY <3>1, <3>2 DEF IInv, TypeOK, InTry, Working, Acquiring, LeaseStates, LeaseState,
         Owns
  <2>2. CASE Owns(r) /\ row' = [row EXCEPT !.updated = at[r]] /\ Goto(r, "work")
                /\ UNCHANGED <<done, final, filled>>
    <3>1. /\ pc[r] = "sync_renew" /\ pc' = [pc EXCEPT ![r] = "work"]
          /\ UNCHANGED <<now, at, done, final, raising, kills, filled, displaced, overrun>>
      BY <1>8, <2>2 DEF RenewInSync, Goto
    <3> QED
      BY <2>2, <3>1, RenewFacts DEF IInv, TypeOK, Place, InTry, Working, Acquiring, Ended,
         LeaseStates, LeaseState, Owns
  <2> QED
    BY <1>8, <2>1, <2>2 DEF RenewInSync
<1>9. CASE Work(r)
  <2>1. pc[r] = "work" /\ CountOverrun(r) /\ UNCHANGED <<now, row, at, raising, kills,
  displaced>>
    BY <1>9 DEF Work
  <2>2. CASE BrandEnds(r, FALSE)
    <3>1. /\ pc'[r] \in {"loop", "release"}
          /\ \A s \in Run \ {r} : pc'[s] = pc[s]
      BY <2>1, <2>2, BrandEndsFacts DEF IInv
    <3> QED
      BY <2>1, <3>1, CountFacts DEF IInv, TypeOK, InTry, Working, Acquiring, LeaseStates,
         LeaseState, Owns
  <2>3. CASE pc' = [pc EXCEPT ![r] = "sync"] /\ UNCHANGED <<done, final, filled>>
    BY <2>1, <2>3, CountFacts DEF IInv, TypeOK, Place, InTry, Working, Acquiring, Ended,
       LeaseStates, LeaseState, Owns
  <2> QED
    BY <1>9, <2>2, <2>3 DEF Work, Goto
<1>10. CASE SyncReturns(r)
  <2>1. PICK ok \in BOOLEAN : BrandEnds(r, ok)
    BY <1>10 DEF SyncReturns
  <2>2. pc[r] = "sync" /\ UNCHANGED <<now, row, at, raising, kills, displaced, overrun>>
    BY <1>10 DEF SyncReturns
  <2>3. /\ pc'[r] \in {"loop", "release"}
        /\ \A s \in Run \ {r} : pc'[s] = pc[s]
    BY <2>1, <2>2, BrandEndsFacts DEF IInv
  <2> QED
    BY <2>2, <2>3 DEF IInv, TypeOK, InTry, Working, Acquiring, LeaseStates, LeaseState, Owns
<1>11. CASE Interrupt(r)
  BY <1>11 DEF IInv, TypeOK, Goto, Abort, CountOverrun, history, LeaseStates, LeaseState,
     Owns, NoRow, Place, InTry, Working, Acquiring, Ended, Interrupt
<1>12. CASE Release(r)
  <2>1. /\ pc[r] = "release"
        /\ UNCHANGED <<now, at, done, final, raising, kills, filled, displaced, overrun>>
    BY <1>12 DEF Release, history
  <2>2. CASE Owns(r)
    <3>1. /\ row' = [row EXCEPT !.status = final[r], !.updated = now]
          /\ pc' = [pc EXCEPT ![r] = IF raising[r] THEN "raised" ELSE "returned"]
      BY <1>12, <2>2 DEF Release, Goto
    <3> QED
      BY <2>1, <2>2, <3>1, ReleaseFacts, ZenonT(30) DEF IInv, TypeOK, Place, InTry, Working, Acquiring,
         Ended, LeaseStates, LeaseState, Owns
  <2>3. CASE ~Owns(r)
    <3>1. pc' = [pc EXCEPT ![r] = "raised"] /\ UNCHANGED row
      BY <1>12, <2>3 DEF Release, Goto
    <3> QED
      BY <2>1, <2>3, <3>1 DEF IInv, TypeOK, Place, InTry, Working, Acquiring, Ended,
         LeaseStates, LeaseState, Owns
  <2> QED
    BY <2>2, <2>3
<1>13. CASE Kill(r)
  BY <1>13 DEF IInv, TypeOK, Goto, Abort, CountOverrun, history, LeaseStates, LeaseState,
     Owns, NoRow, Place, InTry, Working, Acquiring, Ended, Kill
<1> QED
  BY <1>1, <1>2, <1>3, <1>4, <1>5, <1>6, <1>7, <1>8, <1>9, <1>10, <1>11, <1>12,
     <1>13 DEF Step

\* final_status tells the truth about the brands so far.
LEMMA FinalIsHonestStep ==
  ASSUME IInv, NEW r \in Run, Step(r)
  PROVE  FinalIsHonest'
<1>1. CASE Begin(r)
  BY <1>1, NumberAssumption DEF IInv, TypeOK, Goto, Abort, CountOverrun, history,
     FinalIsHonest, Place, InTry, Working, Acquiring, Ended, Begin
<1>2. CASE Select(r)
  BY <1>2, NumberAssumption DEF IInv, TypeOK, Goto, Abort, CountOverrun, history,
     FinalIsHonest, Place, InTry, Working, Acquiring, Ended, Select
<1>3. CASE Insert(r)
  BY <1>3, NumberAssumption DEF IInv, TypeOK, Goto, Abort, CountOverrun, history,
     FinalIsHonest, Place, InTry, Working, Acquiring, Ended, Insert
<1>4. CASE Update(r)
  BY <1>4, NumberAssumption DEF IInv, TypeOK, Goto, Abort, CountOverrun, history,
     FinalIsHonest, Place, InTry, Working, Acquiring, Ended, Update
<1>5. CASE Seed(r)
  BY <1>5, NumberAssumption DEF IInv, TypeOK, Goto, Abort, CountOverrun, history,
     FinalIsHonest, Place, InTry, Working, Acquiring, Ended, Seed
<1>6. CASE Beat(r)
  BY <1>6, NumberAssumption DEF IInv, TypeOK, Goto, Abort, CountOverrun, history,
     FinalIsHonest, Place, InTry, Working, Acquiring, Ended, Beat
<1>7. CASE RenewForBrand(r)
  <2>1. CASE Owns(r) /\ row' = [row EXCEPT !.updated = at[r]]
    <3>1. /\ pc[r] = "loop_renew" /\ pc' = [pc EXCEPT ![r] = "sync"]
          /\ UNCHANGED <<now, at, done, final, raising, kills, filled, displaced, overrun>>
      BY <1>7, <2>1 DEF RenewForBrand, Abort, Goto, history
    <3> QED
      BY <2>1, <3>1, RenewFacts DEF IInv, TypeOK, Place, InTry, Working, Acquiring, Ended,
         FinalIsHonest
  <2>2. CASE ~Owns(r)
    <3>1. /\ pc[r] = "loop_renew" /\ pc' = [pc EXCEPT ![r] = "release"]
          /\ final' = [final EXCEPT ![r] = "failed"]
          /\ raising' = [raising EXCEPT ![r] = TRUE]
          /\ UNCHANGED <<row, now, at, done, kills, filled, displaced, overrun>>
      BY <1>7, <2>2 DEF RenewForBrand, Abort, Goto, history
    <3> QED
      BY <2>2, <3>1 DEF IInv, TypeOK, Place, InTry, Working, Acquiring, Ended,
         FinalIsHonest, Owns
  <2> QED
    BY <1>7, <2>1, <2>2 DEF RenewForBrand
<1>8. CASE RenewInSync(r)
  <2>1. CASE BrandEnds(r, FALSE) /\ UNCHANGED row
    <3>1. /\ pc[r] = "sync_renew" /\ UNCHANGED <<row, now, at, raising, kills, displaced>>
          /\ UNCHANGED overrun
      BY <1>8, <2>1 DEF RenewInSync
    <3>2. /\ pc'[r] \in {"loop", "release"}
          /\ final'[r] = "completed" => filled'[r] = 1 .. done'[r]
          /\ final'[r] = "completed" /\ pc'[r] = "release" => done'[r] = Brands
          /\ pc'[r] = "loop" => done'[r] < Brands
          /\ \A s \in Run \ {r} : /\ done'[s] = done[s] /\ filled'[s] = filled[s]
                                 /\ final'[s] = final[s] /\ pc'[s] = pc[s]
      BY <2>1, <3>1, BrandEndsFacts DEF IInv
    <3> QED
      BY <3>1, <3>2 DEF IInv, TypeOK, InTry, Working, Acquiring, FinalIsHonest
  <2>2. CASE Owns(r) /\ row' = [row EXCEPT !.updated = at[r]] /\ Goto(r, "work")
                /\ UNCHANGED <<done, final, filled>>
    <3>1. /\ pc[r] = "sync_renew" /\ pc' = [pc EXCEPT ![r] = "work"]
          /\ UNCHANGED <<now, at, done, final, raising, kills, filled, displaced, overrun>>
      BY <1>8, <2>2 DEF RenewInSync, Goto
    <3> QED
      BY <2>2, <3>1, RenewFacts DEF IInv, TypeOK, Place, InTry, Working, Acquiring, Ended,
         FinalIsHonest, Owns
  <2> QED
    BY <1>8, <2>1, <2>2 DEF RenewInSync
<1>9. CASE Work(r)
  <2>1. pc[r] = "work" /\ CountOverrun(r) /\ UNCHANGED <<now, row, at, raising, kills,
  displaced>>
    BY <1>9 DEF Work
  <2>2. CASE BrandEnds(r, FALSE)
    <3>1. /\ pc'[r] \in {"loop", "release"}
          /\ final'[r] = "completed" => filled'[r] = 1 .. done'[r]
          /\ final'[r] = "completed" /\ pc'[r] = "release" => done'[r] = Brands
          /\ pc'[r] = "loop" => done'[r] < Brands
          /\ \A s \in Run \ {r} : /\ done'[s] = done[s] /\ filled'[s] = filled[s]
                                 /\ final'[s] = final[s] /\ pc'[s] = pc[s]
      BY <2>1, <2>2, BrandEndsFacts DEF IInv
    <3> QED
      BY <2>1, <3>1 DEF IInv, TypeOK, InTry, Working, Acquiring, FinalIsHonest
  <2>3. CASE pc' = [pc EXCEPT ![r] = "sync"] /\ UNCHANGED <<done, final, filled>>
    BY <2>1, <2>3 DEF IInv, TypeOK, Place, InTry, Working, Acquiring, Ended, FinalIsHonest,
       Owns
  <2> QED
    BY <1>9, <2>2, <2>3 DEF Work, Goto
<1>10. CASE SyncReturns(r)
  <2>1. PICK ok \in BOOLEAN : BrandEnds(r, ok)
    BY <1>10 DEF SyncReturns
  <2>2. pc[r] = "sync" /\ UNCHANGED <<now, row, at, raising, kills, displaced, overrun>>
    BY <1>10 DEF SyncReturns
  <2>3. /\ pc'[r] \in {"loop", "release"}
        /\ final'[r] = "completed" => filled'[r] = 1 .. done'[r]
        /\ final'[r] = "completed" /\ pc'[r] = "release" => done'[r] = Brands
        /\ pc'[r] = "loop" => done'[r] < Brands
        /\ \A s \in Run \ {r} : /\ done'[s] = done[s] /\ filled'[s] = filled[s]
                               /\ final'[s] = final[s] /\ pc'[s] = pc[s]
    BY <2>1, <2>2, BrandEndsFacts DEF IInv
  <2> QED
    BY <2>3 DEF IInv, FinalIsHonest, Acquiring, Working
<1>11. CASE Interrupt(r)
  BY <1>11, NumberAssumption DEF IInv, TypeOK, Goto, Abort, CountOverrun, history,
     FinalIsHonest, Place, InTry, Working, Acquiring, Ended, Interrupt
<1>12. CASE Release(r)
  <2>1. /\ pc[r] = "release"
        /\ UNCHANGED <<now, at, done, final, raising, kills, filled, displaced, overrun>>
    BY <1>12 DEF Release, history
  <2>2. CASE Owns(r)
    <3>1. /\ row' = [row EXCEPT !.status = final[r], !.updated = now]
          /\ pc' = [pc EXCEPT ![r] = IF raising[r] THEN "raised" ELSE "returned"]
      BY <1>12, <2>2 DEF Release, Goto
    <3> QED
      BY <2>1, <2>2, <3>1, ReleaseFacts DEF IInv, TypeOK, Place, InTry, Working, Acquiring,
         Ended, FinalIsHonest, Owns
  <2>3. CASE ~Owns(r)
    <3>1. pc' = [pc EXCEPT ![r] = "raised"] /\ UNCHANGED row
      BY <1>12, <2>3 DEF Release, Goto
    <3> QED
      BY <2>1, <2>3, <3>1 DEF IInv, TypeOK, Place, InTry, Working, Acquiring, Ended,
         FinalIsHonest, Owns
  <2> QED
    BY <2>2, <2>3
<1>13. CASE Kill(r)
  BY <1>13, NumberAssumption DEF IInv, TypeOK, Goto, Abort, CountOverrun, history,
     FinalIsHonest, Place, InTry, Working, Acquiring, Ended, Kill
<1> QED
  BY <1>1, <1>2, <1>3, <1>4, <1>5, <1>6, <1>7, <1>8, <1>9, <1>10, <1>11, <1>12,
     <1>13 DEF Step

\* What a step may do to the row: acquire, renew or release the lease, or nothing.
Acquires(r) ==
  /\ pc[r] \in {"insert", "update"} /\ pc' = [pc EXCEPT ![r] = "seed"]
  /\ row.status # "running" \/ Stale(at[r])
  /\ row' = [owner |-> r, status |-> "running", updated |-> at[r]]
  /\ displaced' = displaced \cup {s \in Run : Owns(s)}
  /\ UNCHANGED at
Renews(r) ==
  /\ Owns(r)
  /\ row' = [row EXCEPT !.updated = at[r]]
  /\ UNCHANGED <<at, displaced>>
Releases(r) ==
  /\ pc[r] = "release" /\ Owns(r)
  /\ row' = [row EXCEPT !.status = final[r], !.updated = now]
  /\ UNCHANGED <<at, displaced>>
KeepsRow(r) ==
  /\ UNCHANGED <<row, displaced>>
  /\ UNCHANGED at \/ at' = [at EXCEPT ![r] = now]

LEMMA RowMoves ==
  ASSUME IInv, NEW r \in Run, Step(r)
  PROVE  now' = now /\ (Acquires(r) \/ Renews(r) \/ Releases(r) \/ KeepsRow(r))
<1> USE DEF history
<1>1. CASE Begin(r) \/ Select(r) \/ Beat(r)
  BY <1>1 DEF Begin, Select, Beat, KeepsRow
<1>2. CASE Insert(r)
  <2>1. CASE row = NoRow
    <3>1. {s \in Run : Owns(s)} = {} /\ row.status # "running"
      BY <2>1 DEF Owns, NoRow
    <3> QED
      BY <1>2, <2>1, <3>1 DEF Insert, Acquires, Goto
  <2>2. CASE row # NoRow
    BY <1>2, <2>2 DEF Insert, KeepsRow
  <2> QED
    BY <2>1, <2>2
<1>3. CASE Update(r)
  BY <1>3 DEF Update, Acquires, KeepsRow, Goto
<1>4. CASE RenewForBrand(r) \/ RenewInSync(r)
  BY <1>4 DEF RenewForBrand, RenewInSync, Renews, KeepsRow
<1>5. CASE Release(r)
  BY <1>5 DEF Release, Releases, KeepsRow
<1>6. CASE Seed(r) \/ Work(r) \/ SyncReturns(r) \/ Interrupt(r) \/ Kill(r)
  BY <1>6 DEF Seed, Work, SyncReturns, Interrupt, Kill, KeepsRow
<1> QED
  BY <1>1, <1>2, <1>3, <1>4, <1>5, <1>6 DEF Step

\* Every time a run holds was read from the clock, and its heartbeats go forward.
LEMMA TimesArePastStep ==
  ASSUME IInv, NEW r \in Run, Step(r)
  PROVE  TimesArePast'
<1> USE DEF IInv, TypeOK, TimesArePast
<1>0. now' = now /\ (Acquires(r) \/ Renews(r) \/ Releases(r) \/ KeepsRow(r))
  BY RowMoves
<1>1. CASE Acquires(r)
  BY <1>0, <1>1 DEF Acquires, Owns
<1>2. CASE Renews(r)
  <2>1. \A s \in Run : Owns(s)' => s = r
    BY <1>2, RenewFacts DEF Renews, Owns
  <2>2. row'.updated = at[r] /\ at' = at
    BY <1>2 DEF Renews, Owns, RowType, NoRow
  <2> QED
    BY <1>0, <2>1, <2>2
<1>3. CASE Releases(r)
  BY <1>0, <1>3, ReleaseFacts DEF Releases
<1>4. CASE KeepsRow(r)
  <2>1. \A s \in Run : Owns(s)' <=> Owns(s)
    BY <1>4 DEF KeepsRow, Owns
  <2>2. \A s \in Run : Owns(s) => row.updated <= now /\ row.updated \in Nat
    BY DEF RowType, NoRow, Owns
  <2> QED
    BY <1>0, <1>4, <2>1, <2>2 DEF KeepsRow
<1> QED
  BY <1>0, <1>1, <1>2, <1>3, <1>4

\* Only an owner releases and returns a summary.
LEMMA SummaryStep ==
  ASSUME IInv, NEW r \in Run, Step(r)
  PROVE  SummaryMeansUnbrokenLease'
<1>1. CASE Begin(r)
  BY <1>1 DEF IInv, TypeOK, Goto, Abort, CountOverrun, history, SummaryMeansUnbrokenLease,
     EndedRunsLeaveNoLease, LeaseStates, LeaseState, Owns, NoRow, Place, InTry, Working,
     Acquiring, Ended, Begin
<1>2. CASE Select(r)
  BY <1>2 DEF IInv, TypeOK, Goto, Abort, CountOverrun, history, SummaryMeansUnbrokenLease,
     EndedRunsLeaveNoLease, LeaseStates, LeaseState, Owns, NoRow, Place, InTry, Working,
     Acquiring, Ended, Select
<1>3. CASE Insert(r)
  BY <1>3 DEF IInv, TypeOK, Goto, Abort, CountOverrun, history, SummaryMeansUnbrokenLease,
     EndedRunsLeaveNoLease, LeaseStates, LeaseState, Owns, NoRow, Place, InTry, Working,
     Acquiring, Ended, Insert
<1>4. CASE Update(r)
  BY <1>4 DEF IInv, TypeOK, Goto, Abort, CountOverrun, history, SummaryMeansUnbrokenLease,
     EndedRunsLeaveNoLease, LeaseStates, LeaseState, Owns, NoRow, Place, InTry, Working,
     Acquiring, Ended, Update
<1>5. CASE Seed(r)
  BY <1>5 DEF IInv, TypeOK, Goto, Abort, CountOverrun, history, SummaryMeansUnbrokenLease,
     EndedRunsLeaveNoLease, LeaseStates, LeaseState, Owns, NoRow, Place, InTry, Working,
     Acquiring, Ended, Seed
<1>6. CASE Beat(r)
  BY <1>6 DEF IInv, TypeOK, Goto, Abort, CountOverrun, history, SummaryMeansUnbrokenLease,
     EndedRunsLeaveNoLease, LeaseStates, LeaseState, Owns, NoRow, Place, InTry, Working,
     Acquiring, Ended, Beat
<1>7. CASE RenewForBrand(r)
  <2>1. CASE Owns(r) /\ row' = [row EXCEPT !.updated = at[r]]
    <3>1. /\ pc[r] = "loop_renew" /\ pc' = [pc EXCEPT ![r] = "sync"]
          /\ UNCHANGED <<now, at, done, final, raising, kills, filled, displaced, overrun>>
      BY <1>7, <2>1 DEF RenewForBrand, Abort, Goto, history
    <3> QED
      BY <2>1, <3>1, RenewFacts DEF IInv, TypeOK, Place, InTry, Working, Acquiring, Ended,
         SummaryMeansUnbrokenLease, LeaseStates, LeaseState
  <2>2. CASE ~Owns(r)
    <3>1. /\ pc[r] = "loop_renew" /\ pc' = [pc EXCEPT ![r] = "release"]
          /\ final' = [final EXCEPT ![r] = "failed"]
          /\ raising' = [raising EXCEPT ![r] = TRUE]
          /\ UNCHANGED <<row, now, at, done, kills, filled, displaced, overrun>>
      BY <1>7, <2>2 DEF RenewForBrand, Abort, Goto, history
    <3> QED
      BY <2>2, <3>1 DEF IInv, TypeOK, Place, InTry, Working, Acquiring, Ended,
         SummaryMeansUnbrokenLease, LeaseStates, LeaseState, Owns
  <2> QED
    BY <1>7, <2>1, <2>2 DEF RenewForBrand
<1>8. CASE RenewInSync(r)
  <2>1. CASE BrandEnds(r, FALSE) /\ UNCHANGED row
    <3>1. /\ pc[r] = "sync_renew" /\ UNCHANGED <<row, now, at, raising, kills, displaced>>
          /\ UNCHANGED overrun
      BY <1>8, <2>1 DEF RenewInSync
    <3>2. /\ pc'[r] \in {"loop", "release"}
          /\ \A s \in Run \ {r} : pc'[s] = pc[s]
      BY <2>1, <3>1, BrandEndsFacts DEF IInv
    <3> QED
      BY <3>1, <3>2 DEF IInv, TypeOK, SummaryMeansUnbrokenLease
  <2>2. CASE Owns(r) /\ row' = [row EXCEPT !.updated = at[r]] /\ Goto(r, "work")
                /\ UNCHANGED <<done, final, filled>>
    <3>1. /\ pc[r] = "sync_renew" /\ pc' = [pc EXCEPT ![r] = "work"]
          /\ UNCHANGED <<now, at, done, final, raising, kills, filled, displaced, overrun>>
      BY <1>8, <2>2 DEF RenewInSync, Goto
    <3> QED
      BY <2>2, <3>1, RenewFacts DEF IInv, TypeOK, Place, InTry, Working, Acquiring, Ended,
         SummaryMeansUnbrokenLease, LeaseStates, LeaseState, Owns
  <2> QED
    BY <1>8, <2>1, <2>2 DEF RenewInSync
<1>9. CASE Work(r)
  <2>1. pc[r] = "work" /\ CountOverrun(r) /\ UNCHANGED <<now, row, at, raising, kills,
  displaced>>
    BY <1>9 DEF Work
  <2>2. CASE BrandEnds(r, FALSE)
    <3>1. /\ pc'[r] \in {"loop", "release"}
          /\ \A s \in Run \ {r} : pc'[s] = pc[s]
      BY <2>1, <2>2, BrandEndsFacts DEF IInv
    <3> QED
      BY <2>1, <3>1 DEF IInv, TypeOK, SummaryMeansUnbrokenLease
  <2>3. CASE pc' = [pc EXCEPT ![r] = "sync"] /\ UNCHANGED <<done, final, filled>>
    BY <2>1, <2>3 DEF IInv, TypeOK, Place, InTry, Working, Acquiring, Ended,
       SummaryMeansUnbrokenLease, LeaseStates, LeaseState, Owns
  <2> QED
    BY <1>9, <2>2, <2>3 DEF Work, Goto
<1>10. CASE SyncReturns(r)
  <2>1. PICK ok \in BOOLEAN : BrandEnds(r, ok)
    BY <1>10 DEF SyncReturns
  <2>2. pc[r] = "sync" /\ UNCHANGED <<now, row, at, raising, kills, displaced, overrun>>
    BY <1>10 DEF SyncReturns
  <2>3. /\ pc'[r] \in {"loop", "release"}
        /\ \A s \in Run \ {r} : pc'[s] = pc[s]
    BY <2>1, <2>2, BrandEndsFacts DEF IInv
  <2> QED
    BY <2>2, <2>3 DEF IInv, TypeOK, SummaryMeansUnbrokenLease
<1>11. CASE Interrupt(r)
  BY <1>11 DEF IInv, TypeOK, Goto, Abort, CountOverrun, history, SummaryMeansUnbrokenLease,
     EndedRunsLeaveNoLease, LeaseStates, LeaseState, Owns, NoRow, Place, InTry, Working,
     Acquiring, Ended, Interrupt
<1>12. CASE Release(r)
  <2>1. /\ pc[r] = "release"
        /\ UNCHANGED <<now, at, done, final, raising, kills, filled, displaced, overrun>>
    BY <1>12 DEF Release, history
  <2>2. CASE Owns(r)
    <3>1. /\ row' = [row EXCEPT !.status = final[r], !.updated = now]
          /\ pc' = [pc EXCEPT ![r] = IF raising[r] THEN "raised" ELSE "returned"]
      BY <1>12, <2>2 DEF Release, Goto
    <3> QED
      BY <2>1, <2>2, <3>1, ReleaseFacts, ZenonT(30) DEF IInv, TypeOK, Place, InTry, Working, Acquiring,
         Ended, SummaryMeansUnbrokenLease, LeaseStates, LeaseState, Owns
  <2>3. CASE ~Owns(r)
    <3>1. pc' = [pc EXCEPT ![r] = "raised"] /\ UNCHANGED row
      BY <1>12, <2>3 DEF Release, Goto
    <3> QED
      BY <2>1, <2>3, <3>1 DEF IInv, TypeOK, Place, InTry, Working, Acquiring, Ended,
         SummaryMeansUnbrokenLease, LeaseStates, LeaseState, Owns
  <2> QED
    BY <2>2, <2>3
<1>13. CASE Kill(r)
  BY <1>13 DEF IInv, TypeOK, Goto, Abort, CountOverrun, history, SummaryMeansUnbrokenLease,
     EndedRunsLeaveNoLease, LeaseStates, LeaseState, Owns, NoRow, Place, InTry, Working,
     Acquiring, Ended, Kill
<1> QED
  BY <1>1, <1>2, <1>3, <1>4, <1>5, <1>6, <1>7, <1>8, <1>9, <1>10, <1>11, <1>12,
     <1>13 DEF Step

\* A completed row is written only after the last brand.
LEMMA CompletedStep ==
  ASSUME IInv, NEW r \in Run, Step(r)
  PROVE  CompletedMeansEveryBrand'
<1>1. CASE Begin(r)
  BY <1>1 DEF IInv, TypeOK, Goto, Abort, CountOverrun, history, CompletedMeansEveryBrand,
     FinalIsHonest, EndedRunsLeaveNoLease, Owns, NoRow, RowType, LeaseStates, LeaseState,
     Place, InTry, Working, Acquiring, Ended, Begin
<1>2. CASE Select(r)
  BY <1>2 DEF IInv, TypeOK, Goto, Abort, CountOverrun, history, CompletedMeansEveryBrand,
     FinalIsHonest, EndedRunsLeaveNoLease, Owns, NoRow, RowType, LeaseStates, LeaseState,
     Place, InTry, Working, Acquiring, Ended, Select
<1>3. CASE Insert(r)
  BY <1>3 DEF IInv, TypeOK, Goto, Abort, CountOverrun, history, CompletedMeansEveryBrand,
     FinalIsHonest, EndedRunsLeaveNoLease, Owns, NoRow, RowType, LeaseStates, LeaseState,
     Place, InTry, Working, Acquiring, Ended, Insert
<1>4. CASE Update(r)
  BY <1>4 DEF IInv, TypeOK, Goto, Abort, CountOverrun, history, CompletedMeansEveryBrand,
     FinalIsHonest, EndedRunsLeaveNoLease, Owns, NoRow, RowType, LeaseStates, LeaseState,
     Place, InTry, Working, Acquiring, Ended, Update
<1>5. CASE Seed(r)
  BY <1>5 DEF IInv, TypeOK, Goto, Abort, CountOverrun, history, CompletedMeansEveryBrand,
     FinalIsHonest, EndedRunsLeaveNoLease, Owns, NoRow, RowType, LeaseStates, LeaseState,
     Place, InTry, Working, Acquiring, Ended, Seed
<1>6. CASE Beat(r)
  BY <1>6 DEF IInv, TypeOK, Goto, Abort, CountOverrun, history, CompletedMeansEveryBrand,
     FinalIsHonest, EndedRunsLeaveNoLease, Owns, NoRow, RowType, LeaseStates, LeaseState,
     Place, InTry, Working, Acquiring, Ended, Beat
<1>7. CASE RenewForBrand(r)
  <2>1. CASE Owns(r) /\ row' = [row EXCEPT !.updated = at[r]]
    <3>1. /\ pc[r] = "loop_renew" /\ pc' = [pc EXCEPT ![r] = "sync"]
          /\ UNCHANGED <<now, at, done, final, raising, kills, filled, displaced, overrun>>
      BY <1>7, <2>1 DEF RenewForBrand, Abort, Goto, history
    <3> QED
      BY <2>1, <3>1, RenewFacts DEF IInv, TypeOK, Place, InTry, Working, Acquiring, Ended,
         CompletedMeansEveryBrand, FinalIsHonest, Owns
  <2>2. CASE ~Owns(r)
    <3>1. /\ pc[r] = "loop_renew" /\ pc' = [pc EXCEPT ![r] = "release"]
          /\ final' = [final EXCEPT ![r] = "failed"]
          /\ raising' = [raising EXCEPT ![r] = TRUE]
          /\ UNCHANGED <<row, now, at, done, kills, filled, displaced, overrun>>
      BY <1>7, <2>2 DEF RenewForBrand, Abort, Goto, history
    <3> QED
      BY <2>2, <3>1 DEF IInv, TypeOK, Place, InTry, Working, Acquiring, Ended,
         CompletedMeansEveryBrand, FinalIsHonest, Owns
  <2> QED
    BY <1>7, <2>1, <2>2 DEF RenewForBrand
<1>8. CASE RenewInSync(r)
  <2>1. CASE BrandEnds(r, FALSE) /\ UNCHANGED row
    <3>1. /\ pc[r] = "sync_renew" /\ UNCHANGED <<row, now, at, raising, kills, displaced>>
          /\ UNCHANGED overrun
      BY <1>8, <2>1 DEF RenewInSync
    <3>2. \A s \in Run \ {r} : filled'[s] = filled[s]
      BY <2>1, <3>1, BrandEndsFacts DEF IInv
    <3> QED
      BY <3>1, <3>2, OwnerIsARun DEF IInv, TypeOK, CompletedMeansEveryBrand, LeaseStates,
         LeaseState, Owns, InTry, Working
  <2>2. CASE Owns(r) /\ row' = [row EXCEPT !.updated = at[r]] /\ Goto(r, "work")
                /\ UNCHANGED <<done, final, filled>>
    <3>1. /\ pc[r] = "sync_renew" /\ pc' = [pc EXCEPT ![r] = "work"]
          /\ UNCHANGED <<now, at, done, final, raising, kills, filled, displaced, overrun>>
      BY <1>8, <2>2 DEF RenewInSync, Goto
    <3> QED
      BY <2>2, <3>1, RenewFacts DEF IInv, TypeOK, Place, InTry, Working, Acquiring, Ended,
         CompletedMeansEveryBrand, FinalIsHonest, Owns
  <2> QED
    BY <1>8, <2>1, <2>2 DEF RenewInSync
<1>9. CASE Work(r)
  <2>1. pc[r] = "work" /\ CountOverrun(r) /\ UNCHANGED <<now, row, at, raising, kills,
  displaced>>
    BY <1>9 DEF Work
  <2>2. CASE BrandEnds(r, FALSE)
    <3>1. \A s \in Run \ {r} : filled'[s] = filled[s]
      BY <2>1, <2>2, BrandEndsFacts DEF IInv
    <3> QED
      BY <2>1, <3>1, OwnerIsARun DEF IInv, TypeOK, CompletedMeansEveryBrand, LeaseStates,
         LeaseState, Owns, InTry, Working
  <2>3. CASE pc' = [pc EXCEPT ![r] = "sync"] /\ UNCHANGED <<done, final, filled>>
    BY <2>1, <2>3 DEF IInv, TypeOK, Place, InTry, Working, Acquiring, Ended,
       CompletedMeansEveryBrand, FinalIsHonest, Owns
  <2> QED
    BY <1>9, <2>2, <2>3 DEF Work, Goto
<1>10. CASE SyncReturns(r)
  <2>1. PICK ok \in BOOLEAN : BrandEnds(r, ok)
    BY <1>10 DEF SyncReturns
  <2>2. pc[r] = "sync" /\ UNCHANGED <<now, row, at, raising, kills, displaced, overrun>>
    BY <1>10 DEF SyncReturns
  <2>3. \A s \in Run \ {r} : filled'[s] = filled[s]
    BY <2>1, <2>2, BrandEndsFacts DEF IInv
  <2> QED
    BY <2>2, <2>3, OwnerIsARun DEF IInv, TypeOK, CompletedMeansEveryBrand, LeaseStates,
       LeaseState, Owns, InTry, Working
<1>11. CASE Interrupt(r)
  BY <1>11 DEF IInv, TypeOK, Goto, Abort, CountOverrun, history, CompletedMeansEveryBrand,
     FinalIsHonest, EndedRunsLeaveNoLease, Owns, NoRow, RowType, LeaseStates, LeaseState,
     Place, InTry, Working, Acquiring, Ended, Interrupt
<1>12. CASE Release(r)
  <2>1. /\ pc[r] = "release"
        /\ UNCHANGED <<now, at, done, final, raising, kills, filled, displaced, overrun>>
    BY <1>12 DEF Release, history
  <2>2. CASE Owns(r)
    <3>1. /\ row' = [row EXCEPT !.status = final[r], !.updated = now]
          /\ pc' = [pc EXCEPT ![r] = IF raising[r] THEN "raised" ELSE "returned"]
      BY <1>12, <2>2 DEF Release, Goto
    <3> QED
      BY <2>1, <2>2, <3>1, ReleaseFacts DEF IInv, TypeOK, Place, InTry, Working, Acquiring,
         Ended, CompletedMeansEveryBrand, FinalIsHonest, Owns
  <2>3. CASE ~Owns(r)
    <3>1. pc' = [pc EXCEPT ![r] = "raised"] /\ UNCHANGED row
      BY <1>12, <2>3 DEF Release, Goto
    <3> QED
      BY <2>1, <2>3, <3>1 DEF IInv, TypeOK, Place, InTry, Working, Acquiring, Ended,
         CompletedMeansEveryBrand, FinalIsHonest, Owns
  <2> QED
    BY <2>2, <2>3
<1>13. CASE Kill(r)
  BY <1>13 DEF IInv, TypeOK, Goto, Abort, CountOverrun, history, CompletedMeansEveryBrand,
     FinalIsHonest, EndedRunsLeaveNoLease, Owns, NoRow, RowType, LeaseStates, LeaseState,
     Place, InTry, Working, Acquiring, Ended, Kill
<1> QED
  BY <1>1, <1>2, <1>3, <1>4, <1>5, <1>6, <1>7, <1>8, <1>9, <1>10, <1>11, <1>12,
     <1>13 DEF Step

\* Every way out of a run but a kill gives the lease back.
LEMMA EndedStep ==
  ASSUME IInv, NEW r \in Run, Step(r)
  PROVE  EndedRunsLeaveNoLease'
<1>1. CASE Begin(r)
  BY <1>1 DEF IInv, TypeOK, Goto, Abort, CountOverrun, history, EndedRunsLeaveNoLease,
     LeaseStates, LeaseState, Owns, NoRow, RowType, Place, InTry, Working, Acquiring,
     Ended, Begin
<1>2. CASE Select(r)
  BY <1>2 DEF IInv, TypeOK, Goto, Abort, CountOverrun, history, EndedRunsLeaveNoLease,
     LeaseStates, LeaseState, Owns, NoRow, RowType, Place, InTry, Working, Acquiring,
     Ended, Select
<1>3. CASE Insert(r)
  BY <1>3 DEF IInv, TypeOK, Goto, Abort, CountOverrun, history, EndedRunsLeaveNoLease,
     LeaseStates, LeaseState, Owns, NoRow, RowType, Place, InTry, Working, Acquiring,
     Ended, Insert
<1>4. CASE Update(r)
  BY <1>4 DEF IInv, TypeOK, Goto, Abort, CountOverrun, history, EndedRunsLeaveNoLease,
     LeaseStates, LeaseState, Owns, NoRow, RowType, Place, InTry, Working, Acquiring,
     Ended, Update
<1>5. CASE Seed(r)
  BY <1>5 DEF IInv, TypeOK, Goto, Abort, CountOverrun, history, EndedRunsLeaveNoLease,
     LeaseStates, LeaseState, Owns, NoRow, RowType, Place, InTry, Working, Acquiring,
     Ended, Seed
<1>6. CASE Beat(r)
  BY <1>6 DEF IInv, TypeOK, Goto, Abort, CountOverrun, history, EndedRunsLeaveNoLease,
     LeaseStates, LeaseState, Owns, NoRow, RowType, Place, InTry, Working, Acquiring,
     Ended, Beat
<1>7. CASE RenewForBrand(r)
  <2>1. CASE Owns(r) /\ row' = [row EXCEPT !.updated = at[r]]
    <3>1. /\ pc[r] = "loop_renew" /\ pc' = [pc EXCEPT ![r] = "sync"]
          /\ UNCHANGED <<now, at, done, final, raising, kills, filled, displaced, overrun>>
      BY <1>7, <2>1 DEF RenewForBrand, Abort, Goto, history
    <3> QED
      BY <2>1, <3>1, RenewFacts DEF IInv, TypeOK, Place, InTry, Working, Acquiring, Ended,
         EndedRunsLeaveNoLease, LeaseStates, LeaseState, Owns
  <2>2. CASE ~Owns(r)
    <3>1. /\ pc[r] = "loop_renew" /\ pc' = [pc EXCEPT ![r] = "release"]
          /\ final' = [final EXCEPT ![r] = "failed"]
          /\ raising' = [raising EXCEPT ![r] = TRUE]
          /\ UNCHANGED <<row, now, at, done, kills, filled, displaced, overrun>>
      BY <1>7, <2>2 DEF RenewForBrand, Abort, Goto, history
    <3> QED
      BY <2>2, <3>1 DEF IInv, TypeOK, Place, InTry, Working, Acquiring, Ended,
         EndedRunsLeaveNoLease, LeaseStates, LeaseState, Owns
  <2> QED
    BY <1>7, <2>1, <2>2 DEF RenewForBrand
<1>8. CASE RenewInSync(r)
  <2>1. CASE BrandEnds(r, FALSE) /\ UNCHANGED row
    <3>1. /\ pc[r] = "sync_renew" /\ UNCHANGED <<row, now, at, raising, kills, displaced>>
          /\ UNCHANGED overrun
      BY <1>8, <2>1 DEF RenewInSync
    <3>2. /\ pc'[r] \in {"loop", "release"}
          /\ \A s \in Run \ {r} : pc'[s] = pc[s]
      BY <2>1, <3>1, BrandEndsFacts DEF IInv
    <3> QED
      BY <3>1, <3>2, OwnerIsARun DEF IInv, TypeOK, InTry, Working, EndedRunsLeaveNoLease
  <2>2. CASE Owns(r) /\ row' = [row EXCEPT !.updated = at[r]] /\ Goto(r, "work")
                /\ UNCHANGED <<done, final, filled>>
    <3>1. /\ pc[r] = "sync_renew" /\ pc' = [pc EXCEPT ![r] = "work"]
          /\ UNCHANGED <<now, at, done, final, raising, kills, filled, displaced, overrun>>
      BY <1>8, <2>2 DEF RenewInSync, Goto
    <3> QED
      BY <2>2, <3>1, RenewFacts DEF IInv, TypeOK, Place, InTry, Working, Acquiring, Ended,
         EndedRunsLeaveNoLease, LeaseStates, LeaseState, Owns
  <2> QED
    BY <1>8, <2>1, <2>2 DEF RenewInSync
<1>9. CASE Work(r)
  <2>1. pc[r] = "work" /\ CountOverrun(r) /\ UNCHANGED <<now, row, at, raising, kills,
  displaced>>
    BY <1>9 DEF Work
  <2>2. CASE BrandEnds(r, FALSE)
    <3>1. /\ pc'[r] \in {"loop", "release"}
          /\ \A s \in Run \ {r} : pc'[s] = pc[s]
      BY <2>1, <2>2, BrandEndsFacts DEF IInv
    <3> QED
      BY <2>1, <3>1, OwnerIsARun DEF IInv, TypeOK, InTry, Working, EndedRunsLeaveNoLease
  <2>3. CASE pc' = [pc EXCEPT ![r] = "sync"] /\ UNCHANGED <<done, final, filled>>
    BY <2>1, <2>3 DEF IInv, TypeOK, Place, InTry, Working, Acquiring, Ended,
       EndedRunsLeaveNoLease, LeaseStates, LeaseState, Owns
  <2> QED
    BY <1>9, <2>2, <2>3 DEF Work, Goto
<1>10. CASE SyncReturns(r)
  <2>1. PICK ok \in BOOLEAN : BrandEnds(r, ok)
    BY <1>10 DEF SyncReturns
  <2>2. pc[r] = "sync" /\ UNCHANGED <<now, row, at, raising, kills, displaced, overrun>>
    BY <1>10 DEF SyncReturns
  <2>3. /\ pc'[r] \in {"loop", "release"}
        /\ \A s \in Run \ {r} : pc'[s] = pc[s]
    BY <2>1, <2>2, BrandEndsFacts DEF IInv
  <2> QED
    BY <2>2, <2>3, OwnerIsARun DEF IInv, TypeOK, InTry, Working, EndedRunsLeaveNoLease
<1>11. CASE Interrupt(r)
  BY <1>11 DEF IInv, TypeOK, Goto, Abort, CountOverrun, history, EndedRunsLeaveNoLease,
     LeaseStates, LeaseState, Owns, NoRow, RowType, Place, InTry, Working, Acquiring,
     Ended, Interrupt
<1>12. CASE Release(r)
  <2>1. /\ pc[r] = "release"
        /\ UNCHANGED <<now, at, done, final, raising, kills, filled, displaced, overrun>>
    BY <1>12 DEF Release, history
  <2>2. CASE Owns(r)
    <3>1. /\ row' = [row EXCEPT !.status = final[r], !.updated = now]
          /\ pc' = [pc EXCEPT ![r] = IF raising[r] THEN "raised" ELSE "returned"]
      BY <1>12, <2>2 DEF Release, Goto
    <3> QED
      BY <2>1, <2>2, <3>1, ReleaseFacts DEF IInv, TypeOK, Place, InTry, Working, Acquiring,
         Ended, EndedRunsLeaveNoLease, LeaseStates, LeaseState, Owns
  <2>3. CASE ~Owns(r)
    <3>1. pc' = [pc EXCEPT ![r] = "raised"] /\ UNCHANGED row
      BY <1>12, <2>3 DEF Release, Goto
    <3> QED
      BY <2>1, <2>3, <3>1 DEF IInv, TypeOK, Place, InTry, Working, Acquiring, Ended,
         EndedRunsLeaveNoLease, LeaseStates, LeaseState, Owns
  <2> QED
    BY <2>2, <2>3
<1>13. CASE Kill(r)
  BY <1>13 DEF IInv, TypeOK, Goto, Abort, CountOverrun, history, EndedRunsLeaveNoLease,
     LeaseStates, LeaseState, Owns, NoRow, RowType, Place, InTry, Working, Acquiring,
     Ended, Kill
<1> QED
  BY <1>1, <1>2, <1>3, <1>4, <1>5, <1>6, <1>7, <1>8, <1>9, <1>10, <1>11, <1>12,
     <1>13 DEF Step

\* Steps of no run: the clock, and stuttering.
LEMMA InvTick ==
  ASSUME IInv, Tick \/ UNCHANGED vars
  PROVE  IInv'
<1>1. /\ UNCHANGED <<row, pc, at, done, final, raising, kills, filled, displaced, overrun>>
      /\ now' \in Nat /\ now' >= now
  BY DEF IInv, TypeOK, Tick, vars, history
<1>2. TypeOK' /\ TimesArePast'
  BY <1>1 DEF IInv, TypeOK, TimesArePast, Owns
<1>3. LeaseStates'
  BY <1>1 DEF IInv, LeaseStates, LeaseState, Owns
<1>4. FinalIsHonest'
  BY <1>1 DEF IInv, FinalIsHonest
<1>5. SummaryMeansUnbrokenLease' /\ CompletedMeansEveryBrand' /\ EndedRunsLeaveNoLease'
  BY <1>1 DEF IInv, SummaryMeansUnbrokenLease, CompletedMeansEveryBrand,
     EndedRunsLeaveNoLease
<1> QED
  BY <1>2, <1>3, <1>4, <1>5 DEF IInv

\* The strengthened invariant holds of every behaviour of the invocations.
THEOREM InvariantHolds == Spec => []IInv
<1>1. Init => IInv
  <2> SUFFICES ASSUME Init PROVE IInv
    OBVIOUS
  <2>1. TypeOK
    BY NumberAssumption DEF Init, TypeOK, Place
  <2>2. LeaseStates /\ TimesArePast
    BY DEF Init, LeaseStates, LeaseState, TimesArePast, Owns, NoRow, InTry, Working,
       Acquiring
  <2>3. FinalIsHonest
    <3>1. 1 .. 0 = {}
      OBVIOUS
    <3>2. \A r \in Run : filled[r] = 1 .. done[r]
      BY <3>1 DEF Init
    <3>3. \A r \in Run : done[r] < Brands /\ pc[r] = "idle"
      <4>1. 0 < Brands
        BY NumberAssumption
      <4> QED
        BY <4>1 DEF Init
    <3> QED
      BY <3>2, <3>3 DEF FinalIsHonest
  <2>4. /\ SummaryMeansUnbrokenLease /\ CompletedMeansEveryBrand
        /\ EndedRunsLeaveNoLease
    BY DEF Init, SummaryMeansUnbrokenLease, CompletedMeansEveryBrand,
       EndedRunsLeaveNoLease, NoRow
  <2> QED
    BY <2>1, <2>2, <2>3, <2>4 DEF IInv
<1>2. IInv /\ [Next]_vars => IInv'
  <2> SUFFICES ASSUME IInv, [Next]_vars PROVE IInv'
    OBVIOUS
  <2>1. CASE Tick \/ UNCHANGED vars
    BY <2>1, InvTick
  <2>2. ASSUME NEW r \in Run, Step(r) PROVE IInv'
    BY <2>2, TypeStep, LeaseStatesStep, FinalIsHonestStep, TimesArePastStep,
       SummaryStep, CompletedStep, EndedStep DEF IInv
  <2> QED
    BY <2>1, <2>2 DEF Next, AllEnded
<1> QED
  BY <1>1, <1>2, PTL DEF Spec

\* The lock row and the locals of every invocation keep their types.
THEOREM TypeCorrect == Spec => []TypeOK
<1>1. IInv => TypeOK
  BY DEF IInv
<1> QED
  BY <1>1, InvariantHolds, PTL

\* Without fencing, what a displaced run can still do is bounded: the unit of
\* work it is in, for any lease duration and any number of rivals.
THEOREM DisplacedStops == Spec => []DisplacedRunStops
<1>1. IInv => DisplacedRunStops
  BY DEF IInv, LeaseStates, LeaseState, DisplacedRunStops
<1> QED
  BY <1>1, InvariantHolds, PTL

\* A summary comes only from a run whose lease was never interrupted.
THEOREM SummaryIsExclusive == Spec => []SummaryMeansUnbrokenLease
<1>1. IInv => SummaryMeansUnbrokenLease
  BY DEF IInv
<1> QED
  BY <1>1, InvariantHolds, PTL

\* The status "completed" of the lock row is true of its last owner.
THEOREM CompletedIsTrue == Spec => []CompletedMeansEveryBrand
<1>1. IInv => CompletedMeansEveryBrand
  BY DEF IInv
<1> QED
  BY <1>1, InvariantHolds, PTL

\* Only a killed run leaves a lease that must go stale before it is taken.
THEOREM EndedLeavesNoLease == Spec => []EndedRunsLeaveNoLease
<1>1. IInv => EndedRunsLeaveNoLease
  BY DEF IInv
<1> QED
  BY <1>1, InvariantHolds, PTL

\* No interleaving takes the lease from a run that beat within Lease.
THEOREM FreshLease == Spec => FreshLeaseIsKept
<1>1. IInv /\ [Next]_vars =>
        [\A r \in Run : Owns(r) /\ row'.owner # r => now > row.updated + Lease]_vars
  <2> SUFFICES ASSUME IInv, Next, NEW s \in Run, Owns(s), row'.owner # s
               PROVE  now > row.updated + Lease
    OBVIOUS
  <2>1. PICK r \in Run : Insert(r) \/ Update(r)
    <3>1. ASSUME NEW r \in Run, Step(r), ~Insert(r), ~Update(r) PROVE row'.owner = row.owner
      BY <3>1 DEF IInv, TypeOK, RowType, NoRow, Step, Begin, Select, Seed, Beat,
         RenewForBrand,
         RenewInSync, Work, SyncReturns, Interrupt, Release, Kill
    <3> QED
      BY <3>1 DEF Next, Tick, AllEnded, vars, Owns
  <2>2. row # NoRow
    BY DEF Owns, NoRow
  <2>3. Update(r) /\ Stale(at[r])
    BY <2>1, <2>2 DEF Insert, Update, Owns
  <2>4. at[r] \in Nat /\ at[r] <= now /\ now \in Nat /\ row.updated \in Nat
    BY <2>2 DEF IInv, TypeOK, TimesArePast, RowType
  <2> QED
    BY <2>3, <2>4, NumberAssumption DEF Stale
<1> QED
  BY <1>1, InvariantHolds, PTL DEF Spec, FreshLeaseIsKept

-----------------------------------------------------------------------------
(* The invocations implement the lease. *)

holding == {r \in Run : Owns(r)}
over == displaced \cup {r \in Run : pc[r] \in {"returned", "raised"}}

\* Who has left the release with its lease is found in its place; a run that finds
\* the lease gone was displaced already.
LEMMA OverOfStep ==
  ASSUME IInv, NEW r \in Run, Step(r)
  PROVE  /\ now' = now
         /\ \/ (KeepsRow(r) \/ Renews(r)) /\ over' = over
            \/ Acquires(r) /\ over' = over \cup holding
            \/ Releases(r) /\ over' = over \cup {r}
<1> USE DEF IInv, TypeOK, Goto
<1>0. now' = now /\ (Acquires(r) \/ Renews(r) \/ Releases(r) \/ KeepsRow(r))
  BY RowMoves
<1>1. \A s \in Run \ {r} : pc'[s] = pc[s]
  BY DEF Step, Begin, Select, Insert, Update, Seed, Beat, RenewForBrand, RenewInSync, Work,
     SyncReturns, Interrupt, Release, Kill, Abort, BrandEnds
<1>2. CASE Release(r)
  <2>1. pc[r] = "release" /\ pc'[r] \in {"returned", "raised"}
    BY <1>2 DEF Release
  <2>2. CASE Owns(r)
    <3>1. Releases(r)
      BY <1>2, <2>2 DEF Release, Releases, history
    <3>2. over' = over \cup {r}
      BY <1>1, <2>1, <3>1 DEF Releases, over
    <3> QED
      BY <1>0, <3>1, <3>2
  <2>3. CASE ~Owns(r)
    <3>1. r \in displaced
      BY <2>1, <2>3 DEF LeaseStates, LeaseState
    <3>2. KeepsRow(r)
      BY <1>2, <2>3 DEF Release, KeepsRow, history
    <3>3. over' = over
      BY <1>1, <2>1, <3>1, <3>2 DEF KeepsRow, over
    <3> QED
      BY <1>0, <3>2, <3>3
  <2> QED
    BY <2>2, <2>3
<1>3. CASE ~Release(r)
  <2>1. pc[r] \notin {"returned", "raised"} /\ pc'[r] \notin {"returned", "raised"}
    BY <1>3 DEF Step, Begin, Select, Insert, Update, Seed, Beat, RenewForBrand, RenewInSync,
       Work, SyncReturns, Interrupt, Kill, Abort, BrandEnds, InTry, Working, Ended
  <2>2. pc[r] = "release" => KeepsRow(r)
    BY <1>3 DEF Step, Begin, Select, Insert, Update, Seed, Beat, RenewForBrand, RenewInSync,
       Work, SyncReturns, Interrupt, Kill, InTry, Working, KeepsRow, history
  <2>3. {s \in Run : pc'[s] \in {"returned", "raised"}}
          = {s \in Run : pc[s] \in {"returned", "raised"}}
    BY <1>1, <2>1
  <2>4. KeepsRow(r) \/ Renews(r) => over' = over
    BY <2>3 DEF KeepsRow, Renews, over
  <2>5. Acquires(r) => over' = over \cup holding
    BY <2>3 DEF Acquires, over, holding
  <2> QED
    BY <1>0, <2>2, <2>4, <2>5 DEF Releases
<1> QED
  BY <1>2, <1>3

\* Acquiring takes a free or an expired lease, for a run that has not had it yet.
LEMMA AcquireTakes ==
  ASSUME IInv, NEW r \in Run, now' = now, Acquires(r), over' = over \cup holding
  PROVE  LeaseOf!Take(r)
<1> USE DEF IInv, TypeOK
<1>1. r \notin holding \cup over
  BY DEF Acquires, LeaseStates, LeaseState, Acquiring, holding, over
<1>2. holding = {} \/ now > row.updated + Lease
  <2>1. CASE row.status # "running"
    BY <2>1 DEF holding, Owns
  <2>2. CASE row.status = "running"
    <3>1. Stale(at[r]) /\ row.updated \in Nat
      BY <2>2 DEF Acquires, RowType, NoRow
    <3> QED
      BY <3>1, NumberAssumption DEF Stale, TimesArePast
  <2> QED
    BY <2>1, <2>2
<1>3. row' = [owner |-> r, status |-> "running", updated |-> at[r]]
  BY DEF Acquires
<1>4. holding' = {r} /\ row'.updated = at[r]
  BY <1>3 DEF holding, Owns
<1>5. at[r] \in 0 .. now
  BY DEF TimesArePast
<1> QED
  BY <1>1, <1>2, <1>4, <1>5 DEF LeaseOf!Take, holding, over

\* A heartbeat of the holder goes forward.
LEMMA RenewRenews ==
  ASSUME IInv, NEW r \in Run, now' = now, Renews(r), over' = over
  PROVE  LeaseOf!Renew(r)
<1> USE DEF IInv, TypeOK
<1>1. r \in holding /\ row \in RowType /\ row.updated \in Nat
  BY DEF Renews, holding, Owns, NoRow, RowType
<1>2. holding' = holding
  BY RenewFacts DEF Renews, holding
<1>3. row'.updated = at[r]
  BY <1>1 DEF Renews, RowType
<1>4. at[r] \in row.updated .. now
  BY <1>1 DEF Renews, TimesArePast
<1> QED
  BY <1>1, <1>2, <1>3, <1>4 DEF LeaseOf!Renew, holding, over

\* A release of the holder ends its time with the lease.
LEMMA ReleaseReleases ==
  ASSUME IInv, NEW r \in Run, now' = now, Releases(r), over' = over \cup {r}
  PROVE  LeaseOf!Release(r)
<1>1. r \in holding /\ holding' = {}
  BY ReleaseFacts DEF Releases, holding, IInv
<1>2. row'.updated = now
  BY DEF Releases, Owns, IInv, TypeOK, RowType, NoRow
<1> QED
  BY <1>1, <1>2 DEF LeaseOf!Release, holding, over

\* Every step of an invocation is a step of the lease or leaves it alone.
LEMMA LeaseStep ==
  ASSUME IInv, [Next]_vars
  PROVE  LeaseOf!Next \/ UNCHANGED <<now, holding, row.updated, over>>
<1>1. ASSUME NEW r \in Run, Step(r)
      PROVE  LeaseOf!Next \/ UNCHANGED <<now, holding, row.updated, over>>
  <2>1. KeepsRow(r) => holding' = holding /\ row'.updated = row.updated
    BY DEF KeepsRow, holding, Owns
  <2> QED
    BY <1>1, <2>1, OverOfStep, AcquireTakes, RenewRenews, ReleaseReleases DEF LeaseOf!Next
<1>2. CASE Tick
  <2>1. now' = now + 1 /\ UNCHANGED <<row, pc, displaced>>
    BY <1>2 DEF Tick, history
  <2>2. UNCHANGED <<holding, row.updated, over>>
    BY <2>1 DEF holding, over, Owns
  <2> QED
    BY <2>1, <2>2 DEF LeaseOf!Next, LeaseOf!Tick, holding, over
<1>3. CASE UNCHANGED vars
  BY <1>3 DEF vars, history, holding, over, Owns
<1> QED
  BY <1>1, <1>2, <1>3 DEF Next, AllEnded

\* populate_demo_brands keeps the promise of a lease: one run at a time has it,
\* once and without a break, and it is taken from a run only when it has expired;
\* for every number of runs, every lease duration and every delay between a clock
\* that is read and the statement that writes it.
THEOREM RunsImplementLease == Spec => ImplementsLease
<1>1. Init => LeaseOf!Init
  BY DEF Init, LeaseOf!Init, NoRow, Owns
<1>2. IInv /\ [Next]_vars => [LeaseOf!Next]_(LeaseOf!lvars)
  BY LeaseStep DEF LeaseOf!lvars, holding, over
<1> QED
  BY <1>1, <1>2, InvariantHolds, PTL DEF Spec, ImplementsLease, LeaseOf!Spec
=============================================================================
