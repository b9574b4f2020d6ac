-------------------------- MODULE MarketStore_proofs --------------------------
(***************************************************************************)
(* Proofs about MarketStore, for every market, number of tickers, sessions *)
(* and window. The jobs are those the scheduler runs: one at a time (the   *)
(* object store has no compare-and-swap, so two of them overwrite each     *)
(* other and neither action property holds).                               *)
(***************************************************************************)
EXTENDS MarketStore, FiniteSetTheorems, WellFoundedInduction, TLAPS

OneJobAtATime == \A i, j \in Jobs : i = j

-----------------------------------------------------------------------------
(* The operators *)

\* A merge loses no row and invents none.
LEMMA MergeRows ==
  ASSUME NEW rows \in SUBSET Rows, NEW incoming \in SUBSET Rows
  PROVE  MergePanel(rows, incoming) \in SUBSET Rows /\ rows \subseteq MergePanel(rows, incoming)
BY DEF MergePanel

\* Some day of a set of days is the latest: the days from it on are the
\* fewest, and inclusion of finite sets is well founded.
LEMMA LatestThere ==
  ASSUME NEW days \in SUBSET Days, days # {}
  PROVE  Latest(days) \in days /\ \A e \in days : e <= Latest(days)
<1> DEFINE D == {d..MaxDay : d \in days}
<1>1. \A d \in days : d \in Nat /\ d <= MaxDay /\ d..MaxDay \subseteq Nat /\ MaxDay \in Nat
  BY StoreAssumption DEF Days
<1>2. D \subseteq FiniteSubsetsOf(Nat) /\ D # {}
  <2>1. \A d \in days : d..MaxDay \in SUBSET Nat /\ IsFiniteSet(d..MaxDay)
    BY <1>1, FS_Interval
  <2> QED BY <2>1 DEF FiniteSubsetsOf
<1>3. IsWellFoundedOn(StrictSubsetOrdering(Nat), FiniteSubsetsOf(Nat))
  BY FS_StrictSubsetOrderingWellFounded
<1> HIDE DEF D
<1>4. PICK X \in D : \A Y \in D : <<Y, X>> \notin StrictSubsetOrdering(Nat)
  BY <1>2, <1>3, WFMin
<1>5. PICK d \in days : X = d..MaxDay
  BY DEF D
<1>6. ASSUME NEW e \in days, e > d PROVE FALSE
  <2> DEFINE Y == e..MaxDay
  <2>1. Y \in D /\ Y \subseteq Nat /\ X \subseteq Nat
    BY <1>1, <1>5 DEF D
  <2>2. Y \subseteq X /\ Y # X
    <3>1. Y \subseteq X
      BY <1>1, <1>5, <1>6
    <3>2. d \in X /\ d \notin Y
      BY <1>1, <1>5, <1>6
    <3> QED BY <3>1, <3>2
  <2> QED BY <1>4, <2>1, <2>2 DEF StrictSubsetOrdering
<1>7. \A e \in days : e <= d
  BY <1>1, <1>6
<1> QED BY <1>7 DEF Latest

\* What the provider answers with, and what is admitted of it, are rows.
LEMMA FetchedRows ==
  ASSUME NEW days \in SUBSET Days, NEW admitted \in Eligibility
  PROVE  /\ ExchangeDays(days) \in SUBSET Rows
         /\ AdmittedRows(ExchangeDays(days), admitted) \in SUBSET Rows
<1>1. ExchangeDays(days) \in SUBSET Rows
  BY DEF ExchangeDays, Rows
<1> QED BY <1>1 DEF AdmittedRows

\* Whoever is eligible has the history the floor asks for.
LEMMA EligibleHasHistory ==
  ASSUME NEW rows, NEW t \in EligibleUniverse(rows)
  PROVE  t \in Tickers /\ Cardinality(DaysWith(rows, t)) >= History
BY DEF EligibleUniverse, PassesFloor

LEMMA EligibleTyped ==
  ASSUME NEW rows
  PROVE  EligibleUniverse(rows) \in Eligibility /\ EligibleUniverse(rows) # NotEnforced
<1>1. EligibleUniverse(rows) \in SUBSET Tickers
  BY DEF EligibleUniverse
<1> QED BY <1>1, StoreAssumption DEF Eligibility

-----------------------------------------------------------------------------
(* Type correctness *)

LEMMA BeginTyped ==
  ASSUME StoreTypeOK, NEW j \in Jobs, NEW kind \in JobKinds,
         NEW stage \in {"fetch", "panel", "eligibility"}, NEW rows \in SUBSET Rows,
         NEW days \in SUBSET Days, NEW admitted \in Eligibility,
         Begin(j, kind, stage, rows, days, admitted)
  PROVE  jobs' \in [Jobs -> Job]
<1> DEFINE new == [kind |-> kind, stage |-> stage, rows |-> rows, days |-> days,
                   admitted |-> admitted]
<1>1. new \in Job
  BY DEF Job
<1>2. jobs' = [jobs EXCEPT ![j] = new]
  BY DEF Begin
<1> HIDE DEF new
<1> QED BY <1>1, <1>2 DEF StoreTypeOK

LEMMA EndTyped ==
  ASSUME StoreTypeOK, NEW j \in Jobs, End(j)
  PROVE  jobs' \in [Jobs -> Job]
<1>1. NoJob \in Job
  BY DEF NoJob, Job, Eligibility
<1> QED BY <1>1 DEF End, StoreTypeOK

LEMMA StageTyped ==
  ASSUME StoreTypeOK, NEW j \in Jobs, NEW stage \in {"panel", "eligibility", "universe"},
         jobs' = [jobs EXCEPT ![j].stage = stage]
  PROVE  jobs' \in [Jobs -> Job]
<1>1. [jobs[j] EXCEPT !.stage = stage] \in Job
  BY DEF StoreTypeOK, Job
<1>2. jobs' = [jobs EXCEPT ![j] = [jobs[j] EXCEPT !.stage = stage]]
  OBVIOUS
<1> QED BY <1>1, <1>2 DEF StoreTypeOK

LEMMA JobFields ==
  ASSUME StoreTypeOK, NEW j \in Jobs
  PROVE  /\ jobs[j].rows \in SUBSET Rows /\ jobs[j].days \in SUBSET Days
         /\ jobs[j].admitted \in Eligibility /\ jobs[j].kind \in JobKinds \union {"none"}
BY DEF StoreTypeOK, Job

LEMMA NextTyped == StoreTypeOK /\ [Next]_vars => StoreTypeOK'
<1> SUFFICES ASSUME StoreTypeOK, [Next]_vars PROVE StoreTypeOK'
  OBVIOUS
<1> USE DEF Outside, Store
<1>1. CASE NextDay
  BY <1>1, StoreAssumption DEF NextDay, StoreTypeOK
<1>2. CASE Publish
  BY <1>2, StoreAssumption DEF Publish, StoreTypeOK
<1>3. ASSUME NEW j \in Jobs, StartNightly(j) PROVE StoreTypeOK'
  <2>1. {today - 1} \in SUBSET Days /\ panel \in SUBSET Rows /\ NotEnforced \in Eligibility
    BY <1>3, StoreAssumption DEF StartNightly, StoreTypeOK, Days, Eligibility
  <2>2. jobs' \in [Jobs -> Job]
    BY <1>3, <2>1, BeginTyped DEF StartNightly
  <2> QED BY <1>3, <2>2 DEF StartNightly, StoreTypeOK
<1>4. ASSUME NEW j \in Jobs, StartCatchUp(j) PROVE StoreTypeOK'
  <2> DEFINE missing == AsOf(panel) + 1 .. today - 1
  <2>1. missing \in SUBSET Days
    <3>1. AsOf(panel) \in Days
      <4>1. DaysOf(panel) \in SUBSET Days /\ DaysOf(panel) # {}
        BY <1>4 DEF StartCatchUp, StoreTypeOK, DaysOf, Rows
      <4> QED BY <4>1, LatestThere DEF AsOf
    <3> QED BY <3>1, StoreAssumption DEF StoreTypeOK, Days
  <2>2. panel \in SUBSET Rows /\ NotEnforced \in Eligibility
    BY DEF StoreTypeOK, Eligibility
  <2>3. "catch_up" \in JobKinds /\ Begin(j, "catch_up", "fetch", panel, missing, NotEnforced)
    BY <1>4 DEF StartCatchUp
  <2> HIDE DEF missing
  <2>4. jobs' \in [Jobs -> Job]
    BY <2>1, <2>2, <2>3, BeginTyped
  <2> QED BY <1>4, <2>4 DEF StartCatchUp, StoreTypeOK
<1>5. ASSUME NEW j \in Jobs, Fetch(j) PROVE StoreTypeOK'
  <2> DEFINE incoming == AdmittedRows(ExchangeDays(jobs[j].days), eligible)
             merged == MergePanel(jobs[j].rows, incoming)
  <2>1. jobs[j].kind \in JobKinds /\ eligible \in Eligibility
    BY <1>5, JobFields DEF Fetch, At, StoreTypeOK
  <2>2. incoming \in SUBSET Rows
    BY <2>1, JobFields, FetchedRows
  <2>3. merged \in SUBSET Rows
    BY <2>2, JobFields, MergeRows
  <2>4. End(j) \/ Begin(j, jobs[j].kind, "panel", merged, jobs[j].days, eligible)
    BY <1>5 DEF Fetch
  <2> HIDE DEF merged
  <2>5. jobs' \in [Jobs -> Job]
    BY <2>1, <2>3, <2>4, JobFields, EndTyped, BeginTyped
  <2> QED BY <1>5, <2>5 DEF Fetch, StoreTypeOK
<1>6. ASSUME NEW j \in Jobs, FailJob(j) PROVE StoreTypeOK'
  BY <1>6, EndTyped DEF FailJob, StoreTypeOK
<1>7. ASSUME NEW j \in Jobs, PutPanel(j) PROVE StoreTypeOK'
  <2>1. jobs' \in [Jobs -> Job]
    BY <1>7, EndTyped, StageTyped DEF PutPanel
  <2> QED BY <1>7, <2>1, JobFields DEF PutPanel, StoreTypeOK
<1>8. ASSUME NEW j \in Jobs, RefreshEligibility(j) PROVE StoreTypeOK'
  BY <1>8, EndTyped, EligibleTyped DEF RefreshEligibility, StoreTypeOK
<1>9. ASSUME NEW j \in Jobs, StartEnforce(j) PROVE StoreTypeOK'
  <2> DEFINE survivors == EligibleUniverse(panel)
             kept == {row \in panel : row[1] \in survivors}
  <2>1. survivors \in Eligibility /\ kept \in SUBSET Rows /\ {} \in SUBSET Days
    BY EligibleTyped DEF StoreTypeOK
  <2>2. "enforce" \in JobKinds /\ Begin(j, "enforce", "panel", kept, {}, survivors)
    BY <1>9 DEF StartEnforce
  <2> HIDE DEF survivors, kept
  <2>3. jobs' \in [Jobs -> Job]
    BY <2>1, <2>2, BeginTyped
  <2> QED BY <1>9, <2>3 DEF StartEnforce, StoreTypeOK
<1>10. ASSUME NEW j \in Jobs, EnforcePut(j) PROVE StoreTypeOK'
  <2>1. jobs' \in [Jobs -> Job]
    BY <1>10, EndTyped, StageTyped DEF EnforcePut
  <2> QED BY <1>10, <2>1, JobFields DEF EnforcePut, StoreTypeOK
<1>11. ASSUME NEW j \in Jobs, NEW reached \in SUBSET Tickers, NEW enforced \in BOOLEAN,
              StartBackfill(j, reached, enforced)
       PROVE  StoreTypeOK'
  <2> DEFINE fetched == {row \in ExchangeDays(1..today - 1) : row[1] \in reached}
             survivors == EligibleUniverse(fetched)
             kept == IF enforced THEN AdmittedRows(fetched, survivors) ELSE fetched
             stage == IF enforced THEN "eligibility" ELSE "panel"
             admitted == IF enforced THEN survivors ELSE NotEnforced
  <2>1. "backfill" \in JobKinds /\ Begin(j, "backfill", stage, kept, {}, admitted)
    BY <1>11 DEF StartBackfill
  <2>2. 1..today - 1 \in SUBSET Days
    BY StoreAssumption DEF StoreTypeOK, Days
  <2>3. fetched \in SUBSET Rows
    BY <2>2 DEF ExchangeDays, Rows
  <2>4. survivors \in Eligibility
    BY EligibleTyped
  <2>5. kept \in SUBSET Rows
    BY <2>3 DEF AdmittedRows
  <2>6. admitted \in Eligibility /\ stage \in {"panel", "eligibility"} /\ {} \in SUBSET Days
    BY <2>4 DEF Eligibility
  <2> HIDE DEF kept, admitted, stage
  <2>7. jobs' \in [Jobs -> Job]
    BY <2>1, <2>5, <2>6, BeginTyped
  <2> QED BY <1>11, <2>7 DEF StartBackfill, StoreTypeOK
<1>12. ASSUME NEW j \in Jobs, BackfillPut(j) PROVE StoreTypeOK'
  <2>1. jobs' \in [Jobs -> Job]
    BY <1>12, EndTyped, StageTyped DEF BackfillPut
  <2> QED BY <1>12, <2>1, JobFields DEF BackfillPut, StoreTypeOK
<1>13. CASE UNCHANGED vars
  BY <1>13 DEF vars, StoreTypeOK
<1> QED BY <1>1, <1>2, <1>3, <1>4, <1>5, <1>6, <1>7, <1>8, <1>9, <1>10, <1>11, <1>12, <1>13
        DEF Next, Step

-----------------------------------------------------------------------------
(* The invariant *)

\* Until it writes, an append holds the panel of the store, or that panel and
\* what it appends; once it has written, the panel of the store is its own.
HeldRows ==
  \A j \in Jobs :
    /\ At(j, {"nightly", "catch_up"}, "fetch") => jobs[j].rows = panel
    /\ At(j, {"nightly", "catch_up"}, "panel") => panel \subseteq jobs[j].rows
    /\ At(j, {"nightly", "catch_up"}, "eligibility") => jobs[j].rows = panel

StoreInv == StoreTypeOK /\ HeldRows

\* While some other job runs there is none to step.
LEMMA Alone ==
  ASSUME OneJobAtATime, NEW j \in Jobs,
         /\ At(j, {"nightly", "catch_up"}, "fetch")' => jobs'[j].rows = panel'
         /\ At(j, {"nightly", "catch_up"}, "panel")' => panel' \subseteq jobs'[j].rows
         /\ At(j, {"nightly", "catch_up"}, "eligibility")' => jobs'[j].rows = panel'
  PROVE  HeldRows'
BY DEF OneJobAtATime, HeldRows

\* A job that has just begun, or ended.
LEMMA BegunHolds ==
  ASSUME OneJobAtATime, StoreTypeOK, NEW j \in Jobs, NEW kind, NEW stage, NEW rows, NEW days,
         NEW admitted, Begin(j, kind, stage, rows, days, admitted),
         kind \in {"nightly", "catch_up"} =>
           \/ stage = "fetch" /\ rows = panel'
           \/ stage = "panel" /\ panel' \subseteq rows
  PROVE  HeldRows'
<1>1. jobs'[j] = [kind |-> kind, stage |-> stage, rows |-> rows, days |-> days,
                  admitted |-> admitted]
  BY DEF Begin, StoreTypeOK
<1>2. jobs'[j].kind = kind /\ jobs'[j].stage = stage /\ jobs'[j].rows = rows
  BY <1>1
<1> QED BY <1>2, Alone DEF At

LEMMA EndedHolds ==
  ASSUME OneJobAtATime, StoreTypeOK, NEW j \in Jobs, End(j)
  PROVE  HeldRows'
<1>1. jobs'[j].kind = "none"
  BY DEF End, NoJob, StoreTypeOK
<1> QED BY <1>1, Alone DEF At

\* A job that goes on to its next object.
LEMMA AdvancedHolds ==
  ASSUME OneJobAtATime, StoreTypeOK, NEW j \in Jobs, NEW stage,
         jobs' = [jobs EXCEPT ![j].stage = stage],
         jobs[j].kind \in {"nightly", "catch_up"} => stage = "eligibility" /\ panel' = jobs[j].rows
  PROVE  HeldRows'
<1>1. jobs'[j].kind = jobs[j].kind /\ jobs'[j].stage = stage /\ jobs'[j].rows = jobs[j].rows
  BY DEF StoreTypeOK, Job
<1> QED BY <1>1, Alone DEF At

LEMMA NextHeld ==
  ASSUME OneJobAtATime, StoreInv, [Next]_vars
  PROVE  HeldRows'
<1> USE DEF Outside, Store
<1>1. CASE UNCHANGED <<panel, jobs>>
  BY <1>1 DEF StoreInv, HeldRows, At
<1>2. ASSUME NEW j \in Jobs, StartNightly(j) PROVE HeldRows'
  BY <1>2, BegunHolds DEF StartNightly, StoreInv
<1>3. ASSUME NEW j \in Jobs, StartCatchUp(j) PROVE HeldRows'
  <2> DEFINE missing == AsOf(panel) + 1 .. today - 1
  <2>1. Begin(j, "catch_up", "fetch", panel, missing, NotEnforced) /\ panel' = panel
    BY <1>3 DEF StartCatchUp
  <2> HIDE DEF missing
  <2> QED BY <2>1, BegunHolds DEF StoreInv
<1>4. ASSUME NEW j \in Jobs, Fetch(j) PROVE HeldRows'
  <2> DEFINE incoming == AdmittedRows(ExchangeDays(jobs[j].days), eligible)
             merged == MergePanel(jobs[j].rows, incoming)
  <2>1. /\ End(j) \/ Begin(j, jobs[j].kind, "panel", merged, jobs[j].days, eligible)
        /\ panel' = panel /\ jobs[j].rows = panel
    BY <1>4 DEF Fetch, StoreInv, HeldRows
  <2>2. panel' \subseteq merged
    BY <2>1 DEF MergePanel
  <2> HIDE DEF merged
  <2> QED BY <2>1, <2>2, BegunHolds, EndedHolds DEF StoreInv
<1>5. ASSUME NEW j \in Jobs, FailJob(j) \/ RefreshEligibility(j) PROVE HeldRows'
  BY <1>5, EndedHolds DEF FailJob, RefreshEligibility, StoreInv
<1>6. ASSUME NEW j \in Jobs, PutPanel(j) PROVE HeldRows'
  BY <1>6, EndedHolds, AdvancedHolds DEF PutPanel, StoreInv
<1>7. ASSUME NEW j \in Jobs, StartEnforce(j) PROVE HeldRows'
  <2> DEFINE survivors == EligibleUniverse(panel)
             kept == {row \in panel : row[1] \in survivors}
  <2>1. Begin(j, "enforce", "panel", kept, {}, survivors)
    BY <1>7 DEF StartEnforce
  <2> HIDE DEF survivors, kept
  <2> QED BY <2>1, BegunHolds DEF StoreInv
<1>8. ASSUME NEW j \in Jobs, EnforcePut(j) \/ BackfillPut(j) PROVE HeldRows'
  <2>1. jobs[j].kind \in {"enforce", "backfill"}
    BY <1>8 DEF EnforcePut, BackfillPut, At
  <2>2. End(j) \/ \E stage : jobs' = [jobs EXCEPT ![j].stage = stage]
    BY <1>8 DEF EnforcePut, BackfillPut
  <2> QED BY <2>1, <2>2, EndedHolds, AdvancedHolds DEF StoreInv
<1>9. ASSUME NEW j \in Jobs, NEW reached, NEW enforced, StartBackfill(j, reached, enforced)
      PROVE  HeldRows'
  <2>1. \E stage, rows, admitted : Begin(j, "backfill", stage, rows, {}, admitted)
    BY <1>9 DEF StartBackfill
  <2> QED BY <2>1, BegunHolds DEF StoreInv
<1> QED BY <1>1, <1>2, <1>3, <1>4, <1>5, <1>6, <1>7, <1>8, <1>9
        DEF Next, Step, NextDay, Publish, vars

LEMMA StoreInvariant ==
  ASSUME OneJobAtATime
  PROVE  Spec => []StoreInv
<1>1. Init => StoreInv
  <2> SUFFICES ASSUME Init PROVE StoreInv
    OBVIOUS
  <2>1. NoJob \in Job
    BY DEF NoJob, Job, Eligibility
  <2>2. StoreTypeOK
    BY <2>1, StoreAssumption DEF Init, StoreTypeOK, Eligibility
  <2>3. HeldRows
    BY DEF Init, HeldRows, At, NoJob
  <2> QED BY <2>2, <2>3 DEF StoreInv
<1>2. StoreInv /\ [Next]_vars => StoreInv'
  BY NextTyped, NextHeld DEF StoreInv
<1> QED BY <1>1, <1>2, PTL DEF Spec

-----------------------------------------------------------------------------
(* The theorems *)

\* Whatever the nights before admitted, whatever failed and was retried, an
\* append leaves every bar the store held.
THEOREM NoBarIsLost ==
  ASSUME OneJobAtATime
  PROVE  Spec => AppendsKeepRows
<1>1. StoreInv /\ [Next]_vars =>
        [(\A j \in Jobs : ~At(j, {"enforce", "backfill"}, "panel")) => panel \subseteq panel']_vars
  <2> SUFFICES ASSUME StoreInv, Next, \A j \in Jobs : ~At(j, {"enforce", "backfill"}, "panel")
               PROVE  panel \subseteq panel'
    OBVIOUS
  <2>1. CASE UNCHANGED panel
    BY <2>1
  <2>2. ASSUME NEW j \in Jobs, PutPanel(j) PROVE panel \subseteq panel'
    BY <2>2 DEF PutPanel, StoreInv, HeldRows
  <2>3. ASSUME NEW j \in Jobs, EnforcePut(j) \/ BackfillPut(j) PROVE panel \subseteq panel'
    BY <2>3 DEF EnforcePut, BackfillPut, At
  <2> QED BY <2>1, <2>2, <2>3
          DEF Next, Step, NextDay, Publish, StartNightly, StartCatchUp, StartEnforce, StartBackfill,
              Fetch, FailJob, RefreshEligibility, Outside, Store
<1> QED BY <1>1, StoreInvariant, PTL DEF Spec, AppendsKeepRows

\* The eligible set a nightly refresh leaves is what the panel of the store
\* measures to, and whoever it promotes has the history there.
THEOREM EligibleAsMeasured ==
  ASSUME OneJobAtATime
  PROVE  Spec => EligibilityHolds
<1>1. StoreInv /\ [Next]_vars => [PromotionsAreResident /\ EligibleIsMeasured]_vars
  <2> SUFFICES ASSUME StoreInv, Next, NEW j \in Jobs,
                      At(j, {"nightly", "catch_up"}, "eligibility"), eligible' # eligible
               PROVE  /\ \A t \in eligible' : Cardinality(DaysWith(panel, t)) >= History
                      /\ eligible' = {t \in Tickers : PassesFloor(panel, t)}
    BY DEF PromotionsAreResident, EligibleIsMeasured
  <2>1. \A i \in Jobs : i = j
    BY DEF OneJobAtATime
  <2>2. jobs[j].rows = panel /\ jobs[j].kind \in {"nightly", "catch_up"}
    BY DEF StoreInv, HeldRows, At
  <2>3. RefreshEligibility(j)
    BY <2>1, <2>2
       DEF Next, Step, NextDay, Publish, StartNightly, StartCatchUp, StartEnforce, StartBackfill,
           Fetch, FailJob, PutPanel, EnforcePut, BackfillPut, At, Outside, Store
  <2>4. eligible' = EligibleUniverse(panel)
    BY <2>2, <2>3 DEF RefreshEligibility
  <2>5. \A t \in eligible' : Cardinality(DaysWith(panel, t)) >= History
    BY <2>4, EligibleHasHistory
  <2> QED BY <2>4, <2>5 DEF EligibleUniverse
<1> QED BY <1>1, StoreInvariant, PTL DEF Spec, EligibilityHolds

=============================================================================
