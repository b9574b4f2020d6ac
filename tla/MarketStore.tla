----------------------------- MODULE MarketStore -----------------------------
(***************************************************************************)
(* The stored price panel of the backend and the jobs that write it:       *)
(* append_daily_delta.py (nightly and catch-up), enforce_universe_floor.py *)
(* and backfill_panel.py, over an object store that replaces one object at *)
(* a time (panel.parquet, universe_eligibility.csv, universe.csv).         *)
(*                                                                         *)
(* A job reads the panel, asks the provider, and writes its objects one by *)
(* one; it may fail while it asks and the process may die between writes.  *)
(* A row is a ticker and a day: what the provider says of a day never      *)
(* changes, so the values of a row are those of `market`.                  *)
(***************************************************************************)
EXTENDS Integers, FiniteSets

CONSTANTS
  Tickers,
  Markets,       \* bound: the histories tried, functions Tickers -> Days -> Bars
  Jobs,          \* processes that may run a job: the cron job is one
  JobKinds,      \* the jobs that are run
  Window,        \* DOLLAR_VOLUME_WINDOW_SESSIONS
  History,       \* HISTORY_FLOOR_SESSIONS
  MaxDay,        \* bound: sessions
  NotEnforced    \* no universe_eligibility.csv in the store: a set no tickers make

Days == 1..MaxDay

\* What a day holds of a ticker: nothing (a holiday, not listed), dollar
\* volume below the floor, above it at a price below PRICE_FLOOR_USD, or
\* above both. A liquid day trades at least twice the floor, so the median of
\* an even number of days clears it when half of them do.
Bars == {"none", "thin", "penny", "liquid"}

ASSUME StoreAssumption ==
  /\ Markets \subseteq [Tickers -> [Days -> Bars]]
  /\ JobKinds \subseteq {"nightly", "catch_up", "enforce", "backfill"}
  /\ Window \in Nat \ {0} /\ History \in Nat \ {0} /\ MaxDay \in Nat \ {0}
  /\ NotEnforced \notin SUBSET Tickers

VARIABLES
  market,     \* what the provider says, the same at every call
  published,  \* the last session the provider answers for
  today,      \* the running session
  panel,      \* panel.parquet: its rows, {} before the first backfill
  eligible,   \* universe_eligibility.csv
  universe,   \* universe.csv: the tickers with metadata
  jobs        \* the running jobs and what they hold in memory

vars == <<market, published, today, panel, eligible, universe, jobs>>

Rows == Tickers \X Days
Eligibility == (SUBSET Tickers) \union {NotEnforced}

NoJob == [kind |-> "none", stage |-> "idle", rows |-> {}, days |-> {}, admitted |-> NotEnforced]

\* `rows` is the panel the job read and then the one it writes, `admitted`
\* the eligible set it read or computed.
Job == [kind : JobKinds \union {"none"}, stage : {"idle", "fetch", "panel", "eligibility", "universe"},
        rows : SUBSET Rows, days : SUBSET Days, admitted : Eligibility]

StoreTypeOK ==
  /\ market \in Markets /\ published \in 0..MaxDay /\ today \in 1..MaxDay + 1
  /\ panel \in SUBSET Rows
  /\ eligible \in Eligibility /\ universe \in SUBSET Tickers
  /\ jobs \in [Jobs -> Job]

-----------------------------------------------------------------------------
(* The rows of a panel and the floor *)

DaysOf(rows) == {row[2] : row \in rows}
DaysWith(rows, t) == {d \in Days : <<t, d>> \in rows}
Latest(days) == CHOOSE d \in days : \A e \in days : e <= d

\* panel_status: as_of is the last date of the panel.
AsOf(rows) == Latest(DaysOf(rows))

\* The last `Window` dates of the whole panel, not of one ticker.
RecentWindow(rows) ==
  {d \in DaysOf(rows) : Cardinality({e \in DaysOf(rows) : e > d}) < Window}

\* passes_floor. A ticker with no row in the window has no median.
PassesFloor(rows, t) ==
  LET recent == DaysWith(rows, t) \intersect RecentWindow(rows)
      above == {d \in recent : market[t][d] \in {"penny", "liquid"}}
  IN  /\ recent # {} /\ 2 * Cardinality(above) >= Cardinality(recent)
      /\ market[t][Latest(DaysWith(rows, t))] # "penny"
      /\ Cardinality(DaysWith(rows, t)) >= History

\* compute_eligible_universe. Variant: it counts the sessions of the panel
\* for every ticker of the panel instead of the ticker's own.
EligibleUniverse_MarketHistory(rows) ==
  {t \in Tickers : LET recent == DaysWith(rows, t) \intersect RecentWindow(rows)
                   IN recent # {} /\ Cardinality(DaysOf(rows)) >= History
                                  /\ \A d \in recent : market[t][d] = "liquid"}
EligibleUniverse(rows) == {t \in Tickers : PassesFloor(rows, t)}

\* fetch_exchange_day: the provider's rows of these days, none for a session
\* it has not published.
ExchangeDays(days) ==
  {row \in Tickers \X {d \in days : d <= published} : market[row[1]][row[2]] # "none"}

\* The gate on admission: the previous refresh's eligible set.
AdmittedRows(rows, admitted) ==
  IF admitted = NotEnforced THEN rows ELSE {row \in rows : row[1] \in admitted}

\* merge_panel_parquet: an incoming row replaces the one of its ticker and
\* day. Variant: the sessions that come in are cleared first.
MergePanel_WholeSessions(rows, incoming) ==
  {row \in rows : row[2] \notin DaysOf(incoming)} \union incoming
MergePanel(rows, incoming) == rows \union incoming

-----------------------------------------------------------------------------
(* Jobs *)

Idle(j) == jobs[j].stage = "idle"
At(j, kinds, stage) == jobs[j].kind \in kinds /\ jobs[j].stage = stage
End(j) == jobs' = [jobs EXCEPT ![j] = NoJob]
Begin(j, kind, stage, rows, days, admitted) ==
  jobs' = [jobs EXCEPT ![j] =
    [kind |-> kind, stage |-> stage, rows |-> rows, days |-> days, admitted |-> admitted]]

Outside == <<market, published, today>>
Store == <<panel, eligible, universe>>

\* append_daily_delta: the session before today. Without a panel the job
\* raises.
StartNightly(j) ==
  /\ "nightly" \in JobKinds /\ Idle(j) /\ panel # {} /\ today > 1
  /\ Begin(j, "nightly", "fetch", panel, {today - 1}, NotEnforced)
  /\ UNCHANGED <<Outside, Store>>

\* catch_up_sessions: every session after the panel's as-of date.
StartCatchUp(j) ==
  /\ "catch_up" \in JobKinds /\ Idle(j) /\ panel # {}
  /\ Begin(j, "catch_up", "fetch", panel, AsOf(panel) + 1 .. today - 1, NotEnforced)
  /\ UNCHANGED <<Outside, Store>>

\* _apply up to the merge. With nothing to append the job ends here; the
\* eligible set is read after the provider has answered. Variant: bars the
\* panel holds already are not appended again.
Fetch_KnownBars(j) ==
  LET admitted == AdmittedRows(ExchangeDays(jobs[j].days), eligible)
  IN  /\ At(j, {"nightly", "catch_up"}, "fetch")
      /\ IF admitted \subseteq jobs[j].rows THEN End(j)
         ELSE Begin(j, jobs[j].kind, "panel", MergePanel(jobs[j].rows, admitted),
                    jobs[j].days, eligible)
      /\ UNCHANGED <<Outside, Store>>
Fetch(j) ==
  LET admitted == AdmittedRows(ExchangeDays(jobs[j].days), eligible)
  IN  /\ At(j, {"nightly", "catch_up"}, "fetch")
      /\ IF admitted = {} THEN End(j)
         ELSE Begin(j, jobs[j].kind, "panel", MergePanel(jobs[j].rows, admitted),
                    jobs[j].days, eligible)
      /\ UNCHANGED <<Outside, Store>>

\* A session that cannot be fetched ends the job; the process may die at any
\* other point too.
FailJob(j) ==
  /\ ~Idle(j) /\ End(j)
  /\ UNCHANGED <<Outside, Store>>

\* put_object(panel). A store that was never enforced is not refreshed.
PutPanel(j) ==
  /\ At(j, {"nightly", "catch_up"}, "panel")
  /\ panel' = jobs[j].rows
  /\ IF jobs[j].admitted = NotEnforced THEN End(j)
     ELSE jobs' = [jobs EXCEPT ![j].stage = "eligibility"]
  /\ UNCHANGED <<Outside, eligible, universe>>

\* _refresh_eligibility, from the panel the job has just written (variant:
\* from the one it had read).
Refresh_Unmerged(j) ==
  /\ At(j, {"nightly", "catch_up"}, "eligibility")
  /\ eligible' = EligibleUniverse({row \in jobs[j].rows : row[2] \notin jobs[j].days})
  /\ End(j)
  /\ UNCHANGED <<Outside, panel, universe>>
RefreshEligibility(j) ==
  /\ At(j, {"nightly", "catch_up"}, "eligibility")
  /\ eligible' = EligibleUniverse(jobs[j].rows)
  /\ End(j)
  /\ UNCHANGED <<Outside, panel, universe>>

\* enforce_universe_floor --apply: the panel, its eligible set, its metadata.
StartEnforce(j) ==
  /\ "enforce" \in JobKinds /\ Idle(j) /\ panel # {}
  /\ LET survivors == EligibleUniverse(panel)
     IN  Begin(j, "enforce", "panel", {row \in panel : row[1] \in survivors}, {}, survivors)
  /\ UNCHANGED <<Outside, Store>>

EnforcePut(j) ==
  /\ \/ /\ At(j, {"enforce"}, "panel")
        /\ panel' = jobs[j].rows
        /\ jobs' = [jobs EXCEPT ![j].stage = "eligibility"]
        /\ UNCHANGED <<eligible, universe>>
     \/ /\ At(j, {"enforce"}, "eligibility")
        /\ eligible' = jobs[j].admitted
        /\ jobs' = [jobs EXCEPT ![j].stage = "universe"]
        /\ UNCHANGED <<panel, universe>>
     \/ /\ At(j, {"enforce"}, "universe")
        /\ universe' = universe \intersect jobs[j].admitted
        /\ End(j)
        /\ UNCHANGED <<panel, eligible>>
  /\ UNCHANGED Outside

\* backfill_panel: every ticker's history, the unreachable ones skipped; with
\* the floor enforced the eligible set is written before the panel.
StartBackfill(j, reached, enforced) ==
  LET fetched == {row \in ExchangeDays(1..today - 1) : row[1] \in reached}
      survivors == EligibleUniverse(fetched)
      kept == IF enforced THEN AdmittedRows(fetched, survivors) ELSE fetched
  IN  /\ "backfill" \in JobKinds /\ Idle(j) /\ kept # {}
      /\ Begin(j, "backfill", IF enforced THEN "eligibility" ELSE "panel", kept, {},
               IF enforced THEN survivors ELSE NotEnforced)
      /\ UNCHANGED <<Outside, Store>>

BackfillPut(j) ==
  /\ \/ /\ At(j, {"backfill"}, "eligibility")
        /\ eligible' = jobs[j].admitted
        /\ jobs' = [jobs EXCEPT ![j].stage = "panel"]
        /\ UNCHANGED panel
     \/ /\ At(j, {"backfill"}, "panel")
        /\ panel' = jobs[j].rows
        /\ End(j)
        /\ UNCHANGED eligible
  /\ UNCHANGED <<Outside, universe>>

NextDay ==
  /\ today <= MaxDay /\ today' = today + 1
  /\ UNCHANGED <<market, published, Store, jobs>>

\* The provider publishes a session some time after its close.
Publish ==
  /\ published < today - 1 /\ published' = published + 1
  /\ UNCHANGED <<market, today, Store, jobs>>

-----------------------------------------------------------------------------
Init ==
  /\ market \in Markets
  /\ published = 0 /\ today = 1
  /\ panel = {} /\ eligible = NotEnforced /\ universe = Tickers
  /\ jobs = [j \in Jobs |-> NoJob]

Step(j) == Fetch(j) \/ PutPanel(j) \/ RefreshEligibility(j) \/ EnforcePut(j) \/ BackfillPut(j)

Next ==
  \/ NextDay \/ Publish
  \/ \E j \in Jobs :
       \/ StartNightly(j) \/ StartCatchUp(j) \/ StartEnforce(j)
       \/ \E reached \in SUBSET Tickers, enforced \in BOOLEAN : StartBackfill(j, reached, enforced)
       \/ Step(j) \/ FailJob(j)

\* What the deployment gives: the cron job starts the nightly run again and
\* again (render.yaml:117), the provider publishes, a job goes on until it
\* ends. Failures do not take every night: of the nightly runs without end
\* some get past the provider and some past each write. A catch-up is owed
\* nothing, nobody schedules it, nor is the next day or another job.
Nightly(j, step) == jobs[j].kind = "nightly" /\ step

Fairness ==
  /\ WF_vars(Publish)
  /\ \A j \in Jobs :
       /\ SF_vars(StartNightly(j)) /\ WF_vars(Step(j)) /\ SF_vars(Nightly(j, Fetch(j)))
       /\ SF_vars(Nightly(j, PutPanel(j))) /\ SF_vars(Nightly(j, RefreshEligibility(j)))

Spec == Init /\ [][Next]_vars
FairSpec == Spec /\ Fairness

-----------------------------------------------------------------------------
(* Properties *)

\* A bar the store holds survives every append, a retried or repeated one
\* included, although the eligible set may have shrunk since it was admitted
\* (merge_panel_parquet replaces rows by ticker and date).
AppendsKeepRows ==
  [][(\A j \in Jobs : ~At(j, {"enforce", "backfill"}, "panel")) => panel \subseteq panel']_vars

\* A ticker the nightly refresh promotes has the history the floor asks for
\* in the panel (diff_eligibility "a ticker never admitted to the panel has
\* no history to prove it clears the floor, so it cannot appear here").
PromotionsAreResident ==
  \A j \in Jobs : At(j, {"nightly", "catch_up"}, "eligibility") /\ eligible' # eligible =>
    \A t \in eligible' : Cardinality(DaysWith(panel, t)) >= History

\* The eligible set a refresh leaves is the one the panel in the store
\* measures to, the bars of the night included: the next night admits by it
\* (_refresh_eligibility "from the panel as it now stands").
EligibleIsMeasured ==
  \A j \in Jobs :
    At(j, {"nightly", "catch_up"}, "eligibility") /\ eligible' # eligible =>
      eligible' = {t \in Tickers : PassesFloor(panel, t)}

\* A refresh promotes only what the panel it leaves shows.
EligibilityHolds == [][PromotionsAreResident /\ EligibleIsMeasured]_vars

\* After a completed catch-up no session is missing before the newest one:
\* of every ticker the store admits, the panel has all that was published
\* since its first row (catch_up_sessions "Append every session the panel is
\* missing", market-data-storage/spec.md "every missing session is added").
CatchUpFillsGaps ==
  [][\A j \in Jobs : At(j, {"catch_up"}, "panel") /\ panel' # panel =>
       \A t \in Tickers, d \in Days :
         /\ eligible = NotEnforced /\ DaysWith(panel, t) # {}
         /\ \E e \in DaysWith(panel, t) : e < d
         /\ d <= AsOf(panel') /\ market[t][d] # "none"
         => <<t, d>> \in panel']_vars

\* After any number of failed nights and dead processes a plain nightly run
\* heals the store: again and again the panel has the newest session and the
\* eligible set is the one it measures to, also when a process died between
\* the two writes and the bars of the session were already there
\* (append_sessions "a retried cron run"). An older session that was missed
\* stays missing: CatchUpFillsGaps. The last day, and any day the clock stays
\* on, stands for the nights that follow.
NightsHealTheStore ==
  []<>( \/ panel = {} \/ today = 1
        \/ AdmittedRows(ExchangeDays({today - 1}), eligible) = {}
        \/ AsOf(panel) = today - 1 /\ eligible \in {NotEnforced, EligibleUniverse(panel)})
=============================================================================
