------------------------------- MODULE Backtests -------------------------------
(***************************************************************************)
(* backtest_screener and get_backtest_results (workbench/backtest) over    *)
(* the job store of the backend (application/backtest_jobs.py,             *)
(* api/routes/backtest.py): calls in flight while the screener is edited,  *)
(* jobs evaluated in the background, finished jobs evicted one by one while*)
(* a reader on another thread may come between, lost responses, page loads *)
(* and restarts of the backend.  Dates, horizons and what an evaluation    *)
(* computes are left out: a result is known by its job.                    *)
(***************************************************************************)
EXTENDS Integers, Sequences, FiniteSets

CONSTANTS
  Callers,        \* calls of backtest_screener that may be open at once
  Keys,           \* idempotency keys
  Criteria,       \* criteria of a universe
  EngineCriteria, \* those the engine has a field for
  UniverseOf,     \* the criteria each revision of the screener sets
  Failing,        \* the revisions the engine raises on
  MAX_STORED_BACKTESTS,
  MaxBacktests    \* bound: jobs one process is given

ASSUME BacktestsAssumption ==
  /\ 1 \in DOMAIN UniverseOf   \* the revision a screener starts with
  /\ EngineCriteria \subseteq Criteria /\ Failing \subseteq DOMAIN UniverseOf
  /\ \A r \in DOMAIN UniverseOf : UniverseOf[r] \subseteq Criteria
  /\ MAX_STORED_BACKTESTS \in Nat
  /\ MaxBacktests \in 0..500   \* MAX_REMEMBERED_EVICTIONS: _evicted forgets none of these

VARIABLES
  screener,   \* its current revision, and those the snapshots still hold
  starting,   \* per caller, the call of backtest_screener it has open
  replays,    \* createBacktestReplayCache: per key, the request and its answer
  answers,    \* what the calls were answered by the process that runs
  jobs,       \* _jobs: the jobs held, by id
  order,      \* their ids in the order of the OrderedDict, the one touched last at the end
  evicted,    \* _evicted
  evicting,   \* finished_ids still to be popped: the event loop is in _evict_if_needed
  lastJob     \* the last id of _seq

backtestVars == <<screener, starting, replays, answers, jobs, order, evicted, evicting, lastJob>>
serverVars == <<jobs, order, evicted, evicting, lastJob>>

Revisions == DOMAIN UniverseOf
Current == 0    \* no screener_revision: the current one
NoKey == "none"
NoCall == [phase |-> "idle", key |-> NoKey, asked |-> Current, revision |-> Current, job |-> 0]
NoReplay == [asked |-> Current, job |-> 0]
BacktestIds == 1..MaxBacktests
Stored == DOMAIN jobs
IsRunning(j) == j.status \in {"created", "running"}

\* translateUniverse: the criteria the engine has no field for.
DroppedCriteria(revision) == UniverseOf[revision] \ EngineCriteria

-----------------------------------------------------------------------------
(* The job store *)

\* move_to_end
Touched(id) == SelectSeq(order, LAMBDA i : i # id) \o <<id>>

WithStatus(id, status) == [jobs EXCEPT ![id].status = status]

\* _evict_if_needed, what it makes out before it pops: the finished jobs
\* longest untouched, as many as are too many.
Overdue(held) ==
  LET finished == SelectSeq(order, LAMBDA id : ~IsRunning(held[id]))
  IN  SubSeq(finished, 1, Len(finished) - MAX_STORED_BACKTESTS)

\* The event loop, where jobs are created and evaluated, is not in the middle
\* of an eviction.  Reads are: their route runs on a thread of its own.
LoopIsFree == evicting = <<>>

\* Deleted from _jobs and not yet in _evicted: a reader is told it is unknown.
IsLost(id) == ~LoopIsFree /\ id = Head(evicting) /\ id \notin Stored

-----------------------------------------------------------------------------
(* backtest_screener *)

\* The screener is edited: a revision more, of which a snapshot is kept.
EditScreener ==
  /\ screener.current + 1 \in Revisions
  /\ screener' = [current |-> screener.current + 1,
                  retained |-> screener.retained \union {screener.current + 1}]
  /\ UNCHANGED <<starting, replays, answers, serverVars>>

\* The snapshots of an older revision are pruned.
ForgetRevision(revision) ==
  /\ revision \in screener.retained \ {screener.current}
  /\ screener' = [screener EXCEPT !.retained = @ \ {revision}]
  /\ UNCHANGED <<starting, replays, answers, serverVars>>

\* resolveScreenerRevision: only a retained revision is found.
Resolved(asked) == IF asked = Current THEN screener.current ELSE asked

\* execute, up to the await of the request.  A key whose entry is of another
\* request is taken for an unknown one.
CallBacktest(c, key, asked) ==
  /\ starting[c] = NoCall
  /\ key \in Keys => replays[key].job = 0 \/ replays[key].asked # asked
  /\ Resolved(asked) \in screener.retained
  /\ starting' = [starting EXCEPT ![c] = [phase |-> "sent", key |-> key, asked |-> asked,
                                          revision |-> Resolved(asked), job |-> 0]]
  /\ UNCHANGED <<screener, replays, answers, serverVars>>

\* create: under the next id, last in the order.
CreateJob(job) ==
  /\ lastJob' = lastJob + 1
  /\ jobs' = [id \in Stored \union {lastJob + 1} |-> IF id = lastJob + 1 THEN job ELSE jobs[id]]
  /\ order' = Append(order, lastJob + 1)

\* Variant: the definition is read when the request is made up.
StartBacktest_Reread(c) ==
  /\ starting[c].phase = "sent" /\ lastJob < MaxBacktests /\ LoopIsFree
  /\ LET revision == Resolved(starting[c].asked)
     IN  CreateJob([status |-> "created", revision |-> revision,
                    criteria |-> UniverseOf[revision] \intersect EngineCriteria])
  /\ starting' = [starting EXCEPT ![c].phase = "served", ![c].job = lastJob + 1]
  /\ UNCHANGED <<screener, replays, answers, evicted, evicting>>

\* start_backtest: the job is created and its task scheduled.
StartBacktest(c) ==
  /\ starting[c].phase = "sent" /\ lastJob < MaxBacktests /\ LoopIsFree
  /\ LET revision == starting[c].revision
     IN  CreateJob([status |-> "created", revision |-> revision,
                    criteria |-> UniverseOf[revision] \intersect EngineCriteria])
  /\ starting' = [starting EXCEPT ![c].phase = "served", ![c].job = lastJob + 1]
  /\ UNCHANGED <<screener, replays, answers, evicted, evicting>>

\* execute, from the await on: the answer names the revision and the criteria
\* that were dropped, and is remembered under the key.
AnswerCall(c) ==
  LET call == starting[c]
  IN  /\ call.phase = "served"
      /\ answers' = answers \union {[job |-> call.job, revision |-> call.revision,
                                     dropped |-> DroppedCriteria(call.revision)]}
      /\ replays' = [k \in Keys |-> IF k = call.key THEN [asked |-> call.asked, job |-> call.job]
                                    ELSE replays[k]]
      /\ starting' = [starting EXCEPT ![c] = NoCall]
      /\ UNCHANGED <<screener, serverVars>>

\* The request or its response is lost: the tool fails, nothing is remembered.
LoseCall(c) ==
  /\ starting[c] # NoCall
  /\ starting' = [starting EXCEPT ![c] = NoCall]
  /\ UNCHANGED <<screener, replays, answers, serverVars>>

-----------------------------------------------------------------------------
(* The backend *)

\* _execute, up to its await: the task reads its job, which moves it.
BeginEvaluation(id) ==
  /\ id \in Stored /\ jobs[id].status = "created" /\ LoopIsFree
  /\ jobs' = WithStatus(id, "running") /\ order' = Touched(id)
  /\ UNCHANGED <<screener, starting, replays, answers, evicted, evicting, lastJob>>

\* Variant: a failure of the engine leaves the job as it was.
FinishEvaluation_Swallowed(id) ==
  /\ id \in Stored /\ jobs[id].status = "running" /\ jobs[id].revision \notin Failing /\ LoopIsFree
  /\ jobs' = WithStatus(id, "completed") /\ evicting' = Overdue(jobs')
  /\ UNCHANGED <<screener, starting, replays, answers, order, evicted, lastJob>>

\* complete, or fail when the engine raised, up to the loop that pops.
Outcome(id) == IF jobs[id].revision \in Failing THEN "failed" ELSE "completed"
FinishEvaluation(id) ==
  /\ id \in Stored /\ jobs[id].status = "running" /\ LoopIsFree
  /\ jobs' = WithStatus(id, Outcome(id)) /\ evicting' = Overdue(jobs')
  /\ UNCHANGED <<screener, starting, replays, answers, order, evicted, lastJob>>

\* The same while get_backtest_results moves an entry, of this job or of
\* another, under the comprehension over them: it raises, nothing is evicted.
FinishDisturbed(id, read) ==
  /\ id \in Stored /\ jobs[id].status = "running" /\ LoopIsFree /\ read \in Stored
  /\ jobs' = WithStatus(id, Outcome(id)) /\ order' = Touched(read)
  /\ UNCHANGED <<screener, starting, replays, answers, evicted, evicting, lastJob>>

\* del self._jobs[oldest], whatever has been read since.
DeleteOldest ==
  /\ ~LoopIsFree /\ Head(evicting) \in Stored
  /\ jobs' = [id \in Stored \ {Head(evicting)} |-> jobs[id]]
  /\ order' = SelectSeq(order, LAMBDA id : id # Head(evicting))
  /\ UNCHANGED <<screener, starting, replays, answers, evicted, evicting, lastJob>>

\* self._evicted[oldest] = None, and on to the next.
RememberOldest ==
  /\ ~LoopIsFree /\ Head(evicting) \notin Stored
  /\ evicted' = evicted \union {Head(evicting)} /\ evicting' = Tail(evicting)
  /\ UNCHANGED <<screener, starting, replays, answers, jobs, order, lastJob>>

\* get_backtest_results of a job that is held, at any moment of an eviction (if
\* the job is deleted under it, move_to_end raises and nothing is moved).
ReadBacktest(id) ==
  /\ id \in Stored
  /\ order' = Touched(id)
  /\ UNCHANGED <<screener, starting, replays, answers, jobs, evicted, evicting, lastJob>>

\* The backend restarts: the store is empty and counts from one again.
RestartBackend ==
  /\ lastJob > 0
  /\ jobs' = <<>> /\ order' = <<>> /\ evicted' = {} /\ evicting' = <<>> /\ lastJob' = 0
  /\ answers' = {} /\ starting' = [c \in Callers |-> NoCall]
  /\ UNCHANGED <<screener, replays>>

\* A page load: the replay cache and the open calls are gone.
ReloadBacktests ==
  /\ replays' = [k \in Keys |-> NoReplay]
  /\ starting' = [c \in Callers |-> NoCall]
  /\ UNCHANGED <<screener, answers, serverVars>>

-----------------------------------------------------------------------------
BacktestsInit ==
  /\ screener = [current |-> 1, retained |-> {1}]
  /\ starting = [c \in Callers |-> NoCall] /\ replays = [k \in Keys |-> NoReplay]
  /\ answers = {} /\ jobs = <<>> /\ order = <<>> /\ evicted = {} /\ evicting = <<>> /\ lastJob = 0

BacktestsNext ==
  \/ EditScreener
  \/ \E revision \in Revisions : ForgetRevision(revision)
  \/ \E c \in Callers :
       \/ \E key \in Keys \union {NoKey}, asked \in Revisions \union {Current} :
            CallBacktest(c, key, asked)
       \/ StartBacktest(c) \/ AnswerCall(c) \/ LoseCall(c)
  \/ \E id \in BacktestIds :
       \/ BeginEvaluation(id)
       \/ FinishEvaluation(id)
       \/ \E read \in BacktestIds : FinishDisturbed(id, read)
       \/ ReadBacktest(id)
  \/ DeleteOldest \/ RememberOldest
  \/ RestartBackend \/ ReloadBacktests

\* The event loop runs a task that was created, and the engine, a pass over
\* the days of the request, ends one way or the other; an eviction runs on.
BacktestsFairness ==
  /\ WF_backtestVars(DeleteOldest) /\ WF_backtestVars(RememberOldest)
  /\ \A id \in BacktestIds :
       /\ WF_backtestVars(BeginEvaluation(id))
       /\ WF_backtestVars(FinishEvaluation(id))

BacktestsSpec == BacktestsInit /\ [][BacktestsNext]_backtestVars /\ BacktestsFairness

-----------------------------------------------------------------------------
(* Properties *)

\* An answer is about the job it names for as long as the process lives: the
\* job evaluates the revision that was current, or asked for, when the call
\* was made, whatever was edited or pruned while the request was on its way;
\* each criterion of that revision is applied or was warned about; and the
\* job can be read, or a reader is told that it was evicted, not that it is
\* unknown, but for the one job whose eviction is half done.
AnswersHold ==
  \A a \in answers :
    /\ a.job \in Stored =>
         /\ jobs[a.job].revision = a.revision
         /\ jobs[a.job].criteria \union a.dropped = UniverseOf[a.revision]
    /\ a.job \in Stored \union evicted \/ IsLost(a.job)

\* A job that was started ends, completed or failed, unless the backend does.
BacktestsSettle ==
  \A id \in BacktestIds : (id \in Stored /\ IsRunning(jobs[id])) ~> ~(id \in Stored /\ IsRunning(jobs[id]))
=============================================================================
