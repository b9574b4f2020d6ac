----------------------------- MODULE ScreenerRun -----------------------------
(***************************************************************************)
(* Defining a screener and running it: webmcp/screener/defineScreener.ts   *)
(* and runScreener.ts, screener/runStore.ts and the retention policy of    *)
(* screener/ports.ts, on the write path of WorkspaceRevisions.             *)
(*                                                                         *)
(* Both tools await an answer between what they read and what they write:  *)
(* a call is its start, and later its answer, with every other call, undo  *)
(* and reload in between.  Runs live in memory and are addressed by        *)
(* handles that documents keep.                                            *)
(*                                                                         *)
(* A document holds at most one screener, the one it names, and whether    *)
(* its panels include a results table and which run that is bound to.      *)
(***************************************************************************)
EXTENDS WorkspaceRevisions

CONSTANTS
  Definitions,        \* universe, filter tree and ranking of a screener
  RunKeys,            \* idempotency keys given to run_screener
  MaxScreenerRevision,\* bound: revisions of a screener
  MaxScreeners,       \* bound: screener ids a load may mint
  MaxRuns,            \* bound: run ids a load may mint
  MaxCalls            \* bound: calls in flight

ASSUME ScreenerAssumption ==
  /\ Contents = [screener : 0..MaxScreeners, revision : 0..MaxScreenerRevision,
                 definition : Definitions \union {NoInverse}, table : BOOLEAN, bound : 0..MaxRuns]
  /\ Blank.screener = 0 /\ Blank.revision = 0 /\ Seeded.screener = 0 /\ Seeded.revision = 0
  /\ NoKey \notin RunKeys /\ Tabs # {} /\ 0 \in ExpectedRevisions
  /\ MaxScreenerRevision \in Nat /\ MaxScreeners \in Nat /\ MaxRuns \in Nat /\ MaxCalls \in Nat

VARIABLES
  calls,      \* the calls that wait for an answer
  runs,       \* the run store
  newest,     \* the run stored last, the last key of its Map
  evicted,    \* evictedIds
  replies,    \* the replay cache of run_screener
  minted,     \* the screener and run ids minted in this load
  finished,   \* every run stored in this load: what its handle was given for
  lastRead,   \* what the last read of a run was told
  defined     \* every screener revision a document ever held

runVars == <<calls, runs, newest, evicted, replies, minted, finished, lastRead, defined>>

\* The tab of this model: the run store belongs to one page.
tab == CHOOSE t \in Tabs : TRUE
doc == documents[activeId].content

Run == [run : 1..MaxRuns, screener : Nat, revision : Nat, definition : Definitions]
Fingerprint_Run == [screener : Nat, requested : Nat, expected : Nat]

\* A call holds what it read before it waits. `run` 0 is a define_screener
\* call, `screener` the target it was given (0: the workspace's screener).
Call == [run : 0..MaxRuns, screener : Nat, revision : Nat, definition : Definitions,
         key : RunKeys \union {NoKey}, fingerprint : Fingerprint_Run]

ScreenerTypeOK ==
  /\ calls \in SUBSET Call /\ Cardinality(calls) <= MaxCalls
  /\ runs \in SUBSET Run /\ newest \in 0..MaxRuns /\ evicted \in SUBSET (1..MaxRuns)
  /\ replies \in SUBSET [key : RunKeys, fingerprint : Fingerprint_Run, run : 0..MaxRuns]
  /\ minted \in [screener : 0..MaxScreeners, run : 0..MaxRuns]
  /\ finished \in SUBSET Run
  /\ lastRead \in [run : 0..MaxRuns, reason : {"none", "available", "evicted", "unknown"}]

Ready == phase[tab] = "ready" /\ activeId # 0
NoRead == [run |-> 0, reason |-> "none"]
NoFingerprint == [screener |-> 0, requested |-> 0, expected |-> 0]

\* A change of the active document that is not keyed.
CommitContent(content, inverse) ==
  /\ RecordCommit(tab, activeId, "edit", Unkeyed, content, inverse, ids[tab])
  /\ UNCHANGED <<activeId, phase>>

Begin(call) == Cardinality(calls) < MaxCalls /\ calls' = calls \union {call}
End(call) == calls' = calls \ {call}

-----------------------------------------------------------------------------
(* define_screener *)

\* resolveTarget: an explicit screener the document does not hold is refused.
StartDefine(target, d) ==
  /\ Ready /\ target \in {0, doc.screener}
  /\ Begin([run |-> 0, screener |-> target, revision |-> doc.revision, definition |-> d,
            key |-> NoKey, fingerprint |-> NoFingerprint])
  /\ lastRead' = NoRead
  /\ UNCHANGED <<vars, runs, newest, evicted, replies, minted, finished>>

\* Variant: the revision is counted from the document the precheck read.
CommitDefine_Stale(call) ==
  LET created == doc.screener = 0
      content == [doc EXCEPT !.screener = IF created THEN minted.screener + 1 ELSE @,
                             !.revision = call.revision + 1,
                             !.definition = call.definition]
  IN  /\ Ready /\ call.run = 0 /\ call.screener \in {0, doc.screener}
      /\ call.revision < MaxScreenerRevision /\ (created => minted.screener < MaxScreeners)
      /\ CommitContent(content, doc)
      /\ minted' = [minted EXCEPT !.screener = IF created THEN @ + 1 ELSE @]
      /\ End(call) /\ lastRead' = NoRead
      /\ UNCHANGED <<runs, newest, evicted, replies, finished>>

\* mutateDefinition resolves the target again in the document it is given:
\* the precheck may have waited while it moved. A screener that is gone is
\* created again under a new id, unless the call named it.
CommitDefine(call) ==
  LET created == doc.screener = 0
      content == [doc EXCEPT !.screener = IF created THEN minted.screener + 1 ELSE @,
                             !.revision = @ + 1,
                             !.definition = call.definition]
  IN  /\ Ready /\ call.run = 0 /\ call.screener \in {0, doc.screener}
      /\ doc.revision < MaxScreenerRevision /\ (created => minted.screener < MaxScreeners)
      /\ CommitContent(content, doc)
      /\ minted' = [minted EXCEPT !.screener = IF created THEN @ + 1 ELSE @]
      /\ End(call) /\ lastRead' = NoRead
      /\ UNCHANGED <<runs, newest, evicted, replies, finished>>

\* The precheck finds blocking problems, the named screener is gone, or the
\* port rejects: nothing is stored.
RejectCall(call) ==
  /\ Ready /\ End(call) /\ lastRead' = NoRead
  /\ UNCHANGED <<vars, runs, newest, evicted, replies, minted, finished>>

-----------------------------------------------------------------------------
(* run_screener *)

\* resolveScreenerRevision: the current definition, else the oldest retained
\* snapshot whose screener carries the requested revision.
HoldsRevision(content, s, r) == content.screener = s /\ content.revision = r
Retained(s, r) ==
  {e \in SnapshotsOf(activeId) :
     /\ HoldsRevision(e.content, s, r)
     /\ \A f \in SnapshotsOf(activeId) :
          HoldsRevision(f.content, s, r) => e.revision <= f.revision}
Resolved(s, requested) ==
  IF requested \in {0, doc.revision} THEN {doc}
  ELSE {e.content : e \in Retained(s, requested)}

\* A key that was answered replays its reply; with another fingerprint it is
\* a conflict. The run id is minted before the call waits.
StartRun(s, requested, expected, key) ==
  /\ Ready /\ s # 0 /\ doc.screener = s /\ expected \in {0, documents[activeId].revision}
  /\ \A reply \in replies : reply.key # key
  /\ minted.run < MaxRuns
  /\ \E pinned \in Resolved(s, requested) :
       Begin([run |-> minted.run + 1, screener |-> s, revision |-> pinned.revision,
              definition |-> pinned.definition, key |-> key,
              fingerprint |-> [screener |-> s, requested |-> requested, expected |-> expected]])
  /\ minted' = [minted EXCEPT !.run = @ + 1]
  /\ lastRead' = NoRead
  /\ UNCHANGED <<vars, runs, newest, evicted, replies, finished>>

\* The private replay cache: a later answer for a key replaces the earlier.
RememberRun(call, run) ==
  IF call.key = NoKey THEN replies
  ELSE {reply \in replies : reply.key # call.key}
         \union {[key |-> call.key, fingerprint |-> call.fingerprint, run |-> run]}

Stamp(call) == [run |-> call.run, screener |-> call.screener, revision |-> call.revision,
                definition |-> call.definition]

\* bindRunToResultsPanel: any failure is swallowed.
BindRun(run) ==
  \/ /\ doc.table
     /\ CommitContent([doc EXCEPT !.bound = run], doc)
  \/ /\ ~doc.table \/ ~Accepted(tab, activeId, Unkeyed)
     /\ UNCHANGED vars

\* Variant: the definition is read again when the answer is stored.
CompleteRun_Reread(call) ==
  LET run == [Stamp(call) EXCEPT !.definition = doc.definition]
  IN  /\ Ready /\ call.run # 0 /\ doc.definition # NoInverse
      /\ runs' = runs \union {run} /\ newest' = call.run /\ evicted' = evicted \ {call.run}
      /\ BindRun(call.run)
      /\ replies' = RememberRun(call, call.run)
      /\ finished' = finished \union {run}
      /\ End(call) /\ lastRead' = NoRead
      /\ UNCHANGED minted

\* The port answers with a run: putRun, bind the table, remember.
CompleteRun(call) ==
  /\ Ready /\ call.run # 0
  /\ runs' = runs \union {Stamp(call)} /\ newest' = call.run /\ evicted' = evicted \ {call.run}
  /\ BindRun(call.run)
  /\ replies' = RememberRun(call, call.run)
  /\ finished' = finished \union {Stamp(call)}
  /\ End(call) /\ lastRead' = NoRead
  /\ UNCHANGED minted

\* The port refuses: the minted id is discarded, the answer remembered.
RefuseRun(call) ==
  /\ Ready /\ call.run # 0
  /\ replies' = RememberRun(call, 0)
  /\ End(call) /\ lastRead' = NoRead
  /\ UNCHANGED <<vars, runs, newest, evicted, minted, finished>>

-----------------------------------------------------------------------------
(* The run store *)

RunIds(stored) == {r.run : r \in stored}

\* Variant: the run with the highest id is taken for the one stored last.
Swept_ByRunId == {r \in runs : \A q \in runs : q.run <= r.run}

\* sweep under keepMostRecentRun: all but the run stored last.
Swept == {r \in runs : r.run = newest}

\* Variant: reclaimed ids are not remembered.
ReadRun_Forgets(run) ==
  /\ Ready
  /\ runs' = Swept
  /\ lastRead' = [run |-> run,
                  reason |-> IF run \in RunIds(runs') THEN "available"
                             ELSE IF run \in evicted THEN "evicted" ELSE "unknown"]
  /\ UNCHANGED <<vars, calls, newest, evicted, replies, minted, finished>>

\* getRun: sweep, then say which it is.
ReadRun(run) ==
  /\ Ready
  /\ runs' = Swept
  /\ evicted' = evicted \union (RunIds(runs) \ RunIds(runs'))
  /\ lastRead' = [run |-> run,
                  reason |-> IF run \in RunIds(runs') THEN "available"
                             ELSE IF run \in evicted' THEN "evicted" ELSE "unknown"]
  /\ UNCHANGED <<vars, calls, newest, replies, minted, finished>>

-----------------------------------------------------------------------------
(* The rest of the page *)

\* create_panel and remove_panel of the results table, whose source goes
\* with it.
ToggleTable ==
  /\ Ready
  /\ CommitContent([doc EXCEPT !.table = ~@, !.bound = 0], doc)
  /\ lastRead' = NoRead
  /\ UNCHANGED <<calls, runs, newest, evicted, replies, minted, finished>>

Generic ==
  /\ \/ \E r \in history[tab] : Undo(tab, r)
     \/ \E r \in 1..MaxRevision : RestoreRevision(tab, 0, r, 0, NoKey)
     \/ Boot(tab) \/ Seed(tab)
  /\ lastRead' = NoRead
  /\ UNCHANGED <<calls, runs, newest, evicted, replies, minted, finished>>

ReloadPage ==
  /\ Reload(tab)
  /\ calls' = {} /\ runs' = {} /\ newest' = 0 /\ evicted' = {} /\ replies' = {} /\ finished' = {}
  /\ minted' = [screener |-> 0, run |-> 0] /\ lastRead' = NoRead

Held(content) ==
  [screener |-> content.screener, revision |-> content.revision, definition |-> content.definition]

ScreenerInit ==
  /\ Init
  /\ calls = {} /\ runs = {} /\ newest = 0 /\ evicted = {} /\ replies = {} /\ finished = {}
  /\ minted = [screener |-> 0, run |-> 0] /\ lastRead = NoRead /\ defined = {}

ScreenerNext ==
  /\ \/ \E target \in 0..MaxScreeners, d \in Definitions : StartDefine(target, d)
     \/ \E call \in calls :
          CommitDefine(call) \/ RejectCall(call) \/ CompleteRun(call) \/ RefuseRun(call)
     \/ \E s \in 1..MaxScreeners, requested \in 0..MaxScreenerRevision,
           expected \in ExpectedRevisions, key \in RunKeys \union {NoKey} :
          StartRun(s, requested, expected, key)
     \/ \E run \in 1..MaxRuns : ReadRun(run)
     \/ ToggleTable \/ Generic \/ ReloadPage
  /\ defined' = defined \union {Held(documents'[w].content) : w \in WorkspaceIds}

allVars == <<vars, runVars>>
ScreenerSpec == ScreenerInit /\ [][ScreenerNext]_allVars

-----------------------------------------------------------------------------
(* Properties *)

\* What a run is said to have executed was once stored in the workspace as
\* such: its screener, revision and definition were read together, whatever
\* was edited, undone or restored while it was evaluated (run.ts "Pinned
\* revision").
RunsPinned == \A run \in finished : Held(run) \in defined

\* The run that completed last can always be read: two runs may complete in
\* the other order than they were started, and the store keeps one (ports.ts
\* "exactly one", the one the results table was bound to).
NewestRunHeld == newest # 0 => newest \in RunIds(Swept)

\* A handle given out in this load is never answered as unknown, nor an
\* unknown one as evicted (RunNotAvailable's two reasons).
EvictedIsTold ==
  lastRead.run # 0 => (lastRead.reason = "unknown" <=> lastRead.run \notin RunIds(finished))

\* A handle of a run leads to the run it was given for, or to the truth that
\* the run is gone.
RunsHold == RunsPinned /\ NewestRunHeld /\ EvictedIsTold

\* define_screener moves a screener one revision on from the document it is
\* written to, although it was validated against an earlier one: no edit that
\* landed during the precheck is counted over (mutateDefinition "rather than
\* trusting the pre-check's snapshot").
DefineAdvances ==
  [][\A w \in WorkspaceIds :
       LET before == documents[w].content
           after == documents'[w].content
       IN  answer'.call = "edit" /\ Held(after) # Held(before) =>
             after.revision = (IF after.screener = before.screener THEN before.revision ELSE 0) + 1]_allVars

\* A key that is given again is answered with the run it first started (the
\* tool's description: "a replayed key returns the original run_id without
\* executing a second time").
KeyRunsOnce ==
  [][\A reply \in replies, later \in replies' : reply.key = later.key => reply = later]_allVars
=============================================================================
