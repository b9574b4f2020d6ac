------------------------- MODULE ScreenerRun_proofs -------------------------
(***************************************************************************)
(* Proofs about ScreenerRun, for every number of screeners, revisions,     *)
(* runs and calls in flight.                                               *)
(***************************************************************************)
EXTENDS ScreenerRun, WorkspaceRevisions_proofs

-----------------------------------------------------------------------------
(* The invariant *)

ScreenerTypes ==
  /\ calls \subseteq Call
  /\ minted \in [screener : 0..MaxScreeners, run : 0..MaxRuns]

\* A document without a screener has no screener revision either, and one
\* with a screener has its definition.
GoodScreeners ==
  {c \in Contents : IF c.screener = 0 THEN c.revision = 0 ELSE c.definition \in Definitions}

ScreenersStoredGood == ContentsIn(documents, revisions, history, GoodScreeners)

\* What documents and snapshots hold, and what a run in flight pinned, was a
\* document's screener.
DocumentsDefined ==
  phase[tab] = "loading" \/ \A w \in WorkspaceIds : Held(documents[w].content) \in defined
SnapshotsDefined == \A e \in revisions : Held(e.content) \in defined
CallsDefined == \A call \in calls : call.run # 0 => Held(call) \in defined

\* Every handle given out is held or known to be evicted.
HandlesKnown == RunIds(finished) = RunIds(runs) \union evicted

\* The run stored last is there.
NewestThere == newest # 0 => \E run \in runs : run.run = newest

WriteInv == TypeInv /\ ScreenerTypes /\ ScreenersStoredGood
PinInv == DocumentsDefined /\ SnapshotsDefined /\ CallsDefined /\ RunsPinned
StoreInv == HandlesKnown /\ NewestThere /\ EvictedIsTold
ScreenerInv == WriteInv /\ PinInv /\ StoreInv

LEMMA TabIsATab == tab \in Tabs
BY ScreenerAssumption DEF tab

LEMMA DocTyped ==
  ASSUME WriteInv, Ready
  PROVE  /\ activeId \in WorkspaceIds /\ doc \in Contents /\ doc \in GoodScreeners
         /\ phase[tab] = "ready" /\ ids[tab] \in Counters
<1>1. activeId \in WorkspaceIds
  BY BoundsAssumption DEF Ready, WriteInv, TypeInv, TypeOK, WorkspaceIds
<1> QED BY <1>1, TabIsATab DEF Ready, WriteInv, ScreenersStoredGood, ContentsIn, doc, TypeInv,
        TypeOK, Document, Counters

-----------------------------------------------------------------------------
(* The write path under it *)

\* A commit of a good document keeps the write path's part of the invariant.
LEMMA CommitContentKeeps ==
  ASSUME WriteInv, Ready, NEW content \in GoodScreeners, CommitContent(content, doc)
  PROVE  /\ TypeInv' /\ ScreenersStoredGood' /\ StorageStep
         /\ documents' = [documents EXCEPT ![activeId] =
              [revision |-> documents[activeId].revision + 1, content |-> content]]
<1>1. /\ RecordCommit(tab, activeId, "edit", Unkeyed, content, doc, ids[tab])
      /\ UNCHANGED <<activeId, phase>>
  BY DEF CommitContent
<1>2. /\ activeId \in WorkspaceIds /\ doc \in Contents /\ doc \in GoodScreeners
      /\ phase[tab] = "ready" /\ ids[tab] \in Counters /\ tab \in Tabs
  BY DocTyped, TabIsATab
<1>3. content \in Contents
  BY DEF GoodScreeners
<1>4. Unkeyed \in Requests /\ "edit" \in Calls
  BY BoundsAssumption DEF Unkeyed, Request, Requests, Fingerprint, Kinds, Calls
<1>5. Commit(tab, activeId, "edit", Unkeyed, content, doc, ids[tab])
  BY <1>1 DEF RecordCommit
<1>6. Starting'
  <2>1. Counted(ids[tab], doc) \in Counters
    BY <1>2 DEF Counted, Counters
  <2> QED BY <1>1, <1>2, <1>5, <2>1, StillStarting DEF Commit, WriteInv
<1>7. TypeInv'
  BY <1>1, <1>2, <1>3, <1>4, <1>6, RecordCommitType DEF WriteInv, TypeInv, TypeOK
<1>8. StorageStep
  BY <1>2, <1>3, <1>5, CommitStorage
<1>9. ContentsIn(documents', revisions', history', GoodScreeners)
  BY <1>1, <1>2, <1>3, RecordCommitContents DEF WriteInv, ScreenersStoredGood
<1>10. ScreenersStoredGood'
  BY <1>9 DEF ScreenersStoredGood, GoodScreeners
<1> QED BY <1>5, <1>7, <1>8, <1>10 DEF Commit

LEMMA UnchangedKeeps ==
  ASSUME WriteInv, UNCHANGED vars
  PROVE  TypeInv' /\ ScreenersStoredGood' /\ StorageStep
BY DEF vars, WriteInv, TypeInv, TypeOK, Starting, TokensRestore, ScreenersStoredGood, ContentsIn,
       GoodScreeners, StorageStep

\* Undoing, restoring and loading keep it too.
LEMMA GenericKeeps ==
  ASSUME WriteInv,
         \/ \E r \in history[tab] : Undo(tab, r)
         \/ \E r \in 1..MaxRevision : RestoreRevision(tab, 0, r, 0, NoKey)
         \/ Boot(tab) \/ Seed(tab) \/ Reload(tab)
  PROVE  TypeInv' /\ ScreenersStoredGood' /\ StorageStep
<1>1. tab \in Tabs /\ 0 \in Targets /\ NoKey \in Keys \union {NoKey}
  BY TabIsATab, BoundsAssumption DEF Targets
<1>2. [Next]_vars
  BY <1>1, ScreenerAssumption DEF Next
<1>3. TypeInv' /\ StorageStep
  BY <1>2, NextTypeInv, NextStorage DEF WriteInv
<1>4. Blank \in GoodScreeners /\ Seeded \in GoodScreeners
  BY ContentsAssumption, ScreenerAssumption DEF GoodScreeners
<1>5. ContentsIn(documents', revisions', history', GoodScreeners)
  BY <1>1, <1>4, UndoContents, RestoreContents, LoadContents DEF WriteInv, ScreenersStoredGood
<1> QED BY <1>3, <1>5 DEF ScreenersStoredGood, GoodScreeners

\* A snapshot found after a step was there before, or is of a document found
\* after the step.
LEMMA SnapshotsHeld ==
  ASSUME TypeInv, StorageStep, NEW f \in revisions'
  PROVE  f \in revisions \/ \E w \in WorkspaceIds : f.content = documents'[w].content
<1>1. CASE StorageAdvance
  <2>1. PICK w \in WorkspaceIds, c \in Contents :
          /\ documents' = [documents EXCEPT ![w] =
                             [revision |-> documents[w].revision + 1, content |-> c]]
          /\ revisions' \in
               {revisions, PutRevision(Snapshot(w, documents[w].revision + 1, FALSE, c))}
    BY <1>1 DEF StorageAdvance
  <2> DEFINE new == Snapshot(w, documents[w].revision + 1, FALSE, c)
  <2>2. PutRevision(new) \subseteq revisions \union {new}
    BY PutRevisionKeeps
  <2>3. new.content = c /\ documents'[w].content = c
    BY <2>1 DEF Snapshot, TypeInv, TypeOK
  <2>4. revisions' = revisions \/ revisions' = PutRevision(new)
    BY <2>1
  <2> HIDE DEF new
  <2> QED BY <2>2, <2>3, <2>4
<1>2. CASE StorageName
  <2>1. PICK w \in WorkspaceIds :
          /\ documents' = documents
          /\ revisions' = PutRevision(Snapshot(w, documents[w].revision, TRUE, documents[w].content))
    BY <1>2 DEF StorageName
  <2> DEFINE new == Snapshot(w, documents[w].revision, TRUE, documents[w].content)
  <2>2. PutRevision(new) \subseteq revisions \union {new}
    BY PutRevisionKeeps
  <2>3. new.content = documents'[w].content
    BY <2>1 DEF Snapshot
  <2>4. revisions' = PutRevision(new)
    BY <2>1
  <2> HIDE DEF new
  <2> QED BY <2>2, <2>3, <2>4
<1> QED BY <1>1, <1>2 DEF StorageStep

\* Every step records what the documents then hold; so what a step pins for
\* a run need only come from the documents and snapshots before it, and what
\* it stores for a run from a call.
LEMMA PinsKept ==
  ASSUME TypeInv, PinInv, StorageStep,
         defined' = defined \union {Held(documents'[w].content) : w \in WorkspaceIds},
         \A call \in calls' : call \in calls \/ call.run = 0 \/ Held(call) \in defined,
         \A run \in finished' : run \in finished \/ Held(run) \in defined
  PROVE  PinInv'
<1>1. defined \subseteq defined' /\ \A w \in WorkspaceIds : Held(documents'[w].content) \in defined'
  OBVIOUS
<1>2. \A c, d : c.content = d.content => Held(c.content) = Held(d.content)
  OBVIOUS
<1>3. SnapshotsDefined'
  <2> SUFFICES ASSUME NEW e \in revisions' PROVE Held(e.content) \in defined'
    BY DEF SnapshotsDefined
  <2>1. CASE e \in revisions
    BY <1>1, <2>1 DEF PinInv, SnapshotsDefined
  <2>2. ASSUME NEW w \in WorkspaceIds, e.content = documents'[w].content
        PROVE  Held(e.content) \in defined'
    BY <1>1, <2>2
  <2> QED BY <2>1, <2>2, SnapshotsHeld
<1>4. DocumentsDefined'
  BY <1>1 DEF DocumentsDefined
<1>5. CallsDefined'
  BY <1>1 DEF PinInv, CallsDefined
<1>6. RunsPinned'
  BY <1>1 DEF PinInv, RunsPinned
<1> QED BY <1>3, <1>4, <1>5, <1>6 DEF PinInv

-----------------------------------------------------------------------------
(* The steps *)

\* Changes of a document's content, field by field.
LEMMA DefinitionTyped ==
  ASSUME NEW c \in Contents, NEW s \in 0..MaxScreeners, NEW r \in 0..MaxScreenerRevision,
         NEW d \in Definitions
  PROVE  [c EXCEPT !.screener = s, !.revision = r, !.definition = d] \in Contents
BY ScreenerAssumption

LEMMA BoundTyped ==
  ASSUME NEW c \in GoodScreeners, NEW t \in BOOLEAN, NEW b \in 0..MaxRuns
  PROVE  /\ [c EXCEPT !.bound = b] \in GoodScreeners
         /\ Held([c EXCEPT !.bound = b]) = Held(c)
         /\ [c EXCEPT !.table = t, !.bound = b] \in GoodScreeners
         /\ Held([c EXCEPT !.table = t, !.bound = b]) = Held(c)
<1> DEFINE R == [screener : 0..MaxScreeners, revision : 0..MaxScreenerRevision,
                 definition : Definitions \union {NoInverse}, table : BOOLEAN, bound : 0..MaxRuns]
           one == [c EXCEPT !.bound = b]
           two == [c EXCEPT !.table = t, !.bound = b]
<1>1. c \in R /\ Contents = R
  BY ScreenerAssumption DEF GoodScreeners
<1>2. one \in R /\ two \in R
  BY <1>1
<1>3. /\ one.screener = c.screener /\ one.revision = c.revision /\ one.definition = c.definition
      /\ two.screener = c.screener /\ two.revision = c.revision /\ two.definition = c.definition
  BY <1>1
<1> HIDE DEF one, two, R
<1>4. one \in GoodScreeners /\ two \in GoodScreeners
  BY <1>1, <1>2, <1>3 DEF GoodScreeners
<1>5. Held(one) = Held(c) /\ Held(two) = Held(c)
  BY <1>3 DEF Held
<1> QED BY <1>4, <1>5 DEF one, two

LEMMA TableToggled ==
  ASSUME NEW c \in GoodScreeners
  PROVE  /\ [c EXCEPT !.table = ~@, !.bound = 0] \in GoodScreeners
         /\ Held([c EXCEPT !.table = ~@, !.bound = 0]) = Held(c)
<1>1. (~c.table) \in BOOLEAN /\ 0 \in 0..MaxRuns
  BY ScreenerAssumption
<1>2. [c EXCEPT !.table = ~@, !.bound = 0] = [c EXCEPT !.table = ~c.table, !.bound = 0]
  BY ScreenerAssumption DEF GoodScreeners
<1> QED BY <1>1, <1>2, BoundTyped

\* The screener a define_screener commit leaves, and where it comes from.
Defined(call) ==
  LET created == doc.screener = 0
  IN  [doc EXCEPT !.screener = IF created THEN minted.screener + 1 ELSE @,
                  !.revision = @ + 1,
                  !.definition = call.definition]

LEMMA DefinedGood ==
  ASSUME WriteInv, NEW call \in calls, CommitDefine(call)
  PROVE  /\ Defined(call) \in GoodScreeners /\ CommitContent(Defined(call), doc)
         /\ Defined(call).revision =
              (IF Defined(call).screener = doc.screener THEN doc.revision ELSE 0) + 1
         /\ minted' \in [screener : 0..MaxScreeners, run : 0..MaxRuns]
<1> DEFINE content == Defined(call)
<1>1. doc \in Contents /\ doc \in GoodScreeners /\ call.definition \in Definitions
  BY DocTyped DEF CommitDefine, WriteInv, ScreenerTypes, Call
<1>2. /\ doc.revision < MaxScreenerRevision /\ (doc.screener = 0 => minted.screener < MaxScreeners)
      /\ CommitContent(content, doc)
      /\ minted' = [minted EXCEPT !.screener = IF doc.screener = 0 THEN @ + 1 ELSE @]
  BY DEF CommitDefine, Defined
<1>3. minted \in [screener : 0..MaxScreeners, run : 0..MaxRuns]
  BY DEF WriteInv, ScreenerTypes
<1>4. /\ doc.screener \in 0..MaxScreeners /\ doc.revision \in 0..MaxScreenerRevision
      /\ minted.screener \in 0..MaxScreeners
      /\ MaxScreeners \in Nat /\ MaxScreenerRevision \in Nat
  BY <1>1, <1>3, ScreenerAssumption
<1>5. /\ content.screener = IF doc.screener = 0 THEN minted.screener + 1 ELSE doc.screener
      /\ content.revision = doc.revision + 1
  BY <1>1, ScreenerAssumption DEF Defined
<1>6. content.screener \in 1..MaxScreeners /\ content.revision \in 0..MaxScreenerRevision
  BY <1>2, <1>4, <1>5
<1>7. content \in Contents
  <2>1. content = [doc EXCEPT !.screener = content.screener, !.revision = content.revision,
                              !.definition = call.definition]
    BY <1>1, <1>5, ScreenerAssumption DEF Defined
  <2>2. content.screener \in 0..MaxScreeners
    BY <1>6
  <2> HIDE DEF content
  <2>3. [doc EXCEPT !.screener = content.screener, !.revision = content.revision,
                    !.definition = call.definition] \in Contents
    BY <1>1, <1>6, <2>2, DefinitionTyped
  <2> QED BY <2>1, <2>3
<1>11. content.definition = call.definition
  BY <1>1, ScreenerAssumption DEF Defined
<1> HIDE DEF content
<1>8. content \in GoodScreeners
  BY <1>1, <1>6, <1>7, <1>11 DEF GoodScreeners
<1>9. content.revision = (IF content.screener = doc.screener THEN doc.revision ELSE 0) + 1
  <2>1. CASE doc.screener = 0
    <3>1. doc.revision = 0
      BY <1>1, <2>1 DEF GoodScreeners
    <3> QED BY <1>4, <1>5, <1>6, <2>1, <3>1
  <2>2. CASE doc.screener # 0
    BY <1>5, <2>2
  <2> QED BY <2>1, <2>2
<1>10. minted' \in [screener : 0..MaxScreeners, run : 0..MaxRuns]
  BY <1>2, <1>3, <1>4
<1> QED BY <1>2, <1>8, <1>9, <1>10 DEF content

\* A step that leaves the run store alone, and reads no run.
LEMMA StoreLeft ==
  ASSUME StoreInv, UNCHANGED <<runs, newest, evicted, finished>>, lastRead' = NoRead
  PROVE  StoreInv'
BY DEF StoreInv, HandlesKnown, NewestThere, EvictedIsTold, RunIds, NoRead

\* What one step of define_screener and of run_screener keeps, but for the
\* record of what documents hold.
Recorded_Screeners == defined' = defined \union {Held(documents'[w].content) : w \in WorkspaceIds}

LEMMA StartDefineKeeps ==
  ASSUME ScreenerInv, NEW target \in 0..MaxScreeners, NEW d \in Definitions,
         StartDefine(target, d), Recorded_Screeners
  PROVE  ScreenerInv'
<1> DEFINE call == [run |-> 0, screener |-> target, revision |-> doc.revision, definition |-> d,
                    key |-> NoKey, fingerprint |-> NoFingerprint]
<1>1. /\ Ready /\ calls' = calls \union {call} /\ lastRead' = NoRead
      /\ UNCHANGED vars /\ UNCHANGED <<runs, newest, evicted, replies, minted, finished>>
  BY DEF StartDefine, Begin
<1>2. call \in Call
  <2>1. doc.revision \in Nat /\ target \in Nat
    BY <1>1, DocTyped, ScreenerAssumption DEF ScreenerInv
  <2> QED BY <2>1, ScreenerAssumption DEF Call, Fingerprint_Run, NoFingerprint
<1>3. call.run = 0
  OBVIOUS
<1> HIDE DEF call
<1>4. TypeInv' /\ ScreenersStoredGood' /\ StorageStep
  BY <1>1, UnchangedKeeps DEF ScreenerInv
<1>5. ScreenerTypes'
  BY <1>1, <1>2 DEF ScreenerInv, WriteInv, ScreenerTypes
<1>6. PinInv'
  BY <1>1, <1>3, <1>4, PinsKept DEF Recorded_Screeners, ScreenerInv, WriteInv
<1>7. StoreInv'
  BY <1>1, StoreLeft DEF ScreenerInv
<1> QED BY <1>4, <1>5, <1>6, <1>7 DEF ScreenerInv, WriteInv

LEMMA CommitDefineKeeps ==
  ASSUME ScreenerInv, NEW call \in calls, CommitDefine(call), Recorded_Screeners
  PROVE  ScreenerInv'
<1>1. /\ Ready /\ calls' = calls \ {call} /\ lastRead' = NoRead
      /\ UNCHANGED <<runs, newest, evicted, replies, finished>>
  BY DEF CommitDefine, End
<1>2. /\ Defined(call) \in GoodScreeners /\ CommitContent(Defined(call), doc)
      /\ minted' \in [screener : 0..MaxScreeners, run : 0..MaxRuns]
  BY DefinedGood DEF ScreenerInv
<1>3. TypeInv' /\ ScreenersStoredGood' /\ StorageStep
  BY <1>1, <1>2, CommitContentKeeps DEF ScreenerInv
<1>4. ScreenerTypes'
  BY <1>1, <1>2 DEF ScreenerInv, WriteInv, ScreenerTypes
<1>5. PinInv'
  BY <1>1, <1>3, PinsKept DEF Recorded_Screeners, ScreenerInv, WriteInv
<1>6. StoreInv'
  BY <1>1, StoreLeft DEF ScreenerInv
<1> QED BY <1>3, <1>4, <1>5, <1>6 DEF ScreenerInv, WriteInv

LEMMA RejectedKeeps ==
  ASSUME ScreenerInv, NEW call \in calls, RejectCall(call) \/ RefuseRun(call), Recorded_Screeners
  PROVE  ScreenerInv'
<1>1. /\ calls' = calls \ {call} /\ lastRead' = NoRead
      /\ UNCHANGED vars /\ UNCHANGED <<runs, newest, evicted, minted, finished>>
  BY DEF RejectCall, RefuseRun, End
<1>2. TypeInv' /\ ScreenersStoredGood' /\ StorageStep
  BY <1>1, UnchangedKeeps DEF ScreenerInv
<1>3. ScreenerTypes'
  BY <1>1 DEF ScreenerInv, WriteInv, ScreenerTypes
<1>4. PinInv'
  BY <1>1, <1>2, PinsKept DEF Recorded_Screeners, ScreenerInv, WriteInv
<1>5. StoreInv'
  BY <1>1, StoreLeft DEF ScreenerInv
<1> QED BY <1>2, <1>3, <1>4, <1>5 DEF ScreenerInv, WriteInv

LEMMA StartRunKeeps ==
  ASSUME ScreenerInv, NEW s \in 1..MaxScreeners, NEW requested \in 0..MaxScreenerRevision,
         NEW expected \in ExpectedRevisions, NEW key \in RunKeys \union {NoKey},
         StartRun(s, requested, expected, key), Recorded_Screeners
  PROVE  ScreenerInv'
<1>1. /\ Ready /\ s # 0 /\ doc.screener = s /\ minted.run < MaxRuns /\ lastRead' = NoRead
      /\ minted' = [minted EXCEPT !.run = @ + 1]
      /\ UNCHANGED vars /\ UNCHANGED <<runs, newest, evicted, replies, finished>>
  BY DEF StartRun
<1>2. PICK pinned \in Resolved(s, requested) :
        calls' = calls \union
          {[run |-> minted.run + 1, screener |-> s, revision |-> pinned.revision,
            definition |-> pinned.definition, key |-> key,
            fingerprint |-> [screener |-> s, requested |-> requested, expected |-> expected]]}
  BY DEF StartRun, Begin
<1> DEFINE call == [run |-> minted.run + 1, screener |-> s, revision |-> pinned.revision,
                    definition |-> pinned.definition, key |-> key,
                    fingerprint |-> [screener |-> s, requested |-> requested,
                                     expected |-> expected]]
<1>3. /\ activeId \in WorkspaceIds /\ doc \in GoodScreeners /\ doc = documents[activeId].content
      /\ phase[tab] = "ready"
  BY <1>1, DocTyped DEF ScreenerInv, doc
<1>4. pinned \in GoodScreeners /\ pinned.screener = s /\ Held(pinned) \in defined
  <2>1. CASE pinned = doc
    BY <1>1, <1>3, <2>1 DEF ScreenerInv, PinInv, DocumentsDefined
  <2>2. ASSUME NEW e \in SnapshotsOf(activeId), pinned = e.content, e.content.screener = s
        PROVE  pinned \in GoodScreeners /\ pinned.screener = s /\ Held(pinned) \in defined
    BY <2>2 DEF SnapshotsOf, ScreenerInv, WriteInv, ScreenersStoredGood, ContentsIn, PinInv,
       SnapshotsDefined
  <2> QED BY <1>2, <2>1, <2>2 DEF Resolved, Retained, HoldsRevision
<1>5. minted.run + 1 \in 0..MaxRuns /\ minted \in [screener : 0..MaxScreeners, run : 0..MaxRuns]
  BY <1>1, ScreenerAssumption DEF ScreenerInv, WriteInv, ScreenerTypes
<1>6. Held(call) = Held(pinned)
  BY <1>4 DEF Held
<1>7. call \in Call
  <2>1. pinned.definition \in Definitions /\ pinned \in Contents
    BY <1>1, <1>4 DEF GoodScreeners
  <2>2. pinned.revision \in Nat /\ s \in Nat /\ requested \in Nat /\ expected \in Nat
    BY <2>1, ScreenerAssumption, BoundsAssumption
  <2> QED BY <1>5, <2>1, <2>2 DEF Call, Fingerprint_Run
<1>8. calls' = calls \union {call}
  BY <1>2
<1> HIDE DEF call
<1>9. TypeInv' /\ ScreenersStoredGood' /\ StorageStep
  BY <1>1, UnchangedKeeps DEF ScreenerInv
<1>10. PinInv'
  BY <1>1, <1>4, <1>6, <1>8, <1>9, PinsKept DEF Recorded_Screeners, ScreenerInv, WriteInv
<1>11. StoreInv'
  BY <1>1, StoreLeft DEF ScreenerInv
<1>12. ScreenerTypes'
  BY <1>1, <1>5, <1>7, <1>8 DEF ScreenerInv, WriteInv, ScreenerTypes
<1> QED BY <1>9, <1>10, <1>11, <1>12 DEF ScreenerInv, WriteInv

\* The results table follows the run, or nothing of the workspace changes.
LEMMA BindRunKeeps ==
  ASSUME WriteInv, Ready, NEW run \in 0..MaxRuns, BindRun(run)
  PROVE  /\ TypeInv' /\ ScreenersStoredGood' /\ StorageStep
         /\ \/ UNCHANGED documents
            \/ documents' = [documents EXCEPT ![activeId] =
                 [revision |-> documents[activeId].revision + 1,
                  content |-> [doc EXCEPT !.bound = run]]]
<1>1. CASE UNCHANGED vars
  BY <1>1, UnchangedKeeps DEF vars
<1>2. CASE CommitContent([doc EXCEPT !.bound = run], doc)
  <2>1. [doc EXCEPT !.bound = run] \in GoodScreeners
    BY DocTyped, BoundTyped
  <2> QED BY <1>2, <2>1, CommitContentKeeps
<1> QED BY <1>1, <1>2 DEF BindRun

LEMMA CompleteRunKeeps ==
  ASSUME ScreenerInv, NEW call \in calls, CompleteRun(call), Recorded_Screeners
  PROVE  ScreenerInv'
<1>1. /\ Ready /\ call.run # 0 /\ BindRun(call.run)
      /\ runs' = runs \union {Stamp(call)} /\ newest' = call.run
      /\ evicted' = evicted \ {call.run} /\ finished' = finished \union {Stamp(call)}
      /\ calls' = calls \ {call} /\ lastRead' = NoRead /\ UNCHANGED minted
  BY DEF CompleteRun, End
<1>2. call \in Call /\ call.run \in 0..MaxRuns
  BY DEF ScreenerInv, WriteInv, ScreenerTypes, Call
<1>3. Stamp(call).run = call.run /\ Held(Stamp(call)) = Held(call)
  BY DEF Stamp, Held
<1>4. TypeInv' /\ ScreenersStoredGood' /\ StorageStep
  BY <1>1, <1>2, BindRunKeeps DEF ScreenerInv
<1>5. ScreenerTypes'
  BY <1>1 DEF ScreenerInv, WriteInv, ScreenerTypes
<1>6. Held(Stamp(call)) \in defined
  BY <1>1, <1>3 DEF ScreenerInv, PinInv, CallsDefined
<1>7. PinInv'
  BY <1>1, <1>4, <1>6, PinsKept DEF Recorded_Screeners, ScreenerInv, WriteInv
<1>8. HandlesKnown'
  BY <1>1, <1>3 DEF ScreenerInv, StoreInv, HandlesKnown, RunIds
<1>9. NewestThere' /\ EvictedIsTold'
  BY <1>1, <1>3 DEF NewestThere, EvictedIsTold, NoRead
<1> QED BY <1>4, <1>5, <1>7, <1>8, <1>9 DEF ScreenerInv, WriteInv, StoreInv

LEMMA ReadRunKeeps ==
  ASSUME ScreenerInv, NEW run \in 1..MaxRuns, ReadRun(run), Recorded_Screeners
  PROVE  ScreenerInv'
<1>1. /\ runs' = Swept /\ evicted' = evicted \union (RunIds(runs) \ RunIds(runs'))
      /\ lastRead' = [run |-> run,
                      reason |-> IF run \in RunIds(runs') THEN "available"
                                 ELSE IF run \in evicted' THEN "evicted" ELSE "unknown"]
      /\ UNCHANGED vars /\ UNCHANGED <<calls, newest, minted, finished>>
  BY DEF ReadRun
<1>2. TypeInv' /\ ScreenersStoredGood' /\ StorageStep
  BY <1>1, UnchangedKeeps DEF ScreenerInv
<1>3. ScreenerTypes'
  BY <1>1 DEF ScreenerInv, WriteInv, ScreenerTypes
<1>4. PinInv'
  BY <1>1, <1>2, PinsKept DEF Recorded_Screeners, ScreenerInv, WriteInv
<1>5. RunIds(runs') \subseteq RunIds(runs)
  BY <1>1 DEF Swept, RunIds
<1>6. HandlesKnown'
  <2>1. RunIds(finished') = RunIds(runs') \union evicted'
    BY <1>1, <1>5 DEF ScreenerInv, StoreInv, HandlesKnown, RunIds
  <2> QED BY <2>1 DEF HandlesKnown, RunIds
<1>7. NewestThere'
  BY <1>1 DEF ScreenerInv, StoreInv, NewestThere, Swept
<1>8. EvictedIsTold'
  <2>1. run \in RunIds(finished') <=> run \in RunIds(runs') \/ run \in evicted'
    BY <1>6 DEF HandlesKnown, RunIds
  <2>2. lastRead'.reason = "unknown" <=> run \notin RunIds(finished')
    BY <1>1, <2>1
  <2> QED BY <1>1, <2>2 DEF EvictedIsTold, RunIds
<1> QED BY <1>2, <1>3, <1>4, <1>6, <1>7, <1>8 DEF ScreenerInv, WriteInv, StoreInv

LEMMA PageKeeps ==
  ASSUME ScreenerInv, ToggleTable \/ Generic \/ ReloadPage, Recorded_Screeners
  PROVE  ScreenerInv'
<1>1. TypeInv' /\ ScreenersStoredGood' /\ StorageStep
  <2>1. CASE ToggleTable
    <3>1. Ready /\ CommitContent([doc EXCEPT !.table = ~@, !.bound = 0], doc)
      BY <2>1 DEF ToggleTable
    <3>2. [doc EXCEPT !.table = ~@, !.bound = 0] \in GoodScreeners
      BY <3>1, DocTyped, TableToggled DEF ScreenerInv
    <3> QED BY <3>1, <3>2, CommitContentKeeps DEF ScreenerInv
  <2>2. CASE Generic
    BY <2>2, GenericKeeps DEF Generic, ScreenerInv
  <2>3. CASE ReloadPage
    BY <2>3, GenericKeeps DEF ReloadPage, ScreenerInv
  <2> QED BY <2>1, <2>2, <2>3
<1>2. CASE UNCHANGED <<calls, runs, newest, evicted, minted, finished>> /\ lastRead' = NoRead
  <2>1. ScreenerTypes'
    BY <1>2 DEF ScreenerInv, WriteInv, ScreenerTypes
  <2>2. PinInv'
    BY <1>1, <1>2, PinsKept DEF Recorded_Screeners, ScreenerInv, WriteInv
  <2>3. StoreInv'
    BY <1>2, StoreLeft DEF ScreenerInv
  <2> QED BY <1>1, <2>1, <2>2, <2>3 DEF ScreenerInv, WriteInv
<1>3. CASE ReloadPage
  <2>1. /\ calls' = {} /\ runs' = {} /\ newest' = 0 /\ evicted' = {} /\ finished' = {}
        /\ minted' = [screener |-> 0, run |-> 0] /\ lastRead' = NoRead
    BY <1>3 DEF ReloadPage
  <2>2. ScreenerTypes'
    BY <2>1, ScreenerAssumption DEF ScreenerTypes
  <2>3. PinInv'
    BY <1>1, <2>1, PinsKept DEF Recorded_Screeners, ScreenerInv, WriteInv
  <2>4. StoreInv'
    BY <2>1 DEF StoreInv, HandlesKnown, NewestThere, EvictedIsTold, RunIds, NoRead
  <2> QED BY <1>1, <2>2, <2>3, <2>4 DEF ScreenerInv, WriteInv
<1> QED BY <1>2, <1>3 DEF ToggleTable, Generic

-----------------------------------------------------------------------------
(* The theorems *)

LEMMA StepKeepsScreeners == ScreenerInv /\ [ScreenerNext]_allVars => ScreenerInv'
<1> SUFFICES ASSUME ScreenerInv, [ScreenerNext]_allVars PROVE ScreenerInv'
  OBVIOUS
<1>1. ASSUME ScreenerNext PROVE ScreenerInv'
  <2>1. Recorded_Screeners
    BY <1>1 DEF ScreenerNext, Recorded_Screeners
  <2> QED BY <1>1, <2>1, StartDefineKeeps, CommitDefineKeeps, RejectedKeeps, CompleteRunKeeps,
          StartRunKeeps, ReadRunKeeps, PageKeeps DEF ScreenerNext
<1>2. CASE UNCHANGED allVars
  <2>1. UNCHANGED vars /\ UNCHANGED runVars
    BY <1>2 DEF allVars
  <2>2. TypeInv' /\ ScreenersStoredGood'
    BY <2>1, UnchangedKeeps DEF ScreenerInv
  <2> QED BY <2>1, <2>2 DEF vars, runVars, ScreenerInv, WriteInv, ScreenerTypes, PinInv, DocumentsDefined,
          SnapshotsDefined, CallsDefined, RunsPinned, StoreInv, HandlesKnown, NewestThere,
          EvictedIsTold, RunIds
<1> QED BY <1>1, <1>2

LEMMA StartsWithScreeners == ScreenerInit => ScreenerInv
<1> SUFFICES ASSUME ScreenerInit PROVE ScreenerInv
  OBVIOUS
<1>1. TypeInv
  BY InitTypeInv DEF ScreenerInit
<1>2. ScreenersStoredGood
  <2>1. Blank \in GoodScreeners
    BY ContentsAssumption, ScreenerAssumption DEF GoodScreeners
  <2> QED BY <2>1 DEF ScreenerInit, Init, ScreenersStoredGood, ContentsIn
<1>3. ScreenerTypes
  BY ScreenerAssumption DEF ScreenerInit, ScreenerTypes
<1>4. PinInv
  BY TabIsATab DEF ScreenerInit, Init, PinInv, DocumentsDefined, SnapshotsDefined, CallsDefined, RunsPinned
<1>5. StoreInv
  BY DEF ScreenerInit, StoreInv, HandlesKnown, NewestThere, EvictedIsTold, RunIds, NoRead
<1> QED BY <1>1, <1>2, <1>3, <1>4, <1>5 DEF ScreenerInv, WriteInv

LEMMA ScreenerInvariant == ScreenerSpec => []ScreenerInv
BY StepKeepsScreeners, StartsWithScreeners, PTL DEF ScreenerSpec

\* A run executed a screener revision the workspace once held, whatever was
\* edited, undone or reloaded while it was evaluated; the run stored last can
\* be read; and no handle given out is answered as unknown.
THEOREM RunsStayPinned == ScreenerSpec => []RunsHold
<1>1. ScreenerInv => RunsHold
  BY DEF ScreenerInv, PinInv, StoreInv, NewestThere, RunsHold, NewestRunHeld, Swept, RunIds
<1> QED BY <1>1, ScreenerInvariant, PTL

DocsAdvance ==
  \A w \in WorkspaceIds :
    LET before == documents[w].content
        after == documents'[w].content
    IN  answer'.call = "edit" /\ Held(after) # Held(before) =>
          after.revision = (IF after.screener = before.screener THEN before.revision ELSE 0) + 1

\* A commit that leaves the screener, or moves it one revision on.
LEMMA CommitAdvances ==
  ASSUME WriteInv, Ready, NEW content \in GoodScreeners, CommitContent(content, doc),
         \/ Held(content) = Held(doc)
         \/ content.revision = (IF content.screener = doc.screener THEN doc.revision ELSE 0) + 1
  PROVE  DocsAdvance
<1>1. documents' = [documents EXCEPT ![activeId] =
        [revision |-> documents[activeId].revision + 1, content |-> content]]
  BY CommitContentKeeps
<1> SUFFICES ASSUME NEW w \in WorkspaceIds, Held(documents'[w].content) # Held(documents[w].content)
             PROVE  documents'[w].content.revision =
                      (IF documents'[w].content.screener = documents[w].content.screener
                         THEN documents[w].content.revision ELSE 0) + 1
  BY DEF DocsAdvance
<1>2. DOMAIN documents = WorkspaceIds
  BY DEF WriteInv, TypeInv, TypeOK
<1>3. w = activeId
  BY <1>1, <1>2
<1>4. documents'[w].content = content /\ documents[w].content = doc
  BY <1>1, <1>2, <1>3 DEF doc
<1> QED BY <1>4

LEMMA StillAdvances ==
  ASSUME UNCHANGED documents \/ answer'.call # "edit"
  PROVE  DocsAdvance
BY DEF DocsAdvance

\* Undoing, restoring and loading are answered as what they are.
LEMMA OtherCalls ==
  ASSUME NEW call \in {"undo", "restore", "boot"},
         \E status, w, about : answer' = Reply(call, status, w, about)
  PROVE  DocsAdvance
<1>1. answer'.call # "edit"
  BY DEF Reply
<1> QED BY <1>1, StillAdvances

LEMMA StepAdvances == ScreenerInv /\ [ScreenerNext]_allVars => DocsAdvance
<1> SUFFICES ASSUME ScreenerInv, [ScreenerNext]_allVars PROVE DocsAdvance
  OBVIOUS
<1>1. CASE UNCHANGED vars
  BY <1>1, StillAdvances DEF vars, storage
<1>2. ASSUME NEW call \in calls, CommitDefine(call) PROVE DocsAdvance
  <2>1. Ready
    BY <1>2 DEF CommitDefine
  <2> QED BY <1>2, <2>1, DefinedGood, CommitAdvances DEF ScreenerInv
<1>3. ASSUME NEW call \in calls, CompleteRun(call) PROVE DocsAdvance
  <2>1. Ready /\ BindRun(call.run) /\ call.run \in 0..MaxRuns
    BY <1>3 DEF CompleteRun, ScreenerInv, WriteInv, ScreenerTypes, Call
  <2>2. CASE CommitContent([doc EXCEPT !.bound = call.run], doc)
    <3>1. /\ [doc EXCEPT !.bound = call.run] \in GoodScreeners
          /\ Held([doc EXCEPT !.bound = call.run]) = Held(doc)
      BY <2>1, DocTyped, BoundTyped DEF ScreenerInv
    <3> QED BY <2>1, <2>2, <3>1, CommitAdvances DEF ScreenerInv
  <2> QED BY <1>1, <2>1, <2>2 DEF BindRun
<1>4. CASE ToggleTable
  <2>1. Ready /\ CommitContent([doc EXCEPT !.table = ~@, !.bound = 0], doc)
    BY <1>4 DEF ToggleTable
  <2>2. /\ [doc EXCEPT !.table = ~@, !.bound = 0] \in GoodScreeners
        /\ Held([doc EXCEPT !.table = ~@, !.bound = 0]) = Held(doc)
    BY <2>1, DocTyped, TableToggled DEF ScreenerInv
  <2> QED BY <2>1, <2>2, CommitAdvances DEF ScreenerInv
<1>5. CASE Generic \/ ReloadPage
  <2>4. ASSUME NEW r, Undo(tab, r) PROVE DocsAdvance
    <3>1. \E status, w, about : answer' = Reply("undo", status, w, about)
      BY <2>4 DEF Undo, Commit, FailCommit
    <3> QED BY <3>1, OtherCalls
  <2>5. ASSUME NEW r, RestoreRevision(tab, 0, r, 0, NoKey) PROVE DocsAdvance
    <3>1. \E status, w, about : answer' = Reply("restore", status, w, about)
      BY <2>5 DEF RestoreRevision, Replay, RecordCommit, Commit, FailCommit
    <3> QED BY <3>1, OtherCalls
  <2>6. CASE Boot(tab)
    <3>1. CASE UNCHANGED storage
      BY <3>1, StillAdvances DEF storage
    <3>2. CASE ~UNCHANGED storage
      <4>1. \E status, w, about : answer' = Reply("boot", status, w, about)
        BY <2>6, <3>2 DEF Boot, RecordCommit, Commit, FailCommit
      <4> QED BY <4>1, OtherCalls
    <3> QED BY <3>1, <3>2
  <2>7. CASE Seed(tab)
    <3>1. \E status, w, about : answer' = Reply("boot", status, w, about)
      BY <2>7 DEF Seed, RecordCommit, Commit
    <3> QED BY <3>1, OtherCalls
  <2>8. CASE Reload(tab)
    BY <2>8, StillAdvances DEF Reload, storage
  <2> QED BY <1>5, <2>4, <2>5, <2>6, <2>7, <2>8 DEF Generic, ReloadPage
<1>6. ASSUME ScreenerNext PROVE DocsAdvance
  BY <1>1, <1>2, <1>3, <1>4, <1>5, <1>6
     DEF ScreenerNext, StartDefine, RejectCall, RefuseRun, StartRun, ReadRun
<1> QED BY <1>1, <1>6 DEF allVars

\* A screener is defined one revision on from the document it is written to,
\* although it was validated against one read before the wait.
THEOREM DefinesAdvance == ScreenerSpec => DefineAdvances
<1>1. ScreenerInv /\ [ScreenerNext]_allVars =>
        [\A w \in WorkspaceIds :
           LET before == documents[w].content
               after == documents'[w].content
           IN  answer'.call = "edit" /\ Held(after) # Held(before) =>
                 after.revision =
                   (IF after.screener = before.screener THEN before.revision ELSE 0) + 1]_allVars
  BY StepAdvances DEF DocsAdvance
<1> QED BY <1>1, ScreenerInvariant, PTL DEF ScreenerSpec, DefineAdvances

=============================================================================
