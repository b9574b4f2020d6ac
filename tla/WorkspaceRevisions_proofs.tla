---------------------- MODULE WorkspaceRevisions_proofs ----------------------
(***************************************************************************)
(* Proofs about WorkspaceRevisions, for every number of tabs, workspaces,  *)
(* keys and revisions, with and without failing writes: first of the       *)
(* repository, its snapshots and what they implement, then of the change   *)
(* log, what it drops at its limit, and what an undo finds and restores.   *)
(***************************************************************************)
EXTENDS WorkspaceRevisions, FiniteSetTheorems, WellFoundedInduction, TLAPS

-----------------------------------------------------------------------------
(* What the collections' operators return *)

\* Pruning and replacing never invent a snapshot.
LEMMA PutRevisionSubset ==
  ASSUME NEW entry, entry.workspaceId \in WorkspaceIds
  PROVE  PutRevision(entry) \subseteq revisions \union {entry}
BY DEF PutRevision, PruneRevisions, Highest, SnapshotsOf

\* The replay cache only gains the entry just remembered.
LEMMA RememberSubset ==
  ASSUME NEW entries, NEW new
  PROVE  Remember(entries, new) \subseteq entries \union {new}
BY DEF Remember, Highest

\* Appending keeps every record but the fields of a superseded one.
LEMMA AppendType ==
  ASSUME NEW records \in SUBSET ChangeRecord, NEW new \in ChangeRecord
  PROVE  Append(records, new) \subseteq ChangeRecord
<1> DEFINE supersede(r) == IF r.undoState = "available"
                             THEN [r EXCEPT !.undoState = "superseded"] ELSE r
           same == {r \in records : r.workspaceId = new.workspaceId}
<1>1. \A r \in ChangeRecord : supersede(r) \in ChangeRecord
  BY DEF ChangeRecord
<1>2. {supersede(r) : r \in same} \union {new} \subseteq ChangeRecord
  BY <1>1
<1>3. PruneRecords({supersede(r) : r \in same} \union {new})
        \subseteq {supersede(r) : r \in same} \union {new}
  BY DEF PruneRecords
<1> QED BY <1>2, <1>3 DEF Append

\* Appending gives no record a token without an inverse.
LEMMA AppendTokens ==
  ASSUME NEW records \in SUBSET ChangeRecord, NEW new \in ChangeRecord,
         \A r \in records \union {new} : r.undoToken # 0 => r.inverse # NoInverse
  PROVE  \A r \in Append(records, new) : r.undoToken # 0 => r.inverse # NoInverse
<1> DEFINE supersede(r) == IF r.undoState = "available"
                             THEN [r EXCEPT !.undoState = "superseded"] ELSE r
           same == {r \in records : r.workspaceId = new.workspaceId}
<1>1. \A r \in ChangeRecord :
        supersede(r).undoToken = r.undoToken /\ supersede(r).inverse = r.inverse
  BY DEF ChangeRecord
<1>2. Append(records, new) \subseteq records \union {supersede(r) : r \in same} \union {new}
  BY DEF Append, PruneRecords
<1> QED BY <1>1, <1>2

\* Redeeming a token changes nothing but the state of its record.
LEMMA RedeemType ==
  ASSUME NEW records \in SUBSET ChangeRecord, NEW token
  PROVE  Redeem(records, token) \subseteq ChangeRecord
BY DEF Redeem, ChangeRecord

\* Redeeming gives no record a token without an inverse.
LEMMA RedeemTokens ==
  ASSUME NEW records \in SUBSET ChangeRecord, NEW token,
         \A r \in records : r.undoToken # 0 => r.inverse # NoInverse
  PROVE  \A r \in Redeem(records, token) : r.undoToken # 0 => r.inverse # NoInverse
BY DEF Redeem, ChangeRecord

-----------------------------------------------------------------------------
(* Type correctness *)

\* A tab that has not started holds no ids; one that is seeding knows the
\* workspace it created.
Starting ==
  \A t \in Tabs :
    /\ phase[t] = "loading" => ids[t] = NoIds
    /\ phase[t] = "seeding" => ids[t].workspace \in WorkspaceIds

\* A record with an undo token has something to restore.
TokensRestore ==
  \A t \in Tabs : \A r \in history[t] : r.undoToken # 0 => r.inverse # NoInverse

TypeInv == TypeOK /\ Starting /\ TokensRestore

Counters == [change: Nat, undo: Nat, workspace: 0..MaxWorkspaces]
Requests == [key: Keys \union {NoKey}, fingerprint: Fingerprint, expected: Nat]
Calls == {"none", "edit", "create", "save", "restore", "undo", "apply", "human", "boot"}

LEMMA NewRecordType ==
  ASSUME TypeInv, NEW t \in Tabs, NEW w \in WorkspaceIds, NEW r \in Nat,
         NEW forward \in Contents, NEW inverse \in Contents \union {NoInverse}
  PROVE  NewRecord(t, w, r, forward, inverse) \in ChangeRecord
BY DEF NewRecord, ChangeRecord, TypeInv, TypeOK

LEMMA RememberedType ==
  ASSUME TypeInv, NEW t \in Tabs, NEW w \in WorkspaceIds, NEW request \in Requests
  PROVE  Remembered(t, w, request) \in [Tabs -> SUBSET CacheEntry]
<1> DEFINE new == [key |-> request.key, fingerprint |-> request.fingerprint,
                   workspaceId |-> w, changeId |-> ids[t].change + 1]
<1>1. CASE request.key = NoKey
  BY <1>1 DEF Remembered, TypeInv, TypeOK
<1>2. CASE request.key # NoKey
  <2>1. new \in CacheEntry
    BY <1>2 DEF Requests, CacheEntry, TypeInv, TypeOK
  <2>2. idempotency[t] \subseteq CacheEntry
    BY DEF TypeInv, TypeOK
  <2>3. Remember(idempotency[t], new) \in SUBSET CacheEntry
    BY <2>1, <2>2, RememberSubset
  <2> QED
    BY <1>2, <2>3 DEF Remembered, TypeInv, TypeOK
<1> QED BY <1>1, <1>2

\* Every commit leaves storage and memory well typed.
LEMMA CommitType ==
  ASSUME TypeInv, NEW t \in Tabs, NEW w \in WorkspaceIds, NEW call \in Calls,
         NEW request \in Requests, NEW forward \in Contents,
         NEW inverse \in Contents \union {NoInverse}, NEW minted \in Counters,
         Commit(t, w, call, request, forward, inverse, minted)
  PROVE  /\ documents' \in [WorkspaceIds -> Document]
         /\ revisions' \in SUBSET SavedRevision
         /\ idempotency' \in [Tabs -> SUBSET CacheEntry]
         /\ ids' \in [Tabs -> Counters]
         /\ answer' \in Answer
<1>1. documents[w].revision + 1 \in Nat
  BY DEF TypeInv, TypeOK, Document
<1>2. documents' \in [WorkspaceIds -> Document]
  BY <1>1 DEF Commit, TypeInv, TypeOK, Document
<1>3. revisions' \in SUBSET SavedRevision
  <2> DEFINE entry == Snapshot(w, documents[w].revision + 1, FALSE, forward)
  <2>1. entry \in SavedRevision /\ entry.workspaceId = w
    BY <1>1 DEF Snapshot, SavedRevision
  <2>2. revisions' \subseteq revisions \union {entry}
    BY <2>1, PutRevisionSubset DEF Commit
  <2> QED BY <2>1, <2>2 DEF TypeInv, TypeOK
<1>4. idempotency' \in [Tabs -> SUBSET CacheEntry]
  BY RememberedType DEF Commit
<1>5. ids' \in [Tabs -> Counters]
  BY DEF Commit, Counted, TypeInv, TypeOK, Counters
<1>6. answer' \in Answer
  BY DEF Commit, Reply, Answer, Calls, WorkspaceIds
<1> QED BY <1>2, <1>3, <1>4, <1>5, <1>6

\* A recorded commit leaves the history well typed and its tokens restoring.
LEMMA RecordedType ==
  ASSUME TypeInv, NEW t \in Tabs, NEW w \in WorkspaceIds,
         NEW forward \in Contents, NEW inverse \in Contents \union {NoInverse}
  PROVE  /\ Recorded(t, w, forward, inverse) \subseteq ChangeRecord
         /\ \A r \in Recorded(t, w, forward, inverse) : r.undoToken # 0 => r.inverse # NoInverse
<1> DEFINE new == NewRecord(t, w, documents[w].revision + 1, forward, inverse)
<1>1. new \in ChangeRecord /\ (new.undoToken # 0 => new.inverse # NoInverse)
  <2>1. documents[w].revision + 1 \in Nat
    BY DEF TypeInv, TypeOK, Document
  <2>2. new \in ChangeRecord
    BY <2>1, NewRecordType
  <2> QED BY <2>2 DEF NewRecord
<1>2. history[t] \in SUBSET ChangeRecord
  BY DEF TypeInv, TypeOK
<1> HIDE DEF new
<1>3. Append(history[t], new) \subseteq ChangeRecord
  BY <1>1, <1>2, AppendType
<1>4. \A r \in Append(history[t], new) : r.undoToken # 0 => r.inverse # NoInverse
  BY <1>1, <1>2, AppendTokens DEF TypeInv, TokensRestore
<1> QED BY <1>3, <1>4 DEF Recorded, new

\* The shape of every step that commits and records.
LEMMA RecordCommitType ==
  ASSUME TypeInv, NEW t \in Tabs, NEW w \in WorkspaceIds, NEW call \in Calls,
         NEW request \in Requests, NEW forward \in Contents,
         NEW inverse \in Contents \union {NoInverse}, NEW minted \in Counters,
         RecordCommit(t, w, call, request, forward, inverse, minted),
         activeId' \in 0..MaxWorkspaces,
         phase' \in [Tabs -> {"loading", "seeding", "ready"}], Starting'
  PROVE  TypeInv'
<1>1. Commit(t, w, call, request, forward, inverse, minted)
  BY DEF RecordCommit
<1>2. history' = [history EXCEPT ![t] = Recorded(t, w, forward, inverse)]
  BY DEF RecordCommit
<1>3. /\ documents' \in [WorkspaceIds -> Document]
      /\ revisions' \in SUBSET SavedRevision
      /\ idempotency' \in [Tabs -> SUBSET CacheEntry]
      /\ ids' \in [Tabs -> Counters]
      /\ answer' \in Answer
  BY <1>1, CommitType
<1>4. history' \in [Tabs -> SUBSET ChangeRecord] /\ TokensRestore'
  <2>1. /\ Recorded(t, w, forward, inverse) \subseteq ChangeRecord
        /\ \A r \in Recorded(t, w, forward, inverse) : r.undoToken # 0 => r.inverse # NoInverse
    BY RecordedType
  <2>2. history \in [Tabs -> SUBSET ChangeRecord]
    BY DEF TypeInv, TypeOK
  <2>3. history' \in [Tabs -> SUBSET ChangeRecord]
    BY <1>2, <2>1, <2>2
  <2>4. TokensRestore'
    BY <1>2, <2>1, <2>2 DEF TypeInv, TokensRestore
  <2> QED BY <2>3, <2>4
<1> QED BY <1>3, <1>4 DEF TypeInv, TypeOK, Counters

LEMMA FailCommitType ==
  ASSUME TypeInv, NEW t \in Tabs, NEW w \in WorkspaceIds, NEW call \in Calls,
         NEW request \in Requests, NEW forward \in Contents, NEW minted \in Counters,
         FailCommit(t, w, call, request, forward, minted),
         activeId' \in 0..MaxWorkspaces,
         phase' \in [Tabs -> {"loading", "seeding", "ready"}], Starting'
  PROVE  TypeInv'
<1>1. documents' \in [WorkspaceIds -> Document]
  BY DEF FailCommit, TypeInv, TypeOK, Document
<1>2. ids' \in [Tabs -> Counters]
  BY DEF FailCommit, TypeInv, TypeOK, Counters
<1>3. UNCHANGED <<revisions, history, idempotency>>
  BY DEF FailCommit
<1>4. answer' \in Answer
  BY BoundsAssumption DEF FailCommit, Reply, Answer, Calls, WorkspaceIds
<1> QED BY <1>1, <1>2, <1>3, <1>4 DEF TypeInv, TypeOK, TokensRestore, Counters

LEMMA ReplayType ==
  ASSUME TypeInv, NEW t \in Tabs, NEW w \in WorkspaceIds, NEW call \in Calls,
         NEW request, Replay(t, w, call, request)
  PROVE  answer' \in Answer
BY DEF Replay, Reply, Answer, Calls, WorkspaceIds, CacheEntry, TypeInv, TypeOK

\* A tab that is ready and stays so may count as it likes.
LEMMA StillStarting ==
  ASSUME TypeInv, NEW t \in Tabs, phase[t] = "ready", UNCHANGED phase,
         NEW counted \in Counters, ids' = [ids EXCEPT ![t] = counted]
  PROVE  Starting'
BY DEF TypeInv, TypeOK, Starting, Counters

LEMMA ResolveType ==
  ASSUME TypeInv, NEW target \in Targets, Resolve(target) # 0
  PROVE  Resolve(target) \in WorkspaceIds
BY BoundsAssumption DEF TypeInv, TypeOK, Resolve, Targets, WorkspaceIds

LEMMA EditType ==
  ASSUME TypeInv, NEW t \in Tabs, NEW target \in Targets, NEW op \in Operations,
         NEW d \in Contents, NEW undoable \in BOOLEAN,
         NEW expected \in ExpectedRevisions, NEW key \in Keys \union {NoKey},
         Edit(t, target, op, d, undoable, expected, key)
  PROVE  TypeInv'
<1> DEFINE w == Resolve(target)
           request == Request(key, [kind |-> op, workspaceId |-> target, input |-> expected],
                              expected)
           inverse == IF undoable THEN documents[w].content ELSE NoInverse
<1>1. w \in WorkspaceIds /\ phase[t] = "ready"
  BY ResolveType DEF Edit
<1>2. request \in Requests
  BY BoundsAssumption DEF Request, Requests, Fingerprint, Kinds, Targets
<1>3. inverse \in Contents \union {NoInverse} /\ ids[t] \in Counters
  BY <1>1 DEF TypeInv, TypeOK, Document, Counters
<1> HIDE DEF w, request, inverse
<1>4. CASE Replay(t, w, "edit", request) /\ UNCHANGED <<storage, memory>>
  BY <1>1, <1>4, ReplayType
     DEF TypeInv, TypeOK, Starting, TokensRestore, storage, memory, Calls
<1>5. ASSUME RecordCommit(t, w, "edit", request, d, inverse, ids[t]), UNCHANGED <<activeId, phase>>
      PROVE  TypeInv'
  <2>1. Counted(ids[t], inverse) \in Counters
    BY <1>3 DEF Counted, Counters
  <2>2. Starting'
    BY <1>1, <1>5, <2>1, StillStarting DEF RecordCommit, Commit
  <2> QED BY <1>1, <1>2, <1>3, <1>5, <2>2, RecordCommitType DEF Calls, TypeInv, TypeOK
<1>6. ASSUME FailCommit(t, w, "edit", request, d, ids[t]), UNCHANGED <<activeId, phase>>
      PROVE  TypeInv'
  <2>1. Starting'
    BY <1>1, <1>3, <1>6, StillStarting DEF FailCommit
  <2> QED BY <1>1, <1>2, <1>3, <1>6, <2>1, FailCommitType DEF Calls, TypeInv, TypeOK
<1> QED BY <1>4, <1>5, <1>6 DEF Edit, w, request, inverse

LEMMA CreateWorkspaceType ==
  ASSUME TypeInv, NEW t \in Tabs, NEW key \in Keys \union {NoKey}, CreateWorkspace(t, key)
  PROVE  TypeInv'
<1> DEFINE w == ids[t].workspace + 1
           request == Request(key, [kind |-> "create", workspaceId |-> 0, input |-> 0], 0)
           minted == [ids[t] EXCEPT !.workspace = w]
<1>1. w \in WorkspaceIds /\ phase[t] = "ready"
  BY BoundsAssumption DEF CreateWorkspace, TypeInv, TypeOK, WorkspaceIds
<1>2. request \in Requests
  BY BoundsAssumption DEF Request, Requests, Fingerprint, Kinds
<1>3. minted \in Counters
  <2>1. ids[t] \in Counters /\ w \in 0..MaxWorkspaces
    BY <1>1, BoundsAssumption DEF TypeInv, TypeOK, Counters, WorkspaceIds
  <2> QED BY <2>1 DEF Counters
<1>4. SetActive(w) => activeId' \in 0..MaxWorkspaces
  BY <1>1, BoundsAssumption DEF SetActive, TypeInv, TypeOK, WorkspaceIds
<1>5. Blank \in Contents /\ phase' = phase
  BY ContentsAssumption DEF CreateWorkspace
<1>6. phase' \in [Tabs -> {"loading", "seeding", "ready"}]
  BY <1>5 DEF TypeInv, TypeOK
<1> HIDE DEF w, request, minted
<1>7. ASSUME Replay(t, w, "create", request), ids' = [ids EXCEPT ![t] = minted],
             SetActive(w), UNCHANGED <<documents, revisions, history, idempotency>>
      PROVE  TypeInv'
  <2>1. answer' \in Answer
    BY <1>1, <1>7, ReplayType DEF Calls
  <2>2. Starting'
    BY <1>1, <1>3, <1>5, <1>7, StillStarting
  <2>3. ids' \in [Tabs -> Counters]
    BY <1>3, <1>7 DEF TypeInv, TypeOK, Counters
  <2> QED BY <1>4, <1>6, <1>7, <2>1, <2>2, <2>3 DEF TypeInv, TypeOK, TokensRestore, Counters
<1>8. ASSUME RecordCommit(t, w, "create", request, Blank, NoInverse, minted), SetActive(w)
      PROVE  TypeInv'
  <2>1. Counted(minted, NoInverse) \in Counters
    BY <1>3 DEF Counted, Counters
  <2>2. Starting'
    BY <1>1, <1>5, <1>8, <2>1, StillStarting DEF RecordCommit, Commit
  <2> QED BY <1>1, <1>2, <1>3, <1>4, <1>5, <1>6, <1>8, <2>2, RecordCommitType DEF Calls
<1>9. ASSUME FailCommit(t, w, "create", request, Blank, minted), UNCHANGED activeId
      PROVE  TypeInv'
  <2>1. Starting'
    BY <1>1, <1>3, <1>5, <1>9, StillStarting DEF FailCommit
  <2>2. activeId' \in 0..MaxWorkspaces
    BY <1>9 DEF TypeInv, TypeOK
  <2> QED BY <1>1, <1>2, <1>3, <1>5, <1>6, <1>9, <2>1, <2>2, FailCommitType DEF Calls
<1> QED BY <1>7, <1>8, <1>9 DEF CreateWorkspace, w, request, minted

LEMMA SaveWorkspaceType ==
  ASSUME TypeInv, NEW t \in Tabs, NEW target \in Targets, NEW expected \in ExpectedRevisions,
         NEW key \in Keys \union {NoKey}, SaveWorkspace(t, target, expected, key)
  PROVE  TypeInv'
<1> DEFINE w == Resolve(target)
           doc == documents[w]
           request == Request(key, [kind |-> "save", workspaceId |-> w, input |-> expected],
                              expected)
           record == NewRecord(t, w, doc.revision, doc.content, NoInverse)
<1>1. /\ w \in WorkspaceIds /\ phase[t] = "ready"
      /\ UNCHANGED <<documents, activeId, phase>>
  BY ResolveType DEF SaveWorkspace
<1>2. doc.revision \in Nat /\ doc.content \in Contents
  BY <1>1 DEF TypeInv, TypeOK, Document
<1>3. request \in Requests
  BY <1>1, BoundsAssumption DEF Request, Requests, Fingerprint, Kinds, WorkspaceIds
<1>4. record \in ChangeRecord /\ record.undoToken = 0
  <2>1. record \in ChangeRecord
    BY <1>1, <1>2, NewRecordType
  <2> QED BY <2>1 DEF NewRecord
<1>5. Snapshot(w, doc.revision, TRUE, doc.content) \in SavedRevision
  BY <1>1, <1>2 DEF Snapshot, SavedRevision
<1>6. Snapshot(w, doc.revision, TRUE, doc.content).workspaceId = w
  BY DEF Snapshot
<1> HIDE DEF w, doc, request, record
<1>7. ASSUME Replay(t, w, "save", request), UNCHANGED <<revisions, history, idempotency, ids>>
      PROVE  TypeInv'
  <2>1. answer' \in Answer
    BY <1>1, <1>7, ReplayType DEF Calls
  <2> QED BY <1>1, <1>7, <2>1 DEF TypeInv, TypeOK, Starting, TokensRestore
<1>8. ASSUME revisions' = PutRevision(Snapshot(w, doc.revision, TRUE, doc.content)),
             ids' = [ids EXCEPT ![t].change = @ + 1],
             idempotency' = Remembered(t, w, request),
             history' = [history EXCEPT ![t] = Append(@, record)],
             answer' = Reply("save", "applied", w, w)
      PROVE  TypeInv'
  <2>1. revisions' \in SUBSET SavedRevision
    <3> DEFINE entry == Snapshot(w, doc.revision, TRUE, doc.content)
    <3>1. entry \in SavedRevision /\ entry.workspaceId \in WorkspaceIds
      BY <1>1, <1>5, <1>6
    <3> HIDE DEF entry
    <3>2. PutRevision(entry) \subseteq revisions \union {entry}
      BY <3>1, PutRevisionSubset
    <3>3. revisions' = PutRevision(entry)
      BY <1>8 DEF entry
    <3> QED BY <3>1, <3>2, <3>3 DEF TypeInv, TypeOK
  <2>2. [ids[t] EXCEPT !.change = @ + 1] \in Counters /\ ids' \in [Tabs -> Counters]
    BY <1>8 DEF TypeInv, TypeOK, Counters
  <2>3. Starting'
    BY <1>1, <1>8, <2>2, StillStarting
  <2>4. idempotency' \in [Tabs -> SUBSET CacheEntry]
    BY <1>1, <1>3, <1>8, RememberedType
  <2>5. history[t] \in SUBSET ChangeRecord /\ history \in [Tabs -> SUBSET ChangeRecord]
    BY DEF TypeInv, TypeOK
  <2>6. /\ Append(history[t], record) \subseteq ChangeRecord
        /\ \A r \in Append(history[t], record) : r.undoToken # 0 => r.inverse # NoInverse
    BY <1>4, <2>5, AppendType, AppendTokens DEF TypeInv, TokensRestore
  <2>7. history' \in [Tabs -> SUBSET ChangeRecord] /\ TokensRestore'
    BY <1>8, <2>5, <2>6 DEF TypeInv, TokensRestore
  <2>8. answer' \in Answer
    BY <1>1, <1>8 DEF Reply, Answer, WorkspaceIds
  <2> QED BY <1>1, <2>1, <2>2, <2>3, <2>4, <2>7, <2>8 DEF TypeInv, TypeOK, Counters
<1>9. ASSUME answer' = Reply("save", "storage_failed", w, 0),
             UNCHANGED <<revisions, history, idempotency, ids>>
      PROVE  TypeInv'
  <2>1. answer' \in Answer
    BY <1>1, <1>9, BoundsAssumption DEF Reply, Answer, WorkspaceIds
  <2> QED BY <1>1, <1>9, <2>1 DEF TypeInv, TypeOK, Starting, TokensRestore
<1> QED BY <1>7, <1>8, <1>9 DEF SaveWorkspace, w, doc, request, record

LEMMA RestoreRevisionType ==
  ASSUME TypeInv, NEW t \in Tabs, NEW target \in Targets, NEW r \in 1..MaxRevision,
         NEW expected \in ExpectedRevisions, NEW key \in Keys \union {NoKey},
         RestoreRevision(t, target, r, expected, key)
  PROVE  TypeInv'
<1> DEFINE w == Resolve(target)
           request == Request(key, [kind |-> "restore", workspaceId |-> 0, input |-> r], expected)
           before == IF Stored(w) THEN documents[w].content ELSE NoInverse
<1>1. w \in WorkspaceIds /\ phase[t] = "ready"
  BY ResolveType DEF RestoreRevision
<1>2. request \in Requests
  BY BoundsAssumption DEF Request, Requests, Fingerprint, Kinds
<1>3. before \in Contents \union {NoInverse} /\ ids[t] \in Counters
  BY <1>1 DEF TypeInv, TypeOK, Document, Counters
<1>4. \A e \in SnapshotsOf(w) : e.content \in Contents
  BY DEF SnapshotsOf, SavedRevision, TypeInv, TypeOK
<1> HIDE DEF w, request, before
<1>5. CASE Replay(t, w, "restore", request) /\ UNCHANGED <<storage, memory>>
  BY <1>1, <1>5, ReplayType
     DEF TypeInv, TypeOK, Starting, TokensRestore, storage, memory, Calls
<1>6. ASSUME NEW e \in SnapshotsOf(w), UNCHANGED <<activeId, phase>>,
             RecordCommit(t, w, "restore", request, e.content, before, ids[t])
      PROVE  TypeInv'
  <2>1. Counted(ids[t], before) \in Counters
    BY <1>3 DEF Counted, Counters
  <2>2. Starting'
    BY <1>1, <1>6, <2>1, StillStarting DEF RecordCommit, Commit
  <2> QED BY <1>1, <1>2, <1>3, <1>4, <1>6, <2>2, RecordCommitType DEF Calls, TypeInv, TypeOK
<1>7. ASSUME NEW e \in SnapshotsOf(w), UNCHANGED <<activeId, phase>>,
             FailCommit(t, w, "restore", request, e.content, ids[t])
      PROVE  TypeInv'
  <2>1. Starting'
    BY <1>1, <1>3, <1>7, StillStarting DEF FailCommit
  <2> QED BY <1>1, <1>2, <1>3, <1>4, <1>7, <2>1, FailCommitType DEF Calls, TypeInv, TypeOK
<1> QED BY <1>5, <1>6, <1>7 DEF RestoreRevision, w, request, before

LEMMA UndoType ==
  ASSUME TypeInv, NEW t \in Tabs, NEW r \in history[t], Undo(t, r)
  PROVE  TypeInv'
<1>1. r \in ChangeRecord
  BY DEF TypeInv, TypeOK
<1>2. /\ r.workspaceId \in WorkspaceIds /\ r.forward \in Contents
      /\ r.inverse \in Contents
  BY <1>1 DEF ChangeRecord, Undo, UndoAccepted, TypeInv, TokensRestore
<1>3. Unkeyed \in Requests
  BY BoundsAssumption DEF Unkeyed, Request, Requests, Fingerprint, Kinds
<1>4. ids[t] \in Counters /\ Counted(ids[t], r.forward) \in Counters
  BY DEF TypeInv, TypeOK, Counters, Counted
<1>5. /\ phase[t] = "ready" /\ UNCHANGED <<activeId, phase>>
      /\ activeId' \in 0..MaxWorkspaces
      /\ phase' \in [Tabs -> {"loading", "seeding", "ready"}]
  BY DEF Undo, TypeInv, TypeOK
<1>6. ASSUME Commit(t, r.workspaceId, "undo", Unkeyed, r.inverse, r.forward, ids[t]),
             history' = [history EXCEPT ![t] =
               Redeem(Recorded(t, r.workspaceId, r.inverse, r.forward), r.undoToken)]
      PROVE  TypeInv'
  <2> DEFINE records == Recorded(t, r.workspaceId, r.inverse, r.forward)
  <2>1. /\ documents' \in [WorkspaceIds -> Document]
        /\ revisions' \in SUBSET SavedRevision
        /\ idempotency' \in [Tabs -> SUBSET CacheEntry]
        /\ ids' \in [Tabs -> Counters]
        /\ answer' \in Answer
    BY <1>2, <1>3, <1>4, <1>6, CommitType DEF Calls
  <2>2. Starting'
    BY <1>4, <1>5, <1>6, StillStarting DEF Commit
  <2>3. /\ records \subseteq ChangeRecord
        /\ \A q \in records : q.undoToken # 0 => q.inverse # NoInverse
    BY <1>2, RecordedType
  <2>4. history' = [history EXCEPT ![t] = Redeem(records, r.undoToken)]
    BY <1>6
  <2> HIDE DEF records
  <2>5. /\ Redeem(records, r.undoToken) \subseteq ChangeRecord
        /\ \A q \in Redeem(records, r.undoToken) : q.undoToken # 0 => q.inverse # NoInverse
    BY <2>3, RedeemType, RedeemTokens
  <2>6. history' \in [Tabs -> SUBSET ChangeRecord] /\ TokensRestore'
    BY <2>4, <2>5 DEF TypeInv, TypeOK, TokensRestore
  <2> QED BY <1>5, <2>1, <2>2, <2>6 DEF TypeInv, TypeOK, Counters
<1>7. ASSUME FailCommit(t, r.workspaceId, "undo", Unkeyed, r.inverse, ids[t])
      PROVE  TypeInv'
  <2>1. Starting'
    BY <1>4, <1>5, <1>7, StillStarting DEF FailCommit
  <2> QED BY <1>2, <1>3, <1>4, <1>5, <1>7, <2>1, FailCommitType DEF Calls
<1> QED BY <1>6, <1>7 DEF Undo

LEMMA BootType ==
  ASSUME TypeInv, NEW t \in Tabs, Boot(t)
  PROVE  TypeInv'
<1> DEFINE w == ids[t].workspace + 1
           minted == [ids[t] EXCEPT !.workspace = w]
<1>1. phase[t] = "loading" /\ ids[t] = NoIds
  BY DEF Boot, TypeInv, Starting
<1>2. w \in WorkspaceIds /\ minted \in Counters /\ ids[t] \in Counters /\ minted.workspace = w
  BY <1>1, BoundsAssumption DEF NoIds, WorkspaceIds, Counters
<1>3. SetActive(w) => activeId' \in 0..MaxWorkspaces
  BY <1>2, BoundsAssumption DEF SetActive, TypeInv, TypeOK, WorkspaceIds
<1>4. Unkeyed \in Requests /\ Blank \in Contents
  BY BoundsAssumption, ContentsAssumption DEF Unkeyed, Request, Requests, Fingerprint, Kinds
<1> HIDE DEF w, minted
<1>5. ASSUME phase' = [phase EXCEPT ![t] = "ready"], answer' = NoAnswer,
             UNCHANGED <<storage, history, idempotency, ids>>
      PROVE  TypeInv'
  BY <1>5, BoundsAssumption
     DEF TypeInv, TypeOK, Starting, TokensRestore, storage, NoAnswer, Reply, Answer
<1>6. ASSUME RecordCommit(t, w, "boot", Unkeyed, Blank, NoInverse, minted), SetActive(w),
             phase' = [phase EXCEPT ![t] = "seeding"]
      PROVE  TypeInv'
  <2>1. ids' = [ids EXCEPT ![t] = Counted(minted, NoInverse)]
    BY <1>6 DEF RecordCommit, Commit
  <2>2. Counted(minted, NoInverse).workspace = w
    BY <1>2 DEF Counted
  <2>3. Starting' /\ phase' \in [Tabs -> {"loading", "seeding", "ready"}]
    BY <1>2, <1>6, <2>1, <2>2 DEF TypeInv, TypeOK, Starting
  <2> QED BY <1>2, <1>3, <1>4, <1>6, <2>3, RecordCommitType DEF Calls
<1>7. ASSUME FailCommit(t, w, "boot", Unkeyed, Blank, ids[t]), UNCHANGED <<activeId, phase>>
      PROVE  TypeInv'
  <2>1. Starting'
    BY <1>7 DEF FailCommit, TypeInv, TypeOK, Starting
  <2> QED BY <1>2, <1>4, <1>7, <2>1, FailCommitType DEF Calls, TypeInv, TypeOK
<1> QED BY <1>5, <1>6, <1>7 DEF Boot, w, minted

LEMMA SeedType ==
  ASSUME TypeInv, NEW t \in Tabs, Seed(t)
  PROVE  TypeInv'
<1> DEFINE w == ids[t].workspace
<1>1. phase[t] = "seeding" /\ w \in WorkspaceIds /\ ids[t] \in Counters
  BY DEF Seed, TypeInv, TypeOK, Starting, Counters
<1>2. documents[w] \in Document
  BY <1>1 DEF TypeInv, TypeOK
<1>3. documents[w].content \in Contents /\ documents[w].revision \in Nat
  BY <1>2 DEF Document
<1>4. Unkeyed \in Requests /\ Seeded \in Contents
  BY BoundsAssumption, ContentsAssumption DEF Unkeyed, Request, Requests, Fingerprint, Kinds
<1>5. ASSUME RecordCommit(t, w, "boot", Unkeyed, Seeded, documents[w].content, ids[t]),
             phase' = [phase EXCEPT ![t] = "ready"], UNCHANGED activeId
      PROVE  TypeInv'
  <2>1. ids' = [ids EXCEPT ![t] = Counted(ids[t], documents[w].content)]
    BY <1>5 DEF RecordCommit, Commit
  <2>2. Starting' /\ phase' \in [Tabs -> {"loading", "seeding", "ready"}]
    BY <1>1, <1>5, <2>1 DEF TypeInv, TypeOK, Starting
  <2>3. activeId' \in 0..MaxWorkspaces
    BY <1>5 DEF TypeInv, TypeOK
  <2> QED BY <1>1, <1>3, <1>4, <1>5, <2>2, <2>3, RecordCommitType DEF Calls
<1>6. ASSUME documents' \in {documents, [documents EXCEPT ![w] =
                 [revision |-> documents[w].revision + 1, content |-> Seeded]]},
             history' = [history EXCEPT ![t] = {}], ids' = [ids EXCEPT ![t] = NoIds],
             phase' = [phase EXCEPT ![t] = "loading"],
             answer' = Reply("boot", "storage_failed", w, 0),
             UNCHANGED <<revisions, activeId, idempotency>>
      PROVE  TypeInv'
  <2>1. [revision |-> documents[w].revision + 1, content |-> Seeded] \in Document
    BY <1>3, <1>4 DEF Document
  <2>2. documents' \in [WorkspaceIds -> Document]
    BY <1>6, <2>1 DEF TypeInv, TypeOK
  <2>3. NoIds \in Counters
    BY BoundsAssumption DEF NoIds, Counters
  <2>4. ids' \in [Tabs -> Counters] /\ phase' \in [Tabs -> {"loading", "seeding", "ready"}]
    BY <1>6, <2>3 DEF TypeInv, TypeOK, Counters
  <2>5. Starting'
    BY <1>6 DEF TypeInv, TypeOK, Starting
  <2>6. history' \in [Tabs -> SUBSET ChangeRecord] /\ TokensRestore'
    BY <1>6 DEF TypeInv, TypeOK, TokensRestore
  <2>7. answer' \in Answer
    BY <1>1, <1>6, BoundsAssumption DEF Reply, Answer, WorkspaceIds
  <2> QED BY <1>6, <2>2, <2>4, <2>5, <2>6, <2>7 DEF TypeInv, TypeOK, Counters
<1> QED BY <1>5, <1>6 DEF Seed

LEMMA ReloadType ==
  ASSUME TypeInv, NEW t \in Tabs, Reload(t)
  PROVE  TypeInv'
<1>1. NoIds \in Counters
  BY BoundsAssumption DEF NoIds, Counters
<1>2. ids' \in [Tabs -> Counters] /\ Starting'
  BY <1>1 DEF Reload, TypeInv, TypeOK, Starting, Counters
<1>3. history' \in [Tabs -> SUBSET ChangeRecord] /\ TokensRestore'
  BY DEF Reload, TypeInv, TypeOK, TokensRestore
<1>4. answer' \in Answer
  BY BoundsAssumption DEF Reload, NoAnswer, Reply, Answer
<1> QED BY <1>2, <1>3, <1>4 DEF Reload, storage, TypeInv, TypeOK, Counters

LEMMA ExpireKeyType ==
  ASSUME TypeInv, NEW t \in Tabs, ExpireKey(t)
  PROVE  TypeInv'
<1>1. idempotency' \in [Tabs -> SUBSET CacheEntry]
  BY DEF ExpireKey, TypeInv, TypeOK
<1>2. answer' \in Answer
  BY BoundsAssumption DEF ExpireKey, NoAnswer, Reply, Answer
<1> QED BY <1>1, <1>2 DEF ExpireKey, storage, TypeInv, TypeOK, Starting, TokensRestore

LEMMA NextTypeInv == TypeInv /\ [Next]_vars => TypeInv'
<1> SUFFICES ASSUME TypeInv, [Next]_vars PROVE TypeInv'
  OBVIOUS
<1>1. CASE UNCHANGED vars
  BY <1>1 DEF vars, TypeInv, TypeOK, Starting, TokensRestore
<1>2. CASE Next
  BY <1>2, EditType, CreateWorkspaceType, SaveWorkspaceType, RestoreRevisionType, UndoType,
     BootType, SeedType, ReloadType, ExpireKeyType DEF Next
<1> QED BY <1>1, <1>2

LEMMA InitTypeInv == Init => TypeInv
<1> SUFFICES ASSUME Init PROVE TypeInv
  OBVIOUS
<1>1. NoIds \in Counters /\ NoAnswer \in Answer
  BY BoundsAssumption DEF NoIds, Counters, NoAnswer, Reply, Answer
<1> QED BY <1>1, BoundsAssumption, ContentsAssumption
        DEF Init, TypeInv, TypeOK, Starting, TokensRestore, Document, Counters

\* Storage and memory stay well typed: in particular every undo restores a
\* real document, whatever pruned, superseded or redeemed its record.
THEOREM TypeCorrect == Spec => []TypeOK
<1>1. Spec => []TypeInv
  BY InitTypeInv, NextTypeInv, PTL DEF Spec
<1>2. TypeInv => TypeOK
  BY DEF TypeInv
<1> QED BY <1>1, <1>2, PTL

-----------------------------------------------------------------------------
(* What a step does to the storage *)

\* A write of a new version, which a failure may leave without its snapshot.
StorageAdvance ==
  \E w \in WorkspaceIds, c \in Contents :
    /\ documents' = [documents EXCEPT ![w] =
                       [revision |-> documents[w].revision + 1, content |-> c]]
    /\ revisions' \in
         {revisions, PutRevision(Snapshot(w, documents[w].revision + 1, FALSE, c))}

\* A save of the current version under a name.
StorageName ==
  \E w \in WorkspaceIds :
    /\ Stored(w)
    /\ documents' = documents
    /\ revisions' =
         PutRevision(Snapshot(w, documents[w].revision, TRUE, documents[w].content))

StorageStep == StorageAdvance \/ StorageName \/ UNCHANGED <<documents, revisions>>

LEMMA CommitStorage ==
  ASSUME NEW t, NEW w \in WorkspaceIds, NEW call, NEW request, NEW forward \in Contents,
         NEW inverse, NEW minted, Commit(t, w, call, request, forward, inverse, minted)
  PROVE  StorageStep
BY DEF Commit, StorageStep, StorageAdvance

LEMMA FailCommitStorage ==
  ASSUME NEW t, NEW w \in WorkspaceIds, NEW call, NEW request, NEW forward \in Contents,
         NEW minted, FailCommit(t, w, call, request, forward, minted)
  PROVE  StorageStep
BY DEF FailCommit, StorageStep, StorageAdvance

LEMMA NextStorage ==
  ASSUME TypeInv, [Next]_vars
  PROVE  StorageStep
<1>1. CASE UNCHANGED vars
  BY <1>1 DEF vars, StorageStep
<1>2. ASSUME NEW t \in Tabs, NEW target \in Targets, NEW op \in Operations,
             NEW d \in Contents, NEW undoable \in BOOLEAN,
             NEW expected \in ExpectedRevisions, NEW key \in Keys \union {NoKey},
             Edit(t, target, op, d, undoable, expected, key)
      PROVE  StorageStep
  <2>1. Resolve(target) \in WorkspaceIds
    BY <1>2, ResolveType DEF Edit
  <2> QED BY <1>2, <2>1, CommitStorage, FailCommitStorage
          DEF Edit, RecordCommit, storage, StorageStep
<1>3. ASSUME NEW t \in Tabs, NEW key \in Keys \union {NoKey}, CreateWorkspace(t, key)
      PROVE  StorageStep
  <2>1. ids[t].workspace + 1 \in WorkspaceIds /\ Blank \in Contents
    BY <1>3, ContentsAssumption, BoundsAssumption
       DEF CreateWorkspace, TypeInv, TypeOK, WorkspaceIds
  <2> QED BY <1>3, <2>1, CommitStorage, FailCommitStorage
          DEF CreateWorkspace, RecordCommit, StorageStep
<1>4. ASSUME NEW t \in Tabs, NEW target \in Targets, NEW expected \in ExpectedRevisions,
             NEW key \in Keys \union {NoKey}, SaveWorkspace(t, target, expected, key)
      PROVE  StorageStep
  <2>1. Resolve(target) \in WorkspaceIds
    BY <1>4, ResolveType DEF SaveWorkspace
  <2> QED BY <1>4, <2>1 DEF SaveWorkspace, StorageStep, StorageName
<1>5. ASSUME NEW t \in Tabs, NEW target \in Targets, NEW r \in 1..MaxRevision,
             NEW expected \in ExpectedRevisions, NEW key \in Keys \union {NoKey},
             RestoreRevision(t, target, r, expected, key)
      PROVE  StorageStep
  <2>1. Resolve(target) \in WorkspaceIds
    BY <1>5, ResolveType DEF RestoreRevision
  <2>2. \A e \in SnapshotsOf(Resolve(target)) : e.content \in Contents
    BY DEF SnapshotsOf, SavedRevision, TypeInv, TypeOK
  <2> QED BY <1>5, <2>1, <2>2, CommitStorage, FailCommitStorage
          DEF RestoreRevision, RecordCommit, storage, StorageStep
<1>6. ASSUME NEW t \in Tabs, NEW r \in history[t], Undo(t, r)
      PROVE  StorageStep
  <2>1. r.workspaceId \in WorkspaceIds /\ r.inverse \in Contents
    BY <1>6 DEF ChangeRecord, Undo, UndoAccepted, TypeInv, TypeOK, TokensRestore
  <2> QED BY <1>6, <2>1, CommitStorage, FailCommitStorage DEF Undo
<1>7. ASSUME NEW t \in Tabs, Boot(t)
      PROVE  StorageStep
  <2>1. ids[t].workspace + 1 \in WorkspaceIds /\ Blank \in Contents
    BY <1>7, ContentsAssumption, BoundsAssumption
       DEF Boot, TypeInv, Starting, NoIds, WorkspaceIds
  <2> QED BY <1>7, <2>1, CommitStorage, FailCommitStorage
          DEF Boot, RecordCommit, storage, StorageStep
<1>8. ASSUME NEW t \in Tabs, Seed(t)
      PROVE  StorageStep
  <2>1. ids[t].workspace \in WorkspaceIds /\ Seeded \in Contents
    BY <1>8, ContentsAssumption DEF Seed, TypeInv, Starting
  <2>2. CASE RecordCommit(t, ids[t].workspace, "boot", Unkeyed, Seeded,
                          documents[ids[t].workspace].content, ids[t])
    BY <2>1, <2>2, CommitStorage DEF RecordCommit
  <2>3. CASE /\ documents' \in {documents, [documents EXCEPT ![ids[t].workspace] =
                  [revision |-> documents[ids[t].workspace].revision + 1, content |-> Seeded]]}
             /\ UNCHANGED revisions
    BY <2>1, <2>3 DEF StorageStep, StorageAdvance
  <2> QED BY <1>8, <2>2, <2>3 DEF Seed
<1>9. ASSUME NEW t \in Tabs, Reload(t) \/ ExpireKey(t)
      PROVE  StorageStep
  BY <1>9 DEF Reload, ExpireKey, storage, StorageStep
<1> QED BY <1>1, <1>2, <1>3, <1>4, <1>5, <1>6, <1>7, <1>8, <1>9 DEF Next

\* What a write of a snapshot keeps, and what it replaces.
LEMMA PutRevisionKeeps ==
  ASSUME NEW entry
  PROVE  /\ \A e \in revisions :
              e.named /\ ~(e.workspaceId = entry.workspaceId /\ e.revision = entry.revision)
                => e \in PutRevision(entry)
         /\ \A e \in PutRevision(entry) :
              e.workspaceId = entry.workspaceId /\ e.revision = entry.revision => e = entry
         /\ entry.named => entry \in PutRevision(entry)
         /\ PutRevision(entry) \subseteq revisions \union {entry}
BY DEF PutRevision, PruneRevisions, Highest, SnapshotsOf

\* Where a snapshot found after a step can come from.
LEMMA StorageGains ==
  ASSUME StorageStep, NEW f \in revisions'
  PROVE  \/ f \in revisions
         \/ \E w \in WorkspaceIds, c \in Contents :
              f = Snapshot(w, documents[w].revision + 1, FALSE, c)
         \/ \E w \in WorkspaceIds :
              f = Snapshot(w, documents[w].revision, TRUE, documents[w].content)
<1>1. CASE StorageAdvance
  <2>1. PICK w \in WorkspaceIds, c \in Contents :
          revisions' \in
            {revisions, PutRevision(Snapshot(w, documents[w].revision + 1, FALSE, c))}
    BY <1>1 DEF StorageAdvance
  <2> DEFINE new == Snapshot(w, documents[w].revision + 1, FALSE, c)
  <2>2. PutRevision(new) \subseteq revisions \union {new}
    BY PutRevisionKeeps
  <2>3. revisions' = revisions \/ revisions' = PutRevision(new)
    BY <2>1
  <2> HIDE DEF new
  <2>4. f \in revisions \/ f = new
    BY <2>2, <2>3
  <2> QED BY <2>4 DEF new
<1>2. CASE StorageName
  <2>1. PICK w \in WorkspaceIds :
          revisions' =
            PutRevision(Snapshot(w, documents[w].revision, TRUE, documents[w].content))
    BY <1>2 DEF StorageName
  <2> DEFINE new == Snapshot(w, documents[w].revision, TRUE, documents[w].content)
  <2>2. PutRevision(new) \subseteq revisions \union {new}
    BY PutRevisionKeeps
  <2>3. revisions' = PutRevision(new)
    BY <2>1
  <2> HIDE DEF new
  <2>4. f \in revisions \/ f = new
    BY <2>2, <2>3
  <2> QED BY <2>4 DEF new
<1> QED BY <1>1, <1>2 DEF StorageStep

-----------------------------------------------------------------------------
(* Snapshots *)

ArchiveInv == TypeInv /\ SnapshotsFaithful

\* Snapshots stay faithful over each kind of storage step.
LEMMA NextFaithful ==
  ASSUME ArchiveInv, StorageStep
  PROVE  SnapshotsFaithful'
<1> USE DEF ArchiveInv, TypeInv, TypeOK
<1>1. CASE UNCHANGED <<documents, revisions>>
  BY <1>1 DEF SnapshotsFaithful, SnapshotsOf
<1>2. ASSUME NEW w \in WorkspaceIds, NEW c \in Contents,
             documents' = [documents EXCEPT ![w] =
                             [revision |-> documents[w].revision + 1, content |-> c]],
             revisions' \in
               {revisions, PutRevision(Snapshot(w, documents[w].revision + 1, FALSE, c))}
      PROVE  SnapshotsFaithful'
  <2> DEFINE n == documents[w].revision
             entry == Snapshot(w, n + 1, FALSE, c)
  <2>1. /\ entry.workspaceId = w /\ entry.revision = n + 1 /\ entry.content = c
        /\ n \in Nat
    BY DEF Snapshot, Document
  <2>2. \A e \in revisions : e.revision \in 1..documents[e.workspaceId].revision
    BY DEF SnapshotsFaithful
  <2>3. documents'[w].revision = n + 1 /\ documents'[w].content = c
    BY <1>2
  <2>4. \A v \in WorkspaceIds : v # w => documents'[v] = documents[v]
    BY <1>2
  <2>5. \A v \in WorkspaceIds : documents[v].revision \in Nat
    BY DEF Document
  <2>6. \A e \in revisions : e.workspaceId \in WorkspaceIds
    BY DEF SavedRevision
  <2> HIDE DEF n, entry
  <2>7. /\ revisions' \subseteq revisions \union {entry}
        /\ \A e \in revisions' : e.workspaceId = w /\ e.revision = n + 1 => e = entry
    <3>1. CASE revisions' = revisions
      BY <2>1, <2>2, <3>1 DEF n
    <3>2. CASE revisions' = PutRevision(entry)
      BY <2>1, <3>2, PutRevisionKeeps
    <3> QED BY <1>2, <3>1, <3>2 DEF entry, n
  <2>8. \A e \in revisions' :
          /\ e.revision \in 1..documents'[e.workspaceId].revision
          /\ e.revision = documents'[e.workspaceId].revision =>
               e.content = documents'[e.workspaceId].content
    <3> SUFFICES ASSUME NEW e \in revisions'
                 PROVE  /\ e.revision \in 1..documents'[e.workspaceId].revision
                        /\ e.revision = documents'[e.workspaceId].revision =>
                             e.content = documents'[e.workspaceId].content
      OBVIOUS
    <3>1. CASE e = entry
      BY <2>1, <2>3, <3>1
    <3>2. CASE e \in revisions /\ e.workspaceId = w
      <4>1. e.revision \in 1..n
        BY <2>2, <3>2 DEF n
      <4> QED BY <2>1, <2>3, <3>2, <4>1
    <3>3. CASE e \in revisions /\ e.workspaceId # w
      BY <2>4, <2>6, <3>3 DEF SnapshotsFaithful
    <3> QED BY <2>7, <3>1, <3>2, <3>3
  <2>9. \A e, f \in revisions' :
          e.workspaceId = f.workspaceId /\ e.revision = f.revision => f = e
    <3> SUFFICES ASSUME NEW e \in revisions', NEW f \in revisions',
                        e.workspaceId = f.workspaceId, e.revision = f.revision
                 PROVE  f = e
      OBVIOUS
    <3>1. CASE e.workspaceId = w /\ e.revision = n + 1
      BY <2>7, <3>1
    <3>2. CASE ~(e.workspaceId = w /\ e.revision = n + 1)
      <4>1. e \in revisions /\ f \in revisions
        BY <2>1, <2>7, <3>2
      <4> QED BY <4>1 DEF SnapshotsFaithful, SnapshotsOf
    <3> QED BY <3>1, <3>2
  <2> QED BY <2>8, <2>9 DEF SnapshotsFaithful, SnapshotsOf
<1>3. ASSUME NEW w \in WorkspaceIds, Stored(w), documents' = documents,
             revisions' =
               PutRevision(Snapshot(w, documents[w].revision, TRUE, documents[w].content))
      PROVE  SnapshotsFaithful'
  <2> DEFINE entry == Snapshot(w, documents[w].revision, TRUE, documents[w].content)
  <2>1. /\ entry.workspaceId = w /\ entry.revision = documents[w].revision
        /\ entry.content = documents[w].content
        /\ documents[w].revision \in Nat /\ documents[w].revision > 0
    BY <1>3 DEF Snapshot, Document, Stored
  <2> HIDE DEF entry
  <2>2. /\ revisions' \subseteq revisions \union {entry}
        /\ \A e \in revisions' :
             e.workspaceId = w /\ e.revision = documents[w].revision => e = entry
    BY <1>3, <2>1, PutRevisionKeeps DEF entry
  <2>3. \A e \in revisions' :
          /\ e.revision \in 1..documents[e.workspaceId].revision
          /\ e.revision = documents[e.workspaceId].revision =>
               e.content = documents[e.workspaceId].content
    BY <2>1, <2>2 DEF SnapshotsFaithful
  <2>4. \A e, f \in revisions' :
          e.workspaceId = f.workspaceId /\ e.revision = f.revision => f = e
    <3> SUFFICES ASSUME NEW e \in revisions', NEW f \in revisions',
                        e.workspaceId = f.workspaceId, e.revision = f.revision
                 PROVE  f = e
      OBVIOUS
    <3>1. CASE e \in revisions /\ f \in revisions
      BY <3>1 DEF SnapshotsFaithful, SnapshotsOf
    <3>2. CASE e = entry \/ f = entry
      BY <2>1, <2>2, <3>2
    <3> QED BY <2>2, <3>1, <3>2
  <2> QED BY <1>3, <2>3, <2>4 DEF SnapshotsFaithful, SnapshotsOf
<1> QED BY <1>1, <1>2, <1>3 DEF StorageStep, StorageAdvance, StorageName

LEMMA ArchiveInvariant == Spec => []ArchiveInv
<1>1. Init => ArchiveInv
  BY InitTypeInv DEF Init, ArchiveInv, SnapshotsFaithful
<1>2. ArchiveInv /\ [Next]_vars => ArchiveInv'
  BY NextTypeInv, NextStorage, NextFaithful DEF ArchiveInv
<1> QED BY <1>1, <1>2, PTL DEF Spec

\* No snapshot is ahead of its document and none contradicts it, although a
\* failed write may leave the document ahead of its snapshots.
THEOREM FaithfulSnapshots == Spec => []SnapshotsFaithful
<1>1. ArchiveInv => SnapshotsFaithful
  BY DEF ArchiveInv
<1> QED BY <1>1, ArchiveInvariant, PTL

\* Every storage step of the write path is a step of the version archive.
LEMMA ArchiveStep ==
  ASSUME ArchiveInv, StorageStep
  PROVE  [Archive!Next]_<<documents, revisions>>
<1> USE DEF ArchiveInv, TypeInv, TypeOK
<1>1. CASE UNCHANGED <<documents, revisions>>
  BY <1>1
<1>2. ASSUME NEW w \in WorkspaceIds, NEW c \in Contents,
             documents' = [documents EXCEPT ![w] =
                             [revision |-> documents[w].revision + 1, content |-> c]],
             revisions' \in
               {revisions, PutRevision(Snapshot(w, documents[w].revision + 1, FALSE, c))}
      PROVE  Archive!Next
  <2> DEFINE n == documents[w].revision + 1
             entry == Snapshot(w, n, FALSE, c)
  <2>1. entry = Archive!Archived(w, n, FALSE, c)
    BY DEF Snapshot, Archive!Archived
  <2>2. entry.workspaceId = w /\ entry.revision = n /\ documents[w].revision \in Nat
    BY DEF Snapshot, Document
  <2>3. \A e \in revisions : ~(e.workspaceId = w /\ e.revision = n)
    BY <2>2 DEF SnapshotsFaithful
  <2> HIDE DEF entry
  <2>k. /\ PutRevision(entry) \subseteq revisions \union {entry}
        /\ \A e \in revisions : e.named => e \in PutRevision(entry)
    BY <2>2, <2>3, PutRevisionKeeps
  <2>r. revisions' = revisions \/ revisions' = PutRevision(entry)
    BY <1>2 DEF entry
  <2>4. revisions' \subseteq revisions \union {entry} /\ \A e \in revisions : e.named => e \in revisions'
    BY <2>k, <2>r
  <2>5. Archive!MayBecome({Archive!Archived(w, n, FALSE, c)})
    BY <2>1, <2>4 DEF Archive!MayBecome
  <2>6. Archive!Advance(w)
    BY <1>2, <2>5 DEF Archive!Advance
  <2> QED BY <2>6 DEF Archive!Next
<1>3. ASSUME NEW w \in WorkspaceIds, Stored(w), documents' = documents,
             revisions' =
               PutRevision(Snapshot(w, documents[w].revision, TRUE, documents[w].content))
      PROVE  Archive!Next
  <2> DEFINE entry == Snapshot(w, documents[w].revision, TRUE, documents[w].content)
  <2>1. /\ entry = Archive!Archived(w, documents[w].revision, TRUE, documents[w].content)
        /\ entry.workspaceId = w /\ entry.revision = documents[w].revision /\ entry.named
    BY DEF Snapshot, Archive!Archived
  <2>2. \A e \in revisions :
          e.workspaceId = w /\ e.revision = documents[w].revision /\ e.named => e = entry
    BY DEF Snapshot, SavedRevision, SnapshotsFaithful
  <2> HIDE DEF entry
  <2>3. revisions' \subseteq revisions \union {entry} /\ \A e \in revisions : e.named => e \in revisions'
    BY <1>3, <2>1, <2>2, PutRevisionKeeps DEF entry
  <2>4. Archive!Name(w)
    BY <1>3, <2>1, <2>3 DEF Archive!Name, Archive!MayBecome, Stored
  <2> QED BY <2>4 DEF Archive!Next
<1> QED BY <1>1, <1>2, <1>3 DEF StorageStep, StorageAdvance, StorageName

\* The write path implements the archive of numbered versions: revisions
\* move forward one at a time and saved ones are never forgotten, with any
\* number of tabs, reloads and failed writes.
THEOREM WritePathImplementsArchive == Spec => ImplementsArchive
<1>1. Init => Archive!Init
  BY DEF Init, Archive!Init
<1>2. ArchiveInv /\ [Next]_vars => [Archive!Next]_<<documents, revisions>>
  BY NextStorage, ArchiveStep DEF ArchiveInv
<1> QED BY <1>1, <1>2, ArchiveInvariant, PTL DEF Spec, Archive!Spec, ImplementsArchive

\* Restoring a revision gives what was stored under its number, always.
THEOREM RevisionsKeepMeaning == Spec => SnapshotsNeverRewritten
<1>1. ASSUME ArchiveInv, ArchiveInv', [Next]_vars
      PROVE  [\A e \in revisions, f \in revisions' :
                e.workspaceId = f.workspaceId /\ e.revision = f.revision =>
                  e.content = f.content]_vars
  <2>1. StorageStep
    BY <1>1, NextStorage DEF ArchiveInv
  <2>2. ASSUME NEW e \in revisions, NEW f \in revisions',
               e.workspaceId = f.workspaceId, e.revision = f.revision
        PROVE  e.content = f.content
    <3>1. CASE f \in revisions
      BY <1>1, <2>2, <3>1 DEF ArchiveInv, SnapshotsFaithful, SnapshotsOf
    <3>2. ASSUME NEW w \in WorkspaceIds, NEW c \in Contents,
                 f = Snapshot(w, documents[w].revision + 1, FALSE, c)
          PROVE  FALSE
      <4>1. f.workspaceId = w /\ f.revision = documents[w].revision + 1
        BY <3>2 DEF Snapshot
      <4>2. documents[w].revision \in Nat
        BY <1>1 DEF ArchiveInv, TypeInv, TypeOK, Document
      <4> QED BY <1>1, <2>2, <4>1, <4>2 DEF ArchiveInv, SnapshotsFaithful
    <3>3. ASSUME NEW w \in WorkspaceIds,
                 f = Snapshot(w, documents[w].revision, TRUE, documents[w].content)
          PROVE  e.content = f.content
      BY <1>1, <2>2, <3>3 DEF Snapshot, ArchiveInv, SnapshotsFaithful
    <3>4. \/ f \in revisions
          \/ \E w \in WorkspaceIds, c \in Contents :
               f = Snapshot(w, documents[w].revision + 1, FALSE, c)
          \/ \E w \in WorkspaceIds :
               f = Snapshot(w, documents[w].revision, TRUE, documents[w].content)
      BY <2>1, StorageGains
    <3> QED BY <3>1, <3>2, <3>3, <3>4
  <2> QED BY <2>2
<1> QED BY <1>1, ArchiveInvariant, PTL DEF Spec, SnapshotsNeverRewritten

\* What the user saved under a name can be restored for good.
THEOREM SavedRevisionsSurvive == Spec => SavedRevisionsKept
<1>1. ASSUME ArchiveInv, [Next]_vars
      PROVE  [\A e \in revisions : e.named => e \in revisions']_vars
  <2>1. [Archive!Next]_<<documents, revisions>>
    BY <1>1, NextStorage, ArchiveStep DEF ArchiveInv
  <2> QED BY <2>1 DEF Archive!Next, Archive!Advance, Archive!Name, Archive!MayBecome
<1> QED BY <1>1, ArchiveInvariant, PTL DEF Spec, SavedRevisionsKept

-----------------------------------------------------------------------------
(* The numbers: every set of naturals has a least member *)

\* The intervals 1..x are finite sets, and inclusion of finite sets is well
\* founded; the least interval ends at the least number.
LEMMA LeastNatural ==
  ASSUME NEW T, T \subseteq Nat, T # {}
  PROVE  \E m \in T : \A k \in T : m <= k
<1> DEFINE D == {1..x : x \in T}
<1>1. D \subseteq FiniteSubsetsOf(Nat) /\ D # {}
  <2>1. \A x \in T : 1..x \in SUBSET Nat /\ IsFiniteSet(1..x)
    BY FS_Interval
  <2> QED BY <2>1 DEF FiniteSubsetsOf
<1>2. IsWellFoundedOn(StrictSubsetOrdering(Nat), FiniteSubsetsOf(Nat))
  BY FS_StrictSubsetOrderingWellFounded
<1> HIDE DEF D
<1>3. PICK X \in D : \A Y \in D : <<Y, X>> \notin StrictSubsetOrdering(Nat)
  BY <1>1, <1>2, WFMin
<1>4. PICK m \in T : X = 1..m
  BY DEF D
<1>5. ASSUME NEW k \in T, k < m PROVE FALSE
  <2>1. 1..k \in D /\ 1..k \in SUBSET Nat /\ 1..m \in SUBSET Nat
    BY <1>5 DEF D
  <2>2. 1..k \subseteq 1..m /\ m \in 1..m /\ m \notin 1..k
    BY <1>5
  <2>3. <<1..k, 1..m>> \in StrictSubsetOrdering(Nat)
    BY <2>1, <2>2 DEF StrictSubsetOrdering
  <2> QED BY <1>3, <1>4, <2>1, <2>3
<1>6. \A k \in T : m <= k
  BY <1>5
<1> QED BY <1>6

\* A function maps a finite set onto a finite set that is no larger.
LEMMA FiniteImage ==
  ASSUME NEW S, IsFiniteSet(S), NEW f, DOMAIN f = S, f = [x \in S |-> f[x]]
  PROVE  /\ IsFiniteSet({f[x] : x \in S})
         /\ Cardinality({f[x] : x \in S}) <= Cardinality(S)
<1> DEFINE T == {f[x] : x \in S}
<1>1. f \in Surjection(S, T)
  BY DEF Surjection
<1> HIDE DEF T
<1>2. IsFiniteSet(T) /\ Cardinality(T) <= Cardinality(S)
  BY <1>1, FS_Surjection
<1> QED BY <1>2 DEF T

-----------------------------------------------------------------------------
(* What the log's operators return *)

\* The oldest record: the least change id among those of the least revision.
LEMMA OldestRecord ==
  ASSUME NEW records \in SUBSET ChangeRecord, records # {}
  PROVE  \E o \in records : \A q \in records : ~Older(q, o)
<1>1. \A r \in records : r.revision \in Nat /\ r.changeId \in Nat
  BY DEF ChangeRecord
<1>2. PICK n \in {r.revision : r \in records} : \A k \in {r.revision : r \in records} : n <= k
  BY <1>1, LeastNatural
<1> DEFINE first == {r \in records : r.revision = n}
<1>3. first # {}
  BY <1>2
<1>4. PICK c \in {r.changeId : r \in first} : \A k \in {r.changeId : r \in first} : c <= k
  <2>1. {r.changeId : r \in first} \subseteq Nat /\ {r.changeId : r \in first} # {}
    BY <1>1, <1>3
  <2> HIDE DEF first
  <2> QED BY <2>1, LeastNatural
<1>5. PICK o \in first : o.changeId = c
  BY <1>4
<1>6. ASSUME NEW q \in records, Older(q, o) PROVE FALSE
  <2>1. CASE q.revision < o.revision
    <3>1. n <= q.revision /\ o.revision = n /\ n \in Nat /\ q.revision \in Nat
      BY <1>1, <1>2, <1>5
    <3> QED BY <2>1, <3>1
  <2>2. CASE q.revision = o.revision /\ q.changeId < o.changeId
    <3>1. q \in first /\ c <= q.changeId /\ o.changeId = c /\ q.changeId \in Nat /\ c \in Nat
      BY <1>1, <1>4, <1>5, <2>2
    <3> QED BY <2>2, <3>1
  <2> QED BY <1>6, <2>1, <2>2 DEF Older
<1> QED BY <1>5, <1>6

\* Pruning a log of spent records and one newer change drops the oldest
\* spent record, and never the change that was just made.
LEMMA PruneKeepsNewest ==
  ASSUME NEW records \in SUBSET ChangeRecord, IsFiniteSet(records),
         Cardinality(records) <= MaxRecords + 1, NEW new \in records,
         \A r \in records \ {new} : r.undoState # "available" /\ Older(r, new)
  PROVE  /\ PruneRecords(records) \subseteq records
         /\ new \in PruneRecords(records)
         /\ Cardinality(PruneRecords(records)) <= MaxRecords
<1> DEFINE spent == {r \in records : r.undoState # "available"}
           excess == Cardinality(records) - MaxRecords
           older(r) == {q \in spent : Older(q, r)}
           dropped == {r \in spent : Cardinality(older(r)) < excess}
<1>1. PruneRecords(records) = records \ dropped
  BY DEF PruneRecords
<1>2. /\ Cardinality(records) \in Nat /\ MaxRecords \in Nat /\ MaxRecords > 0
      /\ IsFiniteSet(spent)
  BY BoundsAssumption, FS_CardinalityType, FS_Subset
<1>3. \A r \in records : /\ IsFiniteSet(older(r))
                         /\ Cardinality(older(r)) \in Nat
                         /\ Cardinality(older(r)) = 0 <=> older(r) = {}
  <2> TAKE r \in records
  <2>1. older(r) \in SUBSET records
    OBVIOUS
  <2> HIDE DEF older
  <2> QED BY <2>1, FS_Subset, FS_CardinalityType, FS_EmptySet
<1>4. CASE excess <= 0
  <2>1. dropped = {}
    BY <1>2, <1>3, <1>4
  <2> HIDE DEF dropped
  <2>2. PruneRecords(records) = records
    BY <1>1, <2>1
  <2> QED BY <1>2, <1>4, <2>2
<1>5. CASE excess = 1
  <2>1. records \ {new} # {}
    <3>1. Cardinality(records \ {new}) = Cardinality(records) - 1 /\ IsFiniteSet(records \ {new})
      BY FS_RemoveElement
    <3> QED BY <1>2, <1>5, <3>1, FS_EmptySet
  <2>2. PICK o \in records \ {new} : \A q \in records \ {new} : ~Older(q, o)
    BY <2>1, OldestRecord
  <2>3. o \in spent /\ Older(o, new)
    OBVIOUS
  <2>4. ~Older(new, o)
    BY <2>3 DEF Older, ChangeRecord
  <2>5. older(o) = {} /\ Cardinality(older(o)) = 0
    <3>1. older(o) = {}
      BY <2>2, <2>4
    <3> HIDE DEF older
    <3> QED BY <3>1, FS_EmptySet
  <2>6. o \in dropped
    BY <1>5, <2>3, <2>5
  <2>7. new \notin dropped
    <3>1. older(new) # {}
      BY <2>3
    <3> HIDE DEF older
    <3>2. Cardinality(older(new)) \in Nat /\ Cardinality(older(new)) # 0
      BY <1>3, <3>1
    <3>3. ~(Cardinality(older(new)) < excess)
      BY <1>5, <3>2
    <3> QED BY <3>3
  <2> HIDE DEF dropped, spent
  <2>8. Cardinality(records \ {o}) = Cardinality(records) - 1 /\ IsFiniteSet(records \ {o})
    BY FS_RemoveElement
  <2>9. Cardinality(records \ dropped) <= Cardinality(records \ {o})
    <3>1. records \ dropped \in SUBSET (records \ {o})
      BY <2>6
    <3> QED BY <2>8, <3>1, FS_Subset
  <2>10. Cardinality(records \ dropped) \in Nat
    BY FS_CardinalityType, FS_Difference
  <2> QED BY <1>1, <1>2, <1>5, <2>7, <2>8, <2>9, <2>10
<1>6. excess \in Int /\ excess <= 1
  BY <1>2
<1> QED BY <1>4, <1>5, <1>6

\* Two states of the record of one change.
SameChange(r, q) ==
  /\ r.workspaceId = q.workspaceId /\ r.revision = q.revision /\ r.changeId = q.changeId
  /\ r.undoToken = q.undoToken /\ r.inverse = q.inverse /\ r.forward = q.forward

OfWorkspace(records, w) == {r \in records : r.workspaceId = w}

\* What appending a change to a log leaves: nothing but states of the
\* records there were and of the new one, of its workspace at most the new
\* one available, every other workspace as it was.
Appended(result, records, new) ==
  /\ result \subseteq ChangeRecord /\ IsFiniteSet(result)
  /\ \A w \in WorkspaceIds : Cardinality(OfWorkspace(result, w)) <= MaxRecords
  /\ \E r \in result : SameChange(r, new)
  /\ \A r \in result : \E q \in records \union {new} :
       /\ SameChange(r, q)
       /\ r.undoState = "available" =>
            q.undoState = "available" /\ (q = new \/ q.workspaceId # new.workspaceId)
  /\ \A q \in records : q.workspaceId # new.workspaceId => \E r \in result : SameChange(r, q)

LEMMA AppendKeeps ==
  ASSUME NEW records \in SUBSET ChangeRecord, IsFiniteSet(records), NEW new \in ChangeRecord,
         \A w \in WorkspaceIds : Cardinality(OfWorkspace(records, w)) <= MaxRecords,
         \A r \in records : r.workspaceId = new.workspaceId => Older(r, new)
  PROVE  Appended(Append(records, new), records, new)
<1> DEFINE supersede(r) == IF r.undoState = "available"
                             THEN [r EXCEPT !.undoState = "superseded"] ELSE r
           same == {r \in records : r.workspaceId = new.workspaceId}
           marked == {supersede(r) : r \in same}
           all == marked \union {new}
           kept == PruneRecords(all)
           result == (records \ same) \union kept
<1>1. Append(records, new) = result
  BY DEF Append
<1>2. \A r \in ChangeRecord :
        /\ supersede(r) \in ChangeRecord /\ SameChange(supersede(r), r)
        /\ supersede(r).undoState # "available"
  BY DEF ChangeRecord, SameChange
<1>3. new.workspaceId \in WorkspaceIds
  BY DEF ChangeRecord
<1>4. IsFiniteSet(same) /\ Cardinality(same) <= MaxRecords
  BY <1>3, FS_Subset DEF OfWorkspace
<1>5. IsFiniteSet(marked) /\ Cardinality(marked) <= Cardinality(same)
  <2> DEFINE f == [r \in same |-> supersede(r)]
  <2>1. marked = {f[r] : r \in same} /\ DOMAIN f = same /\ f = [r \in same |-> f[r]]
    OBVIOUS
  <2> HIDE DEF f, marked, same
  <2> QED BY <1>4, <2>1, FiniteImage
<1>6. all \in SUBSET ChangeRecord /\ IsFiniteSet(all) /\ Cardinality(all) <= MaxRecords + 1
  <2>1. all \in SUBSET ChangeRecord
    BY <1>2
  <2> HIDE DEF marked, same
  <2>2. /\ IsFiniteSet(all)
        /\ Cardinality(all) = IF new \in marked THEN Cardinality(marked) ELSE Cardinality(marked) + 1
    BY <1>5, FS_AddElement
  <2>3. Cardinality(marked) \in Nat /\ Cardinality(same) \in Nat /\ MaxRecords \in Nat
    BY <1>4, <1>5, FS_CardinalityType, BoundsAssumption
  <2> QED BY <1>4, <1>5, <2>1, <2>2, <2>3
<1>7. \A r \in all \ {new} : r.undoState # "available" /\ Older(r, new)
  BY <1>2 DEF Older, SameChange
<1>8. kept \subseteq all /\ new \in kept /\ Cardinality(kept) <= MaxRecords
  <2> HIDE DEF all
  <2>1. new \in all
    BY DEF all
  <2> QED BY <1>6, <1>7, <2>1, PruneKeepsNewest
<1>9. IsFiniteSet(kept) /\ IsFiniteSet(result)
  <2> HIDE DEF all, same
  <2>1. IsFiniteSet(kept)
    BY <1>6, <1>8, FS_Subset
  <2>2. IsFiniteSet(records \ same)
    BY FS_Difference
  <2> HIDE DEF kept
  <2> QED BY <2>1, <2>2, FS_Union
<1>10. \A r \in all : r.workspaceId = new.workspaceId
  BY <1>2 DEF SameChange
<1>11. ASSUME NEW w \in WorkspaceIds
       PROVE  Cardinality(OfWorkspace(result, w)) <= MaxRecords
  <2>1. CASE w = new.workspaceId
    <3>1. OfWorkspace(result, w) = kept
      BY <1>8, <1>10, <2>1 DEF OfWorkspace
    <3> QED BY <1>8, <3>1
  <2>2. CASE w # new.workspaceId
    <3>1. OfWorkspace(result, w) = OfWorkspace(records, w)
      BY <1>8, <1>10, <2>2 DEF OfWorkspace
    <3> QED BY <3>1
  <2> QED BY <2>1, <2>2
<1>12. ASSUME NEW r \in result
       PROVE  \E q \in records \union {new} :
                /\ SameChange(r, q)
                /\ r.undoState = "available" =>
                     q.undoState = "available" /\ (q = new \/ q.workspaceId # new.workspaceId)
  <2>1. CASE r \in records \ same \/ r = new
    BY <2>1 DEF SameChange
  <2>2. CASE r \in marked
    BY <1>2, <2>2
  <2> QED BY <1>8, <2>1, <2>2
<1>13. result \subseteq ChangeRecord
  BY <1>6, <1>8
<1>14. \E r \in result : SameChange(r, new)
  BY <1>8 DEF SameChange
<1>15. \A q \in records : q.workspaceId # new.workspaceId => \E r \in result : SameChange(r, q)
  BY DEF SameChange
<1> HIDE DEF result
<1> QED BY <1>1, <1>9, <1>11, <1>12, <1>13, <1>14, <1>15 DEF Appended

\* Redeeming a token afterwards changes none of this.
LEMMA RedeemKeeps ==
  ASSUME NEW result, NEW records, NEW new, NEW token, Appended(result, records, new)
  PROVE  Appended(Redeem(result, token), records, new)
<1> DEFINE redeem(r) == IF r.undoToken = token THEN [r EXCEPT !.undoState = "redeemed"] ELSE r
           f == [r \in result |-> redeem(r)]
           redeemed == {f[r] : r \in result}
<1>1. Redeem(result, token) = redeemed
  BY DEF Redeem
<1>2. \A r \in result :
        /\ f[r] \in ChangeRecord /\ SameChange(f[r], r)
        /\ f[r].undoState = "available" => r.undoState = "available"
  BY DEF Appended, ChangeRecord, SameChange
<1>3. DOMAIN f = result /\ f = [r \in result |-> f[r]]
  OBVIOUS
<1> HIDE DEF f
<1>4. IsFiniteSet(redeemed)
  BY <1>3, FiniteImage DEF Appended
<1>5. ASSUME NEW w \in WorkspaceIds
      PROVE  Cardinality(OfWorkspace(redeemed, w)) <= MaxRecords
  <2> DEFINE S == OfWorkspace(result, w)
             g == [r \in S |-> f[r]]
             image == {g[r] : r \in S}
  <2>1. \A r \in result : f[r].workspaceId = r.workspaceId
    BY <1>2 DEF SameChange
  <2>2. OfWorkspace(redeemed, w) = image
    <3>1. image = {f[r] : r \in S}
      OBVIOUS
    <3>2. {f[r] : r \in S} = {x \in redeemed : x.workspaceId = w}
      BY <2>1 DEF OfWorkspace
    <3> QED BY <3>1, <3>2 DEF OfWorkspace
  <2>3. DOMAIN g = S /\ g = [r \in S |-> g[r]]
    OBVIOUS
  <2>4. IsFiniteSet(S) /\ Cardinality(S) <= MaxRecords
    BY FS_Subset DEF Appended, OfWorkspace
  <2> HIDE DEF S, g
  <2>5. IsFiniteSet(image) /\ Cardinality(image) <= Cardinality(S)
    BY <2>3, <2>4, FiniteImage
  <2> HIDE DEF image
  <2>6. Cardinality(image) \in Nat /\ Cardinality(S) \in Nat /\ MaxRecords \in Nat
    BY <2>4, <2>5, FS_CardinalityType, BoundsAssumption
  <2> QED BY <2>2, <2>4, <2>5, <2>6
<1>6. \A r \in redeemed : \E q \in records \union {new} :
        /\ SameChange(r, q)
        /\ r.undoState = "available" =>
             q.undoState = "available" /\ (q = new \/ q.workspaceId # new.workspaceId)
  <2> TAKE r \in redeemed
  <2>1. PICK p \in result : r = f[p]
    OBVIOUS
  <2>2. PICK q \in records \union {new} :
          /\ SameChange(p, q)
          /\ p.undoState = "available" =>
               q.undoState = "available" /\ (q = new \/ q.workspaceId # new.workspaceId)
    BY DEF Appended
  <2> QED BY <1>2, <2>1, <2>2 DEF SameChange
<1>7. redeemed \subseteq ChangeRecord
  BY <1>2
<1>8. \A q : (\E r \in result : SameChange(r, q)) => \E r \in redeemed : SameChange(r, q)
  BY <1>2 DEF SameChange
<1>9. \E r \in redeemed : SameChange(r, new)
  BY <1>8 DEF Appended
<1>10. \A q \in records : q.workspaceId # new.workspaceId => \E r \in redeemed : SameChange(r, q)
  BY <1>8 DEF Appended
<1> HIDE DEF redeemed
<1> QED BY <1>1, <1>4, <1>5, <1>6, <1>7, <1>9, <1>10 DEF Appended

-----------------------------------------------------------------------------
(* What a step does to the log *)

\* What the inverse of a new record restores: nothing, the document it
\* replaced, or what the change being undone had made.
RestoresBefore(t, new) ==
  \/ new.inverse \in {NoInverse, documents[new.workspaceId].content}
  \/ \E r \in history[t] : /\ UndoAccepted(t, r)
                           /\ r.workspaceId = new.workspaceId /\ r.forward = new.inverse

\* A change is logged with the version it made, or a save with the version
\* it found.
LogGrows(t, new) ==
  /\ new.changeId = ids[t].change + 1
  /\ new.undoState = "available" => new.undoToken # 0
  /\ new.revision = documents'[new.workspaceId].revision
  /\ new.forward = documents'[new.workspaceId].content
  /\ \/ documents' = documents /\ new.inverse = NoInverse
     \/ /\ documents' = [documents EXCEPT ![new.workspaceId] =
             [revision |-> documents[new.workspaceId].revision + 1, content |-> new.forward]]
        /\ RestoresBefore(t, new)
  /\ ids'[t].change = ids[t].change + 1
  /\ \A u \in Tabs \ {t} : ids'[u].change = ids[u].change
  /\ \E result : /\ \/ result = Append(history[t], new)
                    \/ \E token : result = Redeem(Append(history[t], new), token)
                 /\ history' = [history EXCEPT ![t] = result]

\* Or it is forgotten by a reload, or left alone.
LogForgets(t) ==
  /\ history' = [history EXCEPT ![t] = {}]
  /\ \A u \in Tabs \ {t} : ids'[u].change >= ids[u].change

LogKept ==
  /\ UNCHANGED history
  /\ \A u \in Tabs : ids'[u].change >= ids[u].change

\* A step that does not add to the log leaves the documents alone unless a
\* write fails.
LogStep ==
  \/ \E t \in Tabs, new \in ChangeRecord : LogGrows(t, new)
  \/ /\ LogKept \/ \E t \in Tabs : LogForgets(t)
     /\ StorageFails \/ UNCHANGED documents

\* The step of a commit: the log grows by the change that replaces the
\* document of w by `forward` and whose undo restores `inverse`.
Grows(t, w, forward, inverse) ==
  \E new \in ChangeRecord :
    /\ LogGrows(t, new)
    /\ new.workspaceId = w /\ new.revision = documents[w].revision + 1
    /\ new.forward = forward /\ new.inverse = inverse

\* A tab's counter and log left alone.
LEMMA KeptLogged ==
  ASSUME TypeInv, UNCHANGED <<documents, history>>,
         \A u \in Tabs : ids'[u].change = ids[u].change
  PROVE  LogStep
<1>1. \A u \in Tabs : ids[u].change \in Nat
  BY DEF TypeInv, TypeOK
<1> QED BY <1>1 DEF LogStep, LogKept

\* A tab whose log is forgotten, at a load or a reload.
LEMMA ForgotLogged ==
  ASSUME TypeInv, NEW t \in Tabs, history' = [history EXCEPT ![t] = {}],
         ids' = [ids EXCEPT ![t] = NoIds], StorageFails \/ UNCHANGED documents
  PROVE  LogStep
<1>1. \A u \in Tabs \ {t} : ids'[u].change >= ids[u].change
  BY DEF TypeInv, TypeOK
<1>2. LogForgets(t)
  BY <1>1 DEF LogForgets
<1> QED BY <1>2 DEF LogStep

LEMMA RecordCommitGrows ==
  ASSUME TypeInv, NEW t \in Tabs, NEW w \in WorkspaceIds, NEW call, NEW request,
         NEW forward \in Contents, NEW inverse \in Contents \union {NoInverse},
         NEW minted \in Counters, minted.change = ids[t].change,
         inverse \in {NoInverse, documents[w].content},
         RecordCommit(t, w, call, request, forward, inverse, minted)
  PROVE  Grows(t, w, forward, inverse)
<1> DEFINE new == NewRecord(t, w, documents[w].revision + 1, forward, inverse)
<1>1. documents[w].revision + 1 \in Nat /\ documents \in [WorkspaceIds -> Document]
  BY DEF TypeInv, TypeOK, Document
<1>2. new \in ChangeRecord
  BY <1>1, NewRecordType
<1>3. /\ new.workspaceId = w /\ new.changeId = ids[t].change + 1
      /\ new.revision = documents[w].revision + 1 /\ new.forward = forward
      /\ new.inverse = inverse
      /\ new.undoState = "available" => new.undoToken # 0
  BY DEF NewRecord, TypeInv, TypeOK
<1>4. /\ documents' = [documents EXCEPT ![w] =
                         [revision |-> documents[w].revision + 1, content |-> forward]]
      /\ ids' = [ids EXCEPT ![t] = Counted(minted, inverse)]
      /\ history' = [history EXCEPT ![t] = Append(history[t], new)]
  BY DEF RecordCommit, Commit, Recorded
<1> HIDE DEF new
<1>5. documents'[w] = [revision |-> documents[w].revision + 1, content |-> forward]
  BY <1>1, <1>4
<1>6. ids'[t].change = ids[t].change + 1 /\ \A u \in Tabs \ {t} : ids'[u].change = ids[u].change
  BY <1>4 DEF Counted, Counters, TypeInv, TypeOK
<1>7. \E result : /\ \/ result = Append(history[t], new)
                    \/ \E token : result = Redeem(Append(history[t], new), token)
                 /\ history' = [history EXCEPT ![t] = result]
  BY <1>4
<1>8. RestoresBefore(t, new)
  BY <1>3 DEF RestoresBefore
<1>9. /\ new.revision = documents'[new.workspaceId].revision
      /\ new.forward = documents'[new.workspaceId].content
  BY <1>3, <1>5
<1>10. documents' = [documents EXCEPT ![new.workspaceId] =
          [revision |-> documents[new.workspaceId].revision + 1, content |-> new.forward]]
  BY <1>3, <1>4
<1>11. LogGrows(t, new)
  BY <1>3, <1>6, <1>7, <1>8, <1>9, <1>10 DEF LogGrows
<1> QED BY <1>2, <1>3, <1>11 DEF Grows

LEMMA RecordCommitLogged ==
  ASSUME TypeInv, NEW t \in Tabs, NEW w \in WorkspaceIds, NEW call, NEW request,
         NEW forward \in Contents, NEW inverse \in Contents \union {NoInverse},
         NEW minted \in Counters, minted.change = ids[t].change,
         inverse \in {NoInverse, documents[w].content},
         RecordCommit(t, w, call, request, forward, inverse, minted)
  PROVE  LogStep
<1>1. Grows(t, w, forward, inverse)
  BY RecordCommitGrows
<1> QED BY <1>1 DEF Grows, LogStep

LEMMA FailCommitLogged ==
  ASSUME TypeInv, NEW t \in Tabs, NEW w, NEW call, NEW request, NEW forward,
         NEW minted \in Counters, minted.change = ids[t].change,
         FailCommit(t, w, call, request, forward, minted)
  PROVE  LogStep
BY DEF FailCommit, LogStep, LogKept, TypeInv, TypeOK

LEMMA UndoGrows ==
  ASSUME TypeInv, NEW t \in Tabs, NEW r \in history[t], Undo(t, r)
  PROVE  \/ FailCommit(t, r.workspaceId, "undo", Unkeyed, r.inverse, ids[t])
         \/ Grows(t, r.workspaceId, r.inverse, r.forward)
<1> DEFINE w == r.workspaceId
           new == NewRecord(t, w, documents[w].revision + 1, r.inverse, r.forward)
<1>1. /\ r \in ChangeRecord /\ w \in WorkspaceIds
      /\ r.forward \in Contents /\ r.inverse \in Contents
  BY DEF ChangeRecord, Undo, UndoAccepted, TypeInv, TypeOK, TokensRestore
<1>2. documents[w].revision + 1 \in Nat /\ documents \in [WorkspaceIds -> Document]
  BY <1>1 DEF TypeInv, TypeOK, Document
<1>3. ASSUME Commit(t, w, "undo", Unkeyed, r.inverse, r.forward, ids[t]),
             history' = [history EXCEPT ![t] =
               Redeem(Recorded(t, w, r.inverse, r.forward), r.undoToken)]
      PROVE  Grows(t, w, r.inverse, r.forward)
  <2>1. new \in ChangeRecord
    BY <1>1, <1>2, NewRecordType
  <2>2. /\ new.workspaceId = w /\ new.changeId = ids[t].change + 1
        /\ new.revision = documents[w].revision + 1 /\ new.forward = r.inverse
        /\ new.inverse = r.forward
        /\ new.undoState = "available" => new.undoToken # 0
    BY DEF NewRecord, TypeInv, TypeOK
  <2>3. /\ documents' = [documents EXCEPT ![w] =
                           [revision |-> documents[w].revision + 1, content |-> r.inverse]]
        /\ ids' = [ids EXCEPT ![t] = Counted(ids[t], r.forward)]
        /\ history' = [history EXCEPT ![t] = Redeem(Append(history[t], new), r.undoToken)]
    BY <1>3 DEF Commit, Recorded
  <2> HIDE DEF new
  <2>4. documents'[w] = [revision |-> documents[w].revision + 1, content |-> r.inverse]
    BY <1>1, <1>2, <2>3
  <2>5. ids'[t].change = ids[t].change + 1 /\ \A u \in Tabs \ {t} : ids'[u].change = ids[u].change
    BY <2>3 DEF Counted, TypeInv, TypeOK
  <2>6. RestoresBefore(t, new)
    BY <2>2 DEF RestoresBefore, Undo
  <2>7. \E result : /\ \/ result = Append(history[t], new)
                      \/ \E token : result = Redeem(Append(history[t], new), token)
                   /\ history' = [history EXCEPT ![t] = result]
    BY <2>3
  <2>8. /\ new.revision = documents'[new.workspaceId].revision
        /\ new.forward = documents'[new.workspaceId].content
    BY <2>2, <2>4
  <2>9. documents' = [documents EXCEPT ![new.workspaceId] =
          [revision |-> documents[new.workspaceId].revision + 1, content |-> new.forward]]
    BY <2>2, <2>3
  <2>10. LogGrows(t, new)
    BY <2>2, <2>5, <2>6, <2>7, <2>8, <2>9 DEF LogGrows
  <2> QED BY <2>1, <2>2, <2>10 DEF Grows
<1> QED BY <1>3 DEF Undo

LEMMA UndoLogged ==
  ASSUME TypeInv, NEW t \in Tabs, NEW r \in history[t], Undo(t, r)
  PROVE  LogStep
<1>1. CASE FailCommit(t, r.workspaceId, "undo", Unkeyed, r.inverse, ids[t])
  <2>1. ids[t] \in Counters
    BY DEF TypeInv, TypeOK, Counters
  <2> QED BY <1>1, <2>1, FailCommitLogged
<1>2. CASE Grows(t, r.workspaceId, r.inverse, r.forward)
  BY <1>2 DEF Grows, LogStep
<1> QED BY <1>1, <1>2, UndoGrows

LEMMA SaveLogged ==
  ASSUME TypeInv, NEW t \in Tabs, NEW target \in Targets, NEW expected \in ExpectedRevisions,
         NEW key \in Keys \union {NoKey}, SaveWorkspace(t, target, expected, key)
  PROVE  LogStep
<1> DEFINE w == Resolve(target)
           new == NewRecord(t, w, documents[w].revision, documents[w].content, NoInverse)
<1>1. w \in WorkspaceIds /\ UNCHANGED documents
  BY ResolveType DEF SaveWorkspace
<1>2. CASE UNCHANGED history /\ UNCHANGED ids
  BY <1>1, <1>2, KeptLogged
<1>3. ASSUME ids' = [ids EXCEPT ![t].change = @ + 1],
             history' = [history EXCEPT ![t] = Append(@, new)]
      PROVE  LogStep
  <2>1. documents[w].revision \in Nat /\ documents[w].content \in Contents
    BY <1>1 DEF TypeInv, TypeOK, Document
  <2>2. new \in ChangeRecord
    BY <1>1, <2>1, NewRecordType
  <2>3. /\ new.workspaceId = w /\ new.changeId = ids[t].change + 1
        /\ new.revision = documents[w].revision /\ new.forward = documents[w].content
        /\ new.inverse = NoInverse /\ new.undoState # "available"
    BY DEF NewRecord
  <2>4. history' = [history EXCEPT ![t] = Append(history[t], new)]
    BY <1>3 DEF TypeInv, TypeOK
  <2> HIDE DEF new
  <2>5. ids'[t].change = ids[t].change + 1 /\ \A u \in Tabs \ {t} : ids'[u].change = ids[u].change
    BY <1>3 DEF TypeInv, TypeOK
  <2>6. LogGrows(t, new)
    BY <1>1, <2>3, <2>4, <2>5 DEF LogGrows
  <2> QED BY <2>2, <2>6 DEF LogStep
<1> QED BY <1>2, <1>3 DEF SaveWorkspace

\* Every step of the write path is a step of the log.
LEMMA NextLogged ==
  ASSUME TypeInv, [Next]_vars
  PROVE  LogStep
<1>c. \A t \in Tabs : ids[t] \in Counters
  BY DEF TypeInv, TypeOK, Counters
<1>d. \A w \in WorkspaceIds : documents[w].content \in Contents
  BY DEF TypeInv, TypeOK, Document
<1>1. CASE UNCHANGED vars
  BY <1>1, KeptLogged DEF vars
<1>2. ASSUME NEW t \in Tabs, NEW target \in Targets, NEW op \in Operations,
             NEW d \in Contents, NEW undoable \in BOOLEAN,
             NEW expected \in ExpectedRevisions, NEW key \in Keys \union {NoKey},
             Edit(t, target, op, d, undoable, expected, key)
      PROVE  LogStep
  <2> DEFINE w == Resolve(target)
             request == Request(key, [kind |-> op, workspaceId |-> target, input |-> expected],
                                expected)
             inverse == IF undoable THEN documents[w].content ELSE NoInverse
  <2>1. w \in WorkspaceIds
    BY <1>2, ResolveType DEF Edit
  <2>2. inverse \in Contents \union {NoInverse} /\ inverse \in {NoInverse, documents[w].content}
    BY <1>d, <2>1
  <2>3. CASE UNCHANGED <<storage, memory>>
    BY <2>3, KeptLogged DEF storage, memory
  <2>4. CASE RecordCommit(t, w, "edit", request, d, inverse, ids[t])
    BY <1>c, <2>1, <2>2, <2>4, RecordCommitLogged
  <2>5. CASE FailCommit(t, w, "edit", request, d, ids[t])
    BY <1>c, <2>5, FailCommitLogged
  <2> QED BY <1>2, <2>3, <2>4, <2>5 DEF Edit
<1>3. ASSUME NEW t \in Tabs, NEW key \in Keys \union {NoKey}, CreateWorkspace(t, key)
      PROVE  LogStep
  <2> DEFINE w == ids[t].workspace + 1
             request == Request(key, [kind |-> "create", workspaceId |-> 0, input |-> 0], 0)
             minted == [ids[t] EXCEPT !.workspace = w]
  <2>1. w \in WorkspaceIds /\ Blank \in Contents
    BY <1>3, ContentsAssumption, BoundsAssumption
       DEF CreateWorkspace, TypeInv, TypeOK, WorkspaceIds
  <2>2. minted \in Counters /\ minted.change = ids[t].change
    BY <1>c, <2>1, BoundsAssumption DEF Counters, WorkspaceIds
  <2>3. ASSUME ids' = [ids EXCEPT ![t] = minted], UNCHANGED <<documents, history>>
        PROVE  LogStep
    BY <1>c, <2>2, <2>3 DEF LogStep, LogKept, TypeInv, TypeOK
  <2> HIDE DEF minted
  <2>4. CASE RecordCommit(t, w, "create", request, Blank, NoInverse, minted)
    BY <2>1, <2>2, <2>4, RecordCommitLogged
  <2>5. CASE FailCommit(t, w, "create", request, Blank, minted)
    BY <2>2, <2>5, FailCommitLogged
  <2> QED BY <1>3, <2>3, <2>4, <2>5 DEF CreateWorkspace, minted
<1>4. ASSUME NEW t \in Tabs, NEW target \in Targets, NEW expected \in ExpectedRevisions,
             NEW key \in Keys \union {NoKey}, SaveWorkspace(t, target, expected, key)
      PROVE  LogStep
  BY <1>4, SaveLogged
<1>5. ASSUME NEW t \in Tabs, NEW target \in Targets, NEW r \in 1..MaxRevision,
             NEW expected \in ExpectedRevisions, NEW key \in Keys \union {NoKey},
             RestoreRevision(t, target, r, expected, key)
      PROVE  LogStep
  <2> DEFINE w == Resolve(target)
             request == Request(key, [kind |-> "restore", workspaceId |-> 0, input |-> r], expected)
             before == IF Stored(w) THEN documents[w].content ELSE NoInverse
  <2>1. w \in WorkspaceIds
    BY <1>5, ResolveType DEF RestoreRevision
  <2>2. \A e \in SnapshotsOf(w) : e.content \in Contents
    BY DEF SnapshotsOf, SavedRevision, TypeInv, TypeOK
  <2>3. before \in Contents \union {NoInverse} /\ before \in {NoInverse, documents[w].content}
    BY <1>d, <2>1
  <2>4. CASE UNCHANGED <<storage, memory>>
    BY <2>4, KeptLogged DEF storage, memory
  <2>5. ASSUME NEW e \in SnapshotsOf(w),
               RecordCommit(t, w, "restore", request, e.content, before, ids[t])
        PROVE  LogStep
    BY <1>c, <2>1, <2>2, <2>3, <2>5, RecordCommitLogged
  <2>6. ASSUME NEW e \in SnapshotsOf(w),
               FailCommit(t, w, "restore", request, e.content, ids[t])
        PROVE  LogStep
    BY <1>c, <2>6, FailCommitLogged
  <2> QED BY <1>5, <2>4, <2>5, <2>6 DEF RestoreRevision
<1>6. ASSUME NEW t \in Tabs, NEW r \in history[t], Undo(t, r)
      PROVE  LogStep
  BY <1>6, UndoLogged
<1>7. ASSUME NEW t \in Tabs, Boot(t)
      PROVE  LogStep
  <2> DEFINE w == ids[t].workspace + 1
             minted == [ids[t] EXCEPT !.workspace = w]
  <2>1. w \in WorkspaceIds /\ Blank \in Contents
    BY <1>7, ContentsAssumption, BoundsAssumption
       DEF Boot, TypeInv, Starting, NoIds, WorkspaceIds
  <2>2. minted \in Counters /\ minted.change = ids[t].change
    BY <1>c, <2>1, BoundsAssumption DEF Counters, WorkspaceIds
  <2>3. CASE UNCHANGED <<storage, history, idempotency, ids>>
    BY <2>3, KeptLogged DEF storage
  <2> HIDE DEF minted
  <2>4. CASE RecordCommit(t, w, "boot", Unkeyed, Blank, NoInverse, minted)
    BY <2>1, <2>2, <2>4, RecordCommitLogged
  <2>5. CASE FailCommit(t, w, "boot", Unkeyed, Blank, ids[t])
    BY <1>c, <2>5, FailCommitLogged
  <2> QED BY <1>7, <2>3, <2>4, <2>5 DEF Boot, minted
<1>8. ASSUME NEW t \in Tabs, Seed(t)
      PROVE  LogStep
  <2> DEFINE w == ids[t].workspace
  <2>1. w \in WorkspaceIds /\ Seeded \in Contents
    BY <1>8, ContentsAssumption DEF Seed, TypeInv, Starting
  <2>2. CASE RecordCommit(t, w, "boot", Unkeyed, Seeded, documents[w].content, ids[t])
    BY <1>c, <1>d, <2>1, <2>2, RecordCommitLogged
  <2>3. CASE /\ StorageFails /\ history' = [history EXCEPT ![t] = {}]
             /\ ids' = [ids EXCEPT ![t] = NoIds]
    BY <2>3, ForgotLogged
  <2> QED BY <1>8, <2>2, <2>3 DEF Seed
<1>9. ASSUME NEW t \in Tabs, Reload(t)
      PROVE  LogStep
  BY <1>9, ForgotLogged DEF Reload, storage
<1>10. ASSUME NEW t \in Tabs, ExpireKey(t)
       PROVE  LogStep
  BY <1>10, KeptLogged DEF ExpireKey, storage
<1> QED BY <1>1, <1>2, <1>3, <1>4, <1>5, <1>6, <1>7, <1>8, <1>9, <1>10 DEF Next

-----------------------------------------------------------------------------
(* The invariant of the log, whatever other tabs and failed writes do *)

\* The log never runs ahead of the documents nor of its own counter.
RecordsBehind ==
  \A t \in Tabs : \A r \in history[t] :
    r.revision <= documents[r.workspaceId].revision /\ r.changeId <= ids[t].change

\* An available record has a token, and no record of its workspace is newer.
AvailableIsNewest ==
  \A t \in Tabs : \A r \in history[t] :
    r.undoState = "available" => r.undoToken # 0 /\ IsNewest(t, r)

RecordsFinite == \A t \in Tabs : IsFiniteSet(history[t])

LogInv == TypeInv /\ RecordsBehind /\ AvailableIsNewest /\ RecordsFinite /\ RecordsBounded

LEMMA RevisionsAdvance ==
  ASSUME TypeInv, StorageStep, NEW w \in WorkspaceIds
  PROVE  /\ documents[w].revision \in Nat /\ documents'[w].revision \in Nat
         /\ documents[w].revision <= documents'[w].revision
<1>1. documents \in [WorkspaceIds -> Document] /\ \A v \in WorkspaceIds : documents[v].revision \in Nat
  BY DEF TypeInv, TypeOK, Document
<1>2. CASE documents' = documents
  BY <1>1, <1>2
<1>3. ASSUME NEW v \in WorkspaceIds, NEW c \in Contents,
             documents' = [documents EXCEPT ![v] =
                             [revision |-> documents[v].revision + 1, content |-> c]]
      PROVE  /\ documents[w].revision \in Nat /\ documents'[w].revision \in Nat
             /\ documents[w].revision <= documents'[w].revision
  <2>1. CASE w = v
    BY <1>1, <1>3, <2>1
  <2>2. CASE w # v
    BY <1>1, <1>3, <2>2
  <2> QED BY <2>1, <2>2
<1> QED BY <1>2, <1>3 DEF StorageStep, StorageAdvance, StorageName

\* A log that grows is the log there was, with the new change on top.
LEMMA GrowsAppended ==
  ASSUME LogInv, StorageStep, NEW t \in Tabs, NEW new \in ChangeRecord, LogGrows(t, new)
  PROVE  /\ Appended(history'[t], history[t], new)
         /\ \A u \in Tabs \ {t} : history'[u] = history[u]
<1>1. history \in [Tabs -> SUBSET ChangeRecord] /\ history[t] \in SUBSET ChangeRecord
  BY DEF LogInv, TypeInv, TypeOK
<1>2. PICK result : /\ \/ result = Append(history[t], new)
                       \/ \E token : result = Redeem(Append(history[t], new), token)
                    /\ history' = [history EXCEPT ![t] = result]
  BY DEF LogGrows
<1>3. ASSUME NEW r \in history[t], r.workspaceId = new.workspaceId
      PROVE  Older(r, new)
  <2> DEFINE w == new.workspaceId
  <2>1. w \in WorkspaceIds /\ r.changeId \in Nat /\ r.revision \in Nat
    BY <1>1 DEF ChangeRecord
  <2>2. r.revision <= documents[w].revision /\ r.changeId <= ids[t].change
    BY <1>3 DEF LogInv, RecordsBehind
  <2>3. new.revision = documents'[w].revision /\ new.changeId = ids[t].change + 1
    BY DEF LogGrows
  <2>4. /\ documents[w].revision \in Nat /\ documents'[w].revision \in Nat
        /\ documents[w].revision <= documents'[w].revision
    BY <2>1, RevisionsAdvance DEF LogInv
  <2>5. ids[t].change \in Nat
    BY DEF LogInv, TypeInv, TypeOK
  <2>6. r.revision <= new.revision /\ r.changeId < new.changeId
    BY <2>1, <2>2, <2>3, <2>4, <2>5
  <2>7. new.revision \in Nat
    BY <2>3, <2>4
  <2> QED BY <2>1, <2>6, <2>7 DEF Older
<1>4. /\ IsFiniteSet(history[t])
      /\ \A w \in WorkspaceIds : Cardinality(OfWorkspace(history[t], w)) <= MaxRecords
  BY DEF LogInv, RecordsFinite, RecordsBounded, OfWorkspace
<1>5. Appended(Append(history[t], new), history[t], new)
  BY <1>1, <1>3, <1>4, AppendKeeps
<1>6. Appended(result, history[t], new)
  BY <1>2, <1>5, RedeemKeeps
<1> QED BY <1>1, <1>2, <1>6

LEMMA GrowsLogInv ==
  ASSUME LogInv, TypeInv', StorageStep,
         NEW t \in Tabs, NEW new \in ChangeRecord, LogGrows(t, new)
  PROVE  LogInv'
<1>1. Appended(history'[t], history[t], new) /\ \A u \in Tabs \ {t} : history'[u] = history[u]
  BY GrowsAppended
<1>2. /\ \A r \in history[t] : /\ r.revision <= documents[r.workspaceId].revision
                               /\ r.changeId <= ids[t].change
                               /\ r \in ChangeRecord
      /\ ids[t].change \in Nat /\ ids'[t].change = ids[t].change + 1
      /\ \A u \in Tabs \ {t} : ids'[u].change = ids[u].change
  BY DEF LogInv, RecordsBehind, LogGrows, TypeInv, TypeOK
<1>3. \A w \in WorkspaceIds : /\ documents[w].revision \in Nat /\ documents'[w].revision \in Nat
                              /\ documents[w].revision <= documents'[w].revision
  BY RevisionsAdvance DEF LogInv
<1>4. /\ new.revision = documents'[new.workspaceId].revision
      /\ new.changeId = ids[t].change + 1 /\ new.workspaceId \in WorkspaceIds
      /\ new.revision \in Nat /\ new.changeId \in Nat
  BY DEF LogGrows, ChangeRecord
<1>5. \A r \in history'[t] : r \in ChangeRecord /\ \E q \in history[t] \union {new} :
        /\ SameChange(r, q)
        /\ r.undoState = "available" =>
             q.undoState = "available" /\ (q = new \/ q.workspaceId # new.workspaceId)
  BY <1>1 DEF Appended
<1>6. RecordsBehind'
  <2>1. ASSUME NEW r \in history'[t]
        PROVE  r.revision <= documents'[r.workspaceId].revision /\ r.changeId <= ids'[t].change
    <3>1. PICK q \in history[t] \union {new} : SameChange(r, q)
      BY <1>5
    <3>2. CASE q = new
      BY <1>2, <1>4, <3>1, <3>2 DEF SameChange
    <3>3. CASE q \in history[t]
      <4>1. /\ q.revision <= documents[q.workspaceId].revision /\ q.changeId <= ids[t].change
            /\ q.workspaceId \in WorkspaceIds /\ q.revision \in Nat /\ q.changeId \in Nat
        BY <1>2, <3>3 DEF ChangeRecord
      <4>2. q.revision <= documents'[q.workspaceId].revision
        BY <1>3, <4>1
      <4> QED BY <1>2, <3>1, <4>1, <4>2 DEF SameChange
    <3> QED BY <3>2, <3>3
  <2>2. ASSUME NEW u \in Tabs \ {t}, NEW r \in history'[u]
        PROVE  r.revision <= documents'[r.workspaceId].revision /\ r.changeId <= ids'[u].change
    <3>1. /\ r \in history[u] /\ r.revision <= documents[r.workspaceId].revision
          /\ r.changeId <= ids[u].change
      BY <1>1, <2>2 DEF LogInv, RecordsBehind
    <3>2. r.workspaceId \in WorkspaceIds /\ r.revision \in Nat
      BY <3>1 DEF LogInv, TypeInv, TypeOK, ChangeRecord
    <3> QED BY <1>2, <1>3, <3>1, <3>2
  <2> QED BY <2>1, <2>2 DEF RecordsBehind
<1>7. AvailableIsNewest'
  <2>1. ASSUME NEW r \in history'[t], r.undoState = "available"
        PROVE  r.undoToken # 0 /\ IsNewest(t, r)'
    <3>1. PICK q \in history[t] \union {new} :
            /\ SameChange(r, q) /\ q.undoState = "available"
            /\ q = new \/ q.workspaceId # new.workspaceId
      BY <1>5, <2>1
    <3>2. CASE q = new
      <4>1. new.undoToken # 0 /\ r.inverse # NoInverse
        BY <3>1, <3>2 DEF LogGrows, SameChange, TypeInv, TokensRestore
      <4>2. documents'[new.workspaceId].revision = documents[new.workspaceId].revision + 1
        BY <1>4, <3>1, <3>2, <4>1 DEF LogGrows, SameChange, LogInv, TypeInv, TypeOK
      <4>3. ASSUME NEW p \in history'[t], p.workspaceId = r.workspaceId
            PROVE  p.revision < r.revision \/ (p.revision = r.revision /\ p.changeId >= r.changeId)
        <5>1. PICK o \in history[t] \union {new} : SameChange(p, o)
          BY <1>5, <4>3
        <5>2. CASE o = new
          BY <1>4, <3>1, <3>2, <5>1, <5>2 DEF SameChange
        <5>3. CASE o \in history[t]
          <6>1. o.revision <= documents[o.workspaceId].revision /\ o.revision \in Nat
            BY <1>2, <5>3 DEF ChangeRecord
          <6>2. o.workspaceId = new.workspaceId
            BY <3>1, <3>2, <4>3, <5>1 DEF SameChange
          <6>3. o.revision < new.revision
            BY <1>3, <1>4, <4>2, <6>1, <6>2
          <6> QED BY <3>1, <3>2, <5>1, <6>3 DEF SameChange
        <5> QED BY <5>2, <5>3
      <4> QED BY <3>1, <3>2, <4>1, <4>3 DEF SameChange, IsNewest
    <3>3. CASE q \in history[t] /\ q.workspaceId # new.workspaceId
      <4>1. q.undoToken # 0 /\ IsNewest(t, q)
        BY <3>1, <3>3 DEF LogInv, AvailableIsNewest
      <4>2. ASSUME NEW p \in history'[t], p.workspaceId = r.workspaceId
            PROVE  p.revision < r.revision \/ (p.revision = r.revision /\ p.changeId >= r.changeId)
        <5>1. PICK o \in history[t] \union {new} : SameChange(p, o)
          BY <1>5, <4>2
        <5>2. o \in history[t] /\ o.workspaceId = q.workspaceId
          BY <3>1, <3>3, <4>2, <5>1 DEF SameChange
        <5> QED BY <3>1, <4>1, <5>1, <5>2 DEF SameChange, IsNewest
      <4> QED BY <3>1, <4>1, <4>2 DEF SameChange, IsNewest
    <3> QED BY <3>1, <3>2, <3>3
  <2>2. ASSUME NEW u \in Tabs \ {t}, NEW r \in history'[u], r.undoState = "available"
        PROVE  r.undoToken # 0 /\ IsNewest(u, r)'
    BY <1>1, <2>2 DEF LogInv, AvailableIsNewest, IsNewest
  <2> QED BY <2>1, <2>2 DEF AvailableIsNewest
<1>8. RecordsFinite' /\ RecordsBounded'
  <2>1. \A u \in Tabs : IsFiniteSet(history'[u])
    BY <1>1 DEF Appended, LogInv, RecordsFinite
  <2>2. \A u \in Tabs, w \in WorkspaceIds : Cardinality(OfWorkspace(history'[u], w)) <= MaxRecords
    BY <1>1 DEF Appended, LogInv, RecordsBounded, OfWorkspace
  <2> QED BY <2>1, <2>2 DEF RecordsFinite, RecordsBounded, OfWorkspace
<1> QED BY <1>6, <1>7, <1>8 DEF LogInv

\* A log that is forgotten or left alone stays sound beside documents that
\* move on.
LEMMA OtherLogInv ==
  ASSUME LogInv, TypeInv', StorageStep, LogKept \/ \E t \in Tabs : LogForgets(t)
  PROVE  LogInv'
<1>1. \A w \in WorkspaceIds : /\ documents[w].revision \in Nat /\ documents'[w].revision \in Nat
                              /\ documents[w].revision <= documents'[w].revision
  BY RevisionsAdvance DEF LogInv
<1>2. \A u \in Tabs : history'[u] = {} \/ (history'[u] = history[u] /\ ids'[u].change >= ids[u].change)
  BY DEF LogKept, LogForgets, LogInv, TypeInv, TypeOK
<1>c. \A u \in Tabs : ids[u].change \in Nat /\ ids'[u].change \in Nat
  BY DEF LogInv, TypeInv, TypeOK
<1>3. ASSUME NEW u \in Tabs, NEW r \in history'[u]
      PROVE  r.revision <= documents'[r.workspaceId].revision /\ r.changeId <= ids'[u].change
  <2>1. /\ r \in history[u] /\ ids'[u].change >= ids[u].change
        /\ r.revision <= documents[r.workspaceId].revision /\ r.changeId <= ids[u].change
    BY <1>2, <1>3 DEF LogInv, RecordsBehind
  <2>2. r.workspaceId \in WorkspaceIds /\ r.revision \in Nat /\ r.changeId \in Nat
    BY <2>1 DEF LogInv, TypeInv, TypeOK, ChangeRecord
  <2> QED BY <1>1, <1>c, <2>1, <2>2
<1>4. AvailableIsNewest'
  BY <1>2 DEF LogInv, AvailableIsNewest, IsNewest
<1>5. RecordsFinite' /\ RecordsBounded'
  <2>1. ASSUME NEW u \in Tabs
        PROVE  /\ IsFiniteSet(history'[u])
               /\ \A w \in WorkspaceIds : Cardinality({r \in history'[u] : r.workspaceId = w}) <= MaxRecords
    <3>1. CASE history'[u] = {}
      <4>1. \A w \in WorkspaceIds : {r \in history'[u] : r.workspaceId = w} = {}
        BY <3>1
      <4> QED BY <3>1, <4>1, FS_EmptySet, BoundsAssumption
    <3>2. CASE history'[u] = history[u]
      BY <3>2 DEF LogInv, RecordsFinite, RecordsBounded
    <3> QED BY <1>2, <3>1, <3>2
  <2> QED BY <2>1 DEF RecordsFinite, RecordsBounded
<1> QED BY <1>3, <1>4, <1>5 DEF LogInv, RecordsBehind

LEMMA LogInvariant == Spec => []LogInv
<1>1. Init => LogInv
  <2> SUFFICES ASSUME Init PROVE LogInv
    OBVIOUS
  <2>1. TypeInv /\ \A t \in Tabs : history[t] = {}
    BY InitTypeInv DEF Init
  <2>2. \A t \in Tabs, w \in WorkspaceIds : {r \in history[t] : r.workspaceId = w} = {}
    BY <2>1
  <2>3. RecordsFinite /\ RecordsBounded
    BY <2>1, <2>2, FS_EmptySet, BoundsAssumption DEF RecordsFinite, RecordsBounded
  <2> QED BY <2>1, <2>3 DEF LogInv, RecordsBehind, AvailableIsNewest
<1>2. LogInv /\ [Next]_vars => LogInv'
  <2> SUFFICES ASSUME LogInv, [Next]_vars PROVE LogInv'
    OBVIOUS
  <2>1. TypeInv' /\ StorageStep /\ LogStep
    BY NextTypeInv, NextStorage, NextLogged DEF LogInv
  <2> QED BY <2>1, GrowsLogInv, OtherLogInv DEF LogStep
<1> QED BY <1>1, <1>2, PTL DEF Spec

\* Whatever another tab, a failed write, a pruning or a save did, a change
\* the log offers can be undone, and the log stays within its limit.
THEOREM LogStaysSound == Spec => []LogIsSound
<1>1. LogInv => LogIsSound
  BY DEF LogInv, LogIsSound, AvailableMeansUndoable, AvailableIsNewest, UndoAccepted,
         TypeInv, TokensRestore
<1> QED BY <1>1, LogInvariant, PTL

-----------------------------------------------------------------------------
(* With one tab, whose writes do not fail, the log follows the documents *)

\* Each workspace with a record has one of its current revision, and every
\* such record holds the current content.
LogFollows ==
  \A t \in Tabs : \A r \in history[t] :
    /\ \E q \in history[t] : q.workspaceId = r.workspaceId
                             /\ q.revision = documents[r.workspaceId].revision
    /\ r.revision = documents[r.workspaceId].revision =>
         r.forward = documents[r.workspaceId].content

UndoInv == ArchiveInv /\ LogInv /\ LogFollows /\ UndoRestoresPrevious

LEMMA NextUndoInv ==
  ASSUME UndoInv, TypeInv', LogInv', SnapshotsFaithful', StorageStep, LogStep,
         \A t, u \in Tabs : t = u, ~StorageFails
  PROVE  UndoInv'
<1>1. \A w \in WorkspaceIds : /\ documents[w].revision \in Nat /\ documents'[w].revision \in Nat
                              /\ documents[w].revision <= documents'[w].revision
  BY RevisionsAdvance DEF UndoInv, LogInv
<1>2. ASSUME NEW t \in Tabs, NEW new \in ChangeRecord, LogGrows(t, new)
      PROVE  LogFollows' /\ UndoRestoresPrevious'
  <2> DEFINE v == new.workspaceId
  <2>1. Appended(history'[t], history[t], new)
    BY <1>2, GrowsAppended DEF UndoInv
  <2>2. /\ new.revision = documents'[v].revision /\ new.forward = documents'[v].content
        /\ v \in WorkspaceIds /\ documents \in [WorkspaceIds -> Document]
    BY <1>2 DEF LogGrows, ChangeRecord, UndoInv, LogInv, TypeInv, TypeOK
  <2>3. \A w \in WorkspaceIds \ {v} : documents'[w] = documents[w]
    BY <1>2, <2>2 DEF LogGrows
  <2>4. \/ documents' = documents /\ new.inverse = NoInverse
        \/ documents'[v].revision = documents[v].revision + 1
    BY <1>2, <2>2 DEF LogGrows
  <2>5. \A r \in history'[t] :
          \E q \in history[t] \union {new} : SameChange(r, q)
    BY <2>1 DEF Appended
  <2>6. \A r \in history[t] :
          /\ r.workspaceId \in WorkspaceIds /\ r.revision \in Nat
          /\ r.revision <= documents[r.workspaceId].revision
          /\ r.revision = documents[r.workspaceId].revision =>
               r.forward = documents[r.workspaceId].content
          /\ \E q \in history[t] : q.workspaceId = r.workspaceId
                                   /\ q.revision = documents[r.workspaceId].revision
    BY DEF UndoInv, LogInv, RecordsBehind, LogFollows, TypeInv, TypeOK, ChangeRecord
  <2>7. ASSUME NEW r \in history'[t]
        PROVE  \E q \in history'[t] : /\ q.workspaceId = r.workspaceId
                                      /\ q.revision = documents'[r.workspaceId].revision
    <3>1. CASE r.workspaceId = v
      <4>1. PICK q \in history'[t] : SameChange(q, new)
        BY <2>1 DEF Appended
      <4> QED BY <2>2, <3>1, <4>1 DEF SameChange
    <3>2. CASE r.workspaceId # v
      <4>1. PICK o \in history[t] : SameChange(r, o)
        BY <2>5, <3>2 DEF SameChange
      <4>2. PICK q \in history[t] : /\ q.workspaceId = o.workspaceId
                                    /\ q.revision = documents[o.workspaceId].revision
        BY <2>6
      <4>3. PICK p \in history'[t] : SameChange(p, q)
        BY <2>1, <3>2, <4>1, <4>2 DEF Appended, SameChange
      <4>4. documents'[o.workspaceId] = documents[o.workspaceId]
        BY <2>3, <2>6, <3>2, <4>1 DEF SameChange
      <4> QED BY <4>1, <4>2, <4>3, <4>4 DEF SameChange
    <3> QED BY <3>1, <3>2
  <2>8. ASSUME NEW r \in history'[t], r.revision = documents'[r.workspaceId].revision
        PROVE  r.forward = documents'[r.workspaceId].content
    <3>1. PICK o \in history[t] \union {new} : SameChange(r, o)
      BY <2>5
    <3>2. CASE o = new
      BY <2>2, <3>1, <3>2 DEF SameChange
    <3>3. CASE o \in history[t] /\ o.workspaceId # v
      BY <2>3, <2>6, <2>8, <3>1, <3>3 DEF SameChange
    <3>4. CASE o \in history[t] /\ o.workspaceId = v
      <4>1. o.revision = documents'[v].revision /\ o.revision <= documents[v].revision
        BY <2>6, <2>8, <3>1, <3>4 DEF SameChange
      <4>2. documents' = documents
        BY <1>1, <2>2, <2>4, <4>1
      <4> QED BY <2>6, <3>1, <3>4, <4>1, <4>2 DEF SameChange
    <3> QED BY <3>1, <3>2, <3>3, <3>4
  <2>9. \A e \in revisions' :
          \/ e \in revisions
          \/ e.workspaceId \in WorkspaceIds /\ e.revision = documents[e.workspaceId].revision
          \/ e.workspaceId \in WorkspaceIds /\ e.revision = documents[e.workspaceId].revision + 1
    <3> TAKE e \in revisions'
    <3>1. \/ e \in revisions
          \/ \E w \in WorkspaceIds, c \in Contents :
               e = Snapshot(w, documents[w].revision + 1, FALSE, c)
          \/ \E w \in WorkspaceIds :
               e = Snapshot(w, documents[w].revision, TRUE, documents[w].content)
      BY StorageGains
    <3> QED BY <3>1 DEF Snapshot
  <2>10. ASSUME NEW r \in history'[t], r.inverse # NoInverse,
                NEW e \in revisions', e.workspaceId = r.workspaceId, e.revision + 1 = r.revision
         PROVE  e.content = r.inverse
    <3>1. PICK o \in history[t] \union {new} : SameChange(r, o)
      BY <2>5
    <3>2. CASE o \in history[t]
      <4>1. /\ e.revision + 1 <= documents[e.workspaceId].revision
            /\ e.workspaceId \in WorkspaceIds /\ e.revision \in Nat
        BY <2>6, <2>10, <3>1, <3>2 DEF SameChange, TypeInv, TypeOK, SavedRevision
      <4>2. e \in revisions
        BY <1>1, <2>9, <4>1
      <4> QED BY <2>10, <3>1, <3>2, <4>2
              DEF SameChange, UndoInv, UndoRestoresPrevious, SnapshotsOf
    <3>3. CASE o = new
      <4>1. r.workspaceId = v /\ r.revision = new.revision /\ r.inverse = new.inverse
        BY <3>1, <3>3 DEF SameChange
      <4>2. documents'[v].revision = documents[v].revision + 1 /\ RestoresBefore(t, new)
        BY <1>2, <2>2, <2>4, <2>10, <4>1 DEF LogGrows
      <4>3. e.revision = documents[v].revision /\ e.workspaceId = v
        <5>1. e.revision \in Nat
          BY <2>10 DEF TypeInv, TypeOK, SavedRevision
        <5>2. e.revision + 1 = documents[v].revision + 1 /\ documents[v].revision \in Nat
          BY <1>1, <2>2, <2>10, <4>1, <4>2
        <5> QED BY <2>10, <4>1, <5>1, <5>2
      <4>4. new.inverse = documents[v].content
        <5>1. CASE new.inverse \in {NoInverse, documents[v].content}
          BY <2>10, <4>1, <5>1
        <5>2. ASSUME NEW q \in history[t], UndoAccepted(t, q), q.workspaceId = v,
                     q.forward = new.inverse
              PROVE  new.inverse = documents[v].content
          <6>1. PICK p \in history[t] : p.workspaceId = v /\ p.revision = documents[v].revision
            BY <2>6, <5>2
          <6>2. p.revision <= q.revision /\ q.revision <= documents[v].revision
            BY <2>6, <5>2, <6>1 DEF UndoAccepted, IsNewest
          <6>3. q.revision = documents[v].revision
            BY <1>1, <2>2, <2>6, <6>1, <6>2
          <6> QED BY <2>6, <5>2, <6>3
        <5> QED BY <4>2, <5>1, <5>2 DEF RestoresBefore
      <4>5. e \in revisions \/ e = Snapshot(v, documents[v].revision, TRUE, documents[v].content)
        <5>1. \/ e \in revisions
              \/ \E w \in WorkspaceIds, c \in Contents :
                   e = Snapshot(w, documents[w].revision + 1, FALSE, c)
              \/ \E w \in WorkspaceIds :
                   e = Snapshot(w, documents[w].revision, TRUE, documents[w].content)
          BY StorageGains
        <5>2. ASSUME NEW w \in WorkspaceIds, NEW c \in Contents,
                     e = Snapshot(w, documents[w].revision + 1, FALSE, c)
              PROVE  FALSE
          BY <1>1, <4>3, <5>2 DEF Snapshot
        <5> QED BY <4>3, <5>1, <5>2 DEF Snapshot
      <4>6. e.content = documents[v].content
        BY <4>3, <4>5 DEF Snapshot, UndoInv, ArchiveInv, SnapshotsFaithful
      <4> QED BY <4>1, <4>4, <4>6
    <3> QED BY <3>1, <3>2, <3>3
  <2>11. \A u \in Tabs : u = t
    OBVIOUS
  <2>12. LogFollows'
    BY <2>7, <2>8, <2>11 DEF LogFollows
  <2>13. UndoRestoresPrevious'
    BY <2>10, <2>11 DEF UndoRestoresPrevious, SnapshotsOf
  <2> QED BY <2>12, <2>13
<1>3. ASSUME LogKept \/ \E t \in Tabs : LogForgets(t), UNCHANGED documents
      PROVE  LogFollows' /\ UndoRestoresPrevious'
  <2>1. documents' = documents
    BY <1>3
  <2>2. \A u \in Tabs : history'[u] = {} \/ history'[u] = history[u]
    BY <1>3 DEF LogKept, LogForgets, UndoInv, LogInv, TypeInv, TypeOK
  <2>3. LogFollows'
    BY <2>1, <2>2 DEF UndoInv, LogFollows
  <2>4. ASSUME NEW u \in Tabs, NEW r \in history'[u], r.inverse # NoInverse,
               NEW e \in revisions', e.workspaceId = r.workspaceId, e.revision + 1 = r.revision
        PROVE  e.content = r.inverse
    <3>1. r \in history[u] /\ r.workspaceId \in WorkspaceIds /\ r.revision \in Nat
      BY <2>2, <2>4 DEF UndoInv, LogInv, TypeInv, TypeOK, ChangeRecord
    <3>2. r.revision <= documents[r.workspaceId].revision
      BY <3>1 DEF UndoInv, LogInv, RecordsBehind
    <3>3. e \in revisions
      <4>1. \/ e \in revisions
            \/ \E w \in WorkspaceIds, c \in Contents :
                 e = Snapshot(w, documents[w].revision + 1, FALSE, c)
            \/ \E w \in WorkspaceIds :
                 e = Snapshot(w, documents[w].revision, TRUE, documents[w].content)
        BY StorageGains
      <4>2. e.revision + 1 <= documents[e.workspaceId].revision
        BY <2>4, <3>2
      <4> QED BY <1>1, <4>1, <4>2 DEF Snapshot
    <3> QED BY <2>4, <3>1, <3>3 DEF UndoInv, UndoRestoresPrevious, SnapshotsOf
  <2> QED BY <2>3, <2>4 DEF UndoRestoresPrevious, SnapshotsOf
<1> QED BY <1>2, <1>3 DEF LogStep, UndoInv, ArchiveInv

LEMMA UndoInvariant ==
  ASSUME \A t, u \in Tabs : t = u, ~StorageFails
  PROVE  Spec => []UndoInv
<1>1. Init /\ ArchiveInv /\ LogInv => UndoInv
  BY DEF Init, UndoInv, LogFollows, UndoRestoresPrevious
<1>2. UndoInv /\ ArchiveInv' /\ LogInv' /\ [Next]_vars => UndoInv'
  <2> SUFFICES ASSUME UndoInv, ArchiveInv', LogInv', [Next]_vars PROVE UndoInv'
    OBVIOUS
  <2>1. StorageStep /\ LogStep
    BY NextStorage, NextLogged DEF UndoInv, ArchiveInv
  <2> QED BY <2>1, NextUndoInv DEF ArchiveInv
<1> QED BY <1>1, <1>2, ArchiveInvariant, LogInvariant, PTL DEF Spec

\* In one tab whose writes do not fail, an undo the log accepts finds the
\* document exactly as its change left it: replays, saves, prunings, undos of
\* undos and reloads in between never let it reverse a later change.
THEOREM UndoIsExact ==
  ASSUME \A t, u \in Tabs : t = u, ~StorageFails
  PROVE  Spec => []UndoErasesNothing
<1>1. UndoInv => UndoErasesNothing
  <2> SUFFICES ASSUME UndoInv, NEW t \in Tabs, NEW r \in history[t], UndoAccepted(t, r)
               PROVE  documents[r.workspaceId] = [revision |-> r.revision, content |-> r.forward]
    BY DEF UndoErasesNothing
  <2> DEFINE w == r.workspaceId
  <2>1. /\ w \in WorkspaceIds /\ r.revision \in Nat /\ r.revision <= documents[w].revision
        /\ documents[w] \in Document
    BY DEF UndoInv, LogInv, RecordsBehind, TypeInv, TypeOK, ChangeRecord
  <2>2. PICK p \in history[t] : p.workspaceId = w /\ p.revision = documents[w].revision
    BY DEF UndoInv, LogFollows
  <2>3. p.revision <= r.revision /\ p.revision \in Nat
    BY <2>1, <2>2 DEF UndoAccepted, IsNewest, Document
  <2>4. r.revision = documents[w].revision
    BY <2>1, <2>2, <2>3
  <2>5. r.forward = documents[w].content
    BY <2>4 DEF UndoInv, LogFollows
  <2> QED BY <2>1, <2>4, <2>5 DEF Document
<1> QED BY <1>1, UndoInvariant, PTL

\* And what it restores is what was stored one revision before the change.
THEOREM UndoGoesBackOne ==
  ASSUME \A t, u \in Tabs : t = u, ~StorageFails
  PROVE  Spec => []UndoRestoresPrevious
<1>1. UndoInv => UndoRestoresPrevious
  BY DEF UndoInv
<1> QED BY <1>1, UndoInvariant, PTL

-----------------------------------------------------------------------------
(* Where contents go: a content that is stored, kept as a snapshot or held  *)
(* by the log was once committed, or is what a workspace starts with.       *)

ContentsIn(docs, snapshots, log, Good) ==
  /\ \A w \in WorkspaceIds : docs[w].content \in Good
  /\ \A e \in snapshots : e.content \in Good
  /\ \A t \in Tabs : \A r \in log[t] : r.forward \in Good /\ r.inverse \in Good \union {NoInverse}

LEMMA AppendContents ==
  ASSUME NEW records \in SUBSET ChangeRecord, NEW new \in ChangeRecord, NEW r \in Append(records, new)
  PROVE  \E q \in records \union {new} : r.forward = q.forward /\ r.inverse = q.inverse
<1> DEFINE supersede(q) == IF q.undoState = "available"
                             THEN [q EXCEPT !.undoState = "superseded"] ELSE q
           same == {q \in records : q.workspaceId = new.workspaceId}
<1>1. \A q \in ChangeRecord : supersede(q).forward = q.forward /\ supersede(q).inverse = q.inverse
  BY DEF ChangeRecord
<1>2. Append(records, new) \subseteq records \union {supersede(q) : q \in same} \union {new}
  BY DEF Append, PruneRecords
<1> QED BY <1>1, <1>2

LEMMA RedeemContents ==
  ASSUME NEW records \in SUBSET ChangeRecord, NEW token, NEW r \in Redeem(records, token)
  PROVE  \E q \in records : r.forward = q.forward /\ r.inverse = q.inverse
BY DEF Redeem, ChangeRecord

\* A commit stores what it commits.
LEMMA CommitContents ==
  ASSUME TypeInv, NEW Good, ContentsIn(documents, revisions, history, Good),
         NEW t \in Tabs, NEW w \in WorkspaceIds, NEW call, NEW request,
         NEW forward \in Good, NEW inverse, NEW minted,
         Commit(t, w, call, request, forward, inverse, minted)
  PROVE  /\ \A v \in WorkspaceIds : documents'[v].content \in Good
         /\ \A e \in revisions' : e.content \in Good
<1> DEFINE entry == Snapshot(w, documents[w].revision + 1, FALSE, forward)
<1>1. entry.content = forward /\ entry.workspaceId = w
  BY DEF Snapshot
<1>2. /\ documents' = [documents EXCEPT ![w] =
                         [revision |-> documents[w].revision + 1, content |-> forward]]
      /\ revisions' = PutRevision(entry)
  BY DEF Commit
<1> HIDE DEF entry
<1>3. revisions' \subseteq revisions \union {entry}
  BY <1>1, <1>2, PutRevisionSubset
<1>4. \A e \in revisions' : e.content \in Good
  BY <1>1, <1>3 DEF ContentsIn
<1>5. \A v \in WorkspaceIds : documents'[v].content \in Good
  <2> TAKE v \in WorkspaceIds
  <2>1. CASE v = w
    BY <1>2, <2>1 DEF TypeInv, TypeOK
  <2>2. CASE v # w
    BY <1>2, <2>2 DEF TypeInv, TypeOK, ContentsIn
  <2> QED BY <2>1, <2>2
<1> QED BY <1>4, <1>5

\* And logs it with what it replaces.
LEMMA RecordedContents ==
  ASSUME TypeInv, NEW Good, ContentsIn(documents, revisions, history, Good),
         NEW t \in Tabs, NEW w \in WorkspaceIds,
         NEW forward \in Contents, NEW inverse \in Contents \union {NoInverse},
         forward \in Good, inverse \in Good \union {NoInverse},
         NEW r \in Recorded(t, w, forward, inverse)
  PROVE  r.forward \in Good /\ r.inverse \in Good \union {NoInverse}
<1> DEFINE new == NewRecord(t, w, documents[w].revision + 1, forward, inverse)
<1>1. new \in ChangeRecord /\ new.forward = forward /\ new.inverse = inverse
  <2>1. documents[w].revision + 1 \in Nat
    BY DEF TypeInv, TypeOK, Document
  <2>2. new \in ChangeRecord
    BY <2>1, NewRecordType
  <2> QED BY <2>2 DEF NewRecord
<1>2. r \in Append(history[t], new)
  BY DEF Recorded
<1>3. history[t] \in SUBSET ChangeRecord
  BY DEF TypeInv, TypeOK
<1> HIDE DEF new
<1>4. PICK q \in history[t] \union {new} : r.forward = q.forward /\ r.inverse = q.inverse
  BY <1>1, <1>2, <1>3, AppendContents
<1> QED BY <1>1, <1>4 DEF ContentsIn

LEMMA RecordCommitContents ==
  ASSUME TypeInv, NEW Good, ContentsIn(documents, revisions, history, Good),
         NEW t \in Tabs, NEW w \in WorkspaceIds, NEW call, NEW request,
         NEW forward \in Contents, NEW inverse \in Contents \union {NoInverse},
         forward \in Good, inverse \in Good \union {NoInverse}, NEW minted,
         RecordCommit(t, w, call, request, forward, inverse, minted)
  PROVE  ContentsIn(documents', revisions', history', Good)
<1>1. /\ Commit(t, w, call, request, forward, inverse, minted)
      /\ history' = [history EXCEPT ![t] = Recorded(t, w, forward, inverse)]
  BY DEF RecordCommit
<1>2. /\ \A v \in WorkspaceIds : documents'[v].content \in Good
      /\ \A e \in revisions' : e.content \in Good
  BY <1>1, CommitContents
<1>3. \A r \in Recorded(t, w, forward, inverse) :
        r.forward \in Good /\ r.inverse \in Good \union {NoInverse}
  BY RecordedContents
<1>4. \A u \in Tabs : \A r \in history'[u] : r.forward \in Good /\ r.inverse \in Good \union {NoInverse}
  <2> TAKE u \in Tabs
  <2>1. CASE u = t
    BY <1>1, <1>3, <2>1 DEF TypeInv, TypeOK
  <2>2. CASE u # t
    BY <1>1, <2>2 DEF TypeInv, TypeOK, ContentsIn
  <2> QED BY <2>1, <2>2
<1> QED BY <1>2, <1>4 DEF ContentsIn

LEMMA FailCommitContents ==
  ASSUME TypeInv, NEW Good, ContentsIn(documents, revisions, history, Good),
         NEW t, NEW w \in WorkspaceIds, NEW call, NEW request, NEW forward \in Good, NEW minted,
         FailCommit(t, w, call, request, forward, minted)
  PROVE  ContentsIn(documents', revisions', history', Good)
<1>1. UNCHANGED <<revisions, history>>
  BY DEF FailCommit
<1>2. \A v \in WorkspaceIds : documents'[v].content \in Good
  <2> TAKE v \in WorkspaceIds
  <2>1. CASE UNCHANGED documents
    BY <2>1 DEF ContentsIn
  <2>2. CASE documents' = [documents EXCEPT ![w] =
                             [revision |-> documents[w].revision + 1, content |-> forward]]
    <3>1. CASE v = w
      BY <2>2, <3>1 DEF TypeInv, TypeOK
    <3>2. CASE v # w
      BY <2>2, <3>2 DEF TypeInv, TypeOK, ContentsIn
    <3> QED BY <3>1, <3>2
  <2> QED BY <2>1, <2>2 DEF FailCommit
<1> QED BY <1>1, <1>2 DEF ContentsIn

\* A tool adds the content it was asked to commit.
LEMMA EditContents ==
  ASSUME TypeInv, NEW Good, ContentsIn(documents, revisions, history, Good),
         NEW t \in Tabs, NEW target \in Targets, NEW op, NEW d \in Contents, d \in Good,
         NEW undoable \in BOOLEAN, NEW expected, NEW key, Edit(t, target, op, d, undoable, expected, key)
  PROVE  ContentsIn(documents', revisions', history', Good)
<1> DEFINE w == Resolve(target)
           request == Request(key, [kind |-> op, workspaceId |-> target, input |-> expected],
                              expected)
           inverse == IF undoable THEN documents[w].content ELSE NoInverse
<1>1. w \in WorkspaceIds
  BY ResolveType DEF Edit
<1>2. inverse \in Contents \union {NoInverse} /\ inverse \in Good \union {NoInverse}
  BY <1>1 DEF TypeInv, TypeOK, Document, ContentsIn
<1>3. CASE UNCHANGED <<storage, memory>>
  BY <1>3 DEF storage, memory
<1>4. CASE RecordCommit(t, w, "edit", request, d, inverse, ids[t])
  BY <1>1, <1>2, <1>4, RecordCommitContents
<1>5. CASE FailCommit(t, w, "edit", request, d, ids[t])
  BY <1>1, <1>5, FailCommitContents
<1> QED BY <1>3, <1>4, <1>5 DEF Edit

\* Undoing, restoring and loading add nothing to what was committed.
LEMMA UndoContents ==
  ASSUME TypeInv, NEW Good, ContentsIn(documents, revisions, history, Good),
         NEW t \in Tabs, NEW r \in history[t], Undo(t, r)
  PROVE  ContentsIn(documents', revisions', history', Good)
<1>1. /\ r \in ChangeRecord /\ r.workspaceId \in WorkspaceIds
      /\ r.forward \in Contents /\ r.inverse \in Contents /\ r.inverse # NoInverse
  BY ContentsAssumption DEF ChangeRecord, Undo, UndoAccepted, TypeInv, TypeOK, TokensRestore
<1>2. r.forward \in Good /\ r.inverse \in Good
  BY <1>1 DEF ContentsIn
<1>3. CASE FailCommit(t, r.workspaceId, "undo", Unkeyed, r.inverse, ids[t])
  BY <1>1, <1>2, <1>3, FailCommitContents
<1>4. ASSUME Commit(t, r.workspaceId, "undo", Unkeyed, r.inverse, r.forward, ids[t]),
             history' = [history EXCEPT ![t] =
               Redeem(Recorded(t, r.workspaceId, r.inverse, r.forward), r.undoToken)]
      PROVE  ContentsIn(documents', revisions', history', Good)
  <2> DEFINE records == Recorded(t, r.workspaceId, r.inverse, r.forward)
  <2>1. /\ \A v \in WorkspaceIds : documents'[v].content \in Good
        /\ \A e \in revisions' : e.content \in Good
    BY <1>1, <1>2, <1>4, CommitContents
  <2>2. /\ records \in SUBSET ChangeRecord
        /\ \A q \in records : q.forward \in Good /\ q.inverse \in Good \union {NoInverse}
    BY <1>1, <1>2, RecordedType, RecordedContents
  <2>3. history' = [history EXCEPT ![t] = Redeem(records, r.undoToken)]
    BY <1>4
  <2> HIDE DEF records
  <2>4. \A q \in Redeem(records, r.undoToken) :
          q.forward \in Good /\ q.inverse \in Good \union {NoInverse}
    BY <2>2, RedeemContents
  <2>5. \A u \in Tabs : \A q \in history'[u] :
          q.forward \in Good /\ q.inverse \in Good \union {NoInverse}
    <3> TAKE u \in Tabs
    <3>1. CASE u = t
      BY <2>3, <2>4, <3>1 DEF TypeInv, TypeOK
    <3>2. CASE u # t
      BY <2>3, <3>2 DEF TypeInv, TypeOK, ContentsIn
    <3> QED BY <3>1, <3>2
  <2> QED BY <2>1, <2>5 DEF ContentsIn
<1> QED BY <1>3, <1>4 DEF Undo

LEMMA RestoreContents ==
  ASSUME TypeInv, NEW Good, ContentsIn(documents, revisions, history, Good),
         NEW t \in Tabs, NEW target \in Targets, NEW r, NEW expected, NEW key,
         RestoreRevision(t, target, r, expected, key)
  PROVE  ContentsIn(documents', revisions', history', Good)
<1> DEFINE w == Resolve(target)
           request == Request(key, [kind |-> "restore", workspaceId |-> 0, input |-> r], expected)
           before == IF Stored(w) THEN documents[w].content ELSE NoInverse
<1>1. w \in WorkspaceIds
  BY ResolveType DEF RestoreRevision
<1>2. \A e \in SnapshotsOf(w) : e.content \in Contents /\ e.content \in Good
  BY DEF SnapshotsOf, SavedRevision, TypeInv, TypeOK, ContentsIn
<1>3. before \in Contents \union {NoInverse} /\ before \in Good \union {NoInverse}
  BY <1>1 DEF TypeInv, TypeOK, Document, ContentsIn
<1>4. CASE UNCHANGED <<storage, memory>>
  BY <1>4 DEF storage, memory
<1>5. ASSUME NEW e \in SnapshotsOf(w),
             RecordCommit(t, w, "restore", request, e.content, before, ids[t])
      PROVE  ContentsIn(documents', revisions', history', Good)
  BY <1>1, <1>2, <1>3, <1>5, RecordCommitContents
<1>6. ASSUME NEW e \in SnapshotsOf(w), FailCommit(t, w, "restore", request, e.content, ids[t])
      PROVE  ContentsIn(documents', revisions', history', Good)
  BY <1>1, <1>2, <1>6, FailCommitContents
<1> QED BY <1>4, <1>5, <1>6 DEF RestoreRevision

LEMMA LoadContents ==
  ASSUME TypeInv, NEW Good, ContentsIn(documents, revisions, history, Good),
         Blank \in Good, Seeded \in Good, NEW t \in Tabs, Boot(t) \/ Seed(t) \/ Reload(t)
  PROVE  ContentsIn(documents', revisions', history', Good)
<1>1. CASE Boot(t)
  <2> DEFINE w == ids[t].workspace + 1
             minted == [ids[t] EXCEPT !.workspace = w]
  <2>1. w \in WorkspaceIds /\ Blank \in Contents
    BY <1>1, ContentsAssumption, BoundsAssumption DEF Boot, TypeInv, Starting, NoIds, WorkspaceIds
  <2>2. CASE UNCHANGED <<storage, history, idempotency, ids>>
    BY <2>2 DEF storage
  <2> HIDE DEF minted
  <2>3. CASE RecordCommit(t, w, "boot", Unkeyed, Blank, NoInverse, minted)
    BY <2>1, <2>3, RecordCommitContents
  <2>4. CASE FailCommit(t, w, "boot", Unkeyed, Blank, ids[t])
    BY <2>1, <2>4, FailCommitContents
  <2> QED BY <1>1, <2>2, <2>3, <2>4 DEF Boot, minted
<1>2. CASE Seed(t)
  <2> DEFINE w == ids[t].workspace
  <2>1. w \in WorkspaceIds /\ Seeded \in Contents
    BY <1>2, ContentsAssumption DEF Seed, TypeInv, Starting
  <2>2. documents[w].content \in Contents /\ documents[w].content \in Good
    BY <2>1 DEF TypeInv, TypeOK, Document, ContentsIn
  <2>3. CASE RecordCommit(t, w, "boot", Unkeyed, Seeded, documents[w].content, ids[t])
    BY <2>1, <2>2, <2>3, RecordCommitContents
  <2>4. ASSUME documents' \in {documents, [documents EXCEPT ![w] =
                  [revision |-> documents[w].revision + 1, content |-> Seeded]]},
               history' = [history EXCEPT ![t] = {}], UNCHANGED revisions
        PROVE  ContentsIn(documents', revisions', history', Good)
    <3>1. \A v \in WorkspaceIds : documents'[v].content \in Good
      <4> TAKE v \in WorkspaceIds
      <4>1. CASE v = w
        BY <2>2, <2>4, <4>1 DEF TypeInv, TypeOK
      <4>2. CASE v # w
        BY <2>4, <4>2 DEF TypeInv, TypeOK, ContentsIn
      <4> QED BY <4>1, <4>2
    <3>2. \A u \in Tabs : history'[u] \subseteq history[u]
      BY <2>4 DEF TypeInv, TypeOK
    <3> QED BY <2>4, <3>1, <3>2 DEF ContentsIn
  <2> QED BY <1>2, <2>3, <2>4 DEF Seed
<1>3. CASE Reload(t)
  <2>1. \A u \in Tabs : history'[u] \subseteq history[u]
    BY <1>3 DEF Reload, TypeInv, TypeOK
  <2> QED BY <1>3, <2>1 DEF Reload, storage, ContentsIn
<1> QED BY <1>1, <1>2, <1>3

=============================================================================
