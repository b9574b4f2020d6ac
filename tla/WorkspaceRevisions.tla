------------------------- MODULE WorkspaceRevisions -------------------------
(***************************************************************************)
(* The workbench's single write path: revisionService.ts, idempotency.ts,  *)
(* changeHistory.ts, workspaceRepository.ts, the mutating tools of         *)
(* workbench/tools/index.ts and the start-up sequence of                   *)
(* panelController.ts / registerPanelTools.ts.                             *)
(*                                                                         *)
(* A browser tab keeps the change history, the replay cache and the id     *)
(* counters in memory; documents, revision snapshots and the active        *)
(* pointer live in localStorage, which every tab of the browser shares.    *)
(* Every tool call is synchronous between its read and its writes, so one  *)
(* call is one action; a write that fails splits it.                       *)
(*                                                                         *)
(* The content of a document is one value of Contents: the write path      *)
(* never looks inside it.                                                  *)
(***************************************************************************)
EXTENDS Integers, FiniteSets

CONSTANTS
  Tabs,             \* browser tabs open on the page
  Contents,         \* what a document can hold
  Blank,            \* the content of emptyWorkspace()
  Seeded,           \* the content once the default panels are created
  NoInverse,        \* a draft without `inverse`: the change is not undoable
  Keys,             \* idempotency keys agents use
  NoKey,            \* a call without an idempotency key
  Operations,       \* operation kinds whose mutate() rewrites the content
  StorageFails,     \* may localStorage.setItem throw (quota)?
  MaxUnnamed,       \* MAX_UNNAMED_REVISIONS_PER_WORKSPACE
  MaxRecords,       \* MAX_RECORDS_PER_WORKSPACE
  MaxCacheEntries,  \* DEFAULT_MAX_ENTRIES of the replay cache
  ExpectedRevisions,\* bound: expected_revision values tried, 0 for none
  MaxWorkspaces,    \* bound: workspace ids a tab may mint
  MaxRevision,      \* bound: revisions per workspace
  MaxChanges        \* bound: change ids a tab may mint

ASSUME ContentsAssumption ==
  /\ Blank \in Contents /\ Seeded \in Contents
  /\ NoInverse \notin Contents
  /\ NoKey \notin Keys
ASSUME BoundsAssumption ==
  /\ StorageFails \in BOOLEAN
  /\ MaxUnnamed \in Nat \ {0} /\ MaxRecords \in Nat \ {0}
  /\ MaxCacheEntries \in Nat \ {0} /\ MaxWorkspaces \in Nat \ {0}
  /\ MaxRevision \in Nat /\ MaxChanges \in Nat
  /\ ExpectedRevisions \subseteq Nat

VARIABLES
  documents,    \* localStorage: the current document of each workspace
  revisions,    \* localStorage: the stored revision snapshots
  activeId,     \* localStorage: the active workspace, 0 for none
  history,      \* per tab: the change records
  idempotency,  \* per tab: the replay cache
  ids,          \* per tab: the id counters
  phase,        \* per tab: how far the page has started
  answer        \* what the last call told its caller

storage == <<documents, revisions, activeId>>
memory == <<history, idempotency, ids, phase>>
vars == <<documents, revisions, activeId, history, idempotency, ids, phase, answer>>

WorkspaceIds == 1..MaxWorkspaces

\* Revision 0 stands for a workspace that was never stored.
Document == [revision: Nat, content: Contents]

SavedRevision ==
  [workspaceId: WorkspaceIds, revision: Nat, named: BOOLEAN, content: Contents]

\* undoToken 0 is null. `inverse` is the document inverseDraft restores and
\* `forward` the one its own inverse restores, so undoing an undo is a redo.
ChangeRecord ==
  [changeId: Nat, workspaceId: WorkspaceIds, revision: Nat, undoToken: Nat,
   undoState: {"available", "redeemed", "superseded", "none"},
   inverse: Contents \union {NoInverse}, forward: Contents]

Kinds == Operations \union {"create", "save", "restore", "apply"}

\* `workspaceId` 0 in a fingerprint: the request does not name its workspace.
Fingerprint == [kind: Kinds, workspaceId: 0..MaxWorkspaces, input: Nat]

\* A cached envelope; its change id gives the insertion order of the Map.
CacheEntry ==
  [key: Keys, fingerprint: Fingerprint, workspaceId: WorkspaceIds, changeId: Nat]

Answer ==
  [call: {"none", "edit", "create", "save", "restore", "undo", "apply", "human", "boot"},
   status: {"none", "applied", "replayed", "storage_failed"},
   workspaceId: 0..MaxWorkspaces, \* the workspace the call is for
   about: 0..MaxWorkspaces]       \* the workspace the envelope is about

TypeOK ==
  /\ documents \in [WorkspaceIds -> Document]
  /\ revisions \in SUBSET SavedRevision
  /\ activeId \in 0..MaxWorkspaces
  /\ history \in [Tabs -> SUBSET ChangeRecord]
  /\ idempotency \in [Tabs -> SUBSET CacheEntry]
  /\ ids \in [Tabs -> [change: Nat, undo: Nat, workspace: 0..MaxWorkspaces]]
  /\ phase \in [Tabs -> {"loading", "seeding", "ready"}]
  /\ answer \in Answer

-----------------------------------------------------------------------------
(* Storage and in-memory collections *)

\* The n members of S with the highest rank.
Highest(S, n, Rank(_)) ==
  {x \in S : Cardinality({y \in S : Rank(y) > Rank(x)}) < n}

Stored(w) == documents[w].revision > 0

SnapshotsOf(w) == {e \in revisions : e.workspaceId = w}

\* Variant (a bug to be caught): pruning forgets to spare named snapshots.
PruneRevisions_NamedToo(entries) == Highest(entries, MaxUnnamed, LAMBDA e : e.revision)

\* Every named snapshot and the most recent unnamed ones.
PruneRevisions(entries) ==
  {e \in entries : e.named}
    \union Highest({e \in entries : ~e.named}, MaxUnnamed, LAMBDA e : e.revision)

\* Variant: the entry is added beside the one of its own revision.
PutRevision_Duplicates(entry) ==
  {e \in revisions : e.workspaceId # entry.workspaceId}
    \union PruneRevisions(SnapshotsOf(entry.workspaceId) \union {entry})

\* The index after putRevision(entry): the entry replaces its own revision.
PutRevision(entry) ==
  {e \in revisions : e.workspaceId # entry.workspaceId}
    \union PruneRevisions({e \in SnapshotsOf(entry.workspaceId) :
                              e.revision # entry.revision} \union {entry})

Snapshot(w, r, named, c) ==
  [workspaceId |-> w, revision |-> r, named |-> named, content |-> c]

\* Over the limit, the oldest records that are not redeemable are dropped
\* (variant: one record too few).
Older(q, r) == q.revision < r.revision \/ (q.revision = r.revision /\ q.changeId < r.changeId)
PruneRecords_OffByOne(records) ==
  LET spent == {r \in records : r.undoState # "available"}
      excess == Cardinality(records) - MaxRecords - 1
  IN  records \ {r \in spent : Cardinality({q \in spent : Older(q, r)}) < excess}
PruneRecords(records) ==
  LET spent == {r \in records : r.undoState # "available"}
      excess == Cardinality(records) - MaxRecords
  IN  records \ {r \in spent : Cardinality({q \in spent : Older(q, r)}) < excess}

\* Variant: the change before stays available.
Append_KeepsAvailable(records, new) ==
  LET same == {r \in records : r.workspaceId = new.workspaceId}
  IN  (records \ same) \union PruneRecords(same \union {new})

\* ChangeHistory.append: whatever was available before is superseded.
Append(records, new) ==
  LET same == {r \in records : r.workspaceId = new.workspaceId}
      supersede(r) == IF r.undoState = "available"
                        THEN [r EXCEPT !.undoState = "superseded"] ELSE r
  IN  (records \ same) \union PruneRecords({supersede(r) : r \in same} \union {new})

\* list(w, {limit: 1})[0]: revisions descending, and the sort is stable, so
\* of two records at one revision the older comes first.
IsNewest(t, r) ==
  \A q \in history[t] : q.workspaceId = r.workspaceId =>
    q.revision < r.revision \/ (q.revision = r.revision /\ q.changeId >= r.changeId)

Redeem(records, token) ==
  {IF r.undoToken = token THEN [r EXCEPT !.undoState = "redeemed"] ELSE r : r \in records}

\* IdempotencyCache.lookup finds nothing; a call without a key always misses.
Miss(t, key) == \A e \in idempotency[t] : e.key # key

Remember(entries, new) ==
  Highest({e \in entries : e.key # new.key} \union {new}, MaxCacheEntries,
          LAMBDA e : e.changeId)

\* resolveWorkspaceId: 0 is a call that names no workspace.
Resolve(target) == IF target = 0 THEN activeId ELSE target

Reply(call, status, w, about) ==
  [call |-> call, status |-> status, workspaceId |-> w, about |-> about]

NoAnswer == Reply("none", "none", 0, 0)

-----------------------------------------------------------------------------
(* RevisionService.commit and recordCommit *)

\* A request as the write path sees it; `expected` 0 is no expected_revision.
Request(key, fp, expected) == [key |-> key, fingerprint |-> fp, expected |-> expected]

\* Without a key the fingerprint is never looked at.
Unkeyed == Request(NoKey, [kind |-> "create", workspaceId |-> 0, input |-> 0], 0)

\* The call passes the replay lookup and checkExpectedRevision.
Accepted(t, w, request) ==
  /\ Miss(t, request.key)
  /\ request.expected \in {0, documents[w].revision}
  /\ documents[w].revision < MaxRevision
  /\ ids[t].change < MaxChanges

\* A repeated key with the same fingerprint answers the first envelope.
Replay(t, w, call, request) ==
  \E e \in idempotency[t] :
    /\ e.key = request.key /\ e.fingerprint = request.fingerprint
    /\ answer' = Reply(call, "replayed", w, e.workspaceId)

NewRecord(t, w, r, forward, inverse) ==
  [changeId |-> ids[t].change + 1, workspaceId |-> w, revision |-> r,
   undoToken |-> IF inverse = NoInverse THEN 0 ELSE ids[t].undo + 1,
   undoState |-> IF inverse = NoInverse THEN "none" ELSE "available",
   inverse |-> inverse, forward |-> forward]

\* Entries of the replay cache once the change just minted has answered.
Remembered(t, w, request) ==
  IF request.key = NoKey THEN idempotency
  ELSE [idempotency EXCEPT ![t] =
          Remember(@, [key |-> request.key, fingerprint |-> request.fingerprint,
                       workspaceId |-> w, changeId |-> ids[t].change + 1])]

\* recordCommit mints a change id, and an undo token for what can be undone.
Counted(minted, inverse) ==
  [change |-> minted.change + 1,
   undo |-> IF inverse = NoInverse THEN minted.undo ELSE minted.undo + 1,
   workspace |-> minted.workspace]

\* recordSuccess: the document, its snapshot, the ids, the replay entry.
\* `minted` is the tab's counters with what the tool itself already minted.
Commit(t, w, call, request, forward, inverse, minted) ==
  /\ Accepted(t, w, request)
  /\ documents' = [documents EXCEPT ![w] =
                     [revision |-> documents[w].revision + 1, content |-> forward]]
  /\ revisions' = PutRevision(Snapshot(w, documents[w].revision + 1, FALSE, forward))
  /\ ids' = [ids EXCEPT ![t] = Counted(minted, inverse)]
  /\ idempotency' = Remembered(t, w, request)
  /\ answer' = Reply(call, "applied", w, w)

Recorded(t, w, forward, inverse) ==
  Append(history[t], NewRecord(t, w, documents[w].revision + 1, forward, inverse))

RecordCommit(t, w, call, request, forward, inverse, minted) ==
  /\ Commit(t, w, call, request, forward, inverse, minted)
  /\ history' = [history EXCEPT ![t] = Recorded(t, w, forward, inverse)]

\* Variant: the content is written before the revision is stamped.
FailCommit_Unstamped(t, w, call, request, forward, minted) ==
  /\ StorageFails
  /\ Accepted(t, w, request)
  /\ documents' = [documents EXCEPT ![w].content = forward]
  /\ ids' = [ids EXCEPT ![t] = minted]
  /\ UNCHANGED <<revisions, history, idempotency>>
  /\ answer' = Reply(call, "storage_failed", w, 0)

\* put or putRevision throws StorageWriteError: in the second case the
\* document has moved although the caller is told the write failed.
FailCommit(t, w, call, request, forward, minted) ==
  /\ StorageFails
  /\ Accepted(t, w, request)
  /\ \/ UNCHANGED documents
     \/ documents' = [documents EXCEPT ![w] =
                        [revision |-> documents[w].revision + 1, content |-> forward]]
  /\ ids' = [ids EXCEPT ![t] = minted]
  /\ UNCHANGED <<revisions, history, idempotency>>
  /\ answer' = Reply(call, "storage_failed", w, 0)

\* setActiveId never reports a failed write.
SetActive(w) == activeId' = w \/ (StorageFails /\ UNCHANGED activeId)

-----------------------------------------------------------------------------
(* The tools *)

\* A tool or panel use case: mutate() makes the content d, and undoing it
\* restores the document mutate() was given (commitPanelChange, foldApply,
\* the screener tools) or is not offered.
Edit(t, target, op, d, undoable, expected, key) ==
  LET w == Resolve(target)
      request == Request(key, [kind |-> op, workspaceId |-> target, input |-> expected], expected)
      inverse == IF undoable THEN documents[w].content ELSE NoInverse
  IN  /\ phase[t] = "ready"
      /\ w # 0 /\ (target = 0 \/ Stored(w))
      /\ \/ Replay(t, w, "edit", request) /\ UNCHANGED <<storage, memory>>
         \/ /\ \/ RecordCommit(t, w, "edit", request, d, inverse, ids[t])
               \/ FailCommit(t, w, "edit", request, d, ids[t])
            /\ UNCHANGED <<activeId, phase>>

\* create_workspace mints the id first and moves the active pointer even
\* when recordCommit answers from the replay cache.
CreateWorkspace(t, key) ==
  LET w == ids[t].workspace + 1
      request == Request(key, [kind |-> "create", workspaceId |-> 0, input |-> 0], 0)
      minted == [ids[t] EXCEPT !.workspace = w]
  IN  /\ phase[t] = "ready" /\ w <= MaxWorkspaces
      /\ \/ /\ Replay(t, w, "create", request)
            /\ ids' = [ids EXCEPT ![t] = minted]
            /\ SetActive(w)
            /\ UNCHANGED <<documents, revisions, history, idempotency>>
         \/ RecordCommit(t, w, "create", request, Blank, NoInverse, minted) /\ SetActive(w)
         \/ FailCommit(t, w, "create", request, Blank, minted) /\ UNCHANGED activeId
      /\ UNCHANGED phase

\* save_workspace names the current snapshot without a new revision. It
\* checks expected_revision before it looks for a replay.
SaveWorkspace(t, target, expected, key) ==
  LET w == Resolve(target)
      doc == documents[w]
      request == Request(key, [kind |-> "save", workspaceId |-> w, input |-> expected], expected)
      record == NewRecord(t, w, doc.revision, doc.content, NoInverse)
  IN  /\ phase[t] = "ready"
      /\ w # 0 /\ Stored(w)
      /\ expected \in {0, doc.revision}
      /\ \/ Replay(t, w, "save", request) /\ UNCHANGED <<revisions, history, idempotency, ids>>
         \/ /\ Miss(t, key) /\ ids[t].change < MaxChanges
            /\ revisions' = PutRevision(Snapshot(w, doc.revision, TRUE, doc.content))
            /\ ids' = [ids EXCEPT ![t].change = @ + 1]
            /\ idempotency' = Remembered(t, w, request)
            /\ history' = [history EXCEPT ![t] = Append(@, record)]
            /\ answer' = Reply("save", "applied", w, w)
         \/ /\ StorageFails /\ Miss(t, key)
            /\ answer' = Reply("save", "storage_failed", w, 0)
            /\ UNCHANGED <<revisions, history, idempotency, ids>>
      /\ UNCHANGED <<documents, activeId, phase>>

\* restoreRevision: forward-only, and undoable to the document before it.
RestoreRevision(t, target, r, expected, key) ==
  LET w == Resolve(target)
      request == Request(key, [kind |-> "restore", workspaceId |-> 0, input |-> r], expected)
      before == IF Stored(w) THEN documents[w].content ELSE NoInverse
  IN  /\ phase[t] = "ready" /\ w # 0
      /\ \E e \in SnapshotsOf(w) :
           /\ e.revision = r
           /\ \/ Replay(t, w, "restore", request) /\ UNCHANGED <<storage, memory>>
              \/ /\ \/ RecordCommit(t, w, "restore", request, e.content, before, ids[t])
                    \/ FailCommit(t, w, "restore", request, e.content, ids[t])
                 /\ UNCHANGED <<activeId, phase>>

\* Variants: any unredeemed token; a record that never had one.
UndoAccepted_AnyRecord(t, r) == r.undoToken # 0 /\ r.undoState # "redeemed"
UndoAccepted_NoToken(t, r) == r.undoState # "redeemed" /\ IsNewest(t, r)

\* undoChange accepts the token of the newest record of its workspace.
UndoAccepted(t, r) ==
  /\ r.undoToken # 0
  /\ r.undoState # "redeemed"
  /\ IsNewest(t, r)

\* Variant: the undo's own record chains the inverse the wrong way round.
Undo_Unchained(t, r) ==
  /\ phase[t] = "ready"
  /\ UndoAccepted(t, r)
  /\ Commit(t, r.workspaceId, "undo", Unkeyed, r.inverse, r.forward, ids[t])
  /\ history' = [history EXCEPT ![t] =
       Redeem(Recorded(t, r.workspaceId, r.forward, r.inverse), r.undoToken)]
  /\ UNCHANGED <<activeId, phase>>

\* undoChange: the inverse draft is committed, the draft it reverses becomes
\* its inverse, and the token is redeemed.
Undo(t, r) ==
  /\ phase[t] = "ready"
  /\ UndoAccepted(t, r)
  /\ \/ /\ Commit(t, r.workspaceId, "undo", Unkeyed, r.inverse, r.forward, ids[t])
        /\ history' = [history EXCEPT ![t] =
             Redeem(Recorded(t, r.workspaceId, r.inverse, r.forward), r.undoToken)]
     \/ FailCommit(t, r.workspaceId, "undo", Unkeyed, r.inverse, ids[t])
  /\ UNCHANGED <<activeId, phase>>

-----------------------------------------------------------------------------
(* The page *)

NoIds == [change |-> 0, undo |-> 0, workspace |-> 0]

\* initializeWorkspace: the active workspace if it is stored, else a new one.
Boot(t) ==
  LET w == ids[t].workspace + 1
      minted == [ids[t] EXCEPT !.workspace = w]
  IN  /\ phase[t] = "loading"
      /\ \/ /\ activeId # 0 /\ Stored(activeId)
            /\ phase' = [phase EXCEPT ![t] = "ready"]
            /\ answer' = NoAnswer
            /\ UNCHANGED <<storage, history, idempotency, ids>>
         \/ /\ ~(activeId # 0 /\ Stored(activeId))
            /\ RecordCommit(t, w, "boot", Unkeyed, Blank, NoInverse, minted)
            /\ SetActive(w)
            /\ phase' = [phase EXCEPT ![t] = "seeding"]
         \/ /\ ~(activeId # 0 /\ Stored(activeId))
            /\ FailCommit(t, w, "boot", Unkeyed, Blank, ids[t])
            /\ UNCHANGED <<activeId, phase>>

\* seedDefaultWorkspace, only in the load that created the workspace: one
\* commit, for DEFAULT_SEED_PANELS holds one panel. A failing one ends the
\* load, and its memory is lost.
Seed(t) ==
  LET w == ids[t].workspace
  IN  /\ phase[t] = "seeding"
      /\ \/ /\ RecordCommit(t, w, "boot", Unkeyed, Seeded, documents[w].content, ids[t])
            /\ phase' = [phase EXCEPT ![t] = "ready"]
            /\ UNCHANGED activeId
         \/ /\ StorageFails /\ documents[w].revision < MaxRevision
            /\ documents' \in {documents, [documents EXCEPT ![w] =
                  [revision |-> documents[w].revision + 1, content |-> Seeded]]}
            /\ history' = [history EXCEPT ![t] = {}]
            /\ ids' = [ids EXCEPT ![t] = NoIds]
            /\ phase' = [phase EXCEPT ![t] = "loading"]
            /\ answer' = Reply("boot", "storage_failed", w, 0)
            /\ UNCHANGED <<revisions, activeId, idempotency>>

\* A reload discards everything kept in memory; panelIdSeed reseeds no
\* counter of this model.
Reload(t) ==
  /\ phase[t] = "ready"
  /\ history' = [history EXCEPT ![t] = {}]
  /\ idempotency' = [idempotency EXCEPT ![t] = {}]
  /\ ids' = [ids EXCEPT ![t] = NoIds]
  /\ phase' = [phase EXCEPT ![t] = "loading"]
  /\ answer' = NoAnswer
  /\ UNCHANGED storage

\* An hour passes: entries expire in insertion order.
ExpireKey(t) ==
  /\ idempotency[t] # {}
  /\ idempotency' = [idempotency EXCEPT ![t] =
       {e \in @ : \E x \in @ : x.changeId < e.changeId}]
  /\ answer' = NoAnswer
  /\ UNCHANGED <<storage, history, ids, phase>>

-----------------------------------------------------------------------------
Init ==
  /\ documents = [w \in WorkspaceIds |-> [revision |-> 0, content |-> Blank]]
  /\ revisions = {}
  /\ activeId = 0
  /\ history = [t \in Tabs |-> {}]
  /\ idempotency = [t \in Tabs |-> {}]
  /\ ids = [t \in Tabs |-> NoIds]
  /\ phase = [t \in Tabs |-> "loading"]
  /\ answer = NoAnswer

Targets == 0..MaxWorkspaces

Next ==
  \E t \in Tabs :
    \/ \E target \in Targets, op \in Operations, d \in Contents, undoable \in BOOLEAN,
          expected \in ExpectedRevisions, key \in Keys \union {NoKey} :
         Edit(t, target, op, d, undoable, expected, key)
    \/ \E key \in Keys \union {NoKey} : CreateWorkspace(t, key)
    \/ \E target \in Targets, expected \in ExpectedRevisions, key \in Keys \union {NoKey} :
         SaveWorkspace(t, target, expected, key)
    \/ \E target \in Targets, r \in 1..MaxRevision, expected \in ExpectedRevisions,
          key \in Keys \union {NoKey} : RestoreRevision(t, target, r, expected, key)
    \/ \E r \in history[t] : Undo(t, r)
    \/ Boot(t) \/ Seed(t) \/ Reload(t) \/ ExpireKey(t)

Spec == Init /\ [][Next]_vars

-----------------------------------------------------------------------------
(* Properties *)

\* An undo the history accepts finds the document exactly as its change left
\* it, so reversing that change cannot silently drop a later one
\* (undoChange's newest check, "Reverses exactly the change").
UndoErasesNothing ==
  \A t \in Tabs : \A r \in history[t] :
    UndoAccepted(t, r) =>
      documents[r.workspaceId] = [revision |-> r.revision, content |-> r.forward]

\* What an undo would bring back is what was stored one revision before the
\* change, undos of undos and of restores included (the inverse chaining of
\* recordCommit).
UndoRestoresPrevious ==
  \A t \in Tabs : \A r \in history[t] :
    r.inverse # NoInverse =>
      \A e \in SnapshotsOf(r.workspaceId) : e.revision + 1 = r.revision => e.content = r.inverse

\* A change the log shows as available can be undone: pruning, replays and
\* saves never leave a stale "available" (ChangeHistory.append and prune).
AvailableMeansUndoable ==
  \A t \in Tabs : \A r \in history[t] :
    r.undoState = "available" => UndoAccepted(t, r) /\ r.inverse # NoInverse

\* The change log of a workspace stays within its limit (prune always finds
\* something to drop).
RecordsBounded ==
  \A t \in Tabs, w \in WorkspaceIds :
    Cardinality({r \in history[t] : r.workspaceId = w}) <= MaxRecords

\* The change log is sound: what it offers to undo can be undone, and what it
\* drops at its limit was no longer on offer.
LogIsSound == AvailableMeansUndoable /\ RecordsBounded

\* No snapshot is ahead of its document, and the snapshot of the current
\* revision is the current document, whatever tabs and failures did.
SnapshotsFaithful ==
  \A e \in revisions :
    /\ e.revision \in 1..documents[e.workspaceId].revision
    /\ e.revision = documents[e.workspaceId].revision =>
         e.content = documents[e.workspaceId].content
    /\ \A f \in SnapshotsOf(e.workspaceId) : f.revision = e.revision => f = e

\* A stored revision number never comes to mean another content, so
\* restoring it later gives what was stored.
SnapshotsNeverRewritten ==
  [][\A e \in revisions, f \in revisions' :
       e.workspaceId = f.workspaceId /\ e.revision = f.revision => e.content = f.content]_vars

\* A revision the user saved under a name stays restorable (pruneRevisions
\* "a named save is never pruned", and putRevision never replaces it).
SavedRevisionsKept ==
  [][\A e \in revisions : e.named => e \in revisions']_vars

Archive == INSTANCE VersionArchive
             WITH Workspaces <- WorkspaceIds, current <- documents, archive <- revisions

\* The write path implements the archive of numbered versions.
ImplementsArchive == Archive!Spec

=============================================================================
