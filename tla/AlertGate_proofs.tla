-------------------------- MODULE AlertGate_proofs --------------------------
(***************************************************************************)
(* Proofs about PreviewApply, for every number of tabs, previews and       *)
(* revisions, with failing writes and failing rollbacks; and about         *)
(* AlertGate over it, for every number of alerts and clock ticks and every *)
(* request lifetime.                                                       *)
(***************************************************************************)
EXTENDS AlertGate, WorkspaceRevisions_proofs

-----------------------------------------------------------------------------
(* Preview and apply                                                        *)

PreviewsTyped == previews \in [Tabs -> [sequence: Nat, entries: SUBSET PreviewRecord]]

\* The store is a map from preview ids, and ids are issued upwards.
PreviewIdsUnique ==
  \A t \in Tabs : \A p \in previews[t].entries :
    /\ p.previewId <= previews[t].sequence
    /\ \A q \in previews[t].entries : q.previewId = p.previewId => q = p

PreviewInv ==
  /\ TypeInv /\ PreviewsTyped /\ PreviewIdsUnique
  /\ PreviewsHonest /\ ConsumedMeansCommitted

-----------------------------------------------------------------------------
(* The preview store *)

LEMMA PutPreviewSubset ==
  ASSUME NEW entries, NEW p
  PROVE  PutPreview(entries, p) \subseteq entries \union {p}
BY DEF PutPreview, Highest

\* Marking changes nothing but the consumed flag of the entry marked.
LEMMA MarkConsumedType ==
  ASSUME NEW entries \in SUBSET PreviewRecord, NEW id
  PROVE  \A q \in MarkConsumed(entries, id) : q \in PreviewRecord /\ \E p \in entries :
           /\ q.previewId = p.previewId /\ q.workspaceId = p.workspaceId
           /\ q.baseRevision = p.baseRevision /\ q.before = p.before
           /\ q.applicable = p.applicable /\ q.candidate = p.candidate
           /\ IF p.previewId = id THEN q = [p EXCEPT !.consumed = TRUE] ELSE q = p
<1> SUFFICES ASSUME NEW q \in MarkConsumed(entries, id)
             PROVE  q \in PreviewRecord /\ \E p \in entries :
                      /\ q.previewId = p.previewId /\ q.workspaceId = p.workspaceId
                      /\ q.baseRevision = p.baseRevision /\ q.before = p.before
                      /\ q.applicable = p.applicable /\ q.candidate = p.candidate
                      /\ IF p.previewId = id THEN q = [p EXCEPT !.consumed = TRUE] ELSE q = p
  OBVIOUS
<1>1. PICK p \in entries :
        q = IF p.previewId = id THEN [p EXCEPT !.consumed = TRUE] ELSE p
  BY DEF MarkConsumed
<1>2. p \in PreviewRecord
  OBVIOUS
<1>3. /\ q \in PreviewRecord
      /\ q.previewId = p.previewId /\ q.workspaceId = p.workspaceId
      /\ q.baseRevision = p.baseRevision /\ q.before = p.before
      /\ q.applicable = p.applicable /\ q.candidate = p.candidate
  BY <1>1, <1>2 DEF PreviewRecord
<1> QED BY <1>1, <1>3

\* A document never goes back, and at an unchanged revision it is unchanged.
LEMMA DocumentsAdvance ==
  ASSUME TypeInv, StorageStep, NEW w \in WorkspaceIds
  PROVE  /\ documents[w].revision \in Nat /\ documents'[w].revision \in Nat
         /\ documents[w].revision <= documents'[w].revision
         /\ documents[w].revision = documents'[w].revision => documents'[w] = documents[w]
<1>1. documents[w].revision \in Nat /\ documents \in [WorkspaceIds -> Document]
  BY DEF TypeInv, TypeOK, Document
<1>2. CASE documents' = documents
  BY <1>1, <1>2
<1>3. CASE StorageAdvance
  <2>1. PICK v \in WorkspaceIds, c \in Contents :
          documents' = [documents EXCEPT ![v] =
                          [revision |-> documents[v].revision + 1, content |-> c]]
    BY <1>3 DEF StorageAdvance
  <2>2. CASE v = w
    BY <1>1, <2>1, <2>2
  <2>3. CASE v # w
    BY <1>1, <2>1, <2>3
  <2> QED BY <2>2, <2>3
<1> QED BY <1>2, <1>3 DEF StorageStep, StorageName

\* Previews that a storage step leaves alone stay as honest as they were.
LEMMA KeptPreviews ==
  ASSUME PreviewInv, StorageStep,
         previews' \in [Tabs -> [sequence: Nat, entries: SUBSET PreviewRecord]],
         \A t \in Tabs : previews'[t].entries \subseteq previews[t].entries
  PROVE  PreviewsHonest' /\ ConsumedMeansCommitted'
<1>1. \A t \in Tabs : \A p \in previews[t].entries : p \in PreviewRecord
  BY DEF PreviewInv, PreviewsTyped
<1>2. \A t \in Tabs : \A p \in previews[t].entries :
        p.workspaceId \in WorkspaceIds /\ p.baseRevision \in Nat
  BY <1>1 DEF PreviewRecord
<1>3. PreviewsHonest'
  BY <1>2, DocumentsAdvance DEF PreviewInv, PreviewsHonest
<1>4. ConsumedMeansCommitted'
  BY <1>2, DocumentsAdvance DEF PreviewInv, ConsumedMeansCommitted
<1> QED BY <1>3, <1>4

-----------------------------------------------------------------------------
(* The steps *)

LEMMA ElsewherePreview ==
  ASSUME PreviewInv, Elsewhere
  PROVE  PreviewInv'
<1>1. TypeInv' /\ StorageStep
  BY NextTypeInv, NextStorage DEF Elsewhere, PreviewInv
<1>2. \A t \in Tabs : previews'[t] = EmptyStore \/ previews'[t] = previews[t]
  BY DEF Elsewhere
<1>3. PreviewsTyped'
  BY DEF Elsewhere, PreviewInv, PreviewsTyped, EmptyStore
<1>4. \A t \in Tabs : previews'[t].entries \subseteq previews[t].entries
  BY <1>2 DEF EmptyStore
<1>5. PreviewIdsUnique'
  BY <1>2 DEF PreviewInv, PreviewIdsUnique, EmptyStore
<1> QED BY <1>1, <1>3, <1>4, <1>5, KeptPreviews DEF PreviewInv, PreviewsTyped

\* A preview adds one well-typed entry and moves nothing else.
LEMMA PreviewTypes ==
  ASSUME TypeInv, PreviewsTyped, NEW t \in Tabs, NEW target \in Targets, NEW d \in Contents,
         NEW applicable \in BOOLEAN, Preview(t, target, d, applicable)
  PROVE  /\ TypeInv' /\ PreviewsTyped'
         /\ UNCHANGED <<documents, revisions, activeId, history, idempotency, ids, phase>>
         /\ Resolve(target) \in WorkspaceIds
         /\ \E p \in PreviewRecord :
              /\ p.previewId = previews[t].sequence + 1 /\ p.workspaceId = Resolve(target)
              /\ p.baseRevision = documents[Resolve(target)].revision
              /\ p.before = documents[Resolve(target)].content
              /\ p.candidate \in {d, documents[Resolve(target)].content}
              /\ ~p.consumed
              /\ \A s \in Tabs : s # t => previews'[s] = previews[s]
              /\ previews'[t].sequence = previews[t].sequence + 1
              /\ previews'[t].entries \subseteq previews[t].entries \union {p}
<1> DEFINE w == Resolve(target)
           id == previews[t].sequence + 1
           p == [previewId |-> id, workspaceId |-> w, baseRevision |-> documents[w].revision,
                 before |-> documents[w].content,
                 candidate |-> IF applicable THEN d ELSE documents[w].content,
                 applicable |-> applicable, consumed |-> FALSE]
<1>1. w \in WorkspaceIds
  BY ResolveType DEF Preview
<1>2. documents[w].revision \in Nat /\ documents[w].content \in Contents
  BY <1>1 DEF TypeInv, TypeOK, Document
<1>3. previews[t].sequence \in Nat /\ previews[t].entries \subseteq PreviewRecord
  BY DEF PreviewsTyped
<1>4. p \in PreviewRecord
  BY <1>1, <1>2, <1>3 DEF PreviewRecord
<1>5. /\ p.previewId = previews[t].sequence + 1 /\ p.workspaceId = w
      /\ p.baseRevision = documents[w].revision /\ p.before = documents[w].content
      /\ p.candidate \in {d, documents[w].content} /\ ~p.consumed
  OBVIOUS
<1>6. previews' = [previews EXCEPT ![t] =
                     [sequence |-> id, entries |-> PutPreview(@.entries, p)]]
  BY DEF Preview
<1>7. UNCHANGED <<documents, revisions, activeId, history, idempotency, ids, phase>>
  BY DEF Preview, storage, memory
<1> HIDE DEF p, w
<1>8. PutPreview(previews[t].entries, p) \subseteq previews[t].entries \union {p}
  BY PutPreviewSubset
<1>9. PreviewsTyped'
  BY <1>3, <1>4, <1>6, <1>8 DEF PreviewsTyped
<1>10. /\ \A s \in Tabs : s # t => previews'[s] = previews[s]
       /\ previews'[t].sequence = previews[t].sequence + 1
       /\ previews'[t].entries \subseteq previews[t].entries \union {p}
  BY <1>6, <1>8 DEF PreviewsTyped
<1>11. TypeInv'
  BY <1>7, BoundsAssumption DEF Preview, NoAnswer, Reply, Answer, TypeInv, TypeOK, Starting,
     TokensRestore
<1> QED BY <1>1, <1>4, <1>5, <1>7, <1>9, <1>10, <1>11 DEF w

LEMMA PreviewPreview ==
  ASSUME PreviewInv, NEW t \in Tabs, NEW target \in Targets, NEW d \in Contents,
         NEW applicable \in BOOLEAN, Preview(t, target, d, applicable)
  PROVE  PreviewInv'
<1>1. /\ TypeInv' /\ PreviewsTyped'
      /\ UNCHANGED <<documents, revisions, activeId, history, idempotency, ids, phase>>
  BY PreviewTypes DEF PreviewInv
<1>2. PICK p \in PreviewRecord :
        /\ p.previewId = previews[t].sequence + 1 /\ p.workspaceId = Resolve(target)
        /\ p.baseRevision = documents[Resolve(target)].revision
        /\ p.before = documents[Resolve(target)].content
        /\ ~p.consumed
        /\ \A s \in Tabs : s # t => previews'[s] = previews[s]
        /\ previews'[t].sequence = previews[t].sequence + 1
        /\ previews'[t].entries \subseteq previews[t].entries \union {p}
  BY PreviewTypes DEF PreviewInv
<1>3. documents[Resolve(target)].revision \in Nat
  BY PreviewTypes DEF PreviewInv, TypeInv, TypeOK, Document
<1>4. previews[t].sequence \in Nat /\ previews[t].entries \subseteq PreviewRecord
  BY DEF PreviewInv, PreviewsTyped
<1>5. \A q \in previews[t].entries : q.previewId \in Nat /\ q.previewId <= previews[t].sequence
  BY <1>4 DEF PreviewInv, PreviewIdsUnique, PreviewRecord
<1>6. PreviewIdsUnique'
  BY <1>2, <1>4, <1>5 DEF PreviewInv, PreviewIdsUnique
<1>7. PreviewsHonest'
  BY <1>1, <1>2, <1>3 DEF PreviewInv, PreviewsHonest
<1>8. ConsumedMeansCommitted'
  BY <1>1, <1>2 DEF PreviewInv, ConsumedMeansCommitted
<1> QED BY <1>1, <1>6, <1>7, <1>8 DEF PreviewInv

LEMMA ApplyRequestType ==
  ASSUME NEW id \in Nat, NEW base \in Nat, NEW key \in Keys \union {NoKey}
  PROVE  ApplyRequest(id, base, key) \in Requests
BY BoundsAssumption DEF ApplyRequest, Request, Requests, Fingerprint, Kinds

\* What applying leaves well typed, and who else's previews it touches.
LEMMA ApplyTypes ==
  ASSUME TypeInv, PreviewsTyped, NEW t \in Tabs, NEW p \in previews[t].entries,
         NEW expected \in ExpectedRevisions, NEW key \in Keys \union {NoKey},
         Apply(t, p, expected, key)
  PROVE  TypeInv' /\ PreviewsTyped' /\ StorageStep
<1> DEFINE w == p.workspaceId
           request == ApplyRequest(p.previewId, p.baseRevision, key)
           before == documents[w].content
<1>1. /\ previews[t].entries \in SUBSET PreviewRecord
      /\ p \in PreviewRecord
  BY DEF PreviewsTyped
<1>2. /\ w \in WorkspaceIds /\ p.previewId \in Nat /\ p.baseRevision \in Nat
      /\ p.candidate \in Contents /\ before \in Contents /\ ids[t] \in Counters
      /\ documents[w].revision = p.baseRevision
  BY <1>1 DEF PreviewRecord, TypeInv, TypeOK, Document, Counters, Apply, Applicable
<1>3. request \in Requests
  BY <1>2, ApplyRequestType
<1>4. phase[t] = "ready"
  BY DEF Apply
<1> HIDE DEF request, before, w
<1>5. ASSUME RecordCommit(t, w, "apply", request, p.candidate, before, ids[t]),
             previews' = [previews EXCEPT ![t].entries = MarkConsumed(@, p.previewId)],
             UNCHANGED <<activeId, phase>>
      PROVE  TypeInv' /\ PreviewsTyped' /\ StorageStep
  <2>1. Starting'
    <3>1. Counted(ids[t], before) \in Counters
      BY <1>2 DEF Counted, Counters
    <3> QED BY <1>4, <1>5, <3>1, StillStarting DEF RecordCommit, Commit
  <2>2. TypeInv'
    BY <1>2, <1>3, <1>5, <2>1, RecordCommitType DEF Calls, TypeInv, TypeOK
  <2>3. StorageStep
    BY <1>2, <1>5, CommitStorage DEF RecordCommit
  <2>4. MarkConsumed(previews[t].entries, p.previewId) \in SUBSET PreviewRecord
    <3>1. \A q \in MarkConsumed(previews[t].entries, p.previewId) : q \in PreviewRecord
      BY <1>1, MarkConsumedType
    <3> QED BY <3>1
  <2>5. PreviewsTyped'
    BY <1>5, <2>4 DEF PreviewsTyped
  <2> QED BY <2>2, <2>3, <2>5
<1>6. ASSUME FailApply(t, p, key)
      PROVE  TypeInv' /\ PreviewsTyped' /\ StorageStep
  <2>1. /\ StorageStep
        /\ documents' \in [WorkspaceIds -> Document]
        /\ UNCHANGED <<revisions, activeId, history, idempotency, ids, phase, previews>>
    BY <1>2, <1>6 DEF FailApply, memory, StorageStep, StorageAdvance, w, Document,
       TypeInv, TypeOK
  <2>2. answer' \in Answer
    BY <1>2, <1>6, BoundsAssumption DEF FailApply, Reply, Answer, WorkspaceIds, w
  <2>3. TypeInv'
    BY <2>1, <2>2 DEF TypeInv, TypeOK, Starting, TokensRestore
  <2>4. PreviewsTyped'
    BY <2>1 DEF PreviewsTyped
  <2> QED BY <2>1, <2>3, <2>4
<1> QED BY <1>5, <1>6 DEF Apply, w, request, before

LEMMA ApplyPreview ==
  ASSUME PreviewInv, NEW t \in Tabs, NEW p \in previews[t].entries,
         NEW expected \in ExpectedRevisions, NEW key \in Keys \union {NoKey},
         Apply(t, p, expected, key)
  PROVE  PreviewInv'
<1> DEFINE w == p.workspaceId
<1>1. /\ previews[t].entries \in SUBSET PreviewRecord
      /\ p \in PreviewRecord
  BY DEF PreviewInv, PreviewsTyped
<1>2. /\ w \in WorkspaceIds /\ p.previewId \in Nat /\ p.baseRevision \in Nat
      /\ documents[w].revision = p.baseRevision
  BY <1>1 DEF PreviewRecord, Apply, Applicable
<1>3. TypeInv' /\ PreviewsTyped' /\ StorageStep
  BY ApplyTypes DEF PreviewInv
<1>4. p.applicable
  BY DEF Apply, Applicable
<1> HIDE DEF w
<1>5. ASSUME documents' = [documents EXCEPT ![w] =
               [revision |-> documents[w].revision + 1, content |-> p.candidate]],
             previews' = [previews EXCEPT ![t].entries = MarkConsumed(@, p.previewId)]
      PROVE  PreviewInv'
  <2> DEFINE marked == MarkConsumed(previews[t].entries, p.previewId)
  <2>4. \A q \in marked : q \in PreviewRecord /\ \E o \in previews[t].entries :
          /\ q.previewId = o.previewId /\ q.workspaceId = o.workspaceId
          /\ q.baseRevision = o.baseRevision /\ q.before = o.before
          /\ q.applicable = o.applicable /\ q.candidate = o.candidate
          /\ IF o.previewId = p.previewId THEN q = [o EXCEPT !.consumed = TRUE] ELSE q = o
    BY <1>1, MarkConsumedType
  <2>5. /\ previews'[t].sequence = previews[t].sequence
        /\ previews'[t].entries = marked
        /\ \A s \in Tabs : s # t => previews'[s] = previews[s]
    BY <1>5 DEF PreviewInv, PreviewsTyped
  <2> HIDE DEF marked
  <2>7. \A s \in Tabs : \A q \in previews'[s].entries : \E o \in previews[s].entries :
          /\ q.previewId = o.previewId /\ q.workspaceId = o.workspaceId
          /\ q.baseRevision = o.baseRevision /\ q.before = o.before
          /\ q.applicable = o.applicable
          /\ q = o \/ (s = t /\ o = p)
    BY <2>4, <2>5 DEF PreviewInv, PreviewIdsUnique
  <2>8. PreviewIdsUnique'
    <3>1. ASSUME NEW q \in marked, NEW r \in marked, q.previewId = r.previewId
          PROVE  q = r
      <4>1. PICK o \in previews[t].entries :
              /\ q.previewId = o.previewId
              /\ IF o.previewId = p.previewId THEN q = [o EXCEPT !.consumed = TRUE] ELSE q = o
        BY <2>4
      <4>2. PICK u \in previews[t].entries :
              /\ r.previewId = u.previewId
              /\ IF u.previewId = p.previewId THEN r = [u EXCEPT !.consumed = TRUE] ELSE r = u
        BY <2>4
      <4>3. o = u
        BY <3>1, <4>1, <4>2 DEF PreviewInv, PreviewIdsUnique
      <4> QED BY <4>1, <4>2, <4>3
    <3>2. \A q \in marked : q.previewId <= previews[t].sequence
      BY <2>4 DEF PreviewInv, PreviewIdsUnique
    <3> QED BY <2>5, <3>1, <3>2 DEF PreviewInv, PreviewIdsUnique
  <2>9. \A s \in Tabs : \A o \in previews[s].entries :
          o.workspaceId \in WorkspaceIds /\ o.baseRevision \in Nat
    BY DEF PreviewInv, PreviewsTyped, PreviewRecord
  <2>10. PreviewsHonest'
    BY <1>3, <2>7, <2>9, DocumentsAdvance DEF PreviewInv, PreviewsHonest
  <2>11. documents'[w].revision > p.baseRevision
    BY <1>2, <1>5 DEF PreviewInv, TypeInv, TypeOK, Document
  <2>12. ConsumedMeansCommitted'
    <3> SUFFICES ASSUME NEW s \in Tabs, NEW q \in previews'[s].entries, q.consumed
                 PROVE  q.applicable /\ documents'[q.workspaceId].revision > q.baseRevision
      BY DEF ConsumedMeansCommitted
    <3>1. PICK o \in previews[s].entries :
            /\ q.workspaceId = o.workspaceId /\ q.baseRevision = o.baseRevision
            /\ q.applicable = o.applicable /\ (q = o \/ o = p)
      BY <2>7
    <3>2. CASE o = p
      BY <1>4, <2>11, <3>1, <3>2 DEF w
    <3>3. CASE q = o
      <4>1. o.applicable /\ documents[o.workspaceId].revision > o.baseRevision
        BY <3>3 DEF PreviewInv, ConsumedMeansCommitted
      <4>2. /\ documents[o.workspaceId].revision \in Nat /\ o.baseRevision \in Nat
            /\ documents'[o.workspaceId].revision \in Nat
            /\ documents[o.workspaceId].revision <= documents'[o.workspaceId].revision
        BY <1>3, <2>9, DocumentsAdvance DEF PreviewInv
      <4> QED BY <3>3, <4>1, <4>2
    <3> QED BY <3>1, <3>2, <3>3
  <2> QED BY <1>3, <2>8, <2>10, <2>12 DEF PreviewInv
<1>6. ASSUME FailApply(t, p, key)
      PROVE  PreviewInv'
  <2>1. UNCHANGED previews
    BY <1>6 DEF FailApply
  <2>2. PreviewIdsUnique'
    BY <2>1 DEF PreviewInv, PreviewIdsUnique
  <2> QED BY <1>3, <2>1, <2>2, KeptPreviews DEF PreviewInv, PreviewsTyped
<1> QED BY <1>5, <1>6 DEF Apply, RecordCommit, Commit, w

LEMMA RetryApplyPreview ==
  ASSUME PreviewInv, NEW t \in Tabs, NEW id, NEW key, RetryApply(t, id, key)
  PROVE  PreviewInv'
<1>1. UNCHANGED <<documents, revisions, activeId, history, idempotency, ids, phase, previews>>
  BY DEF RetryApply, storage, memory
<1>2. answer' \in Answer
  <2>1. PICK e \in idempotency[t] : Replay(t, e.workspaceId, "apply", ApplyRequest(id, 0, key))
    BY DEF RetryApply
  <2>2. e.workspaceId \in WorkspaceIds
    BY DEF PreviewInv, TypeInv, TypeOK, CacheEntry
  <2> QED BY <2>1, <2>2, ReplayType DEF Calls, PreviewInv
<1> QED BY <1>1, <1>2 DEF PreviewInv, TypeInv, TypeOK, Starting, TokensRestore, PreviewsTyped,
        PreviewIdsUnique, PreviewsHonest, ConsumedMeansCommitted

LEMMA ExpirePreviewPreview ==
  ASSUME PreviewInv, NEW t \in Tabs, ExpirePreview(t)
  PROVE  PreviewInv'
<1>1. UNCHANGED <<documents, revisions, activeId, history, idempotency, ids, phase>>
  BY DEF ExpirePreview, storage, memory
<1>2. answer' \in Answer
  BY BoundsAssumption DEF ExpirePreview, NoAnswer, Reply, Answer
<1>3. TypeInv' /\ StorageStep
  BY <1>1, <1>2 DEF PreviewInv, TypeInv, TypeOK, Starting, TokensRestore, StorageStep
<1>4. PreviewsTyped' /\ \A s \in Tabs : previews'[s].entries \subseteq previews[s].entries
  BY DEF ExpirePreview, PreviewInv, PreviewsTyped
<1>5. PreviewIdsUnique'
  BY DEF ExpirePreview, PreviewInv, PreviewsTyped, PreviewIdsUnique
<1> QED BY <1>3, <1>4, <1>5, KeptPreviews DEF PreviewInv, PreviewsTyped

LEMMA PreviewInvariant == PreviewSpec => []PreviewInv
<1>1. PreviewInit => PreviewInv
  BY InitTypeInv DEF PreviewInit, PreviewInv, PreviewsTyped, EmptyStore, PreviewIdsUnique,
     PreviewsHonest, ConsumedMeansCommitted
<1>2. PreviewInv /\ [PreviewNext]_previewVars => PreviewInv'
  <2> SUFFICES ASSUME PreviewInv, [PreviewNext]_previewVars PROVE PreviewInv'
    OBVIOUS
  <2>1. CASE UNCHANGED previewVars
    BY <2>1 DEF previewVars, vars, PreviewInv, TypeInv, TypeOK, Starting, TokensRestore,
       PreviewsTyped, PreviewIdsUnique, PreviewsHonest, ConsumedMeansCommitted
  <2>2. CASE PreviewNext
    BY <2>2, ElsewherePreview, PreviewPreview, ApplyPreview, RetryApplyPreview,
       ExpirePreviewPreview DEF PreviewNext
  <2> QED BY <2>1, <2>2
<1> QED BY <1>1, <1>2, PTL DEF PreviewSpec

\* The diff a user approved is the change that gets applied, for every number
\* of tabs and whatever happens between preview and apply.
THEOREM PreviewsStayHonest == PreviewSpec => []PreviewsHonest
<1>1. PreviewInv => PreviewsHonest
  BY DEF PreviewInv
<1> QED BY <1>1, PreviewInvariant, PTL

\* A preview is used up only by a change that went through, and no preview
\* can be applied twice.
THEOREM PreviewsUsedOnce == PreviewSpec => []ConsumedMeansCommitted
<1>1. PreviewInv => ConsumedMeansCommitted
  BY DEF PreviewInv
<1> QED BY <1>1, PreviewInvariant, PTL

-----------------------------------------------------------------------------
(* What is armed was confirmed, wherever a document is kept                 *)

AlertsTyped ==
  /\ now \in 0..MaxTime
  /\ requested \in SUBSET [conditions: Conditions, at: 0..MaxTime]
  /\ confirmed \in SUBSET Conditions

\* The alerts that may be stored, kept as a snapshot, logged or previewed: an
\* armed one was confirmed as it is, and a pending one was asked for as it is
\* and expires when its request does.
GoodAlerts ==
  {c \in Contents :
     /\ c.state # "none" => c.conditions \in Conditions
     /\ c.state = "armed" => c.conditions \in confirmed
     /\ c.state = "pending_activation" =>
          \E q \in requested : q.conditions = c.conditions /\ c.expiresAt = q.at + Ttl}

AlertsStoredGood == ContentsIn(documents, revisions, history, GoodAlerts)

CandidatesGood == \A t \in Tabs : \A p \in previews[t].entries : p.candidate \in GoodAlerts

AlertInv == TypeInv /\ PreviewsTyped /\ AlertsTyped /\ AlertsStoredGood /\ CandidatesGood

\* Nothing stops being good: requests and confirmations are never forgotten.
LEMMA GoodStaysGood ==
  ASSUME requested \subseteq requested', confirmed \subseteq confirmed'
  PROVE  GoodAlerts \subseteq GoodAlerts'
BY DEF GoodAlerts

LEMMA ContentsStayGood ==
  ASSUME NEW docs, NEW snapshots, NEW log, NEW Good, NEW Better,
         ContentsIn(docs, snapshots, log, Good), Good \subseteq Better
  PROVE  ContentsIn(docs, snapshots, log, Better)
BY DEF ContentsIn

LEMMA AlertTyped ==
  ASSUME TypeInv, NEW w \in WorkspaceIds
  PROVE  AlertIn(w) \in Contents /\ AlertIn(w) \in Alert
BY ContentsAreAlerts DEF TypeInv, TypeOK, Document, AlertIn

-----------------------------------------------------------------------------
(* The steps *)

\* A tool that commits a good alert keeps everything good.
LEMMA AlertToolGood ==
  ASSUME AlertInv, NEW t \in Tabs, NEW op \in AlertOperations, NEW alert \in GoodAlerts',
         NEW undoable \in BOOLEAN, AlertTool(t, op, alert, undoable), AlertsTyped',
         requested \subseteq requested', confirmed \subseteq confirmed'
  PROVE  AlertInv'
<1>1. alert \in Contents
  BY DEF GoodAlerts
<1>2. GoodAlerts \subseteq GoodAlerts'
  BY GoodStaysGood
<1>3. op \in Operations /\ 0 \in Targets /\ 0 \in ExpectedRevisions
  BY AlertAssumption, BoundsAssumption DEF Targets
<1>4. Edit(t, 0, op, alert, undoable, 0, NoKey) /\ UNCHANGED previews
  BY DEF AlertTool
<1>5. TypeInv'
  BY <1>1, <1>3, <1>4, EditType DEF AlertInv
<1>6. PreviewsTyped' /\ CandidatesGood'
  BY <1>2, <1>4 DEF AlertInv, PreviewsTyped, CandidatesGood
<1>7. AlertsStoredGood'
  <2> DEFINE Good == GoodAlerts'
  <2>1. ContentsIn(documents, revisions, history, Good)
    BY <1>2, ContentsStayGood DEF AlertInv, AlertsStoredGood
  <2>2. alert \in Good
    OBVIOUS
  <2> HIDE DEF Good
  <2>3. ContentsIn(documents', revisions', history', Good)
    BY <1>1, <1>3, <1>4, <2>1, <2>2, EditContents DEF AlertInv
  <2> QED BY <2>3 DEF Good, AlertsStoredGood
<1> QED BY <1>5, <1>6, <1>7 DEF AlertInv

LEMMA ToolsGood ==
  ASSUME AlertInv, NEW t \in Tabs,
         \/ \E c \in Conditions : CreateAlertDraft(t, c) \/ EditAlertDraft(t, c)
         \/ EnableAlert(t) \/ DisableAlert(t) \/ OtherTool(t)
  PROVE  AlertInv'
<1> DEFINE a == AlertIn(activeId)
<1>1. activeId # 0 => activeId \in WorkspaceIds
  BY BoundsAssumption DEF AlertInv, TypeInv, TypeOK, WorkspaceIds
<1>2. activeId # 0 => a \in Alert /\ a \in GoodAlerts
  BY <1>1, AlertTyped DEF AlertInv, AlertsStoredGood, ContentsIn, AlertIn
<1>3. UNCHANGED <<now, confirmed>>
  BY DEF CreateAlertDraft, EditAlertDraft, EnableAlert, DisableAlert, OtherTool, AlertTool
<1>4. ASSUME NEW c \in Conditions, CreateAlertDraft(t, c) \/ EditAlertDraft(t, c)
      PROVE  AlertInv'
  <2>1. Draft(c) \in Contents
    BY ContentsAreAlerts, AlertAssumption DEF Draft, Alert, AlertStates
  <2>2. Draft(c) \in GoodAlerts'
    BY <2>1 DEF GoodAlerts, Draft
  <2>3. UNCHANGED requested
    BY <1>4 DEF CreateAlertDraft, EditAlertDraft
  <2>4. AlertsTyped'
    BY <1>3, <2>3 DEF AlertInv, AlertsTyped
  <2>5. \/ AlertTool(t, "alerts.create_draft", Draft(c), TRUE)
        \/ AlertTool(t, "alerts.edit_conditions", Draft(c), TRUE)
    BY <1>4 DEF CreateAlertDraft, EditAlertDraft
  <2> QED BY <1>3, <2>2, <2>3, <2>4, <2>5, AlertToolGood DEF AlertOperations
<1>5. CASE EnableAlert(t)
  <2> DEFINE asked == [conditions |-> a.conditions, at |-> now]
             alert == [a EXCEPT !.state = "pending_activation", !.expiresAt = now + Ttl]
  <2>1. activeId # 0 /\ a.state \in {"draft", "pending_activation"}
    BY <1>5 DEF EnableAlert
  <2>2. a.conditions \in Conditions /\ now \in 0..MaxTime
    BY <1>2, <2>1 DEF GoodAlerts, AlertInv, AlertsTyped
  <2>3. requested' = requested \union {asked}
    BY <1>5 DEF EnableAlert
  <2>4. AlertsTyped'
    BY <1>3, <2>2, <2>3 DEF AlertInv, AlertsTyped
  <2>5. alert \in Contents
    <3>1. now + Ttl \in 0..(MaxTime + Ttl)
      BY <2>2, AlertAssumption
    <3> QED BY <1>2, <2>1, <3>1, ContentsAreAlerts DEF Alert, AlertStates
  <2>6. /\ alert.state = "pending_activation" /\ alert.conditions = a.conditions
        /\ alert.expiresAt = now + Ttl
    BY <1>2, <2>1 DEF Alert
  <2>7. alert \in GoodAlerts'
    <3>1. asked \in requested' /\ asked.conditions = alert.conditions
          /\ alert.expiresAt = asked.at + Ttl
      BY <2>3, <2>6
    <3> HIDE DEF alert, asked
    <3> QED BY <2>2, <2>5, <2>6, <3>1 DEF GoodAlerts
  <2>8. AlertTool(t, "alerts.enable_activation", alert, TRUE)
    BY <1>5 DEF EnableAlert
  <2> HIDE DEF alert, asked
  <2> QED BY <1>3, <2>3, <2>4, <2>7, <2>8, AlertToolGood DEF AlertOperations
<1>6. CASE DisableAlert(t)
  <2> DEFINE alert == [a EXCEPT !.state = "disarmed"]
  <2>1. activeId # 0 /\ a.state # "none" /\ UNCHANGED requested
    BY <1>6 DEF DisableAlert
  <2>2. alert \in Contents /\ alert.state = "disarmed" /\ alert.conditions = a.conditions
    BY <1>2, <2>1, ContentsAreAlerts DEF Alert, AlertStates
  <2>3. a.conditions \in Conditions
    BY <1>2, <2>1 DEF GoodAlerts
  <2>4. AlertTool(t, "alerts.disable_activation", alert, FALSE)
    BY <1>6 DEF DisableAlert
  <2> HIDE DEF alert
  <2>5. alert \in GoodAlerts'
    BY <2>2, <2>3 DEF GoodAlerts
  <2>6. AlertsTyped'
    BY <1>3, <2>1 DEF AlertInv, AlertsTyped
  <2> QED BY <1>3, <2>1, <2>4, <2>5, <2>6, AlertToolGood DEF AlertOperations
<1>7. CASE OtherTool(t)
  <2>1. activeId # 0 /\ UNCHANGED requested /\ AlertTool(t, "panels", a, TRUE)
    BY <1>7 DEF OtherTool
  <2>2. a \in GoodAlerts'
    BY <1>2, <1>3, <2>1, GoodStaysGood
  <2>3. AlertsTyped'
    BY <1>3, <2>1 DEF AlertInv, AlertsTyped
  <2> HIDE DEF a
  <2> QED BY <1>3, <2>1, <2>2, <2>3, AlertToolGood DEF AlertOperations
<1> QED BY <1>4, <1>5, <1>6, <1>7

LEMMA PreviewDisableGood ==
  ASSUME AlertInv, NEW t \in Tabs, PreviewDisable(t)
  PROVE  AlertInv'
<1> DEFINE a == AlertIn(activeId)
           alert == [a EXCEPT !.state = "disarmed"]
<1>1. /\ activeId # 0 /\ Preview(t, 0, alert, TRUE) /\ a.state = "armed"
      /\ UNCHANGED <<now, requested, confirmed>>
  BY DEF PreviewDisable
<1>2. activeId \in WorkspaceIds /\ Resolve(0) = activeId /\ 0 \in Targets
  BY <1>1, BoundsAssumption DEF AlertInv, TypeInv, TypeOK, WorkspaceIds, Resolve, Targets
<1>3. a \in Alert /\ a \in GoodAlerts /\ a = documents[activeId].content
  BY <1>2, AlertTyped DEF AlertInv, AlertsStoredGood, ContentsIn, AlertIn
<1>4. alert \in Contents /\ alert.state = "disarmed" /\ alert.conditions = a.conditions
  BY <1>3, ContentsAreAlerts DEF Alert, AlertStates
<1>5. alert \in GoodAlerts
  BY <1>1, <1>3, <1>4 DEF GoodAlerts
<1> HIDE DEF alert
<1>6. /\ TypeInv' /\ PreviewsTyped'
      /\ UNCHANGED <<documents, revisions, history>>
  BY <1>1, <1>2, <1>4, PreviewTypes DEF AlertInv
<1>7. PICK p \in PreviewRecord :
        /\ p.candidate \in {alert, documents[Resolve(0)].content}
        /\ \A s \in Tabs : s # t => previews'[s] = previews[s]
        /\ previews'[t].entries \subseteq previews[t].entries \union {p}
  BY <1>1, <1>2, <1>4, PreviewTypes DEF AlertInv
<1>8. p.candidate \in GoodAlerts
  BY <1>2, <1>3, <1>5, <1>7
<1>9. GoodAlerts' = GoodAlerts
  BY <1>1 DEF GoodAlerts
<1>10. AlertsStoredGood' /\ AlertsTyped'
  BY <1>1, <1>6, <1>9 DEF AlertInv, AlertsStoredGood, AlertsTyped
<1>11. CandidatesGood'
  BY <1>7, <1>8, <1>9 DEF AlertInv, CandidatesGood
<1> QED BY <1>6, <1>10, <1>11 DEF AlertInv

\* A person's decision commits a good alert past the log.
LEMMA DecideGood ==
  ASSUME AlertInv, NEW t \in Tabs, NEW w \in WorkspaceIds, NEW alert \in GoodAlerts',
         Decide(t, w, alert), confirmed \subseteq confirmed', AlertsTyped'
  PROVE  AlertInv'
<1>1. /\ phase[t] = "ready" /\ UNCHANGED <<activeId, phase, previews, now, requested>>
      /\ \/ Commit(t, w, "human", Unkeyed, alert, NoInverse, ids[t]) /\ UNCHANGED history
         \/ FailCommit(t, w, "human", Unkeyed, alert, ids[t])
  BY DEF Decide
<1>2. alert \in Contents
  BY DEF GoodAlerts
<1>3. ids[t] \in Counters /\ Unkeyed \in Requests /\ "human" \in Calls
  BY BoundsAssumption DEF AlertInv, TypeInv, TypeOK, Counters, Unkeyed, Request, Requests,
     Fingerprint, Kinds, Calls
<1>4. GoodAlerts \subseteq GoodAlerts'
  BY <1>1, GoodStaysGood
<1>5. PreviewsTyped' /\ CandidatesGood'
  BY <1>1, <1>4 DEF AlertInv, PreviewsTyped, CandidatesGood
<1> DEFINE Good == GoodAlerts'
<1>6. ContentsIn(documents, revisions, history, Good) /\ alert \in Good
  BY <1>4, ContentsStayGood DEF AlertInv, AlertsStoredGood
<1> HIDE DEF Good
<1>7. CASE FailCommit(t, w, "human", Unkeyed, alert, ids[t])
  <2>1. Starting'
    BY <1>1, <1>3, <1>7, StillStarting DEF FailCommit, AlertInv
  <2>2. TypeInv'
    BY <1>1, <1>2, <1>3, <1>7, <2>1, FailCommitType DEF AlertInv, TypeInv, TypeOK
  <2>3. ContentsIn(documents', revisions', history', Good)
    BY <1>6, <1>7, FailCommitContents DEF AlertInv
  <2> QED BY <1>5, <2>2, <2>3 DEF AlertInv, AlertsStoredGood, Good
<1>8. CASE Commit(t, w, "human", Unkeyed, alert, NoInverse, ids[t]) /\ UNCHANGED history
  <2>1. /\ documents' \in [WorkspaceIds -> Document]
        /\ revisions' \in SUBSET SavedRevision
        /\ idempotency' \in [Tabs -> SUBSET CacheEntry]
        /\ ids' \in [Tabs -> Counters]
        /\ answer' \in Answer
    BY <1>2, <1>3, <1>8, CommitType DEF AlertInv
  <2>2. Starting'
    <3>1. Counted(ids[t], NoInverse) \in Counters
      BY <1>3 DEF Counted, Counters
    <3> QED BY <1>1, <1>8, <3>1, StillStarting DEF Commit, AlertInv
  <2>3. TypeInv'
    BY <1>1, <1>8, <2>1, <2>2 DEF AlertInv, TypeInv, TypeOK, TokensRestore, Counters
  <2>4. /\ \A v \in WorkspaceIds : documents'[v].content \in Good
        /\ \A e \in revisions' : e.content \in Good
    BY <1>6, <1>8, CommitContents DEF AlertInv
  <2>5. ContentsIn(documents', revisions', history', Good)
    BY <1>6, <1>8, <2>4 DEF ContentsIn
  <2> QED BY <1>5, <2>3, <2>5 DEF AlertInv, AlertsStoredGood, Good
<1> QED BY <1>1, <1>7, <1>8

LEMMA DecisionsGood ==
  ASSUME AlertInv, NEW t \in Tabs, NEW w \in WorkspaceIds,
         ConfirmAlertActivation(t, w) \/ DeclineAlertActivation(t, w)
  PROVE  AlertInv'
<1> DEFINE a == AlertIn(w)
<1>1. a \in Alert /\ a \in GoodAlerts
  BY AlertTyped DEF AlertInv, AlertsStoredGood, ContentsIn, AlertIn
<1>2. a.state = "pending_activation" /\ a.conditions \in Conditions /\ UNCHANGED <<now, requested>>
  BY <1>1 DEF ConfirmAlertActivation, DeclineAlertActivation, Decide, GoodAlerts
<1>3. CASE ConfirmAlertActivation(t, w)
  <2> DEFINE alert == [a EXCEPT !.state = "armed", !.expiresAt = 0]
  <2>1. confirmed' = confirmed \union {a.conditions} /\ Decide(t, w, alert)
    BY <1>3 DEF ConfirmAlertActivation
  <2>2. alert \in Contents /\ alert.state = "armed" /\ alert.conditions = a.conditions
    <3>1. 0 \in 0..(MaxTime + Ttl)
      BY AlertAssumption
    <3> QED BY <1>1, <3>1, ContentsAreAlerts DEF Alert, AlertStates
  <2> HIDE DEF alert
  <2>3. alert \in GoodAlerts'
    BY <1>2, <2>1, <2>2 DEF GoodAlerts
  <2>4. AlertsTyped'
    BY <1>2, <2>1 DEF AlertInv, AlertsTyped
  <2> QED BY <2>1, <2>3, <2>4, DecideGood
<1>4. CASE DeclineAlertActivation(t, w)
  <2>1. UNCHANGED confirmed /\ Decide(t, w, Draft(a.conditions))
    BY <1>4 DEF DeclineAlertActivation
  <2>2. Draft(a.conditions) \in Contents
    BY <1>2, ContentsAreAlerts, AlertAssumption DEF Draft, Alert, AlertStates
  <2>3. Draft(a.conditions) \in GoodAlerts'
    BY <1>2, <2>2 DEF GoodAlerts, Draft
  <2>4. AlertsTyped'
    BY <1>2, <2>1 DEF AlertInv, AlertsTyped
  <2> QED BY <2>1, <2>3, <2>4, DecideGood
<1> QED BY <1>3, <1>4

LEMMA ApplyGood ==
  ASSUME AlertInv, NEW t \in Tabs, NEW p \in previews[t].entries, Apply(t, p, 0, NoKey),
         UNCHANGED <<now, requested, confirmed>>
  PROVE  AlertInv'
<1> DEFINE w == p.workspaceId
           request == ApplyRequest(p.previewId, p.baseRevision, NoKey)
           before == documents[w].content
<1>1. GoodAlerts' = GoodAlerts /\ AlertsTyped'
  BY DEF GoodAlerts, AlertInv, AlertsTyped
<1>2. TypeInv' /\ PreviewsTyped'
  BY ApplyTypes, AlertAssumption DEF AlertInv
<1>3. previews[t].entries \in SUBSET PreviewRecord /\ p \in PreviewRecord
  BY DEF AlertInv, PreviewsTyped
<1>4. /\ w \in WorkspaceIds /\ p.candidate \in Contents /\ p.candidate \in GoodAlerts
      /\ before \in Contents /\ before \in GoodAlerts
      /\ documents[w].revision = p.baseRevision
  BY <1>3 DEF PreviewRecord, AlertInv, CandidatesGood, AlertsStoredGood, ContentsIn,
     TypeInv, TypeOK, Document, Apply, Applicable
<1> HIDE DEF request, before, w
<1>5. ASSUME RecordCommit(t, w, "apply", request, p.candidate, before, ids[t]),
             previews' = [previews EXCEPT ![t].entries = MarkConsumed(@, p.previewId)]
      PROVE  AlertsStoredGood' /\ CandidatesGood'
  <2>1. ContentsIn(documents', revisions', history', GoodAlerts)
    BY <1>4, <1>5, RecordCommitContents DEF AlertInv, AlertsStoredGood
  <2>2. \A q \in MarkConsumed(previews[t].entries, p.previewId) :
          \E o \in previews[t].entries : q.candidate = o.candidate
    BY <1>3 DEF MarkConsumed, PreviewRecord
  <2>3. \A s \in Tabs : \A q \in previews'[s].entries :
          \E o \in previews[s].entries : q.candidate = o.candidate
    BY <1>5, <2>2 DEF AlertInv, PreviewsTyped
  <2> QED BY <1>1, <2>1, <2>3 DEF AlertInv, AlertsStoredGood, CandidatesGood
<1>6. ASSUME FailApply(t, p, NoKey)
      PROVE  AlertsStoredGood' /\ CandidatesGood'
  <2>1. /\ UNCHANGED <<revisions, history, previews>>
        /\ \/ UNCHANGED documents
           \/ documents' = [documents EXCEPT ![w] =
                [revision |-> p.baseRevision + 1, content |-> p.candidate]]
    BY <1>6 DEF FailApply, memory, w
  <2>2. \A v \in WorkspaceIds : documents'[v].content \in GoodAlerts
    <3> TAKE v \in WorkspaceIds
    <3>1. CASE v = w
      BY <1>4, <2>1, <3>1 DEF AlertInv, TypeInv, TypeOK, AlertsStoredGood, ContentsIn
    <3>2. CASE v # w
      BY <2>1, <3>2 DEF AlertInv, TypeInv, TypeOK, AlertsStoredGood, ContentsIn
    <3> QED BY <3>1, <3>2
  <2> QED BY <1>1, <2>1, <2>2 DEF AlertInv, AlertsStoredGood, ContentsIn, CandidatesGood
<1> QED BY <1>1, <1>2, <1>5, <1>6 DEF Apply, w, request, before, AlertInv

LEMMA GenericGood ==
  ASSUME AlertInv, NEW t \in Tabs, Generic(t), UNCHANGED <<now, requested, confirmed>>,
         previews' = [previews EXCEPT ![t] = IF phase'[t] = "loading" THEN EmptyStore ELSE @]
  PROVE  AlertInv'
<1>1. GoodAlerts' = GoodAlerts /\ AlertsTyped'
  BY DEF GoodAlerts, AlertInv, AlertsTyped
<1>2. PreviewsTyped' /\ CandidatesGood'
  <2>1. \A s \in Tabs : previews'[s] = previews[s] \/ previews'[s] = EmptyStore
    BY DEF AlertInv, PreviewsTyped
  <2>2. PreviewsTyped'
    BY DEF AlertInv, PreviewsTyped, EmptyStore
  <2> QED BY <1>1, <2>1, <2>2 DEF AlertInv, CandidatesGood, EmptyStore
<1>3. 0 \in Targets /\ 0 \in ExpectedRevisions /\ NoKey \in Keys \union {NoKey}
  BY AlertAssumption, BoundsAssumption DEF Targets
<1>4. TypeInv'
  BY <1>3, UndoType, RestoreRevisionType, BootType, SeedType, ReloadType DEF Generic, AlertInv
<1>5. ContentsIn(documents', revisions', history', GoodAlerts)
  <2>1. Blank \in GoodAlerts /\ Seeded \in GoodAlerts
    BY ContentsAreAlerts, ContentsAssumption DEF GoodAlerts, NoAlert
  <2> QED BY <1>3, <2>1, UndoContents, RestoreContents, LoadContents
          DEF Generic, AlertInv, AlertsStoredGood
<1> QED BY <1>1, <1>2, <1>4, <1>5 DEF AlertInv, AlertsStoredGood

LEMMA AlertInvariant == AlertSpec => []AlertInv
<1>1. AlertInit => AlertInv
  <2> SUFFICES ASSUME AlertInit PROVE AlertInv
    OBVIOUS
  <2>1. TypeInv /\ PreviewsTyped /\ CandidatesGood
    BY InitTypeInv DEF AlertInit, PreviewInit, PreviewsTyped, EmptyStore, CandidatesGood
  <2>2. AlertsTyped
    BY AlertAssumption DEF AlertInit, AlertsTyped
  <2>3. Blank \in GoodAlerts
    BY ContentsAreAlerts, ContentsAssumption DEF GoodAlerts, NoAlert
  <2>4. AlertsStoredGood
    BY <2>3 DEF AlertInit, PreviewInit, Init, AlertsStoredGood, ContentsIn
  <2> QED BY <2>1, <2>2, <2>4 DEF AlertInv
<1>2. AlertInv /\ [AlertNext]_alertVars => AlertInv'
  <2> SUFFICES ASSUME AlertInv, [AlertNext]_alertVars PROVE AlertInv'
    OBVIOUS
  <2>1. CASE UNCHANGED alertVars
    <3>1. TypeInv' /\ PreviewsTyped' /\ AlertsTyped'
      BY <2>1 DEF alertVars, previewVars, vars, AlertInv, TypeInv, TypeOK, Starting,
         TokensRestore, PreviewsTyped, AlertsTyped
    <3>2. AlertsStoredGood' /\ CandidatesGood'
      BY <2>1 DEF alertVars, previewVars, vars, AlertInv, AlertsStoredGood, ContentsIn,
         CandidatesGood, GoodAlerts
    <3> QED BY <3>1, <3>2 DEF AlertInv
  <2>2. CASE Tick
    <3>1. TypeInv' /\ PreviewsTyped' /\ AlertsTyped'
      BY <2>2, AlertAssumption DEF Tick, previewVars, vars, AlertInv, TypeInv, TypeOK, Starting,
         TokensRestore, PreviewsTyped, AlertsTyped
    <3>2. AlertsStoredGood' /\ CandidatesGood'
      BY <2>2 DEF Tick, previewVars, vars, AlertInv, AlertsStoredGood, ContentsIn,
         CandidatesGood, GoodAlerts
    <3> QED BY <3>1, <3>2 DEF AlertInv
  <2>3. ASSUME NEW t \in Tabs,
               \/ \E c \in Conditions : CreateAlertDraft(t, c) \/ EditAlertDraft(t, c)
               \/ EnableAlert(t) \/ DisableAlert(t) \/ OtherTool(t)
        PROVE  AlertInv'
    BY <2>3, ToolsGood
  <2>4. ASSUME NEW t \in Tabs, PreviewDisable(t)
        PROVE  AlertInv'
    BY <2>4, PreviewDisableGood
  <2>5. ASSUME NEW t \in Tabs, NEW w \in WorkspaceIds,
               ConfirmAlertActivation(t, w) \/ DeclineAlertActivation(t, w)
        PROVE  AlertInv'
    BY <2>5, DecisionsGood
  <2>6. ASSUME NEW t \in Tabs, NEW p \in previews[t].entries,
               Apply(t, p, 0, NoKey) /\ UNCHANGED <<now, requested, confirmed, groups>>
        PROVE  AlertInv'
    BY <2>6, ApplyGood
  <2>7. ASSUME NEW t \in Tabs, Generic(t), UNCHANGED <<now, requested, confirmed, groups>>,
               previews' = [previews EXCEPT ![t] =
                 IF phase'[t] = "loading" THEN EmptyStore ELSE @]
        PROVE  AlertInv'
    BY <2>7, GenericGood
  <2> QED BY <2>1, <2>2, <2>3, <2>4, <2>5, <2>6, <2>7 DEF AlertNext
<1> QED BY <1>1, <1>2, PTL DEF AlertSpec

\* An armed alert watches conditions a person confirmed, and a request that
\* could be confirmed is fresh, for every number of tabs and whatever is
\* undone, restored, applied, reloaded or fails to be written.
THEOREM ArmedWasSeen == AlertSpec => []ActivationsHold
<1>1. AlertInv => ActivationsHold
  <2> SUFFICES ASSUME AlertInv PROVE ActivationsHold
    OBVIOUS
  <2>1. \A w \in WorkspaceIds : AlertIn(w) \in GoodAlerts /\ AlertIn(w) \in Alert
    BY AlertTyped DEF AlertInv, AlertsStoredGood, ContentsIn, AlertIn
  <2>2. ArmedWasConfirmed
    BY <2>1 DEF ArmedWasConfirmed, GoodAlerts
  <2>3. ASSUME NEW w \in WorkspaceIds, AlertIn(w).state = "pending_activation",
               ~Expired(AlertIn(w))
        PROVE  \E q \in requested : q.conditions = AlertIn(w).conditions /\ now - q.at < Ttl
    <3>1. PICK q \in requested :
            q.conditions = AlertIn(w).conditions /\ AlertIn(w).expiresAt = q.at + Ttl
      BY <2>1, <2>3 DEF GoodAlerts
    <3>2. q.at \in Nat /\ now \in Nat /\ Ttl \in Nat
      BY AlertAssumption DEF AlertInv, AlertsTyped
    <3>3. now < q.at + Ttl
      BY <2>3, <3>1, <3>2 DEF Expired
    <3> QED BY <3>1, <3>2, <3>3
  <2> QED BY <2>2, <2>3 DEF ActivationsHold, OpenRequestIsFresh
<1> QED BY <1>1, AlertInvariant, PTL

-----------------------------------------------------------------------------
(* With undo_change as the only generic tool, in one tab whose writes do   *)
(* not fail, only a person arms                                            *)

Armed(alert) == alert.state = "armed"

NothingPreviewed == \A t \in Tabs : previews[t].entries = {}

\* A change that can be undone neither arms nor disarms, and if undoing the
\* newest one would bring back an armed alert then the alert is still armed.
UndosKeepArmed ==
  \A t \in Tabs : \A r \in history[t] :
    r.inverse # NoInverse =>
      /\ Armed(r.inverse) <=> Armed(r.forward)
      /\ Armed(r.inverse) /\ IsNewest(t, r) => Armed(AlertIn(r.workspaceId))

SeedsUnarmed ==
  \A t \in Tabs : phase[t] = "seeding" => ~Armed(AlertIn(ids[t].workspace))

QuietInv == groups = {} => LogInv /\ NothingPreviewed /\ UndosKeepArmed /\ SeedsUnarmed

\* A logged change that arms nothing and whose undo would arm nothing.
LEMMA QuietGrows ==
  ASSUME LogInv, TypeInv', StorageStep, UndosKeepArmed, \A t, u \in Tabs : t = u,
         NEW t \in Tabs, NEW w \in WorkspaceIds, NEW forward, NEW inverse,
         Grows(t, w, forward, inverse),
         inverse # NoInverse => (Armed(inverse) <=> Armed(forward)),
         Armed(forward) => Armed(AlertIn(w))
  PROVE  LogInv' /\ UndosKeepArmed' /\ OnlyHumanArms
<1>1. PICK new \in ChangeRecord :
        /\ LogGrows(t, new)
        /\ new.workspaceId = w /\ new.revision = documents[w].revision + 1
        /\ new.forward = forward /\ new.inverse = inverse
  BY DEF Grows
<1>2. LogInv'
  BY <1>1, GrowsLogInv
<1>3. Appended(history'[t], history[t], new)
  BY <1>1, GrowsAppended
<1>4. /\ documents \in [WorkspaceIds -> Document]
      /\ documents[w].revision \in Nat
      /\ documents'[w].revision = documents[w].revision + 1
      /\ documents'[w].content = forward
  BY <1>1 DEF LogGrows, LogInv, TypeInv, TypeOK, Document
<1>5. \A v \in WorkspaceIds \ {w} : documents'[v] = documents[v]
  BY <1>1, <1>4 DEF LogGrows
<1>6. OnlyHumanArms
  BY <1>4, <1>5 DEF OnlyHumanArms, AlertIn, Armed
<1>7. ASSUME NEW r \in history'[t], r.inverse # NoInverse
      PROVE  /\ Armed(r.inverse) <=> Armed(r.forward)
             /\ Armed(r.inverse) /\ IsNewest(t, r)' => Armed(documents'[r.workspaceId].content)
  <2>1. PICK q \in history[t] \union {new} : SameChange(r, q)
    BY <1>3 DEF Appended
  <2>2. CASE q = new
    BY <1>1, <1>4, <1>7, <2>1, <2>2 DEF SameChange
  <2>3. CASE q \in history[t]
    <3>1. /\ Armed(q.inverse) <=> Armed(q.forward)
          /\ Armed(q.inverse) /\ IsNewest(t, q) => Armed(AlertIn(q.workspaceId))
      BY <1>7, <2>1, <2>3 DEF SameChange, UndosKeepArmed
    <3>2. CASE q.workspaceId = w
      <4>1. PICK p \in history'[t] : SameChange(p, new)
        BY <1>3 DEF Appended
      <4>2. q.revision <= documents[w].revision /\ q.revision \in Nat
        BY <2>3, <3>2 DEF LogInv, RecordsBehind, TypeInv, TypeOK, ChangeRecord
      <4>3. ~(p.revision < r.revision \/ p.revision = r.revision)
        BY <1>1, <1>4, <2>1, <4>1, <4>2 DEF SameChange
      <4>4. p.workspaceId = r.workspaceId
        BY <1>1, <2>1, <3>2, <4>1 DEF SameChange
      <4>5. ~IsNewest(t, r)'
        BY <4>1, <4>3, <4>4 DEF IsNewest
      <4> QED BY <2>1, <3>1, <4>5 DEF SameChange
    <3>3. CASE q.workspaceId # w
      <4>1. ASSUME IsNewest(t, r)', NEW o \in history[t], o.workspaceId = q.workspaceId
            PROVE  o.revision < q.revision \/ (o.revision = q.revision /\ o.changeId >= q.changeId)
        <5>1. PICK p \in history'[t] : SameChange(p, o)
          BY <1>1, <1>3, <3>3, <4>1 DEF Appended
        <5> QED BY <2>1, <4>1, <5>1 DEF SameChange, IsNewest
      <4>2. IsNewest(t, r)' => IsNewest(t, q)
        BY <4>1 DEF IsNewest
      <4>3. r.workspaceId = q.workspaceId /\ q.workspaceId \in WorkspaceIds
        BY <2>1, <2>3 DEF SameChange, LogInv, TypeInv, TypeOK, ChangeRecord
      <4>4. documents'[r.workspaceId].content = AlertIn(q.workspaceId)
        BY <1>5, <3>3, <4>3 DEF AlertIn
      <4> QED BY <2>1, <3>1, <4>2, <4>4 DEF SameChange
    <3> QED BY <3>2, <3>3
  <2> QED BY <2>2, <2>3
<1>8. UndosKeepArmed'
  BY <1>7 DEF UndosKeepArmed, AlertIn
<1> QED BY <1>2, <1>6, <1>8

\* A tab that is ready is not seeding.
LEMMA ReadyUnarmed ==
  ASSUME NEW t \in Tabs, phase'[t] # "seeding", \A u, s \in Tabs : u = s
  PROVE  SeedsUnarmed'
<1>1. \A u \in Tabs : phase'[u] # "seeding"
  OBVIOUS
<1> QED BY <1>1 DEF SeedsUnarmed

LEMMA QuietTool ==
  ASSUME AlertInv, AlertInv', LogInv, UndosKeepArmed, ~StorageFails, \A t, u \in Tabs : t = u,
         NEW t \in Tabs, NEW op \in AlertOperations, NEW alert \in Contents,
         NEW undoable \in BOOLEAN, AlertTool(t, op, alert, undoable),
         Armed(alert) => Armed(AlertIn(activeId)),
         undoable /\ Armed(AlertIn(activeId)) => Armed(alert)
  PROVE  LogInv' /\ UndosKeepArmed' /\ SeedsUnarmed' /\ OnlyHumanArms
<1> DEFINE w == activeId
           request == Request(NoKey, [kind |-> op, workspaceId |-> 0, input |-> 0], 0)
           inverse == IF undoable THEN documents[w].content ELSE NoInverse
<1>1. Edit(t, 0, op, alert, undoable, 0, NoKey) /\ Resolve(0) = activeId
  BY DEF AlertTool, Resolve
<1>2. w \in WorkspaceIds /\ phase[t] = "ready"
  BY <1>1, BoundsAssumption DEF Edit, AlertInv, TypeInv, TypeOK, WorkspaceIds
<1>3. /\ documents[w].content \in Contents /\ documents[w].content = AlertIn(w)
      /\ inverse \in Contents \union {NoInverse} /\ inverse \in {NoInverse, documents[w].content}
      /\ ids[t] \in Counters
  BY <1>2, AlertTyped DEF AlertIn, AlertInv, TypeInv, TypeOK, Counters
<1>4. inverse # NoInverse => (Armed(inverse) <=> Armed(alert))
  BY <1>3
<1>5. phase'[t] # "seeding"
  BY <1>1, <1>2 DEF Edit, memory
<1>6. SeedsUnarmed'
  BY <1>5, ReadyUnarmed
<1> HIDE DEF request, inverse
<1>7. CASE RecordCommit(t, w, "edit", request, alert, inverse, ids[t])
  <2>1. Grows(t, w, alert, inverse)
    BY <1>2, <1>3, <1>7, RecordCommitGrows DEF AlertInv
  <2>2. StorageStep
    BY <1>2, <1>7, CommitStorage DEF RecordCommit
  <2> QED BY <1>2, <1>4, <1>6, <2>1, <2>2, QuietGrows DEF AlertInv
<1>8. CASE UNCHANGED <<storage, memory>>
  <2>1. LogInv' /\ UndosKeepArmed'
    BY <1>8 DEF storage, memory, LogInv, AlertInv, RecordsBehind, AvailableIsNewest, RecordsFinite,
       RecordsBounded, IsNewest, UndosKeepArmed, AlertIn
  <2>2. OnlyHumanArms
    BY <1>8 DEF storage, OnlyHumanArms, AlertIn
  <2> QED BY <1>6, <2>1, <2>2
<1> QED BY <1>1, <1>7, <1>8 DEF Edit, FailCommit, request, inverse

LEMMA QuietTools ==
  ASSUME AlertInv, AlertInv', LogInv, UndosKeepArmed, ~StorageFails, \A t, u \in Tabs : t = u,
         NEW t \in Tabs,
         \/ \E c \in Conditions : CreateAlertDraft(t, c) \/ EditAlertDraft(t, c)
         \/ EnableAlert(t) \/ DisableAlert(t) \/ OtherTool(t)
  PROVE  /\ LogInv' /\ UndosKeepArmed' /\ SeedsUnarmed' /\ OnlyHumanArms
         /\ UNCHANGED <<previews, groups>>
<1> DEFINE a == AlertIn(activeId)
<1>1. UNCHANGED <<previews, groups>>
  BY DEF CreateAlertDraft, EditAlertDraft, EnableAlert, DisableAlert, OtherTool, AlertTool
<1>2. activeId # 0 => a \in Alert /\ a \in Contents
  <2>1. activeId # 0 => activeId \in WorkspaceIds
    BY BoundsAssumption DEF AlertInv, TypeInv, TypeOK, WorkspaceIds
  <2> QED BY <2>1, AlertTyped DEF AlertInv
<1>3. ASSUME NEW c \in Conditions, CreateAlertDraft(t, c) \/ EditAlertDraft(t, c)
      PROVE  LogInv' /\ UndosKeepArmed' /\ SeedsUnarmed' /\ OnlyHumanArms
  <2>1. Draft(c) \in Contents
    BY ContentsAreAlerts, AlertAssumption DEF Draft, Alert, AlertStates
  <2>3. ~Armed(Draft(c)) /\ ~Armed(a)
    BY <1>3 DEF Draft, Armed, CreateAlertDraft, EditAlertDraft
  <2>2. \/ AlertTool(t, "alerts.create_draft", Draft(c), TRUE)
        \/ AlertTool(t, "alerts.edit_conditions", Draft(c), TRUE)
    BY <1>3 DEF CreateAlertDraft, EditAlertDraft
  <2> QED BY <2>1, <2>2, <2>3, QuietTool DEF AlertOperations
<1>4. CASE EnableAlert(t)
  <2> DEFINE alert == [a EXCEPT !.state = "pending_activation", !.expiresAt = now + Ttl]
  <2>1. activeId # 0 /\ ~Armed(a) /\ AlertTool(t, "alerts.enable_activation", alert, TRUE)
    BY <1>4 DEF EnableAlert, Armed
  <2>2. alert \in Contents /\ ~Armed(alert)
    <3>1. now + Ttl \in 0..(MaxTime + Ttl)
      BY AlertAssumption DEF AlertInv, AlertsTyped
    <3> QED BY <1>2, <2>1, <3>1, ContentsAreAlerts DEF Alert, AlertStates, Armed
  <2> HIDE DEF alert
  <2> QED BY <1>1, <2>1, <2>2, QuietTool DEF AlertOperations
<1>5. CASE DisableAlert(t)
  <2> DEFINE alert == [a EXCEPT !.state = "disarmed"]
  <2>1. activeId # 0 /\ AlertTool(t, "alerts.disable_activation", alert, FALSE)
    BY <1>5 DEF DisableAlert
  <2>2. alert \in Contents /\ ~Armed(alert)
    BY <1>2, <2>1, ContentsAreAlerts DEF Alert, AlertStates, Armed
  <2> HIDE DEF alert
  <2> QED BY <1>1, <2>1, <2>2, QuietTool DEF AlertOperations
<1>6. CASE OtherTool(t)
  <2>1. activeId # 0 /\ AlertTool(t, "panels", a, TRUE)
    BY <1>6 DEF OtherTool
  <2> QED BY <1>1, <1>2, <2>1, QuietTool DEF AlertOperations
<1> QED BY <1>1, <1>3, <1>4, <1>5, <1>6

\* The decision itself: the log does not follow, but a request being decided
\* was not armed, so no undo of it arms either.
LEMMA QuietDecision ==
  ASSUME AlertInv, AlertInv', LogInv, UndosKeepArmed, ~StorageFails, \A t, u \in Tabs : t = u,
         NEW t \in Tabs, NEW w \in WorkspaceIds, NEW alert \in Contents, Decide(t, w, alert)
  PROVE  LogInv' /\ UndosKeepArmed' /\ SeedsUnarmed' /\ OnlyHumanArms
<1>1. /\ Commit(t, w, "human", Unkeyed, alert, NoInverse, ids[t]) /\ UNCHANGED history
      /\ phase[t] = "ready" /\ UNCHANGED phase /\ ~Armed(AlertIn(w))
  BY DEF Decide, FailCommit, Armed
<1>2. StorageStep
  BY <1>1, CommitStorage
<1>3. LogKept
  BY <1>1 DEF LogKept, Commit, Counted, AlertInv, TypeInv, TypeOK
<1>4. LogInv'
  BY <1>2, <1>3, OtherLogInv DEF AlertInv
<1>5. /\ documents \in [WorkspaceIds -> Document]
      /\ \A v \in WorkspaceIds \ {w} : documents'[v] = documents[v]
  BY <1>1 DEF Commit, AlertInv, TypeInv, TypeOK
<1>6. ASSUME NEW u \in Tabs, NEW r \in history'[u], r.inverse # NoInverse
      PROVE  /\ Armed(r.inverse) <=> Armed(r.forward)
             /\ Armed(r.inverse) /\ IsNewest(u, r)' => Armed(documents'[r.workspaceId].content)
  <2>1. /\ r \in history[u] /\ (IsNewest(u, r)' => IsNewest(u, r))
        /\ r.workspaceId \in WorkspaceIds
    BY <1>1, <1>6 DEF IsNewest, AlertInv, TypeInv, TypeOK, ChangeRecord
  <2>2. /\ Armed(r.inverse) <=> Armed(r.forward)
        /\ Armed(r.inverse) /\ IsNewest(u, r) => Armed(AlertIn(r.workspaceId))
    BY <1>6, <2>1 DEF UndosKeepArmed
  <2> QED BY <1>1, <1>5, <2>1, <2>2 DEF AlertIn
<1>7. UndosKeepArmed'
  BY <1>6 DEF UndosKeepArmed, AlertIn
<1>8. SeedsUnarmed'
  BY <1>1, ReadyUnarmed
<1>9. OnlyHumanArms
  BY <1>1 DEF OnlyHumanArms, Commit, Reply
<1> QED BY <1>4, <1>7, <1>8, <1>9

LEMMA QuietGeneric ==
  ASSUME AlertInv, AlertInv', LogInv, UndosKeepArmed, SeedsUnarmed, ~StorageFails,
         \A t, u \in Tabs : t = u, NEW t \in Tabs,
         (\E r \in history[t] : Undo(t, r)) \/ Boot(t) \/ Seed(t) \/ Reload(t)
  PROVE  LogInv' /\ UndosKeepArmed' /\ SeedsUnarmed' /\ OnlyHumanArms
<1>1. ids[t] \in Counters /\ NoAlert.state # "armed"
  BY DEF AlertInv, TypeInv, TypeOK, Counters, NoAlert
<1>2. ASSUME NEW r \in history[t], Undo(t, r)
      PROVE  LogInv' /\ UndosKeepArmed' /\ SeedsUnarmed' /\ OnlyHumanArms
  <2>1. /\ r.workspaceId \in WorkspaceIds /\ r.inverse \in Contents /\ r.inverse # NoInverse
        /\ IsNewest(t, r) /\ phase[t] = "ready" /\ UNCHANGED phase
    BY <1>2, ContentsAssumption
       DEF ChangeRecord, Undo, UndoAccepted, AlertInv, TypeInv, TypeOK, TokensRestore
  <2>2. Grows(t, r.workspaceId, r.inverse, r.forward)
    BY <1>2, UndoGrows DEF AlertInv, FailCommit
  <2>3. Commit(t, r.workspaceId, "undo", Unkeyed, r.inverse, r.forward, ids[t])
    BY <1>2 DEF Undo, FailCommit
  <2>4. StorageStep
    BY <2>1, <2>3, CommitStorage
  <2>5. /\ Armed(r.inverse) <=> Armed(r.forward)
        /\ Armed(r.inverse) => Armed(AlertIn(r.workspaceId))
    BY <2>1 DEF UndosKeepArmed
  <2>6. LogInv' /\ UndosKeepArmed' /\ OnlyHumanArms
    BY <2>1, <2>2, <2>4, <2>5, QuietGrows DEF AlertInv
  <2>7. SeedsUnarmed'
    BY <2>1, ReadyUnarmed
  <2> QED BY <2>6, <2>7
<1>3. CASE Boot(t)
  <2> DEFINE w == ids[t].workspace + 1
             minted == [ids[t] EXCEPT !.workspace = w]
  <2>1. w \in WorkspaceIds /\ Blank \in Contents /\ Blank = NoAlert
    BY <1>3, ContentsAssumption, ContentsAreAlerts, BoundsAssumption
       DEF Boot, AlertInv, TypeInv, Starting, NoIds, WorkspaceIds
  <2>2. minted \in Counters /\ minted.change = ids[t].change /\ minted.workspace = w
    BY <1>1, <2>1, BoundsAssumption DEF Counters, WorkspaceIds
  <2>3. CASE /\ phase' = [phase EXCEPT ![t] = "ready"]
             /\ UNCHANGED <<storage, history, idempotency, ids>>
    <3>1. LogInv' /\ UndosKeepArmed' /\ OnlyHumanArms
      BY <2>3 DEF storage, LogInv, AlertInv, RecordsBehind, AvailableIsNewest, RecordsFinite,
         RecordsBounded, IsNewest, UndosKeepArmed, AlertIn, OnlyHumanArms
    <3>2. phase'[t] # "seeding"
      BY <2>3 DEF AlertInv, TypeInv, TypeOK
    <3> QED BY <3>1, <3>2, ReadyUnarmed
  <2> HIDE DEF minted
  <2>4. CASE RecordCommit(t, w, "boot", Unkeyed, Blank, NoInverse, minted)
    <3>1. Grows(t, w, Blank, NoInverse)
      BY <2>1, <2>2, <2>4, RecordCommitGrows DEF AlertInv
    <3>2. StorageStep
      BY <2>1, <2>4, CommitStorage DEF RecordCommit
    <3>3. LogInv' /\ UndosKeepArmed' /\ OnlyHumanArms
      BY <1>1, <2>1, <3>1, <3>2, QuietGrows DEF AlertInv, Armed
    <3>4. ids'[t].workspace = w
      BY <1>1, <2>2, <2>4 DEF RecordCommit, Commit, Counted, AlertInv, TypeInv, TypeOK
    <3>5. documents'[w].content = Blank
      BY <2>1, <2>4 DEF RecordCommit, Commit, AlertInv, TypeInv, TypeOK
    <3>6. SeedsUnarmed'
      BY <1>1, <2>1, <3>4, <3>5 DEF SeedsUnarmed, AlertIn, Armed
    <3> QED BY <3>3, <3>6
  <2> QED BY <1>3, <2>3, <2>4 DEF Boot, FailCommit, minted
<1>4. CASE Seed(t)
  <2> DEFINE w == ids[t].workspace
  <2>1. w \in WorkspaceIds /\ Seeded \in Contents /\ Seeded = NoAlert /\ ~Armed(AlertIn(w))
    BY <1>4, ContentsAssumption, ContentsAreAlerts
       DEF Seed, AlertInv, TypeInv, Starting, SeedsUnarmed
  <2>2. documents[w].content \in Contents /\ documents[w].content = AlertIn(w)
    BY <2>1, AlertTyped DEF AlertInv, AlertIn
  <2>3. /\ RecordCommit(t, w, "boot", Unkeyed, Seeded, documents[w].content, ids[t])
        /\ phase' = [phase EXCEPT ![t] = "ready"]
    BY <1>4 DEF Seed
  <2>4. Grows(t, w, Seeded, documents[w].content)
    BY <1>1, <2>1, <2>2, <2>3, RecordCommitGrows DEF AlertInv
  <2>5. StorageStep
    BY <2>1, <2>3, CommitStorage DEF RecordCommit
  <2>6. LogInv' /\ UndosKeepArmed' /\ OnlyHumanArms
    BY <1>1, <2>1, <2>2, <2>4, <2>5, QuietGrows DEF AlertInv, Armed
  <2>7. phase'[t] # "seeding"
    BY <2>3 DEF AlertInv, TypeInv, TypeOK
  <2> QED BY <2>6, <2>7, ReadyUnarmed
<1>5. CASE Reload(t)
  <2>1. /\ history' = [history EXCEPT ![t] = {}] /\ ids' = [ids EXCEPT ![t] = NoIds]
        /\ phase' = [phase EXCEPT ![t] = "loading"] /\ UNCHANGED <<documents, revisions>>
    BY <1>5 DEF Reload, storage
  <2>2. LogForgets(t) /\ StorageStep
    BY <2>1 DEF LogForgets, StorageStep, AlertInv, TypeInv, TypeOK
  <2>3. LogInv'
    BY <2>2, OtherLogInv DEF AlertInv
  <2>4. UndosKeepArmed' /\ OnlyHumanArms
    BY <2>1 DEF UndosKeepArmed, OnlyHumanArms, AlertIn, IsNewest, AlertInv, TypeInv, TypeOK
  <2>5. phase'[t] # "seeding"
    BY <2>1 DEF AlertInv, TypeInv, TypeOK
  <2> QED BY <2>3, <2>4, <2>5, ReadyUnarmed
<1> QED BY <1>2, <1>3, <1>4, <1>5

LEMMA QuietNext ==
  ASSUME AlertInv, AlertInv', QuietInv, [AlertNext]_alertVars, ~StorageFails,
         \A t, u \in Tabs : t = u
  PROVE  QuietInv' /\ (groups = {} => OnlyHumanArms)
<1>1. groups' = groups
  BY DEF AlertNext, alertVars, Tick, PreviewDisable, Decide, ConfirmAlertActivation,
     DeclineAlertActivation, CreateAlertDraft, EditAlertDraft, EnableAlert, DisableAlert,
     OtherTool, AlertTool
<1> SUFFICES ASSUME groups = {}
             PROVE  LogInv' /\ NothingPreviewed' /\ UndosKeepArmed' /\ SeedsUnarmed' /\ OnlyHumanArms
  BY <1>1 DEF QuietInv
<1>2. LogInv /\ NothingPreviewed /\ UndosKeepArmed /\ SeedsUnarmed
  BY DEF QuietInv
<1>3. CASE UNCHANGED previewVars
  BY <1>2, <1>3 DEF previewVars, vars, LogInv, AlertInv, RecordsBehind, AvailableIsNewest,
     RecordsFinite, RecordsBounded, IsNewest, UndosKeepArmed, AlertIn, OnlyHumanArms,
     NothingPreviewed, SeedsUnarmed
<1>4. ASSUME NEW t \in Tabs,
             \/ \E c \in Conditions : CreateAlertDraft(t, c) \/ EditAlertDraft(t, c)
             \/ EnableAlert(t) \/ DisableAlert(t) \/ OtherTool(t)
      PROVE  LogInv' /\ NothingPreviewed' /\ UndosKeepArmed' /\ SeedsUnarmed' /\ OnlyHumanArms
  BY <1>2, <1>4, QuietTools DEF NothingPreviewed
<1>5. ASSUME NEW t \in Tabs, NEW w \in WorkspaceIds,
             ConfirmAlertActivation(t, w) \/ DeclineAlertActivation(t, w)
      PROVE  LogInv' /\ NothingPreviewed' /\ UndosKeepArmed' /\ SeedsUnarmed' /\ OnlyHumanArms
  <2>1. PICK alert : Decide(t, w, alert)
    BY <1>5 DEF ConfirmAlertActivation, DeclineAlertActivation
  <2>2. alert \in Contents
    <3>1. documents'[w].content \in Contents
      BY DEF AlertInv, TypeInv, TypeOK, Document
    <3>2. documents' = [documents EXCEPT ![w] =
                          [revision |-> documents[w].revision + 1, content |-> alert]]
      BY <2>1 DEF Decide, Commit, FailCommit
    <3>3. documents'[w] = [revision |-> documents[w].revision + 1, content |-> alert]
      BY <3>2 DEF AlertInv, TypeInv, TypeOK
    <3> QED BY <3>1, <3>3
  <2>3. UNCHANGED previews
    BY <2>1 DEF Decide
  <2> QED BY <1>2, <2>1, <2>2, <2>3, QuietDecision DEF NothingPreviewed
<1>6. ASSUME NEW t \in Tabs, PreviewDisable(t)
      PROVE  FALSE
  BY <1>6 DEF PreviewDisable
<1>7. ASSUME NEW t \in Tabs, NEW p \in previews[t].entries
      PROVE  FALSE
  BY <1>2, <1>7 DEF NothingPreviewed
<1>8. ASSUME NEW t \in Tabs, Generic(t),
             previews' = [previews EXCEPT ![t] = IF phase'[t] = "loading" THEN EmptyStore ELSE @]
      PROVE  LogInv' /\ NothingPreviewed' /\ UndosKeepArmed' /\ SeedsUnarmed' /\ OnlyHumanArms
  <2>1. (\E r \in history[t] : Undo(t, r)) \/ Boot(t) \/ Seed(t) \/ Reload(t)
    BY <1>8 DEF Generic
  <2>2. NothingPreviewed'
    BY <1>2, <1>8 DEF NothingPreviewed, EmptyStore, AlertInv, PreviewsTyped
  <2> QED BY <1>2, <2>1, <2>2, QuietGeneric
<1> QED BY <1>3, <1>4, <1>5, <1>6, <1>7, <1>8 DEF AlertNext, alertVars, Tick

\* On a host whose only generic tool is undo_change, nothing an agent calls
\* arms an alert, undos of undos included: in one tab whose writes do not
\* fail. (With a second tab, or a failed snapshot write, the log no longer
\* follows the document and undoing an older change arms it again.)
THEOREM UndoNeverArms ==
  ASSUME \A t, u \in Tabs : t = u, ~StorageFails
  PROVE  AlertSpec => OnlyHumansArmByUndo
<1>1. AlertInit => QuietInv
  <2> SUFFICES ASSUME AlertInit PROVE QuietInv
    OBVIOUS
  <2>1. Init /\ TypeInv /\ \A t \in Tabs : history[t] = {}
    BY InitTypeInv DEF AlertInit, PreviewInit, Init
  <2>2. \A t \in Tabs, w \in WorkspaceIds : {r \in history[t] : r.workspaceId = w} = {}
    BY <2>1
  <2>3. RecordsFinite /\ RecordsBounded
    BY <2>1, <2>2, FS_EmptySet, BoundsAssumption DEF RecordsFinite, RecordsBounded
  <2>4. LogInv
    BY <2>1, <2>3 DEF LogInv, RecordsBehind, AvailableIsNewest
  <2>5. NothingPreviewed /\ UndosKeepArmed /\ SeedsUnarmed
    BY <2>1 DEF AlertInit, PreviewInit, Init, EmptyStore, NothingPreviewed, UndosKeepArmed,
       SeedsUnarmed
  <2> QED BY <2>4, <2>5 DEF QuietInv
<1>2. /\ AlertInv /\ AlertInv' /\ QuietInv /\ [AlertNext]_alertVars => QuietInv'
      /\ AlertInv /\ AlertInv' /\ QuietInv /\ [AlertNext]_alertVars
           => [groups = {} => OnlyHumanArms]_alertVars
  BY QuietNext
<1> QED BY <1>1, <1>2, AlertInvariant, PTL DEF AlertSpec, OnlyHumansArmByUndo

=============================================================================
