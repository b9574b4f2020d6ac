---------------------------- MODULE PreviewApply ----------------------------
(***************************************************************************)
(* Preview, then apply (workbench/application/safetyUseCases.ts over       *)
(* infra/previewStore.ts): an agent has a batch evaluated into a candidate *)
(* document, shows the user its diff, and later applies that candidate.    *)
(* Between the two calls every action of WorkspaceRevisions may happen.    *)
(***************************************************************************)
EXTENDS WorkspaceRevisions

CONSTANTS
  MaxPreviews,   \* DEFAULT_MAX_ENTRIES of the preview store
  MaxPreviewIds, \* bound: previews issued in one page load
  RollbackFails  \* may the write that rolls a failed apply back fail as well?

ASSUME PreviewAssumption ==
  /\ MaxPreviews \in Nat \ {0}
  /\ MaxPreviewIds \in Nat
  /\ RollbackFails \in BOOLEAN

VARIABLE
  previews  \* per tab: the preview store

previewVars == <<vars, previews>>

\* A stored preview. `before` and `candidate` are the two sides of its diff.
PreviewRecord ==
  [previewId: Nat \ {0}, workspaceId: WorkspaceIds, baseRevision: Nat,
   before: Contents, candidate: Contents, applicable: BOOLEAN, consumed: BOOLEAN]

PreviewTypeOK ==
  /\ TypeOK
  /\ previews \in [Tabs -> [sequence: Nat, entries: SUBSET PreviewRecord]]

EmptyStore == [sequence |-> 0, entries |-> {}]

\* put: the oldest entries, consumed ones included, make room.
PutPreview(entries, p) ==
  Highest(entries \union {p}, MaxPreviews, LAMBDA q : q.previewId)

MarkConsumed(entries, id) ==
  {IF q.previewId = id THEN [q EXCEPT !.consumed = TRUE] ELSE q : q \in entries}

-----------------------------------------------------------------------------
\* previewWorkspaceChanges: evaluation commits nothing. A batch with a
\* failing operation has no candidate of its own and is not applicable.
Preview(t, target, d, applicable) ==
  LET w == Resolve(target)
      id == previews[t].sequence + 1
      doc == documents[w]
      p == [previewId |-> id, workspaceId |-> w, baseRevision |-> doc.revision,
            before |-> doc.content, candidate |-> IF applicable THEN d ELSE doc.content,
            applicable |-> applicable, consumed |-> FALSE]
  IN  /\ phase[t] = "ready" /\ w # 0 /\ Stored(w)
      /\ id <= MaxPreviewIds
      /\ previews' = [previews EXCEPT ![t] =
           [sequence |-> id, entries |-> PutPreview(@.entries, p)]]
      /\ answer' = NoAnswer
      /\ UNCHANGED <<storage, memory>>

\* The preview can be applied: stored, applicable, not applied yet, and the
\* document is still at the revision it was evaluated against.
Applicable(p, expected) ==
  /\ p.applicable /\ ~p.consumed
  /\ Stored(p.workspaceId)
  /\ documents[p.workspaceId].revision = p.baseRevision
  /\ expected \in {0, p.baseRevision}

\* Both the early replay lookup and the commit use this request.
ApplyRequest(id, base, key) ==
  Request(key, [kind |-> "apply", workspaceId |-> 0, input |-> id], base)

\* Variant: a failed apply uses its preview up.
FailApply_Consumes(t, p, key) ==
  /\ StorageFails
  /\ Accepted(t, p.workspaceId, ApplyRequest(p.previewId, p.baseRevision, key))
  /\ previews' = [previews EXCEPT ![t].entries = MarkConsumed(@, p.previewId)]
  /\ answer' = Reply("apply", "storage_failed", p.workspaceId, 0)
  /\ UNCHANGED <<storage, memory>>

\* An apply whose commit failed is rolled back to the document it found.
FailApply(t, p, key) ==
  /\ StorageFails
  /\ Accepted(t, p.workspaceId, ApplyRequest(p.previewId, p.baseRevision, key))
  /\ \/ UNCHANGED documents
     \/ /\ RollbackFails
        /\ documents' = [documents EXCEPT ![p.workspaceId] =
             [revision |-> p.baseRevision + 1, content |-> p.candidate]]
  /\ answer' = Reply("apply", "storage_failed", p.workspaceId, 0)
  /\ UNCHANGED <<revisions, activeId, memory, previews>>

\* applyPreviewedChanges with a live preview: its candidate is committed,
\* and undoing it restores the document it was applied to.
Apply(t, p, expected, key) ==
  LET w == p.workspaceId
  IN  /\ phase[t] = "ready"
      /\ Applicable(p, expected)
      /\ \/ /\ RecordCommit(t, w, "apply", ApplyRequest(p.previewId, p.baseRevision, key),
                            p.candidate, documents[w].content, ids[t])
            /\ previews' = [previews EXCEPT ![t].entries = MarkConsumed(@, p.previewId)]
            /\ UNCHANGED <<activeId, phase>>
         \/ FailApply(t, p, key)

\* A retried apply is answered from the replay cache before the preview
\* store is asked, so it does not matter what became of the preview.
RetryApply(t, id, key) ==
  /\ phase[t] = "ready"
  /\ \E e \in idempotency[t] : Replay(t, e.workspaceId, "apply", ApplyRequest(id, 0, key))
  /\ UNCHANGED <<storage, memory, previews>>

\* Previews expire in the order they were issued.
ExpirePreview(t) ==
  /\ previews[t].entries # {}
  /\ previews' = [previews EXCEPT ![t].entries =
       {p \in @ : \E q \in @ : q.previewId < p.previewId}]
  /\ answer' = NoAnswer
  /\ UNCHANGED <<storage, memory>>

\* Everything else; a page load starts with an empty store.
Elsewhere ==
  /\ Next
  /\ previews' = [t \in Tabs |-> IF phase'[t] = "loading" THEN EmptyStore ELSE previews[t]]

-----------------------------------------------------------------------------
PreviewInit == Init /\ previews = [t \in Tabs |-> EmptyStore]

PreviewNext ==
  \/ Elsewhere
  \/ \E t \in Tabs :
       \/ \E target \in Targets, d \in Contents, applicable \in BOOLEAN :
            Preview(t, target, d, applicable)
       \/ \E p \in previews[t].entries, expected \in ExpectedRevisions,
             key \in Keys \union {NoKey} : Apply(t, p, expected, key)
       \/ \E id \in 1..previews[t].sequence, key \in Keys : RetryApply(t, id, key)
       \/ ExpirePreview(t)

PreviewSpec == PreviewInit /\ [][PreviewNext]_previewVars

-----------------------------------------------------------------------------
(* Properties *)

\* A preview that passes the revision check describes the document as it is:
\* the diff the user approved is the change that gets applied, whatever
\* happened in between (edits, undos, restores, failed writes, other tabs).
PreviewsHonest ==
  \A t \in Tabs : \A p \in previews[t].entries :
    /\ p.baseRevision <= documents[p.workspaceId].revision
    /\ p.baseRevision = documents[p.workspaceId].revision =>
         p.before = documents[p.workspaceId].content

\* Only a preview whose change went through is used up, and its base
\* revision is in the past: it could not be applied twice even by a store
\* that had forgotten it (commitPreviewedChanges, markConsumed).
ConsumedMeansCommitted ==
  \A t \in Tabs : \A p \in previews[t].entries :
    p.consumed => p.applicable /\ documents[p.workspaceId].revision > p.baseRevision
=============================================================================
