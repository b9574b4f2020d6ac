----------------------------- MODULE FilterDrafts -----------------------------
(***************************************************************************)
(* The filter drafts of a captured setup (workbench/screener): a draft is  *)
(* a filter tree with a provenance entry for each condition that the setup *)
(* produced.  What the drafts of CapturedSetups hold is defined here: how  *)
(* their trees are derived and what an edit leaves of them.                *)
(*                                                                         *)
(* A derived condition is a study, or the price of an annotation; the band *)
(* around the price and the wording of an explanation are left out.        *)
(***************************************************************************)
EXTENDS CapturedSetups, FilterTree

CONSTANTS
  NoPrice,
  Filterable,      \* the studies of the catalog that have an output
  NoData,          \* the catalog items whose availability is "unavailable"
  HandMade,        \* bound: the conditions callers write into a draft
  MAX_DRAFT_CONDITIONS

ASSUME FilterDraftsAssumption == MAX_DRAFT_CONDITIONS \in Nat \ {0}

-----------------------------------------------------------------------------
(* Deriving a draft *)

\* studyCandidates, then annotationCandidates.
Candidates(setup) ==
  LET studies == SelectSeq(setup.studies, LAMBDA s : s.enabled /\ s.item \in Filterable)
      priced == SelectSeq(setup.annotations, LAMBDA price : price # NoPrice)
  IN  [i \in DOMAIN studies |-> <<"study_output", studies[i].item>>]
        \o [i \in DOMAIN priced |-> <<"range", priced[i]>>]

\* checkAvailability; a range depends on the closing price.
HasData(condition) == (IF condition[1] = "range" THEN "close" ELSE condition[2]) \notin NoData

\* deriveDraftConditions: a short draft, with what has no data switched off.
Derived(setup, last) ==
  LET included == SubSeq(Candidates(setup), 1, Min({MAX_DRAFT_CONDITIONS, Len(Candidates(setup))}))
  IN  [tree |-> Group(last + 1, "and",
                  [i \in DOMAIN included |->
                     [Leaf(last + 1 + i, included[i]) EXCEPT !.enabled = HasData(included[i])]]),
       provenance |-> [i \in DOMAIN included |-> [nodeId |-> last + 1 + i, condition |-> included[i]]],
       last |-> last + 1 + Len(included)]

-----------------------------------------------------------------------------
(* Editing a draft *)

\* runDraftOperation: the tree it leaves and the ids it mints, or none if refused.
Result(accepted, tree, ids) == IF accepted THEN {[tree |-> tree, ids |-> ids]} ELSE {}
RunDraftOperation(edit, tree, last) ==
  LET id == last + 1
      node == edit.node
  IN  CASE edit.op = "add" -> Result(CanAdd(tree, node), AddNode(tree, id, node, edit.condition), 1)
        [] edit.op = "update" -> Result(CanUpdate(tree, node), UpdateCondition(tree, node, edit.condition), 0)
        [] edit.op = "remove" -> Result(CanRemove(tree, node), Without(tree, node), 0)
        [] edit.op = "set_enabled" -> Result(Has(tree, node), SetEnabled(tree, node, edit.on), 0)
        [] edit.op = "group" -> Result(CanGroup(tree, edit.nodes, "or"), GroupNodes(tree, id, edit.nodes, "or"), 1)
        [] edit.op = "reorder" ->
             Result(CanReorder(tree, node, edit.nodes), ReorderChildren(tree, node, edit.nodes), 0)

\* Variant: provenance is dropped for nodes that are gone only.
NextProvenance_KeepsUpdated(draft, tree, edit) ==
  SelectSeq(draft.provenance, LAMBDA e : Has(tree, e.nodeId))

\* nextProvenance: an entry goes with its node, or when its condition is rewritten.
NextProvenance(draft, tree, edit) ==
  SelectSeq(draft.provenance,
            LAMBDA e : Has(tree, e.nodeId) /\ ~(edit.op = "update" /\ edit.node = e.nodeId))

\* The edits an agent may send of a tree it has read.
Edits(tree) ==
  LET ids == ToSet(NodeIds(tree))
  IN  [op : {"add", "update"}, node : ids, condition : HandMade]
        \union [op : {"remove"}, node : ids]
        \union [op : {"set_enabled"}, node : ids, on : BOOLEAN]
        \union [op : {"group"}, nodes : [1..2 -> ids], node : {tree.nodeId}]
        \union [op : {"reorder"}, node : {tree.nodeId}, nodes : SetToSeqs(ToSet(ChildIds(tree)))]

\* runEdit: the tree is stored as normalizeDraftFilterNode repairs it.
EditedDrafts(draft, last) ==
  UNION {{[tree |-> Normalize(result.tree), ids |-> result.ids,
           provenance |-> NextProvenance(draft, Normalize(result.tree), edit)] :
            result \in RunDraftOperation(edit, draft.tree, last)} : edit \in Edits(draft.tree)}

-----------------------------------------------------------------------------
\* What a draft says of the setup stays true through its edits: an entry names
\* a node that is there, with the condition the setup produced.  (nextProvenance:
\* "would misattribute a hand-edit to the setup".)  It holds until the
\* page is loaded again: then an edit may mint the id of a derived node.
DraftsTellWhy ==
  \A id \in DOMAIN lab.drafts :
    LET draft == lab.drafts[id]
    IN  ~mintedIds.behind =>
          \A i \in DOMAIN draft.provenance :
            LET entry == draft.provenance[i]
            IN  /\ Has(draft.tree, entry.nodeId)
                /\ ~IsGroup(Node(draft.tree, entry.nodeId))
                /\ Node(draft.tree, entry.nodeId).condition = entry.condition
                /\ entry.condition \in ToSet(Candidates(lab.setups[draft.source]))
=============================================================================
