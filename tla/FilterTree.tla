----------------------------- MODULE FilterTree -----------------------------
(***************************************************************************)
(* The filter tree of a screener and the six edits that edit_filter_tree   *)
(* makes on it (screener/filterTree.ts), with the repairs a stored tree    *)
(* gets on every read and write (screener/definition.ts).                  *)
(*                                                                         *)
(* A node is a record: a condition carries its condition, a group its      *)
(* operator and its children in order.  Node ids are the sequence numbers  *)
(* of "filter_<n>".                                                        *)
(***************************************************************************)
EXTENDS Naturals, Sequences, SequencesExt, FiniteSets

Leaf(id, c) == [nodeId |-> id, kind |-> "condition", enabled |-> TRUE, condition |-> c]

Group(id, op, children) ==
    [nodeId |-> id, kind |-> "group", enabled |-> TRUE, op |-> op, children |-> children]

IsGroup(node) == node.kind = "group"

IndexOf(s, P(_)) == CHOOSE i \in DOMAIN s : P(s[i]) /\ \A j \in 1 .. i - 1 : ~ P(s[j])

RECURSIVE NodeIds(_)
NodeIds(node) ==
    IF IsGroup(node)
    THEN <<node.nodeId>> \o
         FoldLeft(LAMBDA ids, child : ids \o NodeIds(child), <<>>, node.children)
    ELSE <<node.nodeId>>

RECURSIVE Nodes(_)
Nodes(node) ==
    IF IsGroup(node)
    THEN <<node>> \o FoldLeft(LAMBDA ns, child : ns \o Nodes(child), <<>>, node.children)
    ELSE <<node>>

Has(tree, id) == id \in ToSet(NodeIds(tree))

\* The first node with the id, in pre-order, as findNode meets it.
Node(tree, id) == Nodes(tree)[IndexOf(NodeIds(tree), LAMBDA n : n = id)]

\* The topmost node with the id gives way to `node`; nothing beneath it is visited.
Replace(tree, id, node) ==
    LET new[n \in ToSet(Nodes(tree))] ==
            IF n.nodeId = id THEN node
            ELSE IF IsGroup(n)
                 THEN [n EXCEPT !.children = [i \in DOMAIN @ |-> new[@[i]]]]
                 ELSE n
    IN  new[tree]

WithChildren(tree, id, kids) == Replace(tree, id, [Node(tree, id) EXCEPT !.children = kids])

RECURSIVE Without(_, _)
Without(node, id) ==
    IF IsGroup(node)
    THEN LET kept == SelectSeq(node.children, LAMBDA c : c.nodeId # id)
         IN  [node EXCEPT !.children = [i \in DOMAIN kept |-> Without(kept[i], id)]]
    ELSE node

\* A "not" keeps its first child; one left with no child becomes an "and".
RECURSIVE Normalize(_)
Normalize(node) ==
    IF ~ IsGroup(node) THEN node
    ELSE LET kids   == [i \in DOMAIN node.children |-> Normalize(node.children[i])]
             single == IF node.op = "not" /\ kids # <<>> THEN <<Head(kids)>> ELSE kids
         IN  [node EXCEPT
                !.children = single,
                !.op = IF @ = "not" /\ single = <<>> THEN "and" ELSE @]

-----------------------------------------------------------------------------
(* The edits.  Each has the guard under which the operation is accepted    *)
(* and the tree it returns.                                                *)

CanAdd(tree, parent) == Has(tree, parent) /\ IsGroup(Node(tree, parent))

AddNode(tree, id, parent, c) ==
    WithChildren(tree, parent, Node(tree, parent).children \o <<Leaf(id, c)>>)

CanUpdate(tree, id) == Has(tree, id) /\ ~ IsGroup(Node(tree, id))

UpdateCondition(tree, id, c) ==
    Replace(tree, id, [Node(tree, id) EXCEPT !.condition = c])

CanRemove(tree, id) == Has(tree, id) /\ id # tree.nodeId

SetEnabled(tree, id, on) == Replace(tree, id, [Node(tree, id) EXCEPT !.enabled = on])

ChildIds(group) == [i \in DOMAIN group.children |-> group.children[i].nodeId]

\* The first group, in pre-order, that has all of them among its own children.
SiblingParents(tree, ids) ==
    SelectSeq(Nodes(tree),
              LAMBDA n : IsGroup(n) /\ ToSet(ids) \subseteq ToSet(ChildIds(n)))

CanGroup(tree, ids, op) ==
    /\ Len(ids) >= 2 /\ op # "not"
    /\ IsInjective(ids)
    /\ ToSet(ids) \subseteq ToSet(NodeIds(tree))
    /\ tree.nodeId \notin ToSet(ids)
    /\ SiblingParents(tree, ids) # <<>>

\* Variant: the place of the new group counted among the children that stay.
GroupNodes_Shifted(tree, id, ids, op) ==
    LET parent  == Head(SiblingParents(tree, ids))
        child(n) == parent.children[IndexOf(ChildIds(parent), LAMBDA m : m = n)]
        group   == Group(id, op, [i \in DOMAIN ids |-> child(ids[i])])
        first   == IndexOf(ChildIds(parent), LAMBDA m : m \in ToSet(ids))
        kids    == parent.children
    IN  WithChildren(tree, parent.nodeId,
                     SubSeq(kids, 1, first - 1) \o <<group>>
                         \o SubSeq(kids, first + Len(ids), Len(kids)))

\* The new group takes the place of the first of the nodes it takes in, and
\* holds them in the order they were named.
GroupNodes(tree, id, ids, op) ==
    LET parent  == Head(SiblingParents(tree, ids))
        child(n) == parent.children[IndexOf(ChildIds(parent), LAMBDA m : m = n)]
        group   == Group(id, op, [i \in DOMAIN ids |-> child(ids[i])])
        first   == IndexOf(ChildIds(parent), LAMBDA m : m \in ToSet(ids))
        rest    == SelectSeq(parent.children, LAMBDA c : c.nodeId \notin ToSet(ids))
    IN  WithChildren(tree, parent.nodeId,
                     SubSeq(rest, 1, first - 1) \o <<group>> \o SubSeq(rest, first, Len(rest)))

CanReorder(tree, parent, ids) ==
    /\ CanAdd(tree, parent)
    /\ IsInjective(ids)
    /\ Len(ids) = Len(Node(tree, parent).children)
    /\ ToSet(ids) = ToSet(ChildIds(Node(tree, parent)))

ReorderChildren(tree, parent, ids) ==
    LET kids == Node(tree, parent).children
        child(n) == kids[IndexOf(ChildIds(Node(tree, parent)), LAMBDA m : m = n)]
    IN  WithChildren(tree, parent, [i \in DOMAIN ids |-> child(ids[i])])

-----------------------------------------------------------------------------
(* A definition given whole (define_screener): a shape is a node without   *)
(* ids; ids are minted in pre-order.                                       *)

RECURSIVE Size(_)
Size(shape) ==
    IF IsGroup(shape)
    THEN 1 + FoldLeft(LAMBDA n, child : n + Size(child), 0, shape.children)
    ELSE 1

RECURSIVE Numbered(_, _)
Numbered(shape, id) ==
    IF IsGroup(shape)
    THEN [nodeId |-> id, kind |-> "group", enabled |-> shape.enabled, op |-> shape.op,
          children |->
            [i \in DOMAIN shape.children |->
               Numbered(shape.children[i],
                        id + 1 + FoldLeft(LAMBDA n, child : n + Size(child), 0,
                                          SubSeq(shape.children, 1, i - 1)))]]
    ELSE [nodeId |-> id, kind |-> "condition", enabled |-> shape.enabled,
          condition |-> shape.condition]

\* A "not" must be given exactly one child: the call is refused otherwise.
RECURSIVE WellShaped(_)
WellShaped(shape) ==
    IsGroup(shape) =>
        /\ shape.op = "not" => Len(shape.children) = 1
        /\ \A i \in DOMAIN shape.children : WellShaped(shape.children[i])
=============================================================================
