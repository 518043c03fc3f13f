----------------------------- MODULE DeviceTree -----------------------------
(***************************************************************************)
(* The device tree the loader builds for the kernel (DeviceTree.c): nodes  *)
(* and properties carved from 4096-byte slabs, linked by raw pointers, and *)
(* flattened into one buffer whose size comes from three global counters.  *)
(*                                                                         *)
(* A node is a number and 0 is NULL.  Links are kept as the code keeps     *)
(* them: the free list runs through the same Next field as the list of     *)
(* children.  A property list is a sequence, and the free properties are   *)
(* only counted, because no property of the model depends on which one is  *)
(* taken.  Every operation is a function from the globals to the set of    *)
(* its outcomes, one for each way MmAllocatePool may answer.               *)
(***************************************************************************)
EXTENDS Integers, SequencesExt, FiniteSetsExt

CONSTANTS Names,          \* names of nodes below the root
          NameSize,       \* strlen + 1 of each of them
          PropNames,      \* names of the other properties
          ValueSizes,     \* lengths of their values, in bytes
          Paths,          \* paths given to DevTreeFindNode
          NodesPerSlab, PropsPerSlab,   \* usable entries of one slab
          MaxSlabs        \* bound: slabs of each kind the firmware will give

NULL == 0
Root == "/"
Slots == 1 .. NodesPerSlab * MaxSlabs

ASSUME SizesAssumption ==
    /\ NameSize \in [Names \cup {Root} -> Nat \ {0}]
    /\ ValueSizes \subseteq Nat
    /\ {NodesPerSlab, PropsPerSlab, MaxSlabs} \subseteq Nat \ {0}

VARIABLE tree   \* the globals of DeviceTree.c and the slab memory they point into

FlatNodeSize == 8
FlatPropertySize == 36
Aligned(length) == ((length + 3) \div 4) * 4

\* Memory of a slab that was never cleared reads as this; no operation of the
\* model looks at it (see Becomes).
RawNode == [Next |-> NULL, Children |-> NULL, Properties |-> <<>>]

Outcome(t, n) == [tree |-> t, result |-> n]
OK == 1

-----------------------------------------------------------------------------
(* Slabs and free lists.                                                   *)

DevTreepGetProperty(t) ==
    LET Take(u) == [u EXCEPT !.freeProperties = @ - 1, !.TotalProperties = @ + 1]
    IN  IF t.freeProperties > 0
        THEN {Outcome(Take(t), OK)}
        ELSE {Outcome(t, NULL)}
             \cup IF t.propertySlabs = MaxSlabs THEN {}
                  ELSE {Outcome(Take([t EXCEPT !.propertySlabs = @ + 1,
                                               !.freeProperties = PropsPerSlab]), OK)}

\* A new slab's entries are pushed one after the other, so the last one is the
\* first to be taken.
NewNodeSlab(t) ==
    LET base == t.nodeSlabs * NodesPerSlab
        slab == base + 1 .. base + NodesPerSlab
    IN  [t EXCEPT !.nodeSlabs = @ + 1,
                  !.NextFreeNode = base + NodesPerSlab,
                  !.node = [n \in Slots |->
                     IF n \in slab
                     THEN [@[n] EXCEPT !.Next = IF n = base + 1 THEN NULL ELSE n - 1]
                     ELSE @[n]]]

DevTreepGetNode(t) ==
    LET Take(u) == Outcome([u EXCEPT !.NextFreeNode = u.node[u.NextFreeNode].Next,
                                     !.node[u.NextFreeNode] = RawNode,
                                     !.TotalNodes = @ + 1],
                           u.NextFreeNode)
    IN  IF t.NextFreeNode # NULL
        THEN {Take(t)}
        ELSE {Outcome(t, NULL)}
             \cup IF t.nodeSlabs = MaxSlabs THEN {} ELSE {Take(NewNodeSlab(t))}

\* The node's Children field and its place in its parent's list are left alone.
DevTreepFreeNode(t, n) ==
    [t EXCEPT !.freeProperties = @ + Len(t.node[n].Properties),
              !.TotalProperties = @ - Len(t.node[n].Properties),
              !.node[n].Next = t.NextFreeNode,
              !.NextFreeNode = n,
              !.TotalNodes = @ - 1]

-----------------------------------------------------------------------------
(* Properties and nodes.                                                   *)

\* When the copy of the value cannot be allocated, the property has left the
\* free list and been counted, and nothing links it.
DevTreeAddProperty(t, n, prop, allocAndCopy) ==
    UNION {IF g.result = NULL THEN {g}
           ELSE {Outcome([g.tree EXCEPT !.node[n].Properties = Append(@, prop),
                                        !.TotalPropertiesSize = @ + Aligned(prop.length)],
                         OK)}
                \cup IF allocAndCopy THEN {Outcome(g.tree, NULL)} ELSE {}
           : g \in DevTreepGetProperty(t)}

NameProperty(name) == [name |-> "name", value |-> name, length |-> NameSize[name]]

\* Mutant: the new child replaces the list of children instead of heading it.
DevTreeAddChild_DropsSiblings(t, parent, name) ==
    UNION {IF g.result = NULL THEN {g}
           ELSE {IF p.result = NULL
                 THEN Outcome([DevTreepFreeNode(p.tree, g.result) EXCEPT !.unnamed = TRUE], NULL)
                 ELSE Outcome(p.tree, g.result)
                 : p \in DevTreeAddProperty(
                          IF parent = NULL THEN [g.tree EXCEPT !.RootNode = g.result]
                          ELSE [g.tree EXCEPT !.node[parent].Children = g.result],
                          g.result, NameProperty(name), TRUE)}
           : g \in DevTreepGetNode(t)}

\* parent = NULL makes the root.  The node is linked before it is named; when
\* naming it fails it is freed and stays linked, and its siblings, which were
\* behind its Next, are lost to the tree.
DevTreeAddChild(t, parent, name) ==
    LET Link(u, n) == IF parent = NULL
                      THEN [u EXCEPT !.RootNode = n]
                      ELSE [u EXCEPT !.node[n].Next = u.node[parent].Children,
                                     !.node[parent].Children = n]
    IN  UNION {IF g.result = NULL THEN {g}
               ELSE {IF p.result = NULL
                     THEN Outcome([DevTreepFreeNode(p.tree, g.result) EXCEPT !.unnamed = TRUE],
                                  NULL)
                     ELSE Outcome(p.tree, g.result)
                     : p \in DevTreeAddProperty(Link(g.tree, g.result), g.result,
                                                NameProperty(name), TRUE)}
               : g \in DevTreepGetNode(t)}

\* The list that starts at node n.
RECURSIVE List(_, _)
List(t, n) == IF n = NULL THEN <<>> ELSE <<n>> \o List(t, t.node[n].Next)

Children(t, n) == List(t, t.node[n].Children)

DevTreeGetName(t, n) ==
    LET i == SelectInSeq(t.node[n].Properties, LAMBDA p : p.name = "name")
    IN  IF i = 0 THEN "(null)" ELSE t.node[n].Properties[i].value

\* Mutant: createIfMissing creates without looking whether the child is there.
Step_AlwaysCreates(t, n, name, createIfMissing) ==
    LET i == SelectInSeq(Children(t, n), LAMBDA c : DevTreeGetName(t, c) = name)
    IN  IF createIfMissing THEN DevTreeAddChild(t, n, name)
        ELSE {Outcome(t, IF i = 0 THEN NULL ELSE Children(t, n)[i])}

\* The first child of that name, or what creating it gives.
Step(t, n, name, createIfMissing) ==
    LET i == SelectInSeq(Children(t, n), LAMBDA c : DevTreeGetName(t, c) = name)
    IN  IF i # 0 THEN {Outcome(t, Children(t, n)[i])}
        ELSE IF createIfMissing THEN DevTreeAddChild(t, n, name)
        ELSE {Outcome(t, NULL)}

RECURSIVE Walk(_, _, _, _)
Walk(t, n, path, createIfMissing) ==
    IF n = NULL \/ path = <<>> THEN {Outcome(t, n)}
    ELSE UNION {Walk(o.tree, o.result, Tail(path), createIfMissing)
                : o \in Step(t, n, Head(path), createIfMissing)}

DevTreeFindNode(t, path, createIfMissing) == Walk(t, t.RootNode, path, createIfMissing)

-----------------------------------------------------------------------------
(* Flattening.  The buffer is a sequence of records, each with its size.   *)

FlattenedLength(t) ==
    t.TotalNodes * FlatNodeSize + t.TotalProperties * FlatPropertySize
      + t.TotalPropertiesSize

\* Mutant: the count of children is not stored.
RECURSIVE DevTreepFlattenNode_NoCount(_, _)
DevTreepFlattenNode_NoCount(t, n) ==
    <<[kind |-> "node", Properties |-> Len(t.node[n].Properties), Children |-> 0,
       size |-> FlatNodeSize]>>
      \o [i \in DOMAIN t.node[n].Properties |->
            [kind |-> "property", property |-> t.node[n].Properties[i],
             size |-> FlatPropertySize + Aligned(t.node[n].Properties[i].length)]]
      \o FlattenSeq([i \in DOMAIN Children(t, n) |->
                        DevTreepFlattenNode_NoCount(t, Children(t, n)[i])])

RECURSIVE DevTreepFlattenNode(_, _)
DevTreepFlattenNode(t, n) ==
    LET children == Children(t, n)
        properties == t.node[n].Properties
    IN  <<[kind |-> "node", Properties |-> Len(properties), Children |-> Len(children),
           size |-> FlatNodeSize]>>
        \o [i \in DOMAIN properties |->
              [kind |-> "property", property |-> properties[i],
               size |-> FlatPropertySize + Aligned(properties[i].length)]]
        \o FlattenSeq([i \in DOMAIN children |-> DevTreepFlattenNode(t, children[i])])

\* What the kernel reads back from position i: the tree and the position after it.
RECURSIVE Unflatten(_, _), UnflattenChildren(_, _, _)
Unflatten(flat, i) ==
    LET first == i + flat[i].Properties + 1
        rest == UnflattenChildren(flat, first, flat[i].Children)
    IN  [tree |-> [properties |-> [j \in 1 .. flat[i].Properties |-> flat[i + j].property],
                   children |-> rest.trees],
         end |-> rest.end]
UnflattenChildren(flat, i, count) ==
    IF count = 0 THEN [trees |-> <<>>, end |-> i]
    ELSE LET one == Unflatten(flat, i)
             more == UnflattenChildren(flat, one.end, count - 1)
         IN  [trees |-> <<one.tree>> \o more.trees, end |-> more.end]

\* The tree as a value, without pointers.
RECURSIVE Value(_, _)
Value(t, n) == [properties |-> t.node[n].Properties,
                children |-> [i \in DOMAIN Children(t, n) |-> Value(t, Children(t, n)[i])]]

-----------------------------------------------------------------------------
Empty == [RootNode |-> NULL, NextFreeNode |-> NULL, nodeSlabs |-> 0,
          node |-> [n \in Slots |-> RawNode],
          freeProperties |-> 0, propertySlabs |-> 0,
          TotalNodes |-> 0, TotalProperties |-> 0, TotalPropertiesSize |-> 0,
          unnamed |-> FALSE]   \* history: a linked node could not be named

\* All nodes that pointers lead to from node n.
RECURSIVE Closure(_, _)
Closure(t, S) ==
    LET T == (S \cup UNION {{t.node[n].Next, t.node[n].Children} : n \in S}) \ {NULL}
    IN  IF T = S THEN S ELSE Closure(t, T)

InTree(t) == IF t.RootNode = NULL THEN {} ELSE Closure(t, {t.RootNode})

RECURSIVE Chain(_, _)
Chain(t, S) == LET T == (S \cup {t.node[n].Next : n \in S}) \ {NULL}
               IN  IF T = S THEN S ELSE Chain(t, T)
FreeNodes(t) == Chain(t, {t.NextFreeNode} \ {NULL})

\* Once a linked node was freed a walk over children reads slab memory nothing
\* has written, so nothing is said about calls that walk the tree after that.
Becomes(outcomes) == /\ ~ tree.unnamed
                     /\ \E o \in outcomes : tree' = o.tree

DevTreeInitialize ==
    /\ tree.RootNode = NULL
    /\ Becomes(DevTreeAddChild(tree, NULL, Root))

AddProperty(n, prop, allocAndCopy) ==
    /\ n \in InTree(tree)
    /\ Becomes(DevTreeAddProperty(tree, n, prop, allocAndCopy))

AddChild(parent, name) ==
    /\ parent \in InTree(tree)
    /\ Becomes(DevTreeAddChild(tree, parent, name))

FindNode(path) ==
    /\ tree.RootNode # NULL
    /\ Becomes(DevTreeFindNode(tree, path, TRUE))

\* The slabs are freed, by their own list and not by the tree, and every global is
\* cleared; the values' own buffers are not freed.
DevTreeFinalize == tree' = Empty

Init == tree = Empty

Next ==
    \/ DevTreeInitialize
    \/ \E n \in Slots, name \in PropNames, size \in ValueSizes, copy \in BOOLEAN :
         AddProperty(n, [name |-> name, value |-> name, length |-> size], copy)
    \/ \E n \in Slots, name \in Names : AddChild(n, name)
    \/ \E path \in Paths : FindNode(path)
    \/ DevTreeFinalize

Spec == Init /\ [][Next]_tree

-----------------------------------------------------------------------------

Linked(t) == MapThenSumSet(LAMBDA n : Len(t.node[n].Properties), InTree(t))
LinkedBytes(t) ==
    MapThenSumSet(LAMBDA n : FoldSeq(LAMBDA p, sum : sum + Aligned(p.length), 0,
                                     t.node[n].Properties),
                  InTree(t))
Sum(records) == FoldSeq(LAMBDA r, sum : sum + r.size, 0, records)

(* The pointers form a tree, whatever order nodes were created in and      *)
(* allocations failed in, with one exception: from the time on that a      *)
(* linked node could not be named (the end of DevTreeAddChild), nothing is *)
(* claimed.  Slab memory is in the tree or on the free list and never in   *)
(* both, and each node that DevTreeAddChild returned has one pointer to    *)
(* it.  A lost sibling list or a node linked twice breaks it.              *)
NodesConserved ==
    ~ tree.unnamed =>
      /\ InTree(tree) \cap FreeNodes(tree) = {}
      /\ InTree(tree) \cup FreeNodes(tree) = 1 .. tree.nodeSlabs * NodesPerSlab
      /\ tree.TotalNodes = Cardinality(InTree(tree))
      /\ \A n \in InTree(tree) \ {tree.RootNode} :
            Cardinality({m \in InTree(tree) : tree.node[m].Next = n})
              + Cardinality({m \in InTree(tree) : tree.node[m].Children = n}) = 1

(* The counters that size the flattened buffer never fall behind the tree: *)
(* the bytes DevTreepFlattenNode writes fit in what DevTreeFlatten asked   *)
(* for.  The only slack is a whole record for each property whose value    *)
(* could not be allocated.                                                 *)
FlattenFits ==
    ~ tree.unnamed /\ tree.RootNode # NULL =>
      /\ tree.TotalPropertiesSize = LinkedBytes(tree)
      /\ FlattenedLength(tree)
           = Sum(DevTreepFlattenNode(tree, tree.RootNode))
             + FlatPropertySize * (tree.TotalProperties - Linked(tree))
      /\ tree.TotalProperties >= Linked(tree)

(* What the kernel parses from the buffer of DevTreeFlatten, using only    *)
(* the two counts of each node, is the tree the loader built, and it ends  *)
(* where the writer ended.                                                 *)
FlattenRoundTrip ==
    ~ tree.unnamed /\ tree.RootNode # NULL =>
      LET flat == DevTreepFlattenNode(tree, tree.RootNode)
          back == Unflatten(flat, 1)
      IN  /\ back.tree = Value(tree, tree.RootNode)
          /\ back.end = Len(flat) + 1

(* The buffer that DevTreeFlatten hands to the kernel is large enough and  *)
(* is the tree.                                                            *)
FlattenIsExact == FlattenFits /\ FlattenRoundTrip

Lookup(t, path) == (CHOOSE o \in DevTreeFindNode(t, path, FALSE) : TRUE).result

(* DevTreeFindNode with createIfMissing: the node it returns is the one a  *)
(* later lookup of the same path finds, and no path that resolved before   *)
(* resolves to something else afterwards.  The loader's parts rely on it:  *)
(* each of them looks /chosen up again instead of sharing the pointer.     *)
CreationIsStable ==
    ~ tree.unnamed /\ tree.RootNode # NULL =>
      \A path \in Paths : \A o \in DevTreeFindNode(tree, path, TRUE) :
        o.result # NULL =>
          /\ Lookup(o.tree, path) = o.result
          /\ \A other \in Paths : Lookup(tree, other) # NULL =>
                                   Lookup(o.tree, other) = Lookup(tree, other)
=============================================================================
