--------------------------- MODULE DerivationTree ---------------------------
(***************************************************************************)
(* The class DerivationTree: nodes that know their children and their      *)
(* parent, and cache their hash and their size.                            *)
(*                                                                         *)
(* A heap is a sequence of nodes, whose identities are their positions,    *)
(* and a method is an operator from a heap to the heap it leaves behind.  *)
(* A hash is taken to identify what it is computed from.  Sender and       *)
(* recipient of a message are one field; grammars have no generators, so   *)
(* there are no sources.                                                   *)
(***************************************************************************)
EXTENDS Naturals, Sequences, FiniteSets, SequencesExt

CONSTANTS None, Slice

Leaf(sym, from) ==
    [sym |-> sym, from |-> from, kids |-> <<>>, up |-> None,
     ro |-> FALSE, cache |-> None, size |-> 1]

Fresh(h) == Len(h) + 1

(* flatten: the nodes of the tree of n, from the left to the right.        *)
Preorder(h, n) ==
    LET order[m \in DOMAIN h] ==
            <<m>> \o FlattenSeq([k \in DOMAIN h[m].kids |-> order[h[m].kids[k]]])
    IN order[n]

Tree(h, n) == ToSet(Preorder(h, n))

(* What is the same in equal trees.                                        *)
Content(h, n) ==
    LET content[m \in DOMAIN h] ==
            [sym |-> h[m].sym, from |-> h[m].from,
             kids |-> [k \in DOMAIN h[m].kids |-> content[h[m].kids[k]]]]
    IN content[n]

(* get_path: from the root to n, along the parents.                        *)
GetPath(h, n) ==
    LET path[m \in DOMAIN h] == IF h[m].up = None THEN <<m>>
                                ELSE Append(path[h[m].up], m)
    IN path[n]

SizeFromKids(h, n) ==
    FoldLeft(LAMBDA size, c : size + h[c].size, 1, h[n].kids)

(* Mutant of Invalidate: the ancestors are left alone.                     *)
InvalidateNode(h, n) ==
    [h EXCEPT ![n].cache = None, ![n].size = SizeFromKids(h, n)]

(* invalidate_hash: n, its parent, and so on up to the root.               *)
Invalidate(h, n) == FoldLeft(InvalidateNode, h, Reverse(GetPath(h, n)))

SetChildren(h, n, kids) ==
    Invalidate(FoldLeft(LAMBDA g, c : [g EXCEPT ![c].up = n],
                        [h EXCEPT ![n].kids = kids], kids), n)

(* Mutant: the child is not told.                                          *)
AddChildOnly(h, n, c) == Invalidate([h EXCEPT ![n].kids = Append(@, c)], n)

AddChild(h, n, c) ==
    Invalidate([h EXCEPT ![n].kids = Append(@, c), ![c].up = n], n)

(* What a copy of a tree is made from.                                     *)
Shape(h, n) ==
    LET shape[m \in DOMAIN h] ==
            [sym |-> h[m].sym, from |-> h[m].from, ro |-> h[m].ro,
             kids |-> [k \in DOMAIN h[m].kids |-> shape[h[m].kids[k]]]]
    IN shape[n]

(* A new tree of that shape; its root is Fresh(h).                         *)
RECURSIVE Grow(_, _)
Grow(h, shape) ==
    FoldLeft(LAMBDA g, kid : AddChild(Grow(g, kid), Fresh(h), Fresh(g)),
             Append(h, [Leaf(shape.sym, shape.from) EXCEPT !.ro = shape.ro]),
             shape.kids)

(* The hash of n, which takes the hash cached in a child for granted, and  *)
(* the heap in which it has been asked for.                                *)
Hash(h, n) ==
    LET hash[m \in DOMAIN h] ==
            IF h[m].cache # None THEN h[m].cache
            ELSE [sym |-> h[m].sym, from |-> h[m].from,
                  kids |-> [k \in DOMAIN h[m].kids |-> hash[h[m].kids[k]]]]
    IN hash[n]

Hashed(h, n) ==
    LET asked[m \in DOMAIN h] ==
            IF h[m].cache # None THEN <<>>
            ELSE Append(FlattenSeq([k \in DOMAIN h[m].kids |-> asked[h[m].kids[k]]]), m)
    IN FoldLeft(LAMBDA g, m : [g EXCEPT ![m].cache = Hash(g, m)], h, asked[n])

(* Mutant: not the children.                                               *)
SetReadOnly(h, n) == [h EXCEPT ![n].ro = TRUE]

SetAllReadOnly(h, n) ==
    FoldLeft(LAMBDA g, m : [g EXCEPT ![m].ro = TRUE], h, Preorder(h, n))

(* protocol_msgs: the topmost nodes that have a sender, from left to right.*)
ProtocolMsgs(h, n) ==
    LET messages[m \in DOMAIN h] ==
            IF h[m].from # None THEN <<m>>
            ELSE FlattenSeq([k \in DOMAIN h[m].kids |-> messages[h[m].kids[k]]])
    IN messages[n]

(* append: along the last children, or children made for it, of n.         *)
Descend(at, step) ==
    LET h == at[1]
        n == at[2]
    IN IF step.new
       THEN <<AddChild(Append(h, Leaf(step.sym, None)), n, Fresh(h)), Fresh(h)>>
       ELSE <<h, Last(h[n].kids)>>

AppendTree(h, n, hookinPath, shape) ==
    LET at == FoldLeft(Descend, <<h, n>>, hookinPath)
    IN AddChild(Grow(at[1], shape), at[2], Fresh(at[1]))

(* A slice n[i:j] of children: a node of its own that adopts them.         *)
SliceTree(h, n, i, j) ==
    SetChildren(Append(h, Leaf(Slice, None)), Fresh(h), SubSeq(h[n].kids, i, j))

(* Mutant: an equal sibling is taken for the node (list.index).            *)
ChoicesPathByValue(h, n) ==
    LET path == GetPath(h, n)
    IN [k \in 1..Len(path) - 1 |->
           Min({i \in DOMAIN h[path[k]].kids :
                   Content(h, h[path[k]].kids[i]) = Content(h, path[k + 1])})]

(* get_choices_path: the indices that lead from the root to n.             *)
ChoicesPath(h, n) ==
    LET path == GetPath(h, n)
    IN [k \in 1..Len(path) - 1 |->
           CHOOSE i \in DOMAIN h[path[k]].kids : h[path[k]].kids[i] = path[k + 1]]

RECURSIVE ReplacedAt(_, _, _)
ReplacedAt(shape, path, new) ==
    IF path = <<>>
    THEN IF shape.sym = new.sym /\ ~shape.ro THEN new ELSE shape
    ELSE IF Head(path) \in DOMAIN shape.kids
    THEN [shape EXCEPT !.kids[Head(path)] = ReplacedAt(@, Tail(path), new)]
    ELSE shape

(* replace, for a node below the root: a new tree, whose root is Fresh(h), *)
(* with a copy of the tree of new in place of n.  Comparing each child to  *)
(* what it became asks for their hashes; the new children take the old     *)
(* root for their parent until they are given theirs.                      *)
Replace(h, root, n, new) ==
    LET g == Grow(h, ReplacedAt(Shape(h, root), ChoicesPath(h, n), Shape(h, new)))
        compared == FoldLeft(Hashed, g, h[root].kids \o g[Fresh(h)].kids)
    IN IF \E c \in ToSet(h[root].kids) : h[c].up = root
       THEN InvalidateNode(compared, root) ELSE compared

=============================================================================
