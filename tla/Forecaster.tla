----------------------------- MODULE Forecaster -----------------------------
(***************************************************************************)
(* PacketForecaster: which messages may come next after those of a tree.   *)
(* The names of the messages so far are parsed with a reduced grammar in   *)
(* which each message is a terminal; PathFinder then walks the grammar     *)
(* along the last children of each tree found, and beyond it.              *)
(***************************************************************************)
EXTENDS IterativeParser

(* The nonterminals outside of messages, from the start symbol on.         *)
RECURSIVE Outside(_, _)
Outside(grammar, names) ==
    LET nodes == UNION {NodesOf(grammar[x]) : x \in names}
        seen == names \cup {n.name : n \in {m \in nodes : m.kind = "nt" /\ ~IsMessage(m)}}
    IN  IF seen = names THEN names ELSE Outside(grammar, seen)

(* GrammarReducer: <_packet_m>, here m itself, has the name of the message *)
(* as its only word.  No nonterminal is a message in one place and not in  *)
(* another.                                                                *)
Reduced(grammar) ==
    LET names == Outside(grammar, {"start"})
        messages == {n.name : n \in {m \in UNION {NodesOf(grammar[x]) : x \in names} :
                                        IsMessage(m)}}
    IN  [x \in names \cup messages |->
            IF x \in messages THEN Word(<<x>>) ELSE grammar[x]]

(* protocol_msgs.                                                          *)
RECURSIVE Messages(_)
Messages(tree) ==
    IF tree.sender # None THEN <<tree>>
    ELSE FoldLeft(LAMBDA ms, kid : ms \o Messages(kid), <<>>, tree.kids)

-----------------------------------------------------------------------------
(* PathFinder.  go says whether what follows a node may come next, found   *)
(* which messages may, with the path to where they are to be mounted.      *)

Found(go, found) == [match |-> TRUE, go |-> go, found |-> found]

Mismatch == [match |-> FALSE, go |-> FALSE, found |-> {}]

Go == Found(TRUE, {})

Both(r, q) == [q EXCEPT !.found = r.found \cup @]

Into(path, node, new) == Append(path, [name |-> node.name, new |-> new])

(* What a node that the tree does not reach may begin with.                *)
RECURSIVE Beyond(_, _, _)

ThenBeyond(grammar, r, nodes, path) ==
    FoldLeft(LAMBDA q, c : IF q.go THEN Both(q, Beyond(grammar, c, path)) ELSE q,
             r, nodes)

(* Mutant: one iteration too many.                                        *)
IterateOnceMore(grammar, node, path, n, r) ==
    LET q == IF r.go /\ n <= node.max
             THEN Both(r, Beyond(grammar, node.node, path)) ELSE r
    IN  [q EXCEPT !.go = @ \/ n >= node.min]

(* visitRepetitionType, n being the iterations in the tree and r what came *)
(* of the last of them.                                                    *)
Iterate(grammar, node, path, n, r) ==
    LET q == IF r.go /\ n < node.max
             THEN Both(r, Beyond(grammar, node.node, path)) ELSE r
    IN  [q EXCEPT !.go = @ \/ n >= node.min]

Beyond(grammar, node, path) ==
    CASE IsMessage(node) -> Found(FALSE, {[message |-> node, path |-> path]})
      [] node.kind = "nt" ->
            Beyond(grammar, grammar[node.name], Into(path, node, TRUE))
      [] node.kind = "concatenation" -> ThenBeyond(grammar, Go, node.nodes, path)
      [] node.kind = "alternative" ->
            LET R == {Beyond(grammar, c, path) : c \in Children(node)}
            IN  Found(\E r \in R : r.go, UNION {r.found : r \in R})
      [] IsLoop(node) -> Iterate(grammar, node, path, 0, Go)

(* What may follow the trees that a node has become.                       *)
RECURSIVE Along(_, _, _, _)
Along(grammar, node, trees, path) ==
    LET kids == trees[1].kids
        inner(child) == Along(grammar, child, <<Last(kids)>>, path)
    IN  IF Len(trees) # 1 \/ trees[1].symbol # ItemOf(node).symbol THEN Mismatch
        ELSE CASE IsMessage(node) -> Go
               [] node.kind = "nt" ->
                     Along(grammar, grammar[node.name], kids, Into(path, node, FALSE))
               [] node.kind = "concatenation" ->
                     ThenBeyond(grammar, inner(node.nodes[Len(kids)]),
                                SubSeq(node.nodes, Len(kids) + 1, Len(node.nodes)), path)
               [] node.kind = "alternative" ->
                     LET R == SelectSeq([j \in DOMAIN node.nodes |-> inner(node.nodes[j])],
                                        LAMBDA r : r.match)
                     IN  IF R = <<>> THEN Mismatch ELSE R[1]
               [] IsLoop(node) ->
                     LET r == IF kids = <<>> THEN Go ELSE inner(node.node)
                     IN  IF r.match THEN Iterate(grammar, node, path, Len(kids), r)
                                    ELSE Mismatch

-----------------------------------------------------------------------------
(* PacketForecaster.predict.                                               *)

(* The messages of the history take the places of those of a parse.        *)
RECURSIVE Graft(_, _)
Graft(tree, messages) ==
    LET before(j) == Len(Messages([tree EXCEPT !.kids = SubSeq(@, 1, j - 1)]))
    IN  IF tree.sender # None THEN [tree EXCEPT !.kids = messages[1].kids]
        ELSE [tree EXCEPT !.kids = [j \in DOMAIN tree.kids |->
                Graft(tree.kids[j], SubSeq(messages, before(j) + 1, Len(messages)))]]

Parties(messages) ==
    [j \in DOMAIN messages |-> <<messages[j].sender, messages[j].recipient>>]

Options(grammar, root, found) ==
    {[message |-> f.message, path |-> f.path, tree |-> root] : f \in found}

Forecast(grammar, parser, tree) ==
    LET history == Messages(tree)
        names == [j \in DOMAIN history |-> history[j].symbol[2]]
        suggested == {t \in ToSet(Consume(parser, NewParse("start"), names).trees) :
                         Parties(Messages(t)) = Parties(history)}
        start == Ref("start")
    IN  IF history = <<>>
        THEN Options(grammar, Tree(ItemOf(start), <<>>),
                     Beyond(grammar, grammar["start"], <<>>).found)
        ELSE UNION {Options(grammar, Graft(Collapse(t), history),
                            Along(grammar, grammar["start"], t.kids, <<>>).found) :
                       t \in suggested}

RECURSIVE MountAnew(_, _, _)
(* Mutant: the nodes of the path are made anew, whether there or not.      *)
MountAnew(tree, path, message) ==
    IF path = <<>> THEN [tree EXCEPT !.kids = Append(@, message)]
    ELSE LET node == Tree(Item(Nonterminal(Head(path).name)), <<>>)
         IN  [tree EXCEPT !.kids = Append(@, MountAnew(node, Tail(path), message))]

(* DerivationTree.append at a path.                                        *)
RECURSIVE Mount(_, _, _)
Mount(tree, path, message) ==
    LET kids == IF path # <<>> /\ Head(path).new
                THEN Append(tree.kids, Tree(Item(Nonterminal(Head(path).name)), <<>>))
                ELSE tree.kids
    IN  IF path = <<>> THEN [tree EXCEPT !.kids = Append(@, message)]
        ELSE [tree EXCEPT !.kids =
                Append(Front(kids), Mount(Last(kids), Tail(path), message))]

=============================================================================
