------------------------------ MODULE Grammars ------------------------------
(***************************************************************************)
(* Grammars as trees of nodes, and the languages they stand for.  A        *)
(* character is an indivisible piece of input.  A nonterminal with a       *)
(* sender is a message of a protocol.                                      *)
(***************************************************************************)
EXTENDS Naturals, Sequences, FiniteSets, SequencesExt, FiniteSetsExt

CONSTANT MaxRepetitions    \* nodes.MAX_REPETITIONS

ASSUME RepetitionsAssumption == MaxRepetitions \in Nat \ {0}

None == ""

(* The kinds of nodes; id tells apart nodes of the same form.              *)
Word(w) == [kind |-> "word", word |-> w]

Message(name, sender, recipient) ==
    [kind |-> "nt", name |-> name, sender |-> sender, recipient |-> recipient]

Ref(name) == Message(name, None, None)

Concatenation(id, nodes) == [kind |-> "concatenation", id |-> id, nodes |-> nodes]

Alternative(id, nodes) == [kind |-> "alternative", id |-> id, nodes |-> nodes]

Loop(kind, id, node, min, max) ==
    [kind |-> kind, id |-> id, node |-> node, min |-> min, max |-> max]

Star(id, node) == Loop("star", id, node, 0, MaxRepetitions)
Plus(id, node) == Loop("plus", id, node, 1, MaxRepetitions)
Option(id, node) == Loop("option", id, node, 0, 1)
Repetition(id, node, min, max) == Loop("repetition", id, node, min, max)

IsMessage(node) == node.kind = "nt" /\ node.sender # None

IsLoop(node) == node.kind \in {"star", "plus", "option", "repetition"}

Children(node) ==
    CASE node.kind \in {"concatenation", "alternative"} -> ToSet(node.nodes)
      [] IsLoop(node) -> {node.node}
      [] OTHER -> {}

RECURSIVE NodesOf(_)
NodesOf(node) == {node} \cup UNION {NodesOf(c) : c \in Children(node)}

AllNodes(grammar) == UNION {NodesOf(grammar[n]) : n \in DOMAIN grammar}

Leaves(grammar) == {n \in AllNodes(grammar) : n.kind \in {"word", "nt"}}

-----------------------------------------------------------------------------
(* The reference: what a grammar means.  Words are cut off at length n.    *)

Joined(L, M, n) == {v \o w : <<v, w>> \in {p \in L \X M : Len(p[1]) + Len(p[2]) <= n}}

RECURSIVE Repeated(_, _, _)
Repeated(L, k, n) == IF k = 0 THEN {<<>>} ELSE Joined(L, Repeated(L, k - 1, n), n)

(* The language of a node, given the languages of the leaves.  Loops are   *)
(* unbounded unless limited.                                               *)
RECURSIVE LanguageOf(_, _, _, _)
LanguageOf(node, of, limited, n) ==
    CASE node.kind \in {"nt", "word"} -> of[node]
      [] node.kind = "alternative" ->
            UNION {LanguageOf(c, of, limited, n) : c \in Children(node)}
      [] node.kind = "concatenation" ->
            FoldLeft(LAMBDA L, c : Joined(L, LanguageOf(c, of, limited, n), n),
                     {<<>>}, node.nodes)
      [] IsLoop(node) ->
            LET max == IF limited \/ node.kind \notin {"star", "plus"}
                       THEN Min({node.max, n + node.min}) ELSE n + node.min
            IN  UNION {Repeated(LanguageOf(node.node, of, limited, n), k, n) :
                          k \in node.min..max}

(* The least solution, by iteration.                                       *)
RECURSIVE Solve(_, _, _, _)
Solve(grammar, atomic, n, L) ==
    LET leaf(m) == IF m.kind = "word" THEN {w \in {m.word} : Len(w) <= n}
                   ELSE IF atomic /\ IsMessage(m) THEN {<<m>>} ELSE L[m.name]
        of == [m \in Leaves(grammar) |-> leaf(m)]
        K == [x \in DOMAIN grammar |-> LanguageOf(grammar[x], of, atomic, n)]
    IN  IF K = L THEN L ELSE Solve(grammar, atomic, n, K)

(* The words of each nonterminal.                                          *)
WordsUpTo(grammar, n) == Solve(grammar, FALSE, n, [x \in DOMAIN grammar |-> {}])

(* The conversations: sequences of messages, with limited loops.           *)
Conversations(grammar, n) ==
    Solve(grammar, TRUE, n, [x \in DOMAIN grammar |-> {}])["start"]

=============================================================================
