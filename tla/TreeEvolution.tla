--------------------------- MODULE TreeEvolution ---------------------------
(***************************************************************************)
(* The derivation trees of a protocol session: the history tree, and the   *)
(* individuals that IoPopulationManager makes of it and a new packet, that *)
(* the evaluator hashes and looks into, and that mutation and crossover    *)
(* change, until one of them is the history.                               *)
(*                                                                         *)
(* Which individuals are solutions, and which subtrees fail, is left open. *)
(***************************************************************************)
EXTENDS DerivationTree

CONSTANTS
    Start,            \* the start symbol
    Rules,            \* Rules[A]: the right-hand sides of A, each a sequence
                      \* of [sym, from], from being None or a sender
    Mounts(_),        \* the forecast for the content of a history: records
                      \* [path, sym, from] of a hook-in path and a packet
    Ours,             \* the senders Fandango controls
    PopulationSize,
    MaxMessages,      \* bound: messages of a history
    Slices            \* the choices of the slices <A>[i:j] that constraints
                      \* take: sets of records [sym, first, last]

ASSUME TreeEvolutionAssumption ==
    /\ PopulationSize \in Nat \ {0}
    /\ MaxMessages \in Nat
    /\ \A s \in UNION Slices : s.first \in Nat \ {0} /\ s.last \in Nat
    /\ None \notin Ours

VARIABLES
    heap,          \* the nodes that are in use
    history,       \* history_tree, a root
    population,    \* the roots of the individuals
    slices         \* the slices that constraints take

vars == <<heap, history, population, slices>>

Roots == {history} \cup ToSet(population)

-----------------------------------------------------------------------------
(* Nodes that are not in use any more are forgotten, and the others are    *)
(* numbered from the left to the right.                                    *)

InUse(h, r, roots) ==
    LET all == FlattenSeq([k \in 1..Len(roots) + 1 |->
                              Preorder(h, IF k = 1 THEN r ELSE roots[k - 1])])
        adopters == {h[m].up : m \in ToSet(all)} \ (ToSet(all) \cup {None})
    IN all \o SetToSeq(adopters)

Keep(heapLeft, r, roots) ==
    \E h \in {heapLeft} : \E order \in {InUse(h, r, roots)} :
        LET number(m) == IF m = None THEN None
                         ELSE CHOOSE k \in DOMAIN order : order[k] = m
        IN /\ heap' = [k \in DOMAIN order |->
                          [h[order[k]] EXCEPT
                              !.up = number(@),
                              !.kids = [c \in DOMAIN @ |-> number(@[c])]]]
           /\ history' = number(r)
           /\ population' = [k \in DOMAIN roots |-> number(roots[k])]
           /\ UNCHANGED slices

-----------------------------------------------------------------------------
(* The trees that a symbol derives: NonTerminalNode.fuzz, which gives a    *)
(* sender to a message and to nothing inside it.                           *)

RECURSIVE Derived(_, _)
Derived(sym, from) ==
    {[sym |-> sym, from |-> from, ro |-> FALSE, kids |-> kids] :
        kids \in IF sym \notin DOMAIN Rules THEN {<<>>}
                 ELSE UNION {FoldLeft(LAMBDA lists, part :
                                         {Append(list, tree) : list \in lists,
                                              tree \in Derived(part.sym, part.from)},
                                      {<<>>}, rhs) : rhs \in Rules[sym]}}

Init ==
    /\ heap = <<Leaf(Start, None)>>
    /\ history = 1
    /\ population = <<>>
    /\ slices \in Slices

(* The tree of a mounting option, as the forecaster hands it out, and what *)
(* a packet makes of it.                                                   *)
Mounted(option, packet) ==
    AppendTree(SetAllReadOnly(Grow(heap, Shape(heap, history)), Fresh(heap)),
               Fresh(heap), option.path, packet)

Forecast(external) ==
    {option \in Mounts(Content(heap, history)) : external <=> option.from \notin Ours}

(* evaluate_individual asks for the hash of a tree, and the constraints    *)
(* look into it with their slices.                                         *)
Evaluated(h, root) ==
    LET asked == Hashed(h, root)
        wanted == {<<n, s>> \in Tree(h, root) \X slices : h[n].sym = s.sym}
    IN FoldLeft(LAMBDA g, w : SliceTree(g, w[1], w[2].first,
                                        Min({w[2].last, Len(g[w[1]].kids)})),
                asked, SetToSeq(wanted))

(* refill_population, _generate_population_entry.                          *)
PopulationEntry ==
    /\ Len(population) < PopulationSize
    /\ \E option \in Forecast(FALSE) : \E packet \in Derived(option.sym, option.from) :
          Keep(Evaluated(Mounted(option, packet), Fresh(heap)), history,
               Append(population, Fresh(heap)))

Evaluate ==
    \E k \in DOMAIN population :
        Keep(Evaluated(heap, population[k]), history, population)

(* The non-terminal nodes that are not read-only.                          *)
Mutable(root) ==
    {n \in Tree(heap, root) : heap[n].sym \in DOMAIN Rules /\ ~heap[n].ro}

(* SimpleMutation: the individual is evaluated, and one of them replaced   *)
(* by what its symbol derives.                                             *)
Mutate ==
    \E k \in DOMAIN population : \E n \in Mutable(population[k]) :
        \E new \in Derived(heap[n].sym, None) :
            \E h \in {Grow(Hashed(heap, population[k]), new)} :
                Keep(Replace(h, population[k], n, Fresh(heap)), history,
                     [population EXCEPT ![k] = Fresh(h)])

(* SimpleSubtreeCrossover: each child is one parent with a subtree of the  *)
(* other.  The children are evaluated, and take the place of the parents.  *)
Crossover ==
    /\ Len(population) >= 2
    /\ \E n1 \in Mutable(population[1]), n2 \in Mutable(population[2]) :
          /\ heap[n1].sym = heap[n2].sym
          /\ \E one \in {Replace(heap, population[1], n1, n2)} :
             \E two \in {Replace(one, population[2], n2, n1)} :
                Keep(Evaluated(Evaluated(two, Fresh(heap)), Fresh(one)), history,
                     [population EXCEPT ![1] = Fresh(heap), ![2] = Fresh(one)])

Messages(root) == ProtocolMsgs(heap, root)

(* _generate_io: a solution becomes the history, its last packet is sent.  *)
Transmit ==
    /\ Len(Messages(history)) < MaxMessages
    /\ \E k \in DOMAIN population :
          Keep(SetAllReadOnly(heap, population[k]), population[k], <<>>)

(* ... and a packet from an external party is hooked in; the set of paths  *)
(* has asked for the hash of the tree before.                              *)
Receive ==
    /\ Len(Messages(history)) < MaxMessages
    /\ \E option \in Forecast(TRUE) : \E packet \in Derived(option.sym, option.from) :
          LET copied == Hashed(Grow(heap, Shape(heap, history)), Fresh(heap))
              received == AppendTree(copied, Fresh(heap), option.path, packet)
          IN Keep(SetAllReadOnly(Hashed(received, Fresh(heap)), Fresh(heap)),
                  Fresh(heap), <<>>)

Next == PopulationEntry \/ Evaluate \/ Mutate \/ Crossover \/ Transmit \/ Receive

Spec == Init /\ [][Next]_vars

-----------------------------------------------------------------------------
(* Properties.                                                             *)

IsSlice(n) == heap[n].sym = Slice

ParentsOf(m) == {n \in DOMAIN heap : m \in ToSet(heap[n].kids)}

(* No two trees share a node, however one was made from the other, and     *)
(* each node but a root has the one parent that has it as a child, so that *)
(* what is changed below a node reaches its caches.  Only a slice becomes  *)
(* the parent of nodes that remain the children of another.                *)
TreesAreDisjoint ==
    /\ \A m \in DOMAIN heap :
          /\ Cardinality({n \in ParentsOf(m) : ~IsSlice(n)})
                = IF m \in Roots \/ IsSlice(m) THEN 0 ELSE 1
          /\ heap[m].up \in IF ParentsOf(m) = {} THEN {None} ELSE ParentsOf(m)
    /\ \A n \in DOMAIN heap : IsInjective(heap[n].kids)

(* A cached hash is the hash of what is below the node now, and so is the  *)
(* size: the evaluator never takes an individual for another.              *)
CachesFresh ==
    \A n \in DOMAIN heap :
        /\ heap[n].cache \in {None, Content(heap, n)}
        /\ heap[n].size = Cardinality(Tree(heap, n))

(* No evolution changes what has been exchanged: the read-only part of     *)
(* each individual is the history.                                         *)
Exchanged(root) ==
    LET kept[n \in Tree(heap, root)] ==
            [sym |-> heap[n].sym, from |-> heap[n].from,
             kids |-> LET k == SelectSeq(heap[n].kids, LAMBDA c : heap[c].ro)
                      IN [i \in DOMAIN k |-> kept[k[i]]]]
    IN kept[root]

HistoryKept ==
    \A k \in DOMAIN population :
        Exchanged(population[k]) = Content(heap, history)

(* "Replace the subtree rooted at the given node with the new subtree":    *)
(* replacing any node that evolution may choose changes that node and      *)
(* nothing else, also when nodes are equal; unless a slice has been taken  *)
(* of the nodes above it, or of itself, which then are in the slice's tree.*)
RECURSIVE With(_, _, _)
With(m, n, content) ==
    IF m = n THEN content
    ELSE [sym |-> heap[m].sym, from |-> heap[m].from,
          kids |-> [k \in DOMAIN heap[m].kids |-> With(heap[m].kids[k], n, content)]]

ReplacesGivenNode ==
    \A k \in DOMAIN population :
        \A n \in {m \in Mutable(population[k]) : GetPath(heap, m)[1] = population[k]} :
        \A new \in Derived(heap[n].sym, None) :
            LET h == Grow(heap, new)
            IN Content(Replace(h, population[k], n, Fresh(heap)), Fresh(h))
                   = With(population[k], n, Content(h, Fresh(heap)))

=============================================================================
