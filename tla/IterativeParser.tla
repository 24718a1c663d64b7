--------------------------- MODULE IterativeParser ---------------------------
(***************************************************************************)
(* The Earley parser of Fandango, which is fed fragment by fragment.  A    *)
(* column stands for the eight columns the code keeps for a character      *)
(* (bits, regular expressions and computed bounds are left out).           *)
(*                                                                         *)
(* Each node of the grammar has a symbol of its own, and so has each       *)
(* auxiliary rule; both appear in the trees until these are collapsed.     *)
(***************************************************************************)
EXTENDS Grammars

Nonterminal(name) == <<"nonterminal", name>>
Terminal(word) == <<"terminal", word>>
ControlFlow(node) == <<"controlflow", node.id, node.kind>>
Implicit(node, n) == <<"implicit", node.id, n>>
ImplicitStart == <<"implicit", 0, 0>>

IsTerminal(symbol) == symbol[1] = "terminal"

(* Symbols with their parameters, and trees.                               *)
Item(symbol) == [symbol |-> symbol, sender |-> None, recipient |-> None]

Tree(item, kids) == [symbol |-> item.symbol, sender |-> item.sender,
                     recipient |-> item.recipient, kids |-> kids]

(* What the visitors of the parser return for a node within another.       *)
ItemOf(node) ==
    CASE node.kind = "word" -> Item(Terminal(node.word))
      [] node.kind = "nt" -> [symbol |-> Nonterminal(node.name),
                              sender |-> node.sender, recipient |-> node.recipient]
      [] OTHER -> Item(ControlFlow(node))

Items(nodes) == [k \in DOMAIN nodes |-> ItemOf(nodes[k])]

Times(item, k) == [j \in 1..k |-> item]

(* The rules of the symbols of a node: symbol and alternatives.            *)
RepetitionRules(node) ==
    LET once == Item(Implicit(node, 0))
        chain(k) == Item(Implicit(node, k))
        length == node.max - node.min
        all == Times(once, node.min)
    IN  {<<Implicit(node, 0), {<<ItemOf(node.node)>>}>>,
         <<Implicit(node, length + 1),
           {all} \cup IF length > 0 THEN {Append(all, chain(length))} ELSE {}>>,
         <<ControlFlow(node), {<<Item(Implicit(node, length + 1))>>}>>}
        \cup {<<Implicit(node, k),
                {<<once>>} \cup IF k > 1 THEN {<<once, chain(k - 1)>>} ELSE {}>> :
                 k \in 1..length}

NodeRules(node) ==
    LET body == ItemOf(node.node)
        again == Item(Implicit(node, 0))
    IN  CASE node.kind = "concatenation" ->
               {<<ControlFlow(node), {Items(node.nodes)}>>}
          [] node.kind = "alternative" ->
               {<<ControlFlow(node), {<<ItemOf(c)>> : c \in Children(node)}>>}
          [] node.kind = "option" -> {<<ControlFlow(node), {<<>>, <<body>>}>>}
          [] node.kind = "star" ->
               {<<ControlFlow(node), {<<again>>}>>,
                <<Implicit(node, 0), {<<>>, <<body, again>>}>>}
          [] node.kind = "plus" ->
               {<<ControlFlow(node), {<<again>>}>>,
                <<Implicit(node, 0), {<<body>>, <<body, again>>}>>}
          [] node.kind = "repetition" -> RepetitionRules(node)
          [] OTHER -> {}

(* The rules as a function of the symbol.                                  *)
Compile(grammar) ==
    LET pairs == UNION {NodeRules(n) : n \in AllNodes(grammar)}
                 \cup {<<Nonterminal(x), {<<ItemOf(grammar[x])>>}>> :
                          x \in DOMAIN grammar}
    IN  [s \in {p[1] : p \in pairs} |-> UNION {p[2] : p \in {q \in pairs : q[1] = s}}]

-----------------------------------------------------------------------------
(* States and columns.  The rule of a state is a sequence of items.        *)

State(symbol, position, rule) ==
    [symbol |-> symbol, position |-> position, rule |-> rule, dot |-> 1,
     kids |-> <<>>, matched |-> 0]

(* matched is incomplete_idx: how much of a terminal has been read.        *)
IsIncomplete(s) == s.matched > 0

AtEnd(s) == s.dot > Len(s.rule)

Finished(s) == AtEnd(s) /\ ~IsIncomplete(s)

Dot(s) == s.rule[s.dot].symbol

Expects(s, symbol) == ~AtEnd(s) /\ Dot(s) = symbol

(* A column holds a state once, however much of a terminal it has read.    *)
Add(column, s) ==
    IF \E k \in DOMAIN column : [column[k] EXCEPT !.matched = s.matched] = s
    THEN column ELSE Append(column, s)

AddAll(column, states) == FoldLeft(Add, column, states)

FindDot(column, symbol) == SelectSeq(column, LAMBDA s : Expects(s, symbol))

Advance(s, kids) == [s EXCEPT !.dot = @ + 1, !.kids = @ \o kids, !.matched = 0]

(* Python iterates over a set of rules: shorter rules come first, or last. *)
InOrder(rules, longFirst) ==
    SetToSortSeq(rules, LAMBDA r, q : IF longFirst THEN Len(r) > Len(q)
                                                   ELSE Len(r) < Len(q))

Predict(parser, table, k, s) ==
    LET new == InOrder(parser.rules[Dot(s)], Dot(s) \in parser.longFirst)
    IN  [table EXCEPT ![k] =
           AddAll(@, [j \in DOMAIN new |-> State(Dot(s), k, new[j])])]

(* Mutant: the part of a terminal that was read before stays a child.      *)
ScanAgain(table, k, s, rest) ==
    LET word == Dot(s)[2]
        read == SubSeq(word, 1, s.matched) \o rest
        leaf(w) == Tree(Item(Terminal(w)), <<>>)
        kids == IF IsIncomplete(s) THEN Front(s.kids) ELSE s.kids
        n == Len(word)
    IN  IF IsPrefix(word, read)
        THEN [table EXCEPT ![k + n - s.matched] =
                Add(@, Advance(s, <<leaf(word)>>))]
        ELSE IF read # <<>> /\ IsPrefix(read, word)
        THEN [table EXCEPT ![k + Len(rest)] =
                Add(@, [s EXCEPT !.kids = Append(kids, leaf(read)),
                                 !.matched = Len(read)])]
        ELSE table

(* scan_bytes: the whole terminal, or its beginning at the end of a word.  *)
Scan(table, k, s, rest) ==
    LET word == Dot(s)[2]
        read == SubSeq(word, 1, s.matched) \o rest
        leaf(w) == Tree(Item(Terminal(w)), <<>>)
        kids == IF IsIncomplete(s) THEN Front(s.kids) ELSE s.kids
        n == Len(word)
    IN  IF IsPrefix(word, read)
        THEN [table EXCEPT ![k + n - s.matched] =
                Add(@, Advance([s EXCEPT !.kids = kids], <<leaf(word)>>))]
        ELSE IF read # <<>> /\ IsPrefix(read, word)
        THEN [table EXCEPT ![k + Len(rest)] =
                Add(@, [s EXCEPT !.kids = Append(kids, leaf(read)),
                                 !.matched = Len(read)])]
        ELSE table

(* What a completed state gives to those that waited for it.               *)
Completed(s, waiting) ==
    Advance(waiting,
            IF s.symbol[1] = "implicit" THEN s.kids
            ELSE <<Tree(waiting.rule[waiting.dot], s.kids)>>)

(* The list of waiting states may grow while it is walked.                 *)
RECURSIVE CompleteFrom(_, _, _, _)
CompleteFrom(table, k, s, j) ==
    LET waiting == FindDot(table[s.position], s.symbol)
    IN  IF j > Len(waiting) THEN table
        ELSE CompleteFrom([table EXCEPT ![k] = Add(@, Completed(s, waiting[j]))],
                          k, s, j + 1)

Complete(table, k, s) == CompleteFrom(table, k, s, 1)

(* The two loops of _consume over the states of a column, which grows.     *)
Step(parser, table, k, s, rest) ==
    IF Finished(s) THEN Complete(table, k, s)
    ELSE IF ~IsIncomplete(s) /\ ~IsTerminal(Dot(s)) THEN Predict(parser, table, k, s)
    ELSE Scan(table, k, s, rest)

RECURSIVE Walk(_, _, _, _, _)
Walk(parser, table, k, rest, j) ==
    IF j > Len(table[k]) THEN table
    ELSE Walk(parser, Step(parser, table, k, table[k][j], rest), k, rest, j + 1)

HasKids(s) == s.kids # <<>>

Wanted(s, incomplete) == IF incomplete THEN HasKids(s) ELSE Finished(s)

RECURSIVE CompleteAll(_, _, _, _)
CompleteAll(table, k, incomplete, j) ==
    IF j > Len(table[k]) THEN table
    ELSE CompleteAll(IF Wanted(table[k][j], incomplete)
                     THEN Complete(table, k, table[k][j]) ELSE table,
                     k, incomplete, j + 1)

(* place_repetition_shortcut: an unfinished right-recursive loop takes the *)
(* children of the loop around it, up to the node the loop began in.       *)
IsUnbounded(symbol) == symbol[1] = "controlflow" /\ symbol[3] \in {"plus", "star"}

RECURSIVE Extended(_, _)
Extended(table, s) ==
    LET origins == FindDot(table[s.position], Dot(s)) IN
    IF Len(origins) # 1 THEN {}
    ELSE IF IsUnbounded(origins[1].symbol) THEN {s}
    ELSE Extended(table, [s EXCEPT !.position = origins[1].position,
                                   !.kids = origins[1].kids \o @, !.matched = 0])

Shortened(table, k, symbol) ==
    LET J == {j \in DOMAIN table[k] : /\ table[k][j].symbol = symbol
                                      /\ Len(table[k][j].rule) = 2
                                      /\ Expects(table[k][j], symbol)}
        new == IF J = {} THEN {} ELSE Extended(table, table[k][Min(J)])
    IN  IF new = {} THEN table
        ELSE [table EXCEPT ![k][Min(J)] = CHOOSE s \in new : TRUE]

PlaceShortcuts(table, k) ==
    LET loops == SelectSeq(table[k], LAMBDA s : IsUnbounded(s.symbol))
    IN  FoldLeft(LAMBDA t, symbol : Shortened(t, k, symbol), table,
                 SetToSeq({loops[j].rule[1].symbol : j \in DOMAIN loops}))

(* A parse begins with one column; incomplete says whether trees of        *)
(* unfinished input are wanted.                                            *)
NewParse(start) == << <<State(ImplicitStart, 1, <<Item(Nonterminal(start))>>)>> >>

RECURSIVE Columns(_, _, _, _)
Columns(parser, table, k, rest) ==
    LET walked == Walk(parser, table, k, rest, 1)
    IN  IF rest # <<>>
        THEN Columns(parser, PlaceShortcuts(walked, k), k + 1, Tail(rest))
        ELSE [saved |-> table,
              last |-> IF parser.incomplete THEN CompleteAll(walked, k, TRUE, 1)[k]
                                            ELSE walked[k]]

(* The table that is kept has the last column as it was before it was      *)
(* walked: the next fragment begins there.                                 *)
Consume(parser, table, fragment) ==
    LET end == Columns(parser, table \o [j \in DOMAIN fragment |-> <<>>],
                       Len(table), fragment)
        roots == SelectSeq(end.last, LAMBDA s :
                    s.symbol = ImplicitStart /\ Wanted(s, parser.incomplete))
    IN  [table |-> end.saved,
         trees |-> [j \in DOMAIN roots |-> roots[j].kids[1]]]

(* Mutant: what has just been read is not completed first.                *)
CanContinueAsScanned(table) ==
    Len(table) = 1 \/ \E s \in ToSet(Last(table)) : ~Finished(s)

CanContinue(table) ==
    Len(table) = 1 \/
    \E s \in ToSet(Last(CompleteAll(table, Len(table), FALSE, 1))) : ~Finished(s)

(* Trees without the symbols of control flow.                              *)
RECURSIVE Collapsed(_)
Collapsed(tree) ==
    LET kids == FoldLeft(LAMBDA ks, kid : ks \o Collapsed(kid), <<>>, tree.kids)
    IN  IF tree.symbol[1] = "controlflow" THEN kids
        ELSE <<[tree EXCEPT !.kids = kids]>>

Collapse(tree) == Collapsed(tree)[1]

=============================================================================
