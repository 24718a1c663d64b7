------------------------------ MODULE Exchange ------------------------------
(***************************************************************************)
(* Conversations message by message: PacketForecaster says what may come   *)
(* next, the iterative parser reads it fragment by fragment, and the       *)
(* message is mounted where the forecast says.  Who speaks, the buffer and *)
(* the time are those of ProtocolSession.                                  *)
(***************************************************************************)
EXTENDS Forecaster

CONSTANTS
    Grammars,       \* the grammars to converse with, by name
    LongFirst,      \* the choices of the symbols whose longer rules come first
    Fragments,      \* the pieces a message may arrive in
    MaxMessages,    \* bounds the messages of a conversation
    MaxLength,      \* bounds the length of a message
    Slack           \* by how much words and conversations may be longer

VARIABLES
    protocol,     \* the name of the grammar
    longFirst,    \* in which order the parsers iterate over their rules
    tree,         \* history_tree
    forecast,     \* the options for the next message
    packet,       \* <<the option being received>>, or <<>>
    table,        \* the columns of its parser
    input,        \* what has arrived of it: a history variable
    trees,        \* the parses of what has arrived
    best          \* <<the last complete parse>>, or <<>>

packetVars == <<packet, table, input, trees, best>>

vars == <<protocol, longFirst, tree, forecast, packetVars>>

Compiled == [g \in DOMAIN Grammars |-> Compile(Grammars[g])]

CompiledReduced == [g \in DOMAIN Grammars |-> Compile(Reduced(Grammars[g]))]

Parser(rules, incomplete) ==
    [rules |-> rules, longFirst |-> longFirst, incomplete |-> incomplete]

ForecastFor(t) ==
    Forecast(Grammars[protocol], Parser(CompiledReduced[protocol], TRUE), t)

Idle == packet' = <<>> /\ table' = <<>> /\ input' = <<>> /\ trees' = <<>> /\ best' = <<>>

Init ==
    /\ protocol \in DOMAIN Grammars
    /\ longFirst \in LongFirst
    /\ tree = Tree(ItemOf(Ref("start")), <<>>)
    /\ forecast = ForecastFor(tree)
    /\ packet = <<>> /\ table = <<>> /\ input = <<>> /\ trees = <<>> /\ best = <<>>

(* parse_next_remote_packet makes a parser for a forecast nonterminal.     *)
Expect ==
    /\ packet = <<>>
    /\ Len(Messages(tree)) < MaxMessages
    /\ \E option \in forecast :
          /\ packet' = <<option>>
          /\ table' = NewParse(option.message.name)
    /\ UNCHANGED <<protocol, longFirst, tree, forecast, input, trees, best>>

(* The parser is fed while it can continue; the last complete parse is     *)
(* remembered.                                                             *)
Feed ==
    /\ packet # <<>>
    /\ CanContinue(table)
    /\ \E fragment \in Fragments :
          /\ Len(input) + Len(fragment) <= MaxLength
          /\ input' = input \o fragment
          /\ \E fed \in {Consume(Parser(Compiled[protocol], FALSE), table, fragment)} :
                /\ table' = fed.table
                /\ trees' = fed.trees
                /\ best' = IF fed.trees = <<>> THEN best
                           ELSE <<Collapse(fed.trees[1])>>
    /\ UNCHANGED <<protocol, longFirst, tree, forecast, packet>>

SamePacket(m, n) == m.name = n.name /\ m.sender = n.sender

(* The message ends, by itself or by time, and is mounted at one of the    *)
(* paths of its packet.                                                    *)
Deliver ==
    /\ best # <<>>
    /\ \E option \in forecast :
          /\ SamePacket(option.message, packet[1].message)
          /\ tree' = Mount(option.tree, option.path,
                           [best[1] EXCEPT !.sender = packet[1].message.sender,
                                           !.recipient = packet[1].message.recipient])
    /\ forecast' = ForecastFor(tree')
    /\ Idle
    /\ UNCHANGED <<protocol, longFirst>>

Next == Expect \/ Feed \/ Deliver

Spec == Init /\ [][Next]_vars

-----------------------------------------------------------------------------
(* Properties.                                                             *)

WordsOf == [g \in DOMAIN Grammars |-> WordsUpTo(Grammars[g], MaxLength + Slack)]

ConversationsOf ==
    [g \in DOMAIN Grammars |-> Conversations(Grammars[g], MaxMessages + Slack)]

Begins(v, L) == \E w \in L : IsPrefix(v, w)

(* The children a nonterminal may have.                                    *)
FamiliesOf ==
    [g \in DOMAIN Grammars |-> [x \in DOMAIN Grammars[g] |->
        LanguageOf(Grammars[g][x], [m \in Leaves(Grammars[g]) |-> {<<ItemOf(m)>>}],
                   FALSE, MaxLength + MaxMessages)]]

AsItems(kids) == [j \in DOMAIN kids |->
    [symbol |-> kids[j].symbol, sender |-> kids[j].sender,
     recipient |-> kids[j].recipient]]

RECURSIVE IsDerivation(_), Yield(_), IsPartial(_)
IsDerivation(t) ==
    IsTerminal(t.symbol) \/
    /\ AsItems(t.kids) \in FamiliesOf[protocol][t.symbol[2]]
    /\ \A k \in ToSet(t.kids) : IsDerivation(k)

Yield(t) == IF IsTerminal(t.symbol) THEN t.symbol[2]
            ELSE FoldLeft(LAMBDA w, kid : w \o Yield(kid), <<>>, t.kids)

IsPartial(t) ==
    \/ IsDerivation(t)
    \/ /\ Begins(AsItems(t.kids), FamiliesOf[protocol][t.symbol[2]])
       /\ \A k \in ToSet(Front(t.kids)) : IsDerivation(k)
       /\ t.kids # <<>> => IsPartial(Last(t.kids))

(* The parses of what has arrived, in whatever fragments it did, are       *)
(* derivations of it, and there are some iff it is a word of the message.  *)
ParsesLanguage ==
    packet # <<>> /\ input # <<>> =>
        /\ \A t \in ToSet(trees) : LET c == Collapse(t) IN
              IsDerivation(c) /\ Yield(c) = input
        /\ trees # <<>> <=> input \in WordsOf[protocol][packet[1].message.name]

(* can_continue() holds iff some word is longer than what has arrived, so  *)
(* that no fragment is awaited in vain, and none is left behind.           *)
ContinuesIffLonger ==
    packet # <<>> /\ input # <<>> =>
        (CanContinue(table) <=>
            \E w \in WordsOf[protocol][packet[1].message.name] :
               IsStrictPrefix(input, w))

History == [j \in DOMAIN Messages(tree) |->
              LET m == Messages(tree)[j] IN Message(m.symbol[2], m.sender, m.recipient)]

Allowed ==
    LET n == Len(History)
    IN  {c[n + 1] : c \in {d \in ConversationsOf[protocol] :
                             Len(d) > n /\ IsPrefix(History, d)}}

(* "Predicts the next possible message types based on the provided tree    *)
(* and the grammar": only messages with which the grammar can go on.       *)
ForecastSound ==
    \A option \in forecast : \E m \in Allowed : SamePacket(m, option.message)

(* A loop or option over single messages has no iteration that is half     *)
(* done.                                                                   *)
LoopsAreSingle ==
    \A node \in AllNodes(Reduced(Grammars[protocol])) :
        IsLoop(node) => IsMessage(node.node)

(* All messages with which the protocol can go on are forecast, and, unless *)
(* a loop has iterations of several messages, no others.                   *)
ForecastExact ==
    /\ \A m \in Allowed : \E option \in forecast : SamePacket(m, option.message)
    /\ LoopsAreSingle => ForecastSound

(* Mounting a message at any of its paths appends it to the history and    *)
(* changes nothing else of it; while the history begins a conversation,    *)
(* the tree begins a derivation, on which constraints can be evaluated.    *)
MountsNext ==
    [][tree' # tree =>
          /\ Front(Messages(tree')) = Messages(tree)
          /\ Begins(History', ConversationsOf[protocol]) => IsPartial(tree')]_vars

=============================================================================
