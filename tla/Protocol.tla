------------------------------ MODULE Protocol ------------------------------
(***************************************************************************)
(* What Fandango is given for a protocol session: the parties with their   *)
(* ownership (FandangoParty), the grammar seen as the set of conversations *)
(* it derives, and the constraints seen as the fitness of a conversation.  *)
(*                                                                         *)
(* A message nonterminal is known by the words it derives; a word is a     *)
(* sequence of atoms, an atom standing for an indivisible run of bytes, so *)
(* that a message may arrive cut into fragments.                           *)
(***************************************************************************)
EXTENDS Naturals, Sequences, SequencesExt

CONSTANTS
    FuzzerParties,    \* parties with Ownership.FANDANGO_PARTY
    ExternalParties,  \* parties with Ownership.EXTERNAL_PARTY
    NoParty,          \* the recipient of a packet whose grammar node has none
    NonTerminals,     \* message-defining nonterminals of the grammar
    Atoms,            \* indivisible pieces of message content
    Words,            \* Words[nt]: the complete messages nt derives
    Viable,           \* Viable[nt]: inputs after which nt's parser can continue
    Underivable,      \* Underivable[nt]: messages whose sources fail to parse
    Language,         \* the conversations <start> derives, as packet sequences
    Predicted(_),     \* what PacketForecaster predicts after the beginning of one
    Evolved(_, _),    \* what evolution may make of a packet mounted after one
    Fitness(_)        \* fitness of a conversation in percent

Parties == FuzzerParties \cup ExternalParties

Packets == [sender : Parties, recipient : Parties \cup {NoParty},
            nt : NonTerminals]

(* A node of the history tree: a packet and the message exchanged for it.  *)
Entries == [sender : Parties, recipient : Parties \cup {NoParty},
            nt : NonTerminals, word : Seq(Atoms)]

(* A message node that the evolution regenerates by itself, and its entry: *)
(* it has neither sender nor recipient, and protocol_msgs() passes it over. *)
LostPackets == [sender : {NoParty}, recipient : {NoParty}, nt : NonTerminals]

LostEntries == [sender : {NoParty}, recipient : {NoParty},
                nt : NonTerminals, word : Seq(Atoms)]

(* What Fandango sends has to reach expected_fitness=1.0; what it receives *)
(* is rejected "if fitness < 0.99" (_generate_io).                         *)
Solves(log) == Fitness(log) \in 100..100

Accepted(log) == Fitness(log) \in 99..100

ASSUME PartyAssumption ==
    /\ FuzzerParties \cap ExternalParties = {}
    /\ NoParty \notin Parties

ASSUME GrammarAssumption ==
    /\ Words \in [NonTerminals -> SUBSET Seq(Atoms)]
    /\ Viable \in [NonTerminals -> SUBSET Seq(Atoms)]
    /\ Underivable \in [NonTerminals -> SUBSET Seq(Atoms)]

ASSUME LanguageAssumption ==
    /\ Language \subseteq Seq(Packets)
    /\ Language # {}

(* A parser that has read a proper prefix of a message can continue.  It   *)
(* may also do so after a complete message, when its last column still     *)
(* holds a state whose remaining symbols are nullable.                     *)
ASSUME ViableAssumption ==
    \A nt \in NonTerminals : \A w \in Words[nt] : \A k \in 0..(Len(w) - 1) :
        SubSeq(w, 1, k) \in Viable[nt]

-----------------------------------------------------------------------------

PacketOf(e) == [sender |-> e.sender, recipient |-> e.recipient, nt |-> e.nt]

Message(p, w) == [sender |-> p.sender, recipient |-> p.recipient,
                  nt |-> p.nt, word |-> w]

PacketsOf(log) == [i \in DOMAIN log |-> PacketOf(log[i])]

Sends(p) == p.sender \in FuzzerParties

(* A packet travels when its recipient is not played by Fandango itself.   *)
Travels(p) == p.recipient \notin FuzzerParties

(* The beginnings of the conversations, and the packets with which some    *)
(* conversation goes on from one.                                          *)
Beginnings == UNION {{SubSeq(c, 1, k) : k \in 0..Len(c)} : c \in Language}

Continuations(packets) ==
    {c[Len(packets) + 1] : c \in {c \in Language : IsStrictPrefix(packets, c)}}

(* The forecast misses nothing, but may offer more: in the middle of an    *)
(* iteration, what follows the loop (Iterate of Forecaster, where this is  *)
(* checked).                                                               *)
ASSUME ForecastAssumption ==
    \A b \in Beginnings : /\ Predicted(b) \subseteq Packets
                          /\ Continuations(b) \subseteq Predicted(b)

(* A history that has left the grammar has no incomplete parse to predict  *)
(* from.                                                                   *)
Forecast(packets) == IF packets \in Beginnings THEN Predicted(packets) ELSE {}

(* A mutation may regenerate the nodes above a message, with all messages  *)
(* below them, and message nodes by themselves: what is then said after    *)
(* the history, and which message nodes have lost their senders.           *)
ASSUME EvolvedAssumption ==
    \A b \in Beginnings : \A p \in Packets :
        Evolved(b, p) \subseteq [said : Seq(Packets), lost : Seq(LostPackets)]

(* The messages that packets may stand for.                                *)
Texts(packets) ==
    {[i \in DOMAIN packets |-> Message(packets[i], words[i])] :
        words \in {f \in [DOMAIN packets ->
                            UNION {Words[packets[i].nt] : i \in DOMAIN packets}] :
                     \A i \in DOMAIN packets : f[i] \in Words[packets[i].nt]}}

(* What a step adds to a history: the packet as it is mounted, or what the *)
(* evolution of one of Fandango's own has made of it.                      *)
Nothing == [said |-> <<>>, lost |-> <<>>]

Fresh(p) == {[said |-> <<Message(p, w)>>, lost |-> <<>>] : w \in Words[p.nt]}

Reworked(packets, p) ==
    UNION {{[said |-> s, lost |-> l] : s \in Texts(e.said), l \in Texts(e.lost)} :
              e \in Evolved(packets, p)}

Additions(packets, p) ==
    Fresh(p) \cup IF Sends(p) THEN Reworked(packets, p) ELSE {}

(* Where the forecast offers only what the grammar allows; and where       *)
(* evolution replaces Fandango's message by another one of the forecast.   *)
ForecastsExactly == \A b \in Beginnings : Predicted(b) \subseteq Continuations(b)

MessagesStay ==
    \A b \in Beginnings : \A p \in Forecast(b) : Sends(p) =>
        \A e \in Evolved(b, p) :
            /\ e.lost = <<>>
            /\ \E q \in Forecast(b) : Sends(q) /\ e.said = <<q>>

=============================================================================
