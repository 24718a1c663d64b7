--------------------------- MODULE Protocol_proofs ---------------------------
(***************************************************************************)
(* What follows from the definitions of a forecast and of what is added to *)
(* a history, for every grammar.                                           *)
(***************************************************************************)
EXTENDS Protocol, SequenceTheorems, TLAPS

(* The packets of a log are a packet sequence, and grow with it.           *)
LEMMA PacketsOfType ==
    ASSUME NEW log \in Seq(Entries)
    PROVE  /\ PacketsOf(log) \in Seq(Packets)
           /\ Len(PacketsOf(log)) = Len(log)
<1>1. ASSUME NEW i \in 1..Len(log) PROVE PacketOf(log[i]) \in Packets
    <2>1. log[i] \in Entries
        OBVIOUS
    <2> QED
        BY <2>1 DEF PacketOf, Packets, Entries
<1>2. PacketsOf(log) \in [1..Len(log) -> Packets]
    BY <1>1 DEF PacketsOf
<1> QED
    BY <1>2, SeqDef

(* Exchanging a message adds its packet.                                   *)
LEMMA PacketsOfAppend ==
    ASSUME NEW log \in Seq(Entries), NEW e \in Entries
    PROVE  PacketsOf(Append(log, e)) = Append(PacketsOf(log), PacketOf(e))
<1> DEFINE longer == Append(log, e)
<1>1. PacketOf(e) \in Packets
    BY DEF PacketOf, Packets, Entries
<1>2. longer \in Seq(Entries) /\ Len(longer) = Len(log) + 1
    OBVIOUS
<1>3. /\ PacketsOf(longer) \in Seq(Packets)
      /\ PacketsOf(log) \in Seq(Packets)
      /\ Len(PacketsOf(longer)) = Len(log) + 1
      /\ Len(PacketsOf(log)) = Len(log)
    BY <1>2, PacketsOfType
<1>4. ASSUME NEW i \in 1..(Len(log) + 1)
      PROVE  PacketsOf(longer)[i] = Append(PacketsOf(log), PacketOf(e))[i]
    <2>1. PacketsOf(longer)[i] = PacketOf(longer[i])
        BY <1>2 DEF PacketsOf
    <2>2. CASE i = Len(log) + 1
        BY <2>1, <2>2, <1>1, <1>3
    <2>3. CASE i # Len(log) + 1
        <3>1. i \in 1..Len(log) /\ longer[i] = log[i]
            BY <2>3
        <3>2. PacketsOf(log)[i] = PacketOf(log[i])
            BY <3>1 DEF PacketsOf
        <3> QED
            BY <2>1, <3>1, <3>2, <1>1, <1>3
    <2> QED
        BY <2>2, <2>3
<1>5. /\ Append(PacketsOf(log), PacketOf(e)) \in Seq(Packets)
      /\ Len(Append(PacketsOf(log), PacketOf(e))) = Len(log) + 1
    BY <1>1, <1>3
<1>6. \A i \in 1..Len(PacketsOf(longer)) :
         PacketsOf(longer)[i] = Append(PacketsOf(log), PacketOf(e))[i]
    BY <1>3, <1>4
<1> HIDE DEF longer
<1>7. PacketsOf(longer) = Append(PacketsOf(log), PacketOf(e))
    BY <1>1, <1>3, <1>5, <1>6, SeqEqual
<1> QED
    BY <1>7 DEF longer

(* A word of a packet's nonterminal makes it an entry of the history.      *)
LEMMA MessageType ==
    ASSUME NEW p \in Packets, NEW w \in Seq(Atoms)
    PROVE  Message(p, w) \in Entries /\ PacketOf(Message(p, w)) = p
    BY DEF Message, PacketOf, Entries, Packets

-----------------------------------------------------------------------------

(* A conversation that strictly continues a beginning is longer, and its   *)
(* next packet is forecast.                                                *)
LEMMA StrictPrefixIsShorter ==
    ASSUME NEW S, NEW s \in Seq(S), NEW t \in Seq(S), IsStrictPrefix(s, t)
    PROVE  Len(s) < Len(t) /\ \A i \in 1..Len(s) : s[i] = t[i]
<1>1. Len(s) <= Len(t) /\ SubSeq(s, 1, Len(s)) = SubSeq(t, 1, Len(s)) /\ s # t
    BY DEF IsStrictPrefix, IsPrefix
<1>2. \A i \in 1..Len(s) : s[i] = t[i]
    <2> TAKE i \in 1..Len(s)
    <2>1. SubSeq(s, 1, Len(s))[i] = s[i] /\ SubSeq(t, 1, Len(s))[i] = t[i]
        BY <1>1
    <2> QED
        BY <1>1, <2>1
<1>3. Len(s) # Len(t)
    <2>1. SUFFICES ASSUME Len(s) = Len(t) PROVE FALSE
        OBVIOUS
    <2>2. s = t
        BY <1>2, <2>1, SeqEqual
    <2> QED
        BY <1>1, <2>2
<1> QED
    BY <1>1, <1>2, <1>3

(* A prefix is what agrees with the beginning, element by element.         *)
LEMMA PrefixByElements ==
    ASSUME NEW S, NEW s \in Seq(S), NEW t \in Seq(S), Len(s) <= Len(t),
           \A i \in 1..Len(s) : s[i] = t[i]
    PROVE  IsPrefix(s, t)
<1>1. /\ SubSeq(s, 1, Len(s)) \in Seq(S)
      /\ SubSeq(t, 1, Len(s)) \in Seq(S)
      /\ Len(SubSeq(s, 1, Len(s))) = Len(s)
      /\ Len(SubSeq(t, 1, Len(s))) = Len(s)
    OBVIOUS
<1>2. \A i \in 1..Len(s) :
        SubSeq(s, 1, Len(s))[i] = s[i] /\ SubSeq(t, 1, Len(s))[i] = t[i]
    OBVIOUS
<1>3. SubSeq(s, 1, Len(s)) = SubSeq(t, 1, Len(s))
    BY <1>1, <1>2, SeqEqual
<1> QED
    BY <1>3 DEF IsPrefix

(* The beginnings of conversations are their prefixes.                     *)
LEMMA BeginningIsPrefix ==
    ASSUME NEW b
    PROVE  b \in Beginnings <=>
               b \in Seq(Packets) /\ \E c \in Language : IsPrefix(b, c)
<1>1. ASSUME b \in Beginnings
      PROVE  b \in Seq(Packets) /\ \E c \in Language : IsPrefix(b, c)
    <2>1. PICK c \in Language : \E k \in 0..Len(c) : b = SubSeq(c, 1, k)
        BY <1>1 DEF Beginnings
    <2>2. PICK k \in 0..Len(c) : b = SubSeq(c, 1, k)
        BY <2>1
    <2>3. c \in Seq(Packets)
        BY LanguageAssumption
    <2>4. /\ b \in Seq(Packets) /\ Len(b) = k
          /\ \A i \in 1..k : b[i] = c[i]
        BY <2>2, <2>3
    <2>5. Len(b) <= Len(c) /\ \A i \in 1..Len(b) : b[i] = c[i]
        BY <2>2, <2>3, <2>4
    <2> QED
        BY <2>1, <2>3, <2>4, <2>5, PrefixByElements
<1>2. ASSUME b \in Seq(Packets), NEW c \in Language, IsPrefix(b, c)
      PROVE  b \in Beginnings
    <2>1. c \in Seq(Packets)
        BY LanguageAssumption
    <2>2. Len(b) <= Len(c) /\ SubSeq(b, 1, Len(b)) = SubSeq(c, 1, Len(b))
        BY <1>2 DEF IsPrefix
    <2>3. b = SubSeq(b, 1, Len(b))
        BY <1>2
    <2>4. Len(b) \in 0..Len(c) /\ b = SubSeq(c, 1, Len(b))
        BY <1>2, <2>1, <2>2, <2>3
    <2>5. b \in {SubSeq(c, 1, k) : k \in 0..Len(c)}
        BY <2>4
    <2> QED
        BY <2>5 DEF Beginnings
<1> QED
    BY <1>1, <1>2

(* A packet with which a conversation goes on lengthens its beginning.     *)
LEMMA ContinuationSound ==
    ASSUME NEW packets \in Seq(Packets), NEW p \in Continuations(packets)
    PROVE  /\ p \in Packets
           /\ Append(packets, p) \in Beginnings
           /\ \E c \in Language : IsPrefix(Append(packets, p), c)
<1>1. PICK c \in Language : IsStrictPrefix(packets, c) /\ p = c[Len(packets) + 1]
    BY DEF Continuations
<1>2. c \in Seq(Packets)
    BY LanguageAssumption
<1>3. Len(packets) < Len(c) /\ \A i \in 1..Len(packets) : packets[i] = c[i]
    BY <1>1, <1>2, StrictPrefixIsShorter
<1>4. p \in Packets
    BY <1>1, <1>2, <1>3
<1>5. /\ Append(packets, p) \in Seq(Packets)
      /\ Len(Append(packets, p)) <= Len(c)
      /\ \A i \in 1..Len(Append(packets, p)) : Append(packets, p)[i] = c[i]
    BY <1>1, <1>2, <1>3, <1>4
<1>6. IsPrefix(Append(packets, p), c)
    BY <1>2, <1>5, PrefixByElements
<1> QED
    BY <1>4, <1>5, <1>6, BeginningIsPrefix

(* What is forecast are packets, after the beginning of a conversation.    *)
LEMMA ForecastSound ==
    ASSUME NEW packets, NEW p \in Forecast(packets)
    PROVE  p \in Packets /\ packets \in Beginnings /\ p \in Predicted(packets)
    BY ForecastAssumption DEF Forecast

(* When nothing is forecast after the beginning of a conversation, that    *)
(* conversation is over.                                                   *)
LEMMA ForecastComplete ==
    ASSUME NEW packets \in Beginnings, Forecast(packets) = {}
    PROVE  packets \in Language
<1>1. PICK c \in Language : IsPrefix(packets, c)
    BY BeginningIsPrefix
<1>2. SUFFICES ASSUME packets # c PROVE FALSE
    BY <1>1
<1>3. IsStrictPrefix(packets, c)
    BY <1>1, <1>2 DEF IsStrictPrefix
<1>4. c[Len(packets) + 1] \in Continuations(packets)
    BY <1>3 DEF Continuations
<1> QED
    BY <1>4, ForecastAssumption DEF Forecast

(* Every conversation begins with nothing said.                            *)
LEMMA EmptyIsPrefix ==
    ASSUME NEW c \in Language
    PROVE  IsPrefix(<<>>, c)
<1>1. c \in Seq(Packets)
    BY LanguageAssumption
<1>2. <<>> \in Seq(Packets) /\ Len(<<>>) = 0
    BY EmptySeq
<1>3. Len(<<>>) <= Len(c) /\ \A i \in 1..Len(<<>>) : <<>>[i] = c[i]
    BY <1>1, <1>2
<1> QED
    BY <1>1, <1>2, <1>3, PrefixByElements

(* Nothing said begins a conversation.                                     *)
LEMMA EmptyBegins == <<>> \in Beginnings
<1>1. PICK c \in Language : TRUE
    BY LanguageAssumption
<1>2. <<>> \in Seq(Packets) /\ IsPrefix(<<>>, c)
    BY <1>1, EmptyIsPrefix, EmptySeq
<1> QED
    BY <1>1, <1>2, BeginningIsPrefix

-----------------------------------------------------------------------------
(* What a step may add to a history.                                       *)

(* Packets filled with words are entries, with or without their senders.   *)
LEMMA TextsType ==
    /\ \A packets \in Seq(Packets) : Texts(packets) \subseteq Seq(Entries)
    /\ \A packets \in Seq(LostPackets) : Texts(packets) \subseteq Seq(LostEntries)
<1>1. ASSUME NEW packets \in Seq(Packets), NEW t \in Texts(packets)
      PROVE  t \in Seq(Entries)
    <2>1. PICK words : /\ t = [i \in DOMAIN packets |-> Message(packets[i], words[i])]
                       /\ \A i \in DOMAIN packets : words[i] \in Words[packets[i].nt]
        BY DEF Texts
    <2>2. Len(packets) \in Nat /\ DOMAIN packets = 1..Len(packets)
        OBVIOUS
    <2>3. ASSUME NEW i \in 1..Len(packets)
          PROVE  Message(packets[i], words[i]) \in Entries
        <3>1. packets[i] \in Packets /\ words[i] \in Words[packets[i].nt]
            BY <2>1, <2>2
        <3>2. words[i] \in Seq(Atoms)
            BY <3>1, GrammarAssumption DEF Packets
        <3> QED
            BY <3>1, <3>2, MessageType
    <2>4. t \in [1..Len(packets) -> Entries]
        BY <2>1, <2>2, <2>3
    <2> QED
        BY <2>2, <2>4, SeqDef
<1>2. ASSUME NEW packets \in Seq(LostPackets), NEW t \in Texts(packets)
      PROVE  t \in Seq(LostEntries)
    <2>1. PICK words : /\ t = [i \in DOMAIN packets |-> Message(packets[i], words[i])]
                       /\ \A i \in DOMAIN packets : words[i] \in Words[packets[i].nt]
        BY DEF Texts
    <2>2. Len(packets) \in Nat /\ DOMAIN packets = 1..Len(packets)
        OBVIOUS
    <2>3. ASSUME NEW i \in 1..Len(packets)
          PROVE  Message(packets[i], words[i]) \in LostEntries
        <3>1. packets[i] \in LostPackets /\ words[i] \in Words[packets[i].nt]
            BY <2>1, <2>2
        <3>2. words[i] \in Seq(Atoms)
            BY <3>1, GrammarAssumption DEF LostPackets
        <3> QED
            BY <3>1, <3>2 DEF Message, LostPackets, LostEntries
    <2>4. t \in [1..Len(packets) -> LostEntries]
        BY <2>1, <2>2, <2>3
    <2> QED
        BY <2>2, <2>4, SeqDef
<1> QED
    BY <1>1, <1>2

(* What is said is a sequence of entries, whatever evolution has made of   *)
(* it.                                                                     *)
LEMMA AdditionsType ==
    ASSUME NEW b \in Beginnings, NEW p \in Packets, NEW n \in Additions(b, p)
    PROVE  n \in [said : Seq(Entries), lost : Seq(LostEntries)]
<1>1. CASE n \in Fresh(p)
    <2>1. PICK w \in Words[p.nt] : n = [said |-> <<Message(p, w)>>, lost |-> <<>>]
        BY <1>1 DEF Fresh
    <2>2. w \in Seq(Atoms)
        BY GrammarAssumption DEF Packets
    <2>3. Message(p, w) \in Entries
        BY <2>2, MessageType
    <2> QED
        BY <2>1, <2>3
<1>2. CASE n \in Reworked(b, p)
    <2>1. PICK e \in Evolved(b, p) : \E s \in Texts(e.said), l \in Texts(e.lost) :
             n = [said |-> s, lost |-> l]
        BY <1>2 DEF Reworked
    <2>2. e \in [said : Seq(Packets), lost : Seq(LostPackets)]
        BY EvolvedAssumption
    <2>3. e.said \in Seq(Packets) /\ e.lost \in Seq(LostPackets)
        BY <2>2
    <2>4. Texts(e.said) \subseteq Seq(Entries) /\ Texts(e.lost) \subseteq Seq(LostEntries)
        BY <2>3, TextsType
    <2> QED
        BY <2>1, <2>4
<1> QED
    BY <1>1, <1>2 DEF Additions

(* When evolution replaces messages by forecast ones, one forecast message *)
(* is added at a time, and by Fandango only when it is its own.            *)
LEMMA MessagesStayOne ==
    ASSUME MessagesStay, NEW b \in Beginnings, NEW p \in Forecast(b),
           NEW n \in Additions(b, p)
    PROVE  \E q \in Forecast(b) : \E w \in Words[q.nt] :
               /\ n = [said |-> <<Message(q, w)>>, lost |-> <<>>]
               /\ Sends(q) <=> Sends(p)
<1>1. CASE n \in Fresh(p)
    BY <1>1 DEF Fresh
<1>2. CASE Sends(p) /\ n \in Reworked(b, p)
    <2>1. PICK e \in Evolved(b, p) : \E s \in Texts(e.said), l \in Texts(e.lost) :
             n = [said |-> s, lost |-> l]
        BY <1>2 DEF Reworked
    <2>2. PICK s \in Texts(e.said), l \in Texts(e.lost) : n = [said |-> s, lost |-> l]
        BY <2>1
    <2>3. PICK q \in Forecast(b) : Sends(q) /\ e.said = <<q>>
        BY <1>2, <2>1 DEF MessagesStay
    <2>4. e.lost = <<>>
        BY <1>2, <2>1 DEF MessagesStay
    <2>5. l = <<>>
        BY <2>2, <2>4 DEF Texts
    <2>6. PICK words : /\ s = [i \in DOMAIN <<q>> |-> Message(<<q>>[i], words[i])]
                       /\ \A i \in DOMAIN <<q>> : words[i] \in Words[<<q>>[i].nt]
        BY <2>2, <2>3 DEF Texts
    <2>7. DOMAIN <<q>> = {1} /\ <<q>>[1] = q
        OBVIOUS
    <2>8. words[1] \in Words[q.nt] /\ s = [i \in {1} |-> Message(q, words[1])]
        BY <2>6, <2>7
    <2>9. [i \in {1} |-> Message(q, words[1])] = <<Message(q, words[1])>>
        OBVIOUS
    <2> QED
        BY <1>2, <2>2, <2>3, <2>5, <2>8, <2>9
<1> QED
    BY <1>1, <1>2 DEF Additions

=============================================================================
