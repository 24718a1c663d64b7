----------------------- MODULE ProtocolSession_proofs -----------------------
(***************************************************************************)
(* For every grammar, set of parties and number of arrivals: a session has *)
(* well-typed states, always finds the sender it has waited for in the     *)
(* forecast, and keeps the promise of Conversation.                        *)
(***************************************************************************)
EXTENDS ProtocolSession, Protocol_proofs, FiniteSetTheorems

-----------------------------------------------------------------------------
(* The receive buffer.                                                     *)

(* A sublist of a sequence is a sequence over the same elements.           *)
LEMMA SublistsType ==
    ASSUME NEW buffer \in Seq(Received), NEW keep \in SUBSET (DOMAIN buffer),
           NEW s \in Sublists(buffer, keep)
    PROVE  s \in Seq(Received)
<1> DEFINE n == Cardinality(keep)
<1>1. keep \subseteq 1..Len(buffer) /\ Len(buffer) \in Nat
    OBVIOUS
<1>2. IsFiniteSet(1..Len(buffer))
    BY <1>1, FS_Interval
<1>3. n \in Nat
    BY <1>1, <1>2, FS_Subset, FS_CardinalityType
<1>4. PICK f \in [1..n -> keep] : s = [k \in 1..n |-> buffer[f[k]]]
    BY DEF Sublists
<1>5. s \in [1..n -> Received]
    BY <1>1, <1>4
<1> QED
    BY <1>3, <1>5, SeqDef

(* Clearing the buffer leaves a buffer.                                    *)
LEMMA ClearByPartyType ==
    ASSUME NEW buffer \in Seq(Received), NEW party, NEW toIdx,
           NEW s \in ClearByParty(buffer, party, toIdx)
    PROVE  s \in Seq(Received)
    BY SublistsType DEF ClearByParty

-----------------------------------------------------------------------------
(* The inductive invariant.                                                *)

(* The forecast in use was made for the history as it is.                  *)
ForecastHolds ==
    pc \notin {"predict", "done", "failed"} =>
        forecast \subseteq Forecast(PacketsOf(history))

(* What is about to be transmitted is a forecast message, or what has been *)
(* made of one, and solves the constraints.                                *)
CandidateHolds ==
    pc \in {"recheck", "transmit"} =>
        /\ \E p \in forecast : candidate \in Additions(PacketsOf(history), p)
        /\ Solution(candidate)

(* Complete parses are words of their nonterminals.                        *)
ParsesHold == \A c \in reader.complete : c.word \in Words[c.nt]

IInv == /\ TypeOK /\ ForecastHolds /\ CandidateHolds /\ ParsesHold
        /\ SenderStaysForecast

(* A fresh session satisfies the invariant.                                *)
LEMMA InitIInv == Init => IInv
    BY SessionAssumption DEF Init, Individuals, Nothing, IInv, TypeOK, ForecastHolds, CandidateHolds,
        ParsesHold, SenderStaysForecast, Locations, Errors, Readers,
        IdleReader, Reading, ExpectedSenders, SendersIn, MsgParties

-----------------------------------------------------------------------------
(* Type correctness, action by action.                                     *)

(* What is forecast are packets.                                           *)
LEMMA ForecastType ==
    ASSUME TypeOK, NEW f \in ForecastingResults(Forecast(PacketsOf(history)))
    PROVE  f \in SUBSET Packets /\ f \subseteq Forecast(PacketsOf(history))
<1>1. Forecast(PacketsOf(history)) \subseteq Packets
    BY ForecastSound
<1> QED
    BY <1>1 DEF ForecastingResults

(* A word of a forecast packet makes it an entry of the history.           *)
LEMMA MessageOfForecastType ==
    ASSUME TypeOK, NEW p \in forecast, NEW w \in Words[p.nt]
    PROVE  Message(p, w) \in Entries /\ PacketOf(Message(p, w)) = p
<1>1. p \in Packets /\ w \in Seq(Atoms)
    BY GrammarAssumption DEF TypeOK, Packets
<1> QED
    BY <1>1, MessageType

(* What Fandango may say is typed, and belongs to a forecast packet.       *)
LEMMA CandidatesType ==
    ASSUME TypeOK, forecast \subseteq Forecast(PacketsOf(history)),
           NEW n \in Candidates
    PROVE  /\ \E p \in forecast : n \in Additions(PacketsOf(history), p)
           /\ Solution(n)
           /\ n \in Individuals
<1>1. PICK p \in Fuzzable : n \in Fresh(p) \cup Reworked(PacketsOf(history), p)
    BY DEF Candidates
<1>2. p \in forecast /\ n \in Additions(PacketsOf(history), p)
    BY <1>1 DEF Fuzzable, Additions
<1>3. p \in Packets /\ PacketsOf(history) \in Beginnings
    BY <1>2, ForecastSound
<1>4. n \in Individuals
    BY <1>2, <1>3, AdditionsType DEF Individuals
<1>5. Solution(n)
    BY DEF Candidates
<1> QED
    BY <1>2, <1>4, <1>5

(* complete_parses stays a set of parses.                                  *)
LEMMA CompleteType ==
    ASSUME NEW complete \in SUBSET Parses, NEW now \in SUBSET NonTerminals,
           NEW i \in Nat, NEW read \in Seq(Atoms)
    PROVE  Complete(complete, now, i, read) \in SUBSET Parses
<1> DEFINE again == {c \in complete : c.nt \in now}
           fresh == now \ {c.nt : c \in again}
<1>1. ASSUME NEW c \in again
      PROVE  [c EXCEPT !.last = i, !.word = read] \in Parses
    BY DEF Parses
<1>2. ASSUME NEW nt \in fresh
      PROVE  [nt |-> nt, first |-> i, last |-> i, word |-> read] \in Parses
    BY DEF Parses
<1>3. Complete(complete, now, i, read) =
        (complete \ again)
        \cup {[c EXCEPT !.last = i, !.word = read] : c \in again}
        \cup {[nt |-> nt, first |-> i, last |-> i, word |-> read] : nt \in fresh}
    BY DEF Complete
<1> QED
    BY <1>1, <1>2, <1>3

(* A parse that consumes a fragment stays well formed.                     *)
LEMMA FeedType ==
    ASSUME NEW r \in Readers, NEW i \in Nat, NEW fragment \in Seq(Atoms)
    PROVE  Feed(r, i, fragment) \in Readers
<1> DEFINE read == r.read \o fragment
           now  == {nt \in r.available : read \in Words[nt] \ Underivable[nt]}
           open == {nt \in r.available : read \in Viable[nt]}
<1>1. r.read \in Seq(Atoms) /\ r.available \subseteq NonTerminals
      /\ r.complete \in SUBSET Parses /\ r.sender \in ExternalParties \cup {NoParty}
    BY DEF Readers
<1>2. read \in Seq(Atoms) /\ now \in SUBSET NonTerminals /\ open \in SUBSET NonTerminals
    BY <1>1
<1>3. Complete(r.complete, now, i, read) \in SUBSET Parses
    BY <1>1, <1>2, CompleteType
<1>4. Feed(r, i, fragment) = [r EXCEPT !.idx = i, !.read = read,
         !.available = open, !.complete = Complete(r.complete, now, i, read)]
    BY DEF Feed
<1> HIDE DEF read, now, open
<1> QED
    BY <1>1, <1>2, <1>3, <1>4 DEF Readers

-----------------------------------------------------------------------------
(* The steps that change the history or the buffer, or move within a       *)
(* message, one by one.                                                    *)

(* What a listener appends between any two steps breaks nothing: it can    *)
(* only add senders to the buffer.                                         *)
LEMMA ReceiveIInv ==
    ASSUME IInv, NEW message \in Received, Receive(message)
    PROVE  IInv'
<1>1. message \in Received
    OBVIOUS
<1>2. TypeOK'
    BY <1>1 DEF IInv, TypeOK, Receive, AddReceive, exchangeVars
<1>3. ForecastHolds' /\ CandidateHolds' /\ ParsesHold'
    BY DEF IInv, Receive, ForecastHolds, CandidateHolds, ParsesHold,
        exchangeVars, Solution, Solves
<1>4. ExpectedSenders \subseteq ExpectedSenders'
    <2>1. SendersIn(receive) \subseteq SendersIn(receive')
        <3>1. ASSUME NEW i \in DOMAIN receive
              PROVE  i \in DOMAIN receive' /\ receive'[i] = receive[i]
            BY <1>1 DEF IInv, TypeOK, Receive, AddReceive
        <3> QED
            BY <3>1 DEF SendersIn
    <2> QED
        BY <2>1 DEF ExpectedSenders, Receive
<1>5. SenderStaysForecast'
    BY <1>4 DEF IInv, Receive, SenderStaysForecast, Reading, exchangeVars
<1> QED
    BY <1>2, <1>3, <1>5 DEF IInv

(* The forecast is made for the history it is used with.                   *)
LEMMA PredictIInv == IInv /\ Predict => IInv'
<1> SUFFICES ASSUME IInv, Predict PROVE IInv'
    OBVIOUS
<1>1. forecast' \in SUBSET Packets /\ forecast' \subseteq Forecast(PacketsOf(history))
    BY ForecastType DEF IInv, Predict
<1>2. pc' \in {"decide", "done", "failed"} /\ error' \in {error, "no_forecast"}
    BY DEF Predict, Goto, FailWith
<1>3. TypeOK'
    BY <1>1, <1>2 DEF IInv, TypeOK, Predict, exchangeVars, outerVars, Locations,
        Errors
<1>4. ForecastHolds'
    BY <1>1 DEF Predict, ForecastHolds, exchangeVars
<1>5. CandidateHolds' /\ ParsesHold' /\ SenderStaysForecast'
    BY <1>2 DEF IInv, Predict, CandidateHolds, ParsesHold, SenderStaysForecast,
        Reading
<1> QED
    BY <1>3, <1>4, <1>5 DEF IInv

(* The candidate is a message for a forecast packet that satisfies the     *)
(* constraints, or what evolution has made of it.                          *)
LEMMA FuzzIInv == IInv /\ Fuzz => IInv'
<1> SUFFICES ASSUME IInv, Fuzz PROVE IInv'
    OBVIOUS
<1>1. PICK n \in Candidates : candidate' = n /\ solved' = solved \cup {n}
    BY DEF Fuzz
<1>2. forecast \subseteq Forecast(PacketsOf(history))
    BY DEF IInv, Fuzz, ForecastHolds
<1>3. /\ \E p \in forecast : n \in Additions(PacketsOf(history), p)
      /\ Solution(n)
      /\ n \in Individuals
    BY <1>2, CandidatesType DEF IInv
<1>4. candidate' \in Individuals /\ solved' \in SUBSET Individuals
    BY <1>1, <1>3 DEF IInv, TypeOK
<1>5. TypeOK'
    BY <1>4 DEF IInv, TypeOK, Fuzz, Goto, outerVars, Locations
<1>6. CandidateHolds'
    BY <1>1, <1>3 DEF Fuzz, CandidateHolds, Solution, Solves
<1>7. ForecastHolds' /\ ParsesHold' /\ SenderStaysForecast'
    BY DEF IInv, Fuzz, Goto, ForecastHolds, ParsesHold, SenderStaysForecast,
        Reading
<1> QED
    BY <1>5, <1>6, <1>7 DEF IInv

(* Transmitting the candidate extends the history by what it says.         *)
LEMMA TransmitIInv == IInv /\ Transmit => IInv'
<1> SUFFICES ASSUME IInv, Transmit PROVE IInv'
    OBVIOUS
<1>1. /\ history \in Seq(Entries) /\ candidate.said \in Seq(Entries)
      /\ candidate.lost \in Seq(LostEntries) /\ solved \in SUBSET Individuals
    BY DEF IInv, TypeOK, Individuals
<1>2. /\ history' \in Seq(Entries) /\ lost' \in Seq(LostEntries)
      /\ solved' \in SUBSET Individuals
    BY <1>1 DEF Transmit, NextMessages
<1>3. candidate' \in Individuals
    BY DEF Transmit, Nothing, Individuals
<1>4. TypeOK'
    BY <1>2, <1>3 DEF IInv, TypeOK, Transmit, Goto, outerVars, Locations
<1>5. ForecastHolds' /\ CandidateHolds' /\ ParsesHold' /\ SenderStaysForecast'
    BY DEF IInv, Transmit, Goto, ForecastHolds, CandidateHolds, ParsesHold,
        SenderStaysForecast, Reading
<1> QED
    BY <1>4, <1>5 DEF IInv

(* The sender selected is one of the forecast, since AwaitParty saw it and *)
(* nobody has taken its message away.                                      *)
LEMMA SelectIInv == IInv /\ Select => IInv'
<1> SUFFICES ASSUME IInv, Select PROVE IInv'
    OBVIOUS
<1>1. ExpectedSenders # {}
    BY DEF IInv, Select, SenderStaysForecast
<1>2. PICK i \in DOMAIN receive : /\ receive[i].sender \in ExpectedSenders
                                  /\ reader' = StartReader(receive[i].sender)
    BY <1>1 DEF Select, First
<1> DEFINE party == receive[i].sender
           nts == {p.nt : p \in {p \in forecast : p.sender = party}}
<1>3. party \in ExternalParties /\ party \in MsgParties(forecast)
    <2>1. receive \in Seq(Received)
        BY DEF IInv, TypeOK
    <2>2. receive[i] \in Received
        BY <1>2, <2>1
    <2> QED
        BY <1>2, <2>2 DEF Received, ExpectedSenders
<1>4. nts \subseteq NonTerminals
    BY DEF IInv, TypeOK, Packets
<1>5. reader' = [sender |-> party, idx |-> 0, read |-> <<>>,
                 available |-> nts, complete |-> {}]
    BY <1>2 DEF StartReader, IdleReader
<1> HIDE DEF party, nts
<1>6. reader' \in Readers
    BY <1>3, <1>4, <1>5 DEF Readers
<1>7. pc' = "fragment" /\ error' = error
    BY <1>1 DEF Select, Goto
<1>8. TypeOK'
    BY <1>6, <1>7 DEF IInv, TypeOK, Select, exchangeVars, outerVars, Locations
<1>9. SenderStaysForecast'
    BY <1>3, <1>5, <1>7 DEF IInv, Select, SenderStaysForecast, MsgParties
<1>10. ForecastHolds' /\ CandidateHolds' /\ ParsesHold'
    BY <1>5, <1>7 DEF IInv, Select, ForecastHolds, CandidateHolds, ParsesHold,
        exchangeVars
<1> QED
    BY <1>8, <1>9, <1>10 DEF IInv

(* Each complete parse is a word of a forecast nonterminal of the sender.  *)
LEMMA ConsumeFragmentIInv == IInv /\ ConsumeFragment => IInv'
<1> SUFFICES ASSUME IInv, ConsumeFragment PROVE IInv'
    OBVIOUS
<1>1. PICK i \in DOMAIN receive : reader' = Feed(reader, i, receive[i].fragment)
    BY DEF ConsumeFragment, First, NextFragments, FragmentsFrom
<1>2. i \in Nat /\ receive[i].fragment \in Seq(Atoms) /\ reader \in Readers
    <2>1. receive \in Seq(Received) /\ reader \in Readers
        BY DEF IInv, TypeOK
    <2>2. i \in 1..Len(receive) /\ Len(receive) \in Nat /\ receive[i] \in Received
        BY <2>1
    <2> QED
        BY <2>1, <2>2 DEF Received
<1>3. reader' \in Readers
    BY <1>1, <1>2, FeedType
<1>4. pc' \in {"fragment", "deliver"} /\ error' = error
    BY DEF ConsumeFragment, Goto
<1>5. TypeOK'
    BY <1>3, <1>4 DEF IInv, TypeOK, ConsumeFragment, exchangeVars, outerVars,
        Locations
<1>6. reader'.sender = reader.sender
    BY <1>1, <1>2 DEF Feed, Readers
<1>7. SenderStaysForecast'
    BY <1>4, <1>6 DEF IInv, ConsumeFragment, SenderStaysForecast, Reading,
        MsgParties
<1>8. ParsesHold'
    <2> DEFINE read == reader.read \o receive[i].fragment
               now == {nt \in reader.available :
                         read \in Words[nt] \ Underivable[nt]}
    <2>1. reader'.complete = Complete(reader.complete, now, i, read)
        BY <1>1, <1>2 DEF Feed, Readers
    <2>2. \A nt \in now : read \in Words[nt]
        OBVIOUS
    <2>3. reader.complete \in SUBSET Parses
        BY <1>2 DEF Readers
    <2> HIDE DEF read, now
    <2>4. ASSUME NEW c \in Complete(reader.complete, now, i, read)
          PROVE  c.word \in Words[c.nt]
        <3> DEFINE again == {d \in reader.complete : d.nt \in now}
                   fresh == now \ {d.nt : d \in again}
        <3>1. CASE c \in reader.complete
            BY <3>1 DEF IInv, ParsesHold
        <3>2. CASE c \in {[d EXCEPT !.last = i, !.word = read] : d \in again}
            <4>1. PICK d \in again : c = [d EXCEPT !.last = i, !.word = read]
                BY <3>2
            <4>2. c.nt = d.nt /\ c.word = read
                BY <2>3, <4>1 DEF Parses
            <4> QED
                BY <2>2, <4>1, <4>2
        <3>3. CASE c \in {[nt |-> nt, first |-> i, last |-> i, word |-> read] :
                             nt \in fresh}
            BY <2>2, <3>3
        <3> QED
            BY <2>4, <3>1, <3>2, <3>3 DEF Complete
    <2> QED
        BY <2>1, <2>4 DEF ParsesHold
<1>9. ForecastHolds' /\ CandidateHolds'
    BY <1>4 DEF IInv, ConsumeFragment, ForecastHolds, CandidateHolds, exchangeVars
<1> QED
    BY <1>5, <1>7, <1>8, <1>9 DEF IInv

(* What Deliver adds to the history.                                       *)
LEMMA DeliverAdds ==
    ASSUME IInv, Deliver
    PROVE  \E p \in forecast : \E w \in Words[p.nt] :
              /\ history' = Append(history, Message(p, w))
              /\ taken' = Append(taken, Message(p, w))
              /\ receive' \in Seq(Received)
<1>1. PICK c \in reader.complete : \E p \in forecast :
          /\ p.sender = reader.sender /\ p.nt = c.nt
          /\ receive' \in ClearByParty(receive, reader.sender, c.last)
          /\ history' = Append(history, Message(p, c.word))
          /\ taken' = Append(taken, Message(p, c.word))
    BY DEF Deliver, Mount, BestParses
<1>2. c.word \in Words[c.nt]
    BY DEF IInv, ParsesHold
<1>3. receive' \in Seq(Received)
    BY <1>1, ClearByPartyType DEF IInv, TypeOK
<1> QED
    BY <1>1, <1>2, <1>3

(* Mounting the best parse extends the history by it.                      *)
LEMMA DeliverIInv == IInv /\ Deliver => IInv'
<1> SUFFICES ASSUME IInv, Deliver PROVE IInv'
    OBVIOUS
<1>1. PICK p \in forecast : \E w \in Words[p.nt] :
              /\ history' = Append(history, Message(p, w))
              /\ taken' = Append(taken, Message(p, w))
              /\ receive' \in Seq(Received)
    BY DeliverAdds
<1>2. history' \in Seq(Entries) /\ taken' \in Seq(Entries)
    BY <1>1, MessageOfForecastType DEF IInv, TypeOK
<1>3. reader' = IdleReader /\ IdleReader \in Readers
    BY DEF Deliver, Mount, IdleReader, Readers
<1>4. pc' \in {"predict", "failed"} /\ error' \in {error, "constraints"}
    BY DEF Deliver, Goto, FailWith
<1>5. TypeOK'
    BY <1>1, <1>2, <1>3, <1>4
        DEF IInv, TypeOK, Deliver, Mount, outerVars, Locations, Errors
<1>6. ParsesHold'
    BY <1>3 DEF ParsesHold, IdleReader
<1>7. ForecastHolds' /\ CandidateHolds' /\ SenderStaysForecast'
    BY <1>4 DEF IInv, ForecastHolds, CandidateHolds, SenderStaysForecast, Reading
<1> QED
    BY <1>5, <1>6, <1>7 DEF IInv

(* A new session starts from a fresh state, but for the buffer.            *)
LEMMA NewSessionIInv == IInv /\ NewSession => IInv'
<1> SUFFICES ASSUME IInv, NewSession PROVE IInv'
    OBVIOUS
<1>1. sessions' \in 1..MaxSessions /\ Nothing \in Individuals
    BY SessionAssumption DEF IInv, TypeOK, NewSession, Nothing, Individuals
<1>2. reader' = IdleReader /\ IdleReader \in Readers
    BY DEF NewSession, IdleReader, Readers
<1>3. TypeOK'
    BY <1>1, <1>2 DEF IInv, TypeOK, NewSession, Locations, Errors
<1>4. ParsesHold'
    BY <1>2 DEF ParsesHold, IdleReader
<1>5. ForecastHolds' /\ CandidateHolds' /\ SenderStaysForecast'
    BY DEF IInv, NewSession, ForecastHolds, CandidateHolds, SenderStaysForecast,
        Reading
<1> QED
    BY <1>3, <1>4, <1>5 DEF IInv

(* The steps that only move the program counter, with what they leave.     *)
Moves == \/ Decide \/ FuzzGivesUp \/ Recheck \/ TransmitFails \/ NothingToTransmit
         \/ AwaitMessage \/ NothingReceived \/ ResponseTimeout
         \/ AwaitParty \/ NoPartyOfForecast \/ UnexpectedParty
         \/ NoFragmentYet \/ FragmentTimeout \/ NothingParsed

(* They leave everything but the program counter, the exception and a      *)
(* candidate given up, and enter the parser only from the parser.          *)
LEMMA MovesLeave ==
    ASSUME IInv, Moves
    PROVE  /\ UNCHANGED <<receive, forecast, history, lost, solved, reader, outerVars>>
           /\ candidate' \in {candidate, Nothing}
           /\ pc # "predict" /\ pc \notin {"done", "failed"}
           /\ pc' = "select" => ExpectedSenders # {}
           /\ pc' \in {"fragment", "refragment", "deliver"} => Reading
           /\ pc' \in {"recheck", "transmit"} =>
                 pc \in {"recheck", "transmit"} /\ candidate' = candidate
           /\ pc' \in Locations
           /\ error' \in Errors \ {"unknown_sender"} \/ error' = error
<1> USE DEF IInv, Goto, FailWith, outerVars, exchangeVars
<1>1. CASE Decide \/ FuzzGivesUp \/ Recheck \/ TransmitFails \/ NothingToTransmit
    BY <1>1 DEF Decide, FuzzGivesUp, Recheck, TransmitFails, NothingToTransmit,
        Locations, Errors
<1>2. CASE AwaitMessage \/ NothingReceived \/ ResponseTimeout
    BY <1>2 DEF AwaitMessage, NothingReceived, ResponseTimeout, Locations, Errors
<1>3. CASE AwaitParty \/ NoPartyOfForecast \/ UnexpectedParty
    BY <1>3 DEF AwaitParty, NoPartyOfForecast, UnexpectedParty, Locations, Errors
<1>4. CASE NoFragmentYet \/ FragmentTimeout \/ NothingParsed
    BY <1>4 DEF NoFragmentYet, FragmentTimeout, NothingParsed, Reading,
        Locations, Errors
<1> QED
    BY <1>1, <1>2, <1>3, <1>4 DEF Moves

(* The steps that only decide where to go preserve the invariant.          *)
LEMMA MovesIInv == IInv /\ Moves => IInv'
<1> SUFFICES ASSUME IInv, Moves PROVE IInv'
    OBVIOUS
<1> USE DEF IInv, outerVars
<1>1. /\ UNCHANGED <<receive, forecast, history, lost, solved, reader, outerVars>>
      /\ candidate' \in {candidate, Nothing}
      /\ pc # "predict" /\ pc \notin {"done", "failed"}
      /\ pc' = "select" => ExpectedSenders # {}
      /\ pc' \in {"fragment", "refragment", "deliver"} => Reading
      /\ pc' \in {"recheck", "transmit"} =>
            pc \in {"recheck", "transmit"} /\ candidate' = candidate
      /\ pc' \in Locations
      /\ error' \in Errors \ {"unknown_sender"} \/ error' = error
    BY MovesLeave
<1>2. TypeOK'
    <2>1. error' \in Errors
        BY <1>1 DEF TypeOK
    <2>2. candidate' \in Individuals
        <3>1. Nothing \in Individuals
            BY DEF Nothing, Individuals
        <3>2. candidate \in Individuals
            BY DEF TypeOK
        <3> QED
            BY <1>1, <3>1, <3>2
    <2> QED
        BY <1>1, <2>1, <2>2 DEF TypeOK
<1>3. ForecastHolds'
    BY <1>1 DEF ForecastHolds
<1>4. CandidateHolds'
    BY <1>1 DEF CandidateHolds, Solution, Solves
<1>5. ParsesHold'
    BY <1>1 DEF ParsesHold
<1>6. SenderStaysForecast'
    BY <1>1 DEF SenderStaysForecast, Reading, ExpectedSenders, MsgParties
<1> QED
    BY <1>2, <1>3, <1>4, <1>5, <1>6

(* So do the steps that change nothing.                                    *)
LEMMA StutterIInv == IInv /\ UNCHANGED vars => IInv'
    BY DEF vars, exchangeVars, outerVars, IInv, TypeOK, ForecastHolds,
        CandidateHolds, Solution, Solves, ParsesHold, SenderStaysForecast, Reading, ExpectedSenders, MsgParties

(* Every step of a session or of a listener preserves the invariant.       *)
LEMMA NextIInv == IInv /\ [Next]_vars => IInv'
<1>1. Next => \/ \E message \in Arrivals : Receive(message)
              \/ Predict \/ Fuzz \/ Transmit \/ Select \/ ConsumeFragment
              \/ Deliver \/ NewSession \/ Moves
    BY DEF Next, Listen, Generate, Work, Timeout, Accident, Moves
<1> QED
    BY <1>1, SessionAssumption, ReceiveIInv, PredictIInv, FuzzIInv, TransmitIInv, SelectIInv,
        ConsumeFragmentIInv, DeliverIInv, NewSessionIInv, MovesIInv, StutterIInv

(* The variables of a session keep their types, whatever arrives when.     *)
THEOREM TypeCorrect == Spec => []TypeOK
<1>1. IInv => TypeOK
    BY DEF IInv
<1> QED
    BY InitIInv, NextIInv, <1>1, PTL DEF Spec

(* The sender that parse_next_remote_packet waited for in one access to    *)
(* the buffer is still there in the next, and is one of the forecast: the  *)
(* lookup forecast[msg_sender] never raises.                               *)
THEOREM SenderIsForecast == Spec => []SenderStaysForecast
<1>1. IInv => SenderStaysForecast
    BY DEF IInv
<1> QED
    BY InitIInv, NextIInv, <1>1, PTL DEF Spec

-----------------------------------------------------------------------------
(* A session keeps the promise of Conversation: each step is a step of it  *)
(* or leaves the log and the status alone.                                 *)

(* Conversation sees the grammar as the session does.                      *)
LEMMA SameGrammar ==
    /\ Promise!Beginnings = Beginnings
    /\ \A packets : Promise!Forecast(packets) = Forecast(packets)
    /\ \A packets, p : Promise!Additions(packets, p) = Additions(packets, p)
    /\ \A log : Promise!PacketsOf(log) = PacketsOf(log)
    /\ \A log : Promise!Accepted(log) <=> Accepted(log)
<1>1. Promise!Beginnings = Beginnings
    BY DEF Promise!Beginnings, Beginnings
<1>2. \A packets : Promise!Forecast(packets) = Forecast(packets)
    BY <1>1 DEF Promise!Forecast, Forecast
<1>3. \A log : Promise!PacketsOf(log) = PacketsOf(log)
    BY DEF Promise!PacketsOf, PacketsOf, Promise!PacketOf, PacketOf
<1>4. \A p, w : Promise!Message(p, w) = Message(p, w)
    BY DEF Promise!Message, Message
<1>5. \A p : Promise!Fresh(p) = Fresh(p) /\ (Promise!Sends(p) <=> Sends(p))
    BY <1>4 DEF Promise!Fresh, Fresh, Promise!Sends, Sends
<1>6. \A packets : Promise!Texts(packets) = Texts(packets)
    BY <1>4 DEF Promise!Texts, Texts
<1>7. \A packets, p : Promise!Reworked(packets, p) = Reworked(packets, p)
    BY <1>6 DEF Promise!Reworked, Reworked
<1>8. \A packets, p : Promise!Additions(packets, p) = Additions(packets, p)
    BY <1>5, <1>7 DEF Promise!Additions, Additions
<1> QED
    BY <1>1, <1>2, <1>3, <1>8 DEF Promise!Accepted, Accepted

(* Initial states map to initial states.                                   *)
LEMMA InitKeepsPromise == Init => Promise!Init
    BY DEF Init, Promise!Init, Stopped

(* Transmitting is an exchange of the abstract conversation.               *)
LEMMA TransmitIsExchange == IInv /\ Transmit => Promise!Exchange
<1> SUFFICES ASSUME IInv, Transmit PROVE Promise!Exchange
    OBVIOUS
<1>1. PICK p \in forecast : candidate \in Additions(PacketsOf(history), p)
    BY DEF IInv, Transmit, CandidateHolds
<1>2. Solves(history \o candidate.said \o candidate.lost)
    BY DEF IInv, Transmit, CandidateHolds, Solution
<1>3. p \in Forecast(PacketsOf(history))
    BY <1>1 DEF IInv, Transmit, ForecastHolds
<1>4. history' = history \o candidate.said /\ lost' = candidate.lost
    BY DEF Transmit, NextMessages
<1>5. Accepted(history' \o lost')
    BY <1>2, <1>4 DEF Solves, Accepted
<1>6. ~Stopped /\ ~Stopped'
    BY DEF Transmit, Goto, Stopped
<1> QED
    BY <1>1, <1>3, <1>4, <1>5, <1>6, SameGrammar DEF Promise!Exchange

(* So is mounting a received message.                                      *)
LEMMA DeliverIsExchange == IInv /\ Deliver => Promise!Exchange
<1> SUFFICES ASSUME IInv, Deliver PROVE Promise!Exchange
    OBVIOUS
<1>1. PICK p \in forecast : \E w \in Words[p.nt] :
         history' = Append(history, Message(p, w))
    BY DeliverAdds
<1>2. PICK w \in Words[p.nt] : history' = Append(history, Message(p, w))
    BY <1>1
<1> DEFINE n == [said |-> <<Message(p, w)>>, lost |-> <<>>]
<1>3. pc = "deliver" /\ lost' = <<>>
    BY DEF Deliver, Mount
<1>4. p \in Forecast(PacketsOf(history))
    BY <1>3 DEF IInv, ForecastHolds
<1>5. n \in Additions(PacketsOf(history), p)
    BY DEF Additions, Fresh
<1>6. Message(p, w) \in Entries /\ history \in Seq(Entries)
    BY MessageOfForecastType DEF IInv, TypeOK
<1>7. history' = history \o n.said /\ lost' = n.lost
    BY <1>2, <1>3, <1>6
<1>8. history' \o lost' = history'
    BY <1>2, <1>3, <1>6
<1>9. /\ ~Stopped
      /\ IF Accepted(history') THEN ~Stopped' ELSE Stopped' /\ pc' = "failed"
    BY <1>3 DEF Deliver, Goto, FailWith, Stopped
<1>10. IF Accepted(history' \o lost') THEN ~Stopped' ELSE Stopped' /\ pc' = "failed"
    BY <1>8, <1>9
<1> HIDE DEF n
<1> QED
    BY <1>4, <1>5, <1>7, <1>9, <1>10, SameGrammar DEF Promise!Exchange

(* An empty forecast ends the conversation, a nonempty one is a stutter.   *)
LEMMA PredictIsFinish == Predict => Promise!Finish \/ Promise!Fail \/ UNCHANGED Promise!vars
<1> SUFFICES ASSUME Predict
             PROVE  Promise!Finish \/ Promise!Fail \/ UNCHANGED Promise!vars
    OBVIOUS
<1>1. ~Stopped /\ history' = history /\ lost' = lost
    BY DEF Predict, Stopped, exchangeVars
<1>2. CASE forecast' # {}
    BY <1>1, <1>2 DEF Predict, Goto, Stopped, Promise!vars
<1>3. CASE forecast' = {} /\ history = <<>>
    BY <1>1, <1>3 DEF Predict, FailWith, Stopped, Promise!Fail
<1>4. CASE forecast' = {} /\ history # <<>>
    <2>1. Forecast(PacketsOf(history)) = {}
        BY <1>4 DEF Predict, ForecastingResults
    <2>2. pc' = "done"
        BY <1>4 DEF Predict, Goto
    <2> QED
        BY <1>1, <1>4, <2>1, <2>2, SameGrammar DEF Stopped, Promise!Finish
<1> QED
    BY <1>2, <1>3, <1>4

(* The other steps fail the conversation or stutter.                       *)
LEMMA MovesKeepPromise ==
    Moves \/ Fuzz \/ Select \/ ConsumeFragment
        => Promise!Fail \/ UNCHANGED Promise!vars
<1> SUFFICES ASSUME Moves \/ Fuzz \/ Select \/ ConsumeFragment
             PROVE  Promise!Fail \/ UNCHANGED Promise!vars
    OBVIOUS
<1> USE DEF Goto, FailWith, exchangeVars, outerVars
<1>1. history' = history /\ lost' = lost /\ ~Stopped /\ (Stopped' => pc' = "failed")
    <2>1. CASE Decide \/ FuzzGivesUp \/ Recheck \/ TransmitFails \/ NothingToTransmit
        BY <2>1 DEF Decide, FuzzGivesUp, Recheck, TransmitFails, NothingToTransmit,
            Stopped
    <2>2. CASE AwaitMessage \/ NothingReceived \/ ResponseTimeout
        BY <2>2 DEF AwaitMessage, NothingReceived, ResponseTimeout, Stopped
    <2>3. CASE AwaitParty \/ NoPartyOfForecast \/ UnexpectedParty
        BY <2>3 DEF AwaitParty, NoPartyOfForecast, UnexpectedParty, Stopped
    <2>4. CASE NoFragmentYet \/ FragmentTimeout \/ NothingParsed
        BY <2>4 DEF NoFragmentYet, FragmentTimeout, NothingParsed, Stopped
    <2>5. CASE Fuzz \/ Select \/ ConsumeFragment
        BY <2>5 DEF Fuzz, Select, ConsumeFragment, Stopped
    <2> QED
        BY <2>1, <2>2, <2>3, <2>4, <2>5 DEF Moves
<1> QED
    BY <1>1 DEF Promise!Fail, Promise!vars

(* A new session restarts the conversation.                                *)
LEMMA NewSessionIsRestart == NewSession => Promise!Restart
    BY DEF NewSession, Stopped, Promise!Restart

(* Every step maps to a step of the abstract conversation or stutters.     *)
LEMMA NextKeepsPromise == IInv /\ [Next]_vars => [Promise!Next]_(Promise!vars)
<1> SUFFICES ASSUME IInv, [Next]_vars PROVE [Promise!Next]_(Promise!vars)
    OBVIOUS
<1>1. CASE \E message \in Arrivals : Receive(message)
    BY <1>1 DEF Receive, Stopped, exchangeVars, Promise!vars
<1>2. CASE Transmit \/ Deliver \/ Predict \/ NewSession
    BY <1>2, TransmitIsExchange, DeliverIsExchange, PredictIsFinish,
        NewSessionIsRestart DEF Promise!Next
<1>3. CASE Moves \/ Fuzz \/ Select \/ ConsumeFragment
    BY <1>3, MovesKeepPromise DEF Promise!Next
<1>4. CASE UNCHANGED vars
    BY <1>4 DEF vars, exchangeVars, Stopped, Promise!vars
<1>5. Next => \/ \E message \in Arrivals : Receive(message)
              \/ Transmit \/ Deliver \/ Predict \/ NewSession
              \/ Moves \/ Fuzz \/ Select \/ ConsumeFragment
    BY DEF Next, Listen, Generate, Work, Timeout, Accident, Moves
<1> QED
    BY <1>1, <1>2, <1>3, <1>4, <1>5

(* Whatever the parties send, and when, a session exchanges what is        *)
(* forecast for its history, or what evolution has made of that, meets the *)
(* constraints, and ends when nothing is forecast.                         *)
THEOREM SessionKeepsPromise == Spec => KeepsPromise
    BY InitIInv, NextIInv, InitKeepsPromise, NextKeepsPromise, PTL
        DEF Spec, KeepsPromise, Promise!Spec

-----------------------------------------------------------------------------
(* What the promise implies, by Conversation_proofs.                       *)

Kept == INSTANCE Conversation_proofs WITH
    log <- history,
    status <- IF Stopped THEN pc ELSE "open"

(* The instance of Conversation in ProtocolSession is the one              *)
(* Conversation_proofs is about.                                           *)
LEMMA SamePromise ==
    /\ Promise!Init => Kept!Init
    /\ [Promise!Next]_(Promise!vars) => [Kept!Next]_(Kept!vars)
    /\ Kept!DoneMeansComplete => DoneMeansComplete
    /\ Kept!Beginnings = Beginnings
    /\ \A log : Kept!PacketsOf(log) = PacketsOf(log)
<1>1. Kept!Beginnings = Promise!Beginnings
    BY DEF Promise!Beginnings, Kept!Beginnings
<1>2. \A packets : Kept!Forecast(packets) = Promise!Forecast(packets)
    BY <1>1 DEF Promise!Forecast, Kept!Forecast
<1>3. \A log : Kept!PacketsOf(log) = Promise!PacketsOf(log)
    BY DEF Promise!PacketsOf, Kept!PacketsOf, Promise!PacketOf, Kept!PacketOf
<1>4. \A log : Kept!Accepted(log) <=> Promise!Accepted(log)
    BY DEF Promise!Accepted, Kept!Accepted
<1>5. \A packets, p : Kept!Additions(packets, p) = Promise!Additions(packets, p)
    <2>1. \A p, w : Kept!Message(p, w) = Promise!Message(p, w)
        BY DEF Promise!Message, Kept!Message
    <2>2. \A p : /\ Kept!Fresh(p) = Promise!Fresh(p)
                 /\ Kept!Sends(p) <=> Promise!Sends(p)
        BY <2>1 DEF Promise!Fresh, Kept!Fresh, Promise!Sends, Kept!Sends
    <2>3. \A packets : Kept!Texts(packets) = Promise!Texts(packets)
        BY <2>1 DEF Promise!Texts, Kept!Texts
    <2>4. \A packets, p : Kept!Reworked(packets, p) = Promise!Reworked(packets, p)
        BY <2>3 DEF Promise!Reworked, Kept!Reworked
    <2> QED
        BY <2>2, <2>4 DEF Promise!Additions, Kept!Additions
<1>6. Promise!Init => Kept!Init
    BY DEF Promise!Init, Kept!Init
<1>7. Promise!Exchange => Kept!Exchange
    BY <1>2, <1>3, <1>4, <1>5 DEF Promise!Exchange, Kept!Exchange
<1>8. Promise!Finish => Kept!Finish
    BY <1>2, <1>3 DEF Promise!Finish, Kept!Finish
<1>9. Promise!Fail \/ Promise!Restart => Kept!Fail \/ Kept!Restart
    BY DEF Promise!Fail, Kept!Fail, Promise!Restart, Kept!Restart
<1>10. [Promise!Next]_(Promise!vars) => [Kept!Next]_(Kept!vars)
    BY <1>7, <1>8, <1>9 DEF Promise!Next, Kept!Next, Promise!vars, Kept!vars
<1>11. Kept!DoneMeansComplete => DoneMeansComplete
    BY <1>1, <1>3, <1>4 DEF Kept!DoneMeansComplete, DoneMeansComplete,
        Promise!DoneMeansComplete
<1> QED
    BY <1>1, <1>3, <1>6, <1>10, <1>11, SameGrammar

(* The theorems of Conversation, read at the session's state.              *)
LEMMA KeptInvariant ==
    /\ Kept!Init => Kept!IInv
    /\ Kept!IInv /\ [Kept!Next]_(Kept!vars) => Kept!IInv'
    /\ Kept!IInv => DoneMeansComplete
    /\ Kept!IInv /\ [Kept!Next]_(Kept!vars)
         => [history' # history /\ history' # <<>>
               => PacketsOf(history) \in Beginnings]_(Promise!vars)
<1> USE PartyAssumption, GrammarAssumption, LanguageAssumption, ViableAssumption,
        ForecastAssumption, EvolvedAssumption
        DEF Parties, Kept!Parties, Packets, Kept!Packets, LostPackets,
            Kept!LostPackets, Beginnings, Kept!Beginnings, Continuations,
            Kept!Continuations, IsStrictPrefix, Kept!IsStrictPrefix, IsPrefix,
            Kept!IsPrefix
<1>1. Kept!Init => Kept!IInv
    BY Kept!InitIInv
<1>2. Kept!IInv /\ [Kept!Next]_(Kept!vars) => Kept!IInv'
    BY Kept!NextIInv
<1>3. Kept!IInv => DoneMeansComplete
    BY SamePromise DEF Kept!IInv
<1>4. Kept!IInv /\ [Kept!Next]_(Kept!vars)
         => [history' # history /\ history' # <<>>
               => PacketsOf(history) \in Beginnings]_(Promise!vars)
    BY Kept!NextFromBeginning, SamePromise DEF Kept!vars, Promise!vars
<1> QED
    BY <1>1, <1>2, <1>3, <1>4

(* A session that succeeds holds a tree that meets the constraints, and a  *)
(* whole conversation of the grammar unless its last addition has left it. *)
THEOREM SuccessIsComplete == Spec => []DoneMeansComplete
<1>1. KeepsPromise => []DoneMeansComplete
    BY SamePromise, KeptInvariant, PTL DEF KeepsPromise, Promise!Spec
<1> QED
    BY <1>1, SessionKeepsPromise, PTL

(* Once its history has left the grammar, a session exchanges nothing any  *)
(* more: a stray message is always its last.                               *)
THEOREM NothingAfterItStrays == Spec => NothingAfterStraying
<1>1. /\ Promise!Beginnings = Beginnings
      /\ \A log : Promise!PacketsOf(log) = PacketsOf(log)
    BY SameGrammar
<1>2. [history' # history /\ history' # <<>>
         => PacketsOf(history) \in Beginnings]_(Promise!vars)
      => [history' # history /\ history' # <<>>
            => Promise!PacketsOf(history) \in Promise!Beginnings]_(Promise!vars)
    BY <1>1
<1>3. KeepsPromise => NothingAfterStraying
    BY <1>2, SamePromise, KeptInvariant, PTL
        DEF KeepsPromise, Promise!Spec, NothingAfterStraying,
            Promise!NothingAfterStraying
<1> QED
    BY <1>3, SessionKeepsPromise, PTL

-----------------------------------------------------------------------------
(* Where the forecast is exact and evolution leaves one message in place.  *)

(* The history stays the beginning of a conversation.                      *)
LEMMA NextConforms ==
    ASSUME ForecastsExactly, MessagesStay, IInv, Conforms, [Next]_vars
    PROVE  Conforms'
<1> DEFINE C(log) == /\ PacketsOf(log) \in Beginnings
                     /\ \A i \in DOMAIN log : log[i].word \in Words[log[i].nt]
<1>1. (Conforms <=> C(history)) /\ (Conforms' <=> C(history'))
    BY SameGrammar DEF Conforms, Promise!Conforms
<1>2. ASSUME NEW p \in Forecast(PacketsOf(history)),
             NEW n \in Additions(PacketsOf(history), p),
             history' = history \o n.said
      PROVE  C(history')
    <2>1. PacketsOf(history) \in Beginnings
        BY ForecastSound
    <2>2. PICK q \in Forecast(PacketsOf(history)) : \E w \in Words[q.nt] :
             n = [said |-> <<Message(q, w)>>, lost |-> <<>>]
        BY <1>2, <2>1, MessagesStayOne
    <2>3. PICK w \in Words[q.nt] : n = [said |-> <<Message(q, w)>>, lost |-> <<>>]
        BY <2>2
    <2>4. q \in Packets /\ q \in Continuations(PacketsOf(history))
        BY <2>1, ForecastSound DEF ForecastsExactly
    <2>5. history \in Seq(Entries) /\ PacketsOf(history) \in Seq(Packets)
        BY PacketsOfType DEF IInv, TypeOK
    <2>6. w \in Seq(Atoms)
        BY <2>4, GrammarAssumption DEF Packets
    <2>7. Message(q, w) \in Entries /\ PacketOf(Message(q, w)) = q
        BY <2>4, <2>6, MessageType
    <2>8. history' = Append(history, Message(q, w))
        BY <1>2, <2>3, <2>5, <2>7
    <2>9. PacketsOf(history') \in Beginnings
        BY <2>4, <2>5, <2>7, <2>8, PacketsOfAppend, ContinuationSound
    <2>10. ASSUME NEW i \in DOMAIN history'
           PROVE  history'[i].word \in Words[history'[i].nt]
        <3>1. CASE i = Len(history) + 1
            BY <2>5, <2>7, <2>8, <3>1 DEF Message
        <3>2. CASE i # Len(history) + 1
            <4>1. i \in DOMAIN history /\ history'[i] = history[i]
                BY <2>5, <2>7, <2>8, <3>2
            <4> QED
                BY <1>1, <4>1
        <3> QED
            BY <3>1, <3>2
    <2> QED
        BY <2>9, <2>10
<1>3. CASE Promise!Exchange
    BY <1>1, <1>2, <1>3, SameGrammar DEF Promise!Exchange
<1>4. CASE Promise!Restart
    <2>1. history' = <<>> /\ PacketsOf(<<>>) = <<>>
        BY <1>4 DEF Promise!Restart, PacketsOf
    <2> QED
        BY <1>1, <2>1, EmptyBegins
<1>5. CASE Promise!Finish \/ Promise!Fail \/ UNCHANGED Promise!vars
    <2>1. history' = history
        BY <1>5 DEF Promise!Finish, Promise!Fail, Promise!vars
    <2> QED
        BY <1>1, <2>1
<1>6. [Promise!Next]_(Promise!vars)
    BY NextKeepsPromise
<1> QED
    BY <1>3, <1>4, <1>5, <1>6 DEF Promise!Next

(* For a grammar of which the forecast is exact, and as long as evolution  *)
(* replaces a message by another forecast one only, the history is always  *)
(* the beginning of a conversation of the grammar.                         *)
THEOREM HistoryConforms ==
    ASSUME ForecastsExactly, MessagesStay
    PROVE  Spec => []Conforms
<1>1. Init => Conforms
    <2>1. Init => history = <<>> /\ PacketsOf(history) = <<>>
        BY DEF Init, PacketsOf
    <2> QED
        BY <2>1, EmptyBegins, SameGrammar DEF Conforms, Promise!Conforms
<1>2. IInv /\ Conforms /\ [Next]_vars => Conforms'
    BY NextConforms
<1> QED
    BY <1>1, <1>2, InitIInv, NextIInv, PTL DEF Spec

(* Under the same conditions, what a session yields is a whole             *)
(* conversation, as the docstring of generate_solutions says.              *)
THEOREM SuccessIsAConversation ==
    ASSUME ForecastsExactly, MessagesStay
    PROVE  Spec => []SuccessIsValid
<1>1. Conforms /\ DoneMeansComplete => SuccessIsValid
    BY SameGrammar DEF Conforms, Promise!Conforms, DoneMeansComplete,
        Promise!DoneMeansComplete, SuccessIsValid, Stopped
<1> QED
    BY <1>1, HistoryConforms, SuccessIsComplete, PTL

=============================================================================
