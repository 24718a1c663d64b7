--------------------------- MODULE ProtocolSession ---------------------------
(***************************************************************************)
(* A protocol session: the main thread running Fandango._generate_io and,  *)
(* inside it, parse_next_remote_packet, while listener threads append      *)
(* received fragments to the buffer of FandangoIO between any two of its   *)
(* steps.                                                                  *)
(*                                                                         *)
(* Each action is the code between two consecutive accesses to the shared  *)
(* buffer, so a value read in one and used in the next may be stale.  The  *)
(* two-step polling loops of the code (poll, compare the clock, sleep) are *)
(* a state entered after a poll that found nothing, from which the clock   *)
(* may expire at any time, whatever has arrived since.                     *)
(***************************************************************************)
EXTENDS FandangoIO

CONSTANTS
    Arrivals,        \* what listener threads may receive
    MaxArrivals,     \* bound on the number of received fragments
    MaxSessions,     \* bound on the number of calls to fuzz(mode=IO)
    Bounded          \* TRUE iff max_generations is given

ASSUME SessionAssumption ==
    /\ Arrivals \subseteq Received
    /\ MaxArrivals \in Nat
    /\ MaxSessions \in Nat \ {0}
    /\ Bounded \in BOOLEAN

VARIABLES
    receive,    \* FandangoIO.receive
    pc,         \* where the main thread is
    forecast,   \* ForecastingResult: one packet per sender and nonterminal
    history,    \* history_tree.protocol_msgs()
    lost,       \* message nodes of history_tree that have lost their senders
    candidate,  \* what next_tree adds to the history
    solved,     \* _solution_set: what has been yielded for this history
    reader,     \* locals of parse_next_remote_packet
    error,      \* the exception that ended the session
    sessions,   \* calls to fuzz(mode=IO) so far
    taken,      \* every message taken from the buffer so far, and
    arrived     \* every fragment received so far: history variables

exchangeVars == <<history, lost, candidate, solved>>

outerVars == <<sessions, taken, arrived>>

vars == <<receive, pc, forecast, exchangeVars, reader, error, outerVars>>

-----------------------------------------------------------------------------

Locations == {"predict", "decide", "fuzz", "recheck", "transmit",
              "wait", "waiting", "expect", "expecting", "select",
              "fragment", "refragment", "deliver", "done", "failed"}

Stopped == pc \in {"done", "failed"}

Errors == {"none", "no_forecast", "no_candidate", "no_packet", "send_failed",
           "silence", "unexpected_party", "unknown_sender", "fragment_timeout",
           "unparsable", "constraints"}

(* The parse of one remote message: its sender; the position of the last   *)
(* fragment read and what has been read; the nonterminals whose parser can *)
(* continue; and complete_parses, which has for each nonterminal the       *)
(* position of its latest complete parse, that parse, and the position at  *)
(* which the dictionary got the key (its insertion order).                 *)
Parses == [nt : NonTerminals, first : Nat, last : Nat, word : Seq(Atoms)]

Readers == [sender : ExternalParties \cup {NoParty}, idx : Nat,
            read : Seq(Atoms), available : SUBSET NonTerminals,
            complete : SUBSET Parses]

IdleReader == [sender |-> NoParty, idx |-> 0, read |-> <<>>,
               available |-> {}, complete |-> {}]

Individuals == [said : Seq(Entries), lost : Seq(LostEntries)]

TypeOK == /\ receive \in Seq(Received)
          /\ pc \in Locations
          /\ forecast \in SUBSET Packets
          /\ history \in Seq(Entries)
          /\ lost \in Seq(LostEntries)
          /\ candidate \in Individuals
          /\ solved \in SUBSET Individuals
          /\ reader \in Readers
          /\ error \in Errors
          /\ sessions \in 1..MaxSessions
          /\ taken \in Seq(Entries)
          /\ arrived \in Seq(Received)

Init == /\ receive = <<>>
        /\ pc = "predict"
        /\ forecast = {}
        /\ history = <<>>
        /\ lost = <<>>
        /\ candidate = Nothing
        /\ solved = {}
        /\ reader = IdleReader
        /\ error = "none"
        /\ sessions = 1
        /\ taken = <<>>
        /\ arrived = <<>>

Goto(location) == pc' = location /\ error' = error

FailWith(reason) == pc' = "failed" /\ error' = reason

-----------------------------------------------------------------------------
(* The listener threads.                                                   *)

Receive(message) ==
    /\ Len(arrived) < MaxArrivals
    /\ receive' = AddReceive(receive, message)
    /\ arrived' = Append(arrived, message)
    /\ UNCHANGED <<pc, forecast, exchangeVars, reader, error, sessions, taken>>

Listen == \E message \in Arrivals : Receive(message)

-----------------------------------------------------------------------------
(* _generate_io: forecasting and Fandango's own messages.                  *)

(* ForecastingResult.add_packet keys packets by sender and nonterminal:    *)
(* packets that differ in the recipient only are merged into the one that  *)
(* was added first.                                                        *)
SameKey(p, q) == p.sender = q.sender /\ p.nt = q.nt

ForecastingResults(packets) ==
    {f \in SUBSET packets :
        /\ \A p \in packets : \E q \in f : SameKey(p, q)
        /\ \A p, q \in f : SameKey(p, q) => p = q}

MsgParties(packets) == {p.sender : p \in packets}

Predict ==
    /\ pc = "predict"
    /\ forecast' \in ForecastingResults(Forecast(PacketsOf(history)))
    /\ IF forecast' # {} THEN Goto("decide")
       ELSE IF history = <<>> THEN FailWith("no_forecast")
       ELSE Goto("done")
    /\ UNCHANGED <<receive, exchangeVars, reader, outerVars>>

Fuzzable == {p \in forecast : Sends(p)}

(* Fandango speaks only when it may and nothing has been received.         *)
Decide ==
    /\ pc = "decide"
    /\ IF Fuzzable # {} /\ ~ReceivedMsg(receive) THEN Goto("fuzz")
                                                 ELSE Goto("wait")
    /\ UNCHANGED <<receive, forecast, exchangeVars, reader, outerVars>>

Solution(n) == Solves(history \o n.said \o n.lost)

(* Mutant: no record is kept of the solutions yielded.                     *)
CandidatesAgain ==
    LET fresh == UNION {Fresh(p) : p \in Fuzzable}
        reworked == UNION {Reworked(PacketsOf(history), p) : p \in Fuzzable}
    IN  {n \in fresh : Solution(n)}
        \cup {n \in reworked : Solution(n) /\ \E m \in fresh : ~Solution(m)}

(* The solutions among the messages mounted by refill_population and, if   *)
(* some of these fail, among what the mutations of failing ones may make   *)
(* of them; evaluate_individual yields none twice.                         *)
Candidates ==
    LET fresh == UNION {Fresh(p) : p \in Fuzzable}
        reworked == UNION {Reworked(PacketsOf(history), p) : p \in Fuzzable}
    IN  ({n \in fresh : Solution(n)}
         \cup {n \in reworked : Solution(n) /\ \E m \in fresh : ~Solution(m)})
        \ solved

(* A solution of the refilled population or of the evolution after it.     *)
Fuzz ==
    /\ pc = "fuzz"
    /\ \E n \in Candidates : candidate' = n /\ solved' = solved \cup {n}
    /\ Goto("recheck")
    /\ UNCHANGED <<receive, forecast, history, lost, reader, outerVars>>

(* The evolution is random: within max_generations it may find nothing.    *)
FuzzGivesUp ==
    /\ pc = "fuzz"
    /\ Bounded
    /\ FailWith("no_candidate")
    /\ UNCHANGED <<receive, forecast, exchangeVars, reader, outerVars>>

(* "Abort if we received a message during fuzzing".                        *)
Recheck ==
    /\ pc = "recheck"
    /\ IF ReceivedMsg(receive) THEN Goto("predict") /\ candidate' = Nothing
                               ELSE Goto("transmit") /\ UNCHANGED candidate
    /\ UNCHANGED <<receive, forecast, history, lost, solved, reader, outerVars>>

(* next_tree.protocol_msgs(), the last of which is new_packet: when the    *)
(* candidate says nothing, that is the one exchanged before.               *)
NextMessages == history \o candidate.said

(* protocol_msgs()[-1] raises IndexError.                                  *)
NothingToTransmit ==
    /\ pc = "transmit"
    /\ NextMessages = <<>>
    /\ FailWith("no_packet")
    /\ UNCHANGED <<receive, forecast, exchangeVars, reader, outerVars>>

(* The solutions yielded before contain a shorter history.                 *)
Transmit ==
    /\ pc = "transmit"
    /\ NextMessages # <<>>
    /\ history' = NextMessages
    /\ lost' = candidate.lost
    /\ solved' = IF candidate.said = <<>> THEN solved ELSE {}
    /\ candidate' = Nothing
    /\ Goto("predict")
    /\ UNCHANGED <<receive, forecast, reader, outerVars>>

(* on_send of the sender raises: a message between two parties of Fandango *)
(* is never sent.                                                          *)
TransmitFails ==
    /\ pc = "transmit"
    /\ NextMessages # <<>>
    /\ Travels(Last(NextMessages))
    /\ FailWith("send_failed")
    /\ UNCHANGED <<receive, forecast, exchangeVars, reader, outerVars>>

-----------------------------------------------------------------------------
(* _generate_io: waiting for a remote party.                               *)

(* Mutant: the buffer is polled only once.                                 *)
AwaitMessageAtOnce ==
    /\ pc = "wait"
    /\ ReceivedMsg(receive)
    /\ Goto("expect")
    /\ UNCHANGED <<receive, forecast, exchangeVars, reader, outerVars>>

AwaitMessage ==
    /\ pc \in {"wait", "waiting"}
    /\ ReceivedMsg(receive)
    /\ Goto("expect")
    /\ UNCHANGED <<receive, forecast, exchangeVars, reader, outerVars>>

NothingReceived ==
    /\ pc = "wait"
    /\ ~ReceivedMsg(receive)
    /\ Goto("waiting")
    /\ UNCHANGED <<receive, forecast, exchangeVars, reader, outerVars>>

(* remote_response_timeout: the last poll found nothing.                   *)
ResponseTimeout ==
    /\ pc = "waiting"
    /\ FailWith("silence")
    /\ UNCHANGED <<receive, forecast, exchangeVars, reader, outerVars>>

-----------------------------------------------------------------------------
(* parse_next_remote_packet.                                               *)

ExpectedSenders == SendersIn(receive) \cap MsgParties(forecast)

(* Mutant: any message ends the wait.                                      *)
AwaitAnyParty ==
    /\ pc \in {"expect", "expecting"}
    /\ ReceivedMsg(receive)
    /\ Goto("select")
    /\ UNCHANGED <<receive, forecast, exchangeVars, reader, outerVars>>

AwaitParty ==
    /\ pc \in {"expect", "expecting"}
    /\ ExpectedSenders # {}
    /\ Goto("select")
    /\ UNCHANGED <<receive, forecast, exchangeVars, reader, outerVars>>

NoPartyOfForecast ==
    /\ pc = "expect"
    /\ ExpectedSenders = {}
    /\ Goto("expecting")
    /\ UNCHANGED <<receive, forecast, exchangeVars, reader, outerVars>>

UnexpectedParty ==
    /\ pc = "expecting"
    /\ FailWith("unexpected_party")
    /\ UNCHANGED <<receive, forecast, exchangeVars, reader, outerVars>>

(* Mutant: the keys of the forecast, which are the parties, for those of   *)
(* the party's packets, which are the nonterminals.                        *)
StartReaderOfParties(party) ==
    [IdleReader EXCEPT
        !.sender = party,
        !.available = {p.sender : p \in forecast}]

StartReader(party) ==
    [IdleReader EXCEPT
        !.sender = party,
        !.available = {p.nt : p \in {p \in forecast : p.sender = party}}]

(* The first buffered message whose sender is in the forecast.  If there   *)
(* is none, the loop ends with the sender of the last message, which the   *)
(* forecast is then asked for: the lookup raises.                          *)
Select ==
    /\ pc = "select"
    /\ IF ExpectedSenders = {}
       THEN FailWith("unknown_sender") /\ UNCHANGED reader
       ELSE /\ \E i \in First({i \in DOMAIN receive :
                                receive[i].sender \in ExpectedSenders}) :
                   reader' = StartReader(receive[i].sender)
            /\ Goto("fragment")
    /\ UNCHANGED <<receive, forecast, exchangeVars, outerVars>>

(* Mutant: the search starts at the fragment consumed last.                *)
NextFragmentsAgain == FragmentsFrom(receive, reader.sender, reader.idx)

NextFragments == FragmentsFrom(receive, reader.sender, reader.idx + 1)

(* What a fragment that makes the sender's word read, complete for the     *)
(* nonterminals in now, adds to complete_parses.                           *)
Complete(complete, now, i, read) ==
    LET again == {c \in complete : c.nt \in now}
        fresh == now \ {c.nt : c \in again}
    IN  (complete \ again)
        \cup {[c EXCEPT !.last = i, !.word = read] : c \in again}
        \cup {[nt |-> nt, first |-> i, last |-> i, word |-> read] : nt \in fresh}

(* Mutant: parsers that cannot continue are dropped before their parse is  *)
(* taken.                                                                  *)
FeedDroppedFirst(r, i, fragment) ==
    LET read == r.read \o fragment
        open == {nt \in r.available : read \in Viable[nt]}
    IN  [r EXCEPT
          !.idx = i,
          !.read = read,
          !.available = open,
          !.complete = Complete(@, {nt \in open : read \in Words[nt]}, i, read)]

(* Every parser that can continue consumes the fragment.  A complete parse *)
(* counts when populate_sources accepts it.                                *)
Feed(r, i, fragment) ==
    LET read == r.read \o fragment
        now  == {nt \in r.available : read \in Words[nt] \ Underivable[nt]}
    IN  [r EXCEPT
          !.idx = i,
          !.read = read,
          !.available = {nt \in @ : read \in Viable[nt]},
          !.complete = Complete(@, now, i, read)]

ConsumeFragment ==
    /\ pc \in {"fragment", "refragment"}
    /\ \E i \in First(NextFragments) :
          reader' = Feed(reader, i, receive[i].fragment)
    /\ IF reader'.available # {} THEN Goto("fragment") ELSE Goto("deliver")
    /\ UNCHANGED <<receive, forecast, exchangeVars, outerVars>>

NoFragmentYet ==
    /\ pc = "fragment"
    /\ NextFragments = {}
    /\ Goto("refragment")
    /\ UNCHANGED <<receive, forecast, exchangeVars, reader, outerVars>>

(* Mutant: a timeout is an error, whatever has been parsed.                *)
FragmentTimeoutRaises ==
    /\ pc = "refragment"
    /\ FailWith("fragment_timeout")
    /\ UNCHANGED <<receive, forecast, exchangeVars, reader, outerVars>>

(* The clock is compared after the buffer is searched again, and wins even *)
(* when that search has just found the fragment.                           *)
FragmentTimeout ==
    /\ pc = "refragment"
    /\ IF reader.complete = {} THEN FailWith("fragment_timeout")
                                      ELSE Goto("deliver")
    /\ UNCHANGED <<receive, forecast, exchangeVars, reader, outerVars>>

(* Mutant: the shortest parse.                                             *)
ShortestParses ==
    {c \in reader.complete : \A d \in reader.complete : c.last <= d.last}

(* The longest complete parse; among equals, the first of the dictionary.  *)
BestParses ==
    LET longest == {c \in reader.complete :
                      \A d \in reader.complete : d.last <= c.last}
    IN  {c \in longest : \A d \in longest : c.first <= d.first}

(* Clear the fragments of the message and mount it, in a tree that the     *)
(* forecast has made of the messages of the history alone.                 *)
Mount ==
    /\ pc = "deliver"
    /\ \E c \in BestParses : \E p \in forecast :
          /\ p.sender = reader.sender /\ p.nt = c.nt
          /\ receive' \in ClearByParty(receive, reader.sender, c.last)
          /\ history' = Append(history, Message(p, c.word))
          /\ taken' = Append(taken, Message(p, c.word))
    /\ lost' = <<>>
    /\ solved' = {}
    /\ reader' = IdleReader
    /\ UNCHANGED <<forecast, candidate, sessions, arrived>>

(* Mutants: the constraints are not evaluated; the forecast is not renewed. *)
DeliverUnchecked == Mount /\ Goto("predict")

DeliverStaleForecast ==
    /\ Mount
    /\ IF Accepted(history') THEN Goto("decide")
                             ELSE FailWith("constraints")

(* The result is evaluated: a response that violates a constraint ends the *)
(* session.                                                                *)
Deliver ==
    /\ Mount
    /\ IF Accepted(history') THEN Goto("predict")
                             ELSE FailWith("constraints")

NothingParsed ==
    /\ pc = "deliver"
    /\ reader.complete = {}
    /\ FailWith("unparsable")
    /\ UNCHANGED <<receive, forecast, exchangeVars, reader, outerVars>>

-----------------------------------------------------------------------------

(* Mutant: the strategy, with its history, is used again.                  *)
ContinueSession ==
    /\ Stopped
    /\ sessions < MaxSessions
    /\ sessions' = sessions + 1
    /\ pc' = "predict"
    /\ error' = "none"
    /\ UNCHANGED <<receive, forecast, exchangeVars, reader, taken, arrived>>

(* fuzz(mode=IO) is called again: a new strategy, the same FandangoIO.     *)
NewSession ==
    /\ Stopped
    /\ sessions < MaxSessions
    /\ sessions' = sessions + 1
    /\ history' = <<>>
    /\ lost' = <<>>
    /\ candidate' = Nothing
    /\ solved' = {}
    /\ reader' = IdleReader
    /\ pc' = "predict"
    /\ error' = "none"
    /\ forecast' = {}
    /\ UNCHANGED <<receive, taken, arrived>>

Work ==
    \/ Predict \/ Decide \/ Fuzz \/ Recheck \/ Transmit \/ NothingToTransmit
    \/ AwaitMessage \/ NothingReceived
    \/ AwaitParty \/ NoPartyOfForecast \/ Select
    \/ ConsumeFragment \/ NoFragmentYet \/ Deliver \/ NothingParsed

Timeout == ResponseTimeout \/ UnexpectedParty \/ FragmentTimeout

Accident == FuzzGivesUp \/ TransmitFails

Generate == Work \/ Timeout \/ Accident

Next == Listen \/ Generate \/ NewSession

Spec == Init /\ [][Next]_vars

(* The main thread is never starved: its clock advances, so every poll     *)
(* loop ends, and nothing it calls in these steps blocks.                  *)
Fairness == WF_vars(Generate)

FairSpec == Spec /\ Fairness

-----------------------------------------------------------------------------
(* Properties.                                                             *)

Fragments(buffer, party, toIdx) ==
    [k \in 1..toIdx |->
        IF buffer[k].sender = party THEN buffer[k].fragment ELSE <<>>]

(* What a party has said, in the buffer up to a position and in a log.     *)
Heard(buffer, party, toIdx) == FlattenSeq(Fragments(buffer, party, toIdx))

Logged(log, party) ==
    FlattenSeq([k \in 1..Len(log) |->
                  IF log[k].sender = party THEN log[k].word ELSE <<>>])

(* Nothing an external party sends is lost, duplicated or reordered: what  *)
(* the sessions have taken of it, followed by what is still buffered, is   *)
(* what arrived from it (find_next_fragment, clear_by_party).              *)
Conservation ==
    \A party \in ExternalParties :
        Logged(taken, party) \o Heard(receive, party, Len(receive))
        = Heard(arrived, party, Len(arrived))

Reading == pc \in {"fragment", "refragment", "deliver"}

(* The positions the parser keeps between its accesses stay valid while    *)
(* listeners append: what it has read is what the buffer still holds of    *)
(* the sender up to current_fragment_idx, and so is each complete parse.   *)
PositionsStayValid ==
    Reading =>
        /\ reader.idx <= Len(receive)
        /\ reader.read = Heard(receive, reader.sender, reader.idx)
        /\ \A c \in reader.complete :
              /\ c.first <= c.last /\ c.last <= reader.idx
              /\ c.word = Heard(receive, reader.sender, c.last)

(* No complete message among the fragments read is overlooked: the parse   *)
(* kept for a forecast nonterminal is as long as any.  (Not as late as     *)
(* any: a fragment read from a stream at its end is empty, and leaves a    *)
(* complete parse where it was once its parser has been dropped.)          *)
LongestParseKept ==
    Reading =>
        \A p \in {p \in forecast : p.sender = reader.sender} :
            \A k \in FragmentsFrom(receive, reader.sender, 1) :
                LET said == Heard(receive, reader.sender, k) IN
                k <= reader.idx /\ said \in Words[p.nt] \ Underivable[p.nt]
                => \E c \in reader.complete :
                      c.nt = p.nt /\ Len(said) <= Len(c.word)

(* Between the poll that saw a message of a forecast party and the lookups *)
(* that rely on it, the message stays: the sender is always found.         *)
SenderStaysForecast ==
    /\ pc = "select" => ExpectedSenders # {}
    /\ Reading => reader.sender \in MsgParties(forecast)
    /\ error # "unknown_sender"

(* A session exchanges what the forecast, the grammar and the constraints  *)
(* allow.                                                                  *)
Promise == INSTANCE Conversation WITH
    log <- history,
    status <- IF Stopped THEN pc ELSE "open"

KeepsPromise == Promise!Spec

(* A prediction is renewed with every message: once the history has left   *)
(* the grammar, nothing is exchanged any more.                             *)
NothingAfterStraying == Promise!NothingAfterStraying

(* What _generate_io yields has met the constraints, and is a whole        *)
(* conversation unless its last addition has left the grammar.             *)
DoneMeansComplete == Promise!DoneMeansComplete

(* The history begins a conversation, where the forecast is exact and no   *)
(* message is lost (see ProtocolSession_proofs).                           *)
Conforms == Promise!Conforms

(* "Generate trees that conform to the language" (generate_solutions):     *)
(* what a session yields is a whole conversation.                          *)
SuccessIsValid == pc = "done" => PacketsOf(history) \in Language

(* "Finds all possible protocol messages that can be mounted to the given  *)
(* DerivationTree" (PathFinder.find).                                      *)
EveryMessageForecast ==
    pc = "decide" => forecast = Forecast(PacketsOf(history))

(* Whatever the parties send, and when, every session ends: it completes a *)
(* conversation or raises.                                                 *)
SessionEnds == []<>Stopped

=============================================================================
