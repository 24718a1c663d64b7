--------------------------- MODULE CompliantPeers ---------------------------
(***************************************************************************)
(* A protocol session among parties that keep to the protocol: the system  *)
(* ProtocolSession is made for.  The external parties follow the grammar   *)
(* and the constraints, speak when the conversation allows it, cut their   *)
(* messages into fragments as they like but never join two of them, and    *)
(* answer before Fandango's timeouts; sending succeeds; and the grammar    *)
(* and the constraints are such that Fandango keeps to the protocol, too.  *)
(***************************************************************************)
EXTENDS ProtocolSession

VARIABLES
    wire,      \* the conversation as it really takes place
    outbox     \* the fragments the speaking party has still to send

peerVars == <<wire, outbox>>

(* The messages of a packet that its recipient can take.                   *)
Sayable(p) == Words[p.nt] \ Underivable[p.nt]

(* The system's side of it: no loop has iterations of several messages, in *)
(* the middle of which the forecast would offer what follows the loop; and *)
(* no constraint can fail because of a message node of Fandango's, or of a *)
(* node above, so that no mutation regenerates more than their contents.   *)
ASSUME ExactForecasts == ForecastsExactly

ASSUME TameEvolution == MessagesStay

(* In a turn-based protocol, it is never both Fandango's and another       *)
(* party's turn; external parties address Fandango's parties; and what a   *)
(* party says tells its nonterminal apart from the others it might say.    *)
ASSUME TurnBased ==
    \A b \in Beginnings : \A p, q \in Forecast(b) :
        /\ Sends(p) <=> Sends(q)
        /\ Sends(p) \/ p.recipient \notin ExternalParties
        /\ SameKey(p, q) => p = q
        /\ p # q /\ p.sender = q.sender /\ ~Sends(p) =>
              Words[p.nt] \cap Words[q.nt] = {}

(* There is something to say; and external parties do not say nothing.     *)
ASSUME Spoken ==
    /\ Language # {<<>>}
    /\ \A c \in Language : \A i \in DOMAIN c : ~Sends(c[i]) => <<>> \notin Sayable(c[i])

(* Where a party speaks twice before it is answered, its first message is  *)
(* not continued to another one by the beginning of its second: the buffer *)
(* does not show where a message ends.                                     *)
ASSUME Separable ==
    \A c \in Language : \A i, j \in DOMAIN c :
        /\ i < j /\ c[i].sender = c[j].sender
        /\ \A k \in i..j : ~Sends(c[k])
        => \A q \in Forecast(SubSeq(c, 1, i - 1)) :
              q.sender = c[i].sender =>
                \A w \in Sayable(c[i]), v \in Sayable(q), u \in Sayable(c[j]) :
                    IsStrictPrefix(w, v) => v[Len(w) + 1] # u[1]

(* A conversation that keeps to the grammar and the constraints can be     *)
(* gone on with by the external party whose turn it is.                    *)
ASSUME Answerable ==
    \A b \in Beginnings : \A words \in [DOMAIN b -> UNION {Words[nt] : nt \in NonTerminals}] :
        LET log == [i \in DOMAIN b |-> Message(b[i], words[i])] IN
        /\ \A i \in DOMAIN b : words[i] \in Words[b[i].nt]
        /\ b = <<>> \/ Accepted(log)
        /\ \E p \in Forecast(b) : ~Sends(p)
        => \E p \in Forecast(b) : \E w \in Sayable(p) :
              Accepted(Append(log, Message(p, w)))

PeersInit == Init /\ wire = <<>> /\ outbox = <<>>

(* The ways to cut a word: the cuts are the ends of its fragments.         *)
Cuts(w, ends) ==
    LET last(k) == {0} \cup {j \in ends : j < k}
        Start(k) == CHOOSE j \in last(k) : \A i \in last(k) : i <= j
    IN  {[k \in 1..Cardinality(ends) |->
             SubSeq(w, Start(f[k]) + 1, f[k])] :
           f \in {f \in [1..Cardinality(ends) -> ends] :
                    \A i, j \in 1..Cardinality(ends) : i < j => f[i] < f[j]}}

Fragmentations(w) ==
    UNION {Cuts(w, ends \cup {Len(w)}) : ends \in SUBSET (1..(Len(w) - 1))}

MayStart(p, w) ==
    /\ outbox = <<>>
    /\ p \in Forecast(PacketsOf(wire))
    /\ ~Sends(p)
    /\ w \in Sayable(p)
    /\ Accepted(Append(wire, Message(p, w)))

PeerStarts ==
    /\ \E p \in Forecast(PacketsOf(wire)) : \E w \in Words[p.nt] :
          /\ MayStart(p, w)
          /\ wire' = Append(wire, Message(p, w))
          /\ \E fragments \in Fragmentations(w), r \in FuzzerParties :
                /\ p.recipient # NoParty => r = p.recipient
                /\ outbox' = [k \in DOMAIN fragments |->
                                [sender |-> p.sender, receiver |-> r,
                                 fragment |-> fragments[k]]]
    /\ UNCHANGED vars

PeerSends ==
    /\ outbox # <<>>
    /\ Receive(Head(outbox))
    /\ outbox' = Tail(outbox)
    /\ UNCHANGED wire

(* No party has anything to say.                                           *)
PeersIdle ==
    /\ outbox = <<>>
    /\ \A p \in Forecast(PacketsOf(wire)) : \A w \in Words[p.nt] :
          ~MayStart(p, w)

FandangoWorks ==
    /\ Work
    /\ wire' = IF pc = "transmit" /\ NextMessages # <<>>
               THEN Append(wire, Last(NextMessages)) ELSE wire
    /\ UNCHANGED outbox

(* Parties are prompt: a timeout expires only when none is due to speak    *)
(* and what they said last has been polled.                                *)
FandangoTimesOut ==
    /\ Timeout
    /\ PeersIdle
    /\ pc = "waiting" => ~ReceivedMsg(receive)
    /\ pc = "expecting" => ExpectedSenders = {}
    /\ pc = "refragment" => NextFragments = {}
    /\ UNCHANGED peerVars

NextSession == NewSession /\ wire' = <<>> /\ UNCHANGED outbox

PeersNext == \/ PeerStarts \/ PeerSends
             \/ FandangoWorks \/ FandangoTimesOut \/ NextSession

allVars == <<vars, peerVars>>

PeersSpec == PeersInit /\ [][PeersNext]_allVars

(* Parties that are due do speak, and the main thread runs.                *)
PeersFairSpec ==
    /\ PeersSpec
    /\ WF_allVars(PeerStarts \/ PeerSends)
    /\ WF_allVars(FandangoWorks \/ FandangoTimesOut)

-----------------------------------------------------------------------------
(* Properties.                                                             *)

(* Fandango's history is always a prefix of what really took place, down   *)
(* to the contents: received messages are attributed and cut as they were  *)
(* meant, and nothing is transmitted out of turn, although received_msg()  *)
(* is polled some time before transmit().                                  *)
HistoryIsWhatHappened == IsPrefix(history, wire)

(* A session with parties that keep to the protocol never raises.          *)
NeverFails == error = "none"

(* Such a session leaves no fragment behind for the next one, although the *)
(* buffer of the FandangoIO singleton is never reset.                      *)
NothingLeftBehind ==
    pc = "done" => receive = <<>> /\ outbox = <<>> /\ history = wire

(* Such a session completes.                                               *)
Completes == pc = "predict" ~> pc = "done"

=============================================================================
