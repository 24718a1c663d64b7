------------------------- MODULE Conversation_proofs -------------------------
(***************************************************************************)
(* What the promise of a session implies: whoever keeps it says nothing    *)
(* after leaving the grammar, and holds, at the end, a tree that meets the *)
(* constraints and a whole conversation, unless it has just left the       *)
(* grammar.                                                                *)
(***************************************************************************)
EXTENDS Conversation, Protocol_proofs

(* A log that was worth going on with meets the constraints.               *)
OpenIsAccepted ==
    status \in {"open", "done"} =>
        Accepted(log \o lost) \/ (log = <<>> /\ lost = <<>>)

IInv == TypeOK /\ OpenIsAccepted /\ DoneMeansComplete

(* The empty conversation has the invariant.                               *)
LEMMA InitIInv == Init => IInv
    BY DEF Init, IInv, TypeOK, OpenIsAccepted, DoneMeansComplete

(* What an exchange adds keeps the log a log.                              *)
LEMMA ExchangeType ==
    ASSUME TypeOK, Exchange
    PROVE  /\ log' \in Seq(Entries) /\ lost' \in Seq(LostEntries)
           /\ PacketsOf(log) \in Beginnings
<1>1. PICK p \in Forecast(PacketsOf(log)) :
         \E n \in Additions(PacketsOf(log), p) :
             log' = log \o n.said /\ lost' = n.lost
    BY DEF Exchange
<1>2. PICK n \in Additions(PacketsOf(log), p) :
         log' = log \o n.said /\ lost' = n.lost
    BY <1>1
<1>3. p \in Packets /\ PacketsOf(log) \in Beginnings
    BY ForecastSound
<1>4. n \in [said : Seq(Entries), lost : Seq(LostEntries)]
    BY <1>3, AdditionsType
<1>5. n.said \in Seq(Entries) /\ n.lost \in Seq(LostEntries) /\ log \in Seq(Entries)
    BY <1>4 DEF TypeOK
<1> QED
    BY <1>2, <1>3, <1>5

(* Every step of the abstract session keeps the invariant: when nothing    *)
(* more is forecast, a log within the grammar is a whole conversation.     *)
LEMMA NextIInv == IInv /\ [Next]_vars => IInv'
<1> SUFFICES ASSUME IInv, [Next]_vars PROVE IInv'
    OBVIOUS
<1> USE DEF IInv
<1>1. CASE Exchange
    <2>1. log' \in Seq(Entries) /\ lost' \in Seq(LostEntries)
        BY <1>1, ExchangeType
    <2>2. \/ status' = "open" /\ Accepted(log' \o lost')
          \/ status' = "failed"
        BY <1>1 DEF Exchange
    <2>3. TypeOK'
        BY <2>1, <2>2 DEF TypeOK
    <2>4. OpenIsAccepted' /\ DoneMeansComplete'
        BY <2>2 DEF OpenIsAccepted, DoneMeansComplete, Accepted
    <2> QED
        BY <2>3, <2>4
<1>2. CASE Finish
    <2>1. log' = log /\ lost' = lost /\ log # <<>> /\ status' = "done"
        BY <1>2 DEF Finish
    <2>2. Accepted(log \o lost)
        BY <1>2, <2>1 DEF Finish, OpenIsAccepted
    <2>3. PacketsOf(log) \in Beginnings => PacketsOf(log) \in Language
        BY <1>2, ForecastComplete DEF Finish
    <2>4. TypeOK'
        BY <2>1 DEF TypeOK
    <2>5. OpenIsAccepted' /\ DoneMeansComplete'
        BY <2>1, <2>2, <2>3 DEF OpenIsAccepted, DoneMeansComplete, Accepted
    <2> QED
        BY <2>4, <2>5
<1>3. CASE Fail
    BY <1>3 DEF Fail, TypeOK, OpenIsAccepted, DoneMeansComplete
<1>4. CASE Restart
    BY <1>4 DEF Restart, TypeOK, OpenIsAccepted, DoneMeansComplete
<1>5. CASE UNCHANGED vars
    BY <1>5 DEF vars, TypeOK, OpenIsAccepted, DoneMeansComplete, Accepted
<1> QED
    BY <1>1, <1>2, <1>3, <1>4, <1>5 DEF Next

(* Whoever keeps the promise holds a conversation when it is done.         *)
THEOREM PromiseIsSafe == Spec => [](TypeOK /\ DoneMeansComplete)
<1>1. IInv => TypeOK /\ DoneMeansComplete
    BY DEF IInv
<1> QED
    BY InitIInv, NextIInv, <1>1, PTL DEF Spec

(* A step that lengthens a log finds the log within the grammar.           *)
LEMMA NextFromBeginning ==
    IInv /\ [Next]_vars
        => [log' # log /\ log' # <<>> => PacketsOf(log) \in Beginnings]_vars
<1> SUFFICES ASSUME IInv, Next, log' # log, log' # <<>>
             PROVE  PacketsOf(log) \in Beginnings
    OBVIOUS
<1>1. Exchange
    BY DEF Next, Finish, Fail, Restart
<1> QED
    BY <1>1, ExchangeType DEF IInv

(* Whoever keeps the promise says nothing after leaving the grammar.       *)
THEOREM PromiseStops == Spec => NothingAfterStraying
    BY InitIInv, NextIInv, NextFromBeginning, PTL DEF Spec, NothingAfterStraying

=============================================================================
