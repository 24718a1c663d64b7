-------------------------- MODULE SocketParty_proofs --------------------------
(***************************************************************************)
(* The safety of a socket party, for any number of starts and messages.    *)
(*                                                                         *)
(* None of the properties is inductive: each of them rests on who holds    *)
(* the lock, who is alive, and what both threads may assume about the      *)
(* connection at each point.                                               *)
(***************************************************************************)
EXTENDS SocketParty, TLAPS

Threads == Runs \cup {Main}

(* The listeners are spawned in order, and only the last one is alive.     *)
SpawnedInOrder ==
    /\ thread <= run
    /\ \A i \in Runs : run < i => listeners[i] = "unborn"
    /\ \A i \in Runs : Alive(i) => i = thread
    /\ op = "start" /\ main \in {"join", "launch"} => run < MaxStarts

(* start() and stop() work on a party that is not running; the others on   *)
(* one that has a listener.                                                *)
MainInOrder ==
    /\ main \in {"join", "launch"} => ~running
    /\ main = "launch" => thread = 0 /\ op = "start"
    /\ main \in {"lock", "accept", "send"} => thread # 0

(* The lock is held while connecting, which there is nothing to undo for.  *)
LockHeldToConnect ==
    /\ lock = Main <=> main = "accept"
    /\ \A i \in Runs : lock = i <=> listeners[i] = "accept"
    /\ lock # 0 => connection = "none"

(* What the existence of the listener and of the connection tell.          *)
LinkFollowsThread ==
    /\ thread = 0 => connection = "none"
    /\ thread # 0 => sock # "none"
    /\ thread # 0 /\ connection = "none" => accepted = 0
    /\ accepted <= 1

(* Nobody reads or sends before there is a connection.                     *)
UsersAreConnected ==
    /\ \A i \in Runs : listeners[i] = "recv" =>
          connection # "none" /\ (connection = "reset" \/ inflight > 0)
    /\ \A i \in Runs : listeners[i] = "loop" => connection # "none" \/ ~running
    /\ main \in {"lock", "accept"} /\ connection = "none" => running
    /\ main = "send" => connection # "none"
    /\ outcome # "assertion"

IInv == /\ TypeOK
        /\ SpawnedInOrder
        /\ MainInOrder
        /\ LockHeldToConnect
        /\ LinkFollowsThread
        /\ UsersAreConnected
        /\ RunningMeansListening

(* The main thread has an identity of its own.                             *)
LEMMA MainIsNoRun ==
    Main \in Nat /\ 0 \notin Runs /\ Main \notin Runs /\ Main # 0
BY SocketAssumption DEF Main, Runs

(* A new party satisfies the invariant.                                    *)
LEMMA InitIInv == Init => IInv
<1> SUFFICES ASSUME Init PROVE IInv
  OBVIOUS
<1>1. TypeOK
  <2>1. running \in BOOLEAN /\ backlog \in BOOLEAN /\ kind \in Kinds
    BY Zenon DEF Init
  <2>2. /\ lock \in 0..Main /\ remote \in 0..MaxStarts
        /\ thread \in 0..MaxStarts /\ run \in 0..MaxStarts
        /\ inflight \in 0..MaxData /\ accepted \in 0..2
    BY SocketAssumption DEF Init, Main
  <2> QED
    BY <2>1, <2>2 DEF Init, TypeOK
<1>2. SpawnedInOrder
  BY SocketAssumption DEF Init, SpawnedInOrder, Alive, Runs
<1>3. MainInOrder /\ RunningMeansListening
  BY DEF Init, MainInOrder, RunningMeansListening
<1>4. LockHeldToConnect
  BY MainIsNoRun DEF Init, LockHeldToConnect
<1>5. LinkFollowsThread /\ UsersAreConnected
  BY DEF Init, LinkFollowsThread, UsersAreConnected
<1> QED
  BY <1>1, <1>2, <1>3, <1>4, <1>5 DEF IInv

-----------------------------------------------------------------------------
(* start() and stop().                                                     *)

(* start() on a running party changes nothing.                             *)
LEMMA StartPreserves == ASSUME IInv, Start PROVE IInv'
<1>1. TypeOK'
  BY DEF IInv, TypeOK, Start, Return, linkVars, netVars
<1>2. (SpawnedInOrder /\ MainInOrder /\ LockHeldToConnect)'
  BY DEF IInv, SpawnedInOrder, MainInOrder, LockHeldToConnect, Alive, Start,
         Return, linkVars
<1>3. (LinkFollowsThread /\ UsersAreConnected /\ RunningMeansListening)'
  BY DEF IInv, LinkFollowsThread, UsersAreConnected, RunningMeansListening,
         Alive, Open, Start, Return, linkVars, netVars
<1> QED
  BY <1>1, <1>2, <1>3 DEF IInv

(* The listener sees _running reset, and leaves; until then the main       *)
(* thread waits.                                                           *)
LEMMA StopPreserves == ASSUME IInv, Stop PROVE IInv'
<1>0. running' \in BOOLEAN /\ ~running'
  BY Zenon DEF IInv, TypeOK, Stop
<1>1. TypeOK'
  BY <1>0 DEF IInv, TypeOK, Stop, linkVars, netVars
<1>2. (SpawnedInOrder /\ MainInOrder /\ LockHeldToConnect)'
  BY DEF IInv, SpawnedInOrder, MainInOrder, LockHeldToConnect, Alive, Stop,
         linkVars
<1>3. (LinkFollowsThread /\ UsersAreConnected /\ RunningMeansListening)'
  BY DEF IInv, LinkFollowsThread, UsersAreConnected, RunningMeansListening,
         Stop, linkVars, netVars
<1> QED
  BY <1>1, <1>2, <1>3 DEF IInv

(* Once the listener is joined, nobody uses the connection that is closed. *)
LEMMA ClosePreserves == ASSUME IInv, Close PROVE IInv'
<1>0. backlog' \in BOOLEAN
  BY Zenon DEF IInv, TypeOK, Close
<1>1. TypeOK'
  BY <1>0, SocketAssumption DEF IInv, TypeOK, Close, Return
<1>2. (SpawnedInOrder /\ MainInOrder /\ LockHeldToConnect)'
  BY DEF IInv, TypeOK, SpawnedInOrder, MainInOrder, LockHeldToConnect, Alive,
         Close, Return
<1>3. (LinkFollowsThread /\ UsersAreConnected /\ RunningMeansListening)'
  BY DEF IInv, SpawnedInOrder, MainInOrder, LinkFollowsThread,
         UsersAreConnected, RunningMeansListening, Alive, Close, Return
<1> QED
  BY <1>1, <1>2, <1>3 DEF IInv

(* The new listener finds no connection, and no older listener.            *)
LEMMA LaunchPreserves == ASSUME IInv, Launch PROVE IInv'
<1>1. TypeOK'
  BY SocketAssumption
     DEF IInv, TypeOK, SpawnedInOrder, MainInOrder, Runs, Launch, Return,
         netVars
<1>2. (SpawnedInOrder /\ MainInOrder /\ LockHeldToConnect)'
  BY DEF IInv, TypeOK, SpawnedInOrder, MainInOrder, LockHeldToConnect, Alive,
         Runs, Launch, Return
<1>3. (LinkFollowsThread /\ UsersAreConnected /\ RunningMeansListening)'
  BY SocketAssumption
     DEF IInv, TypeOK, SpawnedInOrder, MainInOrder, LinkFollowsThread,
         UsersAreConnected, RunningMeansListening, Alive, Runs, Launch, Return
<1> QED
  BY <1>1, <1>2, <1>3 DEF IInv

(* A party whose start fails is a stopped one.                             *)
LEMMA LaunchFailsPreserves == ASSUME IInv, LaunchFails PROVE IInv'
<1>1. TypeOK'
  BY DEF IInv, TypeOK, LaunchFails, Return, netVars
<1>2. (SpawnedInOrder /\ MainInOrder /\ LockHeldToConnect)'
  BY DEF IInv, SpawnedInOrder, MainInOrder, LockHeldToConnect, Alive,
         LaunchFails, Return
<1>3. (LinkFollowsThread /\ UsersAreConnected /\ RunningMeansListening)'
  BY DEF IInv, LinkFollowsThread, UsersAreConnected, RunningMeansListening,
         Alive, LaunchFails, Return, netVars
<1> QED
  BY <1>1, <1>2, <1>3 DEF IInv

-----------------------------------------------------------------------------
(* _wait_accept().                                                         *)

(* Whoever takes the lock either has a connection or may make it.          *)
LEMMA AcquirePreserves ==
  ASSUME IInv, NEW t \in Threads, Acquire(t) PROVE IInv'
<1>1. TypeOK'
  BY SocketAssumption, MainIsNoRun
     DEF IInv, TypeOK, Runs, Threads, Acquire, Move, Proceed, linkVars,
         netVars
<1>2. (SpawnedInOrder /\ MainInOrder /\ LockHeldToConnect)'
  BY SocketAssumption, MainIsNoRun
     DEF IInv, TypeOK, SpawnedInOrder, MainInOrder, LockHeldToConnect, Alive,
         Acquire, At, Move, Proceed, linkVars
<1>3. (LinkFollowsThread /\ UsersAreConnected /\ RunningMeansListening)'
  BY SocketAssumption
     DEF IInv, TypeOK, LinkFollowsThread, UsersAreConnected,
         RunningMeansListening, Alive, Runs, Open, Acquire, At, Move, Proceed,
         linkVars, netVars
<1> QED
  BY <1>1, <1>2, <1>3 DEF IInv

(* Giving up without a connection is for a party that is not running.      *)
LEMMA LeaveAcceptPreserves ==
  ASSUME IInv, NEW t \in Threads, LeaveAccept(t) PROVE IInv'
<1>1. TypeOK'
  BY MainIsNoRun DEF IInv, TypeOK, LeaveAccept, Move, Proceed, Leave, netVars
<1>2. (SpawnedInOrder /\ MainInOrder /\ LockHeldToConnect)'
  BY SocketAssumption, MainIsNoRun
     DEF IInv, TypeOK, SpawnedInOrder, MainInOrder, LockHeldToConnect, Alive,
         Threads, LeaveAccept, At, Move, Proceed, Leave
<1>3. (LinkFollowsThread /\ UsersAreConnected /\ RunningMeansListening)'
  BY SocketAssumption, MainIsNoRun
     DEF IInv, TypeOK, SpawnedInOrder, LockHeldToConnect, LinkFollowsThread,
         UsersAreConnected, RunningMeansListening, Alive, Threads, Open,
         LeaveAccept, At, Move, Proceed, Leave
<1> QED
  BY <1>1, <1>2, <1>3 DEF IInv

(* The connection is the first of its run.                                 *)
LEMMA AcceptPreserves == ASSUME IInv, NEW t \in Threads, Accept(t) PROVE IInv'
<1>0. backlog' \in BOOLEAN
  BY Zenon DEF IInv, TypeOK, Accept
<1>1. TypeOK'
  BY <1>0, MainIsNoRun
     DEF IInv, TypeOK, LinkFollowsThread, Accept, Move, Proceed, Leave
<1>2. (SpawnedInOrder /\ MainInOrder /\ LockHeldToConnect)'
  BY SocketAssumption, MainIsNoRun
     DEF IInv, TypeOK, SpawnedInOrder, MainInOrder, LockHeldToConnect, Alive,
         Threads, Accept, At, Move, Proceed, Leave
<1>3. (LinkFollowsThread /\ UsersAreConnected /\ RunningMeansListening)'
  BY SocketAssumption, MainIsNoRun
     DEF IInv, TypeOK, LockHeldToConnect, LinkFollowsThread,
         UsersAreConnected, RunningMeansListening, Alive, Runs, Threads,
         Accept, At, Move, Proceed, Leave
<1> QED
  BY <1>1, <1>2, <1>3 DEF IInv

(* The connection is the first of its run, even if it is reset at once.    *)
LEMMA ConnectPreserves ==
  ASSUME IInv, NEW t \in Threads, Connect(t) PROVE IInv'
<1>1. TypeOK'
  BY MainIsNoRun
     DEF IInv, TypeOK, LinkFollowsThread, Connect, Move, Proceed, Leave,
         netVars
<1>2. (SpawnedInOrder /\ MainInOrder /\ LockHeldToConnect)'
  BY SocketAssumption, MainIsNoRun
     DEF IInv, TypeOK, SpawnedInOrder, MainInOrder, LockHeldToConnect, Alive,
         Threads, Connect, At, Move, Proceed, Leave
<1>3. (LinkFollowsThread /\ UsersAreConnected /\ RunningMeansListening)'
  BY SocketAssumption, MainIsNoRun
     DEF IInv, TypeOK, LockHeldToConnect, LinkFollowsThread,
         UsersAreConnected, RunningMeansListening, Alive, Runs, Threads, Open,
         Connect, At, Move, Proceed, Leave
<1> QED
  BY <1>1, <1>2, <1>3 DEF IInv

(* A listener that crashes leaves a connecting party running.              *)
LEMMA ConnectRaisesPreserves ==
  ASSUME IInv, NEW t \in Threads, ConnectRaises(t) PROVE IInv'
<1>1. TypeOK'
  BY MainIsNoRun DEF IInv, TypeOK, ConnectRaises, Return, linkVars, netVars
<1>2. (SpawnedInOrder /\ MainInOrder /\ LockHeldToConnect)'
  BY SocketAssumption, MainIsNoRun
     DEF IInv, TypeOK, SpawnedInOrder, MainInOrder, LockHeldToConnect, Alive,
         Threads, ConnectRaises, At, Return
<1>3. (LinkFollowsThread /\ UsersAreConnected /\ RunningMeansListening)'
  BY SocketAssumption
     DEF IInv, TypeOK, LinkFollowsThread, UsersAreConnected,
         RunningMeansListening, Alive, Runs, Open, ConnectRaises, Return,
         linkVars, netVars
<1> QED
  BY <1>1, <1>2, <1>3 DEF IInv

-----------------------------------------------------------------------------
(* _listen().                                                              *)

(* A listener exits when the party is not running.                         *)
LEMMA StopListeningPreserves ==
  ASSUME IInv, NEW i \in Runs, StopListening(i) PROVE IInv'
<1>1. TypeOK'
  BY DEF IInv, TypeOK, StopListening, Exit, linkVars, threadVars, netVars
<1>2. (SpawnedInOrder /\ MainInOrder /\ LockHeldToConnect)'
  BY DEF IInv, SpawnedInOrder, MainInOrder, LockHeldToConnect, Alive,
         StopListening, Exit, linkVars, threadVars
<1>3. (LinkFollowsThread /\ UsersAreConnected /\ RunningMeansListening)'
  BY DEF IInv, LinkFollowsThread, UsersAreConnected, RunningMeansListening,
         StopListening, Exit, linkVars, threadVars, netVars
<1> QED
  BY <1>1, <1>2, <1>3 DEF IInv

(* Only a connected listener reads.                                        *)
LEMMA ReadablePreserves ==
  ASSUME IInv, NEW i \in Runs, Readable(i) PROVE IInv'
<1>1. TypeOK'
  BY DEF IInv, TypeOK, Readable, linkVars, threadVars, netVars
<1>2. (SpawnedInOrder /\ MainInOrder /\ LockHeldToConnect)'
  BY DEF IInv, SpawnedInOrder, MainInOrder, LockHeldToConnect, Alive,
         Readable, linkVars, threadVars
<1>3. (LinkFollowsThread /\ UsersAreConnected /\ RunningMeansListening)'
  BY DEF IInv, LinkFollowsThread, UsersAreConnected, RunningMeansListening,
         Alive, Open, Readable, linkVars, threadVars, netVars
<1> QED
  BY <1>1, <1>2, <1>3 DEF IInv

(* A message without a sole external party stops the party.                *)
LEMMA ForwardPreserves == ASSUME IInv, NEW i \in Runs, Forward(i) PROVE IInv'
<1>0. running' \in BOOLEAN /\ (running' <=> running /\ kind.sole = TRUE)
  BY Zenon DEF IInv, TypeOK, Forward
<1>1. TypeOK'
  BY <1>0, SocketAssumption
     DEF IInv, TypeOK, UsersAreConnected, Runs, Forward, Exit, threadVars
<1>2. (SpawnedInOrder /\ MainInOrder /\ LockHeldToConnect)'
  BY SocketAssumption
     DEF IInv, TypeOK, SpawnedInOrder, MainInOrder, LockHeldToConnect, Alive,
         Forward, Exit, threadVars
<1>3. (LinkFollowsThread /\ UsersAreConnected /\ RunningMeansListening)'
  BY SocketAssumption
     DEF IInv, TypeOK, SpawnedInOrder, LinkFollowsThread, UsersAreConnected,
         RunningMeansListening, Alive, Forward, Exit, threadVars
<1> QED
  BY <1>1, <1>2, <1>3 DEF IInv

(* A reset connection stops the party.                                     *)
LEMMA ReceiveRaisesPreserves ==
  ASSUME IInv, NEW i \in Runs, ReceiveRaises(i) PROVE IInv'
<1>0. running' \in BOOLEAN /\ ~running'
  BY Zenon DEF IInv, TypeOK, ReceiveRaises
<1>1. TypeOK'
  BY <1>0 DEF IInv, TypeOK, ReceiveRaises, Exit, linkVars, threadVars, netVars
<1>2. (SpawnedInOrder /\ MainInOrder /\ LockHeldToConnect)'
  BY DEF IInv, SpawnedInOrder, MainInOrder, LockHeldToConnect, Alive,
         ReceiveRaises, Exit, threadVars
<1>3. (LinkFollowsThread /\ UsersAreConnected /\ RunningMeansListening)'
  BY DEF IInv, LinkFollowsThread, UsersAreConnected, RunningMeansListening,
         ReceiveRaises, linkVars, threadVars
<1> QED
  BY <1>1, <1>2, <1>3 DEF IInv

-----------------------------------------------------------------------------
(* on_send().                                                              *)

(* on_send() on a stopped party raises at once.                            *)
LEMMA SendPreserves == ASSUME IInv, Send PROVE IInv'
<1>1. TypeOK'
  BY DEF IInv, TypeOK, Send, Return, linkVars, netVars
<1>2. (SpawnedInOrder /\ MainInOrder /\ LockHeldToConnect)'
  BY DEF IInv, SpawnedInOrder, MainInOrder, LockHeldToConnect,
         RunningMeansListening, Alive, Send, Return, linkVars
<1>3. (LinkFollowsThread /\ UsersAreConnected /\ RunningMeansListening)'
  BY DEF IInv, LinkFollowsThread, UsersAreConnected, RunningMeansListening,
         Alive, Open, Send, Return, linkVars, netVars
<1> QED
  BY <1>1, <1>2, <1>3 DEF IInv

(* Nobody has closed the connection since on_send() saw it.                *)
LEMMA DeliverPreserves == ASSUME IInv, Deliver PROVE IInv'
<1>1. TypeOK'
  BY DEF IInv, TypeOK, Deliver, Return, Sendable, netVars
<1>2. (SpawnedInOrder /\ MainInOrder /\ LockHeldToConnect)'
  BY DEF IInv, SpawnedInOrder, MainInOrder, LockHeldToConnect, Alive, Deliver,
         Return
<1>3. (LinkFollowsThread /\ UsersAreConnected /\ RunningMeansListening)'
  BY DEF IInv, LinkFollowsThread, UsersAreConnected, RunningMeansListening,
         Alive, Open, Deliver, Return, Sendable, netVars
<1> QED
  BY <1>1, <1>2, <1>3 DEF IInv

-----------------------------------------------------------------------------
(* The peer.                                                               *)

(* A waiting client changes nothing yet.                                   *)
LEMMA PeerConnectsPreserves == ASSUME IInv, PeerConnects PROVE IInv'
<1>1. TypeOK'
  BY DEF IInv, TypeOK, PeerConnects, peerUnchanged, threadVars
<1>2. (SpawnedInOrder /\ MainInOrder /\ LockHeldToConnect)'
  BY DEF IInv, SpawnedInOrder, MainInOrder, LockHeldToConnect, Alive,
         PeerConnects, peerUnchanged, threadVars
<1>3. (LinkFollowsThread /\ UsersAreConnected /\ RunningMeansListening)'
  BY DEF IInv, LinkFollowsThread, UsersAreConnected, RunningMeansListening,
         Alive, PeerConnects, peerUnchanged, threadVars
<1> QED
  BY <1>1, <1>2, <1>3 DEF IInv

(* A message on its way keeps its reader busy.                             *)
LEMMA PeerSendsPreserves == ASSUME IInv, PeerSends PROVE IInv'
<1>1. TypeOK'
  BY SocketAssumption DEF IInv, TypeOK, PeerSends, peerUnchanged, threadVars
<1>2. (SpawnedInOrder /\ MainInOrder /\ LockHeldToConnect)'
  BY DEF IInv, SpawnedInOrder, MainInOrder, LockHeldToConnect, Alive,
         PeerSends, peerUnchanged, threadVars
<1>3. (LinkFollowsThread /\ UsersAreConnected /\ RunningMeansListening)'
  BY DEF IInv, TypeOK, LinkFollowsThread, UsersAreConnected,
         RunningMeansListening, Alive, Open, PeerSends, peerUnchanged,
         threadVars
<1> QED
  BY <1>1, <1>2, <1>3 DEF IInv

(* A closed connection is still a connection.                              *)
LEMMA PeerClosesPreserves == ASSUME IInv, PeerCloses PROVE IInv'
<1>1. TypeOK'
  BY DEF IInv, TypeOK, PeerCloses, peerUnchanged, threadVars
<1>2. (SpawnedInOrder /\ MainInOrder /\ LockHeldToConnect)'
  BY DEF IInv, SpawnedInOrder, MainInOrder, LockHeldToConnect, Alive,
         PeerCloses, peerUnchanged, threadVars
<1>3. (LinkFollowsThread /\ UsersAreConnected /\ RunningMeansListening)'
  BY DEF IInv, LinkFollowsThread, UsersAreConnected, RunningMeansListening,
         Alive, Open, PeerCloses, peerUnchanged, threadVars
<1> QED
  BY <1>1, <1>2, <1>3 DEF IInv

-----------------------------------------------------------------------------

(* Every step of either thread, or of the peer, preserves the invariant.   *)
LEMMA NextIInv == IInv /\ [Next]_vars => IInv'
<1> SUFFICES ASSUME IInv, [Next]_vars PROVE IInv'
  OBVIOUS
<1>1. ASSUME NEW t \in Threads, WaitAccept(t) PROVE IInv'
  BY <1>1, AcquirePreserves, LeaveAcceptPreserves, AcceptPreserves,
     ConnectPreserves, ConnectRaisesPreserves
     DEF WaitAccept
<1>2. CASE MainCalls
  BY <1>2, StartPreserves, StopPreserves, SendPreserves
     DEF MainCalls
<1>3. CASE MainWorks
  BY <1>3, <1>1, ClosePreserves, LaunchPreserves, LaunchFailsPreserves,
     DeliverPreserves
     DEF MainWorks, Threads
<1>4. CASE Peer
  BY <1>4, PeerConnectsPreserves, PeerSendsPreserves, PeerClosesPreserves
     DEF Peer
<1>5. ASSUME NEW i \in Runs, Listener(i) PROVE IInv'
  BY <1>5, <1>1, StopListeningPreserves, ReadablePreserves,
     ForwardPreserves, ReceiveRaisesPreserves
     DEF Listener, Threads
<1>6. CASE UNCHANGED vars
  BY <1>6
     DEF IInv, TypeOK, SpawnedInOrder, MainInOrder, LockHeldToConnect,
         LinkFollowsThread, UsersAreConnected, RunningMeansListening, Alive,
         Open, vars
<1> QED
  BY <1>2, <1>3, <1>4, <1>5, <1>6 DEF Next

(* The state of a party and of its threads is always as declared.          *)
THEOREM PartyTypeCorrect == Spec => []TypeOK
<1>1. IInv => TypeOK
  BY DEF IInv
<1> QED
  BY <1>1, InitIInv, NextIInv, PTL DEF Spec

(* However often a party is started and stopped, a listener is joined      *)
(* before the next one is spawned and before stop() closes the connection. *)
THEOREM ListenersAreJoined == Spec => []ListenerIsJoined
<1>1. IInv => ListenerIsJoined
  BY DEF IInv, SpawnedInOrder, LinkFollowsThread, ListenerIsJoined
<1> QED
  BY <1>1, InitIInv, NextIInv, PTL DEF Spec

(* The two threads that may establish the connection never both do.        *)
THEOREM ConnectsOnce == Spec => []OneConnectionPerRun
<1>1. IInv => OneConnectionPerRun
  BY DEF IInv, LinkFollowsThread, OneConnectionPerRun
<1> QED
  BY <1>1, InitIInv, NextIInv, PTL DEF Spec

(* A running party has its listener, unless connect() has raised in it.    *)
THEOREM RunningIsListening == Spec => []RunningMeansListening
<1>1. IInv => RunningMeansListening
  BY DEF IInv
<1> QED
  BY <1>1, InitIInv, NextIInv, PTL DEF Spec

(* The assertions of on_send(), _wait_accept() and _listen() never fail.   *)
THEOREM NoAssertionFails == Spec => []AssertionsHold
<1>1. IInv => AssertionsHold
  <2> SUFFICES ASSUME IInv PROVE AssertionsHold
    OBVIOUS
  <2>1. lock \in {0, Main} \cup Runs
    BY SocketAssumption DEF IInv, TypeOK, Runs, Main
  <2>2. CASE lock = Main
    BY <2>2
       DEF IInv, LockHeldToConnect, MainInOrder, LinkFollowsThread,
           UsersAreConnected, AssertionsHold
  <2>3. CASE lock \in Runs
    <3>1. lock = thread /\ thread # 0
      BY <2>3, MainIsNoRun
         DEF IInv, LockHeldToConnect, SpawnedInOrder, Alive
    <3> QED
      BY <3>1 DEF IInv, LinkFollowsThread, UsersAreConnected, AssertionsHold
  <2>4. CASE lock = 0
    BY <2>4 DEF IInv, UsersAreConnected, AssertionsHold
  <2> QED
    BY <2>1, <2>2, <2>3, <2>4
<1> QED
  BY <1>1, InitIInv, NextIInv, PTL DEF Spec

=============================================================================
