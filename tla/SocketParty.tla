----------------------------- MODULE SocketParty -----------------------------
(***************************************************************************)
(* UdpTcpProtocolDecorator: a party of Fandango behind a socket.  The main *)
(* thread starts and stops it and sends through it; each start spawns a    *)
(* listener thread that waits for the connection, then forwards what it    *)
(* receives.  Both threads may establish the connection (_wait_accept),    *)
(* under _lock; _running and _connection are read outside of it.           *)
(***************************************************************************)
EXTENDS Naturals, FiniteSets

CONSTANTS
    Kinds,        \* the configurations checked
    MaxStarts,    \* bound on the number of listeners spawned
    MaxData       \* bound on the messages the peer has on the way

ASSUME SocketAssumption ==
    /\ Kinds \subseteq [transport : {"tcp", "udp"},
                        endpoint : {"open", "connect"}, sole : BOOLEAN]
    /\ MaxStarts \in Nat \ {0}
    /\ MaxData \in Nat

VARIABLES
    kind,         \* protocol_type and endpoint_type, and whether the spec
                  \* has one external party: fixed
    running,      \* _running
    sock,         \* _sock: none, fresh, or bound to an address
    connection,   \* _connection, with the state of the link behind it
    lock,         \* holder of _lock: 0 for nobody, a listener's run, or Main
    remote,       \* current_remote_addr: the run it was learned in, or 0
    thread,       \* _send_thread: the run of the listener, or 0 for None
    run,          \* listeners spawned so far
    main,         \* program counter of the main thread
    op,           \* the method the main thread is in
    outcome,      \* how the last method ended
    listeners,    \* program counter of each listener
    backlog,      \* a client waits to be accepted
    inflight,     \* messages the peer has sent and nobody has read
    accepted      \* connections of this run: a history variable

vars == <<kind, running, sock, connection, lock, remote, thread, run, main,
          op, outcome, listeners, backlog, inflight, accepted>>

Runs == 1..MaxStarts
Main == MaxStarts + 1

TCP == kind.transport = "tcp"
Open == kind.endpoint = "open"

TypeOK ==
    /\ kind \in Kinds
    /\ running \in BOOLEAN
    /\ sock \in {"none", "fresh", "bound"}
    /\ connection \in {"none", "up", "closed", "reset"}
    /\ lock \in 0..Main
    /\ remote \in 0..MaxStarts
    /\ thread \in 0..MaxStarts
    /\ run \in 0..MaxStarts
    /\ main \in {"idle", "join", "launch", "lock", "accept", "send"}
    /\ op \in {"none", "start", "stop", "on_send"}
    /\ outcome \in {"none", "ok", "not_running", "assertion", "os_error",
                    "no_address"}
    /\ listeners \in [Runs -> {"unborn", "lock", "accept", "loop", "recv",
                               "exited", "crashed"}]
    /\ backlog \in BOOLEAN
    /\ inflight \in 0..MaxData
    /\ accepted \in 0..2

Init ==
    /\ kind \in Kinds
    /\ running = FALSE /\ sock = "none" /\ connection = "none"
    /\ lock = 0 /\ remote = 0 /\ thread = 0 /\ run = 0
    /\ main = "idle" /\ op = "none" /\ outcome = "none"
    /\ listeners = [i \in Runs |-> "unborn"]
    /\ backlog = FALSE /\ inflight = 0 /\ accepted = 0

netVars == <<backlog, inflight>>
linkVars == <<sock, connection, remote, accepted>>

Return(result) == main' = "idle" /\ op' = "none" /\ outcome' = result

-----------------------------------------------------------------------------
(* start() and stop().                                                     *)

Start ==
    /\ main = "idle"
    /\ run < MaxStarts
    /\ IF running THEN Return("ok")
       ELSE main' = "join" /\ op' = "start" /\ outcome' = "none"
    /\ UNCHANGED <<kind, running, linkVars, lock, thread, run, listeners,
                   netVars>>

Stop ==
    /\ main = "idle"
    /\ running' = FALSE
    /\ main' = "join" /\ op' = "stop" /\ outcome' = "none"
    /\ UNCHANGED <<kind, linkVars, lock, thread, run, listeners, netVars>>

Alive(i) == listeners[i] \in {"lock", "accept", "loop", "recv"}

(* Mutant: the listener is not joined.                                     *)
CloseWithoutJoin ==
    /\ main = "join"
    /\ thread' = 0 /\ connection' = "none" /\ sock' = "none"
    /\ backlog' = FALSE /\ inflight' = 0
    /\ IF op = "start" THEN main' = "launch" /\ UNCHANGED <<op, outcome>>
                       ELSE Return("ok")
    /\ UNCHANGED <<kind, running, lock, remote, run, listeners, accepted>>

(* The listener has been joined; connection and socket are closed, with    *)
(* whatever they had not delivered.                                        *)
Close ==
    /\ main = "join"
    /\ thread # 0 => ~Alive(thread)
    /\ thread' = 0 /\ connection' = "none" /\ sock' = "none"
    /\ backlog' = FALSE /\ inflight' = 0
    /\ IF op = "start" THEN main' = "launch" /\ UNCHANGED <<op, outcome>>
                       ELSE Return("ok")
    /\ UNCHANGED <<kind, running, lock, remote, run, listeners, accepted>>

(* _create_socket and _connect.                                            *)
Launch ==
    /\ main = "launch"
    /\ sock' = IF Open THEN "bound" ELSE "fresh"
    /\ running' = TRUE
    /\ run' = run + 1
    /\ thread' = run'
    /\ listeners' = [listeners EXCEPT ![run'] = "lock"]
    /\ accepted' = 0
    /\ Return("ok")
    /\ UNCHANGED <<kind, connection, lock, remote, netVars>>

(* bind() raises: the address is in use.                                   *)
LaunchFails ==
    /\ main = "launch"
    /\ Open
    /\ sock' = "fresh"
    /\ Return("os_error")
    /\ UNCHANGED <<kind, running, connection, lock, remote, thread, run,
                   listeners, accepted, netVars>>

-----------------------------------------------------------------------------
(* _wait_accept(), by either thread: Threads are the listeners and Main.   *)

At(t, location) == IF t = Main THEN main = location
                               ELSE listeners[t] = location

Move(t, location) ==
    IF t = Main THEN main' = location /\ UNCHANGED <<listeners, op, outcome>>
    ELSE /\ listeners' = [listeners EXCEPT ![t] = location]
         /\ UNCHANGED <<main, op, outcome>>

Proceed(t) == Move(t, IF t = Main THEN "send" ELSE "loop")

(* Mutant: the lock is not waited for.                                     *)
AcquireAnyway(t) ==
    /\ At(t, "lock")
    /\ IF connection = "none" THEN lock' = t /\ Move(t, "accept")
                              ELSE UNCHANGED lock /\ Proceed(t)
    /\ UNCHANGED <<kind, running, linkVars, thread, run, netVars>>

(* Under the lock, a connection that exists is all there is to do.         *)
Acquire(t) ==
    /\ At(t, "lock")
    /\ lock = 0
    /\ IF connection = "none" THEN lock' = t /\ Move(t, "accept")
                              ELSE UNCHANGED lock /\ Proceed(t)
    /\ UNCHANGED <<kind, running, linkVars, thread, run, netVars>>

Leave(t) == lock' = 0 /\ Proceed(t)

(* Mutants: the first failed poll is the last; _running is not polled.     *)
LeaveAcceptEarly(t) ==
    /\ At(t, "accept")
    /\ IF TCP THEN UNCHANGED connection ELSE connection' = "up"
    /\ Leave(t)
    /\ UNCHANGED <<kind, running, sock, remote, accepted, thread, run, netVars>>

LeaveAcceptConnected(t) ==
    /\ At(t, "accept")
    /\ ~TCP
    /\ connection' = "up"
    /\ Leave(t)
    /\ UNCHANGED <<kind, running, sock, remote, accepted, thread, run, netVars>>

(* A datagram socket is its own connection; a party that is stopped while  *)
(* polling for one gives up.                                               *)
LeaveAccept(t) ==
    /\ At(t, "accept")
    /\ IF TCP THEN ~running /\ UNCHANGED connection ELSE connection' = "up"
    /\ Leave(t)
    /\ UNCHANGED <<kind, running, sock, remote, accepted, thread, run, netVars>>

Accept(t) ==
    /\ At(t, "accept")
    /\ TCP /\ Open /\ running /\ backlog
    /\ connection' = "up"
    /\ backlog' = FALSE
    /\ accepted' = accepted + 1
    /\ Leave(t)
    /\ UNCHANGED <<kind, running, sock, remote, thread, run, inflight>>

(* The socket becomes writable, connected or with a pending error.         *)
Connect(t) ==
    /\ At(t, "accept")
    /\ TCP /\ ~Open /\ running
    /\ connection' \in {"up", "reset"}
    /\ accepted' = accepted + 1
    /\ Leave(t)
    /\ UNCHANGED <<kind, running, sock, remote, thread, run, netVars>>

(* connect() raises: only BlockingIOError is caught.  The exception leaves *)
(* on_send, or ends the listener, whose handler covers only its loop.      *)
ConnectRaises(t) ==
    /\ At(t, "accept")
    /\ TCP /\ ~Open
    /\ lock' = 0
    /\ IF t = Main THEN Return("os_error") /\ UNCHANGED listeners
       ELSE /\ listeners' = [listeners EXCEPT ![t] = "crashed"]
            /\ UNCHANGED <<main, op, outcome>>
    /\ UNCHANGED <<kind, running, linkVars, thread, run, netVars>>

WaitAccept(t) ==
    Acquire(t) \/ LeaveAccept(t) \/ Accept(t) \/ Connect(t) \/ ConnectRaises(t)

-----------------------------------------------------------------------------
(* The rest of _listen().                                                  *)

threadVars == <<thread, run, lock, main, op, outcome>>

Exit(i) == listeners' = [listeners EXCEPT ![i] = "exited"]

StopListening(i) ==
    /\ listeners[i] = "loop"
    /\ ~running
    /\ Exit(i)
    /\ UNCHANGED <<kind, running, linkVars, threadVars, netVars>>

(* Mutant: recv() is called although there is nothing to read.             *)
ReadUnasked(i) ==
    /\ listeners[i] = "loop"
    /\ running
    /\ listeners' = [listeners EXCEPT ![i] = "recv"]
    /\ UNCHANGED <<kind, running, linkVars, threadVars, netVars>>

(* select() reports input: data, or a reset.  An orderly end of the        *)
(* connection is read as empty data and ignored, so it changes nothing.    *)
Readable(i) ==
    /\ listeners[i] = "loop"
    /\ running
    /\ connection = "reset" \/ inflight > 0
    /\ listeners' = [listeners EXCEPT ![i] = "recv"]
    /\ UNCHANGED <<kind, running, linkVars, threadVars, netVars>>

(* Without a sender, receive_msg() takes the sole external party for it,   *)
(* and raises when there is none or are several.                           *)
Forward(i) ==
    /\ listeners[i] = "recv"
    /\ connection # "reset"
    /\ inflight' = inflight - 1
    /\ remote' = IF TCP THEN remote ELSE i
    /\ IF kind.sole
       THEN listeners' = [listeners EXCEPT ![i] = "loop"] /\ UNCHANGED running
       ELSE Exit(i) /\ running' = FALSE
    /\ UNCHANGED <<kind, sock, connection, accepted, threadVars, backlog>>

(* Mutant: the loop is left with _running as it is.                        *)
ReceiveRaisesSilently(i) ==
    /\ listeners[i] = "recv"
    /\ connection = "reset"
    /\ Exit(i)
    /\ UNCHANGED <<kind, running, linkVars, threadVars, netVars>>

ReceiveRaises(i) ==
    /\ listeners[i] = "recv"
    /\ connection = "reset"
    /\ Exit(i)
    /\ running' = FALSE
    /\ UNCHANGED <<kind, linkVars, threadVars, netVars>>

-----------------------------------------------------------------------------
(* The rest of on_send().                                                  *)

Send ==
    /\ main = "idle"
    /\ IF running
       THEN main' = "lock" /\ op' = "on_send" /\ outcome' = "none"
       ELSE Return("not_running")
    /\ UNCHANGED <<kind, running, linkVars, lock, thread, run, listeners,
                   netVars>>

Sendable == CASE connection = "none"           -> {"assertion"}
              [] TCP /\ connection = "up"      -> {"ok"}
              [] TCP /\ connection = "closed"  -> {"ok", "os_error"}
              [] TCP /\ connection = "reset"   -> {"os_error"}
              [] ~TCP /\ Open /\ remote = 0    -> {"no_address"}
              [] OTHER                         -> {"ok"}

Deliver ==
    /\ main = "send"
    /\ \E result \in Sendable :
          /\ Return(result)
          /\ sock' = IF ~TCP /\ result = "ok" THEN "bound" ELSE sock
    /\ UNCHANGED <<kind, running, connection, remote, accepted, lock, thread,
                   run, listeners, netVars>>

-----------------------------------------------------------------------------
(* The peer.                                                               *)

peerUnchanged == <<kind, running, sock, lock, remote, threadVars, listeners,
                   accepted>>

PeerConnects ==
    /\ TCP /\ Open /\ sock = "bound" /\ running
    /\ ~backlog
    /\ backlog' = TRUE
    /\ UNCHANGED <<connection, inflight, peerUnchanged>>

PeerSends ==
    /\ inflight < MaxData
    /\ IF TCP THEN connection = "up" ELSE sock = "bound"
    /\ inflight' = inflight + 1
    /\ UNCHANGED <<connection, backlog, peerUnchanged>>

PeerCloses ==
    /\ TCP /\ connection = "up"
    /\ connection' \in {"closed", "reset"}
    /\ UNCHANGED <<backlog, inflight, peerUnchanged>>

Peer == PeerConnects \/ PeerSends \/ PeerCloses

-----------------------------------------------------------------------------

MainWorks == Close \/ Launch \/ LaunchFails \/ WaitAccept(Main) \/ Deliver

MainCalls == Start \/ Stop \/ Send

Listener(i) == \/ WaitAccept(i) \/ StopListening(i)
               \/ Readable(i) \/ Forward(i) \/ ReceiveRaises(i)

Next == \/ MainCalls \/ MainWorks \/ Peer
        \/ \E i \in Runs : Listener(i)

Spec == Init /\ [][Next]_vars

(* Threads run, and a client connects to a party that waits for one.       *)
FairSpec == /\ Spec
            /\ WF_vars(MainWorks)
            /\ \A i \in Runs : WF_vars(Listener(i))
            /\ WF_vars(PeerConnects)

-----------------------------------------------------------------------------
(* Properties.                                                             *)

(* A listener is joined before the next is spawned and before stop()       *)
(* returns: two never share the socket, and a stopped party is silent.     *)
ListenerIsJoined ==
    /\ \A i \in Runs : Alive(i) => i = thread
    /\ thread = 0 => connection = "none"

(* Both threads may find no connection; only one of them makes it.         *)
OneConnectionPerRun == accepted <= 1

(* A party that is running has its listener, unless that ended on an       *)
(* exception of connect(): then start() does nothing, and nothing is       *)
(* received.                                                               *)
RunningMeansListening ==
    running => /\ thread # 0
               /\ Alive(thread) \/ listeners[thread] = "crashed"
               /\ Open => Alive(thread)

(* "assert self._connection is not None": _running cannot be reset while   *)
(* on_send() waits for the connection.                                     *)
AssertionsHold ==
    /\ outcome # "assertion"
    /\ lock # 0 => sock # "none"
    /\ \A i \in Runs : listeners[i] = "recv" => connection # "none"

(* stop() returns, even when the listener polls for a client; so does      *)
(* on_send(), once a client connects.                                      *)
CallsReturn == main # "idle" ~> main = "idle"

=============================================================================
