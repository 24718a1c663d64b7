-------------------------- MODULE MCCompliantPeers --------------------------
(***************************************************************************)
(* A turn-based protocol for TLC: C asks; S answers pong, or pang, which   *)
(* is the beginning of a pong; S or T may go on in either order; C closes. *)
(***************************************************************************)
EXTENDS CompliantPeers

CONSTANTS C, S, T, None, ping, pong, pang, note, tick, tock

MCWords == (ping :> {<<1>>, <<2>>} @@ pong :> {<<1, 2>>, <<1, 2, 3>>}
            @@ pang :> {<<1>>} @@ note :> {<<1>>}
            @@ tick :> {<<3>>, <<3, 1>>} @@ tock :> {<<2, 2>>})

MCViable == [nt \in DOMAIN MCWords |->
               UNION {{SubSeq(w, 1, k) : k \in 0..(Len(w) - 1)} :
                        w \in MCWords[nt]}]

MCUnderivable == [nt \in DOMAIN MCWords |->
                    IF nt = pong THEN {<<1, 2, 3>>} ELSE {}]

P(s, r, nt) == [sender |-> s, recipient |-> r, nt |-> nt]

MCLanguage ==
    {<<P(C, S, ping), P(S, C, pong), P(C, C, note), P(T, None, tick)>>,
     <<P(C, S, ping), P(S, C, pang), P(T, C, tock), P(S, C, tick)>>,
     <<P(C, S, ping), P(S, C, pang), P(S, C, tick), P(T, C, tock)>>,
     <<P(C, T, note), P(T, C, pong), P(S, C, tick), P(C, S, ping)>>,
     <<P(C, T, tick), P(T, C, tock)>>}

(* Without loops, the forecast is exact.  A mutation may replace one of    *)
(* Fandango's messages by another of those it has the choice of.           *)
MCPredicted(b) == Continuations(b)

MCEvolved(b, p) ==
    {[said |-> <<q>>, lost |-> <<>>] : q \in {q \in Continuations(b) : Sends(q)}}

(* The constraints: a ping <<2>> is not answered by a pang, and no tick of  *)
(* C's is <<3, 1>>.                                                        *)
MCFitness(log) ==
    IF \/ \E i, j \in DOMAIN log : /\ log[i].nt = ping /\ log[i].word = <<2>>
                                   /\ log[j].nt = pang
       \/ \E i \in DOMAIN log : /\ log[i].sender = C
                                /\ log[i].nt = tick /\ log[i].word = <<3, 1>>
    THEN 50 ELSE 100

=============================================================================
