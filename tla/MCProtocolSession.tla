------------------------- MODULE MCProtocolSession -------------------------
(***************************************************************************)
(* A small protocol for TLC.  The client C (played by Fandango) and the    *)
(* servers S and T: C pings S; S answers pong or pang, where pang is the   *)
(* beginning of a pong; then C may log a note to itself, which is followed *)
(* by tidings of T, before C or S says the last word.  Or S speaks first   *)
(* and last.                                                               *)
(***************************************************************************)
EXTENDS ProtocolSession

G == INSTANCE Forecaster WITH MaxRepetitions <- 1

C == "C"
S == "S"
T == "T"
None == ""

MCGrammar == [
    start |-> G!Alternative(1, <<
        G!Concatenation(2, <<
            G!Ref("talk"),
            G!Star(3, G!Ref("round")),
            G!Alternative(4, <<G!Message("tick", C, S), G!Message("tick", S, C)>>)>>),
        G!Message("tick", S, C),
        G!Message("tick", S, None)>>),
    talk |-> G!Concatenation(5, <<
        G!Message("ping", C, S),
        G!Alternative(6, <<G!Message("pong", S, C), G!Message("pang", S, C)>>)>>),
    round |-> G!Concatenation(7, <<G!Message("note", C, C), G!Message("tick", T, None)>>)]

MaxMessages == 5

P(s, r, nt) == [sender |-> s, recipient |-> r, nt |-> nt]

ToPackets(messages) ==
    [i \in DOMAIN messages |->
        P(messages[i].sender, messages[i].recipient, messages[i].name)]

Derived ==
    LET L == G!Solve(MCGrammar, TRUE, MaxMessages, [x \in DOMAIN MCGrammar |-> {}])
    IN  [x \in DOMAIN L |-> {ToPackets(c) : c \in L[x]}]

MCLanguage == Derived["start"]

(* After a note, in the middle of a round, what follows the rounds is      *)
(* offered, too.                                                           *)
MCPredicted(b) ==
    Continuations(b) \cup
        IF b # <<>> /\ Last(b).nt = "note" THEN {P(C, S, "tick"), P(S, C, "tick")}
                                          ELSE {}

(* The nodes that the mounting path of a packet has anew.                  *)
NewNodes(p) == IF p.nt = "ping" THEN {"talk"}
               ELSE IF p.nt = "note" THEN {"round"} ELSE {}

(* A mutation regenerates such a node, or a message node, which loses its  *)
(* parties.                                                                *)
Kept(packets, places) ==
    LET from == SelectSeq([i \in DOMAIN packets |-> i], LAMBDA i : i \in places)
    IN  [k \in DOMAIN from |-> packets[from[k]]]

SomeLost(packets) ==
    LET bare == [i \in DOMAIN packets |-> P(None, None, packets[i].nt)]
    IN  {[said |-> Kept(packets, DOMAIN packets \ places), lost |-> Kept(bare, places)] :
            places \in SUBSET DOMAIN packets}

Regenerated(x) == UNION {SomeLost(c) : c \in Derived[x]}

EvolvedTalk == Regenerated("talk")
EvolvedRound == Regenerated("round")

MCEvolved(b, p) ==
    SomeLost(<<p>>)
    \cup IF "talk" \in NewNodes(p) THEN EvolvedTalk ELSE {}
    \cup IF "round" \in NewNodes(p) THEN EvolvedRound ELSE {}

(* The grammar's forecasts, and the paths in them, are those of Forecaster. *)
OptionsAfter(b) ==
    LET parser == [rules |-> G!Compile(G!Reduced(MCGrammar)), longFirst |-> {},
                   incomplete |-> TRUE]
        Tree(p) == G!Tree(G!ItemOf(G!Message(p.nt, p.sender, p.recipient)), <<>>)
    IN  G!Forecast(MCGrammar, parser,
                   G!Tree(G!ItemOf(G!Ref("start")), [i \in DOMAIN b |-> Tree(b[i])]))

ASSUME ForecasterAgrees ==
    \A b \in Beginnings : \E options \in {OptionsAfter(b)} :
        /\ MCPredicted(b) = ToSet(ToPackets(SetToSeq({o.message : o \in options})))
        /\ \A p \in MCPredicted(b) :
              NewNodes(p) = UNION {{n.name : n \in {n \in ToSet(o.path) : n.new}} :
                                      o \in {o \in options : SameKey(p,
                                               ToPackets(<<o.message>>)[1])}}

MCWords == ("ping" :> {<<1>>, <<2>>} @@ "pong" :> {<<1, 2>>}
            @@ "pang" :> {<<1>>, <<2>>} @@ "note" :> {<<1>>, <<2>>}
            @@ "tick" :> {<<2>>})

Prefixed(w) == {SubSeq(w, 1, k) : k \in 0..(Len(w) - 1)}

MCViable == [nt \in DOMAIN MCWords |-> UNION {Prefixed(w) : w \in MCWords[nt]}]

(* The generator parameters of pang <<1>> are derivable, those of <<2>> are *)
(* not.                                                                    *)
MCUnderivable == [nt \in DOMAIN MCWords |-> IF nt = "pang" THEN {<<2>>} ELSE {}]

(* The constraints: ping, pang and note are <<1>>; and after a pang, S says *)
(* no tick.                                                                *)
MCFitness(log) ==
    IF \/ \E e \in Range(log) : e.nt \in {"ping", "pang", "note"} /\ e.word # <<1>>
       \/ \E d, e \in Range(log) : d.nt = "pang" /\ e.nt = "tick" /\ e.sender = S
    THEN 50 ELSE 100

(* S may also send nothing: what Out reads of a process that has ended.    *)
MCArrivals ==
    {[sender |-> S, receiver |-> C, fragment |-> f] :
        f \in {<<1>>, <<2>>, <<>>}}
    \cup {[sender |-> T, receiver |-> C, fragment |-> <<2>>]}

=============================================================================
