-------------------------- MODULE MCTreeEvolution --------------------------
(***************************************************************************)
(* For TLC: exchanges of a request of a digit, which C sends, and an    *)
(* answer of T.                                                            *)
(***************************************************************************)
EXTENDS TreeEvolution

Part(sym) == [sym |-> sym, from |-> None]

MCRules ==
    [start    |-> {<<Part("exchange"), Part("exchange")>>},
     exchange |-> {<<[sym |-> "request", from |-> "C"], [sym |-> "answer", from |-> "T"]>>},
     request  |-> {<<Part("0")>>, <<Part("1")>>},
     answer   |-> {<<Part("ok")>>}]

Option(new, sym, from) ==
    [path |-> <<[sym |-> "exchange", new |-> new]>>, sym |-> sym, from |-> from]

(* A request opens an exchange, an answer closes it.                       *)
MCMounts(content) ==
    IF content.kids = <<>> \/ Len(Last(content.kids).kids) = 2
    THEN IF Len(content.kids) < 2 THEN {Option(TRUE, "request", "C")} ELSE {}
    ELSE {Option(FALSE, "answer", "T")}

(* <exchange>[0:1]                                                         *)
MCSlices == {{}, {[sym |-> "exchange", first |-> 1, last |-> 1]}}

=============================================================================
