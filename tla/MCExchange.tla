----------------------------- MODULE MCExchange -----------------------------
(***************************************************************************)
(* Small protocols for TLC.                                                *)
(***************************************************************************)
EXTENDS Exchange

l == Message("l", "A", "B")
q == Message("q", "A", "B")
r == Message("r", "B", "A")
e == Message("e", "B", "A")

a == <<"a">>
b == <<"b">>
ab == <<"a", "b">>

(* The words of the messages: a loop within a loop, alternatives of which  *)
(* one begins the other, left recursion, a nullable beginning.             *)
Content == [
    l |-> Word(ab),
    q |-> Plus(20, Concatenation(21, <<Word(ab), Star(22, Word(b))>>)),
    r |-> Alternative(23, <<Word(a), Word(ab), Ref("as")>>),
    as |-> Alternative(24, <<Word(b), Concatenation(25, <<Ref("as"), Word(a)>>)>>),
    e |-> Concatenation(26, <<Option(27, Word(a)), Repetition(28, Word(b), 1, 2)>>)]

(* Messages of a single word.                                              *)
Plain == [l |-> Word(ab), q |-> Word(a), r |-> Word(b), e |-> Word(ab)]

(* A choice whose second branch is nested, with an optional end.           *)
Choice == [
    start |-> Concatenation(1, <<l, Plus(2, q),
                                 Alternative(3, <<e, Ref("reply")>>)>>),
    reply |-> Concatenation(4, <<r, Option(5, e)>>)] @@ Content

(* Right recursion, at any depth.                                          *)
Recursive == [
    start |-> Concatenation(1, <<q, Alternative(2, <<r, Ref("more")>>)>>),
    more |-> Concatenation(3, <<e, Ref("start")>>)] @@ Plain

(* A bounded loop, and one at the end.                                     *)
Bounded == [
    start |-> Concatenation(1, <<Repetition(2, q, 1, 3), Ref("reply"), Star(3, l)>>),
    reply |-> Alternative(4, <<r, Concatenation(5, <<e, r>>)>>)] @@ Plain

(* A loop whose iterations are two messages.                               *)
Rounds == [
    start |-> Concatenation(1, <<Star(2, Ref("round")), l>>),
    round |-> Concatenation(3, <<q, Alternative(4, <<r, e>>)>>)] @@ Plain

MCGrammars == [choice |-> Choice, recursive |-> Recursive, bounded |-> Bounded,
               rounds |-> Rounds]

MCLongFirst ==
    {{}, UNION {DOMAIN Compiled[g] \cup DOMAIN CompiledReduced[g] : g \in DOMAIN Grammars}}

MCFragments == {a, b, ab}

=============================================================================
