----------------------------- MODULE FandangoIO -----------------------------
(***************************************************************************)
(* The receive buffer of the FandangoIO singleton: a list of (sender,      *)
(* receiver, fragment) triples that listener threads append to and the     *)
(* fuzzing thread polls and clears.  Every method takes receive_lock for   *)
(* its whole body, so each is one atomic operation on the list.            *)
(***************************************************************************)
EXTENDS Protocol

Received == [sender : ExternalParties, receiver : FuzzerParties,
             fragment : Seq(Atoms)]

AddReceive(buffer, message) == Append(buffer, message)

ReceivedMsg(buffer) == buffer # <<>>

SendersIn(buffer) == {buffer[i].sender : i \in DOMAIN buffer}

(* The buffer reduced to the positions in keep, their order unchanged: the *)
(* only member of this set.  (Stated by the increasing enumeration of keep *)
(* rather than by SelectSeq, whose recursion hides the elements' type.)    *)
Sublists(buffer, keep) ==
    LET n == Cardinality(keep) IN
    {[k \in 1..n |-> buffer[f[k]]] :
        f \in {f \in [1..n -> keep] : \A j, k \in 1..n : j < k => f[j] < f[k]}}

(* Mutants: the sender is not compared; "<" for "<=".                      *)
ClearUpTo(buffer, party, toIdx) ==
    Sublists(buffer, {i \in DOMAIN buffer : i > toIdx})

ClearBefore(buffer, party, toIdx) ==
    Sublists(buffer, {i \in DOMAIN buffer :
                        ~(buffer[i].sender = party /\ i < toIdx)})

ClearByParty(buffer, party, toIdx) ==
    Sublists(buffer, {i \in DOMAIN buffer :
                        ~(buffer[i].sender = party /\ i <= toIdx)})

(* The positions from which _find_next_fragment takes the first: it looks  *)
(* at the sender only, never at the receiver.                              *)
FragmentsFrom(buffer, party, start) ==
    {i \in DOMAIN buffer : i >= start /\ buffer[i].sender = party}

First(S) == {i \in S : \A j \in S : i <= j}

=============================================================================
