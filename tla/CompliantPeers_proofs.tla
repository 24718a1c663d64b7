------------------------ MODULE CompliantPeers_proofs ------------------------
(***************************************************************************)
(* For every turn-based protocol whose messages can be told apart, however *)
(* the external parties cut their messages and however the threads         *)
(* interleave: Fandango's history is what really took place, a session     *)
(* never raises, and leaves nothing behind.                                *)
(***************************************************************************)
EXTENDS CompliantPeers, ReceiveBuffer_proofs

-----------------------------------------------------------------------------
(* The messages under way: what has been said and not yet been mounted,    *)
(* cut into the fragments that are buffered or still to be sent.           *)

(* The contents of the fragments from one position to another, joined.     *)
Joined(b, from, to) ==
    FlattenSeq([k \in 1..(to - from) |-> b[from + k].fragment])

(* Between two positions, a queue of fragments carries an entry: nothing   *)
(* but fragments of its sender, none of them empty.                        *)
Carries(b, from, to, e) ==
    /\ from < to
    /\ \A i \in (from + 1)..to : b[i].sender = e.sender /\ b[i].fragment # <<>>
    /\ b[from + 1].fragment[1] = e.word[1]
    /\ Joined(b, from, to) = e.word

(* It carries the entries of a log from the h-th on, in their order; ends  *)
(* has the position at which the fragments of each of them end.            *)
CarriesAll(b, log, h, ends) ==
    /\ ends[h] = 0 /\ ends[Len(log)] = Len(b)
    /\ \A j \in (h + 1)..Len(log) : Carries(b, ends[j - 1], ends[j], log[j])

Queued(b, log, h) ==
    \E ends \in [h..Len(log) -> 0..Len(b)] : CarriesAll(b, log, h, ends)

(* Nothing is under way exactly when everything said has been mounted.     *)
LEMMA QueuedNothing ==
    ASSUME NEW b \in Seq(Received), NEW log \in Seq(Entries), NEW h \in 0..Len(log)
    PROVE  /\ Queued(b, log, h) => (b = <<>> <=> h = Len(log))
           /\ Queued(<<>>, log, Len(log))
<1>1. Len(log) \in Nat /\ h \in Nat /\ Len(b) \in Nat
    OBVIOUS
<1>2. ASSUME Queued(b, log, h) PROVE b = <<>> <=> h = Len(log)
    <2>1. PICK ends \in [h..Len(log) -> 0..Len(b)] : CarriesAll(b, log, h, ends)
        BY <1>2 DEF Queued
    <2>2. ASSUME h = Len(log) PROVE b = <<>>
        BY <1>1, <2>1, <2>2 DEF CarriesAll
    <2>3. ASSUME h # Len(log) PROVE b # <<>>
        <3>1. h + 1 \in (h + 1)..Len(log) /\ h + 1 \in h..Len(log) /\ (h + 1) - 1 = h
            BY <1>1, <2>3
        <3>2. ends[h] < ends[h + 1] /\ ends[h] = 0 /\ ends[h + 1] \in 0..Len(b)
            BY <2>1, <3>1 DEF CarriesAll, Carries
        <3> QED
            BY <1>1, <3>2
    <2> QED
        BY <2>2, <2>3
<1>3. Queued(<<>>, log, Len(log))
    <2> DEFINE ends == [j \in Len(log)..Len(log) |-> 0]
    <2>1. ends \in [Len(log)..Len(log) -> 0..Len(<<>>)]
        OBVIOUS
    <2>2. CarriesAll(<<>>, log, Len(log), ends)
        BY <1>1 DEF CarriesAll
    <2> QED
        BY <2>1, <2>2 DEF Queued
<1> QED
    BY <1>2, <1>3

(* What is carried depends on the fragments between the ends only.         *)
LEMMA CarriesShifted ==
    ASSUME NEW b, NEW c, NEW from \in Nat, NEW to \in Nat, NEW d \in Int, NEW e,
           from + d \in Nat, to + d \in Nat,
           \A i \in (from + 1)..to : c[i + d] = b[i],
           Carries(b, from, to, e)
    PROVE  Carries(c, from + d, to + d, e)
<1>1. from < to /\ from + d < to + d
    BY DEF Carries
<1>2. ASSUME NEW i \in ((from + d) + 1)..(to + d)
      PROVE  c[i].sender = e.sender /\ c[i].fragment # <<>>
    <2>1. i - d \in (from + 1)..to /\ (i - d) + d = i
        OBVIOUS
    <2>2. c[i] = b[i - d]
        BY <2>1
    <2> QED
        BY <2>1, <2>2 DEF Carries
<1>3. c[(from + d) + 1] = b[from + 1]
    <2>1. from + 1 \in (from + 1)..to /\ (from + 1) + d = (from + d) + 1
        BY <1>1
    <2> QED
        BY <2>1
<1>4. Joined(c, from + d, to + d) = Joined(b, from, to)
    <2>1. (to + d) - (from + d) = to - from
        OBVIOUS
    <2>2. ASSUME NEW k \in 1..(to - from) PROVE c[(from + d) + k] = b[from + k]
        <3>1. from + k \in (from + 1)..to /\ (from + k) + d = (from + d) + k
            OBVIOUS
        <3> QED
            BY <3>1
    <2>3. [k \in 1..(to - from) |-> c[(from + d) + k].fragment] =
          [k \in 1..(to - from) |-> b[from + k].fragment]
        BY <2>2
    <2> QED
        BY <2>1, <2>3 DEF Joined
<1> QED
    BY <1>1, <1>2, <1>3, <1>4 DEF Carries

(* A message said is appended to what is under way, by its fragments.      *)
LEMMA QueuedSaid ==
    ASSUME NEW b \in Seq(Received), NEW log \in Seq(Entries), NEW h \in 0..Len(log),
           Queued(b, log, h), NEW f \in Seq(Received), NEW e \in Entries,
           Carries(f, 0, Len(f), e)
    PROVE  Queued(b \o f, Append(log, e), h)
<1> DEFINE n == Len(log)
           more == b \o f
           longer == Append(log, e)
<1>1. /\ n \in Nat /\ Len(b) \in Nat /\ Len(f) \in Nat /\ h \in Nat /\ h <= n
      /\ more \in Seq(Received) /\ Len(more) = Len(b) + Len(f)
      /\ \A i \in 1..Len(b) : more[i] = b[i]
      /\ \A i \in 1..Len(f) : more[i + Len(b)] = f[i]
      /\ longer \in Seq(Entries) /\ Len(longer) = n + 1 /\ longer[n + 1] = e
      /\ \A j \in 1..n : longer[j] = log[j]
    OBVIOUS
<1>0. n \in Nat /\ Len(b) \in Nat /\ Len(f) \in Nat /\ h \in Nat /\ h <= n
    BY <1>1
<1>2. PICK ends \in [h..n -> 0..Len(b)] : CarriesAll(b, log, h, ends)
    BY DEF Queued
<1> DEFINE new == [j \in h..(n + 1) |-> IF j = n + 1 THEN Len(more) ELSE ends[j]]
<1> HIDE DEF more, longer, n
<1>3. new \in [h..(n + 1) -> 0..Len(more)]
    BY <1>1, <1>2
<1>4. /\ \A j \in h..n : new[j] = ends[j] /\ ends[j] \in 0..Len(b)
      /\ new[n + 1] = Len(more)
    BY <1>1, <1>2
<1> HIDE DEF new
<1>5. new[h] = 0
    BY <1>1, <1>2, <1>4 DEF CarriesAll
<1>6. ASSUME NEW j \in (h + 1)..(n + 1)
      PROVE  Carries(more, new[j - 1], new[j], longer[j])
    <2>1. CASE j \in (h + 1)..n
        <3>0. j \in h..n /\ j - 1 \in h..n /\ j \in 1..n
            BY <1>0, <2>1
        <3>1. /\ ends[j] \in 0..Len(b) /\ ends[j - 1] \in 0..Len(b)
              /\ new[j - 1] = ends[j - 1] /\ new[j] = ends[j] /\ longer[j] = log[j]
            BY <1>1, <1>4, <3>0
        <3>2. Carries(b, ends[j - 1], ends[j], log[j])
            BY <1>2, <2>1 DEF CarriesAll, n
        <3>3. \A i \in (ends[j - 1] + 1)..ends[j] : more[i + 0] = b[i]
            <4> TAKE i \in (ends[j - 1] + 1)..ends[j]
            <4>1. i \in 1..Len(b) /\ i + 0 = i
                BY <1>0, <3>1
            <4> QED
                BY <1>1, <4>1
        <3>4. /\ ends[j - 1] \in Nat /\ ends[j] \in Nat
              /\ ends[j - 1] + 0 = ends[j - 1] /\ ends[j] + 0 = ends[j]
            BY <1>0, <3>1
        <3>5. Carries(more, ends[j - 1] + 0, ends[j] + 0, log[j])
            <4>1. 0 \in Int /\ ends[j - 1] + 0 \in Nat /\ ends[j] + 0 \in Nat
                BY <3>4
            <4> QED
                BY <3>2, <3>3, <3>4, <4>1, CarriesShifted
        <3> QED
            BY <3>1, <3>4, <3>5
    <2>2. CASE j = n + 1
        <3>0. j - 1 = n /\ n \in h..n
            BY <1>0, <2>2
        <3>1. new[j - 1] = Len(b)
            <4>1. ends[n] = Len(b)
                BY <1>2 DEF CarriesAll, n
            <4> QED
                BY <1>4, <3>0, <4>1
        <3>2. \A i \in (0 + 1)..Len(f) : more[i + Len(b)] = f[i]
            BY <1>1
        <3>3. Carries(more, 0 + Len(b), Len(f) + Len(b), e)
            <4>1. /\ 0 \in Nat /\ Len(f) \in Nat /\ Len(b) \in Int
                  /\ 0 + Len(b) \in Nat /\ Len(f) + Len(b) \in Nat
                BY <1>0
            <4> QED
                BY <3>2, <4>1, CarriesShifted
        <3>4. 0 + Len(b) = Len(b) /\ Len(f) + Len(b) = Len(more)
            BY <1>1
        <3> QED
            BY <1>1, <1>4, <2>2, <3>1, <3>3, <3>4
    <2> QED
        BY <1>0, <2>1, <2>2
<1>7. CarriesAll(more, longer, h, new)
    BY <1>1, <1>4, <1>5, <1>6 DEF CarriesAll
<1>8. Queued(more, longer, h)
    BY <1>1, <1>3, <1>7 DEF Queued
<1> QED
    BY <1>8 DEF more, longer

(* The first message under way: where it ends; what is under way without   *)
(* it; and that the next fragment of its sender, if any, begins a message. *)
LEMMA QueuedFirst ==
    ASSUME NEW b \in Seq(Received), NEW log \in Seq(Entries), NEW h \in 0..Len(log),
           Queued(b, log, h), h < Len(log)
    PROVE  \E m \in 1..Len(b) :
              /\ Carries(b, 0, m, log[h + 1])
              /\ Queued(SubSeq(b, m + 1, Len(b)), log, h + 1)
              /\ \A k \in 1..Len(b) : b[k].fragment # <<>>
              /\ \A k \in (m + 1)..Len(b) :
                    /\ b[k].sender = log[h + 1].sender
                    /\ \A i \in (m + 1)..(k - 1) : b[i].sender # log[h + 1].sender
                    => \E j \in (h + 2)..Len(log) :
                          /\ log[j].sender = log[h + 1].sender
                          /\ b[k].fragment[1] = log[j].word[1]
<1> DEFINE n == Len(log)
<1>1. n \in Nat /\ h \in Nat /\ Len(b) \in Nat /\ h + 1 \in h..n /\ h + 1 \in 1..n
    OBVIOUS
<1>0. n \in Nat /\ h \in Nat /\ Len(b) \in Nat /\ h + 1 <= n
    BY <1>1
<1>2. PICK ends \in [h..n -> 0..Len(b)] : CarriesAll(b, log, h, ends)
    BY DEF Queued
<1>3. /\ ends[h] = 0 /\ ends[n] = Len(b)
      /\ \A j \in (h + 1)..n : Carries(b, ends[j - 1], ends[j], log[j])
    BY <1>2 DEF CarriesAll
<1> DEFINE m == ends[h + 1]
<1>4. m \in 1..Len(b) /\ Carries(b, 0, m, log[h + 1])
    <2>1. h + 1 \in (h + 1)..n /\ (h + 1) - 1 = h
        BY <1>1
    <2>2. Carries(b, ends[h], m, log[h + 1])
        BY <1>3, <2>1
    <2> QED
        BY <1>1, <1>3, <2>2 DEF Carries
<1>5. \A j \in h..n : ends[j] \in 0..Len(b)
    BY <1>1
<1> HIDE DEF n, m
<1>6. \A j \in (h + 1)..n : m <= ends[j]
    <2> DEFINE T == {i \in 0..n : h + 1 <= i => m <= ends[i]}
    <2>1. 0 \in T
        BY <1>1
    <2>2. ASSUME NEW i \in 0..n, i \in T, i < n PROVE i + 1 \in T
        <3>1. i + 1 \in 0..n
            BY <1>1, <2>2
        <3>2. CASE h + 1 <= i
            <4>1. /\ i + 1 \in (h + 1)..n /\ (i + 1) - 1 = i /\ i \in h..n
                  /\ i + 1 \in h..n
                BY <1>1, <2>2, <3>2
            <4>2. ends[i] < ends[i + 1]
                BY <1>3, <4>1 DEF Carries
            <4>3. m <= ends[i] /\ ends[i] \in 0..Len(b) /\ ends[i + 1] \in 0..Len(b)
                BY <1>5, <2>2, <3>2, <4>1
            <4> QED
                BY <1>1, <1>4, <3>1, <4>2, <4>3
        <3>3. CASE h = i
            BY <1>1, <1>4, <3>1, <3>3 DEF m
        <3>4. CASE h + 1 > i + 1
            BY <1>1, <3>1, <3>4
        <3> QED
            BY <1>1, <3>2, <3>3, <3>4
    <2> HIDE DEF T
    <2>3. \A i \in 0..n : i \in T
        BY <1>1, <2>1, <2>2, Induction
    <2> QED
        BY <1>1, <2>3 DEF T
<1>7. ASSUME NEW k \in 1..Len(b)
      PROVE  \E j \in (h + 1)..n : ends[j - 1] < k /\ k <= ends[j]
    <2> DEFINE T == {j \in h..n : k <= ends[j]}
    <2>0. n \in h..n /\ k <= ends[n]
        BY <1>0, <1>3
    <2>1. T # {} /\ T \in SUBSET Nat
        BY <1>0, <2>0
    <2> HIDE DEF T
    <2>2. PICK j \in T : \A i \in T : j <= i
        BY <2>1, LeastNat
    <2>3. j \in h..n /\ k <= ends[j] /\ j # h
        BY <1>1, <1>3 DEF T
    <2>4. j - 1 \in h..n /\ j - 1 \notin T
        BY <1>1, <2>2, <2>3
    <2>5. ~(k <= ends[j - 1]) /\ ends[j - 1] \in 0..Len(b)
        BY <1>5, <2>4 DEF T
    <2> QED
        BY <1>1, <2>3, <2>5
<1>8. ASSUME NEW k \in 1..Len(b) PROVE b[k].fragment # <<>>
    <2>1. PICK j \in (h + 1)..n : ends[j - 1] < k /\ k <= ends[j]
        BY <1>7
    <2>2. ends[j - 1] \in 0..Len(b) /\ ends[j] \in 0..Len(b)
        BY <1>1, <1>5
    <2>3. k \in (ends[j - 1] + 1)..ends[j]
        BY <1>1, <2>1, <2>2
    <2> QED
        BY <1>3, <2>3 DEF Carries
<1>9. ASSUME NEW k \in (m + 1)..Len(b), b[k].sender = log[h + 1].sender,
             \A i \in (m + 1)..(k - 1) : b[i].sender # log[h + 1].sender
      PROVE  \E j \in (h + 2)..n : /\ log[j].sender = log[h + 1].sender
                                  /\ b[k].fragment[1] = log[j].word[1]
    <2>1. k \in 1..Len(b) /\ m \in Nat /\ k \in Nat /\ m < k
        BY <1>1, <1>4
    <2>2. PICK j \in (h + 1)..n : ends[j - 1] < k /\ k <= ends[j]
        BY <1>7, <2>1
    <2>3. /\ ends[j - 1] \in 0..Len(b) /\ ends[j] \in 0..Len(b)
          /\ Carries(b, ends[j - 1], ends[j], log[j])
        BY <1>1, <1>3, <1>5
    <2>4. j # h + 1
        BY <1>1, <2>1, <2>2, <2>3 DEF m
    <2>5. j \in (h + 2)..n /\ j - 1 \in (h + 1)..n
        BY <1>1, <2>4
    <2>6. k \in (ends[j - 1] + 1)..ends[j]
        BY <1>1, <2>1, <2>2, <2>3
    <2>7. log[j].sender = log[h + 1].sender
        BY <1>9, <2>3, <2>6 DEF Carries
    <2>8. k = ends[j - 1] + 1
        <3> SUFFICES ASSUME k # ends[j - 1] + 1 PROVE FALSE
            OBVIOUS
        <3>1. m <= ends[j - 1]
            BY <1>6, <2>5
        <3>2. /\ k - 1 \in (ends[j - 1] + 1)..ends[j]
              /\ k - 1 \in (m + 1)..(k - 1)
            <4>1. ends[j - 1] \in Nat /\ ends[j] \in Nat
                BY <1>0, <2>3
            <4> QED
                BY <2>1, <2>2, <3>1, <4>1, SMTT(60)
        <3>3. b[k - 1].sender = log[j].sender
            BY <2>3, <3>2 DEF Carries
        <3> QED
            BY <1>9, <2>7, <3>2, <3>3
    <2>9. b[k].fragment[1] = log[j].word[1]
        BY <2>3, <2>8 DEF Carries
    <2> QED
        BY <2>5, <2>7, <2>9
<1>10. Queued(SubSeq(b, m + 1, Len(b)), log, h + 1)
    <2> DEFINE rest == SubSeq(b, m + 1, Len(b))
               new == [j \in (h + 1)..n |-> ends[j] - m]
    <2>1. /\ rest \in Seq(Received) /\ Len(rest) = Len(b) - m
          /\ \A i \in 1..(Len(b) - m) : rest[i] = b[i + m]
        BY <1>1, <1>4, SMTT(60)
    <2> HIDE DEF rest
    <2>2. \A j \in (h + 1)..n : ends[j] - m \in 0..Len(rest) /\ ends[j] \in 0..Len(b)
        BY <1>1, <1>4, <1>5, <1>6, <2>1, SMTT(60)
    <2>3. new \in [(h + 1)..n -> 0..Len(rest)]
        BY <2>2
    <2>4. new[h + 1] = 0 /\ new[n] = Len(rest)
        BY <1>1, <1>3, <1>4, <2>1 DEF m
    <2>5. ASSUME NEW j \in ((h + 1) + 1)..n
          PROVE  Carries(rest, new[j - 1], new[j], log[j])
        <3>1. j \in (h + 1)..n /\ j - 1 \in (h + 1)..n
            BY <1>1
        <3>0. m \in Nat /\ -m \in Int
            BY <1>4
        <3>2. /\ ends[j - 1] \in Nat /\ ends[j] \in Nat
              /\ m <= ends[j - 1] /\ m <= ends[j] /\ ends[j] <= Len(b)
            BY <1>0, <1>6, <2>2, <3>1
        <3>6. new[j - 1] = ends[j - 1] - m /\ new[j] = ends[j] - m
            BY <3>1
        <3>7. \A x \in Nat : m <= x => x + (-m) = x - m /\ x + (-m) \in Nat
            BY <3>0
        <3>8. /\ ends[j - 1] + (-m) = new[j - 1] /\ ends[j] + (-m) = new[j]
              /\ ends[j - 1] + (-m) \in Nat /\ ends[j] + (-m) \in Nat
            BY <3>2, <3>6, <3>7
        <3>3. Carries(b, ends[j - 1], ends[j], log[j])
            BY <1>3, <3>1
        <3>4. ASSUME NEW i \in (ends[j - 1] + 1)..ends[j]
              PROVE  rest[i + (-m)] = b[i]
            <4>1. i + (-m) \in 1..(Len(b) - m) /\ (i + (-m)) + m = i
                BY <1>0, <3>0, <3>2
            <4> QED
                BY <2>1, <4>1
        <3>5. Carries(rest, ends[j - 1] + (-m), ends[j] + (-m), log[j])
            BY <3>0, <3>2, <3>3, <3>4, <3>8, CarriesShifted
        <3> QED
            BY <3>5, <3>8
    <2> HIDE DEF new
    <2>6. CarriesAll(rest, log, h + 1, new)
        BY <2>4, <2>5 DEF CarriesAll, n
    <2>7. Queued(rest, log, h + 1)
        BY <2>3, <2>6 DEF Queued, n
    <2> QED
        BY <2>7 DEF rest
<1> QED
    BY <1>4, <1>8, <1>9, <1>10 DEF n

-----------------------------------------------------------------------------
(* What can be heard of a queue of messages.                               *)

(* What has been heard of a party depends on that part of the buffer only. *)
LEMMA HeardExtended ==
    ASSUME NEW b \in Seq(Received), NEW f \in Seq(Received), NEW party,
           NEW n \in 0..Len(b)
    PROVE  Heard(b \o f, party, n) = Heard(b, party, n)
<1>1. \A k \in 1..n : (b \o f)[k] = b[k]
    OBVIOUS
<1>2. Fragments(b \o f, party, n) = Fragments(b, party, n)
    BY <1>1 DEF Fragments
<1> QED
    BY <1>2 DEF Heard

(* The first message of a queue is what is heard of its sender up to its   *)
(* end.                                                                    *)
LEMMA CarriesHeard ==
    ASSUME NEW b \in Seq(Received), NEW m \in 0..Len(b), NEW e, Carries(b, 0, m, e)
    PROVE  Heard(b, e.sender, m) = e.word
<1>1. m - 0 = m /\ \A k \in 1..m : 0 + k = k /\ k \in (0 + 1)..m
    OBVIOUS
<1>2. \A k \in 1..m : b[k].sender = e.sender
    BY <1>1 DEF Carries
<1>3. [k \in 1..(m - 0) |-> b[0 + k].fragment] = Fragments(b, e.sender, m)
    BY <1>1, <1>2 DEF Fragments
<1> QED
    BY <1>3 DEF Carries, Joined, Heard

(* What has been heard of a party is a prefix of what is heard later.      *)
LEMMA HeardGrows ==
    ASSUME NEW b \in Seq(Received), NEW party,
           NEW m \in 0..Len(b), NEW n \in 0..Len(b), m <= n
    PROVE  \E y \in Seq(Atoms) : Heard(b, party, n) = Heard(b, party, m) \o y
<1> DEFINE H(i) == Heard(b, party, i)
           Goes(i) == \E y \in Seq(Atoms) : H(i) = H(m) \o y
           T == {i \in 0..Len(b) : m <= i => Goes(i)}
<1>1. Len(b) \in Nat /\ m \in Nat /\ n \in Nat
    OBVIOUS
<1>2. ASSUME NEW i \in 0..Len(b)
      PROVE  /\ H(i) \in Seq(Atoms)
             /\ i < Len(b) => H(i + 1) = H(i) \o Piece(b[i + 1], party)
    BY HeardSteps
<1>3. \A i \in 1..Len(b) : Piece(b[i], party) \in Seq(Atoms)
    <2> TAKE i \in 1..Len(b)
    <2>1. b[i] \in Received
        OBVIOUS
    <2> QED
        BY <2>1, EmptySeq DEF Received, Piece
<1> HIDE DEF H
<1>4. Goes(m)
    <2>1. H(m) = H(m) \o <<>> /\ <<>> \in Seq(Atoms)
        BY <1>2, EmptySeq
    <2> QED
        BY <2>1
<1>5. 0 \in T
    <2>1. 0 \in 0..Len(b) /\ (m <= 0 => m = 0)
        BY <1>1
    <2> HIDE DEF Goes
    <2> QED
        BY <1>4, <2>1
<1>6. ASSUME NEW i \in 0..Len(b), i \in T, i < Len(b) PROVE i + 1 \in T
    <2>1. i + 1 \in 1..Len(b) /\ i + 1 \in 0..Len(b)
        BY <1>1, <1>6
    <2>2. CASE m <= i
        <3>1. PICK y \in Seq(Atoms) : H(i) = H(m) \o y
            BY <1>6, <2>2
        <3> DEFINE piece == Piece(b[i + 1], party)
        <3>2. piece \in Seq(Atoms) /\ H(i + 1) = H(i) \o piece /\ H(m) \in Seq(Atoms)
            BY <1>2, <1>3, <1>6, <2>1
        <3> HIDE DEF piece
        <3>3. (H(m) \o y) \o piece = H(m) \o (y \o piece) /\ y \o piece \in Seq(Atoms)
            BY <3>1, <3>2, ConcatAssociative, ConcatProperties, SMTT(60)
        <3>4. H(i + 1) = H(m) \o (y \o piece)
            BY <3>1, <3>2, <3>3
        <3>5. Goes(i + 1)
            BY <3>3, <3>4
        <3> HIDE DEF Goes
        <3> QED
            BY <2>1, <3>5
    <2>3. CASE m = i + 1
        <3> HIDE DEF Goes
        <3> QED
            BY <1>4, <2>1, <2>3
    <2>4. CASE m > i + 1
        <3> HIDE DEF Goes
        <3> QED
            BY <1>1, <2>1, <2>4
    <2>5. m <= i \/ m = i + 1 \/ m > i + 1
        BY <1>1
    <2> HIDE DEF T
    <2> QED
        BY <2>2, <2>3, <2>4, <2>5
<1> HIDE DEF T
<1>7. \A i \in 0..Len(b) : i \in T
    BY <1>1, <1>5, <1>6, Induction
<1> QED
    BY <1>7 DEF T, H

(* A fragment of a party continues what has been heard of it, at once.     *)
LEMMA HeardNext ==
    ASSUME NEW b \in Seq(Received), NEW party,
           NEW m \in 0..Len(b), NEW n \in 0..Len(b), NEW k \in (m + 1)..n,
           b[k].sender = party, b[k].fragment # <<>>,
           \A i \in (m + 1)..(k - 1) : b[i].sender # party
    PROVE  /\ IsStrictPrefix(Heard(b, party, m), Heard(b, party, n))
           /\ Len(Heard(b, party, m)) < Len(Heard(b, party, n))
           /\ Heard(b, party, n)[Len(Heard(b, party, m)) + 1] = b[k].fragment[1]
<1> DEFINE h == Heard(b, party, m)
           g == Heard(b, party, n)
           x == b[k].fragment
<1>1. /\ k - 1 \in 0..Len(b) /\ k \in 0..Len(b) /\ m <= k - 1 /\ k <= n
      /\ k - 1 < Len(b) /\ (k - 1) + 1 = k /\ k \in 1..Len(b)
    OBVIOUS
<1>2. x \in Seq(Atoms)
    <2>1. b[k] \in Received
        BY <1>1
    <2> QED
        BY <2>1 DEF Received
<1>3. Heard(b, party, k - 1) = h /\ h \in Seq(Atoms) /\ g \in Seq(Atoms)
    BY <1>1, HeardBetween, HeardSteps
<1>4. Heard(b, party, k) = h \o x
    <2>1. Heard(b, party, k) = Heard(b, party, k - 1) \o Piece(b[k], party)
        BY <1>1, HeardSteps
    <2> QED
        BY <1>3, <2>1 DEF Piece
<1>5. PICK y \in Seq(Atoms) : g = Heard(b, party, k) \o y
    <2> HIDE DEF h, g, x
    <2>0. k \in 0..Len(b) /\ n \in 0..Len(b) /\ k <= n
        BY <1>1
    <2>1. \E y \in Seq(Atoms) : Heard(b, party, n) = Heard(b, party, k) \o y
        BY <2>0, HeardGrows, ZenonT(60)
    <2> QED
        BY <2>1 DEF g
<1>6. g = (h \o x) \o y
    BY <1>4, <1>5
<1>7. x # <<>>
    OBVIOUS
<1> HIDE DEF h, g, x
<1>8. Len(x) \in Nat /\ Len(x) > 0 /\ Len(h) \in Nat /\ Len(y) \in Nat
    BY <1>2, <1>3, <1>5, <1>7, EmptySeq
<1>9. /\ h \o x \in Seq(Atoms) /\ Len(h \o x) = Len(h) + Len(x)
      /\ \A i \in 1..Len(h) : (h \o x)[i] = h[i]
      /\ (h \o x)[Len(h) + 1] = x[1]
    BY <1>2, <1>3, <1>8
<1> DEFINE z == h \o x
<1>10. /\ Len(g) = Len(h) + Len(x) + Len(y)
       /\ \A i \in 1..Len(z) : g[i] = z[i]
    <2>1. g = z \o y /\ z \in Seq(Atoms)
        BY <1>6, <1>9
    <2>2. Len(z) = Len(h) + Len(x)
        BY <1>9
    <2> HIDE DEF z
    <2>3. /\ Len(g) = Len(z) + Len(y)
          /\ \A i \in 1..Len(z) : g[i] = z[i]
        BY <1>5, <2>1
    <2> QED
        BY <2>2, <2>3
<1>11. /\ Len(h) < Len(g) /\ g[Len(h) + 1] = x[1]
       /\ \A i \in 1..Len(h) : g[i] = h[i]
    <2>1. \A i \in 1..Len(h) : i \in 1..Len(z)
        BY <1>8, <1>9
    <2>2. Len(h) + 1 \in 1..Len(z)
        BY <1>8, <1>9
    <2>3. Len(h) < Len(g)
        BY <1>8, <1>10
    <2> QED
        BY <1>9, <1>10, <2>1, <2>2, <2>3
<1>12. IsStrictPrefix(h, g)
    <2>1. IsPrefix(h, g)
        BY <1>3, <1>8, <1>11, PrefixByElements
    <2>2. h # g
        BY <1>8, <1>11
    <2> QED
        BY <2>1, <2>2 DEF IsStrictPrefix
<1> QED
    BY <1>11, <1>12 DEF h, g, x

(* Where a message ends is determined by the fragments.                    *)
LEMMA CarriesOnce ==
    ASSUME NEW b \in Seq(Received), NEW e,
           NEW m \in 1..Len(b), NEW n \in 1..Len(b),
           Carries(b, 0, m, e), Carries(b, 0, n, e)
    PROVE  m = n
<1>1. ASSUME NEW i \in 1..Len(b), NEW j \in 1..Len(b), i < j,
             Carries(b, 0, i, e), Carries(b, 0, j, e)
      PROVE  FALSE
    <2>1. /\ i \in 0..Len(b) /\ j \in 0..Len(b) /\ i + 1 \in (i + 1)..j
          /\ i + 1 \in (0 + 1)..j
        BY <1>1
    <2>2. b[i + 1].sender = e.sender /\ b[i + 1].fragment # <<>>
        BY <1>1, <2>1 DEF Carries
    <2>3. \A k \in (i + 1)..((i + 1) - 1) : b[k].sender # e.sender
        BY <2>1
    <2>4. IsStrictPrefix(Heard(b, e.sender, i), Heard(b, e.sender, j))
        BY <1>1, <2>1, <2>2, <2>3, HeardNext
    <2>5. Heard(b, e.sender, i) = e.word /\ Heard(b, e.sender, j) = e.word
        BY <1>1, <2>1, CarriesHeard
    <2> QED
        BY <2>4, <2>5 DEF IsStrictPrefix
<1>2. m \in Nat /\ n \in Nat /\ (m < n \/ n < m \/ m = n)
    OBVIOUS
<1> QED
    BY <1>1, <1>2

(* Clearing the first messages, all of one sender, leaves the rest.        *)
LEMMA ClearPrefix ==
    ASSUME NEW b \in Seq(Received), NEW party, NEW m \in 0..Len(b),
           \A i \in 1..m : b[i].sender = party,
           NEW r \in ClearByParty(b, party, m)
    PROVE  r = SubSeq(b, m + 1, Len(b))
<1> DEFINE keep == {i \in DOMAIN b : ~(b[i].sender = party /\ i <= m)}
           N == Len(b)
           rest == SubSeq(b, m + 1, N)
<1>1. /\ keep \in SUBSET (DOMAIN b) /\ r \in Sublists(b, keep)
      /\ r \in Seq(Received)
    BY ClearByPartyType DEF ClearByParty
<1>2. N \in Nat /\ m \in Nat /\ m <= N /\ Len(r) \in Nat
    BY <1>1
<1>3. \A i \in 1..N : i \in keep <=> ~(i <= m)
    BY <1>2
<1>4. /\ rest \in Seq(Received) /\ Len(rest) = N - m
      /\ \A i \in 1..(N - m) : rest[i] = b[i + m]
    BY <1>2
<1> HIDE DEF keep, rest
<1>5. PICK J \in [0..N -> 0..Len(r)] :
          /\ J[0] = 0 /\ J[N] = Len(r)
          /\ \A i \in 0..N : i < N =>
                IF i + 1 \in keep
                THEN J[i + 1] = J[i] + 1 /\ r[J[i] + 1] = b[i + 1]
                ELSE J[i + 1] = J[i]
    BY <1>1, SublistSteps, SMTT(60)
<1> HIDE DEF N
<1>6. \A i \in 0..N : J[i] = IF i <= m THEN 0 ELSE i - m
    <2> DEFINE T == {i \in 0..N : J[i] = IF i <= m THEN 0 ELSE i - m}
    <2>1. 0 \in T
        BY <1>2, <1>5
    <2>2. ASSUME NEW i \in 0..N, i \in T, i < N PROVE i + 1 \in T
        <3>1. i + 1 \in 1..N /\ i + 1 \in 0..N
            BY <1>2, <2>2
        <3>2. i + 1 \in keep <=> ~(i + 1 <= m)
            BY <1>3, <3>1
        <3>3. J[i + 1] = IF i + 1 \in keep THEN J[i] + 1 ELSE J[i]
            BY <1>5, <2>2
        <3>4. J[i] = IF i <= m THEN 0 ELSE i - m
            BY <2>2
        <3>5. CASE i + 1 <= m
            BY <1>2, <3>1, <3>2, <3>3, <3>4, <3>5
        <3>6. CASE ~(i + 1 <= m)
            <4>1. J[i + 1] = (i + 1) - m
                BY <1>2, <3>1, <3>2, <3>3, <3>4, <3>6
            <4> QED
                BY <3>1, <3>6, <4>1
        <3> QED
            BY <3>5, <3>6
    <2> HIDE DEF T
    <2>3. \A i \in 0..N : i \in T
        BY <1>2, <2>1, <2>2, Induction
    <2> QED
        BY <2>3 DEF T
<1>7. Len(r) = N - m
    <2>1. N \in 0..N
        BY <1>2
    <2>2. J[N] = IF N <= m THEN 0 ELSE N - m
        BY <1>6, <2>1
    <2> QED
        BY <1>2, <1>5, <2>2
<1>8. ASSUME NEW i \in 1..(N - m) PROVE r[i] = rest[i]
    <2>1. /\ (i + m) - 1 \in 0..N /\ (i + m) - 1 < N /\ ((i + m) - 1) + 1 = i + m
          /\ i + m \in 1..N /\ ~(i + m <= m) /\ i \in Nat
        BY <1>2
    <2>2. i + m \in keep
        BY <1>3, <2>1
    <2>3. J[(i + m) - 1] = i - 1
        <3>1. J[(i + m) - 1] = IF (i + m) - 1 <= m THEN 0 ELSE ((i + m) - 1) - m
            BY <1>6, <2>1
        <3> QED
            BY <1>2, <2>1, <3>1
    <2>4. r[J[(i + m) - 1] + 1] = b[i + m]
        BY <1>5, <2>1, <2>2
    <2>5. (i - 1) + 1 = i
        BY <2>1
    <2> QED
        BY <1>4, <2>3, <2>4, <2>5
<1>9. r = rest
    BY <1>1, <1>4, <1>7, <1>8, SeqEqual
<1> QED
    BY <1>9 DEF rest, N

-----------------------------------------------------------------------------
(* The fragments a message is sent in.                                     *)

(* However a message is cut, no piece is empty, and the pieces in their    *)
(* order are the message.                                                  *)
LEMMA FragmentationPieces ==
    ASSUME NEW w \in Seq(Atoms), w # <<>>, NEW g \in Fragmentations(w)
    PROVE  /\ g \in Seq(Seq(Atoms)) /\ Len(g) \in Nat /\ Len(g) > 0
           /\ \A k \in 1..Len(g) : g[k] # <<>>
           /\ g[1][1] = w[1]
           /\ FlattenSeq(g) = w
<1>1. PICK inner \in SUBSET (1..(Len(w) - 1)) : g \in Cuts(w, inner \cup {Len(w)})
    BY DEF Fragmentations
<1> DEFINE ends == inner \cup {Len(w)}
           N == Cardinality(ends)
           L == Len(w)
           last(x) == {0} \cup {j \in ends : j < x}
           Start(x) == CHOOSE j \in last(x) : \A i \in last(x) : i <= j
<1>2. PICK f \in [1..N -> ends] :
          /\ \A i, j \in 1..N : i < j => f[i] < f[j]
          /\ g = [k \in 1..N |-> SubSeq(w, Start(f[k]) + 1, f[k])]
    BY <1>1 DEF Cuts
<1>3. L \in Nat /\ L > 0 /\ ends \in SUBSET (1..L) /\ L \in ends /\ ends \in SUBSET Nat
    <2>1. Len(w) \in Nat /\ Len(w) > 0
        BY EmptySeq
    <2>2. \A i \in inner : i \in 1..Len(w)
        BY <2>1
    <2>3. Len(w) \in 1..Len(w) /\ \A i \in 1..Len(w) : i \in Nat
        BY <2>1
    <2>4. \A i \in ends : i \in 1..Len(w) /\ i \in Nat
        BY <2>2, <2>3
    <2>5. Len(w) \in ends
        OBVIOUS
    <2> HIDE DEF ends
    <2> QED
        BY <2>1, <2>4, <2>5
<1> HIDE DEF L, ends
<1>4. IsFiniteSet(ends) /\ N \in Nat /\ N > 0
    <2>1. IsFiniteSet(1..L)
        BY <1>3, FS_Interval
    <2>2. IsFiniteSet(ends)
        BY <1>3, <2>1, FS_Subset
    <2> QED
        BY <1>3, <2>2, FS_CardinalityType, FS_EmptySet
<1>5. \A i \in ends : \E k \in 1..N : f[k] = i
    BY <1>2, <1>3, <1>4, EnumerationIsOnto, ZenonT(60)
<1> HIDE DEF N
<1>6. \A k \in 1..N : f[k] \in 1..L /\ f[k] \in ends
    BY <1>2, <1>3
<1>7. N \in 1..N /\ f[N] = L
    <2>1. N \in 1..N
        BY <1>4
    <2>2. PICK k \in 1..N : f[k] = L
        BY <1>3, <1>5
    <2>3. k < N \/ k = N
        BY <1>4
    <2>4. k < N => f[k] < f[N]
        BY <1>2, <2>1
    <2> QED
        BY <1>3, <1>6, <2>1, <2>2, <2>3, <2>4
<1> DEFINE P(k) == IF k = 0 THEN 0 ELSE f[k]
<1>8. ASSUME NEW k \in 1..N
      PROVE  /\ k - 1 \in 0..N /\ P(k - 1) \in 0..L /\ P(k - 1) < f[k]
             /\ Start(f[k]) = P(k - 1)
    <2>1. k - 1 \in 0..N /\ (k - 1 # 0 => k - 1 \in 1..N /\ k - 1 < k)
        BY <1>4
    <2>2. P(k - 1) \in 0..L /\ P(k - 1) < f[k]
        BY <1>2, <1>3, <1>6, <2>1
    <2>3. P(k - 1) \in last(f[k])
        BY <1>6, <2>1, <2>2
    <2>4. ASSUME NEW i \in last(f[k]) PROVE i <= P(k - 1)
        <3>1. CASE i = 0
            BY <2>2, <3>1
        <3>2. CASE i \in ends /\ i < f[k]
            <4>1. PICK j \in 1..N : f[j] = i
                BY <1>5, <3>2
            <4>2. j < k
                <5>1. j < k \/ j = k \/ k < j
                    BY <1>4
                <5>2. k < j => f[k] < f[j]
                    BY <1>2
                <5> QED
                    BY <1>3, <1>6, <3>2, <4>1, <5>1, <5>2
            <4>3. k - 1 # 0 /\ (j = k - 1 \/ j < k - 1)
                BY <1>4, <4>2
            <4>4. j < k - 1 => f[j] < f[k - 1]
                BY <1>2, <2>1, <4>3
            <4> QED
                BY <1>3, <1>6, <2>1, <4>1, <4>3, <4>4
        <3> QED
            BY <2>4, <3>1, <3>2
    <2>5. \A j \in last(f[k]) : j \in Nat
        <3>1. \A j \in ends : j \in Nat
            BY <1>3
        <3> QED
            BY <3>1
    <2> HIDE DEF last, P
    <2>6. Start(f[k]) \in last(f[k]) /\ \A i \in last(f[k]) : i <= Start(f[k])
        BY <2>3, <2>4
    <2>7. Start(f[k]) <= P(k - 1) /\ P(k - 1) <= Start(f[k])
        BY <2>3, <2>4, <2>6
    <2>8. Start(f[k]) \in Nat /\ P(k - 1) \in Nat
        BY <2>2, <2>3, <2>5, <2>6
    <2> HIDE DEF Start
    <2> QED
        BY <2>1, <2>2, <2>7, <2>8
<1> HIDE DEF Start
<1>9. ASSUME NEW k \in 1..N
      PROVE  /\ g[k] = SubSeq(w, P(k - 1) + 1, f[k])
             /\ g[k] \in Seq(Atoms) /\ g[k] # <<>>
             /\ g[k][1] = w[P(k - 1) + 1]
    <2>1. g[k] = SubSeq(w, P(k - 1) + 1, f[k])
        BY <1>2, <1>8
    <2>2. /\ P(k - 1) \in 0..L /\ P(k - 1) < f[k] /\ f[k] \in 1..L
        BY <1>6, <1>8
    <2> HIDE DEF P
    <2>3. /\ P(k - 1) + 1 \in 1..Len(w) /\ f[k] \in 1..Len(w)
          /\ P(k - 1) + 1 <= f[k] /\ f[k] \in Nat /\ P(k - 1) \in Nat
        BY <1>3, <2>2 DEF L
    <2>4. /\ g[k] \in Seq(Atoms) /\ Len(g[k]) = f[k] - P(k - 1)
          /\ g[k][1] = w[P(k - 1) + 1]
        BY <2>1, <2>3
    <2>5. Len(g[k]) # 0
        BY <2>3, <2>4
    <2> QED
        BY <2>1, <2>4, <2>5
<1>10. g \in Seq(Seq(Atoms)) /\ Len(g) = N
    <2>1. g \in [1..N -> Seq(Atoms)]
        BY <1>2, <1>9
    <2> QED
        BY <1>4, <2>1, SeqDef
<1>11. g[1][1] = w[1]
    <2>1. 1 \in 1..N /\ P(1 - 1) + 1 = 1
        BY <1>4
    <2> QED
        BY <1>9, <2>1
<1>12. FlattenSeq(g) = w
    <2> DEFINE Upto(i) == [k \in 1..i |-> g[k]]
               T == {i \in 0..N : FlattenSeq(Upto(i)) = SubSeq(w, 1, P(i))}
    <2>1. 0 \in T
        <3>1. Upto(0) = <<>> /\ SubSeq(w, 1, 0) = <<>> /\ 0 \in 0..N
            BY <1>4
        <3> HIDE DEF Upto
        <3> QED
            BY <3>1, FlattenSteps
    <2>2. ASSUME NEW i \in 0..N, i \in T, i < N PROVE i + 1 \in T
        <3>1. i + 1 \in 1..N /\ i + 1 \in 0..N /\ (i + 1) - 1 = i /\ i + 1 # 0
            BY <1>4, <2>2
        <3>2. /\ g[i + 1] = SubSeq(w, P(i) + 1, f[i + 1]) /\ g[i + 1] \in Seq(Atoms)
              /\ P(i) \in 0..L /\ P(i) < f[i + 1] /\ f[i + 1] \in 1..L
            BY <1>6, <1>8, <1>9, <3>1
        <3>3. Upto(i) \in Seq(Seq(Atoms)) /\ Upto(i + 1) = Append(Upto(i), g[i + 1])
            <4>1. i \in Nat /\ \A k \in 1..i : k \in 1..N
                BY <1>4, <2>2
            <4>2. \A k \in 1..i : g[k] \in Seq(Atoms)
                BY <1>9, <4>1
            <4> QED
                BY <4>1, <4>2
        <3> HIDE DEF Upto
        <3>4. FlattenSeq(Upto(i + 1)) = FlattenSeq(Upto(i)) \o g[i + 1]
            BY <3>2, <3>3, FlattenSteps
        <3>5. FlattenSeq(Upto(i)) = SubSeq(w, 1, P(i))
            BY <2>2
        <3>6. P(i + 1) = f[i + 1]
            BY <3>1
        <3> HIDE DEF P
        <3>7. SubSeq(w, 1, P(i)) \o SubSeq(w, P(i) + 1, f[i + 1]) =
                 SubSeq(w, 1, f[i + 1])
            <4> DEFINE a == P(i)
                       z == f[i + 1]
            <4>1. a \in 0..Len(w) /\ z \in 1..Len(w) /\ a < z
                BY <3>2 DEF L
            <4> HIDE DEF a, z
            <4>2. SubSeq(w, 1, a) \o SubSeq(w, a + 1, z) = SubSeq(w, 1, z)
                BY <4>1
            <4> QED
                BY <4>2 DEF a, z
        <3> QED
            BY <3>1, <3>2, <3>4, <3>5, <3>6, <3>7
    <2> HIDE DEF T
    <2>3. \A i \in 0..N : i \in T
        BY <1>4, <2>1, <2>2, Induction
    <2>4. N \in T
        BY <1>4, <2>3
    <2>5. P(N) = L /\ Upto(N) = g
        <3>1. P(N) = L
            BY <1>4, <1>7
        <3>2. Upto(N) = g
            BY <1>2
        <3> QED
            BY <3>1, <3>2
    <2>6. SubSeq(w, 1, L) = w
        BY SubSeqFull DEF L
    <2> HIDE DEF Upto, P
    <2> QED
        BY <2>4, <2>5, <2>6 DEF T
<1> QED
    BY <1>4, <1>9, <1>10, <1>11, <1>12

(* So they carry the message.                                              *)
LEMMA FragmentsCarry ==
    ASSUME NEW p \in Packets, ~Sends(p), NEW w \in Seq(Atoms), w # <<>>,
           NEW g \in Fragmentations(w), NEW r \in FuzzerParties, NEW f,
           f = [k \in DOMAIN g |->
                  [sender |-> p.sender, receiver |-> r, fragment |-> g[k]]]
    PROVE  f \in Seq(Received) /\ Carries(f, 0, Len(f), Message(p, w))
<1>1. /\ g \in Seq(Seq(Atoms)) /\ Len(g) \in Nat /\ Len(g) > 0
      /\ \A k \in 1..Len(g) : g[k] # <<>>
      /\ g[1][1] = w[1] /\ FlattenSeq(g) = w
    BY FragmentationPieces
<1>2. p.sender \in ExternalParties
    BY DEF Sends, Packets, Parties
<1>3. DOMAIN g = 1..Len(g) /\ \A k \in 1..Len(g) : g[k] \in Seq(Atoms)
    BY <1>1
<1>4. f \in [1..Len(g) -> Received]
    BY <1>2, <1>3 DEF Received
<1>5. f \in Seq(Received) /\ Len(f) = Len(g)
    BY <1>1, <1>4, SeqDef
<1>6. \A k \in 1..Len(g) : f[k].sender = p.sender /\ f[k].fragment = g[k]
    BY <1>3
<1>7. Joined(f, 0, Len(f)) = w
    <2>1. [k \in 1..(Len(g) - 0) |-> f[0 + k].fragment] = g
        BY <1>1, <1>3, <1>6
    <2> QED
        BY <1>1, <1>5, <2>1 DEF Joined
<1>8. Message(p, w).sender = p.sender /\ Message(p, w).word = w
    BY DEF Message
<1>9. 0 < Len(f) /\ 0 + 1 = 1 /\ 1 \in 1..Len(g) /\ (0 + 1)..Len(f) = 1..Len(g)
    BY <1>1, <1>5
<1> QED
    BY <1>1, <1>5, <1>6, <1>7, <1>8, <1>9 DEF Carries

-----------------------------------------------------------------------------
(* Conversations.                                                          *)

(* A prefix agrees with the beginning, element by element.                 *)
LEMMA PrefixElements ==
    ASSUME NEW S, NEW s \in Seq(S), NEW t \in Seq(S), IsPrefix(s, t)
    PROVE  /\ Len(s) <= Len(t)
           /\ \A i \in 1..Len(s) : s[i] = t[i]
           /\ Len(s) = Len(t) => s = t
<1>1. Len(s) <= Len(t) /\ SubSeq(s, 1, Len(s)) = SubSeq(t, 1, Len(s))
    BY DEF IsPrefix
<1>2. \A i \in 1..Len(s) : s[i] = t[i]
    <2> TAKE i \in 1..Len(s)
    <2>1. SubSeq(s, 1, Len(s))[i] = s[i] /\ SubSeq(t, 1, Len(s))[i] = t[i]
        BY <1>1
    <2> QED
        BY <1>1, <2>1
<1>3. Len(s) = Len(t) => s = t
    BY <1>2, SeqEqual
<1> QED
    BY <1>1, <1>2, <1>3

(* What is forecast is what some conversation goes on with.                *)
LEMMA ForecastContinues ==
    ASSUME NEW b \in Seq(Packets)
    PROVE  Forecast(b) = Continuations(b)
<1>1. CASE b \in Beginnings
    BY <1>1, ExactForecasts, ForecastAssumption DEF ForecastsExactly, Forecast
<1>2. CASE b \notin Beginnings
    <2>1. \A c \in Language : ~IsStrictPrefix(b, c)
        BY <1>2, BeginningIsPrefix DEF IsStrictPrefix
    <2> QED
        BY <1>2, <2>1 DEF Forecast, Continuations
<1> QED
    BY <1>1, <1>2

(* What has been said and is the beginning of a conversation: its packets, *)
(* and the next one.                                                       *)
LEMMA PacketsOfPrefix ==
    ASSUME NEW log \in Seq(Entries), NEW longer \in Seq(Entries),
           IsPrefix(log, longer), NEW c \in Language, IsPrefix(PacketsOf(longer), c)
    PROVE  /\ PacketsOf(log) = SubSeq(c, 1, Len(log)) /\ PacketsOf(log) \in Beginnings
           /\ Len(longer) <= Len(c)
           /\ \A i \in 1..Len(longer) : c[i] = PacketOf(longer[i])
           /\ Len(log) < Len(longer) =>
                 PacketOf(longer[Len(log) + 1]) \in Forecast(PacketsOf(log))
<1>1. c \in Seq(Packets) /\ Len(c) \in Nat
    BY LanguageAssumption
<1>2. /\ PacketsOf(log) \in Seq(Packets) /\ Len(PacketsOf(log)) = Len(log)
      /\ PacketsOf(longer) \in Seq(Packets) /\ Len(PacketsOf(longer)) = Len(longer)
    BY PacketsOfType
<1>3. Len(log) <= Len(longer) /\ \A i \in 1..Len(log) : log[i] = longer[i]
    BY PrefixElements
<1>4. /\ Len(longer) <= Len(c)
      /\ \A i \in 1..Len(longer) : PacketsOf(longer)[i] = c[i]
    BY <1>1, <1>2, PrefixElements
<1>5. Len(log) \in Nat /\ Len(longer) \in Nat
    OBVIOUS
<1>6. /\ \A i \in 1..Len(longer) : PacketsOf(longer)[i] = PacketOf(longer[i])
      /\ \A i \in 1..Len(log) : PacketsOf(log)[i] = PacketOf(log[i])
    BY DEF PacketsOf
<1>7. \A i \in 1..Len(longer) : c[i] = PacketOf(longer[i])
    BY <1>4, <1>6
<1>8. \A i \in 1..Len(log) : PacketsOf(log)[i] = c[i]
    BY <1>3, <1>5, <1>6, <1>7
<1>9. PacketsOf(log) = SubSeq(c, 1, Len(log))
    <2>1. /\ SubSeq(c, 1, Len(log)) \in Seq(Packets)
          /\ Len(SubSeq(c, 1, Len(log))) = Len(log)
          /\ \A i \in 1..Len(log) : SubSeq(c, 1, Len(log))[i] = c[i]
        BY <1>1, <1>3, <1>4, <1>5
    <2> QED
        BY <1>2, <1>8, <2>1, SeqEqual
<1>10. PacketsOf(log) \in Beginnings
    <2>1. Len(log) \in 0..Len(c)
        BY <1>1, <1>3, <1>4, <1>5
    <2> QED
        BY <1>9, <2>1 DEF Beginnings
<1>11. ASSUME Len(log) < Len(longer)
       PROVE  PacketOf(longer[Len(log) + 1]) \in Forecast(PacketsOf(log))
    <2>1. IsPrefix(PacketsOf(log), c)
        BY <1>1, <1>2, <1>3, <1>4, <1>5, <1>8, PrefixByElements
    <2>2. PacketsOf(log) # c
        BY <1>2, <1>4, <1>5, <1>11
    <2>3. c[Len(log) + 1] \in Forecast(PacketsOf(log))
        BY <1>2, <2>1, <2>2, ForecastContinues DEF Continuations, IsStrictPrefix
    <2>4. Len(log) + 1 \in 1..Len(longer)
        BY <1>5, <1>11
    <2> QED
        BY <1>7, <2>3, <2>4
<1> QED
    BY <1>4, <1>7, <1>9, <1>10, <1>11

(* In a turn-based protocol, no two forecast packets are merged.           *)
LEMMA ForecastIsExact ==
    ASSUME NEW b \in Beginnings, NEW f \in ForecastingResults(Forecast(b))
    PROVE  f = Forecast(b)
<1>1. f \subseteq Forecast(b)
    BY DEF ForecastingResults
<1>2. ASSUME NEW p \in Forecast(b) PROVE p \in f
    <2>1. PICK q \in f : SameKey(p, q)
        BY DEF ForecastingResults
    <2>2. p = q
        BY <1>1, <2>1, TurnBased
    <2> QED
        BY <2>2
<1> QED
    BY <1>1, <1>2

(* What a packet of a forecast that is not Fandango's can say.             *)
LEMMA SayableIsSaid ==
    ASSUME NEW b \in Seq(Packets), NEW p \in Forecast(b), ~Sends(p), NEW w \in Sayable(p)
    PROVE  p \in Packets /\ w \in Words[p.nt] /\ w \in Seq(Atoms) /\ w # <<>>
<1>1. PICK c \in Language : IsStrictPrefix(b, c) /\ p = c[Len(b) + 1]
    BY ForecastContinues DEF Continuations
<1>2. c \in Seq(Packets)
    BY LanguageAssumption
<1>3. Len(b) + 1 \in DOMAIN c
    BY <1>1, <1>2, StrictPrefixIsShorter
<1>4. p \in Packets
    BY <1>1, <1>2, <1>3
<1>5. <<>> \notin Sayable(p)
    BY <1>1, <1>3, Spoken
<1>6. w \in Words[p.nt] /\ w \in Seq(Atoms)
    BY <1>4, GrammarAssumption DEF Sayable, Packets
<1> QED
    BY <1>4, <1>5, <1>6

-----------------------------------------------------------------------------
(* The inductive invariant.                                                *)

UnderWay == receive \o outbox

WireTypes == wire \in Seq(Entries) /\ outbox \in Seq(Received)

(* What is buffered and still to be sent is what has been said since the   *)
(* history.                                                                *)
Pending == Queued(UnderWay, wire, Len(history))

(* What takes place is the beginning of a conversation of the grammar that *)
(* meets the constraints; what is under way of it is not Fandango's.       *)
WireLegal ==
    /\ \E c \in Language : IsPrefix(PacketsOf(wire), c)
    /\ \A i \in 1..Len(wire) : wire[i].word \in Words[wire[i].nt]
    /\ wire # <<>> => Accepted(wire)
    /\ \A i \in (Len(history) + 1)..Len(wire) :
          /\ ~Sends(wire[i]) /\ wire[i].word \in Sayable(wire[i])
          /\ Accepted(SubSeq(wire, 1, i))

(* Fandango speaks, waits, expects and reads in its turn only.             *)
TurnHolds ==
    /\ pc \notin {"predict", "done", "failed"} =>
          forecast = Forecast(PacketsOf(history)) /\ forecast # {}
    /\ pc \in {"fuzz", "recheck", "transmit"} => Fuzzable # {}
    /\ pc \in {"wait", "waiting", "expect", "expecting", "select"} => Fuzzable = {}
    /\ pc \in {"expect", "expecting", "select"} => receive # <<>>
    /\ pc = "done" => Forecast(PacketsOf(history)) = {}

(* The parser reads the message that is due; its parses are of packets     *)
(* that its sender might say, and end with fragments of the sender.        *)
ParsesExpected ==
    Reading =>
        /\ receive # <<>> /\ reader.sender = receive[1].sender
        /\ \A nt \in reader.available :
              \E q \in forecast : q.sender = reader.sender /\ q.nt = nt
        /\ \A c \in reader.complete :
              /\ c.last \in DOMAIN receive /\ receive[c.last].sender = reader.sender
              /\ c.word \notin Underivable[c.nt]
              /\ \E q \in forecast : q.sender = reader.sender /\ q.nt = c.nt

(* The parser does not stop within a message.                              *)
WholeMessageRead ==
    pc = "deliver" =>
        \E m \in 1..reader.idx : Carries(receive, 0, m, wire[Len(history) + 1])

NothingRaised == error = "none" /\ pc # "failed"

PeersInv == /\ BufferInv /\ WireTypes /\ HistoryIsWhatHappened /\ Pending
            /\ WireLegal /\ TurnHolds /\ ParsesExpected /\ WholeMessageRead
            /\ NothingRaised

(* Types of what is under way.                                             *)
LEMMA PeersTypes ==
    ASSUME PeersInv
    PROVE  /\ receive \in Seq(Received) /\ outbox \in Seq(Received)
           /\ UnderWay \in Seq(Received) /\ Len(UnderWay) = Len(receive) + Len(outbox)
           /\ \A i \in 1..Len(receive) : UnderWay[i] = receive[i]
           /\ history \in Seq(Entries) /\ wire \in Seq(Entries)
           /\ Len(history) \in 0..Len(wire)
           /\ \A i \in 1..Len(history) : history[i] = wire[i]
           /\ Len(history) = Len(wire) => history = wire
           /\ (receive = <<>> /\ outbox = <<>>) <=> Len(history) = Len(wire)
<1>1. /\ receive \in Seq(Received) /\ outbox \in Seq(Received)
      /\ history \in Seq(Entries) /\ wire \in Seq(Entries)
      /\ IsPrefix(history, wire)
    BY DEF PeersInv, WireTypes, BufferInv, IInv, TypeOK, HistoryIsWhatHappened
<1>2. /\ UnderWay \in Seq(Received) /\ Len(UnderWay) = Len(receive) + Len(outbox)
      /\ \A i \in 1..Len(receive) : UnderWay[i] = receive[i]
      /\ UnderWay = <<>> <=> (receive = <<>> /\ outbox = <<>>)
    BY <1>1 DEF UnderWay
<1>3. /\ Len(history) <= Len(wire)
      /\ \A i \in 1..Len(history) : history[i] = wire[i]
      /\ Len(history) = Len(wire) => history = wire
    BY <1>1, PrefixElements
<1>4. Len(history) \in 0..Len(wire)
    BY <1>1, <1>3
<1>5. UnderWay = <<>> <=> Len(history) = Len(wire)
    BY <1>1, <1>2, <1>4, QueuedNothing DEF PeersInv, Pending
<1> QED
    BY <1>1, <1>2, <1>3, <1>4, <1>5

(* The message that is due: the first one said and not yet mounted.        *)
LEMMA MessageDue ==
    ASSUME PeersInv, Len(history) < Len(wire)
    PROVE  /\ wire[Len(history) + 1] \in Entries
           /\ PacketOf(wire[Len(history) + 1]) \in Forecast(PacketsOf(history))
           /\ ~Sends(PacketOf(wire[Len(history) + 1]))
           /\ ~Sends(wire[Len(history) + 1])
           /\ wire[Len(history) + 1].word \in
                 Words[wire[Len(history) + 1].nt] \ Underivable[wire[Len(history) + 1].nt]
           /\ Accepted(SubSeq(wire, 1, Len(history) + 1))
           /\ receive # <<>> => receive[1].sender = wire[Len(history) + 1].sender
<1> DEFINE h == Len(history)
           e == wire[h + 1]
<1>1. /\ h \in 0..Len(wire) /\ wire \in Seq(Entries) /\ history \in Seq(Entries)
      /\ IsPrefix(history, wire)
    BY PeersTypes DEF PeersInv, HistoryIsWhatHappened
<1>2. h + 1 \in 1..Len(wire) /\ h + 1 \in (h + 1)..Len(wire)
    BY <1>1
<1>3. e \in Entries
    BY <1>1, <1>2
<1>4. PacketOf(e) \in Forecast(PacketsOf(history))
    <2>1. PICK c \in Language : IsPrefix(PacketsOf(wire), c)
        BY DEF PeersInv, WireLegal
    <2> QED
        BY <1>1, <2>1, PacketsOfPrefix
<1>5. /\ ~Sends(e) /\ e.word \in Sayable(e) /\ Accepted(SubSeq(wire, 1, h + 1))
    BY <1>2 DEF PeersInv, WireLegal
<1>6. ~Sends(PacketOf(e))
    BY <1>5 DEF Sends, PacketOf
<1>7. ASSUME receive # <<>> PROVE receive[1].sender = e.sender
    <2>1. UnderWay \in Seq(Received) /\ Queued(UnderWay, wire, h)
        BY PeersTypes DEF PeersInv, Pending
    <2>2. PICK m \in 1..Len(UnderWay) : Carries(UnderWay, 0, m, e)
        BY <1>1, <2>1, QueuedFirst
    <2>3. 1 \in (0 + 1)..m
        BY <2>1
    <2>4. UnderWay[1].sender = e.sender
        BY <2>2, <2>3 DEF Carries
    <2>5. receive \in Seq(Received) /\ 1 \in 1..Len(receive)
        BY <1>7, PeersTypes
    <2> QED
        BY <2>4, <2>5, PeersTypes
<1> QED
    BY <1>3, <1>4, <1>5, <1>6, <1>7 DEF Sayable

(* Whose turn it is: Fandango has something to say only when nothing is    *)
(* under way; and what has arrived is of a party that is forecast.         *)
LEMMA WhoseTurn ==
    ASSUME PeersInv, forecast = Forecast(PacketsOf(history))
    PROVE  /\ Fuzzable # {} => Len(history) = Len(wire) /\ \A p \in forecast : Sends(p)
           /\ receive # <<>> => /\ Len(history) < Len(wire) /\ Fuzzable = {}
                                /\ receive[1].sender \in ExpectedSenders
<1>1. PacketsOf(history) \in Beginnings /\ Len(history) \in 0..Len(wire)
    <2>1. PICK c \in Language : IsPrefix(PacketsOf(wire), c)
        BY DEF PeersInv, WireLegal
    <2> QED
        BY <2>1, PeersTypes, PacketsOfPrefix DEF PeersInv, HistoryIsWhatHappened
<1>2. \A p, q \in forecast : Sends(p) <=> Sends(q)
    BY <1>1, TurnBased
<1>3. Fuzzable # {} => \A p \in forecast : Sends(p)
    BY <1>2 DEF Fuzzable
<1>4. ASSUME Len(history) < Len(wire) PROVE Fuzzable = {}
    BY <1>3, <1>4, MessageDue
<1>5. Len(history) < Len(wire) \/ Len(history) = Len(wire)
    BY <1>1
<1>6. ASSUME receive # <<>>
      PROVE  Len(history) < Len(wire) /\ receive[1].sender \in ExpectedSenders
    <2>1. Len(history) < Len(wire)
        BY <1>5, <1>6, PeersTypes
    <2> DEFINE e == wire[Len(history) + 1]
    <2>2. PacketOf(e) \in forecast /\ receive[1].sender = e.sender
        BY <1>6, <2>1, MessageDue
    <2>3. e.sender \in MsgParties(forecast)
        BY <2>2 DEF MsgParties, PacketOf
    <2>4. receive[1].sender \in SendersIn(receive)
        <3>1. receive \in Seq(Received) /\ 1 \in DOMAIN receive
            BY <1>6, PeersTypes
        <3> QED
            BY <3>1 DEF SendersIn
    <2> QED
        BY <2>1, <2>2, <2>3, <2>4 DEF ExpectedSenders
<1> QED
    BY <1>3, <1>4, <1>5, <1>6

-----------------------------------------------------------------------------
(* The parser among the messages under way.                                *)

(* While a parser is open, the message that is due is its sender's.        *)
LEMMA ReadingDue ==
    ASSUME PeersInv, Reading, NEW e, e = wire[Len(history) + 1]
    PROVE  /\ Len(history) < Len(wire) /\ e \in Entries
           /\ forecast = Forecast(PacketsOf(history))
           /\ PacketOf(e) \in forecast /\ PacketOf(e).nt = e.nt
           /\ PacketOf(e).sender = e.sender /\ ~Sends(PacketOf(e))
           /\ e.sender = reader.sender
           /\ e.word \in Words[e.nt] \ Underivable[e.nt]
           /\ Accepted(SubSeq(wire, 1, Len(history) + 1))
           /\ reader.idx \in 0..Len(receive)
           /\ reader.read = Heard(receive, reader.sender, reader.idx)
<1>1. receive # <<>> /\ reader.sender = receive[1].sender
    BY DEF PeersInv, ParsesExpected
<1>2. forecast = Forecast(PacketsOf(history))
    BY DEF PeersInv, TurnHolds, Reading
<1>3. Len(history) < Len(wire)
    BY <1>1, <1>2, WhoseTurn
<1>4. /\ e \in Entries /\ PacketOf(e) \in forecast /\ ~Sends(PacketOf(e))
      /\ e.word \in Words[e.nt] \ Underivable[e.nt]
      /\ Accepted(SubSeq(wire, 1, Len(history) + 1))
      /\ receive[1].sender = e.sender
    BY <1>1, <1>2, <1>3, MessageDue
<1>5. /\ reader.idx \in 0..Len(receive)
      /\ reader.read = Heard(receive, reader.sender, reader.idx)
    <2>1. receive \in Seq(Received) /\ reader \in Readers
        BY DEF PeersInv, BufferInv, IInv, TypeOK
    <2>2. reader.idx \in Nat /\ Len(receive) \in Nat
        BY <2>1 DEF Readers
    <2> QED
        BY <2>2 DEF PeersInv, BufferInv, ParseInv, PositionsStayValid
<1> QED
    BY <1>1, <1>2, <1>3, <1>4, <1>5 DEF PacketOf

(* Within a message, the parser of its packet can continue.                *)
LEMMA WithinIsViable ==
    ASSUME NEW b \in Seq(Received), NEW e \in Entries, e.word \in Words[e.nt],
           NEW m \in 1..Len(b), Carries(b, 0, m, e), NEW n \in 0..(m - 1),
           NEW j \in 0..Len(Heard(b, e.sender, n))
    PROVE  SubSeq(Heard(b, e.sender, n), 1, j) \in Viable[e.nt]
<1> DEFINE h == Heard(b, e.sender, n)
<1>1. n \in 0..Len(b) /\ m \in 0..Len(b) /\ n + 1 \in (n + 1)..m /\ n + 1 \in (0 + 1)..m
    OBVIOUS
<1>2. b[n + 1].sender = e.sender /\ b[n + 1].fragment # <<>>
    BY <1>1 DEF Carries
<1>3. \A i \in (n + 1)..((n + 1) - 1) : b[i].sender # e.sender
    BY <1>1
<1>4. Heard(b, e.sender, m) = e.word
    BY <1>1, CarriesHeard
<1>5. IsStrictPrefix(h, e.word) /\ Len(h) < Len(e.word)
    BY <1>1, <1>2, <1>3, <1>4, HeardNext
<1>6. h \in Seq(Atoms) /\ e.word \in Seq(Atoms) /\ e.nt \in NonTerminals
    BY <1>1, HeardSteps DEF Entries
<1>7. \A i \in 1..Len(h) : h[i] = e.word[i]
    BY <1>5, <1>6, StrictPrefixIsShorter
<1>8. j \in 0..Len(h)
    OBVIOUS
<1> HIDE DEF h
<1>9. j \in 0..(Len(e.word) - 1) /\ j \in 0..Len(e.word)
    BY <1>5, <1>6, <1>8
<1>10. SubSeq(h, 1, j) = SubSeq(e.word, 1, j)
    <2>1. \A i \in 1..j : h[i] = e.word[i]
        BY <1>6, <1>7, <1>8
    <2>2. /\ SubSeq(h, 1, j) \in Seq(Atoms) /\ Len(SubSeq(h, 1, j)) = j
          /\ \A i \in 1..j : SubSeq(h, 1, j)[i] = h[i]
        BY <1>6, <1>8
    <2>3. /\ SubSeq(e.word, 1, j) \in Seq(Atoms) /\ Len(SubSeq(e.word, 1, j)) = j
          /\ \A i \in 1..j : SubSeq(e.word, 1, j)[i] = e.word[i]
        BY <1>6, <1>9
    <2> QED
        BY <2>1, <2>2, <2>3, SeqEqual
<1>11. SubSeq(e.word, 1, j) \in Viable[e.nt]
    BY <1>6, <1>9, ViableAssumption
<1> QED
    BY <1>10, <1>11 DEF h

(* So it has not been dropped before the end of the message.               *)
LEMMA ParserStaysOpen ==
    ASSUME PeersInv, Reading, NEW e, e = wire[Len(history) + 1],
           NEW m \in 1..Len(UnderWay), Carries(UnderWay, 0, m, e), reader.idx < m
    PROVE  e.nt \in reader.available
<1>1. /\ e \in Entries /\ e.sender = reader.sender /\ PacketOf(e) \in forecast
      /\ PacketOf(e).sender = reader.sender /\ PacketOf(e).nt = e.nt
      /\ e.word \in Words[e.nt] /\ reader.idx \in 0..Len(receive)
      /\ reader.read = Heard(receive, e.sender, reader.idx)
    BY ReadingDue
<1>2. UnderWay \in Seq(Received)
    BY PeersTypes
<1>3. reader.read = Heard(UnderWay, e.sender, reader.idx)
    BY <1>1, PeersTypes, HeardExtended DEF UnderWay
<1>4. reader.idx \in 0..(m - 1)
    BY <1>1
<1>5. \A j \in 0..Len(reader.read) : SubSeq(reader.read, 1, j) \in Viable[e.nt]
    BY <1>1, <1>2, <1>3, <1>4, WithinIsViable
<1> QED
    BY <1>1, <1>5 DEF PeersInv, BufferInv, ParseInv, ParsersTracked

(* When the whole message has been read, it has been parsed.               *)
LEMMA WholeIsParsed ==
    ASSUME PeersInv, Reading, NEW e, e = wire[Len(history) + 1],
           NEW m \in 1..Len(receive), Carries(receive, 0, m, e), m <= reader.idx
    PROVE  \E c \in reader.complete : c.nt = e.nt /\ Len(e.word) <= Len(c.word)
<1>1. /\ e.sender = reader.sender /\ PacketOf(e) \in forecast
      /\ PacketOf(e).sender = reader.sender /\ PacketOf(e).nt = e.nt
      /\ e.word \in Words[e.nt] \ Underivable[e.nt]
    BY ReadingDue
<1>2. receive \in Seq(Received) /\ m \in 0..Len(receive)
    BY PeersTypes
<1>3. Heard(receive, reader.sender, m) = e.word
    BY <1>1, <1>2, CarriesHeard
<1>4. receive[m].sender = reader.sender
    <2>1. m \in (0 + 1)..m
        BY <1>2
    <2> QED
        BY <1>1, <2>1 DEF Carries
<1>5. m \in FragmentsFrom(receive, reader.sender, 1)
    BY <1>2, <1>4 DEF FragmentsFrom
<1>6. LongestParseKept
    BY DEF PeersInv, BufferInv, ParseInv
<1> QED
    BY <1>1, <1>3, <1>5, <1>6 DEF LongestParseKept

(* Every complete parse ends within the message that is due; one that ends *)
(* with it is that message, for its nonterminal.                           *)
LEMMA ParsesEndWithin ==
    ASSUME PeersInv, Reading, NEW e, e = wire[Len(history) + 1],
           NEW m \in 1..Len(UnderWay), Carries(UnderWay, 0, m, e),
           \A k \in 1..Len(UnderWay) : UnderWay[k].fragment # <<>>,
           \A k \in (m + 1)..Len(UnderWay) :
               /\ UnderWay[k].sender = e.sender
               /\ \A i \in (m + 1)..(k - 1) : UnderWay[i].sender # e.sender
               => \E j \in (Len(history) + 2)..Len(wire) :
                     /\ wire[j].sender = e.sender
                     /\ UnderWay[k].fragment[1] = wire[j].word[1],
           NEW c \in reader.complete
    PROVE  /\ c.last \in 1..Len(receive) /\ c.last <= m
           /\ c.last < m => Len(c.word) < Len(e.word)
           /\ c.last = m => c.word = e.word /\ c.nt = e.nt
<1> DEFINE q == UnderWay
           h == Len(history)
           s == reader.sender
<1>1. /\ h < Len(wire) /\ e \in Entries /\ forecast = Forecast(PacketsOf(history))
      /\ PacketOf(e) \in forecast /\ PacketOf(e).nt = e.nt
      /\ PacketOf(e).sender = s /\ ~Sends(PacketOf(e)) /\ e.sender = s
      /\ e.word \in Words[e.nt] \ Underivable[e.nt]
    BY ReadingDue
<1>2. /\ receive \in Seq(Received) /\ q \in Seq(Received) /\ Len(receive) <= Len(q)
      /\ Len(receive) \in Nat /\ Len(q) \in Nat
      /\ \A i \in 1..Len(receive) : q[i] = receive[i]
      /\ wire \in Seq(Entries) /\ history \in Seq(Entries) /\ h \in 0..Len(wire)
    BY PeersTypes
<1>3. /\ c.last \in 1..Len(receive) /\ receive[c.last].sender = s
      /\ c.word \notin Underivable[c.nt]
      /\ \E p \in forecast : p.sender = s /\ p.nt = c.nt
    BY <1>2 DEF PeersInv, ParsesExpected
<1>4. /\ c.word = Heard(receive, s, c.last) /\ c.word \in Words[c.nt]
    BY DEF PeersInv, BufferInv, IInv, ParsesHold, ParseInv, PositionsStayValid
<1>5. c.word = Heard(q, s, c.last) /\ e.word = Heard(q, s, m)
    <2>1. c.last \in 0..Len(receive) /\ m \in 0..Len(q) /\ outbox \in Seq(Received)
        BY <1>2, <1>3, PeersTypes
    <2>2. Heard(receive \o outbox, s, c.last) = Heard(receive, s, c.last)
        BY <1>2, <2>1, HeardExtended
    <2>3. Heard(q, e.sender, m) = e.word
        BY <1>2, <2>1, CarriesHeard
    <2> QED
        BY <1>1, <1>4, <2>2, <2>3 DEF UnderWay
<1>6. /\ c.last \in 1..Len(q) /\ q[c.last].sender = s /\ m \in Nat /\ c.last \in Nat
    BY <1>2, <1>3
<1>7. PICK p \in forecast : p.sender = s /\ p.nt = c.nt
    BY <1>3
<1>8. \A k \in (m + 1)..Len(q) :
          /\ q[k].sender = s
          /\ \A i \in (m + 1)..(k - 1) : q[i].sender # s
          => \E j \in (h + 2)..Len(wire) :
                wire[j].sender = s /\ q[k].fragment[1] = wire[j].word[1]
    BY <1>1
<1>9. \A k \in 1..m : q[k].sender = s
    BY <1>1, <1>6 DEF Carries
<1>10. \A k \in 1..Len(q) : q[k].fragment # <<>>
    OBVIOUS
<1>11. m \in 1..Len(q)
    OBVIOUS
<1>12. PICK l \in Language : IsPrefix(PacketsOf(wire), l)
    BY DEF PeersInv, WireLegal
<1>13. PacketsOf(history) \in Beginnings
    BY <1>2, <1>12, PacketsOfPrefix DEF PeersInv, HistoryIsWhatHappened
<1> HIDE DEF q, h, s
<1>14. ASSUME c.last > m PROVE FALSE
    <2> DEFINE T == {k \in (m + 1)..c.last : q[k].sender = s}
    <2>1. c.last \in T /\ T \in SUBSET Nat
        BY <1>6, <1>14
    <2>2. PICK k \in T : \A i \in T : k <= i
        <3> HIDE DEF T
        <3> QED
            BY <2>1, LeastNat
    <2>3. k \in (m + 1)..c.last /\ q[k].sender = s /\ k \in Nat
        BY <1>6
    <2>4. \A i \in (m + 1)..(k - 1) : q[i].sender # s
        <3> SUFFICES ASSUME NEW i \in (m + 1)..(k - 1), q[i].sender = s PROVE FALSE
            OBVIOUS
        <3>1. i \in T /\ ~(k <= i)
            BY <1>6, <2>3
        <3> QED
            BY <2>2, <3>1
    <2> HIDE DEF T
    <2>5. k \in (m + 1)..Len(q) /\ k \in 1..Len(q)
        BY <1>2, <1>6, <2>3
    <2>6. PICK j \in (h + 2)..Len(wire) :
             wire[j].sender = s /\ q[k].fragment[1] = wire[j].word[1]
        BY <1>8, <2>3, <2>4, <2>5
    <2>7. /\ IsStrictPrefix(e.word, c.word)
          /\ c.word[Len(e.word) + 1] = wire[j].word[1]
        <3>1. m \in 0..Len(q) /\ c.last \in 0..Len(q)
            BY <1>2, <1>6, <1>11
        <3>2. q[k].fragment # <<>>
            BY <1>10, <2>5
        <3>3. /\ IsStrictPrefix(Heard(q, s, m), Heard(q, s, c.last))
              /\ Heard(q, s, c.last)[Len(Heard(q, s, m)) + 1] = q[k].fragment[1]
            BY <1>2, <2>3, <2>4, <3>1, <3>2, HeardNext, SMTT(60)
        <3> QED
            BY <1>5, <2>6, <3>3
    <2>8. /\ PacketsOf(history) = SubSeq(l, 1, h) /\ Len(wire) <= Len(l)
          /\ \A i \in 1..Len(wire) : l[i] = PacketOf(wire[i])
        BY <1>2, <1>12, PacketsOfPrefix DEF PeersInv, HistoryIsWhatHappened, h
    <2>9. /\ h + 1 \in 1..Len(wire) /\ j \in 1..Len(wire) /\ h + 1 < j
          /\ (h + 1) - 1 = h /\ \A i \in (h + 1)..j : i \in (h + 1)..Len(wire)
          /\ j \in (h + 1)..Len(wire) /\ \A i \in (h + 1)..j : i \in 1..Len(wire)
        BY <1>1, <1>2
    <2>10. h + 1 \in DOMAIN l /\ j \in DOMAIN l
        <3>1. l \in Seq(Packets)
            BY LanguageAssumption
        <3> QED
            BY <2>8, <2>9, <3>1
    <2>11. l[h + 1] = PacketOf(e) /\ l[j] = PacketOf(wire[j])
        BY <2>8, <2>9 DEF h
    <2>12. /\ l[h + 1].sender = s /\ l[j].sender = s
           /\ \A i \in (h + 1)..j : ~Sends(l[i])
        <3>1. \A i \in (h + 1)..j : ~Sends(wire[i]) /\ l[i] = PacketOf(wire[i])
            BY <2>8, <2>9 DEF PeersInv, WireLegal, h
        <3>2. \A x : PacketOf(x).sender = x.sender /\ (Sends(PacketOf(x)) <=> Sends(x))
            BY DEF PacketOf, Sends
        <3>3. \A i \in (h + 1)..j : ~Sends(l[i])
            BY <3>1, <3>2
        <3> QED
            BY <1>1, <2>6, <2>11, <3>2, <3>3
    <2>13. p \in Forecast(SubSeq(l, 1, (h + 1) - 1)) /\ p.sender = l[h + 1].sender
        BY <1>1, <1>7, <2>8, <2>9, <2>12
    <2>14. /\ e.word \in Sayable(l[h + 1]) /\ c.word \in Sayable(p)
           /\ wire[j].word \in Sayable(l[j])
        <3>1. wire[j].word \in Sayable(wire[j])
            BY <2>9 DEF PeersInv, WireLegal, h
        <3> QED
            BY <1>1, <1>3, <1>4, <1>7, <2>11, <3>1 DEF Sayable, PacketOf
    <2>15. c.word[Len(e.word) + 1] # wire[j].word[1]
        BY <2>7, <2>9, <2>10, <2>12, <2>13, <2>14, Separable
    <2> QED
        BY <2>7, <2>15
<1>15. ASSUME c.last < m PROVE Len(c.word) < Len(e.word)
    <2> DEFINE n == c.last
    <2>1. /\ n \in 0..Len(q) /\ m \in 0..Len(q) /\ n + 1 \in (n + 1)..m
          /\ n + 1 \in 1..Len(q) /\ n + 1 \in 1..m
          /\ \A i \in (n + 1)..((n + 1) - 1) : q[i].sender # s
        BY <1>2, <1>6, <1>11, <1>15, SMTT(60)
    <2>2. q[n + 1].sender = s /\ q[n + 1].fragment # <<>>
        BY <1>9, <1>10, <2>1
    <2>3. Len(Heard(q, s, n)) < Len(Heard(q, s, m))
        BY <1>2, <2>1, <2>2, HeardNext
    <2> QED
        BY <1>5, <2>3
<1>16. ASSUME c.last = m PROVE c.word = e.word /\ c.nt = e.nt
    <2>1. c.word = e.word
        BY <1>5, <1>16
    <2>2. ASSUME p # PacketOf(e) PROVE FALSE
        <3>1. Words[PacketOf(e).nt] \cap Words[p.nt] = {}
            BY <1>1, <1>7, <1>13, <2>2, TurnBased
        <3> QED
            BY <1>1, <1>4, <1>7, <2>1, <3>1
    <2> QED
        BY <1>1, <1>7, <2>1, <2>2
<1>17. c.last <= m
    BY <1>6, <1>14
<1> QED
    BY <1>3, <1>15, <1>16, <1>17

(* What is carried by the beginning of a queue.                            *)
LEMMA CarriesPrefix ==
    ASSUME NEW b, NEW c, NEW m \in Nat, NEW e,
           \A i \in 1..m : c[i] = b[i], Carries(b, 0, m, e)
    PROVE  Carries(c, 0, m, e)
<1>1. 0 + 0 = 0 /\ m + 0 = m /\ 0 \in Int /\ 0 \in Nat
    OBVIOUS
<1>2. \A i \in (0 + 1)..m : c[i + 0] = b[i]
    <2> TAKE i \in (0 + 1)..m
    <2>1. i \in 1..m /\ i + 0 = i
        OBVIOUS
    <2> QED
        BY <2>1
<1>3. Carries(c, 0 + 0, m + 0, e)
    BY <1>1, <1>2, CarriesShifted
<1> QED
    BY <1>1, <1>3

(* What is mounted is the message that is due, with its contents and its   *)
(* packet; and its fragments leave the buffer, all of them and no others.  *)
LEMMA DeliverMountsDue ==
    ASSUME PeersInv, Deliver, NEW e, e = wire[Len(history) + 1]
    PROVE  /\ history' = Append(history, e)
           /\ receive' \in Seq(Received)
           /\ Queued(receive' \o outbox, wire, Len(history) + 1)
<1>1. Reading /\ pc = "deliver"
    BY DEF Deliver, Mount, Reading
<1>2. /\ Len(history) < Len(wire) /\ e \in Entries
      /\ forecast = Forecast(PacketsOf(history))
      /\ PacketOf(e) \in forecast /\ PacketOf(e).nt = e.nt
      /\ PacketOf(e).sender = e.sender /\ e.sender = reader.sender
      /\ reader.idx \in 0..Len(receive)
    BY <1>1, ReadingDue
<1>3. /\ receive \in Seq(Received) /\ outbox \in Seq(Received)
      /\ UnderWay \in Seq(Received) /\ Len(UnderWay) = Len(receive) + Len(outbox)
      /\ \A i \in 1..Len(receive) : UnderWay[i] = receive[i]
      /\ history \in Seq(Entries) /\ wire \in Seq(Entries)
      /\ Len(history) \in 0..Len(wire)
    BY PeersTypes
<1>4. PICK m \in 1..Len(UnderWay) :
          /\ Carries(UnderWay, 0, m, e)
          /\ Queued(SubSeq(UnderWay, m + 1, Len(UnderWay)), wire, Len(history) + 1)
          /\ \A k \in 1..Len(UnderWay) : UnderWay[k].fragment # <<>>
          /\ \A k \in (m + 1)..Len(UnderWay) :
                /\ UnderWay[k].sender = e.sender
                /\ \A i \in (m + 1)..(k - 1) : UnderWay[i].sender # e.sender
                => \E j \in (Len(history) + 2)..Len(wire) :
                      /\ wire[j].sender = e.sender
                      /\ UnderWay[k].fragment[1] = wire[j].word[1]
    <2> DEFINE h == Len(history)
               q == UnderWay
    <2>1. /\ q \in Seq(Received) /\ wire \in Seq(Entries) /\ h \in 0..Len(wire)
          /\ h < Len(wire) /\ Queued(q, wire, h)
        BY <1>2, <1>3 DEF PeersInv, Pending
    <2> HIDE DEF h, q
    <2>2. \E m \in 1..Len(q) :
             /\ Carries(q, 0, m, wire[h + 1])
             /\ Queued(SubSeq(q, m + 1, Len(q)), wire, h + 1)
             /\ \A k \in 1..Len(q) : q[k].fragment # <<>>
             /\ \A k \in (m + 1)..Len(q) :
                   /\ q[k].sender = wire[h + 1].sender
                   /\ \A i \in (m + 1)..(k - 1) : q[i].sender # wire[h + 1].sender
                   => \E j \in (h + 2)..Len(wire) :
                         /\ wire[j].sender = wire[h + 1].sender
                         /\ q[k].fragment[1] = wire[j].word[1]
        BY <2>1, QueuedFirst
    <2>3. e = wire[h + 1]
        BY DEF h
    <2> QED
        BY <2>2, <2>3 DEF h, q
<1>5. m \in 1..Len(receive) /\ m <= reader.idx /\ Carries(receive, 0, m, e)
    <2>1. PICK n \in 1..reader.idx : Carries(receive, 0, n, e)
        BY <1>1 DEF PeersInv, WholeMessageRead
    <2>2. /\ n \in Nat /\ n \in 1..Len(receive) /\ n \in 1..Len(UnderWay)
          /\ \A i \in 1..n : UnderWay[i] = receive[i]
        BY <1>2, <1>3
    <2>3. Carries(UnderWay, 0, n, e)
        BY <2>1, <2>2, CarriesPrefix
    <2>4. m = n
        BY <1>3, <1>4, <2>2, <2>3, CarriesOnce
    <2> QED
        BY <2>1, <2>2, <2>4
<1>6. \A c \in reader.complete :
          /\ c.last \in 1..Len(receive) /\ c.last <= m
          /\ c.last < m => Len(c.word) < Len(e.word)
          /\ c.last = m => c.word = e.word /\ c.nt = e.nt
    BY <1>1, <1>4, ParsesEndWithin
<1>7. PICK d \in reader.complete : d.nt = e.nt /\ Len(e.word) <= Len(d.word)
    BY <1>1, <1>5, WholeIsParsed
<1>8. d.last = m
    <2>1. Len(e.word) \in Nat /\ Len(d.word) \in Nat
        <3>1. reader.complete \in SUBSET Parses
            BY DEF PeersInv, BufferInv, IInv, TypeOK, Readers
        <3>2. d.word \in Seq(Atoms) /\ e.word \in Seq(Atoms)
            BY <1>2, <3>1 DEF Parses, Entries
        <3> QED
            BY <3>2
    <2>2. ~(d.last < m) /\ d.last <= m /\ d.last \in Nat
        BY <1>3, <1>6, <1>7, <2>1, SMTT(60)
    <2> QED
        BY <1>5, <2>2
<1>9. PICK c \in BestParses, p \in forecast :
          /\ p.sender = reader.sender /\ p.nt = c.nt
          /\ receive' \in ClearByParty(receive, reader.sender, c.last)
          /\ history' = Append(history, Message(p, c.word))
    BY DEF Deliver, Mount
<1>10. c.last = m /\ c.word = e.word /\ c.nt = e.nt
    <2>1. c \in reader.complete /\ d.last <= c.last
        BY DEF BestParses
    <2>2. c.last \in Nat /\ c.last <= m
        BY <1>3, <1>6, <2>1
    <2>3. c.last = m
        BY <1>5, <1>8, <2>1, <2>2
    <2> QED
        BY <1>6, <2>1, <2>3
<1>11. Message(p, c.word) = e
    <2>1. PacketsOf(history) \in Beginnings
        <3>1. PICK l \in Language : IsPrefix(PacketsOf(wire), l)
            BY DEF PeersInv, WireLegal
        <3> QED
            BY <1>3, <3>1, PacketsOfPrefix DEF PeersInv, HistoryIsWhatHappened
    <2>2. SameKey(p, PacketOf(e))
        BY <1>2, <1>9, <1>10 DEF SameKey
    <2>3. p = PacketOf(e)
        BY <1>2, <2>1, <2>2, TurnBased
    <2>4. Message(PacketOf(e), e.word) = e
        BY <1>2 DEF Message, PacketOf, Entries
    <2> QED
        BY <1>10, <2>3, <2>4
<1>12. receive' = SubSeq(receive, m + 1, Len(receive))
    <2>1. \A i \in 1..m : receive[i].sender = reader.sender
        BY <1>2, <1>5 DEF Carries
    <2>2. m \in 0..Len(receive) /\ receive' \in ClearByParty(receive, reader.sender, m)
        BY <1>5, <1>9, <1>10
    <2> QED
        BY <1>3, <2>1, <2>2, ClearPrefix
<1>13. receive' \in Seq(Received)
    BY <1>3, <1>5, <1>12
<1>14. receive' \o outbox = SubSeq(UnderWay, m + 1, Len(UnderWay))
    <2> DEFINE N == Len(receive)
               O == Len(outbox)
    <2>1. /\ N \in Nat /\ O \in Nat /\ m \in 1..N /\ Len(UnderWay) = N + O
          /\ \A i \in 1..N : UnderWay[i] = receive[i]
          /\ \A i \in 1..O : UnderWay[N + i] = outbox[i]
        BY <1>3, <1>5 DEF UnderWay
    <2>2. /\ Len(receive') = N - m
          /\ \A i \in 1..(N - m) : receive'[i] = receive[m + i]
        <3>1. m + 1 \in Int /\ N \in Int /\ (m + 1 <= N => N - (m + 1) + 1 = N - m)
            BY <2>1
        <3> QED
            BY <1>3, <1>12, <2>1
    <2> DEFINE left == receive' \o outbox
               rest == SubSeq(UnderWay, m + 1, Len(UnderWay))
    <2>3. /\ left \in Seq(Received) /\ Len(left) = (N - m) + O
          /\ \A i \in 1..(N - m) : left[i] = receive'[i]
          /\ \A i \in 1..O : left[(N - m) + i] = outbox[i]
        <3>1. /\ left \in Seq(Received) /\ Len(left) = Len(receive') + O
              /\ \A i \in 1..Len(receive') : left[i] = receive'[i]
              /\ \A i \in 1..O : left[Len(receive') + i] = outbox[i]
            BY <1>3, <1>13
        <3> HIDE DEF left
        <3> QED
            BY <2>2, <3>1
    <2>4. /\ rest \in Seq(Received) /\ Len(rest) = (N + O) - m
          /\ \A i \in 1..((N + O) - m) : rest[i] = UnderWay[m + i]
        BY <1>3, <2>1
    <2> HIDE DEF N, O, left, rest
    <2>5. ASSUME NEW i \in 1..((N + O) - m) PROVE left[i] = rest[i]
        <3>1. CASE i <= N - m
            <4>1. i \in 1..(N - m) /\ m + i \in 1..N
                BY <2>1, <3>1
            <4> QED
                BY <2>1, <2>2, <2>3, <2>4, <4>1
        <3>2. CASE ~(i <= N - m)
            <4> DEFINE j == (i + m) - N
            <4>1. j \in 1..O /\ (N - m) + j = i /\ N + j = m + i
                BY <2>1, <3>2
            <4> HIDE DEF j
            <4>2. left[i] = outbox[j] /\ rest[i] = UnderWay[N + j]
                BY <2>3, <2>4, <4>1
            <4> QED
                BY <2>1, <4>1, <4>2
        <3> QED
            BY <3>1, <3>2
    <2>6. Len(left) = Len(rest) /\ Len(left) = (N + O) - m
        BY <2>1, <2>3, <2>4
    <2>7. left = rest
        BY <2>3, <2>4, <2>5, <2>6, SeqEqual
    <2> QED
        BY <2>7 DEF left, rest
<1> QED
    BY <1>4, <1>9, <1>11, <1>13, <1>14

(* The party whose turn it is has something to say.                        *)
LEMMA SomeoneSpeaks ==
    ASSUME PeersInv, Len(history) = Len(wire),
           forecast = Forecast(PacketsOf(history)), forecast # {}, Fuzzable = {},
           PeersIdle
    PROVE  FALSE
<1> DEFINE b == PacketsOf(wire)
           words == [i \in DOMAIN b |-> wire[i].word]
           log == [i \in DOMAIN b |-> Message(b[i], words[i])]
<1>1. history = wire /\ wire \in Seq(Entries) /\ history \in Seq(Entries)
    BY PeersTypes
<1>2. b \in Beginnings
    <2>1. PICK l \in Language : IsPrefix(PacketsOf(wire), l)
        BY DEF PeersInv, WireLegal
    <2> QED
        BY <1>1, <2>1, PacketsOfPrefix DEF PeersInv, HistoryIsWhatHappened
<1>3. /\ DOMAIN b = DOMAIN wire /\ DOMAIN wire = 1..Len(wire)
      /\ \A i \in 1..Len(wire) : b[i] = PacketOf(wire[i]) /\ wire[i] \in Entries
      /\ \A i \in 1..Len(wire) : wire[i].word \in Words[wire[i].nt]
    BY <1>1 DEF PacketsOf, PeersInv, WireLegal
<1>4. \A i \in 1..Len(wire) : wire[i].nt \in NonTerminals /\ b[i].nt = wire[i].nt
    BY <1>3 DEF Entries, PacketOf
<1>5. words \in [DOMAIN b -> UNION {Words[nt] : nt \in NonTerminals}]
    BY <1>3, <1>4
<1>6. \A i \in DOMAIN b : words[i] \in Words[b[i].nt]
    BY <1>3, <1>4
<1>7. log = wire
    <2>1. \A i \in 1..Len(wire) : Message(b[i], words[i]) = wire[i]
        BY <1>3 DEF Message, PacketOf, Entries
    <2>2. wire = [i \in DOMAIN wire |-> wire[i]]
        BY <1>1
    <2> QED
        BY <1>3, <2>1, <2>2
<1>8. b = <<>> \/ Accepted(log)
    <2>1. wire = <<>> => b = <<>>
        BY <1>1, <1>3 DEF PacketsOf
    <2> QED
        BY <1>7, <2>1 DEF PeersInv, WireLegal
<1>9. forecast = Forecast(b) /\ \A p \in Forecast(b) : ~Sends(p)
    BY <1>1 DEF Fuzzable
<1>10. PICK p \in Forecast(b) : \E w \in Sayable(p) : Accepted(Append(log, Message(p, w)))
    <2>1. \E p \in Forecast(b) : ~Sends(p)
        BY <1>9
    <2> HIDE DEF b, words
    <2> QED
        BY <1>2, <1>5, <1>6, <1>8, <2>1, Answerable
<1>11. PICK w \in Sayable(p) : Accepted(Append(wire, Message(p, w)))
    BY <1>7, <1>10
<1>12. MayStart(p, w) /\ w \in Words[p.nt]
    BY <1>9, <1>11 DEF MayStart, PeersIdle, Sayable
<1> QED
    BY <1>12 DEF PeersIdle

-----------------------------------------------------------------------------
(* The steps of the external parties.                                      *)

(* Nothing has taken place at the beginning.                               *)
LEMMA InitPeersInv == PeersInit => PeersInv
<1> SUFFICES ASSUME PeersInit PROVE PeersInv
    OBVIOUS
<1>1. /\ BufferInv /\ receive = <<>> /\ history = <<>> /\ wire = <<>> /\ outbox = <<>>
      /\ pc = "predict" /\ error = "none"
    BY InitBufferInv DEF PeersInit, Init
<1>2. /\ WireTypes /\ Len(<<>>) = 0 /\ <<>> \o <<>> = <<>>
    BY <1>1, EmptySeq DEF WireTypes
<1>3. HistoryIsWhatHappened /\ PacketsOf(<<>>) = <<>>
    BY <1>1 DEF HistoryIsWhatHappened, IsPrefix, PacketsOf
<1>4. Pending
    <2>1. <<>> \in Seq(Received) /\ <<>> \in Seq(Entries) /\ Len(<<>>) \in 0..Len(<<>>)
        BY <1>2, EmptySeq
    <2>2. Queued(<<>>, <<>>, Len(<<>>))
        BY <2>1, QueuedNothing
    <2> QED
        BY <1>1, <1>2, <2>2 DEF Pending, UnderWay
<1>5. WireLegal
    BY <1>1, <1>2, <1>3, LanguageAssumption, EmptyIsPrefix DEF WireLegal
<1>6. TurnHolds /\ ParsesExpected /\ WholeMessageRead /\ NothingRaised
    BY <1>1 DEF TurnHolds, ParsesExpected, WholeMessageRead, NothingRaised, Reading
<1> QED
    BY <1>1, <1>2, <1>3, <1>4, <1>5, <1>6 DEF PeersInv

(* An entry that the grammar and the constraints allow next makes what     *)
(* took place longer, and leaves it legal.                                 *)
LEMMA WireGrows ==
    ASSUME NEW log \in Seq(Entries), NEW p \in Forecast(PacketsOf(log)),
           NEW e \in Entries, PacketOf(e) = p, e.word \in Words[e.nt],
           \A i \in 1..Len(log) : log[i].word \in Words[log[i].nt]
    PROVE  /\ \E c \in Language : IsPrefix(PacketsOf(Append(log, e)), c)
           /\ \A i \in 1..Len(Append(log, e)) :
                 Append(log, e)[i].word \in Words[Append(log, e)[i].nt]
           /\ IsPrefix(log, Append(log, e))
           /\ \A i \in 0..Len(log) : SubSeq(Append(log, e), 1, i) = SubSeq(log, 1, i)
           /\ SubSeq(Append(log, e), 1, Len(log) + 1) = Append(log, e)
<1> DEFINE longer == Append(log, e)
<1>1. /\ longer \in Seq(Entries) /\ Len(longer) = Len(log) + 1 /\ Len(log) \in Nat
      /\ longer[Len(log) + 1] = e /\ \A i \in 1..Len(log) : longer[i] = log[i]
    OBVIOUS
<1>2. \E c \in Language : IsPrefix(PacketsOf(longer), c)
    <2>1. PacketsOf(log) \in Seq(Packets)
        BY PacketsOfType
    <2>2. \E c \in Language : IsPrefix(Append(PacketsOf(log), p), c)
        BY <2>1, ForecastContinues, ContinuationSound
    <2>3. PacketsOf(longer) = Append(PacketsOf(log), p)
        BY PacketsOfAppend
    <2> QED
        BY <2>2, <2>3
<1> HIDE DEF longer
<1>3. \A i \in 1..Len(longer) : longer[i].word \in Words[longer[i].nt]
    <2> TAKE i \in 1..Len(longer)
    <2>1. i \in 1..Len(log) \/ i = Len(log) + 1
        BY <1>1
    <2> QED
        BY <1>1, <2>1
<1>4. IsPrefix(log, longer)
    BY <1>1, PrefixByElements
<1>5. ASSUME NEW i \in 0..Len(log) PROVE SubSeq(longer, 1, i) = SubSeq(log, 1, i)
    <2>1. /\ SubSeq(longer, 1, i) \in Seq(Entries) /\ Len(SubSeq(longer, 1, i)) = i
          /\ SubSeq(log, 1, i) \in Seq(Entries) /\ Len(SubSeq(log, 1, i)) = i
          /\ \A k \in 1..i : SubSeq(longer, 1, i)[k] = longer[k]
          /\ \A k \in 1..i : SubSeq(log, 1, i)[k] = log[k] /\ k \in 1..Len(log)
        BY <1>1
    <2> QED
        BY <1>1, <2>1, SeqEqual
<1>6. SubSeq(longer, 1, Len(log) + 1) = longer
    BY <1>1, SubSeqFull
<1> QED
    BY <1>2, <1>3, <1>4, <1>5, <1>6 DEF longer

(* A party that starts to speak adds a message to what is under way.       *)
LEMMA PeerStartsPeersInv == PeersInv /\ PeerStarts => PeersInv'
<1> SUFFICES ASSUME PeersInv, PeerStarts PROVE PeersInv'
    OBVIOUS
<1>0. PICK p \in Forecast(PacketsOf(wire)) : \E w \in Words[p.nt] :
          /\ MayStart(p, w)
          /\ wire' = Append(wire, Message(p, w))
          /\ \E fragments \in Fragmentations(w), r \in FuzzerParties :
                outbox' = [k \in DOMAIN fragments |->
                             [sender |-> p.sender, receiver |-> r,
                              fragment |-> fragments[k]]]
    BY DEF PeerStarts
<1>1. PICK w \in Words[p.nt] :
          /\ MayStart(p, w)
          /\ wire' = Append(wire, Message(p, w))
          /\ \E fragments \in Fragmentations(w), r \in FuzzerParties :
                outbox' = [k \in DOMAIN fragments |->
                             [sender |-> p.sender, receiver |-> r,
                              fragment |-> fragments[k]]]
    BY <1>0
<1> DEFINE e == Message(p, w)
           h == Len(history)
<1>2. /\ receive \in Seq(Received) /\ outbox = <<>> /\ UnderWay \in Seq(Received)
      /\ UnderWay = receive
      /\ history \in Seq(Entries) /\ wire \in Seq(Entries) /\ h \in 0..Len(wire)
      /\ \A i \in 1..h : history[i] = wire[i]
    BY <1>1, PeersTypes DEF MayStart, UnderWay
<1>3. ~Sends(p) /\ w \in Sayable(p) /\ Accepted(Append(wire, e))
    BY <1>1 DEF MayStart
<1>4. p \in Packets /\ w \in Seq(Atoms) /\ w # <<>>
    <2>1. PacketsOf(wire) \in Seq(Packets)
        BY <1>2, PacketsOfType
    <2> QED
        BY <1>3, <2>1, SayableIsSaid
<1>5. /\ e \in Entries /\ PacketOf(e) = p /\ e.nt = p.nt /\ e.word = w
      /\ e.sender = p.sender
    BY <1>4, MessageType DEF Message
<1>6. outbox' \in Seq(Received) /\ Carries(outbox', 0, Len(outbox'), e)
    <2>1. PICK g \in Fragmentations(w), r \in FuzzerParties :
             outbox' = [k \in DOMAIN g |->
                          [sender |-> p.sender, receiver |-> r, fragment |-> g[k]]]
        BY <1>1
    <2> QED
        BY <1>3, <1>4, <2>1, FragmentsCarry
<1>7. /\ UNCHANGED vars /\ wire' = Append(wire, e)
      /\ receive' = receive /\ history' = history /\ pc' = pc /\ forecast' = forecast
      /\ reader' = reader /\ error' = error
    BY <1>1 DEF PeerStarts, vars, exchangeVars
<1> HIDE DEF e
<1>8. BufferInv'
    BY <1>7, MovesBufferInv DEF PeersInv
<1>9. wire' \in Seq(Entries) /\ Len(wire') = Len(wire) + 1 /\ Len(wire) \in Nat
      /\ wire'[Len(wire) + 1] = e /\ \A i \in 1..Len(wire) : wire'[i] = wire[i]
    BY <1>2, <1>5, <1>7
<1>10. WireTypes'
    BY <1>6, <1>9 DEF WireTypes
<1>11. /\ \E c \in Language : IsPrefix(PacketsOf(wire'), c)
       /\ \A i \in 1..Len(wire') : wire'[i].word \in Words[wire'[i].nt]
       /\ \A i \in 0..Len(wire) : SubSeq(wire', 1, i) = SubSeq(wire, 1, i)
       /\ SubSeq(wire', 1, Len(wire) + 1) = wire'
    BY <1>1, <1>2, <1>5, <1>7, WireGrows, SMTT(60) DEF PeersInv, WireLegal
<1>12. HistoryIsWhatHappened'
    <2>1. h <= Len(wire') /\ \A i \in 1..h : history[i] = wire'[i]
        BY <1>2, <1>9
    <2>2. IsPrefix(history, wire')
        BY <1>2, <1>9, <2>1, PrefixByElements
    <2> QED
        BY <1>7, <2>2 DEF HistoryIsWhatHappened
<1>13. Pending'
    <2>1. Queued(UnderWay \o outbox', Append(wire, e), h)
        BY <1>2, <1>5, <1>6, QueuedSaid DEF PeersInv, Pending
    <2> QED
        BY <1>2, <1>7, <2>1 DEF Pending, UnderWay
<1>14. WireLegal'
    <2>1. ASSUME NEW i \in (h + 1)..Len(wire')
          PROVE  /\ ~Sends(wire'[i]) /\ wire'[i].word \in Sayable(wire'[i])
                 /\ Accepted(SubSeq(wire', 1, i))
        <3>1. CASE i \in (h + 1)..Len(wire)
            <4>1. i \in 1..Len(wire) /\ i \in 0..Len(wire)
                BY <1>2, <3>1
            <4>2. wire'[i] = wire[i] /\ SubSeq(wire', 1, i) = SubSeq(wire, 1, i)
                BY <1>9, <1>11, <4>1
            <4>3. /\ ~Sends(wire[i]) /\ wire[i].word \in Sayable(wire[i])
                  /\ Accepted(SubSeq(wire, 1, i))
                BY <3>1 DEF PeersInv, WireLegal
            <4> QED
                BY <4>2, <4>3
        <3>2. CASE i = Len(wire) + 1
            BY <1>3, <1>5, <1>7, <1>9, <1>11, <3>2 DEF Sends, Sayable, e
        <3> QED
            BY <1>2, <1>9, <3>1, <3>2
    <2>2. Accepted(wire')
        BY <1>3, <1>7 DEF e
    <2> QED
        BY <1>7, <1>11, <2>1, <2>2 DEF WireLegal
<1>15. TurnHolds' /\ ParsesExpected' /\ NothingRaised'
    BY <1>7 DEF PeersInv, TurnHolds, ParsesExpected, NothingRaised, Reading, Fuzzable
<1>16. WholeMessageRead'
    <2> SUFFICES ASSUME pc = "deliver"
                 PROVE  \E m \in 1..reader.idx : Carries(receive, 0, m, wire'[h + 1])
        BY <1>7 DEF WholeMessageRead
    <2>1. h < Len(wire)
        BY ReadingDue DEF Reading
    <2>2. wire'[h + 1] = wire[h + 1]
        BY <1>2, <1>9, <2>1, SMTT(60)
    <2> QED
        BY <2>2 DEF PeersInv, WholeMessageRead
<1> QED
    BY <1>8, <1>10, <1>12, <1>13, <1>14, <1>15, <1>16 DEF PeersInv

(* A fragment that arrives is as much under way as before.                 *)
LEMMA PeerSendsPeersInv == PeersInv /\ PeerSends => PeersInv'
<1> SUFFICES ASSUME PeersInv, PeerSends PROVE PeersInv'
    OBVIOUS
<1> DEFINE x == Head(outbox)
<1>1. receive \in Seq(Received) /\ outbox \in Seq(Received) /\ outbox # <<>>
    BY PeersTypes DEF PeerSends
<1>2. x \in Received /\ Tail(outbox) \in Seq(Received)
    BY <1>1
<1>3. BufferInv'
    BY <1>2, ReceiveBufferInv DEF PeersInv, PeerSends
<1>4. /\ receive' = Append(receive, x) /\ outbox' = Tail(outbox) /\ wire' = wire
      /\ UNCHANGED <<pc, forecast, history, reader, error>>
    BY DEF PeerSends, Receive, AddReceive, exchangeVars
<1>5. /\ Len(receive') = Len(receive) + 1 /\ Len(receive) \in Nat
      /\ \A i \in 1..Len(receive) : receive'[i] = receive[i]
      /\ receive' \in Seq(Received)
    BY <1>1, <1>2, <1>4
<1>6. UnderWay' = UnderWay
    <2>1. outbox = <<x>> \o Tail(outbox)
        BY <1>1
    <2>2. Append(receive, x) = receive \o <<x>>
        BY <1>1, <1>2
    <2>3. <<x>> \in Seq(Received)
        BY <1>2
    <2> DEFINE t == Tail(outbox)
    <2>4. t \in Seq(Received)
        BY <1>2
    <2> HIDE DEF x, t
    <2>5. (receive \o <<x>>) \o t = receive \o (<<x>> \o t)
        BY <1>1, <2>3, <2>4, ConcatAssociative
    <2>6. UnderWay' = (receive \o <<x>>) \o t
        BY <1>4, <2>2 DEF UnderWay, t
    <2>7. UnderWay = receive \o (<<x>> \o t)
        BY <2>1 DEF UnderWay, t
    <2> QED
        BY <2>5, <2>6, <2>7
<1>7. WireTypes' /\ HistoryIsWhatHappened' /\ Pending' /\ WireLegal' /\ NothingRaised'
    BY <1>2, <1>4, <1>6 DEF PeersInv, WireTypes, HistoryIsWhatHappened, Pending,
        WireLegal, NothingRaised
<1>8. TurnHolds'
    <2>1. receive' # <<>>
        BY <1>5
    <2> QED
        BY <1>4, <2>1 DEF PeersInv, TurnHolds, Fuzzable
<1>9. ParsesExpected'
    <2> SUFFICES ASSUME Reading PROVE ParsesExpected'
        BY <1>4 DEF ParsesExpected, Reading
    <2>1. /\ receive # <<>> /\ reader.sender = receive[1].sender
          /\ \A c \in reader.complete :
                c.last \in 1..Len(receive) /\ receive[c.last].sender = reader.sender
        BY <1>1 DEF PeersInv, ParsesExpected
    <2>2. 1 \in 1..Len(receive)
        BY <1>1, <2>1
    <2>3. receive' # <<>> /\ reader.sender = receive'[1].sender
        BY <1>5, <2>1, <2>2
    <2>4. \A c \in reader.complete :
             c.last \in DOMAIN receive' /\ receive'[c.last].sender = reader.sender
        BY <1>5, <2>1
    <2> QED
        BY <1>4, <2>3, <2>4 DEF PeersInv, ParsesExpected
<1>10. WholeMessageRead'
    <2> SUFFICES ASSUME pc = "deliver"
                 PROVE  \E m \in 1..reader.idx :
                            Carries(receive', 0, m, wire[Len(history) + 1])
        BY <1>4 DEF WholeMessageRead
    <2>1. reader.idx \in 0..Len(receive)
        BY ReadingDue DEF Reading
    <2>2. PICK m \in 1..reader.idx : Carries(receive, 0, m, wire[Len(history) + 1])
        BY DEF PeersInv, WholeMessageRead
    <2>3. m \in Nat /\ \A i \in 1..m : receive'[i] = receive[i]
        BY <1>5, <2>1
    <2>4. Carries(receive', 0, m, wire[Len(history) + 1])
        BY <2>2, <2>3, CarriesPrefix
    <2> QED
        BY <2>4
<1> QED
    BY <1>3, <1>7, <1>8, <1>9, <1>10 DEF PeersInv

-----------------------------------------------------------------------------
(* The steps of the main thread.                                           *)

(* What a step leaves alone that touches neither the buffer nor the        *)
(* history.                                                                *)
LEMMA QuietKeeps ==
    ASSUME PeersInv, UNCHANGED <<receive, history, wire, outbox>>
    PROVE  WireTypes' /\ HistoryIsWhatHappened' /\ Pending' /\ WireLegal'
    BY DEF PeersInv, WireTypes, HistoryIsWhatHappened, Pending, UnderWay, WireLegal

(* There is always a forecast before anything is said; afterwards there is *)
(* none exactly when the conversation is over.                             *)
LEMMA PredictPeersInv ==
    ASSUME PeersInv, Predict, UNCHANGED <<wire, outbox>>
    PROVE  PeersInv'
<1>1. BufferInv' /\ UNCHANGED <<receive, history, reader>>
    BY MovesBufferInv DEF PeersInv, Predict, exchangeVars, outerVars
<1>2. WireTypes' /\ HistoryIsWhatHappened' /\ Pending' /\ WireLegal'
    BY <1>1, QuietKeeps
<1>3. PICK c \in Language : IsPrefix(PacketsOf(wire), c)
    BY DEF PeersInv, WireLegal
<1>4. PacketsOf(history) \in Beginnings
    BY <1>3, PeersTypes, PacketsOfPrefix DEF PeersInv, HistoryIsWhatHappened
<1>5. forecast' = Forecast(PacketsOf(history))
    BY <1>4, ForecastIsExact DEF Predict
<1>6. ASSUME history = <<>> PROVE forecast' # {}
    <2>1. PICK l \in Language : l # <<>>
        BY LanguageAssumption, Spoken
    <2>2. IsStrictPrefix(<<>>, l)
        BY <2>1, EmptyIsPrefix DEF IsStrictPrefix
    <2>3. l[Len(<<>>) + 1] \in Forecast(<<>>)
        BY <2>2, EmptySeq, ForecastContinues DEF Continuations
    <2>4. PacketsOf(history) = <<>>
        BY <1>6 DEF PacketsOf
    <2> QED
        BY <1>5, <2>3, <2>4
<1>7. /\ error' = error
      /\ (pc' = "decide" /\ forecast' # {}) \/ (pc' = "done" /\ forecast' = {})
    BY <1>6 DEF Predict, Goto
<1>8. TurnHolds' /\ ParsesExpected' /\ WholeMessageRead' /\ NothingRaised'
    BY <1>1, <1>5, <1>7 DEF PeersInv, TurnHolds, ParsesExpected, WholeMessageRead,
        NothingRaised, Reading
<1> QED
    BY <1>1, <1>2, <1>8 DEF PeersInv

(* Before it reads, Fandango goes where its turn takes it, and does not    *)
(* raise.                                                                  *)
Turns == \/ Decide \/ Fuzz \/ Recheck
         \/ AwaitMessage \/ NothingReceived \/ AwaitParty \/ NoPartyOfForecast

LEMMA TurnsPeersInv ==
    ASSUME PeersInv, Turns, UNCHANGED <<wire, outbox>>
    PROVE  PeersInv'
<1>1. /\ UNCHANGED <<receive, history, reader, forecast>> /\ error' = error
      /\ BufferInv'
    <2>1. CASE Fuzz
        BY <2>1, MovesBufferInv DEF PeersInv, Fuzz, Goto, outerVars
    <2>2. CASE Decide \/ Recheck
        BY <2>2, MovesBufferInv DEF PeersInv, Moves, Decide, Recheck, Goto,
            exchangeVars, outerVars
    <2>3. CASE AwaitMessage \/ NothingReceived
        BY <2>3, MovesBufferInv DEF PeersInv, Moves, AwaitMessage, NothingReceived,
            Goto, exchangeVars, outerVars
    <2>4. CASE AwaitParty \/ NoPartyOfForecast
        BY <2>4, MovesBufferInv DEF PeersInv, Moves, AwaitParty, NoPartyOfForecast,
            Goto, exchangeVars, outerVars
    <2> QED
        BY <2>1, <2>2, <2>3, <2>4 DEF Turns
<1>2. WireTypes' /\ HistoryIsWhatHappened' /\ Pending' /\ WireLegal'
    BY <1>1, QuietKeeps
<1>3. pc \notin {"predict", "done", "failed"}
    BY DEF Turns, Decide, Fuzz, Recheck, AwaitMessage, NothingReceived,
        AwaitParty, NoPartyOfForecast
<1>4. forecast = Forecast(PacketsOf(history)) /\ forecast # {}
    BY <1>3 DEF PeersInv, TurnHolds
<1>5. receive # <<>> => Fuzzable = {}
    BY <1>4, WhoseTurn
<1>6. \/ pc' = "predict"
      \/ pc' \in {"fuzz", "recheck", "transmit"} /\ Fuzzable # {}
      \/ pc' \in {"wait", "waiting"} /\ Fuzzable = {}
      \/ pc' \in {"expect", "expecting", "select"} /\ Fuzzable = {} /\ receive # <<>>
    <2>1. CASE Decide
        BY <1>5, <2>1 DEF Decide, Goto, ReceivedMsg
    <2>2. CASE Fuzz \/ Recheck
        BY <2>2 DEF PeersInv, TurnHolds, Fuzz, Recheck, Goto
    <2>3. CASE AwaitMessage \/ NothingReceived
        BY <2>3 DEF PeersInv, TurnHolds, AwaitMessage, NothingReceived, Goto, ReceivedMsg
    <2>4. CASE AwaitParty \/ NoPartyOfForecast
        BY <2>4 DEF PeersInv, TurnHolds, AwaitParty, NoPartyOfForecast, Goto
    <2> QED
        BY <2>1, <2>2, <2>3, <2>4 DEF Turns
<1>7. Fuzzable' = Fuzzable
    BY <1>1 DEF Fuzzable
<1>8. TurnHolds'
    BY <1>1, <1>4, <1>6, <1>7 DEF TurnHolds
<1>9. ParsesExpected' /\ WholeMessageRead' /\ NothingRaised'
    BY <1>1, <1>6 DEF PeersInv, ParsesExpected, WholeMessageRead, NothingRaised, Reading
<1> QED
    BY <1>1, <1>2, <1>8, <1>9 DEF PeersInv

(* What Fandango transmits is one message, forecast and accepted.          *)
LEMMA TransmitsOne ==
    ASSUME PeersInv, pc = "transmit"
    PROVE  \E p \in forecast : \E w \in Words[p.nt] :
              /\ Message(p, w) \in Entries /\ PacketOf(Message(p, w)) = p
              /\ NextMessages = Append(history, Message(p, w))
              /\ Last(NextMessages) = Message(p, w)
              /\ Accepted(Append(history, Message(p, w)))
<1>1. forecast = Forecast(PacketsOf(history))
    BY DEF PeersInv, TurnHolds
<1>2. PICK q \in forecast : candidate \in Additions(PacketsOf(history), q)
    BY DEF PeersInv, BufferInv, IInv, CandidateHolds
<1>3. PacketsOf(history) \in Beginnings
    BY <1>1, <1>2, ForecastSound
<1>4. PICK p \in forecast : \E w \in Words[p.nt] :
         candidate = [said |-> <<Message(p, w)>>, lost |-> <<>>]
    BY <1>1, <1>2, <1>3, MessagesStayOne, TameEvolution
<1>5. PICK w \in Words[p.nt] : candidate = [said |-> <<Message(p, w)>>, lost |-> <<>>]
    BY <1>4
<1> DEFINE e == Message(p, w)
<1>6. e \in Entries /\ PacketOf(e) = p
    BY MessageOfForecastType DEF PeersInv, BufferInv, IInv
<1>7. Solves(history \o candidate.said \o candidate.lost)
    BY DEF PeersInv, BufferInv, IInv, CandidateHolds, Solution
<1>8. candidate.said = <<e>> /\ candidate.lost = <<>> /\ history \in Seq(Entries)
    BY <1>5, PeersTypes
<1> HIDE DEF e
<1>9. NextMessages = Append(history, e) /\ history \o <<e>> \o <<>> = Append(history, e)
    BY <1>6, <1>8 DEF NextMessages
<1>10. Last(NextMessages) = e
    BY <1>6, <1>8, <1>9 DEF Last
<1>11. history \o candidate.said \o candidate.lost = Append(history, e)
    BY <1>8, <1>9
<1>12. Accepted(Append(history, e))
    BY <1>7, <1>11 DEF Solves, Accepted
<1> QED
    BY <1>6, <1>9, <1>10, <1>12 DEF e

(* What Fandango transmits, it transmits in its turn, when nothing is      *)
(* under way: so it takes place in the order of the history.               *)
LEMMA TransmitPeersInv ==
    ASSUME PeersInv, Transmit, wire' = Append(wire, Last(NextMessages)),
           outbox' = outbox
    PROVE  PeersInv'
<1>1. BufferInv'
    BY NextBufferInv DEF PeersInv, Next, Generate, Work
<1>2. /\ history' = NextMessages /\ pc' = "predict" /\ error' = error
      /\ receive' = receive
    BY DEF Transmit, Goto
<1>3. forecast = Forecast(PacketsOf(history)) /\ Fuzzable # {}
    BY DEF PeersInv, TurnHolds, Transmit
<1>4. Len(history) = Len(wire)
    BY <1>3, WhoseTurn
<1>5. /\ history = wire /\ receive = <<>> /\ outbox = <<>>
      /\ history \in Seq(Entries) /\ wire \in Seq(Entries)
    BY <1>4, PeersTypes
<1>6. PICK p \in forecast : \E w \in Words[p.nt] :
         /\ Message(p, w) \in Entries /\ PacketOf(Message(p, w)) = p
         /\ NextMessages = Append(history, Message(p, w))
         /\ Last(NextMessages) = Message(p, w)
         /\ Accepted(Append(history, Message(p, w)))
    BY TransmitsOne DEF Transmit
<1>7. PICK w \in Words[p.nt] :
         /\ Message(p, w) \in Entries /\ PacketOf(Message(p, w)) = p
         /\ NextMessages = Append(history, Message(p, w))
         /\ Last(NextMessages) = Message(p, w)
         /\ Accepted(Append(history, Message(p, w)))
    BY <1>6
<1> DEFINE e == Message(p, w)
<1>8. e \in Entries /\ PacketOf(e) = p /\ e.word \in Words[e.nt]
    BY <1>7 DEF Message
<1>9. Accepted(Append(wire, e))
    BY <1>5, <1>7
<1> HIDE DEF e
<1>10. wire' = Append(wire, e) /\ history' = wire'
    BY <1>2, <1>5, <1>7 DEF e
<1>11. /\ wire' \in Seq(Entries) /\ Len(wire') = Len(wire) + 1 /\ Len(wire) \in Nat
    BY <1>5, <1>8, <1>10
<1>12. WireTypes' /\ HistoryIsWhatHappened'
    <2>1. IsPrefix(wire', wire')
        <3>1. Len(wire') <= Len(wire') /\ \A i \in 1..Len(wire') : wire'[i] = wire'[i]
            BY <1>11
        <3> QED
            BY <1>11, <3>1, PrefixByElements
    <2>2. <<>> \in Seq(Received)
        BY EmptySeq
    <2> QED
        BY <1>5, <1>10, <1>11, <2>1, <2>2 DEF WireTypes, HistoryIsWhatHappened
<1>13. Pending'
    <2>1. <<>> \in Seq(Received) /\ Len(wire') \in 0..Len(wire')
        BY <1>11, EmptySeq
    <2>2. Queued(<<>>, wire', Len(wire'))
        BY <1>11, <2>1, QueuedNothing
    <2>3. UnderWay' = <<>>
        BY <1>2, <1>5 DEF UnderWay
    <2> QED
        BY <1>10, <2>2, <2>3 DEF Pending
<1>14. WireLegal'
    <2>1. p \in Forecast(PacketsOf(wire))
        BY <1>3, <1>5
    <2>2. /\ \E c \in Language : IsPrefix(PacketsOf(wire'), c)
          /\ \A i \in 1..Len(wire') : wire'[i].word \in Words[wire'[i].nt]
        BY <1>5, <1>8, <1>10, <2>1, WireGrows DEF PeersInv, WireLegal
    <2>3. (Len(history') + 1)..Len(wire') = {}
        BY <1>10, <1>11
    <2> QED
        BY <1>9, <1>10, <2>2, <2>3 DEF WireLegal
<1>15. TurnHolds' /\ ParsesExpected' /\ WholeMessageRead' /\ NothingRaised'
    BY <1>2 DEF PeersInv, TurnHolds, ParsesExpected, WholeMessageRead,
        NothingRaised, Reading
<1> QED
    BY <1>1, <1>12, <1>13, <1>14, <1>15 DEF PeersInv

(* The parser is opened for the message that is due.                       *)
LEMMA SelectPeersInv ==
    ASSUME PeersInv, Select, UNCHANGED <<wire, outbox>>
    PROVE  PeersInv'
<1>1. BufferInv' /\ UNCHANGED <<receive, history, forecast>>
    BY NextBufferInv DEF PeersInv, Next, Generate, Work, Select, exchangeVars,
        outerVars
<1>2. WireTypes' /\ HistoryIsWhatHappened' /\ Pending' /\ WireLegal'
    BY <1>1, QuietKeeps
<1>3. receive # <<>> /\ forecast = Forecast(PacketsOf(history)) /\ forecast # {}
    BY DEF PeersInv, TurnHolds, Select
<1>4. receive[1].sender \in ExpectedSenders
    BY <1>3, WhoseTurn
<1>5. receive \in Seq(Received) /\ DOMAIN receive = 1..Len(receive) /\ Len(receive) \in Nat
    BY PeersTypes
<1>6. reader' = StartReader(receive[1].sender) /\ pc' = "fragment" /\ error' = error
    <2>1. PICK i \in First({i \in DOMAIN receive :
                               receive[i].sender \in ExpectedSenders}) :
             reader' = StartReader(receive[i].sender)
        BY <1>4 DEF Select
    <2>2. 1 \in {k \in DOMAIN receive : receive[k].sender \in ExpectedSenders}
        BY <1>3, <1>4, <1>5
    <2>3. i \in 1..Len(receive) /\ i <= 1
        BY <1>5, <2>1, <2>2 DEF First
    <2>4. i = 1
        BY <1>5, <2>3
    <2> QED
        BY <1>4, <2>1, <2>4 DEF Select, Goto
<1>7. /\ reader'.sender = receive[1].sender /\ reader'.complete = {}
      /\ reader'.available = {p.nt : p \in {p \in forecast : p.sender = receive[1].sender}}
    BY <1>6 DEF StartReader, IdleReader
<1>8. TurnHolds' /\ WholeMessageRead' /\ NothingRaised'
    BY <1>1, <1>3, <1>6 DEF PeersInv, TurnHolds, WholeMessageRead, NothingRaised
<1>9. ParsesExpected'
    BY <1>1, <1>3, <1>7 DEF ParsesExpected
<1> QED
    BY <1>1, <1>2, <1>8, <1>9 DEF PeersInv

(* The parser reads the message that is due to its end.                    *)
LEMMA ConsumePeersInv ==
    ASSUME PeersInv, ConsumeFragment, UNCHANGED <<wire, outbox>>
    PROVE  PeersInv'
<1>1. BufferInv' /\ UNCHANGED <<receive, history, forecast>> /\ Reading
    BY NextBufferInv DEF PeersInv, Next, Generate, Work, ConsumeFragment,
        exchangeVars, outerVars, Reading
<1>2. WireTypes' /\ HistoryIsWhatHappened' /\ Pending' /\ WireLegal'
    BY <1>1, QuietKeeps
<1>3. PICK i \in First(NextFragments) : reader' = Feed(reader, i, receive[i].fragment)
    BY DEF ConsumeFragment
<1> DEFINE e == wire[Len(history) + 1]
           read == reader.read \o receive[i].fragment
           now == {nt \in reader.available : read \in Words[nt] \ Underivable[nt]}
<1>4. /\ i \in 1..Len(receive) /\ reader.idx \in 0..Len(receive) /\ reader.idx < i
      /\ receive[i].sender = reader.sender /\ Heard(receive, reader.sender, i) = read
      /\ read \in Seq(Atoms)
    <2>1. /\ i \in 1..Len(receive) /\ reader.idx \in 0..Len(receive) /\ reader.idx < i
          /\ receive[i].sender = reader.sender /\ Heard(receive, reader.sender, i) = read
          /\ receive[i].fragment \in Seq(Atoms) /\ reader.read \in Seq(Atoms)
        BY <1>1, <1>3, NextFragmentContinues DEF PeersInv
    <2> QED
        BY <2>1, ConcatProperties
<1>5. /\ reader \in Readers /\ reader.complete \in SUBSET Parses
      /\ reader.available \in SUBSET NonTerminals /\ receive \in Seq(Received)
    BY DEF PeersInv, BufferInv, IInv, TypeOK, Readers
<1>6. /\ reader'.sender = reader.sender /\ reader'.idx = i
      /\ reader'.available = {nt \in reader.available : read \in Viable[nt]}
      /\ reader'.complete = Complete(reader.complete, now, i, read)
    BY <1>3, <1>5 DEF Feed, Readers
<1>7. pc' = (IF reader'.available # {} THEN "fragment" ELSE "deliver") /\ error' = error
    BY DEF ConsumeFragment, Goto
<1>8. TurnHolds' /\ NothingRaised'
    BY <1>1, <1>7 DEF PeersInv, TurnHolds, NothingRaised, ConsumeFragment
<1>9. /\ receive # <<>> /\ reader.sender = receive[1].sender
      /\ \A nt \in reader.available :
            \E q \in forecast : q.sender = reader.sender /\ q.nt = nt
      /\ \A c \in reader.complete :
            /\ c.last \in DOMAIN receive /\ receive[c.last].sender = reader.sender
            /\ c.word \notin Underivable[c.nt]
            /\ \E q \in forecast : q.sender = reader.sender /\ q.nt = c.nt
    BY <1>1 DEF PeersInv, ParsesExpected
<1>10. /\ e \in Entries /\ e.sender = reader.sender /\ e.word \in Words[e.nt]
       /\ Len(history) < Len(wire)
    BY <1>1, ReadingDue
<1>11. /\ UnderWay \in Seq(Received) /\ outbox \in Seq(Received)
       /\ Len(UnderWay) = Len(receive) + Len(outbox)
       /\ \A k \in 1..Len(receive) : UnderWay[k] = receive[k]
       /\ wire \in Seq(Entries) /\ Len(history) \in 0..Len(wire)
       /\ Len(receive) \in Nat /\ Len(outbox) \in Nat
    BY PeersTypes
<1> HIDE DEF e, now
<1>12. ParsesExpected'
    <2>1. ASSUME NEW c \in reader'.complete
          PROVE  /\ c.last \in DOMAIN receive /\ receive[c.last].sender = reader.sender
                 /\ c.word \notin Underivable[c.nt]
                 /\ \E q \in forecast : q.sender = reader.sender /\ q.nt = c.nt
        <3>1. CASE c \in reader.complete
            BY <1>9, <3>1
        <3>2. CASE c.nt \in now /\ c.last = i /\ c.word = read
            BY <1>4, <1>5, <1>9, <3>2 DEF now
        <3>3. now \in SUBSET NonTerminals /\ i \in Nat
            BY <1>4, <1>5 DEF now
        <3>4. c \in Complete(reader.complete, now, i, read)
            BY <1>6
        <3>5. c \in reader.complete \/ (c.nt \in now /\ c.last = i /\ c.word = read)
            <4> HIDE DEF read
            <4> QED
                BY <1>5, <3>3, <3>4, CompleteMembers
        <3> QED
            BY <3>1, <3>2, <3>5
    <2>2. \A nt \in reader'.available :
             \E q \in forecast : q.sender = reader.sender /\ q.nt = nt
        BY <1>6, <1>9
    <2> QED
        BY <1>1, <1>6, <1>9, <2>1, <2>2 DEF ParsesExpected
<1>13. WholeMessageRead'
    <2> SUFFICES ASSUME reader'.available = {}
                 PROVE  \E m \in 1..i : Carries(receive, 0, m, e)
        BY <1>1, <1>6, <1>7 DEF WholeMessageRead, e
    <2>1. Queued(UnderWay, wire, Len(history))
        BY DEF PeersInv, Pending
    <2>2. PICK m \in 1..Len(UnderWay) : Carries(UnderWay, 0, m, e)
        BY <1>10, <1>11, <2>1, QueuedFirst DEF e
    <2>3. ASSUME i < m PROVE FALSE
        <3>1. reader.idx < m /\ i \in 0..(m - 1)
            BY <1>4, <1>11, <2>3
        <3>2. e.nt \in reader.available
            BY <1>1, <2>2, <3>1, ParserStaysOpen DEF e
        <3>3. Heard(UnderWay, e.sender, i) = read
            <4>1. i \in 0..Len(receive)
                BY <1>4
            <4>2. Heard(receive \o outbox, e.sender, i) = Heard(receive, e.sender, i)
                BY <1>5, <1>11, <4>1, HeardExtended
            <4>3. Heard(receive, e.sender, i) = read
                BY <1>4, <1>10
            <4> HIDE DEF read
            <4> QED
                BY <4>2, <4>3 DEF UnderWay
        <3>0. read \in Seq(Atoms)
            BY <1>4
        <3> HIDE DEF read
        <3>4. Len(read) \in 0..Len(read) /\ SubSeq(read, 1, Len(read)) = read
            BY <3>0, SubSeqFull
        <3>5. \A j \in 0..Len(Heard(UnderWay, e.sender, i)) :
                 SubSeq(Heard(UnderWay, e.sender, i), 1, j) \in Viable[e.nt]
            BY <1>10, <1>11, <2>2, <3>1, WithinIsViable
        <3>6. read \in Viable[e.nt]
            BY <3>3, <3>4, <3>5
        <3> QED
            BY <1>6, <2>3, <3>2, <3>6
    <2>4. m \in 1..i /\ \A k \in 1..m : receive[k] = UnderWay[k]
        BY <1>4, <1>11, <2>3
    <2>5. Carries(receive, 0, m, e)
        BY <2>2, <2>4, CarriesPrefix
    <2> QED
        BY <2>4, <2>5
<1> QED
    BY <1>1, <1>2, <1>8, <1>12, <1>13 DEF PeersInv


(* What is delivered is the message that is due; it is accepted.           *)
LEMMA DeliverPeersInv ==
    ASSUME PeersInv, Deliver, UNCHANGED <<wire, outbox>>
    PROVE  PeersInv'
<1> DEFINE h == Len(history)
           e == wire[h + 1]
<1>1. BufferInv' /\ Reading
    BY NextBufferInv DEF PeersInv, Next, Generate, Work, Deliver, Mount, Reading
<1>2. /\ h < Len(wire) /\ e \in Entries /\ Accepted(SubSeq(wire, 1, h + 1))
    BY <1>1, ReadingDue
<1>3. /\ history' = Append(history, e) /\ receive' \in Seq(Received)
      /\ Queued(receive' \o outbox, wire, h + 1)
    BY DeliverMountsDue
<1>4. /\ history \in Seq(Entries) /\ wire \in Seq(Entries) /\ h \in 0..Len(wire)
      /\ \A i \in 1..h : history[i] = wire[i]
    BY PeersTypes
<1> HIDE DEF e
<1>5. /\ history' \in Seq(Entries) /\ Len(history') = h + 1
      /\ \A i \in 1..(h + 1) : history'[i] = wire[i]
    <2>1. /\ history' \in Seq(Entries) /\ Len(history') = h + 1
          /\ \A i \in 1..h : history'[i] = history[i]
          /\ history'[h + 1] = e
        BY <1>2, <1>3, <1>4
    <2> HIDE DEF h
    <2>2. \A i \in 1..(h + 1) : i \in 1..h \/ i = h + 1
        BY <1>4
    <2> QED
        BY <1>4, <2>1, <2>2 DEF e
<1>6. /\ WireTypes' /\ HistoryIsWhatHappened'
    <2>1. Len(history') <= Len(wire) /\ \A i \in 1..Len(history') : history'[i] = wire[i]
        BY <1>2, <1>4, <1>5
    <2>2. IsPrefix(history', wire)
        BY <1>4, <1>5, <2>1, PrefixByElements
    <2> QED
        BY <2>2 DEF PeersInv, WireTypes, HistoryIsWhatHappened
<1>7. history' = SubSeq(wire, 1, h + 1)
    <2>1. /\ SubSeq(wire, 1, h + 1) \in Seq(Entries)
          /\ Len(SubSeq(wire, 1, h + 1)) = h + 1
          /\ \A i \in 1..(h + 1) : SubSeq(wire, 1, h + 1)[i] = wire[i]
        BY <1>2, <1>4
    <2> QED
        BY <1>4, <1>5, <2>1, SeqEqual
<1>8. pc' = "predict" /\ error' = error
    BY <1>2, <1>7 DEF Deliver, Goto
<1>9. Pending'
    BY <1>3, <1>5 DEF Pending, UnderWay
<1>10. WireLegal'
    <2>1. \A i \in (Len(history') + 1)..Len(wire) : i \in (h + 1)..Len(wire)
        BY <1>4, <1>5
    <2> QED
        BY <2>1 DEF PeersInv, WireLegal
<1>11. TurnHolds' /\ ParsesExpected' /\ WholeMessageRead' /\ NothingRaised'
    BY <1>8 DEF PeersInv, TurnHolds, ParsesExpected, WholeMessageRead,
        NothingRaised, Reading
<1> QED
    BY <1>1, <1>6, <1>9, <1>10, <1>11 DEF PeersInv

(* The poll for a fragment goes on.                                        *)
LEMMA NoFragmentYetPeersInv ==
    ASSUME PeersInv, NoFragmentYet, UNCHANGED <<wire, outbox>>
    PROVE  PeersInv'
<1>1. BufferInv'
    BY NextBufferInv DEF PeersInv, Next, Generate, Work
<1>2. /\ UNCHANGED <<receive, history, forecast, reader>> /\ error' = error
      /\ pc = "fragment" /\ pc' = "refragment"
    BY DEF NoFragmentYet, Goto, exchangeVars
<1>3. WireTypes' /\ HistoryIsWhatHappened' /\ Pending' /\ WireLegal'
    BY <1>2, QuietKeeps
<1>4. TurnHolds' /\ ParsesExpected' /\ WholeMessageRead' /\ NothingRaised'
    BY <1>2 DEF PeersInv, TurnHolds, ParsesExpected, WholeMessageRead,
        NothingRaised, Reading
<1> QED
    BY <1>1, <1>3, <1>4 DEF PeersInv

(* A message read to its end has been parsed.                              *)
LEMMA SomethingParsed ==
    ASSUME PeersInv, pc = "deliver"
    PROVE  reader.complete # {}
<1> DEFINE e == wire[Len(history) + 1]
<1>1. Reading
    BY DEF Reading
<1>2. PICK m \in 1..reader.idx : Carries(receive, 0, m, e)
    BY DEF PeersInv, WholeMessageRead
<1>3. reader.idx \in 0..Len(receive) /\ Len(receive) \in Nat
    BY <1>1, PeersTypes, ReadingDue
<1>4. m \in 1..Len(receive) /\ m <= reader.idx
    BY <1>3
<1> HIDE DEF e
<1>5. \E c \in reader.complete : c.nt = e.nt /\ Len(e.word) <= Len(c.word)
    BY <1>1, <1>2, <1>4, WholeIsParsed DEF e
<1> QED
    BY <1>5

(* Parties that are prompt do not let a poll expire; and when the wait for *)
(* another fragment does, the message has been read to its end.            *)
LEMMA TimeoutPeersInv == PeersInv /\ FandangoTimesOut => PeersInv'
<1> SUFFICES ASSUME PeersInv, FandangoTimesOut PROVE PeersInv'
    OBVIOUS
<1>1. outbox = <<>> /\ PeersIdle /\ UNCHANGED <<wire, outbox>>
    BY DEF FandangoTimesOut, PeersIdle, peerVars
<1>2. ASSUME ResponseTimeout PROVE FALSE
    <2>1. /\ receive = <<>> /\ forecast = Forecast(PacketsOf(history)) /\ forecast # {}
          /\ Fuzzable = {}
        BY <1>2 DEF PeersInv, TurnHolds, ResponseTimeout, FandangoTimesOut, ReceivedMsg
    <2>2. Len(history) = Len(wire)
        BY <1>1, <2>1, PeersTypes
    <2> QED
        BY <1>1, <2>1, <2>2, SomeoneSpeaks
<1>3. ASSUME UnexpectedParty PROVE FALSE
    <2>1. receive # <<>> /\ forecast = Forecast(PacketsOf(history)) /\ ExpectedSenders = {}
        BY <1>3 DEF PeersInv, TurnHolds, UnexpectedParty, FandangoTimesOut
    <2> QED
        BY <2>1, WhoseTurn
<1>4. ASSUME FragmentTimeout PROVE PeersInv'
    <2> DEFINE e == wire[Len(history) + 1]
    <2>1. /\ Reading /\ NextFragments = {}
          /\ UNCHANGED <<receive, history, forecast, reader>>
        BY <1>4 DEF FragmentTimeout, FandangoTimesOut, Reading, exchangeVars
    <2>2. /\ Len(history) < Len(wire) /\ e.sender = reader.sender
          /\ reader.idx \in 0..Len(receive)
        BY <2>1, ReadingDue
    <2>3. /\ receive \in Seq(Received) /\ Len(receive) \in Nat /\ UnderWay \in Seq(Received)
          /\ Len(UnderWay) = Len(receive) + Len(outbox) /\ Len(outbox) = 0
          /\ \A k \in 1..Len(receive) : UnderWay[k] = receive[k]
          /\ wire \in Seq(Entries) /\ Len(history) \in 0..Len(wire)
        BY <1>1, PeersTypes
    <2>4. Queued(UnderWay, wire, Len(history))
        BY DEF PeersInv, Pending
    <2>5. PICK m \in 1..Len(UnderWay) : Carries(UnderWay, 0, m, e)
        BY <2>2, <2>3, <2>4, QueuedFirst
    <2>6. m \in 1..Len(receive) /\ m \in (0 + 1)..m
        BY <2>3
    <2> HIDE DEF e
    <2>7. Carries(receive, 0, m, e)
        <3>1. m \in Nat /\ \A i \in 1..m : receive[i] = UnderWay[i]
            BY <2>3, <2>6
        <3> QED
            BY <2>5, <3>1, CarriesPrefix
    <2>8. m <= reader.idx
        <3>1. receive[m].sender = reader.sender
            BY <2>2, <2>6, <2>7 DEF Carries
        <3>2. m \notin FragmentsFrom(receive, reader.sender, reader.idx + 1)
            BY <2>1 DEF NextFragments
        <3> QED
            BY <2>2, <2>3, <2>6, <3>1, <3>2 DEF FragmentsFrom
    <2>9. \E c \in reader.complete : c.nt = e.nt /\ Len(e.word) <= Len(c.word)
        BY <2>1, <2>6, <2>7, <2>8, WholeIsParsed DEF e
    <2>10. pc = "refragment" /\ pc' = "deliver" /\ error' = error
        BY <1>4, <2>9 DEF FragmentTimeout, Goto
    <2>11. BufferInv'
        BY <1>4, NextBufferInv DEF PeersInv, Next, Generate, Timeout
    <2>12. WireTypes' /\ HistoryIsWhatHappened' /\ Pending' /\ WireLegal'
        BY <1>1, <2>1, QuietKeeps
    <2>13. TurnHolds' /\ ParsesExpected' /\ NothingRaised'
        BY <2>1, <2>10 DEF PeersInv, TurnHolds, ParsesExpected, NothingRaised, Reading
    <2>14. WholeMessageRead'
        <3>1. m \in 1..reader.idx
            BY <2>2, <2>6, <2>8
        <3> QED
            BY <1>1, <2>1, <2>7, <3>1 DEF WholeMessageRead, e
    <2> QED
        BY <2>11, <2>12, <2>13, <2>14 DEF PeersInv
<1> QED
    BY <1>2, <1>3, <1>4 DEF FandangoTimesOut, Timeout

(* When a session is done, all that was said has been mounted.             *)
LEMMA DoneIsComplete ==
    ASSUME PeersInv, pc = "done"
    PROVE  receive = <<>> /\ outbox = <<>> /\ history = wire
<1>1. Forecast(PacketsOf(history)) = {}
    BY DEF PeersInv, TurnHolds
<1>2. ~(Len(history) < Len(wire))
    BY <1>1, MessageDue
<1>3. Len(history) \in 0..Len(wire) /\ wire \in Seq(Entries)
    BY PeersTypes
<1>4. Len(history) = Len(wire)
    BY <1>2, <1>3
<1> QED
    BY <1>4, PeersTypes

(* The next session begins with an empty buffer.                           *)
LEMMA NextSessionPeersInv == PeersInv /\ NextSession => PeersInv'
<1> SUFFICES ASSUME PeersInv, NextSession PROVE PeersInv'
    OBVIOUS
<1>1. pc = "done"
    BY DEF PeersInv, NothingRaised, NextSession, NewSession, Stopped
<1>2. receive = <<>> /\ outbox = <<>>
    BY <1>1, DoneIsComplete
<1>3. /\ receive' = <<>> /\ outbox' = <<>> /\ wire' = <<>> /\ history' = <<>>
      /\ pc' = "predict" /\ error' = "none"
    BY <1>2 DEF NextSession, NewSession
<1>4. BufferInv'
    BY NextBufferInv DEF PeersInv, Next, NextSession
<1>5. /\ <<>> \in Seq(Received) /\ <<>> \in Seq(Entries) /\ Len(<<>>) = 0
      /\ <<>> \o <<>> = <<>> /\ PacketsOf(<<>>) = <<>>
    BY EmptySeq DEF PacketsOf
<1>6. WireTypes' /\ HistoryIsWhatHappened'
    <2>1. IsPrefix(<<>>, <<>>)
        BY <1>5 DEF IsPrefix
    <2> QED
        BY <1>3, <1>5, <2>1 DEF WireTypes, HistoryIsWhatHappened
<1>7. Pending'
    <2>1. Len(<<>>) \in 0..Len(<<>>)
        BY <1>5
    <2>2. Queued(<<>>, <<>>, Len(<<>>))
        BY <1>5, <2>1, QueuedNothing
    <2> QED
        BY <1>3, <1>5, <2>2 DEF Pending, UnderWay
<1>8. WireLegal'
    BY <1>3, <1>5, LanguageAssumption, EmptyIsPrefix DEF WireLegal
<1>9. TurnHolds' /\ ParsesExpected' /\ WholeMessageRead' /\ NothingRaised'
    BY <1>3 DEF TurnHolds, ParsesExpected, WholeMessageRead, NothingRaised, Reading
<1> QED
    BY <1>4, <1>6, <1>7, <1>8, <1>9 DEF PeersInv

(* Every step preserves the invariant.                                     *)
LEMMA NextPeersInv == PeersInv /\ [PeersNext]_allVars => PeersInv'
<1> SUFFICES ASSUME PeersInv, [PeersNext]_allVars PROVE PeersInv'
    OBVIOUS
<1>1. CASE PeerStarts \/ PeerSends
    BY <1>1, PeerStartsPeersInv, PeerSendsPeersInv
<1>2. CASE FandangoWorks
    <2>1. outbox' = outbox
        BY <1>2 DEF FandangoWorks
    <2>2. CASE Transmit
        <3>1. wire' = Append(wire, Last(NextMessages))
            BY <1>2, <2>2 DEF FandangoWorks, Transmit
        <3> QED
            BY <2>1, <2>2, <3>1, TransmitPeersInv
    <2>3. ASSUME pc # "transmit" PROVE wire' = wire
        BY <1>2, <2>3 DEF FandangoWorks
    <2>4. CASE Predict
        <3>1. wire' = wire
            BY <2>3, <2>4 DEF Predict
        <3> QED
            BY <2>1, <2>4, <3>1, PredictPeersInv
    <2>5. CASE Turns
        <3>1. wire' = wire
            BY <2>3, <2>5 DEF Turns, Decide, Fuzz, Recheck, AwaitMessage,
                NothingReceived, AwaitParty, NoPartyOfForecast
        <3> QED
            BY <2>1, <2>5, <3>1, TurnsPeersInv
    <2>6. CASE Select
        <3>1. wire' = wire
            BY <2>3, <2>6 DEF Select
        <3> QED
            BY <2>1, <2>6, <3>1, SelectPeersInv
    <2>7. CASE ConsumeFragment
        <3>1. wire' = wire
            BY <2>3, <2>7 DEF ConsumeFragment
        <3> QED
            BY <2>1, <2>7, <3>1, ConsumePeersInv
    <2>8. CASE NoFragmentYet
        <3>1. wire' = wire
            BY <2>3, <2>8 DEF NoFragmentYet
        <3> QED
            BY <2>1, <2>8, <3>1, NoFragmentYetPeersInv
    <2>9. CASE Deliver
        <3>1. wire' = wire
            BY <2>3, <2>9 DEF Deliver, Mount
        <3> QED
            BY <2>1, <2>9, <3>1, DeliverPeersInv
    <2>10. CASE NothingParsed
        BY <2>10, SomethingParsed DEF NothingParsed
    <2>11. ASSUME NothingToTransmit PROVE FALSE
        <3>1. PICK p \in forecast : \E w \in Words[p.nt] :
                 NextMessages = Append(history, Message(p, w))
            BY <2>11, TransmitsOne DEF NothingToTransmit
        <3>2. history \in Seq(Entries)
            BY PeersTypes
        <3> QED
            BY <2>11, <3>1, <3>2 DEF NothingToTransmit
    <2> QED
        BY <1>2, <2>2, <2>4, <2>5, <2>6, <2>7, <2>8, <2>9, <2>10, <2>11
            DEF FandangoWorks, Work, Turns
<1>3. CASE FandangoTimesOut
    BY <1>3, TimeoutPeersInv
<1>4. CASE NextSession
    BY <1>4, NextSessionPeersInv
<1>5. CASE UNCHANGED allVars
    <2>1. UNCHANGED vars /\ UNCHANGED <<wire, outbox>>
        BY <1>5 DEF allVars, peerVars
    <2>2. UNCHANGED <<receive, history, pc, forecast, reader, error>>
        BY <2>1 DEF vars, exchangeVars
    <2>3. BufferInv'
        BY <2>1, MovesBufferInv DEF PeersInv
    <2>4. WireTypes' /\ HistoryIsWhatHappened' /\ Pending' /\ WireLegal'
        BY <2>1, <2>2, QuietKeeps
    <2>5. TurnHolds' /\ ParsesExpected' /\ WholeMessageRead' /\ NothingRaised'
        BY <2>1, <2>2 DEF PeersInv, TurnHolds, ParsesExpected, WholeMessageRead,
            NothingRaised, Reading, Fuzzable
    <2> QED
        BY <2>3, <2>4, <2>5 DEF PeersInv
<1> QED
    BY <1>1, <1>2, <1>3, <1>4, <1>5 DEF PeersNext

-----------------------------------------------------------------------------

(* Whenever the listeners append and the main thread polls, and however    *)
(* messages are cut: what _generate_io keeps as its history is what took   *)
(* place.  Messages are attributed and cut as they were meant, and         *)
(* Fandango transmits nothing out of turn.                                 *)
THEOREM HistoryHappened == PeersSpec => []HistoryIsWhatHappened
<1>1. PeersInv => HistoryIsWhatHappened
    BY DEF PeersInv
<1> QED
    BY InitPeersInv, NextPeersInv, <1>1, PTL DEF PeersSpec

(* No branch of _generate_io and parse_next_remote_packet that raises is   *)
(* ever reached in a session with prompt parties that keep to the protocol.*)
THEOREM PeersNeverFail == PeersSpec => []NeverFails
<1>1. PeersInv => NeverFails
    BY DEF PeersInv, NothingRaised, NeverFails
<1> QED
    BY InitPeersInv, NextPeersInv, <1>1, PTL DEF PeersSpec

(* The buffer of the FandangoIO singleton, which no session resets, is     *)
(* empty when a session is done, and all that took place is in its history.*)
THEOREM NothingIsLeft == PeersSpec => []NothingLeftBehind
<1>1. PeersInv => NothingLeftBehind
    <2> SUFFICES ASSUME PeersInv PROVE NothingLeftBehind
        OBVIOUS
    <2> QED
        BY DoneIsComplete DEF NothingLeftBehind
<1> QED
    BY InitPeersInv, NextPeersInv, <1>1, PTL DEF PeersSpec

=============================================================================
