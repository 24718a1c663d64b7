------------------------ MODULE ReceiveBuffer_proofs ------------------------
(***************************************************************************)
(* For every protocol and whatever the listener threads append, and when:  *)
(* no byte of an external party is lost, duplicated or reordered between   *)
(* the buffer of FandangoIO and the histories of the sessions; and the     *)
(* parser of the next remote packet keeps valid positions and the longest  *)
(* message.                                                                *)
(***************************************************************************)
EXTENDS ProtocolSession_proofs, WellFoundedInduction

-----------------------------------------------------------------------------
(* Induction over the natural numbers, in a form without operators.        *)

(* A nonempty set of naturals has a least element.                         *)
LEMMA LeastNat ==
    ASSUME NEW T \in SUBSET Nat, T # {}
    PROVE  \E n \in T : \A m \in T : n <= m
<1> DEFINE R == OpToRel(<, Nat)
<1>1. \A m, n \in Nat : m < n => <<m, n>> \in R
    BY DEF OpToRel
<1>2. IsWellFoundedOn(R, Nat)
    BY NatLessThanWellFounded
<1> HIDE DEF R
<1>3. PICK n \in T : \A m \in T : ~(<<m, n>> \in R)
    BY <1>2, WFMin
<1>4. ASSUME NEW m \in T PROVE n <= m
    <2>1. ~(<<m, n>> \in R) /\ m \in Nat /\ n \in Nat
        BY <1>3
    <2> QED
        BY <1>1, <2>1
<1> QED
    BY <1>3, <1>4

(* A set that contains 0 and, up to a bound, the successor of each of its  *)
(* members contains every natural number up to the bound.                  *)
LEMMA Induction ==
    ASSUME NEW n \in Nat, NEW T, 0 \in T,
           \A i \in 0..n : i \in T /\ i < n => i + 1 \in T
    PROVE  \A i \in 0..n : i \in T
<1> DEFINE Bad == {i \in 0..n : i \notin T}
<1> SUFFICES ASSUME Bad # {} PROVE FALSE
    OBVIOUS
<1>0. Bad \in SUBSET Nat
    OBVIOUS
<1>1. PICK i \in Bad : \A j \in Bad : i <= j
    <2> HIDE DEF Bad
    <2> QED
        BY <1>0, LeastNat
<1>2. i \in Nat /\ i # 0 /\ i <= n
    OBVIOUS
<1>3. i - 1 \in 0..n /\ i - 1 \notin Bad
    BY <1>1, <1>2
<1> QED
    BY <1>2, <1>3

-----------------------------------------------------------------------------
(* Concatenating the pieces of a sequence of sequences.                    *)

(* The partial concatenations FlattenSeq is defined by.                    *)
Flattens(f, g) ==
    f = [i \in 1..Len(g) |-> IF i = 1 THEN g[i] ELSE f[i - 1] \o g[i]]

(* They exist.                                                             *)
LEMMA FlatteningExists ==
    ASSUME NEW S, NEW g \in Seq(Seq(S))
    PROVE  \E f \in [1..Len(g) -> Seq(S)] : Flattens(f, g)
<1> DEFINE Upto(i) == [k \in 1..i |-> g[k]]
           Step(f, i) == \A k \in 1..i :
                            f[k] = IF k = 1 THEN g[k] ELSE f[k - 1] \o g[k]
           T == {i \in 0..Len(g) : \E f \in [1..i -> Seq(S)] : Step(f, i)}
<1>1. Len(g) \in Nat /\ \A k \in 1..Len(g) : g[k] \in Seq(S)
    OBVIOUS
<1>2. 0 \in T
    <2>1. 1..0 = {}
        OBVIOUS
    <2>2. \E f \in [1..0 -> Seq(S)] : Step(f, 0)
        <3>1. [k \in 1..0 |-> <<>>] \in [1..0 -> Seq(S)]
            BY <2>1
        <3> QED
            BY <2>1, <3>1
    <2>3. 0 \in 0..Len(g)
        BY <1>1
    <2> HIDE DEF Step
    <2> QED
        BY <2>2, <2>3
<1>3. ASSUME NEW i \in 0..Len(g), i \in T, i < Len(g)
      PROVE  i + 1 \in T
    <2>1. PICK f \in [1..i -> Seq(S)] : Step(f, i)
        BY <1>3
    <2> DEFINE h == [k \in 1..(i + 1) |->
                       IF k <= i THEN f[k]
                       ELSE IF k = 1 THEN g[k] ELSE f[k - 1] \o g[k]]
    <2>2. i + 1 \in 1..Len(g) /\ i \in Nat
        BY <1>1, <1>3
    <2>3. ASSUME NEW k \in 1..(i + 1) PROVE h[k] \in Seq(S)
        <3>1. g[k] \in Seq(S)
            BY <1>1, <2>2
        <3>2. CASE k <= i
            BY <2>2, <3>2
        <3>3. CASE k = i + 1 /\ k # 1
            <4>1. k - 1 \in 1..i
                BY <2>2, <3>3
            <4>2. f[k - 1] \o g[k] \in Seq(S)
                BY <3>1, <4>1, ConcatProperties
            <4> QED
                BY <2>2, <3>3, <4>2
        <3> QED
            BY <2>2, <3>1, <3>2, <3>3
    <2>4. h \in [1..(i + 1) -> Seq(S)]
        BY <2>3
    <2>5. ASSUME NEW k \in 1..(i + 1)
          PROVE  h[k] = IF k = 1 THEN g[k] ELSE h[k - 1] \o g[k]
        <3>1. CASE k <= i
            <4>1. k \in 1..i /\ (k # 1 => k - 1 \in 1..i)
                BY <2>2, <3>1
            <4>2. h[k] = f[k] /\ (k # 1 => h[k - 1] = f[k - 1])
                BY <2>2, <4>1
            <4>3. f[k] = IF k = 1 THEN g[k] ELSE f[k - 1] \o g[k]
                BY <2>1, <4>1
            <4> QED
                BY <4>2, <4>3
        <3>2. CASE k = i + 1
            <4>1. k # 1 => k - 1 \in 1..(i + 1) /\ k - 1 <= i
                BY <2>2, <3>2
            <4> QED
                BY <2>2, <3>2, <4>1
        <3> QED
            BY <2>2, <3>1, <3>2
    <2> HIDE DEF h
    <2>6. \E d \in [1..(i + 1) -> Seq(S)] : Step(d, i + 1)
        BY <2>4, <2>5
    <2>7. i + 1 \in 0..Len(g)
        BY <1>1, <2>2
    <2> HIDE DEF Step
    <2> QED
        BY <2>6, <2>7
<1> HIDE DEF T
<1>4. Len(g) \in T
    <2>1. \A i \in 0..Len(g) : i \in T
        BY <1>1, <1>2, <1>3, Induction
    <2> QED
        BY <1>1, <2>1
<1>5. PICK f \in [1..Len(g) -> Seq(S)] : Step(f, Len(g))
    BY <1>4 DEF T
<1> QED
    BY <1>5 DEF Flattens

(* And they are unique.                                                    *)
LEMMA FlatteningUnique ==
    ASSUME NEW S, NEW g \in Seq(Seq(S)), NEW f, NEW h,
           Flattens(f, g), Flattens(h, g)
    PROVE  f = h
<1> DEFINE n == Len(g)
           T == {i \in 0..n : i # 0 => f[i] = h[i]}
<1>1. n \in Nat
    OBVIOUS
<1>2. 0 \in T
    BY <1>1
<1>3. ASSUME NEW i \in 0..n, i \in T, i < n
      PROVE  i + 1 \in T
    <2>1. i + 1 \in 1..n
        BY <1>1, <1>3
    <2>2. /\ f[i + 1] = IF i + 1 = 1 THEN g[i + 1] ELSE f[(i + 1) - 1] \o g[i + 1]
          /\ h[i + 1] = IF i + 1 = 1 THEN g[i + 1] ELSE h[(i + 1) - 1] \o g[i + 1]
        BY <2>1 DEF Flattens
    <2>3. i + 1 = 1 \/ i # 0
        OBVIOUS
    <2>4. (i + 1) - 1 = i
        OBVIOUS
    <2> QED
        BY <1>3, <2>1, <2>2, <2>3, <2>4
<1> HIDE DEF T
<1>4. \A i \in 0..n : i \in T
    BY <1>1, <1>2, <1>3, Induction
<1>5. \A i \in 1..n : f[i] = h[i]
    BY <1>1, <1>4 DEF T
<1> QED
    BY <1>5 DEF Flattens

(* So FlattenSeq is the last of them.                                      *)
LEMMA FlattenIs ==
    ASSUME NEW S, NEW g \in Seq(Seq(S)), g # <<>>, NEW f, Flattens(f, g)
    PROVE  FlattenSeq(g) = f[Len(g)]
<1> DEFINE n == Len(g)
<1>1. n \in Nat /\ n > 0
    OBVIOUS
<1>2. FlattenSeq(g) = (CHOOSE h : h = [i \in 1..n |->
                          IF i = 1 THEN g[i] ELSE h[i - 1] \o g[i]])[n]
    BY <1>1 DEF FlattenSeq
<1>3. (CHOOSE h : Flattens(h, g)) = f
    BY FlatteningUnique
<1> QED
    BY <1>2, <1>3 DEF Flattens

(* What FlattenSeq does, piece by piece.                                   *)
LEMMA FlattenSteps ==
    /\ FlattenSeq(<<>>) = <<>>
    /\ \A S : \A g \in Seq(Seq(S)) : \A e \in Seq(S) :
          /\ FlattenSeq(g) \in Seq(S)
          /\ FlattenSeq(Append(g, e)) = FlattenSeq(g) \o e
<1>1. FlattenSeq(<<>>) = <<>>
    BY DEF FlattenSeq
<1>2. ASSUME NEW S, NEW g \in Seq(Seq(S)) PROVE FlattenSeq(g) \in Seq(S)
    <2>1. CASE g = <<>>
        BY <1>1, <2>1, EmptySeq
    <2>2. CASE g # <<>>
        <3>1. PICK f \in [1..Len(g) -> Seq(S)] : Flattens(f, g)
            BY FlatteningExists
        <3>2. Len(g) \in 1..Len(g)
            BY <2>2
        <3> QED
            BY <2>2, <3>1, <3>2, FlattenIs, SMTT(60)
    <2> QED
        BY <2>1, <2>2
<1>3. ASSUME NEW S, NEW g \in Seq(Seq(S)), NEW e \in Seq(S)
      PROVE  FlattenSeq(Append(g, e)) = FlattenSeq(g) \o e
    <2> DEFINE longer == Append(g, e)
               n == Len(g)
    <2>1. /\ longer \in Seq(Seq(S)) /\ Len(longer) = n + 1 /\ n \in Nat
          /\ longer[n + 1] = e /\ \A i \in 1..n : longer[i] = g[i]
        OBVIOUS
    <2>2. PICK f \in [1..Len(longer) -> Seq(S)] : Flattens(f, longer)
        BY <2>1, FlatteningExists
    <2> HIDE DEF longer
    <2>3. \A i \in 1..(n + 1) :
             f[i] = IF i = 1 THEN longer[i] ELSE f[i - 1] \o longer[i]
        BY <2>1, <2>2 DEF Flattens
    <2>4. longer # <<>>
        BY <2>1
    <2>5. FlattenSeq(longer) = f[n + 1]
        BY <2>1, <2>2, <2>4, FlattenIs
    <2>6. CASE n = 0
        <3>1. g = <<>>
            BY <2>6
        <3>2. f[n + 1] = e
            BY <2>1, <2>3, <2>6
        <3> QED
            BY <1>1, <2>5, <3>1, <3>2 DEF longer
    <2>7. CASE n # 0
        <3> DEFINE h == [i \in 1..n |-> f[i]]
        <3>1. Flattens(h, g)
            <4>1. ASSUME NEW i \in 1..n
                  PROVE  h[i] = IF i = 1 THEN g[i] ELSE h[i - 1] \o g[i]
                <5>1. i \in 1..(n + 1) /\ (i # 1 => i - 1 \in 1..n)
                    BY <2>1
                <5> QED
                    BY <2>1, <2>3, <5>1
            <4> QED
                BY <4>1 DEF Flattens
        <3>2. FlattenSeq(g) = h[n]
            BY <2>7, <3>1, FlattenIs
        <3>3. f[n + 1] = f[n] \o e
            <4>1. n + 1 \in 1..(n + 1) /\ n + 1 # 1 /\ (n + 1) - 1 = n
                BY <2>1, <2>7
            <4> QED
                BY <2>1, <2>3, <4>1
        <3>4. h[n] = f[n]
            BY <2>1, <2>7
        <3>5. FlattenSeq(longer) = FlattenSeq(g) \o e
            BY <2>5, <3>2, <3>3, <3>4
        <3> QED
            BY <3>5 DEF longer
    <2> QED
        BY <2>6, <2>7
<1> QED
    BY <1>1, <1>2, <1>3

-----------------------------------------------------------------------------
(* What has been heard of a party, and what has been logged of it.         *)

(* The contribution of a buffered message to what a party has said.        *)
Piece(message, party) ==
    IF message.sender = party THEN message.fragment ELSE <<>>

(* Nothing has been said in an empty buffer or log.                        *)
LEMMA NothingSaid ==
    ASSUME NEW party
    PROVE  Logged(<<>>, party) = <<>> /\ \A b : Heard(b, party, 0) = <<>>
<1>1. 1..0 = {} /\ Len(<<>>) = 0
    OBVIOUS
<1>2. [k \in 1..Len(<<>>) |->
         IF <<>>[k].sender = party THEN <<>>[k].word ELSE <<>>] = <<>>
    BY <1>1
<1>3. ASSUME NEW b PROVE Fragments(b, party, 0) = <<>>
    BY <1>1 DEF Fragments
<1> QED
    BY <1>2, <1>3, FlattenSteps DEF Logged, Heard

(* Of nothing, nothing has been heard; every message adds its fragment.    *)
LEMMA HeardSteps ==
    ASSUME NEW b \in Seq(Received), NEW party, NEW n \in 0..Len(b)
    PROVE  /\ Heard(b, party, 0) = <<>>
           /\ Heard(b, party, n) \in Seq(Atoms)
           /\ n < Len(b) => Heard(b, party, n + 1) =
                               Heard(b, party, n) \o Piece(b[n + 1], party)
<1> DEFINE Part(k) == IF b[k].sender = party THEN b[k].fragment ELSE <<>>
           g(m) == [k \in 1..m |-> Part(k)]
<1>1. Len(b) \in Nat /\ n \in Nat /\ n <= Len(b)
    OBVIOUS
<1>2. ASSUME NEW k \in 1..Len(b) PROVE Part(k) \in Seq(Atoms)
    <2>1. b[k] \in Received
        BY <1>1
    <2> QED
        BY <2>1, EmptySeq DEF Received
<1> HIDE DEF Part
<1>3. \A m \in 0..Len(b) : g(m) \in Seq(Seq(Atoms))
    BY <1>1, <1>2
<1>4. g(0) = <<>>
    BY <1>1
<1>5. n < Len(b) => g(n + 1) = Append(g(n), Part(n + 1))
    BY <1>1
<1>6. \A m : Heard(b, party, m) = FlattenSeq(g(m))
    BY DEF Heard, Fragments, Part
<1>7. g(n) \in Seq(Seq(Atoms)) /\ (n < Len(b) => Part(n + 1) \in Seq(Atoms))
    BY <1>1, <1>2, <1>3
<1> HIDE DEF g
<1>8. FlattenSeq(g(n)) \in Seq(Atoms)
    BY <1>7, EmptySeq, FlattenSteps
<1>9. n < Len(b) => FlattenSeq(g(n + 1)) = FlattenSeq(g(n)) \o Part(n + 1)
    <2> SUFFICES ASSUME n < Len(b)
                 PROVE  FlattenSeq(g(n + 1)) = FlattenSeq(g(n)) \o Part(n + 1)
        OBVIOUS
    <2>1. FlattenSeq(Append(g(n), Part(n + 1))) = FlattenSeq(g(n)) \o Part(n + 1)
        BY <1>7, FlattenSteps
    <2> QED
        BY <1>5, <2>1
<1> QED
    BY <1>4, <1>6, <1>8, <1>9, FlattenSteps DEF Part, Piece

(* What is appended to the buffer later changes nothing of what was heard. *)
LEMMA HeardAppend ==
    ASSUME NEW b \in Seq(Received), NEW e \in Received, NEW party
    PROVE  /\ \A n \in 0..Len(b) : Heard(Append(b, e), party, n) = Heard(b, party, n)
           /\ Heard(Append(b, e), party, Len(b) + 1) =
                 Heard(b, party, Len(b)) \o Piece(e, party)
<1> DEFINE longer == Append(b, e)
<1>1. /\ longer \in Seq(Received) /\ Len(longer) = Len(b) + 1 /\ Len(b) \in Nat
      /\ longer[Len(b) + 1] = e /\ \A k \in 1..Len(b) : longer[k] = b[k]
    OBVIOUS
<1> HIDE DEF longer
<1>2. ASSUME NEW n \in 0..Len(b) PROVE Heard(longer, party, n) = Heard(b, party, n)
    <2>1. Fragments(longer, party, n) = Fragments(b, party, n)
        BY <1>1 DEF Fragments
    <2> QED
        BY <2>1 DEF Heard
<1>3. Heard(longer, party, Len(b) + 1) =
        Heard(longer, party, Len(b)) \o Piece(e, party)
    <2>1. Len(b) \in 0..Len(longer) /\ Len(b) < Len(longer)
        BY <1>1
    <2> QED
        BY <1>1, <2>1, HeardSteps
<1>4. Heard(longer, party, Len(b)) = Heard(b, party, Len(b))
    BY <1>1, <1>2
<1> QED
    BY <1>2, <1>3, <1>4 DEF longer

(* What a log has of a party, entry by entry.                              *)
LEMMA LoggedSteps ==
    ASSUME NEW log \in Seq(Entries), NEW e \in Entries, NEW party
    PROVE  /\ Logged(<<>>, party) = <<>>
           /\ Logged(log, party) \in Seq(Atoms)
           /\ Logged(Append(log, e), party) =
                Logged(log, party) \o (IF e.sender = party THEN e.word ELSE <<>>)
<1> DEFINE Said(x) == IF x.sender = party THEN x.word ELSE <<>>
           g(l) == [k \in 1..Len(l) |-> Said(l[k])]
           longer == Append(log, e)
<1>1. \A x \in Entries : Said(x) \in Seq(Atoms)
    BY EmptySeq DEF Entries
<1>2. \A l : Logged(l, party) = FlattenSeq(g(l))
    BY DEF Logged
<1>3. /\ longer \in Seq(Entries) /\ Len(longer) = Len(log) + 1 /\ Len(log) \in Nat
      /\ longer[Len(log) + 1] = e
      /\ \A k \in 1..Len(log) : longer[k] = log[k] /\ log[k] \in Entries
    OBVIOUS
<1> HIDE DEF Said, longer
<1>4. g(log) \in Seq(Seq(Atoms)) /\ Said(e) \in Seq(Atoms)
    BY <1>1, <1>3
<1>5. g(longer) = Append(g(log), Said(e))
    BY <1>3
<1>6. g(<<>>) = <<>>
    OBVIOUS
<1> HIDE DEF g
<1>7. /\ FlattenSeq(g(log)) \in Seq(Atoms)
      /\ FlattenSeq(g(longer)) = FlattenSeq(g(log)) \o Said(e)
    BY <1>4, <1>5, FlattenSteps
<1> QED
    BY <1>2, <1>6, <1>7, FlattenSteps DEF Said, longer

-----------------------------------------------------------------------------
(* Clearing the buffer.                                                    *)

(* An increasing enumeration by as many indices as there are elements      *)
(* misses none of them.                                                    *)
LEMMA EnumerationIsOnto ==
    ASSUME NEW n \in Nat, NEW keep \in SUBSET Nat, IsFiniteSet(keep),
           Cardinality(keep) = n, NEW f \in [1..n -> keep],
           \A j, k \in 1..n : j < k => f[j] < f[k]
    PROVE  \A i \in keep : \E k \in 1..n : f[k] = i
<1>1. \A j, k \in 1..n : f[j] = f[k] => j = k
    <2> TAKE j, k \in 1..n
    <2>1. f[j] \in Nat /\ f[k] \in Nat
        OBVIOUS
    <2>2. j < k \/ k < j \/ j = k
        OBVIOUS
    <2> QED
        BY <2>1, <2>2
<1>2. f \in Injection(1..n, keep)
    BY <1>1 DEF Injection, IsInjective
<1>3. IsFiniteSet(1..n) /\ Cardinality(1..n) = n
    BY FS_Interval
<1>4. f \in Surjection(1..n, keep)
    BY <1>2, <1>3, FS_Injection
<1> QED
    BY <1>4 DEF Surjection

(* How a sublist comes about: going through the buffer, each message is    *)
(* either kept, becoming the next one of the sublist, or dropped.          *)
LEMMA SublistSteps ==
    ASSUME NEW b \in Seq(Received), NEW keep \in SUBSET (DOMAIN b),
           NEW s \in Sublists(b, keep)
    PROVE  \E J \in [0..Len(b) -> 0..Len(s)] :
              /\ J[0] = 0 /\ J[Len(b)] = Len(s)
              /\ \A i \in 0..Len(b) : i < Len(b) =>
                    IF i + 1 \in keep
                    THEN J[i + 1] = J[i] + 1 /\ s[J[i] + 1] = b[i + 1]
                    ELSE J[i + 1] = J[i]
<1> DEFINE n == Cardinality(keep)
           N == Len(b)
<1>1. N \in Nat /\ keep \subseteq 1..N
    OBVIOUS
<1>2. IsFiniteSet(keep) /\ n \in Nat /\ keep \in SUBSET Nat /\ Cardinality(keep) = n
    <2> HIDE DEF N
    <2>1. IsFiniteSet(1..N)
        BY <1>1, FS_Interval
    <2>2. IsFiniteSet(keep)
        BY <1>1, <2>1, FS_Subset
    <2> QED
        BY <1>1, <2>2, FS_CardinalityType
<1>3. PICK f \in [1..n -> keep] :
          /\ \A j, k \in 1..n : j < k => f[j] < f[k]
          /\ s = [k \in 1..n |-> b[f[k]]]
    BY DEF Sublists
<1>4. \A i \in keep : \E k \in 1..n : f[k] = i
    <2>1. \A j, k \in 1..n : j < k => f[j] < f[k]
        BY <1>3
    <2>2. /\ IsFiniteSet(keep) /\ n \in Nat /\ keep \in SUBSET Nat
          /\ Cardinality(keep) = n /\ f \in [1..n -> keep]
        BY <1>2
    <2> HIDE DEF n
    <2> QED
        BY <2>1, <2>2, EnumerationIsOnto
<1>5. Len(s) = n /\ \A k \in 1..n : s[k] = b[f[k]]
    BY <1>2, <1>3
<1>6. \A k \in 1..n : f[k] \in 1..N
    BY <1>1, <1>3
<1> HIDE DEF n, N
<1> DEFINE At(j, i) == \A k \in 1..n : k <= j <=> f[k] <= i
<1>7. ASSUME NEW i \in 0..N, i < N, NEW j \in 0..n, At(j, i), i + 1 \in keep
      PROVE  j + 1 \in 0..n /\ f[j + 1] = i + 1 /\ At(j + 1, i + 1)
    <2>1. PICK m \in 1..n : f[m] = i + 1
        BY <1>4, <1>7
    <2>2. m > j
        <3>1. ~(f[m] <= i)
            BY <1>1, <2>1
        <3> QED
            BY <1>2, <1>7, <2>1, <3>1
    <2>3. m = j + 1
        <3> SUFFICES ASSUME m > j + 1 PROVE FALSE
            BY <1>2, <2>2
        <3>1. j + 1 \in 1..n /\ ~(j + 1 <= j)
            BY <1>2
        <3>2. f[j + 1] < f[m] /\ ~(f[j + 1] <= i)
            BY <1>3, <1>7, <3>1
        <3> QED
            BY <1>1, <1>6, <2>1, <3>1, <3>2
    <2>4. ASSUME NEW k \in 1..n PROVE k <= j + 1 <=> f[k] <= i + 1
        <3>1. f[k] \in 1..N
            BY <1>6
        <3>2. k < m \/ k = m \/ m < k
            BY <1>2
        <3>3. (k < m => f[k] < f[m]) /\ (m < k => f[m] < f[k])
            BY <1>3
        <3> QED
            BY <1>1, <1>2, <2>1, <2>3, <3>1, <3>2, <3>3
    <2> QED
        BY <2>1, <2>3, <2>4
<1>8. ASSUME NEW i \in 0..N, i < N, NEW j \in 0..n, At(j, i), i + 1 \notin keep
      PROVE  At(j, i + 1)
    <2>1. ASSUME NEW k \in 1..n PROVE k <= j <=> f[k] <= i + 1
        <3>1. f[k] \in 1..N /\ f[k] # i + 1
            BY <1>6, <1>8
        <3>2. k <= j <=> f[k] <= i
            BY <1>8
        <3> QED
            BY <1>1, <3>1, <3>2
    <2> QED
        BY <2>1
<1>9. ASSUME NEW i, NEW j \in 0..n, NEW k \in 0..n, At(j, i), At(k, i)
      PROVE  j = k
    <2>1. j \in 1..n => j <= k
        BY <1>2, <1>9
    <2>2. k \in 1..n => k <= j
        BY <1>2, <1>9
    <2> QED
        BY <1>2, <2>1, <2>2
<1>10. \A i \in 0..N : \E j \in 0..n : At(j, i)
    <2> DEFINE T == {i \in 0..N : \E j \in 0..n : At(j, i)}
    <2>1. 0 \in T
        <3>1. At(0, 0)
            BY <1>1, <1>2, <1>6
        <3>2. 0 \in 0..n /\ 0 \in 0..N
            BY <1>1, <1>2
        <3> HIDE DEF At
        <3> QED
            BY <3>1, <3>2
    <2>2. ASSUME NEW i \in 0..N, i \in T, i < N PROVE i + 1 \in T
        <3>1. PICK j \in 0..n : At(j, i)
            BY <2>2
        <3> HIDE DEF At
        <3>2. CASE i + 1 \in keep
            BY <1>1, <1>7, <2>2, <3>1, <3>2
        <3>3. CASE i + 1 \notin keep
            BY <1>1, <1>8, <2>2, <3>1, <3>3
        <3> QED
            BY <3>2, <3>3
    <2> HIDE DEF T
    <2>3. \A i \in 0..N : i \in T
        BY <1>1, <2>1, <2>2, Induction
    <2> QED
        BY <2>3 DEF T
<1> DEFINE J == [i \in 0..N |-> CHOOSE j \in 0..n : At(j, i)]
<1>11. ASSUME NEW i \in 0..N PROVE J[i] \in 0..n /\ At(J[i], i)
    <2> HIDE DEF At
    <2> QED
        BY <1>10
<1>12. J \in [0..N -> 0..n]
    BY <1>11
<1>13. At(0, 0) /\ At(n, N)
    BY <1>1, <1>2, <1>6
<1> HIDE DEF J, At
<1>14. J[0] = 0 /\ J[N] = n
    <2>1. 0 \in 0..N /\ N \in 0..N /\ 0 \in 0..n /\ n \in 0..n
        BY <1>1, <1>2
    <2> QED
        BY <1>9, <1>11, <1>13, <2>1
<1>15. ASSUME NEW i \in 0..N, i < N
       PROVE  IF i + 1 \in keep
              THEN J[i + 1] = J[i] + 1 /\ s[J[i] + 1] = b[i + 1]
              ELSE J[i + 1] = J[i]
    <2>1. i + 1 \in 0..N
        BY <1>1, <1>15
    <2>2. J[i] \in 0..n /\ At(J[i], i) /\ J[i + 1] \in 0..n /\ At(J[i + 1], i + 1)
        BY <1>11, <2>1
    <2>3. CASE i + 1 \in keep
        <3>1. /\ J[i] + 1 \in 0..n /\ f[J[i] + 1] = i + 1
              /\ At(J[i] + 1, i + 1)
            BY <1>7, <1>15, <2>2, <2>3
        <3>2. J[i + 1] = J[i] + 1
            BY <1>9, <2>2, <3>1
        <3>3. J[i] + 1 \in 1..n
            BY <1>2, <2>2, <3>1
        <3> QED
            BY <1>5, <2>3, <3>1, <3>2, <3>3
    <2>4. CASE i + 1 \notin keep
        BY <1>8, <1>9, <1>15, <2>2, <2>4
    <2> QED
        BY <2>3, <2>4
<1> QED
    BY <1>5, <1>12, <1>14, <1>15 DEF N

(* Clearing a party's messages up to a position removes what was heard of  *)
(* it up to there, and nothing else.                                       *)
LEMMA ClearByPartyHeard ==
    ASSUME NEW b \in Seq(Received), NEW party, NEW to \in 0..Len(b),
           NEW s \in ClearByParty(b, party, to)
    PROVE  /\ Heard(b, party, to) \o Heard(s, party, Len(s)) =
                 Heard(b, party, Len(b))
           /\ \A q : q # party => Heard(s, q, Len(s)) = Heard(b, q, Len(b))
<1> DEFINE keep == {i \in DOMAIN b : ~(b[i].sender = party /\ i <= to)}
           N == Len(b)
<1>1. keep \in SUBSET (DOMAIN b) /\ s \in Sublists(b, keep) /\ s \in Seq(Received)
    BY ClearByPartyType DEF ClearByParty
<1>2. N \in Nat /\ to \in Nat /\ to <= N /\ Len(s) \in Nat
    BY <1>1
<1>3. \A i \in 1..N : i \notin keep => b[i].sender = party /\ i <= to
    OBVIOUS
<1>4. \A i \in 1..N : i \in keep => b[i].sender # party \/ i > to
    BY <1>2
<1> HIDE DEF keep
<1>5. PICK J \in [0..N -> 0..Len(s)] :
          /\ J[0] = 0 /\ J[N] = Len(s)
          /\ \A i \in 0..N : i < N =>
                IF i + 1 \in keep
                THEN J[i + 1] = J[i] + 1 /\ s[J[i] + 1] = b[i + 1]
                ELSE J[i + 1] = J[i]
    BY <1>1, SublistSteps, SMTT(60)
<1> HIDE DEF N
<1>6. ASSUME NEW q, NEW i \in 0..N, i < N
      PROVE  /\ i + 1 \in 1..N /\ i + 1 \in 0..N
             /\ Heard(b, q, i) \in Seq(Atoms)
             /\ Heard(s, q, J[i]) \in Seq(Atoms)
             /\ Heard(b, q, i + 1) = Heard(b, q, i) \o Piece(b[i + 1], q)
             /\ Heard(s, q, J[i + 1]) =
                   IF i + 1 \in keep THEN Heard(s, q, J[i]) \o Piece(b[i + 1], q)
                                     ELSE Heard(s, q, J[i])
    <2>1. i + 1 \in 1..N /\ i + 1 \in 0..N
        BY <1>2, <1>6
    <2>2. J[i] \in 0..Len(s) /\ J[i + 1] \in 0..Len(s)
        BY <1>5, <2>1
    <2>3. /\ Heard(b, q, i) \in Seq(Atoms)
          /\ Heard(b, q, i + 1) = Heard(b, q, i) \o Piece(b[i + 1], q)
        BY <1>6, HeardSteps DEF N
    <2>4. /\ Heard(s, q, J[i]) \in Seq(Atoms)
          /\ J[i] < Len(s) => Heard(s, q, J[i] + 1) =
                                Heard(s, q, J[i]) \o Piece(s[J[i] + 1], q)
        BY <1>1, <2>2, HeardSteps
    <2>5. IF i + 1 \in keep
          THEN J[i + 1] = J[i] + 1 /\ s[J[i] + 1] = b[i + 1]
          ELSE J[i + 1] = J[i]
        BY <1>5, <1>6
    <2>6. i + 1 \in keep => J[i] < Len(s)
        BY <1>2, <2>2, <2>5
    <2> QED
        BY <2>1, <2>3, <2>4, <2>5, <2>6
<1>7. \A q : Heard(b, q, 0) = <<>> /\ Heard(s, q, 0) = <<>>
    <2>1. 0 \in 0..Len(b) /\ 0 \in 0..Len(s)
        BY <1>2
    <2> QED
        BY <1>1, <2>1, HeardSteps
<1>8. ASSUME NEW q, q # party PROVE Heard(s, q, Len(s)) = Heard(b, q, N)
    <2> DEFINE T == {i \in 0..N : Heard(s, q, J[i]) = Heard(b, q, i)}
    <2>1. 0 \in T
        BY <1>2, <1>5, <1>7
    <2>2. ASSUME NEW i \in 0..N, i \in T, i < N PROVE i + 1 \in T
        <3>1. i + 1 \notin keep => Piece(b[i + 1], q) = <<>>
            BY <1>3, <1>6, <1>8, <2>2 DEF Piece
        <3>2. Heard(b, q, i) \o <<>> = Heard(b, q, i)
            BY <1>6, <2>2
        <3> QED
            BY <1>6, <2>2, <3>1, <3>2
    <2> HIDE DEF T
    <2>3. \A i \in 0..N : i \in T
        BY <1>2, <2>1, <2>2, Induction
    <2>4. N \in T
        BY <1>2, <2>3
    <2> QED
        BY <1>5, <2>4 DEF T
<1>9. Heard(b, party, to) \o Heard(s, party, Len(s)) = Heard(b, party, N)
    <2> DEFINE before == Heard(b, party, to)
               T == {i \in 0..N :
                       IF i <= to THEN Heard(s, party, J[i]) = <<>>
                       ELSE before \o Heard(s, party, J[i]) = Heard(b, party, i)}
    <2>0. before \in Seq(Atoms)
        BY HeardSteps
    <2>1. 0 \in T
        BY <1>2, <1>5, <1>7
    <2>2. ASSUME NEW i \in 0..N, i \in T, i < N PROVE i + 1 \in T
        <3> DEFINE piece == Piece(b[i + 1], party)
        <3>1. piece \in Seq(Atoms)
            <4>1. b[i + 1] \in Received
                BY <1>2, <1>6, <2>2 DEF N
            <4> QED
                BY <4>1, EmptySeq DEF Received, Piece
        <3>2. CASE i + 1 <= to
            <4>1. i + 1 \in keep => piece = <<>>
                BY <1>2, <1>4, <1>6, <2>2, <3>2 DEF Piece
            <4>2. Heard(s, party, J[i]) = <<>>
                BY <1>2, <2>2, <3>2
            <4>3. <<>> \o <<>> = <<>>
                OBVIOUS
            <4>4. Heard(s, party, J[i + 1]) = <<>>
                BY <1>6, <2>2, <4>1, <4>2, <4>3
            <4> QED
                BY <1>6, <2>2, <3>2, <4>4
        <3>3. CASE ~(i + 1 <= to)
            <4>1. i + 1 \in keep
                BY <1>2, <1>3, <1>6, <2>2, <3>3
            <4>2. before \o Heard(s, party, J[i]) = Heard(b, party, i)
                <5>1. CASE i <= to
                    <6>1. i = to /\ Heard(s, party, J[i]) = <<>>
                        BY <1>2, <2>2, <3>3, <5>1
                    <6> QED
                        BY <2>0, <6>1
                <5>2. CASE ~(i <= to)
                    BY <2>2, <5>2
                <5> QED
                    BY <5>1, <5>2
            <4>3. (before \o Heard(s, party, J[i])) \o piece =
                    before \o (Heard(s, party, J[i]) \o piece)
                <5>1. Heard(s, party, J[i]) \in Seq(Atoms)
                    BY <1>6, <2>2
                <5> HIDE DEF before, piece
                <5> QED
                    BY <2>0, <3>1, <5>1, ConcatAssociative, SMTT(60)
            <4>4. before \o Heard(s, party, J[i + 1]) = Heard(b, party, i + 1)
                BY <1>6, <2>2, <4>1, <4>2, <4>3
            <4> QED
                BY <1>6, <2>2, <3>3, <4>4
        <3> QED
            BY <3>2, <3>3
    <2>3. \A i \in 0..N : i \in T
        <3> HIDE DEF T
        <3> QED
            BY <1>2, <2>1, <2>2, Induction
    <2>4. N \in T
        BY <1>2, <2>3
    <2>5. CASE to = N
        BY <1>2, <1>5, <2>0, <2>4, <2>5
    <2>6. CASE to # N
        BY <1>2, <1>5, <2>4, <2>6, SMTT(60)
    <2> QED
        BY <2>5, <2>6
<1> QED
    BY <1>8, <1>9 DEF N

(* Between two messages of a party nothing is heard of it, and what has    *)
(* been heard only grows.                                                  *)
LEMMA HeardBetween ==
    ASSUME NEW b \in Seq(Received), NEW party,
           NEW m \in 0..Len(b), NEW n \in 0..Len(b), m <= n
    PROVE  /\ (\A k \in (m + 1)..n : b[k].sender # party) =>
                 Heard(b, party, n) = Heard(b, party, m)
           /\ Len(Heard(b, party, m)) <= Len(Heard(b, party, n))
<1> DEFINE H(i) == Heard(b, party, i)
           Silent(i) == \A k \in (m + 1)..i : b[k].sender # party
           T == {i \in 0..Len(b) : m <= i =>
                    (Silent(i) => H(i) = H(m)) /\ Len(H(m)) <= Len(H(i))}
<1>1. Len(b) \in Nat /\ m \in Nat /\ n \in Nat /\ m <= Len(b)
    OBVIOUS
<1>2. ASSUME NEW i \in 0..Len(b)
      PROVE  /\ H(i) \in Seq(Atoms)
             /\ i < Len(b) => H(i + 1) = H(i) \o Piece(b[i + 1], party)
    BY HeardSteps
<1>3. \A i \in 0..Len(b) : Len(H(i)) \in Nat
    BY <1>2
<1>4. \A i \in 1..Len(b) : Piece(b[i], party) \in Seq(Atoms)
    <2> TAKE i \in 1..Len(b)
    <2>1. b[i] \in Received
        OBVIOUS
    <2> QED
        BY <2>1, EmptySeq DEF Received, Piece
<1> HIDE DEF H
<1>5. m = 0 => 0 \in T
    <2> SUFFICES ASSUME m = 0 PROVE 0 \in T
        OBVIOUS
    <2>1. 0 \in 0..Len(b)
        BY <1>1
    <2> QED
        BY <1>3, <2>1
<1>6. 0 \in T
    BY <1>1, <1>5
<1>7. ASSUME NEW i \in 0..Len(b), i \in T, i < Len(b) PROVE i + 1 \in T
    <2>1. i + 1 \in 1..Len(b) /\ i + 1 \in 0..Len(b)
        BY <1>1, <1>7
    <2> DEFINE piece == Piece(b[i + 1], party)
    <2>2. H(i) \in Seq(Atoms) /\ H(i + 1) = H(i) \o piece /\ piece \in Seq(Atoms)
        BY <1>2, <1>4, <1>7, <2>1
    <2>3. CASE m <= i
        <3>1. Silent(i + 1) => Silent(i) /\ piece = <<>>
            BY <1>1, <2>1, <2>3 DEF Piece
        <3>2. (Silent(i) => H(i) = H(m)) /\ Len(H(m)) <= Len(H(i))
            BY <1>7, <2>3
        <3> HIDE DEF Silent, piece
        <3>3. Silent(i + 1) => H(i + 1) = H(m)
            BY <2>2, <3>1, <3>2
        <3>4. Len(H(i + 1)) = Len(H(i)) + Len(piece) /\ Len(piece) \in Nat
            BY <2>2
        <3>5. Len(H(m)) <= Len(H(i + 1))
            BY <1>1, <1>3, <3>2, <3>4
        <3> QED
            BY <2>1, <3>3, <3>5
    <2>4. CASE m = i + 1
        BY <1>3, <2>1, <2>4
    <2>5. CASE m > i + 1
        BY <1>1, <2>1, <2>5
    <2> QED
        BY <1>1, <2>3, <2>4, <2>5
<1> HIDE DEF T
<1>8. \A i \in 0..Len(b) : i \in T
    BY <1>1, <1>6, <1>7, Induction
<1> QED
    BY <1>8 DEF T, H

-----------------------------------------------------------------------------
(* The inductive invariant.                                                *)

(* The last fragment read is one of the sender; and the parser of a        *)
(* forecast packet can continue, unless it has read something that no      *)
(* message of the packet begins with.                                      *)
ParsersTracked ==
    Reading =>
        /\ reader.idx > 0 => /\ reader.idx \in 1..Len(receive)
                             /\ receive[reader.idx].sender = reader.sender
        /\ \A p \in forecast :
              p.sender = reader.sender =>
                \/ p.nt \in reader.available
                \/ /\ reader.idx > 0
                   /\ \E j \in 0..Len(reader.read) :
                         SubSeq(reader.read, 1, j) \notin Viable[p.nt]

ParseInv == PositionsStayValid /\ ParsersTracked /\ LongestParseKept

BufferInv == IInv /\ Conservation /\ ParseInv

(* Nothing has been said at the beginning.                                 *)
LEMMA InitBufferInv == Init => BufferInv
<1> SUFFICES ASSUME Init PROVE BufferInv
    OBVIOUS
<1>1. IInv
    BY InitIInv
<1>2. ParseInv
    BY DEF Init, ParseInv, PositionsStayValid, ParsersTracked, LongestParseKept,
        Reading
<1>3. Conservation
    <2>1. Len(<<>>) = 0 /\ <<>> \o <<>> = <<>>
        OBVIOUS
    <2> QED
        BY <2>1, NothingSaid DEF Init, Conservation
<1> QED
    BY <1>1, <1>2, <1>3 DEF BufferInv

(* What the invariant says of a conversation so far: types, for use below. *)
LEMMA SaidTypes ==
    ASSUME TypeOK, NEW party
    PROVE  /\ Logged(taken, party) \in Seq(Atoms)
           /\ Heard(receive, party, Len(receive)) \in Seq(Atoms)
           /\ Heard(arrived, party, Len(arrived)) \in Seq(Atoms)
<1>1. ASSUME NEW log \in Seq(Entries) PROVE Logged(log, party) \in Seq(Atoms)
    <2>1. CASE log = <<>>
        BY <2>1, NothingSaid, EmptySeq
    <2>2. CASE log # <<>>
        <3>1. log[1] \in Entries
            BY <2>2
        <3> QED
            BY <3>1, LoggedSteps
    <2> QED
        BY <2>1, <2>2
<1>2. ASSUME NEW b \in Seq(Received)
      PROVE  Heard(b, party, Len(b)) \in Seq(Atoms)
    <2>1. Len(b) \in 0..Len(b)
        OBVIOUS
    <2> QED
        BY <2>1, HeardSteps
<1> QED
    BY <1>1, <1>2 DEF TypeOK

-----------------------------------------------------------------------------
(* The steps of the listeners.                                             *)

(* An arrival is added to what has been received and to what is buffered;  *)
(* the positions of the parser, counted from the front, stay valid.        *)
LEMMA ReceiveBufferInv ==
    ASSUME BufferInv, NEW message \in Received, Receive(message)
    PROVE  BufferInv'
<1>1. IInv'
    BY ReceiveIInv DEF BufferInv
<1>2. /\ message \in Received /\ receive \in Seq(Received)
      /\ arrived \in Seq(Received)
    BY DEF BufferInv, IInv, TypeOK
<1>3. /\ receive' = Append(receive, message) /\ arrived' = Append(arrived, message)
      /\ UNCHANGED <<pc, forecast, reader, taken>>
    BY DEF Receive, AddReceive
<1>4. /\ Len(receive') = Len(receive) + 1 /\ Len(arrived') = Len(arrived) + 1
      /\ Len(receive) \in Nat
      /\ \A k \in 1..Len(receive) : receive'[k] = receive[k]
    BY <1>2, <1>3
<1>5. Conservation'
    <2> SUFFICES ASSUME NEW party \in ExternalParties
                 PROVE  Logged(taken, party)
                           \o Heard(receive', party, Len(receive) + 1)
                        = Heard(arrived', party, Len(arrived) + 1)
        BY <1>3, <1>4 DEF Conservation
    <2> DEFINE said == Logged(taken, party)
               kept == Heard(receive, party, Len(receive))
               piece == Piece(message, party)
    <2>1. said \in Seq(Atoms) /\ kept \in Seq(Atoms)
        BY SaidTypes, ConcatProperties DEF BufferInv, IInv
    <2>2. piece \in Seq(Atoms)
        BY <1>2, EmptySeq DEF Received, Piece
    <2>3. Heard(receive', party, Len(receive) + 1) = kept \o piece
        BY <1>2, <1>3, HeardAppend
    <2>4. Heard(arrived', party, Len(arrived) + 1) =
            Heard(arrived, party, Len(arrived)) \o piece
        BY <1>2, <1>3, HeardAppend
    <2>5. said \o kept = Heard(arrived, party, Len(arrived))
        BY DEF BufferInv, Conservation
    <2>6. (said \o kept) \o piece = said \o (kept \o piece)
        <3> HIDE DEF said, kept, piece
        <3> QED
            BY <2>1, <2>2, ConcatAssociative
    <2> QED
        BY <2>3, <2>4, <2>5, <2>6
<1>6. \A n \in 0..Len(receive) : Heard(receive', reader.sender, n) =
                                  Heard(receive, reader.sender, n)
    BY <1>2, <1>3, HeardAppend
<1>7. ASSUME Reading PROVE ParseInv'
    <2>1. /\ reader.idx \in 0..Len(receive)
          /\ \A c \in reader.complete : c.last \in 0..Len(receive)
          /\ PositionsStayValid /\ ParsersTracked /\ LongestParseKept
        BY <1>4, <1>7 DEF BufferInv, IInv, TypeOK, Readers, Parses, ParseInv,
            PositionsStayValid
    <2>2. PositionsStayValid'
        BY <1>3, <1>4, <1>6, <1>7, <2>1 DEF PositionsStayValid, Reading
    <2>3. ParsersTracked'
        BY <1>3, <1>4, <1>7, <2>1 DEF ParsersTracked, Reading
    <2>4. LongestParseKept'
        <3> SUFFICES ASSUME NEW p \in forecast, p.sender = reader.sender,
                            NEW k \in FragmentsFrom(receive', reader.sender, 1),
                            k <= reader.idx,
                            Heard(receive', reader.sender, k)
                                \in Words[p.nt] \ Underivable[p.nt]
                     PROVE  \E c \in reader.complete : c.nt = p.nt /\
                               Len(Heard(receive', reader.sender, k)) <= Len(c.word)
            BY <1>3 DEF LongestParseKept
        <3>1. k \in 1..Len(receive) /\ receive'[k].sender = reader.sender
            BY <1>2, <1>3, <1>4, <2>1 DEF FragmentsFrom
        <3>2. k \in FragmentsFrom(receive, reader.sender, 1) /\ k \in 0..Len(receive)
            BY <1>2, <1>4, <3>1 DEF FragmentsFrom
        <3> QED
            BY <1>6, <1>7, <2>1, <3>2 DEF LongestParseKept
    <2> QED
        BY <2>2, <2>3, <2>4 DEF ParseInv
<1>8. ASSUME ~Reading PROVE ParseInv'
    BY <1>3, <1>8 DEF ParseInv, PositionsStayValid, ParsersTracked,
        LongestParseKept, Reading
<1> QED
    BY <1>1, <1>5, <1>7, <1>8 DEF BufferInv

-----------------------------------------------------------------------------
(* The steps of the parser.                                                *)

(* What a fragment adds to complete_parses.                                *)
LEMMA CompleteMembers ==
    ASSUME NEW complete \in SUBSET Parses, NEW now \in SUBSET NonTerminals,
           NEW i \in Nat, NEW read
    PROVE  /\ \A c \in Complete(complete, now, i, read) :
                 \/ c \in complete
                 \/ /\ c.nt \in now /\ c.last = i /\ c.word = read
                    /\ \/ c.first = i
                       \/ \E d \in complete : c.first = d.first
           /\ \A nt \in now : \E c \in Complete(complete, now, i, read) :
                 c.nt = nt /\ c.word = read
           /\ \A c \in complete : c.nt \notin now =>
                 c \in Complete(complete, now, i, read)
<1> DEFINE again == {c \in complete : c.nt \in now}
           fresh == now \ {c.nt : c \in again}
           renewed(c) == [c EXCEPT !.last = i, !.word = read]
           new(nt) == [nt |-> nt, first |-> i, last |-> i, word |-> read]
           all == Complete(complete, now, i, read)
<1>1. all = (complete \ again) \cup {renewed(c) : c \in again}
                               \cup {new(nt) : nt \in fresh}
    BY DEF Complete
<1>2. ASSUME NEW c \in again
      PROVE  /\ renewed(c).nt = c.nt /\ renewed(c).first = c.first
             /\ renewed(c).last = i /\ renewed(c).word = read
    BY DEF Parses
<1>3. \A nt : /\ new(nt).nt = nt /\ new(nt).first = i /\ new(nt).last = i
              /\ new(nt).word = read
    OBVIOUS
<1> HIDE DEF renewed, new, all
<1>4. ASSUME NEW c \in all
      PROVE  \/ c \in complete
             \/ /\ c.nt \in now /\ c.last = i /\ c.word = read
                /\ \/ c.first = i
                   \/ \E d \in complete : c.first = d.first
    <2>1. CASE c \in complete
        BY <2>1
    <2>2. CASE \E d \in again : c = renewed(d)
        BY <1>2, <2>2
    <2>3. CASE \E nt \in fresh : c = new(nt)
        BY <1>3, <2>3
    <2> QED
        BY <1>1, <1>4, <2>1, <2>2, <2>3
<1>5. ASSUME NEW nt \in now PROVE \E c \in all : c.nt = nt /\ c.word = read
    <2>1. CASE \E c \in again : c.nt = nt
        <3>1. PICK c \in again : c.nt = nt
            BY <2>1
        <3>2. renewed(c) \in all /\ renewed(c).nt = nt /\ renewed(c).word = read
            BY <1>1, <1>2, <3>1
        <3> QED
            BY <3>2
    <2>2. CASE nt \in fresh
        <3>1. new(nt) \in all /\ new(nt).nt = nt /\ new(nt).word = read
            BY <1>1, <1>3, <2>2
        <3> QED
            BY <3>1
    <2> QED
        BY <2>1, <2>2
<1>6. ASSUME NEW c \in complete, c.nt \notin now PROVE c \in all
    BY <1>1, <1>6
<1> QED
    BY <1>4, <1>5, <1>6 DEF all

(* A parser starts before the first fragment, and all of them can go on.   *)
LEMMA SelectParseInv == BufferInv /\ Select => ParseInv'
<1> SUFFICES ASSUME BufferInv, Select PROVE ParseInv'
    OBVIOUS
<1>1. CASE ExpectedSenders = {}
    BY <1>1 DEF Select, FailWith, ParseInv, PositionsStayValid, ParsersTracked,
        LongestParseKept, Reading
<1>2. CASE ExpectedSenders # {}
    <2>1. PICK party : reader' = StartReader(party)
        BY <1>2 DEF Select
    <2>2. /\ reader'.sender = party /\ reader'.idx = 0 /\ reader'.read = <<>>
          /\ reader'.available = {p.nt : p \in {p \in forecast : p.sender = party}}
          /\ reader'.complete = {}
        BY <2>1 DEF StartReader, IdleReader
    <2>3. receive' = receive /\ forecast' = forecast /\ receive \in Seq(Received)
        BY DEF Select, BufferInv, IInv, TypeOK
    <2>4. PositionsStayValid'
        <3>1. 0 \in 0..Len(receive) /\ 0 <= Len(receive)
            BY <2>3
        <3>2. Heard(receive, party, 0) = <<>>
            BY <2>3, <3>1, HeardSteps
        <3> QED
            BY <2>2, <2>3, <3>1, <3>2 DEF PositionsStayValid
    <2>5. ParsersTracked'
        BY <2>2, <2>3 DEF ParsersTracked
    <2>6. LongestParseKept'
        <3>1. \A k \in FragmentsFrom(receive', reader'.sender, 1) : ~(k <= reader'.idx)
            BY <2>2, <2>3 DEF FragmentsFrom
        <3> QED
            BY <3>1 DEF LongestParseKept
    <2> QED
        BY <2>4, <2>5, <2>6 DEF ParseInv
<1> QED
    BY <1>1, <1>2

(* The first fragment after the last one read continues what was read.     *)
LEMMA NextFragmentContinues ==
    ASSUME BufferInv, Reading, NEW i \in First(NextFragments)
    PROVE  /\ i \in 1..Len(receive) /\ reader.idx \in 0..Len(receive)
           /\ reader.idx < i /\ receive[i].sender = reader.sender
           /\ receive[i].fragment \in Seq(Atoms)
           /\ reader.read \in Seq(Atoms)
           /\ Heard(receive, reader.sender, i) = reader.read \o receive[i].fragment
           /\ \A k \in (reader.idx + 1)..(i - 1) : receive[k].sender # reader.sender
<1>1. receive \in Seq(Received) /\ reader \in Readers
    BY DEF BufferInv, IInv, TypeOK
<1>2. /\ reader.idx \in Nat /\ reader.idx <= Len(receive)
      /\ reader.read = Heard(receive, reader.sender, reader.idx)
      /\ reader.read \in Seq(Atoms) /\ Len(receive) \in Nat
    BY <1>1 DEF BufferInv, ParseInv, PositionsStayValid, Readers
<1>3. /\ i \in 1..Len(receive) /\ i >= reader.idx + 1
      /\ receive[i].sender = reader.sender
      /\ \A k \in 1..Len(receive) :
            k >= reader.idx + 1 /\ receive[k].sender = reader.sender => i <= k
    BY <1>1 DEF First, NextFragments, FragmentsFrom
<1>4. ASSUME NEW k \in (reader.idx + 1)..(i - 1)
      PROVE  receive[k].sender # reader.sender
    BY <1>2, <1>3
<1>5. receive[i].fragment \in Seq(Atoms)
    <2>1. receive[i] \in Received
        BY <1>1, <1>3
    <2> QED
        BY <2>1 DEF Received
<1>6. /\ reader.idx \in 0..Len(receive) /\ i - 1 \in 0..Len(receive)
      /\ reader.idx <= i - 1 /\ i - 1 < Len(receive) /\ (i - 1) + 1 = i
    BY <1>2, <1>3
<1>7. Heard(receive, reader.sender, i - 1) = reader.read
    BY <1>1, <1>2, <1>4, <1>6, HeardBetween
<1>8. Heard(receive, reader.sender, i) =
        Heard(receive, reader.sender, i - 1) \o Piece(receive[i], reader.sender)
    BY <1>1, <1>6, HeardSteps
<1>9. Piece(receive[i], reader.sender) = receive[i].fragment
    BY <1>3 DEF Piece
<1>10. Heard(receive, reader.sender, i) = reader.read \o receive[i].fragment
    BY <1>7, <1>8, <1>9
<1>11. reader.idx < i
    BY <1>2, <1>3
<1> QED
    BY <1>2, <1>3, <1>4, <1>5, <1>6, <1>10, <1>11

(* A fragment extends what was read, and the parses that it completes; a   *)
(* parser that was dropped misses no message but by an empty fragment.     *)
LEMMA ConsumeParseInv == BufferInv /\ ConsumeFragment => ParseInv'
<1> SUFFICES ASSUME BufferInv, ConsumeFragment PROVE ParseInv'
    OBVIOUS
<1>1. Reading /\ pc' \in {"fragment", "deliver"}
    BY DEF ConsumeFragment, Goto, Reading
<1>2. PICK i \in First(NextFragments) : reader' = Feed(reader, i, receive[i].fragment)
    BY DEF ConsumeFragment
<1> DEFINE s == reader.sender
           idx == reader.idx
           read == reader.read \o receive[i].fragment
           now == {nt \in reader.available : read \in Words[nt] \ Underivable[nt]}
           complete == reader.complete
<1>3. /\ receive \in Seq(Received) /\ reader \in Readers
      /\ complete \in SUBSET Parses /\ now \in SUBSET NonTerminals
      /\ forecast \subseteq Packets
    BY DEF BufferInv, IInv, TypeOK, Readers
<1>4. /\ i \in 1..Len(receive) /\ idx \in 0..Len(receive) /\ idx < i
      /\ receive[i].sender = s /\ receive[i].fragment \in Seq(Atoms)
      /\ reader.read \in Seq(Atoms) /\ Heard(receive, s, i) = read
      /\ \A k \in (idx + 1)..(i - 1) : receive[k].sender # s
    BY <1>1, <1>2, NextFragmentContinues
<1>5. /\ reader'.sender = s /\ reader'.idx = i /\ reader'.read = read
      /\ reader'.available = {nt \in reader.available : read \in Viable[nt]}
      /\ reader'.complete = Complete(complete, now, i, read)
    BY <1>2, <1>3 DEF Feed, Readers
<1>6. /\ read \in Seq(Atoms) /\ Len(read) \in Nat /\ Len(reader.read) \in Nat
      /\ Len(reader.read) <= Len(read)
      /\ \A j \in 0..Len(reader.read) :
            SubSeq(read, 1, j) = SubSeq(reader.read, 1, j)
      /\ SubSeq(read, 1, Len(read)) = read
      /\ Len(read) <= Len(reader.read) => read = reader.read
    <2> DEFINE fragment == receive[i].fragment
    <2>1. /\ read = reader.read \o fragment
          /\ fragment \in Seq(Atoms) /\ reader.read \in Seq(Atoms)
        BY <1>4
    <2> HIDE DEF read, fragment
    <2>2. /\ read \in Seq(Atoms) /\ Len(read) = Len(reader.read) + Len(fragment)
          /\ Len(fragment) \in Nat /\ Len(reader.read) \in Nat
        BY <2>1
    <2>3. ASSUME NEW j \in 0..Len(reader.read)
          PROVE  SubSeq(read, 1, j) = SubSeq(reader.read, 1, j)
        <3>1. CASE j = 0
            BY <3>1, SubSeqEmpty
        <3>2. CASE j # 0
            <4>1. 1 \in 1..Len(reader.read) /\ j \in 1..Len(reader.read)
                BY <3>2, <2>2
            <4> QED
                BY <2>1, <4>1, SubSeqOfConcat1
        <3> QED
            BY <3>1, <3>2
    <2>4. SubSeq(read, 1, Len(read)) = read
        BY <2>2, SubSeqFull
    <2>5. ASSUME Len(read) <= Len(reader.read) PROVE read = reader.read
        <3>1. fragment = <<>>
            BY <2>1, <2>2, <2>5
        <3> QED
            BY <2>1, <3>1, ConcatEmptySeq
    <2> QED
        BY <2>2, <2>3, <2>4, <2>5
<1>7. receive' = receive /\ forecast' = forecast
    BY DEF ConsumeFragment
<1>8. PositionsStayValid /\ ParsersTracked /\ LongestParseKept
    BY DEF BufferInv, ParseInv
<1>9. idx \in Nat /\ i \in Nat /\ Len(receive) \in Nat
    BY <1>3, <1>4
<1> HIDE DEF s, idx, read, now, complete
<1>10. /\ \A c \in reader'.complete :
             \/ c \in complete
             \/ /\ c.nt \in now /\ c.last = i /\ c.word = read
                /\ \/ c.first = i
                   \/ \E d \in complete : c.first = d.first
       /\ \A nt \in now : \E c \in reader'.complete : c.nt = nt /\ c.word = read
       /\ \A c \in complete : c.nt \notin now => c \in reader'.complete
    <2> DEFINE all == Complete(complete, now, i, read)
    <2>1. reader'.complete = all
        BY <1>5
    <2>2. \A c \in all :
             \/ c \in complete
             \/ /\ c.nt \in now /\ c.last = i /\ c.word = read
                /\ \/ c.first = i
                   \/ \E d \in complete : c.first = d.first
        BY <1>3, <1>9, CompleteMembers
    <2>3. \A nt \in now : \E c \in all : c.nt = nt /\ c.word = read
        BY <1>3, <1>9, CompleteMembers, SMTT(60)
    <2>4. \A c \in complete : c.nt \notin now => c \in all
        BY <1>3, <1>9, CompleteMembers
    <2> HIDE DEF all
    <2> QED
        BY <2>1, <2>2, <2>3, <2>4
<1>11. PositionsStayValid'
    <2>1. \A c \in complete : /\ c.first \in Nat /\ c.last \in Nat
                              /\ c.first <= c.last /\ c.last <= idx
                              /\ c.word = Heard(receive, s, c.last)
        BY <1>1, <1>3, <1>8 DEF PositionsStayValid, Parses, complete, idx, s
    <2>2. ASSUME NEW c \in reader'.complete
          PROVE  /\ c.first <= c.last /\ c.last <= i
                 /\ c.word = Heard(receive, s, c.last)
        <3>1. CASE c \in complete
            BY <1>4, <1>9, <2>1, <3>1
        <3>2. CASE c.last = i /\ c.word = read /\ c.first = i
            BY <1>4, <1>9, <3>2
        <3>3. CASE /\ c.last = i /\ c.word = read
                   /\ \E d \in complete : c.first = d.first
            BY <1>4, <1>9, <2>1, <3>3
        <3> QED
            BY <1>10, <3>1, <3>2, <3>3
    <2> QED
        BY <1>4, <1>5, <1>7, <1>9, <2>2 DEF PositionsStayValid
<1>12. ParsersTracked'
    <2>1. ASSUME NEW p \in forecast, p.sender = s, p.nt \notin reader'.available
          PROVE  \E j \in 0..Len(read) : SubSeq(read, 1, j) \notin Viable[p.nt]
        <3>1. CASE p.nt \in reader.available
            <4>1. read \notin Viable[p.nt] /\ Len(read) \in 0..Len(read)
                BY <1>5, <1>6, <2>1, <3>1
            <4> QED
                BY <1>6, <4>1
        <3>2. CASE p.nt \notin reader.available
            <4>1. PICK j \in 0..Len(reader.read) :
                     SubSeq(reader.read, 1, j) \notin Viable[p.nt]
                BY <1>1, <1>8, <2>1, <3>2 DEF ParsersTracked, s
            <4>2. j \in 0..Len(read)
                BY <1>6
            <4> QED
                BY <1>6, <4>1, <4>2
        <3> QED
            BY <3>1, <3>2
    <2> QED
        BY <1>4, <1>5, <1>7, <1>9, <2>1 DEF ParsersTracked
<1>13. LongestParseKept'
    <2> SUFFICES ASSUME NEW p \in forecast, p.sender = s,
                        NEW k \in FragmentsFrom(receive, s, 1), k <= i,
                        Heard(receive, s, k) \in Words[p.nt] \ Underivable[p.nt]
                 PROVE  \E c \in reader'.complete : c.nt = p.nt /\
                           Len(Heard(receive, s, k)) <= Len(c.word)
        BY <1>5, <1>7 DEF LongestParseKept
    <2> DEFINE said == Heard(receive, s, k)
    <2>1. k \in 1..Len(receive) /\ receive[k].sender = s /\ p.nt \in NonTerminals
        BY <1>3 DEF FragmentsFrom, Packets
    <2>2. ASSUME NEW c \in complete, c.nt = p.nt, Len(said) <= Len(c.word)
          PROVE  \E d \in reader'.complete : d.nt = p.nt /\ Len(said) <= Len(d.word)
        <3>1. CASE p.nt \notin now
            BY <1>10, <2>2, <3>1
        <3>2. CASE p.nt \in now
            <4>1. Len(said) <= Len(read)
                <5>1. k \in 0..Len(receive) /\ i \in 0..Len(receive)
                    BY <1>4, <1>9, <2>1
                <5> QED
                    BY <1>3, <1>4, <5>1, HeardBetween
            <4> QED
                BY <1>10, <3>2, <4>1
        <3> QED
            BY <3>1, <3>2
    <2>3. ASSUME k # i, k > idx PROVE FALSE
        BY <1>4, <1>9, <2>1, <2>3
    <2>4. CASE k <= idx
        <3>1. \E c \in complete : c.nt = p.nt /\ Len(said) <= Len(c.word)
            BY <1>1, <1>8, <2>4 DEF LongestParseKept, s, idx, complete
        <3> QED
            BY <2>2, <3>1
    <2>5. CASE k = i
        <3>1. said = read
            BY <1>4, <2>5
        <3>2. CASE p.nt \in reader.available
            <4>1. p.nt \in now
                BY <3>1, <3>2 DEF now, read
            <4> QED
                BY <1>6, <1>10, <3>1, <4>1
        <3>3. CASE p.nt \notin reader.available
            <4>1. /\ idx > 0
                  /\ \E j \in 0..Len(reader.read) :
                        SubSeq(reader.read, 1, j) \notin Viable[p.nt]
                BY <1>1, <1>8, <3>3 DEF ParsersTracked, s, idx
            <4>2. PICK j \in 0..Len(reader.read) :
                     SubSeq(read, 1, j) \notin Viable[p.nt]
                BY <1>6, <4>1
            <4>3. ~(j <= Len(read) - 1)
                <5>1. read \in Words[p.nt]
                    BY <3>1
                <5> QED
                    BY <1>6, <2>1, <4>2, <5>1, ViableAssumption
            <4>4. read = reader.read
                BY <1>6, <4>3
            <4>5. said = Heard(receive, s, idx)
                BY <1>1, <1>8, <3>1, <4>4 DEF PositionsStayValid, s, idx
            <4>6. idx \in FragmentsFrom(receive, s, 1)
                BY <1>1, <1>3, <1>8, <1>9, <4>1 DEF ParsersTracked, FragmentsFrom, s, idx
            <4>7. \E c \in complete : c.nt = p.nt /\ Len(said) <= Len(c.word)
                <5>1. idx <= reader.idx
                    BY <1>9 DEF idx
                <5> QED
                    BY <1>1, <1>8, <4>5, <4>6, <5>1 DEF LongestParseKept, s, complete
            <4> QED
                BY <2>2, <4>7
        <3> QED
            BY <3>2, <3>3
    <2> QED
        BY <1>9, <2>1, <2>3, <2>4, <2>5
<1> QED
    BY <1>11, <1>12, <1>13 DEF ParseInv

-----------------------------------------------------------------------------
(* The steps that end a message or a session.                              *)

(* Mounting a message moves it from the buffer to what has been taken,     *)
(* whole and once.                                                         *)
LEMMA DeliverConserves == BufferInv /\ Deliver => Conservation'
<1> SUFFICES ASSUME BufferInv, Deliver, NEW party \in ExternalParties
             PROVE  Logged(taken', party) \o Heard(receive', party, Len(receive'))
                    = Heard(arrived', party, Len(arrived'))
    BY DEF Conservation
<1>1. PICK c \in reader.complete, p \in forecast :
          /\ p.sender = reader.sender /\ p.nt = c.nt
          /\ receive' \in ClearByParty(receive, reader.sender, c.last)
          /\ taken' = Append(taken, Message(p, c.word))
    BY DEF Deliver, Mount, BestParses
<1>2. arrived' = arrived /\ Reading
    BY DEF Deliver, Mount, Reading
<1>3. /\ receive \in Seq(Received) /\ taken \in Seq(Entries)
      /\ Message(p, c.word) \in Entries /\ Message(p, c.word).sender = p.sender
      /\ Message(p, c.word).word = c.word
    <2>1. c.word \in Words[p.nt]
        BY <1>1 DEF BufferInv, IInv, ParsesHold
    <2>2. Message(p, c.word) \in Entries
        BY <2>1, MessageOfForecastType DEF BufferInv, IInv
    <2> QED
        BY <2>2 DEF BufferInv, IInv, TypeOK, Message
<1>4. /\ c.last \in 0..Len(receive) /\ c.word = Heard(receive, reader.sender, c.last)
      /\ c.word \in Seq(Atoms)
    <2>1. c.last \in Nat /\ reader.idx \in Nat /\ Len(receive) \in Nat /\ c.word \in Seq(Atoms)
        BY <1>3 DEF BufferInv, IInv, TypeOK, Readers, Parses
    <2> QED
        BY <1>2, <2>1 DEF BufferInv, ParseInv, PositionsStayValid
<1>5. /\ Heard(receive, reader.sender, c.last)
            \o Heard(receive', reader.sender, Len(receive'))
         = Heard(receive, reader.sender, Len(receive))
      /\ \A q : q # reader.sender => Heard(receive', q, Len(receive')) =
                                     Heard(receive, q, Len(receive))
    BY <1>1, <1>3, <1>4, ClearByPartyHeard, ZenonT(60)
<1>6. Logged(taken', party) = Logged(taken, party)
         \o (IF p.sender = party THEN c.word ELSE <<>>)
    BY <1>1, <1>3, LoggedSteps, ZenonT(60)
<1> DEFINE said == Logged(taken, party)
           rest == Heard(receive', party, Len(receive'))
<1>7. said \in Seq(Atoms) /\ rest \in Seq(Atoms)
    <2>1. said \in Seq(Atoms)
        BY SaidTypes DEF BufferInv, IInv
    <2>2. receive' \in Seq(Received)
        BY <1>1, <1>3, ClearByPartyType
    <2>3. Len(receive') \in 0..Len(receive')
        BY <2>2
    <2> QED
        BY <2>1, <2>2, <2>3, HeardSteps
<1>8. said \o Heard(receive, party, Len(receive)) =
        Heard(arrived, party, Len(arrived))
    BY DEF BufferInv, Conservation
<1> HIDE DEF said, rest
<1>9. CASE party = reader.sender
    <2>1. Logged(taken', party) = said \o c.word
        BY <1>1, <1>6, <1>9 DEF said
    <2>2. c.word \o rest = Heard(receive, party, Len(receive))
        BY <1>4, <1>5, <1>9 DEF rest
    <2>3. (said \o c.word) \o rest = said \o (c.word \o rest)
        BY <1>4, <1>7, ConcatAssociative
    <2> QED
        BY <1>2, <1>8, <2>1, <2>2, <2>3 DEF rest
<1>10. CASE party # reader.sender
    <2>1. Logged(taken', party) = said
        BY <1>1, <1>6, <1>7, <1>10 DEF said
    <2> QED
        BY <1>2, <1>5, <1>8, <1>10, <2>1 DEF rest
<1> QED
    BY <1>9, <1>10

(* The other steps of the session leave what was said alone.               *)
LEMMA MovesBufferInv ==
    BufferInv /\ (Predict \/ Fuzz \/ Moves \/ UNCHANGED vars) => BufferInv'
<1> SUFFICES ASSUME BufferInv, Predict \/ Fuzz \/ Moves \/ UNCHANGED vars
             PROVE  BufferInv'
    OBVIOUS
<1>1. IInv'
    BY PredictIInv, FuzzIInv, MovesIInv, StutterIInv DEF BufferInv
<1>2. /\ UNCHANGED <<receive, reader, taken, arrived>>
      /\ Reading' => Reading /\ forecast' = forecast
    <2>1. CASE Predict \/ Fuzz
        BY <2>1 DEF Predict, Fuzz, Goto, FailWith, outerVars, Reading
    <2>2. CASE Moves
        BY <2>2, MovesLeave DEF BufferInv, Reading, outerVars
    <2>3. CASE UNCHANGED vars
        BY <2>3 DEF vars, outerVars, Reading
    <2> QED
        BY <2>1, <2>2, <2>3
<1>3. Conservation'
    BY <1>2 DEF BufferInv, Conservation
<1>4. ParseInv'
    BY <1>2 DEF BufferInv, ParseInv, PositionsStayValid, ParsersTracked, LongestParseKept
<1> QED
    BY <1>1, <1>3, <1>4 DEF BufferInv

(* Every step preserves the invariant.                                     *)
LEMMA NextBufferInv == BufferInv /\ [Next]_vars => BufferInv'
<1> SUFFICES ASSUME BufferInv, [Next]_vars PROVE BufferInv'
    OBVIOUS
<1>1. IInv'
    BY NextIInv DEF BufferInv
<1>2. CASE \E message \in Arrivals : Receive(message)
    BY <1>2, SessionAssumption, ReceiveBufferInv
<1>3. CASE Predict \/ Fuzz \/ Moves \/ UNCHANGED vars
    BY <1>3, MovesBufferInv
<1>4. CASE Transmit \/ Deliver \/ NewSession
    <2>1. pc' \in {"predict", "failed"}
        BY <1>4 DEF Transmit, Deliver, NewSession, Goto, FailWith
    <2>2. ParseInv'
        BY <2>1 DEF ParseInv, PositionsStayValid, ParsersTracked, LongestParseKept,
            Reading
    <2>3. CASE Transmit \/ NewSession
        <3>1. UNCHANGED <<receive, taken, arrived>>
            BY <2>3 DEF Transmit, NewSession, outerVars
        <3>2. Conservation'
            BY <3>1 DEF BufferInv, Conservation
        <3> QED
            BY <1>1, <2>2, <3>2 DEF BufferInv
    <2>4. CASE Deliver
        BY <1>1, <2>2, <2>4, DeliverConserves DEF BufferInv
    <2> QED
        BY <1>4, <2>3, <2>4
<1>5. CASE Select \/ ConsumeFragment
    <2>1. UNCHANGED <<receive, taken, arrived>>
        BY <1>5 DEF Select, ConsumeFragment, outerVars
    <2>2. Conservation'
        BY <2>1 DEF BufferInv, Conservation
    <2> QED
        BY <1>1, <1>5, <2>2, SelectParseInv, ConsumeParseInv DEF BufferInv
<1>6. Next => \/ \E message \in Arrivals : Receive(message)
              \/ Transmit \/ Deliver \/ Predict \/ NewSession
              \/ Moves \/ Fuzz \/ Select \/ ConsumeFragment
    BY DEF Next, Listen, Generate, Work, Timeout, Accident, Moves
<1> QED
    BY <1>2, <1>3, <1>4, <1>5, <1>6

(* Whatever arrives when, in however many sessions: what an external party *)
(* has said is what the sessions have taken of it, followed by what is     *)
(* still in the buffer.  Nothing is lost, duplicated or reordered by       *)
(* find_next_fragment and clear_by_party.                                  *)
THEOREM NothingIsLost == Spec => []Conservation
<1>1. BufferInv => Conservation
    BY DEF BufferInv
<1> QED
    BY InitBufferInv, NextBufferInv, <1>1, PTL DEF Spec

(* The positions parse_next_remote_packet keeps between its accesses to    *)
(* the buffer stay valid while listeners append.                           *)
THEOREM PositionsAreValid == Spec => []PositionsStayValid
<1>1. BufferInv => PositionsStayValid
    BY DEF BufferInv, ParseInv
<1> QED
    BY InitBufferInv, NextBufferInv, <1>1, PTL DEF Spec

(* The parse kept for a forecast nonterminal is as long as any complete    *)
(* message among the fragments read.                                       *)
THEOREM LongestParseIsKept == Spec => []LongestParseKept
<1>1. BufferInv => LongestParseKept
    BY DEF BufferInv, ParseInv
<1> QED
    BY InitBufferInv, NextBufferInv, <1>1, PTL DEF Spec

=============================================================================
