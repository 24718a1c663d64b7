--------------------------- MODULE Scoring_proofs ---------------------------
(***************************************************************************)
(* For all constraints, trees and orders of evaluation: what a constraint  *)
(* has for its fitness, from its caches or not, is right.                  *)
(***************************************************************************)
EXTENDS Scoring, FiniteSetTheorems, WellFoundedInduction, TLAPS

-----------------------------------------------------------------------------
(* Induction over the natural numbers, in a form without operators.        *)

(* A nonempty set of naturals has a least element.                         *)
LEMMA LeastNat ==
    ASSUME NEW T \in SUBSET Nat, T # {}
    PROVE  \E n \in T : \A m \in T : n <= m
<1> DEFINE R == OpToRel(<, Nat)
<1>1. \A m, n \in Nat : m < n => <<m, n>> \in R
    BY DEF OpToRel
<1>2. IsWellFoundedOn(R, Nat)
    BY NatLessThanWellFounded
<1> HIDE DEF R
<1>3. PICK n \in T : \A m \in T : ~(<<m, n>> \in R)
    BY <1>2, WFMin
<1>4. ASSUME NEW m \in T PROVE n <= m
    <2>1. ~(<<m, n>> \in R) /\ m \in Nat /\ n \in Nat
        BY <1>3
    <2> QED
        BY <1>1, <2>1
<1> QED
    BY <1>3, <1>4

(* A set that contains 0 and, up to a bound, the successor of each of its  *)
(* members contains every natural number up to the bound.                  *)
LEMMA Induction ==
    ASSUME NEW n \in Nat, NEW T, 0 \in T,
           \A i \in 0..n : i \in T /\ i < n => i + 1 \in T
    PROVE  \A i \in 0..n : i \in T
<1> DEFINE Missing == {i \in 0..n : i \notin T}
<1> SUFFICES ASSUME Missing # {} PROVE FALSE
    OBVIOUS
<1>0. Missing \in SUBSET Nat
    OBVIOUS
<1>1. PICK i \in Missing : \A j \in Missing : i <= j
    <2> HIDE DEF Missing
    <2> QED
        BY <1>0, LeastNat
<1>2. i \in Nat /\ i # 0 /\ i <= n
    OBVIOUS
<1>3. i - 1 \in 0..n /\ i - 1 \notin Missing
    BY <1>1, <1>2
<1> QED
    BY <1>2, <1>3


-----------------------------------------------------------------------------
(* The recursive definitions, unfolded.                                    *)

(* A sum is that of all numbers but the last, and the last.                *)
LEMMA SumUnfolds ==
    ASSUME NEW numbers, Len(numbers) \in Nat
    PROVE  \E sum : /\ SumOf(numbers) = sum[Len(numbers)]
                    /\ sum[0] = 0
                    /\ \A k \in 1..Len(numbers) : sum[k] = sum[k - 1] + numbers[k]
<1> DEFINE n == Len(numbers)
           Unfolds(f, m) ==
               f = [k \in 0..m |-> IF k = 0 THEN 0 ELSE f[k - 1] + numbers[k]]
           T == {m \in 0..n : \E f : Unfolds(f, m)}
<1>0. SumOf(numbers) = (CHOOSE f : Unfolds(f, n))[n]
    BY DEF SumOf
<1>1. 0 \in T
    <2>1. Unfolds([k \in 0..0 |-> 0], 0)
        OBVIOUS
    <2> HIDE DEF Unfolds
    <2> QED
        BY <2>1
<1>2. ASSUME NEW m \in 0..n, m \in T, m < n PROVE m + 1 \in T
    <2>1. PICK f : Unfolds(f, m)
        BY <1>2
    <2> DEFINE g == [k \in 0..m + 1 |-> IF k <= m THEN f[k] ELSE f[m] + numbers[m + 1]]
    <2>2. \A k \in 0..m + 1 : g[k] = IF k = 0 THEN 0 ELSE g[k - 1] + numbers[k]
        BY <2>1
    <2>3. Unfolds(g, m + 1)
        <3>1. DOMAIN g = 0..m + 1
            OBVIOUS
        <3>2. g = [k \in 0..m + 1 |-> g[k]]
            OBVIOUS
        <3> HIDE DEF g
        <3> QED
            BY <2>2, <3>2
    <2>4. m + 1 \in 0..n
        BY <1>2
    <2> HIDE DEF Unfolds
    <2> QED
        BY <2>3, <2>4, Zenon
<1>3. n \in T
    <2>1. n \in Nat
        OBVIOUS
    <2>2. \A i \in 0..n : i \in T /\ i < n => i + 1 \in T
        <3> HIDE DEF T
        <3> QED
            BY <1>2
    <2> HIDE DEF T, n
    <2>3. \A i \in 0..n : i \in T
        BY <1>1, <2>1, <2>2, Induction
    <2> QED
        BY <2>1, <2>3
<1>4. \E f : Unfolds(f, n)
    BY <1>3
<1> DEFINE sum == CHOOSE f : Unfolds(f, n)
<1>5. Unfolds(sum, n)
    <2> HIDE DEF Unfolds
    <2> QED
        BY <1>4
<1>7. \A k \in 0..n : sum[k] = IF k = 0 THEN 0 ELSE sum[k - 1] + numbers[k]
    <2> HIDE DEF sum
    <2> QED
        BY <1>5
<1>8. SumOf(numbers) = sum[n]
    BY <1>0
<1> HIDE DEF sum
<1>9. \A k \in 1..n : sum[k] = sum[k - 1] + numbers[k]
    BY <1>7
<1>10. sum[0] = 0
    BY <1>7
<1> QED
    BY <1>8, <1>9, <1>10

(* What becomes of the state of a run with its k-th call.                  *)
Called(parts, calls, lazy, enough, before, k) ==
    LET call == calls[k]
        done == parts[call.part][[scope |-> Entered(before.scope, call),
                                  cache |-> before.cache]]
    IN IF before.stop THEN before
       ELSE [fits |-> Append(before.fits, done.fit), scope |-> done.scope,
             cache |-> done.cache, stop |-> lazy /\ done.fit.success = enough]

LEMMA RunUnfolds ==
    ASSUME NEW parts, NEW calls, NEW lazy, NEW enough, NEW st, Len(calls) \in Nat
    PROVE  \E run : /\ Run(parts, calls, lazy, enough, st) = run[Len(calls)]
                    /\ run[0] = [fits |-> <<>>, scope |-> st.scope, cache |-> st.cache,
                                 stop |-> FALSE]
                    /\ \A k \in 1..Len(calls) :
                          run[k] = Called(parts, calls, lazy, enough, run[k - 1], k)
<1> DEFINE n == Len(calls)
           Start == [fits |-> <<>>, scope |-> st.scope, cache |-> st.cache, stop |-> FALSE]
           Step(before, k) == Called(parts, calls, lazy, enough, before, k)
           Unfolds(f, m) == f = [k \in 0..m |-> IF k = 0 THEN Start ELSE Step(f[k - 1], k)]
           T == {m \in 0..n : \E f : Unfolds(f, m)}
<1>0. Run(parts, calls, lazy, enough, st) = (CHOOSE f : Unfolds(f, n))[n]
    BY DEF Run, Called
<1> HIDE DEF Start, Step
<1>1. 0 \in T
    <2>1. Unfolds([k \in 0..0 |-> Start], 0)
        OBVIOUS
    <2> HIDE DEF Unfolds
    <2> QED
        BY <2>1
<1>2. ASSUME NEW m \in 0..n, m \in T, m < n PROVE m + 1 \in T
    <2>1. PICK f : Unfolds(f, m)
        BY <1>2
    <2> DEFINE g == [k \in 0..m + 1 |-> IF k <= m THEN f[k] ELSE Step(f[m], m + 1)]
    <2>2. \A k \in 0..m + 1 : g[k] = IF k = 0 THEN Start ELSE Step(g[k - 1], k)
        BY <2>1
    <2>3. Unfolds(g, m + 1)
        <3>1. DOMAIN g = 0..m + 1
            OBVIOUS
        <3>2. g = [k \in 0..m + 1 |-> g[k]]
            OBVIOUS
        <3> HIDE DEF g
        <3> QED
            BY <2>2, <3>2
    <2>4. m + 1 \in 0..n
        BY <1>2
    <2> HIDE DEF Unfolds
    <2> QED
        BY <2>3, <2>4, Zenon
<1>3. n \in T
    <2>1. n \in Nat
        OBVIOUS
    <2>2. \A i \in 0..n : i \in T /\ i < n => i + 1 \in T
        <3> HIDE DEF T
        <3> QED
            BY <1>2
    <2> HIDE DEF T, n
    <2>3. \A i \in 0..n : i \in T
        BY <1>1, <2>1, <2>2, Induction
    <2> QED
        BY <2>1, <2>3
<1>4. \E f : Unfolds(f, n)
    BY <1>3
<1> DEFINE run == CHOOSE f : Unfolds(f, n)
<1>5. Unfolds(run, n)
    <2> HIDE DEF Unfolds
    <2> QED
        BY <1>4
<1>7. \A k \in 0..n : run[k] = IF k = 0 THEN Start ELSE Step(run[k - 1], k)
    <2> HIDE DEF run
    <2> QED
        BY <1>5
<1>8. Run(parts, calls, lazy, enough, st) = run[n]
    BY <1>0
<1> HIDE DEF run
<1>9. \A k \in 1..n : run[k] = Step(run[k - 1], k)
    BY <1>7
<1>10. run[0] = Start
    BY <1>7
<1> QED
    BY <1>8, <1>9, <1>10 DEF Start, Step

(* Objects in their order, each after its parts.                           *)
Ordered(os) == Len(os) \in Nat /\ DOMAIN os = 1..Len(os) /\ AreObjects(os)

PartsOf(f, os, i) == [k \in 1..Len(os[i].parts) |-> f[os[i].parts[k]]]

LEMMA PartsComeBefore ==
    ASSUME NEW os, Ordered(os), NEW i \in DOMAIN os
    PROVE  /\ os[i].parts \in Seq(Nat)
           /\ Len(os[i].parts) \in Nat
           /\ \A k \in 1..Len(os[i].parts) : os[i].parts[k] \in 1..(i - 1)
<1>1. IsObject(os[i]) /\ ItemsOf(os[i].parts) \subseteq 1..(i - 1)
    BY DEF Ordered, AreObjects
<1>2. os[i].parts \in Seq(Nat)
    <2>1. CASE os[i] \in [kind : Atomic, op : Operators, left : Operands,
                          right : Operands, parts : {<<>>}]
        <3>1. os[i].parts = <<>>
            BY <2>1
        <3> QED
            BY <3>1
    <2>2. CASE os[i] \in [kind : {"conjunction", "disjunction"}, lazy : BOOLEAN,
                          parts : Seq(Nat)]
        BY <2>2
    <2>3. CASE os[i] \in [kind : {"implication"}, parts : Seq(Nat)]
        BY <2>3
    <2>4. CASE os[i] \in [kind : Quantifier, lazy : BOOLEAN, bound : Names,
                          search : Symbols, parts : Seq(Nat)]
        BY <2>4
    <2> QED
        BY <1>1, <2>1, <2>2, <2>3, <2>4 DEF IsObject
<1> QED
    BY <1>1, <1>2 DEF ItemsOf

(* The evaluation of an object is made of those of its parts.              *)
LEMMA FitnessUnfolds ==
    ASSUME NEW os, Ordered(os), NEW tree
    PROVE  \A i \in DOMAIN os :
              Fitness(os, tree)[i] = Evaluation(i, os[i], tree, PartsOf(Fitness(os, tree), os, i))
<1> DEFINE n == Len(os)
           Body(i, parts) == Evaluation(i, os[i], tree, parts)
           Unfolds(f, m) == f = [i \in 1..m |-> Body(i, PartsOf(f, os, i))]
           T == {m \in 0..n : \E f : Unfolds(f, m)}
<1>0. Fitness(os, tree) = (CHOOSE f : Unfolds(f, n))
    BY DEF Fitness, PartsOf, Ordered
<1> HIDE DEF Body
<1>n. n \in Nat /\ DOMAIN os = 1..n
    BY DEF Ordered
<1>p. \A i \in 1..n : \A k \in 1..Len(os[i].parts) : os[i].parts[k] \in 1..(i - 1)
    BY PartsComeBefore, <1>n
<1> HIDE DEF n
<1>1. 0 \in T
    <2>1. Unfolds([i \in 1..0 |-> 0], 0)
        OBVIOUS
    <2> HIDE DEF Unfolds
    <2> QED
        BY <2>1, <1>n
<1>2. ASSUME NEW m \in 0..n, m \in T, m < n PROVE m + 1 \in T
    <2>1. PICK f : Unfolds(f, m)
        BY <1>2
    <2> DEFINE g == [i \in 1..m + 1 |-> IF i <= m THEN f[i]
                                       ELSE Body(m + 1, PartsOf(f, os, m + 1))]
    <2>2. \A i \in 1..m + 1 : g[i] = Body(i, PartsOf(f, os, i))
        BY <2>1
    <2>3. ASSUME NEW i \in 1..m + 1 PROVE PartsOf(g, os, i) = PartsOf(f, os, i)
        <3>1. ASSUME NEW k \in 1..Len(os[i].parts)
              PROVE  g[os[i].parts[k]] = f[os[i].parts[k]]
            <4>1. i \in 1..n /\ m \in Nat /\ i \in Nat
                BY <1>2, <1>n
            <4>2. os[i].parts[k] \in 1..(i - 1)
                BY <4>1, <1>p
            <4>3. os[i].parts[k] \in 1..m
                BY <4>1, <4>2
            <4> HIDE DEF Unfolds
            <4> QED
                BY <4>1, <4>3
        <3> HIDE DEF g
        <3> QED
            BY <3>1 DEF PartsOf
    <2>4. Unfolds(g, m + 1)
        <3>1. g = [i \in 1..m + 1 |-> g[i]]
            OBVIOUS
        <3> HIDE DEF g
        <3>2. \A i \in 1..m + 1 : g[i] = Body(i, PartsOf(g, os, i))
            BY <2>2, <2>3
        <3> QED
            BY <3>1, <3>2
    <2>5. m + 1 \in 0..n
        BY <1>2, <1>n
    <2> HIDE DEF Unfolds, g
    <2> QED
        BY <2>4, <2>5
<1>3. n \in T
    <2>1. \A i \in 0..n : i \in T /\ i < n => i + 1 \in T
        <3> HIDE DEF T
        <3> QED
            BY <1>2
    <2> HIDE DEF T
    <2>2. \A i \in 0..n : i \in T
        BY <1>1, <1>n, <2>1, Induction
    <2> QED
        BY <1>n, <2>2
<1>4. Unfolds(CHOOSE f : Unfolds(f, n), n)
    <2> HIDE DEF Unfolds
    <2> QED
        BY <1>3
<1>5. \A i \in 1..n : Fitness(os, tree)[i] = Body(i, PartsOf(Fitness(os, tree), os, i))
    <2>1. Unfolds(Fitness(os, tree), n)
        <3> HIDE DEF Unfolds
        <3> QED
            BY <1>0, <1>4
    <2> QED
        BY <2>1
<1> QED
    BY <1>5, <1>n DEF Body

(* So is its meaning,                                                      *)
LEMMA HoldsUnfolds ==
    ASSUME NEW os, Ordered(os), NEW tree
    PROVE  \A i \in DOMAIN os :
              Holds(os, tree)[i] = Meaning(os[i], tree, PartsOf(Holds(os, tree), os, i))
<1> DEFINE n == Len(os)
           Body(i, parts) == Meaning(os[i], tree, parts)
           Unfolds(f, m) == f = [i \in 1..m |-> Body(i, PartsOf(f, os, i))]
           T == {m \in 0..n : \E f : Unfolds(f, m)}
<1>0. Holds(os, tree) = (CHOOSE f : Unfolds(f, n))
    BY DEF Holds, PartsOf, Ordered
<1> HIDE DEF Body
<1>n. n \in Nat /\ DOMAIN os = 1..n
    BY DEF Ordered
<1>p. \A i \in 1..n : \A k \in 1..Len(os[i].parts) : os[i].parts[k] \in 1..(i - 1)
    BY PartsComeBefore, <1>n
<1> HIDE DEF n
<1>1. 0 \in T
    <2>1. Unfolds([i \in 1..0 |-> 0], 0)
        OBVIOUS
    <2> HIDE DEF Unfolds
    <2> QED
        BY <2>1, <1>n
<1>2. ASSUME NEW m \in 0..n, m \in T, m < n PROVE m + 1 \in T
    <2>1. PICK f : Unfolds(f, m)
        BY <1>2
    <2> DEFINE g == [i \in 1..m + 1 |-> IF i <= m THEN f[i]
                                       ELSE Body(m + 1, PartsOf(f, os, m + 1))]
    <2>2. \A i \in 1..m + 1 : g[i] = Body(i, PartsOf(f, os, i))
        BY <2>1
    <2>3. ASSUME NEW i \in 1..m + 1 PROVE PartsOf(g, os, i) = PartsOf(f, os, i)
        <3>1. ASSUME NEW k \in 1..Len(os[i].parts)
              PROVE  g[os[i].parts[k]] = f[os[i].parts[k]]
            <4>1. i \in 1..n /\ m \in Nat /\ i \in Nat
                BY <1>2, <1>n
            <4>2. os[i].parts[k] \in 1..(i - 1)
                BY <4>1, <1>p
            <4>3. os[i].parts[k] \in 1..m
                BY <4>1, <4>2
            <4> HIDE DEF Unfolds
            <4> QED
                BY <4>1, <4>3
        <3> HIDE DEF g
        <3> QED
            BY <3>1 DEF PartsOf
    <2>4. Unfolds(g, m + 1)
        <3>1. g = [i \in 1..m + 1 |-> g[i]]
            OBVIOUS
        <3> HIDE DEF g
        <3>2. \A i \in 1..m + 1 : g[i] = Body(i, PartsOf(g, os, i))
            BY <2>2, <2>3
        <3> QED
            BY <3>1, <3>2
    <2>5. m + 1 \in 0..n
        BY <1>2, <1>n
    <2> HIDE DEF Unfolds, g
    <2> QED
        BY <2>4, <2>5
<1>3. n \in T
    <2>1. \A i \in 0..n : i \in T /\ i < n => i + 1 \in T
        <3> HIDE DEF T
        <3> QED
            BY <1>2
    <2> HIDE DEF T
    <2>2. \A i \in 0..n : i \in T
        BY <1>1, <1>n, <2>1, Induction
    <2> QED
        BY <1>n, <2>2
<1>4. Unfolds(CHOOSE f : Unfolds(f, n), n)
    <2> HIDE DEF Unfolds
    <2> QED
        BY <1>3
<1>5. \A i \in 1..n : Holds(os, tree)[i] = Body(i, PartsOf(Holds(os, tree), os, i))
    <2>1. Unfolds(Holds(os, tree), n)
        <3> HIDE DEF Unfolds
        <3> QED
            BY <1>0, <1>4
    <2> QED
        BY <2>1
<1> QED
    BY <1>5, <1>n DEF Body

(* and its names.                                                          *)
LEMMA ScopingUnfolds ==
    ASSUME NEW os, Ordered(os)
    PROVE  \A i \in DOMAIN os :
              ScopingOf(os)[i] = Scoping(os[i], PartsOf(ScopingOf(os), os, i))
<1> DEFINE n == Len(os)
           Body(i, parts) == Scoping(os[i], parts)
           Unfolds(f, m) == f = [i \in 1..m |-> Body(i, PartsOf(f, os, i))]
           T == {m \in 0..n : \E f : Unfolds(f, m)}
<1>0. ScopingOf(os) = (CHOOSE f : Unfolds(f, n))
    BY DEF ScopingOf, PartsOf, Ordered
<1> HIDE DEF Body
<1>n. n \in Nat /\ DOMAIN os = 1..n
    BY DEF Ordered
<1>p. \A i \in 1..n : \A k \in 1..Len(os[i].parts) : os[i].parts[k] \in 1..(i - 1)
    BY PartsComeBefore, <1>n
<1> HIDE DEF n
<1>1. 0 \in T
    <2>1. Unfolds([i \in 1..0 |-> 0], 0)
        OBVIOUS
    <2> HIDE DEF Unfolds
    <2> QED
        BY <2>1, <1>n
<1>2. ASSUME NEW m \in 0..n, m \in T, m < n PROVE m + 1 \in T
    <2>1. PICK f : Unfolds(f, m)
        BY <1>2
    <2> DEFINE g == [i \in 1..m + 1 |-> IF i <= m THEN f[i]
                                       ELSE Body(m + 1, PartsOf(f, os, m + 1))]
    <2>2. \A i \in 1..m + 1 : g[i] = Body(i, PartsOf(f, os, i))
        BY <2>1
    <2>3. ASSUME NEW i \in 1..m + 1 PROVE PartsOf(g, os, i) = PartsOf(f, os, i)
        <3>1. ASSUME NEW k \in 1..Len(os[i].parts)
              PROVE  g[os[i].parts[k]] = f[os[i].parts[k]]
            <4>1. i \in 1..n /\ m \in Nat /\ i \in Nat
                BY <1>2, <1>n
            <4>2. os[i].parts[k] \in 1..(i - 1)
                BY <4>1, <1>p
            <4>3. os[i].parts[k] \in 1..m
                BY <4>1, <4>2
            <4> HIDE DEF Unfolds
            <4> QED
                BY <4>1, <4>3
        <3> HIDE DEF g
        <3> QED
            BY <3>1 DEF PartsOf
    <2>4. Unfolds(g, m + 1)
        <3>1. g = [i \in 1..m + 1 |-> g[i]]
            OBVIOUS
        <3> HIDE DEF g
        <3>2. \A i \in 1..m + 1 : g[i] = Body(i, PartsOf(g, os, i))
            BY <2>2, <2>3
        <3> QED
            BY <3>1, <3>2
    <2>5. m + 1 \in 0..n
        BY <1>2, <1>n
    <2> HIDE DEF Unfolds, g
    <2> QED
        BY <2>4, <2>5
<1>3. n \in T
    <2>1. \A i \in 0..n : i \in T /\ i < n => i + 1 \in T
        <3> HIDE DEF T
        <3> QED
            BY <1>2
    <2> HIDE DEF T
    <2>2. \A i \in 0..n : i \in T
        BY <1>1, <1>n, <2>1, Induction
    <2> QED
        BY <1>n, <2>2
<1>4. Unfolds(CHOOSE f : Unfolds(f, n), n)
    <2> HIDE DEF Unfolds
    <2> QED
        BY <1>3
<1>5. \A i \in 1..n : ScopingOf(os)[i] = Body(i, PartsOf(ScopingOf(os), os, i))
    <2>1. Unfolds(ScopingOf(os), n)
        <3> HIDE DEF Unfolds
        <3> QED
            BY <1>0, <1>4
    <2> QED
        BY <2>1
<1> QED
    BY <1>5, <1>n DEF Body

-----------------------------------------------------------------------------
(* The numbers of a fitness.                                               *)

(* A sum of two numbers, each at most another.                             *)
LEMMA SumOfTwo ==
    ASSUME NEW p \in Nat, NEW q \in Nat, p <= q, NEW x \in Nat, NEW y \in Nat, x <= y
    PROVE  /\ p + x \in Nat /\ q + y \in Nat /\ p + x <= q + y
           /\ p + x = q + y <=> p = q /\ x = y
           /\ y <= q + y
           /\ \A z \in Nat : z <= q => z <= q + y
    OBVIOUS

(* A sum of smaller numbers is smaller, unless all are equal.              *)
LEMMA SumFacts ==
    ASSUME NEW n \in Nat, NEW a, NEW b, Len(a) = n, Len(b) = n,
           \A k \in 1..n : a[k] \in Nat /\ b[k] \in Nat /\ a[k] <= b[k]
    PROVE  /\ SumOf(a) \in Nat
           /\ SumOf(b) \in Nat
           /\ SumOf(a) <= SumOf(b)
           /\ SumOf(a) = SumOf(b) => \A k \in 1..n : a[k] = b[k]
           /\ (\A k \in 1..n : a[k] = b[k]) => SumOf(a) = SumOf(b)
           /\ \A k \in 1..n : b[k] <= SumOf(b)
<1>1. PICK s : SumOf(a) = s[n] /\ s[0] = 0 /\ \A k \in 1..n : s[k] = s[k - 1] + a[k]
    <2>1. Len(a) \in Nat
        OBVIOUS
    <2>2. \E s : /\ SumOf(a) = s[Len(a)]
                /\ s[0] = 0
                /\ \A k \in 1..Len(a) : s[k] = s[k - 1] + a[k]
        BY ONLY <2>1, SumUnfolds, Zenon
    <2> QED
        BY <2>2, Zenon
<1>2. PICK t : SumOf(b) = t[n] /\ t[0] = 0 /\ \A k \in 1..n : t[k] = t[k - 1] + b[k]
    <2>1. Len(b) \in Nat
        OBVIOUS
    <2>2. \E t : /\ SumOf(b) = t[Len(b)]
                /\ t[0] = 0
                /\ \A k \in 1..Len(b) : t[k] = t[k - 1] + b[k]
        BY ONLY <2>1, SumUnfolds, Zenon
    <2> QED
        BY <2>2, Zenon
<1> DEFINE Ok(k) == /\ s[k] \in Nat /\ t[k] \in Nat /\ s[k] <= t[k]
                    /\ s[k] = t[k] => \A j \in 1..k : a[j] = b[j]
                    /\ (\A j \in 1..k : a[j] = b[j]) => s[k] = t[k]
                    /\ \A j \in 1..k : b[j] <= t[k]
           T == {k \in 0..n : Ok(k)}
<1>3. 0 \in T
    BY <1>1, <1>2
<1>4. ASSUME NEW k \in 0..n, k \in T, k < n PROVE k + 1 \in T
    <2>1. k + 1 \in 1..n /\ k \in Nat
        BY <1>4
    <2>2. s[k + 1] = s[k] + a[k + 1] /\ t[k + 1] = t[k] + b[k + 1]
        BY <1>1, <1>2, <2>1
    <2>3. Ok(k)
        BY <1>4
    <2>4. a[k + 1] \in Nat /\ b[k + 1] \in Nat /\ a[k + 1] <= b[k + 1]
        BY <2>1
    <2>5. s[k] \in Nat /\ t[k] \in Nat /\ s[k] <= t[k]
        BY <2>3
    <2>6. \A j \in 1..(k + 1) : j \in 1..k \/ j = k + 1
        BY <2>1
    <2>7. k + 1 \in 1..(k + 1) /\ \A j \in 1..k : j \in 1..(k + 1) /\ j \in 1..n
        BY <1>4, <2>1
    <2>8. (\A j \in 1..(k + 1) : a[j] = b[j])
             <=> (\A j \in 1..k : a[j] = b[j]) /\ a[k + 1] = b[k + 1]
        <3> HIDE DEF Ok
        <3> QED
            BY ONLY <2>6, <2>7, Zenon
    <2>9. (\A j \in 1..k : a[j] = b[j]) <=> s[k] = t[k]
        BY <2>3, Zenon
    <2>10. \A j \in 1..k : b[j] \in Nat /\ b[j] <= t[k]
        <3>1. \A j \in 1..k : b[j] <= t[k]
            BY <2>3, Zenon
        <3>2. \A j \in 1..k : b[j] \in Nat
            BY <2>7, Zenon
        <3> QED
            BY ONLY <3>1, <3>2, Zenon
    <2> DEFINE x == a[k + 1]
               y == b[k + 1]
               p == s[k]
               q == t[k]
    <2>11. s[k + 1] = p + x /\ t[k + 1] = q + y
        BY <2>2
    <2>12. p \in Nat /\ q \in Nat /\ p <= q /\ x \in Nat /\ y \in Nat /\ x <= y
        BY <2>4, <2>5, Zenon
    <2> HIDE DEF Ok, x, y, p, q
    <2>13. /\ p + x \in Nat /\ q + y \in Nat /\ p + x <= q + y
           /\ p + x = q + y <=> p = q /\ x = y
           /\ y <= q + y
           /\ \A z \in Nat : z <= q => z <= q + y
        BY ONLY <2>12, SumOfTwo, Zenon
    <2>14. s[k + 1] \in Nat /\ t[k + 1] \in Nat /\ s[k + 1] <= t[k + 1]
        BY ONLY <2>11, <2>13, Zenon
    <2>15. (\A j \in 1..(k + 1) : a[j] = b[j]) <=> s[k + 1] = t[k + 1]
        BY ONLY <2>8, <2>9, <2>11, <2>13, Zenon DEF x, y, p, q
    <2>16. \A j \in 1..(k + 1) : b[j] <= t[k + 1]
        BY ONLY <2>6, <2>10, <2>11, <2>13, Zenon DEF y, q
    <2>17. Ok(k + 1)
        BY ONLY <2>14, <2>15, <2>16, Zenon DEF Ok
    <2>18. k + 1 \in 0..n
        BY <2>1
    <2> QED
        BY ONLY <2>17, <2>18, Zenon
<1>5. \A k \in 0..n : k \in T /\ k < n => k + 1 \in T
    <2> HIDE DEF T
    <2> QED
        BY <1>4
<1>6. n \in T
    <2> HIDE DEF T
    <2>1. \A k \in 0..n : k \in T
        BY <1>3, <1>5, Induction
    <2> QED
        BY <2>1
<1> QED
    BY <1>1, <1>2, <1>6

(* A constraint is satisfied iff all of what counts is solved.             *)
WellCounted(fit) ==
    /\ fit.solved <= fit.total
    /\ fit.success <=> fit.solved = fit.total
    /\ fit.values # None => /\ fit.values[1] <= fit.values[2]
                            /\ fit.success <=> fit.values[1] = fit.values[2]

NonEmpty(fit) == fit.total >= 1 /\ (fit.values # None => fit.values[2] >= 1)

LEMMA TotalFacts ==
    ASSUME NEW fits \in Seq(Fits), \A k \in 1..Len(fits) : WellCounted(fits[k])
    PROVE  /\ Solved(fits) \in Nat
           /\ Total(fits) \in Nat
           /\ Solved(fits) <= Total(fits)
           /\ Solved(fits) = Total(fits) <=> AllSucceed(fits)
           /\ \A k \in 1..Len(fits) : fits[k].total <= Total(fits)
<1> DEFINE n == Len(fits)
           a == [k \in 1..n |-> fits[k].solved]
           b == [k \in 1..n |-> fits[k].total]
<1>1. n \in Nat /\ Len(a) = n /\ Len(b) = n
    OBVIOUS
<1>2. ASSUME NEW k \in 1..n
      PROVE  /\ a[k] \in Nat /\ b[k] \in Nat /\ a[k] <= b[k]
             /\ fits[k].success <=> a[k] = b[k]
    <2>1. fits[k] \in Fits /\ WellCounted(fits[k])
        OBVIOUS
    <2>2. fits[k].solved \in Nat /\ fits[k].total \in Nat
        BY <2>1 DEF Fits
    <2> QED
        BY <2>1, <2>2 DEF WellCounted
<1>3. \A k \in 1..n : b[k] = fits[k].total
    OBVIOUS
<1>4. Solved(fits) = SumOf(a) /\ Total(fits) = SumOf(b)
    BY DEF Solved, Total
<1>5. AllSucceed(fits) <=> \A k \in 1..n : fits[k].success
    BY DEF AllSucceed
<1> HIDE DEF a, b, n
<1>6. \A k \in 1..n : a[k] \in Nat /\ b[k] \in Nat /\ a[k] <= b[k]
    BY <1>2
<1>7. /\ SumOf(a) \in Nat
      /\ SumOf(b) \in Nat
      /\ SumOf(a) <= SumOf(b)
      /\ SumOf(a) = SumOf(b) => \A k \in 1..n : a[k] = b[k]
      /\ (\A k \in 1..n : a[k] = b[k]) => SumOf(a) = SumOf(b)
      /\ \A k \in 1..n : b[k] <= SumOf(b)
    BY <1>1, <1>6, SumFacts
<1> QED
    BY <1>2, <1>3, <1>4, <1>5, <1>7 DEF n

(* So it is of what is made of the fitnesses of parts.                     *)
LEMMA FailingType ==
    ASSUME NEW fits \in Seq(Fits)
    PROVE  Failing(fits) \in SUBSET Nat
<1>1. ASSUME NEW k \in 1..Len(fits) PROVE fits[k].failing \subseteq Nat
    <2>1. fits[k] \in Fits
        OBVIOUS
    <2> QED
        BY <2>1 DEF Fits
<1> QED
    BY <1>1 DEF Failing

LEMMA PlainCounts ==
    ASSUME NEW solved \in Nat, NEW total \in Nat, NEW success \in BOOLEAN,
           NEW failing \in SUBSET Nat, solved <= total, success <=> solved = total
    PROVE  /\ Plain(solved, total, success, failing) \in Fits
           /\ WellCounted(Plain(solved, total, success, failing))
           /\ total >= 1 => NonEmpty(Plain(solved, total, success, failing))
    BY DEF Plain, Fits, WellCounted, NonEmpty

LEMMA ConjunctionCounts ==
    ASSUME NEW fits \in Seq(Fits), \A k \in 1..Len(fits) : WellCounted(fits[k]),
           NEW extra \in {0, 1}
    PROVE  /\ Conjunction(fits, extra) \in Fits
           /\ WellCounted(Conjunction(fits, extra))
           /\ extra = 1 \/ (\E k \in 1..Len(fits) : NonEmpty(fits[k]))
              => NonEmpty(Conjunction(fits, extra))
           /\ Conjunction(fits, extra).success = AllSucceed(fits)
           /\ Conjunction(fits, extra).failing = Failing(fits)
<1> DEFINE solved == Solved(fits) + (IF AllSucceed(fits) THEN extra ELSE 0)
           total == Total(fits) + extra
<1>1. /\ Solved(fits) \in Nat /\ Total(fits) \in Nat /\ Solved(fits) <= Total(fits)
      /\ Solved(fits) = Total(fits) <=> AllSucceed(fits)
      /\ \A k \in 1..Len(fits) : fits[k].total <= Total(fits)
    BY TotalFacts
<1>2. solved \in Nat /\ total \in Nat /\ solved <= total
    BY <1>1
<1>3. AllSucceed(fits) <=> solved = total
    BY <1>1
<1>4. AllSucceed(fits) \in BOOLEAN
    BY DEF AllSucceed
<1>5. Conjunction(fits, extra) = Plain(solved, total, AllSucceed(fits), Failing(fits))
    BY DEF Conjunction
<1>6. ASSUME NEW k \in 1..Len(fits), NonEmpty(fits[k]) PROVE total >= 1
    <2>1. fits[k] \in Fits
        OBVIOUS
    <2>2. fits[k].total \in Nat /\ fits[k].total >= 1
        BY <1>6, <2>1 DEF Fits, NonEmpty
    <2> QED
        BY <1>1, <2>2
<1>7. extra = 1 => total >= 1
    BY <1>1
<1> HIDE DEF solved, total
<1>8. /\ Conjunction(fits, extra) \in Fits
      /\ WellCounted(Conjunction(fits, extra))
      /\ total >= 1 => NonEmpty(Conjunction(fits, extra))
    BY <1>2, <1>3, <1>4, <1>5, FailingType, PlainCounts
<1>9. /\ Conjunction(fits, extra).success = AllSucceed(fits)
      /\ Conjunction(fits, extra).failing = Failing(fits)
    BY <1>5 DEF Plain
<1> QED
    BY <1>6, <1>7, <1>8, <1>9

LEMMA PerfectIfCounts ==
    ASSUME NEW fits \in Seq(Fits), \A k \in 1..Len(fits) : WellCounted(fits[k]),
           NEW extra \in {0, 1}, NEW success \in BOOLEAN,
           extra = 0 => (success <=> AllSucceed(fits))
    PROVE  /\ PerfectIf(success, fits, extra) \in Fits
           /\ WellCounted(PerfectIf(success, fits, extra))
           /\ extra = 1 \/ (\E k \in 1..Len(fits) : NonEmpty(fits[k]))
              => NonEmpty(PerfectIf(success, fits, extra))
           /\ PerfectIf(success, fits, extra).success = success
           /\ PerfectIf(success, fits, extra).failing = Failing(fits)
<1> DEFINE solved == IF success /\ extra = 1 THEN Total(fits) + 1 ELSE Solved(fits)
           total == Total(fits) + extra
<1>1. /\ Solved(fits) \in Nat /\ Total(fits) \in Nat /\ Solved(fits) <= Total(fits)
      /\ Solved(fits) = Total(fits) <=> AllSucceed(fits)
      /\ \A k \in 1..Len(fits) : fits[k].total <= Total(fits)
    BY TotalFacts
<1>2. solved \in Nat /\ total \in Nat /\ solved <= total
    BY <1>1
<1>3. success <=> solved = total
    BY <1>1
<1>5. PerfectIf(success, fits, extra) = Plain(solved, total, success, Failing(fits))
    BY DEF PerfectIf
<1>6. ASSUME NEW k \in 1..Len(fits), NonEmpty(fits[k]) PROVE total >= 1
    <2>1. fits[k] \in Fits
        OBVIOUS
    <2>2. fits[k].total \in Nat /\ fits[k].total >= 1
        BY <1>6, <2>1 DEF Fits, NonEmpty
    <2> QED
        BY <1>1, <2>2
<1>7. extra = 1 => total >= 1
    BY <1>1
<1> HIDE DEF solved, total
<1>8. /\ PerfectIf(success, fits, extra) \in Fits
      /\ WellCounted(PerfectIf(success, fits, extra))
      /\ total >= 1 => NonEmpty(PerfectIf(success, fits, extra))
    BY <1>2, <1>3, <1>5, FailingType, PlainCounts
<1>9. /\ PerfectIf(success, fits, extra).success = success
      /\ PerfectIf(success, fits, extra).failing = Failing(fits)
    BY <1>5 DEF Plain
<1> QED
    BY <1>6, <1>7, <1>8, <1>9

LEMMA CopyCounts ==
    ASSUME NEW fit \in Fits, WellCounted(fit)
    PROVE  /\ Copy(fit) \in Fits
           /\ WellCounted(Copy(fit))
           /\ NonEmpty(fit) => NonEmpty(Copy(fit))
           /\ Copy(fit).success = fit.success
           /\ Copy(fit).failing = fit.failing
<1>1. CASE fit.values = None
    BY <1>1 DEF Copy
<1>2. CASE fit.values # None
    <2>1. fit.values \in Nat \X Nat
        BY <1>2 DEF Fits
    <2>2. fit.values[1] \in Nat /\ fit.values[2] \in Nat
        BY <2>1
    <2> DEFINE copy == [fit EXCEPT !.solved = fit.values[1], !.total = fit.values[2]]
    <2>3. /\ copy \in Fits /\ copy.solved = fit.values[1] /\ copy.total = fit.values[2]
          /\ copy.values = fit.values /\ copy.success = fit.success
          /\ copy.failing = fit.failing
        BY <2>2 DEF Fits
    <2>4. Copy(fit) = copy
        BY <1>2 DEF Copy
    <2> HIDE DEF copy
    <2> QED
        BY <1>2, <2>2, <2>3, <2>4 DEF WellCounted, NonEmpty
<1> QED
    BY <1>1, <1>2

LEMMA ConsequentCounts ==
    ASSUME NEW fit \in Fits, WellCounted(fit)
    PROVE  /\ Consequent(fit) \in Fits
           /\ WellCounted(Consequent(fit))
           /\ NonEmpty(fit) => NonEmpty(Consequent(fit))
           /\ Consequent(fit).success = fit.success
           /\ Consequent(fit).failing = fit.failing
<1> DEFINE copied == Copy(fit)
           solved == IF fit.success THEN copied.solved + 1 ELSE copied.solved
           fitness == [copied EXCEPT !.total = copied.total + 1, !.solved = solved]
<1>1. /\ copied \in Fits
      /\ WellCounted(copied)
      /\ NonEmpty(fit) => NonEmpty(copied)
      /\ copied.success = fit.success
      /\ copied.failing = fit.failing
    BY CopyCounts
<1>2. Consequent(fit) = fitness
    BY DEF Consequent
<1> HIDE DEF copied
<1>3. copied.solved \in Nat /\ copied.total \in Nat /\ copied.success \in BOOLEAN
    BY <1>1 DEF Fits
<1>a. solved \in Nat /\ copied.total + 1 \in Nat
    BY <1>3
<1> HIDE DEF solved
<1>4. /\ fitness \in Fits
      /\ fitness.total = copied.total + 1
      /\ fitness.solved = solved
      /\ fitness.values = copied.values /\ fitness.success = copied.success
      /\ fitness.failing = copied.failing
    BY <1>1, <1>a DEF Fits
<1> HIDE DEF fitness
<1>5. WellCounted(fitness)
    BY <1>1, <1>3, <1>4 DEF WellCounted, solved
<1>6. NonEmpty(fit) => NonEmpty(fitness)
    BY <1>1, <1>3, <1>4 DEF NonEmpty
<1> QED
    BY <1>1, <1>2, <1>4, <1>5, <1>6

-----------------------------------------------------------------------------
(* Scopes.                                                                 *)

(* tau is what sigma may have become once statements that bind the names   *)
(* in B have been evaluated in it, the names in N being bound by calls:    *)
(* nothing is unbound, and of a kind of names of which none was bound only *)
(* those remain that the calls bind.                                       *)
Extends(B, N, sigma, tau) ==
    \A x \in Names :
        /\ x \notin B \cup N => tau[x] = sigma[x]
        /\ sigma[x] # 0 => tau[x] # 0
        /\ SameKind(x) \cap BoundIn(sigma) = {} /\ SameKind(x) \cap N = {} => tau[x] = 0

LEMMA KindFacts ==
    ASSUME NEW x \in Names
    PROVE  /\ x \in SameKind(x)
           /\ SameKind(x) \subseteq Names
           /\ \A y \in SameKind(x) : SameKind(y) = SameKind(x)
    BY ConstraintsAssumption DEF SameKind, Names

LEMMA ExtendsItself ==
    ASSUME NEW B, NEW N, NEW tree, NEW sigma \in Scopes(tree)
    PROVE  Extends(B, N, sigma, sigma)
<1> SUFFICES ASSUME NEW x \in Names, SameKind(x) \cap BoundIn(sigma) = {}
             PROVE  sigma[x] = 0
    BY DEF Extends
<1> QED
    BY KindFacts DEF BoundIn

(* Statements of an object, evaluated one after the other.                 *)
LEMMA ExtendsFurther ==
    ASSUME NEW B, NEW C, C \subseteq B, NEW sigma, NEW tau, NEW upsilon,
           Extends(B, {}, sigma, tau), Extends(C, {}, tau, upsilon)
    PROVE  Extends(B, {}, sigma, upsilon)
<1> SUFFICES ASSUME NEW x \in Names
             PROVE  /\ x \notin B \cup {} => upsilon[x] = sigma[x]
                    /\ sigma[x] # 0 => upsilon[x] # 0
                    /\ SameKind(x) \cap BoundIn(sigma) = {} => upsilon[x] = 0
    BY DEF Extends
<1>1. /\ x \notin B => tau[x] = sigma[x]
      /\ sigma[x] # 0 => tau[x] # 0
      /\ x \notin B => upsilon[x] = tau[x]
      /\ tau[x] # 0 => upsilon[x] # 0
    BY DEF Extends
<1>2. ASSUME SameKind(x) \cap BoundIn(sigma) = {} PROVE upsilon[x] = 0
    <2>1. ASSUME NEW y \in SameKind(x) PROVE tau[y] = 0
        <3>1. y \in Names /\ SameKind(y) = SameKind(x)
            BY KindFacts
        <3> QED
            BY <1>2, <3>1 DEF Extends
    <2>2. SameKind(x) \cap BoundIn(tau) = {}
        BY <2>1 DEF BoundIn
    <2> QED
        BY <2>2 DEF Extends
<1> QED
    BY <1>1, <1>2

(* A statement, evaluated for a further instance of what binds x.          *)
LEMMA ExtendsAgain ==
    ASSUME NEW B, NEW x \in Names, NEW tree, NEW n \in 1..Len(tree),
           NEW sigma \in Scopes(tree), NEW tau \in Scopes(tree), NEW upsilon,
           Extends(B, {x}, sigma, tau), Extends(B, {}, With(tau, x, n), upsilon)
    PROVE  Extends(B, {x}, sigma, upsilon)
<1> DEFINE rho == With(tau, x, n)
<1>0. rho[x] = n /\ n # 0 /\ \A y \in Names : y # x => rho[y] = tau[y]
    BY DEF With, Scopes
<1>e. Extends(B, {}, rho, upsilon)
    OBVIOUS
<1> HIDE DEF rho
<1> SUFFICES ASSUME NEW y \in Names
             PROVE  /\ y \notin B \cup {x} => upsilon[y] = sigma[y]
                    /\ sigma[y] # 0 => upsilon[y] # 0
                    /\ SameKind(y) \cap BoundIn(sigma) = {} /\ SameKind(y) \cap {x} = {}
                       => upsilon[y] = 0
    BY DEF Extends
<1>1. /\ y \notin B \cup {x} => tau[y] = sigma[y]
      /\ sigma[y] # 0 => tau[y] # 0
    BY DEF Extends
<1>2. /\ y \notin B => upsilon[y] = rho[y]
      /\ rho[y] # 0 => upsilon[y] # 0
    BY <1>e DEF Extends
<1>3. ASSUME SameKind(y) \cap BoundIn(sigma) = {}, x \notin SameKind(y)
      PROVE  upsilon[y] = 0
    <2>1. ASSUME NEW z \in SameKind(y) PROVE rho[z] = 0
        <3>1. z \in Names /\ SameKind(z) = SameKind(y) /\ z # x
            BY <1>3, KindFacts
        <3>2. tau[z] = 0
            BY <1>3, <3>1 DEF Extends
        <3> QED
            BY <1>0, <3>1, <3>2
    <2>2. SameKind(y) \cap BoundIn(rho) = {}
        BY <2>1 DEF BoundIn
    <2> QED
        BY <1>e, <2>2 DEF Extends
<1> QED
    BY <1>0, <1>1, <1>2, <1>3

(* What is left of that once the quantifier is done.                       *)
LEMMA ExtendsAfter ==
    ASSUME NEW B, NEW x \in Names, NEW sigma, NEW tau,
           Extends(B, {x}, sigma, tau)
    PROVE  Extends(B \cup {x}, {}, sigma,
                   [y \in Names |-> IF SameKind(y) \cap BoundIn(sigma) = {} THEN 0
                                    ELSE tau[y]])
<1> DEFINE upsilon == [y \in Names |-> IF SameKind(y) \cap BoundIn(sigma) = {} THEN 0
                                       ELSE tau[y]]
<1> SUFFICES ASSUME NEW y \in Names
             PROVE  /\ y \notin B \cup {x} => upsilon[y] = sigma[y]
                    /\ sigma[y] # 0 => upsilon[y] # 0
                    /\ SameKind(y) \cap BoundIn(sigma) = {} => upsilon[y] = 0
    BY DEF Extends
<1>1. /\ y \notin B \cup {x} => tau[y] = sigma[y]
      /\ sigma[y] # 0 => tau[y] # 0
    BY DEF Extends
<1>2. upsilon[y] = IF SameKind(y) \cap BoundIn(sigma) = {} THEN 0 ELSE tau[y]
    OBVIOUS
<1>3. sigma[y] # 0 => SameKind(y) \cap BoundIn(sigma) # {}
    BY KindFacts DEF BoundIn
<1> HIDE DEF upsilon
<1> QED
    BY <1>1, <1>2, <1>3

(* In scopes that agree on them, names have the same values.               *)
Agree(tree, N, sigma, tau) ==
    \A x \in Names \cap N :
        /\ sigma[x] = 0 <=> tau[x] = 0
        /\ sigma[x] # 0 => tree[sigma[x]] = tree[tau[x]]

LEMMA SameValues ==
    ASSUME NEW tree, NEW sigma \in Scopes(tree), NEW tau \in Scopes(tree),
           Values(sigma, tree) = Values(tau, tree), NEW N
    PROVE  Agree(tree, N, sigma, tau) /\ BoundIn(sigma) = BoundIn(tau)
<1>1. \A x \in Names : sigma[x] # 0 => <<x, tree[sigma[x]]>> \in Values(sigma, tree)
    BY DEF Values, BoundIn
<1>2. \A x \in Names : tau[x] # 0 => <<x, tree[tau[x]]>> \in Values(tau, tree)
    BY DEF Values, BoundIn
<1>3. \A x, v : <<x, v>> \in Values(tau, tree) => x \in Names /\ tau[x] # 0 /\ v = tree[tau[x]]
    BY DEF Values, BoundIn
<1>4. \A x, v : <<x, v>> \in Values(sigma, tree) => x \in Names /\ sigma[x] # 0
    BY DEF Values, BoundIn
<1>5. \A x \in Names : (sigma[x] = 0 <=> tau[x] = 0)
    BY <1>1, <1>2, <1>3, <1>4
<1>6. \A x \in Names : sigma[x] # 0 => tree[sigma[x]] = tree[tau[x]]
    BY <1>1, <1>3
<1> QED
    BY <1>5, <1>6 DEF Agree, BoundIn

LEMMA AgreeBinding ==
    ASSUME NEW tree, NEW sigma \in Scopes(tree), NEW tau \in Scopes(tree),
           NEW x \in Names, NEW m \in 1..Len(tree), NEW n \in 1..Len(tree),
           tree[m] = tree[n], NEW N, NEW M, M \ {x} \subseteq N,
           Agree(tree, N, sigma, tau)
    PROVE  /\ With(sigma, x, m) \in Scopes(tree)
           /\ With(tau, x, n) \in Scopes(tree)
           /\ Agree(tree, M, With(sigma, x, m), With(tau, x, n))
<1>1. With(sigma, x, m) \in Scopes(tree) /\ With(tau, x, n) \in Scopes(tree)
    BY DEF With, Scopes
<1>2. ASSUME NEW y \in Names \cap M
      PROVE  /\ With(sigma, x, m)[y] = 0 <=> With(tau, x, n)[y] = 0
             /\ With(sigma, x, m)[y] # 0
                => tree[With(sigma, x, m)[y]] = tree[With(tau, x, n)[y]]
    <2>1. CASE y = x
        BY <2>1 DEF With, Scopes
    <2>2. CASE y # x
        <3>1. With(sigma, x, m)[y] = sigma[y] /\ With(tau, x, n)[y] = tau[y]
            BY <2>2 DEF With, Scopes
        <3> QED
            BY <2>2, <3>1 DEF Agree
    <2> QED
        BY <2>1, <2>2
<1> QED
    BY <1>1, <1>2 DEF Agree

-----------------------------------------------------------------------------
(* What objects mean.                                                      *)

LEMMA ObjectFacts ==
    ASSUME NEW os, Ordered(os), NEW i \in DOMAIN os
    PROVE  LET c == os[i]
           IN /\ c.kind \in Atomic \cup Connective \cup Quantifier
              /\ c.kind \in Atomic =>
                    c.op \in Operators /\ c.left \in Operands /\ c.right \in Operands
              /\ c.kind \in {"conjunction", "disjunction"} =>
                    c.lazy \in BOOLEAN /\ Len(c.parts) >= 1
              /\ c.kind = "implication" => Len(c.parts) = 2
              /\ c.kind \in Quantifier =>
                    /\ c.lazy \in BOOLEAN /\ c.bound \in Names /\ c.search \in Symbols
                    /\ Len(c.parts) = 1
<1> DEFINE c == os[i]
<1>1. IsObject(c)
    BY DEF Ordered, AreObjects
<1> HIDE DEF c
<1>2. CASE c \in [kind : Atomic, op : Operators, left : Operands,
                  right : Operands, parts : {<<>>}]
    BY <1>2 DEF c, Atomic, Connective, Quantifier
<1>3. CASE c \in [kind : {"conjunction", "disjunction"}, lazy : BOOLEAN, parts : Seq(Nat)]
           /\ c.parts # <<>>
    BY <1>3 DEF c, Atomic, Connective, Quantifier
<1>4. CASE c \in [kind : {"implication"}, parts : Seq(Nat)] /\ Len(c.parts) = 2
    BY <1>4 DEF c, Atomic, Connective, Quantifier
<1>5. CASE c \in [kind : Quantifier, lazy : BOOLEAN, bound : Names, search : Symbols,
                  parts : Seq(Nat)]
           /\ Len(c.parts) = 1
    BY <1>5 DEF c, Atomic, Connective, Quantifier
<1> QED
    BY <1>1, <1>2, <1>3, <1>4, <1>5 DEF IsObject

LEMMA HoldsByKind ==
    ASSUME NEW os, Ordered(os), NEW tree, NEW i \in DOMAIN os,
           NEW sigma \in Scopes(tree)
    PROVE  LET c == os[i]
               H == Holds(os, tree)
               holds == H[i][sigma]
           IN /\ holds \in BOOLEAN
              /\ c.kind = "comparison" =>
                    (holds <=> Having(c, "false", tree, sigma) = {})
              /\ c.kind = "expression" =>
                    (holds <=> Combinations(c, tree, sigma) = Having(c, "true", tree, sigma))
              /\ c.kind = "conjunction" =>
                    (holds <=> \A k \in 1..Len(c.parts) : H[c.parts[k]][sigma])
              /\ c.kind = "disjunction" =>
                    (holds <=> \E k \in 1..Len(c.parts) : H[c.parts[k]][sigma])
              /\ c.kind = "implication" =>
                    (holds <=> (H[c.parts[1]][sigma] => H[c.parts[2]][sigma]))
              /\ c.kind = "exists" =>
                    (holds <=> \E n \in ItemsOf(Find(c.search, tree, sigma)) :
                                  H[c.parts[1]][With(sigma, c.bound, n)])
              /\ c.kind = "forall" =>
                    (holds <=> \A n \in ItemsOf(Find(c.search, tree, sigma)) :
                                  H[c.parts[1]][With(sigma, c.bound, n)])
<1> DEFINE c == os[i]
           H == Holds(os, tree)
           parts == PartsOf(H, os, i)
<1>1. H[i] = Meaning(c, tree, parts)
    BY HoldsUnfolds
<1>2. /\ DOMAIN parts = 1..Len(c.parts)
      /\ \A k \in 1..Len(c.parts) : parts[k] = H[c.parts[k]]
    BY DEF PartsOf
<1>3. /\ c.kind \in Atomic \cup Connective \cup Quantifier
      /\ c.kind = "implication" => Len(c.parts) = 2
      /\ c.kind \in Quantifier => Len(c.parts) = 1
    BY ObjectFacts
<1> HIDE DEF c, H, parts
<1>k. c.kind \in {"comparison", "expression", "conjunction", "disjunction", "implication",
                  "exists", "forall"}
    BY <1>3 DEF Atomic, Connective, Quantifier
<1>4. CASE c.kind = "comparison"
    <2>1. H[i][sigma] = (Having(c, "false", tree, sigma) = {})
        BY <1>1, <1>4 DEF Meaning
    <2> QED
        BY <2>1, <1>4 DEF c, H
<1>5. CASE c.kind = "expression"
    <2>1. H[i][sigma] = (Combinations(c, tree, sigma) = Having(c, "true", tree, sigma))
        BY <1>1, <1>5 DEF Meaning
    <2> QED
        BY <2>1, <1>5 DEF c, H
<1>6. CASE c.kind = "conjunction"
    <2>1. H[i][sigma] = \A k \in DOMAIN parts : parts[k][sigma]
        BY <1>1, <1>6 DEF Meaning
    <2>2. H[i][sigma] = \A k \in 1..Len(c.parts) : H[c.parts[k]][sigma]
        BY <2>1, <1>2
    <2> QED
        BY <2>2, <1>6 DEF c, H
<1>7. CASE c.kind = "disjunction"
    <2>1. H[i][sigma] = \E k \in DOMAIN parts : parts[k][sigma]
        BY <1>1, <1>7 DEF Meaning
    <2>2. H[i][sigma] = \E k \in 1..Len(c.parts) : H[c.parts[k]][sigma]
        BY <2>1, <1>2
    <2> QED
        BY <2>2, <1>7 DEF c, H
<1>8. CASE c.kind = "implication"
    <2>1. H[i][sigma] = (parts[1][sigma] => parts[2][sigma])
        BY <1>1, <1>8 DEF Meaning
    <2>2. parts[1] = H[c.parts[1]] /\ parts[2] = H[c.parts[2]]
        BY <1>2, <1>3, <1>8
    <2> QED
        BY <2>1, <2>2, <1>8 DEF c, H
<1>9. CASE c.kind = "exists"
    <2>1. H[i][sigma] = \E n \in ItemsOf(Find(c.search, tree, sigma)) :
                           parts[1][With(sigma, c.bound, n)]
        BY <1>1, <1>9 DEF Meaning
    <2>2. parts[1] = H[c.parts[1]]
        BY <1>2, <1>3, <1>9 DEF Quantifier
    <2>3. H[i][sigma] = \E n \in ItemsOf(Find(c.search, tree, sigma)) :
                           H[c.parts[1]][With(sigma, c.bound, n)]
        BY <2>1, <2>2
    <2> QED
        BY <2>3, <1>9 DEF c, H
<1>10. CASE c.kind = "forall"
    <2>1. H[i][sigma] = \A n \in ItemsOf(Find(c.search, tree, sigma)) :
                           parts[1][With(sigma, c.bound, n)]
        BY <1>1, <1>10 DEF Meaning
    <2>2. parts[1] = H[c.parts[1]]
        BY <1>2, <1>3, <1>10 DEF Quantifier
    <2>3. H[i][sigma] = \A n \in ItemsOf(Find(c.search, tree, sigma)) :
                           H[c.parts[1]][With(sigma, c.bound, n)]
        BY <2>1, <2>2
    <2> QED
        BY <2>3, <1>10 DEF c, H
<1> QED
    BY <1>k, <1>4, <1>5, <1>6, <1>7, <1>8, <1>9, <1>10

(* An expression has the same results in scopes that agree on its names.   *)
LEMMA OperandAgrees ==
    ASSUME NEW o \in Operands, NEW tree, NEW N,
           NEW sigma \in Scopes(tree), NEW tau \in Scopes(tree),
           Agree(tree, N, sigma, tau),
           o.kind \in {"search", "local"} => o.of \in N,
           NEW n \in Found(o, tree, sigma)
    PROVE  \E m \in Found(o, tree, tau) : Value(o, n, tree, sigma) = Value(o, m, tree, tau)
<1>1. CASE o.kind = "search"
    <2>1. o.of \in Names \cap N
        BY <1>1 DEF Operands, Names
    <2>2. CASE sigma[o.of] # 0
        <3>1. tau[o.of] # 0 /\ tree[sigma[o.of]] = tree[tau[o.of]]
            BY <2>1, <2>2 DEF Agree
        <3>2. n = sigma[o.of] /\ tau[o.of] \in Found(o, tree, tau)
            BY <1>1, <2>2, <3>1 DEF Found, Find, ItemsOf
        <3> QED
            BY <1>1, <3>1, <3>2 DEF Value
    <2>3. CASE sigma[o.of] = 0
        <3>1. tau[o.of] = 0
            BY <2>1, <2>3 DEF Agree
        <3>2. n \in Found(o, tree, tau)
            BY <1>1, <2>3, <3>1 DEF Found, Find, ItemsOf
        <3> QED
            BY <1>1, <3>2 DEF Value
    <2> QED
        BY <2>2, <2>3
<1>2. CASE o.kind = "local"
    <2>1. o.of \in Names \cap N
        BY <1>2 DEF Operands, Names
    <2>2. n \in Found(o, tree, tau)
        BY <1>2 DEF Found
    <2>3. Value(o, n, tree, sigma) = Value(o, n, tree, tau)
        BY <1>2, <2>1 DEF Value, Agree
    <2> QED
        BY <2>2, <2>3
<1>3. CASE o.kind = "literal"
    BY <1>3 DEF Found, Value
<1> QED
    BY <1>1, <1>2, <1>3 DEF Operands

LEMMA EvalAgrees ==
    ASSUME NEW c, c.left \in Operands, c.right \in Operands, NEW tree,
           NEW sigma \in Scopes(tree), NEW tau \in Scopes(tree),
           Agree(tree, SearchedIn(c) \cup UsedIn(c), sigma, tau),
           NEW n \in Combinations(c, tree, sigma)
    PROVE  \E m \in Combinations(c, tree, tau) : Eval(c, n, tree, sigma) = Eval(c, m, tree, tau)
<1> DEFINE N == SearchedIn(c) \cup UsedIn(c)
<1>1. /\ c.left.kind \in {"search", "local"} => c.left.of \in N
      /\ c.right.kind \in {"search", "local"} => c.right.of \in N
    BY DEF SearchedIn, UsedIn
<1>2. n[1] \in Found(c.left, tree, sigma) /\ n[2] \in Found(c.right, tree, sigma)
    BY DEF Combinations
<1> HIDE DEF N
<1>a. Agree(tree, N, sigma, tau)
    BY DEF N
<1>3. PICK l \in Found(c.left, tree, tau) :
          Value(c.left, n[1], tree, sigma) = Value(c.left, l, tree, tau)
    BY <1>1, <1>2, <1>a, OperandAgrees
<1>4. PICK r \in Found(c.right, tree, tau) :
          Value(c.right, n[2], tree, sigma) = Value(c.right, r, tree, tau)
    <2> DEFINE o == c.right
               k == n[2]
    <2>1. o \in Operands /\ k \in Found(o, tree, sigma)
          /\ (o.kind \in {"search", "local"} => o.of \in N)
        BY <1>1, <1>2
    <2> HIDE DEF o, k
    <2>2. \E r \in Found(o, tree, tau) : Value(o, k, tree, sigma) = Value(o, r, tree, tau)
        BY <1>a, <2>1, OperandAgrees
    <2> QED
        BY <2>2 DEF o, k
<1>5. <<l, r>> \in Combinations(c, tree, tau)
    BY DEF Combinations
<1>6. Eval(c, n, tree, sigma) = Eval(c, <<l, r>>, tree, tau)
    BY <1>3, <1>4 DEF Eval
<1> QED
    BY <1>5, <1>6

LEMMA AtomicAgrees ==
    ASSUME NEW c, c.left \in Operands, c.right \in Operands, NEW tree,
           NEW sigma \in Scopes(tree), NEW tau \in Scopes(tree),
           Agree(tree, SearchedIn(c) \cup UsedIn(c), sigma, tau)
    PROVE  /\ Having(c, "false", tree, sigma) = {} => Having(c, "false", tree, tau) = {}
           /\ Combinations(c, tree, sigma) = Having(c, "true", tree, sigma)
              => Combinations(c, tree, tau) = Having(c, "true", tree, tau)
<1>1. Agree(tree, SearchedIn(c) \cup UsedIn(c), tau, sigma)
    BY DEF Agree
<1>2. \A m \in Combinations(c, tree, tau) :
         \E n \in Combinations(c, tree, sigma) : Eval(c, m, tree, tau) = Eval(c, n, tree, sigma)
    BY <1>1, EvalAgrees
<1> QED
    BY <1>2 DEF Having

LEMMA ScopingByKind ==
    ASSUME NEW os, Ordered(os), NEW i \in DOMAIN os
    PROVE  LET c == os[i]
               S == ScopingOf(os)
           IN /\ c.kind \in Atomic =>
                    /\ S[i].free = SearchedIn(c) \cup UsedIn(c)
                    /\ S[i].bound = {}
                    /\ S[i].searches => SearchedIn(c) # {}
              /\ c.kind \in Connective =>
                    \A k \in 1..Len(c.parts) :
                       /\ S[c.parts[k]].free \subseteq S[i].free
                       /\ S[c.parts[k]].bound \subseteq S[i].bound
                       /\ S[i].searches => S[c.parts[k]].searches
                       /\ S[i].apart => S[c.parts[k]].apart
              /\ c.kind \in Quantifier =>
                    /\ S[i].free = {c.search} \cup (S[c.parts[1]].free \ {c.bound})
                    /\ S[i].bound = S[c.parts[1]].bound \cup {c.bound}
                    /\ S[i].searches => S[c.parts[1]].searches
                    /\ S[i].apart => /\ S[c.parts[1]].apart
                                     /\ S[c.parts[1]].bound \cap S[c.parts[1]].free = {}
<1> DEFINE c == os[i]
           S == ScopingOf(os)
           parts == PartsOf(S, os, i)
<1>1. S[i] = Scoping(c, parts)
    BY ScopingUnfolds
<1>2. /\ DOMAIN parts = 1..Len(c.parts)
      /\ \A k \in 1..Len(c.parts) : parts[k] = S[c.parts[k]]
    BY DEF PartsOf
<1>3. c.kind \in Quantifier => Len(c.parts) = 1
    BY ObjectFacts
<1> HIDE DEF c, S, parts
<1>4. CASE c.kind \in Atomic
    <2>1. c.kind \notin Connective \cup Quantifier
        BY <1>4 DEF Atomic, Connective, Quantifier
    <2>2. S[i] = [free |-> SearchedIn(c) \cup UsedIn(c), open |-> SearchedIn(c), bound |-> {},
                  searches |-> SearchedIn(c) # {}, apart |-> TRUE]
        BY <1>1, <1>4, <2>1 DEF Scoping
    <2>3. /\ S[i].free = SearchedIn(c) \cup UsedIn(c)
          /\ S[i].bound = {}
          /\ S[i].searches = (SearchedIn(c) # {})
        BY <2>2
    <2> QED
        BY <2>1, <2>3 DEF c, S
<1>5. CASE c.kind \in Connective
    <2>1. c.kind \notin Atomic \cup Quantifier
        BY <1>5 DEF Atomic, Connective, Quantifier
    <2>2. S[i] = [free |-> UNION {parts[k].free : k \in DOMAIN parts},
                  open |-> UNION {parts[k].open : k \in DOMAIN parts},
                  bound |-> UNION {parts[k].bound : k \in DOMAIN parts},
                  searches |-> \A k \in DOMAIN parts : parts[k].searches,
                  apart |-> \A k \in DOMAIN parts : parts[k].apart]
        BY <1>1, <1>5, <2>1 DEF Scoping
    <2>3. ASSUME NEW k \in 1..Len(c.parts)
          PROVE  /\ parts[k].free \subseteq S[i].free
                 /\ parts[k].bound \subseteq S[i].bound
                 /\ S[i].searches => parts[k].searches
                 /\ S[i].apart => parts[k].apart
        <3>1. k \in DOMAIN parts
            BY <1>2
        <3>2. /\ S[i].free = UNION {parts[j].free : j \in DOMAIN parts}
              /\ S[i].bound = UNION {parts[j].bound : j \in DOMAIN parts}
              /\ S[i].searches = \A j \in DOMAIN parts : parts[j].searches
              /\ S[i].apart = \A j \in DOMAIN parts : parts[j].apart
            BY <2>2
        <3> QED
            BY <3>1, <3>2
    <2> QED
        BY <1>2, <2>1, <2>3 DEF c, S
<1>6. CASE c.kind \in Quantifier
    <2>1. c.kind \notin Atomic \cup Connective
        BY <1>6 DEF Atomic, Connective, Quantifier
    <2>2. S[i] = [free |-> {c.search} \cup (parts[1].free \ {c.bound}),
                  open |-> parts[1].open \ {c.bound},
                  bound |-> parts[1].bound \cup {c.bound},
                  searches |-> parts[1].searches,
                  apart |-> parts[1].apart /\ parts[1].bound \cap parts[1].free = {}]
        BY <1>1, <1>6, <2>1 DEF Scoping
    <2>3. parts[1] = S[c.parts[1]]
        BY <1>2, <1>3, <1>6
    <2>4. /\ S[i].free = {c.search} \cup (parts[1].free \ {c.bound})
          /\ S[i].bound = parts[1].bound \cup {c.bound}
          /\ S[i].searches = parts[1].searches
          /\ S[i].apart = (parts[1].apart /\ parts[1].bound \cap parts[1].free = {})
        BY <2>2
    <2> QED
        BY <2>1, <2>3, <2>4 DEF c, S
<1> QED
    BY <1>4, <1>5, <1>6 DEF c, S

(* What an object says depends on what is bound to its free names only.    *)
Stable(os, i, tree) ==
    \A sigma, tau \in Scopes(tree) :
        Agree(tree, ScopingOf(os)[i].free, sigma, tau)
        => (Holds(os, tree)[i][sigma] <=> Holds(os, tree)[i][tau])

LEMMA FoundAlike ==
    ASSUME NEW tree, Len(tree) \in Nat, NEW sigma \in Scopes(tree), NEW tau \in Scopes(tree),
           NEW N, Agree(tree, N, sigma, tau), NEW s \in Symbols, s \in N,
           NEW m \in ItemsOf(Find(s, tree, sigma))
    PROVE  /\ m \in 1..Len(tree)
           /\ \E n \in ItemsOf(Find(s, tree, tau)) : n \in 1..Len(tree) /\ tree[m] = tree[n]
<1>1. s \in Names \cap N
    BY DEF Names
<1>2. CASE sigma[s] # 0
    <2>1. tau[s] # 0 /\ tree[sigma[s]] = tree[tau[s]]
        BY <1>1, <1>2 DEF Agree
    <2>2. m = sigma[s] /\ tau[s] \in ItemsOf(Find(s, tree, tau))
        BY <1>2, <2>1 DEF Find, ItemsOf
    <2>3. sigma[s] \in 0..Len(tree) /\ tau[s] \in 0..Len(tree)
        BY <1>1 DEF Scopes
    <2>4. sigma[s] \in 1..Len(tree) /\ tau[s] \in 1..Len(tree)
        BY <1>2, <2>1, <2>3
    <2> QED
        BY <2>1, <2>2, <2>4
<1>3. CASE sigma[s] = 0
    <2>1. tau[s] = 0
        BY <1>1, <1>3 DEF Agree
    <2>2. m \in 1..Len(tree) /\ m \in ItemsOf(Find(s, tree, tau))
        BY <1>3, <2>1 DEF Find, ItemsOf
    <2> QED
        BY <2>2
<1> QED
    BY <1>2, <1>3

LEMMA StableStep ==
    ASSUME NEW os, Ordered(os), NEW i \in DOMAIN os, NEW tree, Len(tree) \in Nat,
           \A k \in 1..Len(os[i].parts) : Stable(os, os[i].parts[k], tree)
    PROVE  Stable(os, i, tree)
<1> DEFINE c == os[i]
           H == Holds(os, tree)
           S == ScopingOf(os)
<1> SUFFICES ASSUME NEW sigma \in Scopes(tree), NEW tau \in Scopes(tree),
                    Agree(tree, S[i].free, sigma, tau)
             PROVE  H[i][sigma] <=> H[i][tau]
    BY DEF Stable
<1>1. Agree(tree, S[i].free, tau, sigma)
    BY DEF Agree
<1>2. \A j \in 1..Len(c.parts), rho, upsilon \in Scopes(tree) :
         Agree(tree, S[c.parts[j]].free, rho, upsilon)
         => (H[c.parts[j]][rho] <=> H[c.parts[j]][upsilon])
    BY DEF Stable
<1>3. CASE c.kind \in Atomic
    <2>1. Agree(tree, SearchedIn(c) \cup UsedIn(c), sigma, tau)
        BY <1>3, ScopingByKind
    <2>2. Agree(tree, SearchedIn(c) \cup UsedIn(c), tau, sigma)
        BY <2>1 DEF Agree
    <2>3. c.left \in Operands /\ c.right \in Operands
        BY <1>3, ObjectFacts
    <2>4. /\ Having(c, "false", tree, sigma) = {} <=> Having(c, "false", tree, tau) = {}
          /\ Combinations(c, tree, sigma) = Having(c, "true", tree, sigma)
             <=> Combinations(c, tree, tau) = Having(c, "true", tree, tau)
        <3> HIDE DEF c
        <3> QED
            BY <2>1, <2>2, <2>3, AtomicAgrees
    <2> QED
        BY <1>3, <2>4, HoldsByKind DEF Atomic
<1>4. CASE c.kind \in Connective
    <2>1. ASSUME NEW k \in 1..Len(c.parts)
          PROVE  H[c.parts[k]][sigma] <=> H[c.parts[k]][tau]
        <3>1. S[c.parts[k]].free \subseteq S[i].free
            BY <1>4, ScopingByKind
        <3>2. Agree(tree, S[c.parts[k]].free, sigma, tau)
            BY <3>1 DEF Agree
        <3> QED
            BY <1>2, <3>2
    <2>2. /\ c.kind = "conjunction" =>
                /\ H[i][sigma] <=> \A k \in 1..Len(c.parts) : H[c.parts[k]][sigma]
                /\ H[i][tau] <=> \A k \in 1..Len(c.parts) : H[c.parts[k]][tau]
          /\ c.kind = "disjunction" =>
                /\ H[i][sigma] <=> \E k \in 1..Len(c.parts) : H[c.parts[k]][sigma]
                /\ H[i][tau] <=> \E k \in 1..Len(c.parts) : H[c.parts[k]][tau]
          /\ c.kind = "implication" =>
                /\ H[i][sigma] <=> (H[c.parts[1]][sigma] => H[c.parts[2]][sigma])
                /\ H[i][tau] <=> (H[c.parts[1]][tau] => H[c.parts[2]][tau])
        BY HoldsByKind
    <2>3. c.kind = "implication" => 1 \in 1..Len(c.parts) /\ 2 \in 1..Len(c.parts)
        BY ObjectFacts
    <2> HIDE DEF c, H
    <2> QED
        BY <1>4, <2>1, <2>2, <2>3 DEF Connective
<1>5. CASE c.kind \in Quantifier
    <2> DEFINE p == c.parts[1]
               x == c.bound
    <2>0. Len(c.parts) = 1
        BY <1>5, ObjectFacts
    <2>1. x \in Names /\ c.search \in Symbols /\ 1 \in 1..Len(c.parts)
        BY <1>5, <2>0, ObjectFacts
    <2>2. S[i].free = {c.search} \cup (S[p].free \ {x})
        BY <1>5, ScopingByKind
    <2>3. /\ c.kind = "exists" =>
                /\ H[i][sigma] <=> \E n \in ItemsOf(Find(c.search, tree, sigma)) :
                                      H[p][With(sigma, x, n)]
                /\ H[i][tau] <=> \E n \in ItemsOf(Find(c.search, tree, tau)) :
                                      H[p][With(tau, x, n)]
          /\ c.kind = "forall" =>
                /\ H[i][sigma] <=> \A n \in ItemsOf(Find(c.search, tree, sigma)) :
                                      H[p][With(sigma, x, n)]
                /\ H[i][tau] <=> \A n \in ItemsOf(Find(c.search, tree, tau)) :
                                      H[p][With(tau, x, n)]
        BY HoldsByKind
    <2>a. \A rho, upsilon \in Scopes(tree) :
             Agree(tree, S[p].free, rho, upsilon) => (H[p][rho] <=> H[p][upsilon])
        BY <1>2, <2>1
    <2>s. Agree(tree, S[i].free, sigma, tau)
        OBVIOUS
    <2> HIDE DEF c, H, S, p, x
    <2>4. ASSUME NEW m \in ItemsOf(Find(c.search, tree, sigma))
          PROVE  \E n \in ItemsOf(Find(c.search, tree, tau)) :
                    H[p][With(sigma, x, m)] <=> H[p][With(tau, x, n)]
        <3>1. c.search \in S[i].free
            BY <2>2
        <3>2. m \in 1..Len(tree)
              /\ \E n \in ItemsOf(Find(c.search, tree, tau)) : n \in 1..Len(tree) /\ tree[m] = tree[n]
            BY <2>1, <2>s, <3>1, FoundAlike
        <3>3. PICK n \in ItemsOf(Find(c.search, tree, tau)) : n \in 1..Len(tree) /\ tree[m] = tree[n]
            BY <3>2
        <3>4. S[p].free \ {x} \subseteq S[i].free
            BY <2>2
        <3>5. /\ With(sigma, x, m) \in Scopes(tree)
              /\ With(tau, x, n) \in Scopes(tree)
              /\ Agree(tree, S[p].free, With(sigma, x, m), With(tau, x, n))
            BY <2>1, <2>s, <3>2, <3>3, <3>4, AgreeBinding
        <3> QED
            BY <2>a, <3>3, <3>5
    <2>5. ASSUME NEW m \in ItemsOf(Find(c.search, tree, tau))
          PROVE  \E n \in ItemsOf(Find(c.search, tree, sigma)) :
                    H[p][With(tau, x, m)] <=> H[p][With(sigma, x, n)]
        <3>1. c.search \in S[i].free
            BY <2>2
        <3>2. m \in 1..Len(tree)
              /\ \E n \in ItemsOf(Find(c.search, tree, sigma)) : n \in 1..Len(tree) /\ tree[m] = tree[n]
            BY <1>1, <2>1, <3>1, FoundAlike
        <3>3. PICK n \in ItemsOf(Find(c.search, tree, sigma)) : n \in 1..Len(tree) /\ tree[m] = tree[n]
            BY <3>2
        <3>4. S[p].free \ {x} \subseteq S[i].free
            BY <2>2
        <3>5. /\ With(tau, x, m) \in Scopes(tree)
              /\ With(sigma, x, n) \in Scopes(tree)
              /\ Agree(tree, S[p].free, With(tau, x, m), With(sigma, x, n))
            BY <1>1, <2>1, <3>2, <3>3, <3>4, AgreeBinding
        <3> QED
            BY <2>a, <3>3, <3>5
    <2> QED
        BY <1>5, <2>3, <2>4, <2>5 DEF Quantifier
<1>6. c.kind \in Atomic \cup Connective \cup Quantifier
    BY ObjectFacts
<1> QED
    BY <1>3, <1>4, <1>5, <1>6

LEMMA AllStable ==
    ASSUME NEW os, Ordered(os), NEW tree, Len(tree) \in Nat
    PROVE  \A i \in DOMAIN os : Stable(os, i, tree)
<1> DEFINE n == Len(os)
           T == {m \in 0..n : \A i \in 1..m : Stable(os, i, tree)}
<1>1. n \in Nat /\ DOMAIN os = 1..n
    BY DEF Ordered
<1>2. 0 \in T
    BY <1>1
<1>3. ASSUME NEW m \in 0..n, m \in T, m < n PROVE m + 1 \in T
    <2>1. m + 1 \in DOMAIN os /\ m \in Nat
        BY <1>1, <1>3
    <2>2. \A k \in 1..Len(os[m + 1].parts) : os[m + 1].parts[k] \in 1..m
        <3>1. \A k \in 1..Len(os[m + 1].parts) : os[m + 1].parts[k] \in 1..(m + 1 - 1)
            BY <2>1, PartsComeBefore
        <3> QED
            BY <2>1, <3>1
    <2>3. Stable(os, m + 1, tree)
        BY <1>3, <2>1, <2>2, StableStep
    <2>4. \A i \in 1..(m + 1) : i \in 1..m \/ i = m + 1
        BY <2>1
    <2> QED
        BY <1>1, <1>3, <2>1, <2>3, <2>4
<1>4. \A m \in 0..n : m \in T /\ m < n => m + 1 \in T
    <2> HIDE DEF T
    <2> QED
        BY <1>3
<1>5. n \in T
    <2> HIDE DEF T, n
    <2>1. \A m \in 0..n : m \in T
        BY <1>1, <1>2, <1>4, Induction
    <2> QED
        BY <1>1, <2>1
<1> QED
    BY <1>1, <1>5

-----------------------------------------------------------------------------
(* The fitness of an object is right.                                      *)

(* No name has a meaning of its own in a part of the object and another    *)
(* outside of it: what its statements have bound says nothing to others.   *)
Clean(os, i, sigma) ==
    /\ ScopingOf(os)[i].apart
    /\ \A x \in Names \cap ScopingOf(os)[i].bound \cap ScopingOf(os)[i].free :
          SameKind(x) \cap BoundIn(sigma) = {}

(* Each expression of the object can be evaluated.                         *)
Evaluates(os, i, tree, sigma) ==
    /\ Bad \notin ItemsOf(tree)
    /\ \A x \in ScopingOf(os)[i].free \cap Locals : sigma[x] # 0

(* If the object means this, the fitness is right.                         *)
RightFor(os, i, tree, sigma, fit, means) ==
    /\ fit \in Fits
    /\ WellCounted(fit)
    /\ Clean(os, i, sigma) => (fit.success <=> means)
    /\ Evaluates(os, i, tree, sigma) => NonEmpty(fit)
    /\ Evaluates(os, i, tree, sigma) /\ ScopingOf(os)[i].searches /\ tree # <<>>
          /\ ~fit.success
       => fit.failing # {}

Right(os, i, tree, sigma, fit) ==
    RightFor(os, i, tree, sigma, fit, Holds(os, tree)[i][sigma])

(* That of a comparison, or an expression, is.                             *)
LEMMA FoundFacts ==
    ASSUME NEW o \in Operands, NEW tree \in Seq(Data), NEW sigma \in Scopes(tree)
    PROVE  /\ Found(o, tree, sigma) \subseteq 0..Len(tree)
           /\ o.kind = "search" => 0 \notin Found(o, tree, sigma)
           /\ tree # <<>> \/ o.kind # "search" => Found(o, tree, sigma) # {}
<1>1. Len(tree) \in Nat /\ (tree # <<>> => Len(tree) >= 1)
    OBVIOUS
<1>2. CASE o.kind = "search"
    <2>1. o.of \in Names
        BY <1>2 DEF Operands, Names
    <2>2. CASE sigma[o.of] # 0
        <3>1. Found(o, tree, sigma) = {sigma[o.of]}
            BY <1>2, <2>2 DEF Found, Find, ItemsOf
        <3>2. sigma[o.of] \in 0..Len(tree)
            BY <2>1 DEF Scopes
        <3> QED
            BY <1>2, <2>2, <3>1, <3>2
    <2>3. CASE sigma[o.of] = 0
        <3>1. Found(o, tree, sigma) = 1..Len(tree)
            BY <1>2, <2>3 DEF Found, Find, ItemsOf
        <3> QED
            BY <1>1, <1>2, <3>1
    <2> QED
        BY <2>2, <2>3
<1>3. CASE o.kind # "search"
    BY <1>1, <1>3 DEF Found
<1> QED
    BY <1>2, <1>3

LEMMA CombinationsFacts ==
    ASSUME NEW c, c.left \in Operands, c.right \in Operands,
           NEW tree \in Seq(Data), NEW sigma \in Scopes(tree)
    PROVE  /\ IsFiniteSet(Combinations(c, tree, sigma))
           /\ \A n \in Combinations(c, tree, sigma) :
                 /\ n[1] \in Nat /\ n[2] \in Nat
                 /\ SearchedIn(c) # {} => n[1] # 0 \/ n[2] # 0
<1> DEFINE left == Found(c.left, tree, sigma)
           right == Found(c.right, tree, sigma)
<1>1. /\ left \subseteq 0..Len(tree)
      /\ c.left.kind = "search" => 0 \notin left
    BY FoundFacts
<1>2. /\ right \subseteq 0..Len(tree)
      /\ c.right.kind = "search" => 0 \notin right
    BY FoundFacts
<1>3. Combinations(c, tree, sigma) = left \X right
    BY DEF Combinations
<1>4. SearchedIn(c) # {} => c.left.kind = "search" \/ c.right.kind = "search"
    BY DEF SearchedIn
<1> HIDE DEF left, right
<1>5. IsFiniteSet(0..Len(tree))
    BY FS_Interval
<1>6. IsFiniteSet(left) /\ IsFiniteSet(right)
    BY <1>1, <1>2, <1>5, FS_Subset
<1>7. IsFiniteSet(left \X right)
    BY <1>6, FS_Product
<1>8. ASSUME NEW n \in left \X right
      PROVE  n[1] \in left /\ n[2] \in right /\ n[1] \in Nat /\ n[2] \in Nat
    <2>1. n[1] \in left /\ n[2] \in right
        OBVIOUS
    <2>2. \A m \in left : m \in Nat
        BY <1>1
    <2>3. \A m \in right : m \in Nat
        BY <1>2
    <2> QED
        BY <2>1, <2>2, <2>3
<1> QED
    BY <1>1, <1>2, <1>3, <1>4, <1>7, <1>8

LEMMA HavingFacts ==
    ASSUME NEW c, c.left \in Operands, c.right \in Operands,
           NEW tree \in Seq(Data), NEW sigma \in Scopes(tree)
    PROVE  LET all == Combinations(c, tree, sigma)
               true == Having(c, "true", tree, sigma)
               false == Having(c, "false", tree, sigma)
           IN /\ Count(all) \in Nat /\ Count(true) \in Nat /\ Count(false) \in Nat
              /\ Count(false) = 0 <=> false = {}
              /\ Count(true) = 0 <=> true = {}
              /\ Count(all) = 0 <=> all = {}
              /\ Count(true) <= Count(all)
              /\ Count(true) = Count(all) <=> all = true
              /\ true \subseteq all /\ false \subseteq all
              /\ Nodes(false) \in SUBSET Nat
              /\ SearchedIn(c) # {} /\ false # {} => Nodes(false) # {}
<1> DEFINE all == Combinations(c, tree, sigma)
           true == Having(c, "true", tree, sigma)
           false == Having(c, "false", tree, sigma)
<1>1. /\ IsFiniteSet(all)
      /\ \A n \in all : /\ n[1] \in Nat /\ n[2] \in Nat
                        /\ SearchedIn(c) # {} => n[1] # 0 \/ n[2] # 0
    BY CombinationsFacts
<1>2. true \in SUBSET all /\ false \in SUBSET all
    BY DEF Having
<1> HIDE DEF all, true, false
<1>3. IsFiniteSet(true) /\ Cardinality(true) <= Cardinality(all)
      /\ (Cardinality(all) = Cardinality(true) => all = true)
    BY <1>1, <1>2, FS_Subset
<1>4. IsFiniteSet(false)
    BY <1>1, <1>2, FS_Subset
<1>5. Cardinality(all) \in Nat /\ Cardinality(true) \in Nat /\ Cardinality(false) \in Nat
    BY <1>1, <1>3, <1>4, FS_CardinalityType
<1>6. /\ Cardinality(false) = 0 <=> false = {}
      /\ Cardinality(true) = 0 <=> true = {}
      /\ Cardinality(all) = 0 <=> all = {}
    BY <1>1, <1>3, <1>4, FS_EmptySet
<1>7. Nodes(false) \in SUBSET Nat
    BY <1>1, <1>2 DEF Nodes
<1>8. ASSUME SearchedIn(c) # {}, NEW n \in false PROVE Nodes(false) # {}
    <2>1. n[1] # 0 \/ n[2] # 0
        BY <1>1, <1>2, <1>8
    <2>2. n[1] \in UNION {{m[1], m[2]} : m \in false}
          /\ n[2] \in UNION {{m[1], m[2]} : m \in false}
        OBVIOUS
    <2> QED
        BY <2>1, <2>2 DEF Nodes
<1> QED
    BY <1>2, <1>3, <1>5, <1>6, <1>7, <1>8 DEF Count, all, true, false

LEMMA NothingRaises ==
    ASSUME NEW c, c.left \in Operands, c.right \in Operands,
           NEW tree \in Seq(Data), NEW sigma \in Scopes(tree),
           Bad \notin ItemsOf(tree), \A x \in UsedIn(c) : sigma[x] # 0,
           NEW n \in Combinations(c, tree, sigma)
    PROVE  Eval(c, n, tree, sigma) \in {"true", "false"}
<1>1. ASSUME NEW o \in {c.left, c.right}, NEW m \in Found(o, tree, sigma)
      PROVE  Value(o, m, tree, sigma) # Bad
    <2>1. CASE o.kind = "search"
        <3>1. m \in 0..Len(tree) /\ m # 0
            BY <2>1, FoundFacts
        <3>2. m \in DOMAIN tree
            BY <3>1
        <3>3. tree[m] # Bad
            BY <3>2 DEF ItemsOf
        <3> QED
            BY <2>1, <3>3 DEF Value
    <2>2. CASE o.kind = "local"
        <3>1. o.of \in UsedIn(c) /\ o.of \in Names
            BY <2>2 DEF UsedIn, Operands, Names
        <3>2. sigma[o.of] # 0 /\ sigma[o.of] \in 0..Len(tree)
            BY <3>1 DEF Scopes
        <3>3. sigma[o.of] \in DOMAIN tree
            BY <3>2
        <3>4. tree[sigma[o.of]] # Bad
            BY <3>3 DEF ItemsOf
        <3> QED
            BY <2>2, <3>2, <3>4 DEF Value
    <2>3. CASE o.kind = "literal"
        <3>1. o.of # Bad
            BY <2>3 DEF Operands
        <3> QED
            BY <2>3, <3>1 DEF Value
    <2> QED
        BY <2>1, <2>2, <2>3 DEF Operands
<1>2. n[1] \in Found(c.left, tree, sigma) /\ n[2] \in Found(c.right, tree, sigma)
    BY DEF Combinations
<1>3. Value(c.left, n[1], tree, sigma) # Bad /\ Value(c.right, n[2], tree, sigma) # Bad
    BY <1>1, <1>2
<1> QED
    BY <1>3 DEF Eval

LEMMA EvaluatesAtomic ==
    ASSUME NEW os, Ordered(os), NEW i \in DOMAIN os, os[i].kind \in Atomic,
           NEW tree \in Seq(Data), NEW sigma \in Scopes(tree),
           Evaluates(os, i, tree, sigma)
    PROVE  LET c == os[i]
               all == Combinations(c, tree, sigma)
           IN /\ all = Having(c, "true", tree, sigma) \cup Having(c, "false", tree, sigma)
              /\ SearchedIn(c) # {} /\ tree # <<>> => all # {}
<1> DEFINE c == os[i]
           all == Combinations(c, tree, sigma)
<1>1. c.left \in Operands /\ c.right \in Operands
    BY ObjectFacts
<1>2. ScopingOf(os)[i].free = SearchedIn(c) \cup UsedIn(c)
    BY ScopingByKind
<1>3. ASSUME NEW x \in UsedIn(c) PROVE sigma[x] # 0
    <2>1. x \in Locals
        BY <1>1 DEF UsedIn, Operands
    <2> QED
        BY <1>2, <2>1 DEF Evaluates
<1>4. Bad \notin ItemsOf(tree)
    BY DEF Evaluates
<1> HIDE DEF c
<1>5. \A n \in Combinations(c, tree, sigma) : Eval(c, n, tree, sigma) \in {"true", "false"}
    BY <1>1, <1>3, <1>4, NothingRaises
<1>6. all = Having(c, "true", tree, sigma) \cup Having(c, "false", tree, sigma)
    BY <1>5 DEF Having
<1>7. ASSUME tree # <<>> PROVE all # {}
    <2>1. Found(c.left, tree, sigma) # {} /\ Found(c.right, tree, sigma) # {}
        BY <1>1, <1>7, FoundFacts
    <2>2. PICK l \in Found(c.left, tree, sigma), r \in Found(c.right, tree, sigma) : TRUE
        BY <2>1
    <2>3. <<l, r>> \in all
        BY DEF Combinations
    <2> QED
        BY <2>3
<1> QED
    BY <1>6, <1>7 DEF c

LEMMA ComparisonRight ==
    ASSUME NEW os, Ordered(os), NEW i \in DOMAIN os, os[i].kind = "comparison",
           NEW tree \in Seq(Data), NEW sigma \in Scopes(tree)
    PROVE  Right(os, i, tree, sigma, ComparisonFitness(os[i], tree, sigma))
<1> DEFINE c == os[i]
           all == Combinations(c, tree, sigma)
           true == Having(c, "true", tree, sigma)
           false == Having(c, "false", tree, sigma)
           fit == ComparisonFitness(c, tree, sigma)
<1>1. c.left \in Operands /\ c.right \in Operands /\ c.kind \in Atomic
    BY ObjectFacts DEF Atomic
<1>2. /\ Count(true) \in Nat /\ Count(false) \in Nat
      /\ Count(false) = 0 <=> false = {}
      /\ Count(true) = 0 <=> true = {}
      /\ false \subseteq all
      /\ Nodes(false) \in SUBSET Nat
      /\ SearchedIn(c) # {} /\ false # {} => Nodes(false) # {}
    <2> HIDE DEF c
    <2> QED
        BY <1>1, HavingFacts
<1>3. Holds(os, tree)[i][sigma] <=> false = {}
    BY HoldsByKind
<1>4. Evaluates(os, i, tree, sigma)
      => all = true \cup false /\ (SearchedIn(c) # {} /\ tree # <<>> => all # {})
    BY <1>1, EvaluatesAtomic
<1>5. ScopingOf(os)[i].searches => SearchedIn(c) # {}
    BY <1>1, ScopingByKind
<1>6. fit = IF all = {} THEN DistanceAware(1, 1, {})
            ELSE DistanceAware(Count(true), Count(true) + Count(false), Nodes(false))
    BY DEF ComparisonFitness
<1> HIDE DEF c, all, true, false, fit
<1>7. CASE all = {}
    <2>1. fit = [solved |-> 1, total |-> 1, success |-> TRUE, failing |-> {},
                 values |-> <<1, 1>>]
        BY <1>6, <1>7 DEF DistanceAware
    <2>2. fit \in Fits
        BY <2>1 DEF Fits
    <2>3. WellCounted(fit) /\ NonEmpty(fit) /\ fit.success
        BY <2>1 DEF WellCounted, NonEmpty
    <2>4. Holds(os, tree)[i][sigma]
        BY <1>2, <1>3, <1>7
    <2> QED
        BY <2>2, <2>3, <2>4 DEF Right, RightFor, c, fit
<1>8. CASE all # {}
    <2> DEFINE ones == Count(true)
               of == Count(true) + Count(false)
    <2>1. ones \in Nat /\ of \in Nat /\ ones <= of /\ (ones = of <=> false = {})
        BY <1>2
    <2>2. all = true \cup false => of >= 1
        BY <1>2, <1>8
    <2>3. fit = DistanceAware(ones, of, Nodes(false))
        BY <1>6, <1>8
    <2> HIDE DEF ones, of
    <2>4. /\ fit.solved = ones /\ fit.total = of /\ fit.success = (ones = of)
          /\ fit.failing = Nodes(false) /\ fit.values = <<ones, of>>
        BY <2>3 DEF DistanceAware
    <2>5. fit \in Fits
        <3>1. <<ones, of>> \in Nat \X Nat /\ (ones = of) \in BOOLEAN
            BY <2>1
        <3> QED
            BY <1>2, <2>1, <2>3, <3>1 DEF DistanceAware, Fits
    <2>a. fit.values[1] = ones /\ fit.values[2] = of
        BY <2>4
    <2>b. fit.success <=> ones = of
        BY <2>4
    <2>6. WellCounted(fit)
        BY <2>1, <2>4, <2>a, <2>b DEF WellCounted
    <2>7. Evaluates(os, i, tree, sigma) => NonEmpty(fit)
        BY <1>4, <2>1, <2>2, <2>4 DEF NonEmpty
    <2>8. fit.success <=> Holds(os, tree)[i][sigma]
        BY <1>3, <2>1, <2>4
    <2>9. ScopingOf(os)[i].searches /\ ~fit.success => fit.failing # {}
        BY <1>2, <1>5, <2>1, <2>4
    <2> QED
        BY <2>5, <2>6, <2>7, <2>8, <2>9 DEF Right, RightFor, c, fit
<1> QED
    BY <1>7, <1>8

LEMMA ExpressionRight ==
    ASSUME NEW os, Ordered(os), NEW i \in DOMAIN os, os[i].kind = "expression",
           NEW tree \in Seq(Data), NEW sigma \in Scopes(tree)
    PROVE  Right(os, i, tree, sigma, ExpressionFitness(os[i], tree, sigma))
<1> DEFINE c == os[i]
           all == Combinations(c, tree, sigma)
           true == Having(c, "true", tree, sigma)
           false == Having(c, "false", tree, sigma)
           fit == ExpressionFitness(c, tree, sigma)
<1>1. c.left \in Operands /\ c.right \in Operands /\ c.kind \in Atomic
    BY ObjectFacts DEF Atomic
<1>2. /\ Count(true) \in Nat /\ Count(all) \in Nat
      /\ Count(all) = 0 <=> all = {}
      /\ Count(true) <= Count(all)
      /\ Count(true) = Count(all) <=> all = true
      /\ true \subseteq all
      /\ Nodes(false) \in SUBSET Nat
      /\ SearchedIn(c) # {} /\ false # {} => Nodes(false) # {}
    <2> HIDE DEF c
    <2> QED
        BY <1>1, HavingFacts
<1>3. Holds(os, tree)[i][sigma] <=> all = true
    BY HoldsByKind
<1>4. Evaluates(os, i, tree, sigma) => all = true \cup false
    BY <1>1, EvaluatesAtomic
<1>5. ScopingOf(os)[i].searches => SearchedIn(c) # {}
    BY <1>1, ScopingByKind
<1>6. fit = IF all = {} THEN Plain(1, 1, TRUE, {})
            ELSE Plain(Count(true), Count(all), Count(true) = Count(all), Nodes(false))
    BY DEF ExpressionFitness
<1> HIDE DEF c, all, true, false, fit
<1>7. CASE all = {}
    <2>1. fit = Plain(1, 1, TRUE, {})
        BY <1>6, <1>7
    <2>2. fit \in Fits /\ WellCounted(fit) /\ NonEmpty(fit)
        BY <2>1 DEF Plain, Fits, WellCounted, NonEmpty
    <2>3. fit.success
        BY <2>1 DEF Plain
    <2>4. Holds(os, tree)[i][sigma]
        BY <1>2, <1>3, <1>7
    <2> QED
        BY <2>2, <2>3, <2>4 DEF Right, RightFor, c, fit
<1>8. CASE all # {}
    <2> DEFINE success == Count(true) = Count(all)
    <2>1. fit = Plain(Count(true), Count(all), success, Nodes(false))
        BY <1>6, <1>8
    <2>2. success \in BOOLEAN /\ (success <=> Count(true) = Count(all))
        OBVIOUS
    <2>3. Count(all) >= 1
        BY <1>2, <1>8
    <2> HIDE DEF success
    <2>4. fit \in Fits /\ WellCounted(fit) /\ NonEmpty(fit)
        BY <1>2, <2>1, <2>2, <2>3, PlainCounts
    <2>5. fit.success = success /\ fit.failing = Nodes(false)
        BY <2>1 DEF Plain
    <2>6. fit.success <=> Holds(os, tree)[i][sigma]
        BY <1>2, <1>3, <2>2, <2>5
    <2>7. Evaluates(os, i, tree, sigma) /\ ScopingOf(os)[i].searches /\ ~fit.success
          => fit.failing # {}
        BY <1>2, <1>4, <1>5, <2>2, <2>5
    <2> QED
        BY <2>4, <2>6, <2>7 DEF Right, RightFor, c, fit
<1> QED
    BY <1>7, <1>8

-----------------------------------------------------------------------------
(* Evaluations, whose results are right if what is cached is.              *)

LEMMA RightAlike ==
    ASSUME NEW os, Ordered(os), NEW i \in DOMAIN os, NEW tree, Len(tree) \in Nat,
           NEW sigma \in Scopes(tree), NEW tau \in Scopes(tree),
           Values(sigma, tree) = Values(tau, tree),
           NEW fit, Right(os, i, tree, sigma, fit)
    PROVE  Right(os, i, tree, tau, fit)
<1> DEFINE N == ScopingOf(os)[i].free
<1>1. Agree(tree, N, sigma, tau) /\ BoundIn(sigma) = BoundIn(tau)
    BY SameValues
<1>2. Holds(os, tree)[i][sigma] <=> Holds(os, tree)[i][tau]
    BY <1>1, AllStable DEF Stable
<1>3. Clean(os, i, tau) => Clean(os, i, sigma)
    BY <1>1 DEF Clean
<1>4. \A x \in Names : sigma[x] = 0 <=> tau[x] = 0
    BY <1>1 DEF BoundIn
<1>5. Evaluates(os, i, tree, tau) => Evaluates(os, i, tree, sigma)
    BY <1>4 DEF Evaluates, Names
<1> QED
    BY <1>2, <1>3, <1>5 DEF Right, RightFor

(* What is cached is right for each scope in which it is looked up.        *)
Sound(os, store) ==
    \A e \in store :
        /\ e.key.of \in DOMAIN os
        /\ \A sigma \in Scopes(e.key.tree) :
              Values(sigma, e.key.tree) = e.key.values
              => Right(os, e.key.of, e.key.tree, sigma, e.fit)

Good(os, i, tree, sigma, done) ==
    /\ done = [fit |-> done.fit, scope |-> done.scope, cache |-> done.cache]
    /\ done.scope \in Scopes(tree)
    /\ Extends(ScopingOf(os)[i].bound, {}, sigma, done.scope)
    /\ done.cache \in SUBSET Entries
    /\ Sound(os, done.cache)
    /\ Right(os, i, tree, sigma, done.fit)

Evaluator(os, i, tree, f) ==
    \A st \in States(tree) : Sound(os, st.cache) => Good(os, i, tree, st.scope, f[st])

LEMMA ValuesType ==
    ASSUME NEW tree \in Seq(Data), NEW sigma \in Scopes(tree)
    PROVE  Values(sigma, tree) \in SUBSET (Names \X Data)
<1> SUFFICES ASSUME NEW x \in BoundIn(sigma) PROVE <<x, tree[sigma[x]]>> \in Names \X Data
    BY DEF Values
<1>1. x \in Names /\ sigma[x] # 0
    BY DEF BoundIn
<1>2. sigma[x] \in 0..Len(tree)
    BY <1>1 DEF Scopes
<1>3. sigma[x] \in DOMAIN tree
    BY <1>1, <1>2
<1> QED
    BY <1>1, <1>3

(* A cached fitness is returned as a copy, and a computed one is cached.   *)
LEMMA EvaluationRight ==
    ASSUME NEW os, Ordered(os), NEW i \in DOMAIN os, NEW tree \in Seq(Data), NEW parts,
           \A st \in States(tree) :
              Sound(os, st.cache)
              => Good(os, i, tree, st.scope, Computed(os[i], tree, parts, st))
    PROVE  Evaluator(os, i, tree, Evaluation(i, os[i], tree, parts))
<1> DEFINE f == Evaluation(i, os[i], tree, parts)
<1> SUFFICES ASSUME NEW st \in States(tree), Sound(os, st.cache)
             PROVE  Good(os, i, tree, st.scope, f[st])
    BY DEF Evaluator
<1> DEFINE sigma == st.scope
           key == Key(i, tree, sigma)
           known == {entry \in st.cache : entry.key = key}
           done == Computed(os[i], tree, parts, st)
<1>1. sigma \in Scopes(tree) /\ st.cache \in SUBSET Entries
    BY DEF States
<1>2. f[st] = IF known # {} THEN Result(Copy((CHOOSE entry \in known : TRUE).fit), st)
              ELSE [done EXCEPT !.cache = @ \cup {[key |-> key, fit |-> done.fit]}]
    BY DEF Evaluation
<1>3. key = [of |-> i, tree |-> tree, values |-> Values(sigma, tree)]
    BY DEF Key
<1>4. i \in Nat
    BY DEF Ordered
<1>5. CASE known # {}
    <2> DEFINE e == CHOOSE entry \in known : TRUE
    <2>1. e \in known
        BY <1>5
    <2>2. f[st] = Result(Copy(e.fit), st)
        BY <1>2, <1>5
    <2> HIDE DEF e
    <2>3. e \in st.cache /\ e.key = key
        BY <2>1
    <2>4. e.key.of = i /\ e.key.tree = tree /\ e.key.values = Values(sigma, tree)
        BY <1>3, <2>3
    <2>5. Right(os, i, tree, sigma, e.fit)
        BY <1>1, <2>3, <2>4 DEF Sound
    <2>6. Right(os, i, tree, sigma, Copy(e.fit))
        <3>1. e.fit \in Fits /\ WellCounted(e.fit)
            BY <2>5 DEF Right, RightFor
        <3>2. /\ Copy(e.fit) \in Fits
              /\ WellCounted(Copy(e.fit))
              /\ NonEmpty(e.fit) => NonEmpty(Copy(e.fit))
              /\ Copy(e.fit).success = e.fit.success
              /\ Copy(e.fit).failing = e.fit.failing
            BY <3>1, CopyCounts
        <3> QED
            BY <2>5, <3>2 DEF Right, RightFor
    <2>7. /\ f[st].scope = sigma /\ f[st].cache = st.cache
          /\ f[st].fit = Copy(e.fit)
          /\ f[st] = [fit |-> f[st].fit, scope |-> f[st].scope, cache |-> f[st].cache]
        <3> HIDE DEF f
        <3> QED
            BY <2>2 DEF Result
    <2>8. Extends(ScopingOf(os)[i].bound, {}, sigma, sigma)
        BY <1>1, ExtendsItself
    <2> HIDE DEF f, sigma
    <2> QED
        BY <1>1, <2>6, <2>7, <2>8 DEF Good, sigma
<1>6. CASE known = {}
    <2> DEFINE new == [key |-> key, fit |-> done.fit]
    <2>1. Good(os, i, tree, sigma, done)
        OBVIOUS
    <2>2. f[st] = [done EXCEPT !.cache = @ \cup {new}]
        BY <1>2, <1>6
    <2>4. Right(os, i, tree, sigma, done.fit) /\ done.fit \in Fits
        BY <2>1 DEF Good, Right, RightFor
    <2>5. new \in Entries
        <3>1. key \in [of : Nat, tree : Seq(Data), values : SUBSET (Names \X Data)]
            <4>1. Values(sigma, tree) \in SUBSET (Names \X Data)
                BY <1>1, ValuesType
            <4> HIDE DEF key, sigma
            <4> QED
                BY <1>3, <1>4, <4>1
        <3> HIDE DEF key, done
        <3> QED
            BY <2>4, <3>1 DEF Entries
    <2>6. Sound(os, done.cache \cup {new})
        <3>1. Sound(os, done.cache)
            BY <2>1 DEF Good
        <3>2. ASSUME NEW tau \in Scopes(tree), Values(tau, tree) = Values(sigma, tree)
              PROVE  Right(os, i, tree, tau, done.fit)
            <4> HIDE DEF sigma, done
            <4> QED
                BY <1>1, <2>4, <3>2, RightAlike
        <3>3. new.key.of = i /\ new.key.tree = tree /\ new.key.values = Values(sigma, tree)
              /\ new.fit = done.fit
            <4> HIDE DEF key, done, sigma
            <4> QED
                BY <1>3
        <3> HIDE DEF new, done, sigma
        <3> QED
            BY <3>1, <3>2, <3>3 DEF Sound
    <2> HIDE DEF f, done, new
    <2>7. /\ f[st].scope = done.scope /\ f[st].cache = done.cache \cup {new}
          /\ f[st].fit = done.fit
          /\ f[st] = [fit |-> f[st].fit, scope |-> f[st].scope, cache |-> f[st].cache]
        <3>1. done = [fit |-> done.fit, scope |-> done.scope, cache |-> done.cache]
            BY <2>1 DEF Good
        <3>2. f[st] = [fit |-> done.fit, scope |-> done.scope,
                       cache |-> done.cache \cup {new}]
            BY <2>2, <3>1
        <3> QED
            BY <3>2
    <2> QED
        BY <2>1, <2>5, <2>6, <2>7 DEF Good
<1> QED
    BY <1>5, <1>6

(* Calls that have been made one after the other, each in one of the       *)
(* scopes that can be there: all of them, or as many as were enough.       *)
RanWell(os, tree, calls, obj, G, lazy, enough, done) ==
    /\ done = [fits |-> done.fits, scope |-> done.scope, cache |-> done.cache,
               stop |-> done.stop]
    /\ done.fits \in Seq(Fits)
    /\ \/ Len(done.fits) = Len(calls)
       \/ /\ lazy
          /\ Len(done.fits) \in 1..Len(calls)
          /\ done.fits[Len(done.fits)].success = enough
    /\ \A k \in 1..Len(done.fits) :
          \E tau \in G : Right(os, obj[k], tree, Entered(tau, calls[k]), done.fits[k])
    /\ done.scope \in G
    /\ done.cache \in SUBSET Entries
    /\ Sound(os, done.cache)

LEMMA RunsWell ==
    ASSUME NEW os, NEW tree, NEW parts, NEW calls, Len(calls) \in Nat, NEW obj, NEW G,
           NEW lazy, NEW enough, NEW st,
           st.scope \in G, st.cache \in SUBSET Entries, Sound(os, st.cache),
           \A k \in 1..Len(calls) : Evaluator(os, obj[k], tree, parts[calls[k].part]),
           \A k \in 1..Len(calls), sigma \in G :
              /\ Entered(sigma, calls[k]) \in Scopes(tree)
              /\ \A tau \in Scopes(tree) :
                    Extends(ScopingOf(os)[obj[k]].bound, {}, Entered(sigma, calls[k]), tau)
                    => tau \in G
    PROVE  RanWell(os, tree, calls, obj, G, lazy, enough,
                   Run(parts, calls, lazy, enough, st))
<1> DEFINE n == Len(calls)
<1>1. PICK run : /\ Run(parts, calls, lazy, enough, st) = run[n]
                 /\ run[0] = [fits |-> <<>>, scope |-> st.scope, cache |-> st.cache,
                              stop |-> FALSE]
                 /\ \A k \in 1..n : run[k] = Called(parts, calls, lazy, enough, run[k - 1], k)
    BY RunUnfolds
<1> DEFINE Rights(fits) ==
               \A k \in 1..Len(fits) :
                  \E tau \in G : Right(os, obj[k], tree, Entered(tau, calls[k]), fits[k])
           Stopped(done, k) ==
               IF done.stop
               THEN /\ lazy
                    /\ Len(done.fits) \in 1..k
                    /\ done.fits[Len(done.fits)].success = enough
               ELSE Len(done.fits) = k
           Whole(done) ==
               done = [fits |-> done.fits, scope |-> done.scope, cache |-> done.cache,
                       stop |-> done.stop]
           Ok(done, k) ==
               /\ Whole(done)
               /\ done.fits \in Seq(Fits)
               /\ Stopped(done, k)
               /\ Rights(done.fits)
               /\ done.scope \in G
               /\ done.cache \in SUBSET Entries
               /\ Sound(os, done.cache)
           T == {k \in 0..n : Ok(run[k], k)}
<1>2. 0 \in T
    <2>1. /\ run[0].fits = <<>> /\ run[0].scope = st.scope /\ run[0].cache = st.cache
          /\ run[0].stop = FALSE
        BY <1>1
    <2>2. Rights(run[0].fits)
        BY <2>1
    <2>3. Stopped(run[0], 0)
        BY <2>1
    <2>4. run[0].fits \in Seq(Fits)
        BY <2>1
    <2>7. Whole(run[0])
        BY <1>1
    <2> HIDE DEF Rights, Stopped, Whole
    <2>5. Ok(run[0], 0)
        BY <2>1, <2>2, <2>3, <2>4, <2>7
    <2>6. 0 \in 0..n
        OBVIOUS
    <2> HIDE DEF Ok
    <2> QED
        BY <2>5, <2>6
<1>3. ASSUME NEW m \in 0..n, m \in T, m < n PROVE m + 1 \in T
    <2> DEFINE before == run[m]
               k == m + 1
               call == calls[k]
               entered == Entered(before.scope, call)
               done == parts[call.part][[scope |-> entered, cache |-> before.cache]]
    <2>0. m \in Nat /\ k \in 1..n /\ k - 1 = m
        BY <1>3
    <2>1. Ok(before, m)
        BY <1>3
    <2>2. run[k] = IF before.stop THEN before
                   ELSE [fits |-> Append(before.fits, done.fit), scope |-> done.scope,
                         cache |-> done.cache, stop |-> lazy /\ done.fit.success = enough]
        <3>1. run[k] = Called(parts, calls, lazy, enough, run[k - 1], k)
            BY <1>1, <2>0
        <3> QED
            BY <2>0, <3>1 DEF Called
    <2>3. CASE before.stop
        <3>1. run[k] = before
            BY <2>2, <2>3
        <3>2. Stopped(before, k)
            <4>1. Stopped(before, m)
                BY <2>1
            <4> HIDE DEF before
            <4> QED
                BY <2>0, <2>3, <4>1
        <3> HIDE DEF Stopped, Rights, Whole, before
        <3>3. Ok(run[k], k)
            BY <2>1, <3>1, <3>2
        <3> QED
            BY <2>0, <3>3
    <2>4. CASE ~before.stop
        <3> DEFINE fits == Append(before.fits, done.fit)
        <3>1. /\ run[k].fits = fits /\ run[k].scope = done.scope
              /\ run[k].cache = done.cache
              /\ run[k].stop = (lazy /\ done.fit.success = enough)
            <4> HIDE DEF k, before, done, call
            <4> QED
                BY <2>2, <2>4
        <3>2. Good(os, obj[k], tree, entered, done)
            <4>1. before.scope \in G /\ before.cache \in SUBSET Entries
                  /\ Sound(os, before.cache)
                BY <2>1
            <4>2. entered \in Scopes(tree)
                BY <2>0, <4>1
            <4> DEFINE state == [scope |-> entered, cache |-> before.cache]
            <4>3. state \in States(tree) /\ state.scope = entered /\ state.cache = before.cache
                <5> HIDE DEF entered, before
                <5> QED
                    BY <4>1, <4>2 DEF States
            <4>4. Evaluator(os, obj[k], tree, parts[call.part])
                BY <2>0
            <4>5. done = parts[call.part][state]
                OBVIOUS
            <4> HIDE DEF state, entered, before, done, call
            <4> QED
                BY <4>1, <4>3, <4>4, <4>5 DEF Evaluator
        <3>3. done.scope \in G
            <4>1. before.scope \in G
                BY <2>1
            <4>2. /\ done.scope \in Scopes(tree)
                  /\ Extends(ScopingOf(os)[obj[k]].bound, {}, entered, done.scope)
                BY <3>2 DEF Good
            <4> HIDE DEF done, k, before
            <4> QED
                BY <2>0, <4>1, <4>2
        <3>4. done.fit \in Fits /\ Right(os, obj[k], tree, entered, done.fit)
            BY <3>2 DEF Good, Right, RightFor
        <3>5. before.fits \in Seq(Fits) /\ Len(before.fits) = m /\ Rights(before.fits)
              /\ before.scope \in G
            BY <2>1, <2>4
        <3>6. fits \in Seq(Fits) /\ Len(fits) = k /\ fits[k] = done.fit
              /\ \A j \in 1..m : fits[j] = before.fits[j]
            <4> HIDE DEF before, done
            <4> QED
                BY <2>0, <3>4, <3>5
        <3>7. Rights(fits)
            <4> SUFFICES ASSUME NEW j \in 1..Len(fits)
                         PROVE  \E tau \in G : Right(os, obj[j], tree,
                                                     Entered(tau, calls[j]), fits[j])
                OBVIOUS
            <4>1. CASE j = k
                <5>1. Right(os, obj[j], tree, Entered(before.scope, calls[j]), fits[j])
                    BY <3>4, <3>6, <4>1
                <5> QED
                    BY <3>5, <5>1
            <4>2. CASE j # k
                <5>0. Len(before.fits) = m /\ Len(fits) = k
                    BY <3>5, <3>6, ZenonT(60)
                <5>1. j \in 1..m /\ j \in 1..Len(before.fits)
                    <6> HIDE DEF before, fits, done, call, n
                    <6>1. j \in 1..k
                        BY <5>0
                    <6>2. j \in 1..m
                        <7>1. k = m + 1
                            OBVIOUS
                        <7> HIDE DEF k
                        <7> QED
                            BY <2>0, <4>2, <6>1, <7>1
                    <6> QED
                        BY <5>0, <6>2
                <5>2. fits[j] = before.fits[j]
                    BY <3>6, <5>1
                <5> HIDE DEF before, fits
                <5> QED
                    BY <3>5, <5>1, <5>2
            <4> QED
                BY <4>1, <4>2
        <3>8. done.cache \in SUBSET Entries /\ Sound(os, done.cache)
            BY <3>2 DEF Good
        <3>9. Stopped(run[k], k)
            <4>1. k \in 1..k
                BY <2>0
            <4> HIDE DEF k, done, fits
            <4> QED
                BY <3>1, <3>6, <4>1
        <3>11. Whole(run[k])
            <4> HIDE DEF k, before, done, call
            <4> QED
                BY <2>2, <2>4
        <3> HIDE DEF Stopped, Rights, Whole, done, fits
        <3>10. Ok(run[k], k)
            BY <3>1, <3>3, <3>6, <3>7, <3>8, <3>9, <3>11
        <3> QED
            BY <2>0, <3>10
    <2> QED
        BY <2>3, <2>4
<1>4. \A m \in 0..n : m \in T /\ m < n => m + 1 \in T
    <2> HIDE DEF T
    <2> QED
        BY <1>3
<1>5. Ok(run[n], n)
    <2>1. n \in T
        <3> HIDE DEF T
        <3>1. \A m \in 0..n : m \in T
            BY <1>2, <1>4, Induction
        <3> QED
            BY <3>1
    <2> QED
        BY <2>1
<1> HIDE DEF Stopped, Rights
<1>6. Stopped(run[n], n)
      => \/ Len(run[n].fits) = n
         \/ lazy /\ Len(run[n].fits) \in 1..n /\ run[n].fits[Len(run[n].fits)].success = enough
    BY DEF Stopped
<1> QED
    BY <1>1, <1>5, <1>6 DEF RanWell, Rights, Whole

-----------------------------------------------------------------------------
(* What a fitness says of a part, it says of the part in the object.       *)

LEMMA ConnectivePart ==
    ASSUME NEW os, Ordered(os), NEW i \in DOMAIN os, os[i].kind \in Connective,
           NEW k \in 1..Len(os[i].parts), NEW tree, Len(tree) \in Nat,
           NEW sigma \in Scopes(tree), NEW tau \in Scopes(tree),
           Extends(ScopingOf(os)[i].bound, {}, sigma, tau),
           NEW fit, Right(os, os[i].parts[k], tree, tau, fit)
    PROVE  RightFor(os, i, tree, sigma, fit, Holds(os, tree)[os[i].parts[k]][sigma])
<1> DEFINE p == os[i].parts[k]
           S == ScopingOf(os)
<1>1. /\ S[p].free \subseteq S[i].free
      /\ S[p].bound \subseteq S[i].bound
      /\ S[i].searches => S[p].searches
      /\ S[i].apart => S[p].apart
    BY ScopingByKind
<1>2. i \in 1..Len(os) /\ Len(os) \in Nat /\ DOMAIN os = 1..Len(os)
    BY DEF Ordered
<1>3. p \in 1..(i - 1)
    BY PartsComeBefore
<1>4. p \in DOMAIN os
    BY <1>2, <1>3
<1>e. Extends(S[i].bound, {}, sigma, tau)
    OBVIOUS
<1>r. Right(os, p, tree, tau, fit)
    OBVIOUS
<1> HIDE DEF p, S
<1>5. ASSUME Clean(os, i, sigma)
      PROVE  Clean(os, p, tau) /\ Agree(tree, S[p].free, sigma, tau)
    <2>1. ASSUME NEW x \in Names, SameKind(x) \cap BoundIn(sigma) = {}
          PROVE  sigma[x] = 0 /\ tau[x] = 0
        <3>1. x \in SameKind(x)
            BY KindFacts
        <3> QED
            BY <1>e, <2>1, <3>1 DEF Extends, BoundIn
    <2>2. ASSUME NEW x \in Names \cap S[p].bound \cap S[p].free
          PROVE  SameKind(x) \cap BoundIn(tau) = {}
        <3>1. SameKind(x) \cap BoundIn(sigma) = {}
            BY <1>1, <1>5 DEF Clean, S
        <3>2. ASSUME NEW y \in SameKind(x) PROVE tau[y] = 0
            <4>1. y \in Names /\ SameKind(y) = SameKind(x)
                BY KindFacts
            <4> QED
                BY <2>1, <3>1, <4>1
        <3> QED
            BY <3>2 DEF BoundIn
    <2>3. ASSUME NEW x \in Names \cap S[p].free
          PROVE  /\ sigma[x] = 0 <=> tau[x] = 0
                 /\ sigma[x] # 0 => tree[sigma[x]] = tree[tau[x]]
        <3>1. CASE x \in S[i].bound
            <4>1. SameKind(x) \cap BoundIn(sigma) = {}
                BY <1>1, <1>5, <3>1 DEF Clean, S
            <4> QED
                BY <2>1, <4>1
        <3>2. CASE x \notin S[i].bound
            BY <1>e, <3>2 DEF Extends
        <3> QED
            BY <3>1, <3>2
    <2>4. Clean(os, p, tau)
        BY <1>1, <1>5, <2>2 DEF Clean, S
    <2> QED
        BY <2>3, <2>4 DEF Agree
<1>6. Clean(os, i, sigma) => (Holds(os, tree)[p][sigma] <=> Holds(os, tree)[p][tau])
    BY <1>4, <1>5, AllStable DEF Stable, S
<1>7. Evaluates(os, i, tree, sigma) => Evaluates(os, p, tree, tau)
    <2> SUFFICES ASSUME Evaluates(os, i, tree, sigma), NEW x \in S[p].free \cap Locals
                 PROVE  tau[x] # 0
        BY DEF Evaluates, S
    <2>1. sigma[x] # 0
        BY <1>1 DEF Evaluates, S
    <2> QED
        BY <1>e, <2>1 DEF Extends, Names
<1> QED
    BY <1>1, <1>5, <1>6, <1>7, <1>r DEF Right, RightFor, p, S

LEMMA QuantifierPart ==
    ASSUME NEW os, Ordered(os), NEW i \in DOMAIN os, os[i].kind \in Quantifier,
           NEW tree, Len(tree) \in Nat, NEW n \in 1..Len(tree),
           NEW sigma \in Scopes(tree), NEW tau \in Scopes(tree),
           Extends(ScopingOf(os)[os[i].parts[1]].bound, {os[i].bound}, sigma, tau),
           NEW fit, Right(os, os[i].parts[1], tree, With(tau, os[i].bound, n), fit)
    PROVE  RightFor(os, i, tree, sigma, fit,
                    Holds(os, tree)[os[i].parts[1]][With(sigma, os[i].bound, n)])
<1> DEFINE p == os[i].parts[1]
           x == os[i].bound
           S == ScopingOf(os)
           rho == With(sigma, x, n)
           upsilon == With(tau, x, n)
<1>0. Len(os[i].parts) = 1 /\ x \in Names
    BY ObjectFacts
<1>1. /\ S[i].free = {os[i].search} \cup (S[p].free \ {x})
      /\ S[i].bound = S[p].bound \cup {x}
      /\ S[i].searches => S[p].searches
      /\ S[i].apart => S[p].apart /\ S[p].bound \cap S[p].free = {}
    BY ScopingByKind
<1>2. i \in 1..Len(os) /\ Len(os) \in Nat /\ DOMAIN os = 1..Len(os)
    BY DEF Ordered
<1>3. p \in 1..(i - 1)
    <2>1. 1 \in 1..Len(os[i].parts)
        BY <1>0
    <2> QED
        BY <2>1, PartsComeBefore
<1>4. p \in DOMAIN os
    BY <1>2, <1>3
<1>e. Extends(S[p].bound, {x}, sigma, tau)
    OBVIOUS
<1>r. Right(os, p, tree, upsilon, fit)
    OBVIOUS
<1>5. rho \in Scopes(tree) /\ upsilon \in Scopes(tree) /\ rho[x] = n /\ upsilon[x] = n
      /\ (\A y \in Names : y # x => rho[y] = sigma[y] /\ upsilon[y] = tau[y])
    BY <1>0 DEF With, Scopes
<1> HIDE DEF p, S, rho, upsilon, x
<1>6. ASSUME Clean(os, i, sigma)
      PROVE  Clean(os, p, upsilon) /\ Agree(tree, S[p].free, rho, upsilon)
    <2>1. S[p].apart /\ S[p].bound \cap S[p].free = {}
        BY <1>1, <1>6 DEF Clean, S
    <2>2. Clean(os, p, upsilon)
        BY <2>1 DEF Clean, S
    <2>3. ASSUME NEW y \in Names \cap S[p].free PROVE rho[y] = upsilon[y]
        <3>1. CASE y = x
            BY <1>5, <3>1
        <3>2. CASE y # x
            <4>1. sigma[y] = tau[y]
                BY <1>e, <2>1, <3>2 DEF Extends
            <4> QED
                BY <1>5, <3>2, <4>1
        <3> QED
            BY <3>1, <3>2
    <2> QED
        BY <2>2, <2>3 DEF Agree
<1>7. Clean(os, i, sigma) => (Holds(os, tree)[p][rho] <=> Holds(os, tree)[p][upsilon])
    BY <1>4, <1>5, <1>6, AllStable DEF Stable, S
<1>8. Evaluates(os, i, tree, sigma) => Evaluates(os, p, tree, upsilon)
    <2> SUFFICES ASSUME Evaluates(os, i, tree, sigma), NEW y \in S[p].free \cap Locals
                 PROVE  upsilon[y] # 0
        BY DEF Evaluates, S
    <2>1. y \in Names
        BY DEF Names
    <2>2. CASE y = x
        BY <1>5, <2>2
    <2>3. CASE y # x
        <3>1. sigma[y] # 0
            BY <1>1, <2>3 DEF Evaluates, S
        <3> QED
            BY <1>e, <1>5, <2>1, <2>3, <3>1 DEF Extends
    <2> QED
        BY <2>2, <2>3
<1> QED
    BY <1>1, <1>6, <1>7, <1>8, <1>r DEF Right, RightFor, p, S, rho, x

(* If all parts must hold, or one of them.                                 *)
LEMMA AllRight ==
    ASSUME NEW os, NEW i, NEW tree, NEW sigma, NEW n \in Nat, NEW extra \in {0, 1},
           extra = 1 \/ n >= 1, NEW means, NEW fits \in Seq(Fits),
           \/ Len(fits) = n
           \/ Len(fits) \in 1..n /\ fits[Len(fits)].success = FALSE,
           \A k \in 1..Len(fits) : RightFor(os, i, tree, sigma, fits[k], means[k])
    PROVE  LET all == \A k \in 1..n : means[k]
           IN /\ RightFor(os, i, tree, sigma, Conjunction(fits, extra), all)
              /\ RightFor(os, i, tree, sigma, PerfectIf(AllSucceed(fits), fits, extra), all)
<1> DEFINE all == \A k \in 1..n : means[k]
           success == AllSucceed(fits)
           one == Conjunction(fits, extra)
           other == PerfectIf(success, fits, extra)
<1>1. \A k \in 1..Len(fits) : WellCounted(fits[k])
    BY DEF RightFor
<1>2. /\ one \in Fits /\ WellCounted(one)
      /\ extra = 1 \/ (\E k \in 1..Len(fits) : NonEmpty(fits[k])) => NonEmpty(one)
      /\ one.success = success /\ one.failing = Failing(fits)
    BY <1>1, ConjunctionCounts
<1>3. /\ other \in Fits /\ WellCounted(other)
      /\ extra = 1 \/ (\E k \in 1..Len(fits) : NonEmpty(fits[k])) => NonEmpty(other)
      /\ other.success = success /\ other.failing = Failing(fits)
    <2>1. success \in BOOLEAN
        BY DEF AllSucceed
    <2> HIDE DEF success
    <2>2. extra = 0 => (success <=> AllSucceed(fits))
        BY DEF success
    <2> QED
        BY <1>1, <2>1, <2>2, PerfectIfCounts
<1>4. success <=> \A k \in 1..Len(fits) : fits[k].success
    BY DEF AllSucceed
<1>5. Clean(os, i, sigma) => \A k \in 1..Len(fits) : (fits[k].success <=> means[k])
    BY DEF RightFor
<1>6. Clean(os, i, sigma) => (success <=> all)
    <2>1. CASE Len(fits) = n
        BY <1>4, <1>5, <2>1
    <2>2. CASE Len(fits) \in 1..n /\ fits[Len(fits)].success = FALSE
        <3>1. Len(fits) \in 1..Len(fits)
            BY <2>2
        <3>2. ~success
            BY <1>4, <2>2, <3>1
        <3>3. Clean(os, i, sigma) => ~means[Len(fits)]
            BY <1>5, <2>2, <3>1
        <3> QED
            BY <2>2, <3>2, <3>3
    <2> QED
        BY <2>1, <2>2
<1>7. Evaluates(os, i, tree, sigma)
      => extra = 1 \/ (\E k \in 1..Len(fits) : NonEmpty(fits[k]))
    <2>1. extra = 1 \/ 1 \in 1..Len(fits)
        OBVIOUS
    <2> QED
        BY <2>1 DEF RightFor
<1>8. Evaluates(os, i, tree, sigma) /\ ScopingOf(os)[i].searches /\ tree # <<>>
      => (~success => Failing(fits) # {})
    <2> SUFFICES ASSUME Evaluates(os, i, tree, sigma), ScopingOf(os)[i].searches,
                        tree # <<>>, NEW k \in 1..Len(fits), ~fits[k].success
                 PROVE  Failing(fits) # {}
        BY <1>4
    <2>1. fits[k].failing # {}
        BY DEF RightFor
    <2> QED
        BY <2>1 DEF Failing
<1> HIDE DEF one, other, success
<1>9. RightFor(os, i, tree, sigma, one, all)
    <2> HIDE DEF all
    <2> QED
        BY <1>2, <1>6, <1>7, <1>8 DEF RightFor
<1>10. RightFor(os, i, tree, sigma, other, all)
    <2> HIDE DEF all
    <2> QED
        BY <1>3, <1>6, <1>7, <1>8 DEF RightFor
<1> QED
    BY <1>9, <1>10 DEF one, other, success

LEMMA AnyRight ==
    ASSUME NEW os, NEW i, NEW tree, NEW sigma, NEW n \in Nat, NEW extra \in {0, 1},
           extra = 0 => n = 1, tree = <<>> \/ n >= 1, NEW means, NEW fits \in Seq(Fits),
           \/ Len(fits) = n
           \/ Len(fits) \in 1..n /\ fits[Len(fits)].success = TRUE,
           \A k \in 1..Len(fits) : RightFor(os, i, tree, sigma, fits[k], means[k])
    PROVE  RightFor(os, i, tree, sigma, PerfectIf(AnySucceeds(fits), fits, extra),
                    \E k \in 1..n : means[k])
<1> DEFINE any == \E k \in 1..n : means[k]
           success == AnySucceeds(fits)
           fit == PerfectIf(success, fits, extra)
<1>1. \A k \in 1..Len(fits) : WellCounted(fits[k])
    BY DEF RightFor
<1>4. success <=> \E k \in 1..Len(fits) : fits[k].success
    BY DEF AnySucceeds
<1>3. /\ fit \in Fits /\ WellCounted(fit)
      /\ extra = 1 \/ (\E k \in 1..Len(fits) : NonEmpty(fits[k])) => NonEmpty(fit)
      /\ fit.success = success /\ fit.failing = Failing(fits)
    <2>1. success \in BOOLEAN
        BY DEF AnySucceeds
    <2>2. extra = 0 => (success <=> AllSucceed(fits))
        <3>1. n = 1 => Len(fits) = 1
            <4>1. n = 1 /\ Len(fits) \in 1..n => Len(fits) = 1
                OBVIOUS
            <4> QED
                BY <4>1
        <3>2. extra = 0 => Len(fits) = 1
            BY <3>1
        <3> QED
            BY <3>2 DEF AnySucceeds, AllSucceed
    <2> HIDE DEF success
    <2> QED
        BY <1>1, <2>1, <2>2, PerfectIfCounts
<1>5. Clean(os, i, sigma) => \A k \in 1..Len(fits) : (fits[k].success <=> means[k])
    BY DEF RightFor
<1>6. Clean(os, i, sigma) => (success <=> any)
    <2>1. CASE Len(fits) = n
        BY <1>4, <1>5, <2>1
    <2>2. CASE Len(fits) \in 1..n /\ fits[Len(fits)].success = TRUE
        <3>1. Len(fits) \in 1..Len(fits)
            BY <2>2
        <3>2. success
            BY <1>4, <2>2, <3>1
        <3>3. Clean(os, i, sigma) => means[Len(fits)]
            BY <1>5, <2>2, <3>1
        <3> QED
            BY <2>2, <3>2, <3>3
    <2> QED
        BY <2>1, <2>2
<1>7. Evaluates(os, i, tree, sigma)
      => extra = 1 \/ (\E k \in 1..Len(fits) : NonEmpty(fits[k]))
    <2>1. extra = 1 \/ 1 \in 1..Len(fits)
        OBVIOUS
    <2> QED
        BY <2>1 DEF RightFor
<1>8. Evaluates(os, i, tree, sigma) /\ ScopingOf(os)[i].searches /\ tree # <<>>
      => (~success => Failing(fits) # {})
    <2> SUFFICES ASSUME Evaluates(os, i, tree, sigma), ScopingOf(os)[i].searches,
                        tree # <<>>, ~success
                 PROVE  Failing(fits) # {}
        OBVIOUS
    <2>1. 1 \in 1..Len(fits)
        OBVIOUS
    <2>2. ~fits[1].success
        BY <1>4, <2>1
    <2>3. fits[1].failing # {}
        BY <2>1, <2>2 DEF RightFor
    <2> QED
        BY <2>1, <2>3 DEF Failing
<1> HIDE DEF fit, success
<1>9. RightFor(os, i, tree, sigma, fit, any)
    <2> HIDE DEF any
    <2> QED
        BY <1>3, <1>6, <1>7, <1>8 DEF RightFor
<1> QED
    BY <1>9 DEF fit, success

-----------------------------------------------------------------------------
(* The evaluation of an object is right if those of its parts are.         *)

LEMMA RunPartsRight ==
    ASSUME NEW os, Ordered(os), NEW i \in DOMAIN os, os[i].kind \in Connective,
           NEW tree \in Seq(Data), NEW parts,
           \A k \in 1..Len(os[i].parts) : Evaluator(os, os[i].parts[k], tree, parts[k]),
           NEW st \in States(tree), Sound(os, st.cache), NEW enough
    PROVE  LET n == Len(os[i].parts)
               done == RunParts(os[i], parts, enough, st)
           IN /\ done.fits \in Seq(Fits)
              /\ \/ Len(done.fits) = n
                 \/ Len(done.fits) \in 1..n /\ done.fits[Len(done.fits)].success = enough
              /\ \A k \in 1..Len(done.fits) :
                    RightFor(os, i, tree, st.scope, done.fits[k],
                             Holds(os, tree)[os[i].parts[k]][st.scope])
              /\ done.scope \in Scopes(tree)
              /\ Extends(ScopingOf(os)[i].bound, {}, st.scope, done.scope)
              /\ done.cache \in SUBSET Entries
              /\ Sound(os, done.cache)
<1> DEFINE n == Len(os[i].parts)
           sigma == st.scope
           B == ScopingOf(os)[i].bound
           G == {tau \in Scopes(tree) : Extends(B, {}, sigma, tau)}
           calls == [k \in 1..n |-> [part |-> k, names |-> {}, node |-> 0]]
           obj == os[i].parts
           done == RunParts(os[i], parts, enough, st)
<1>1. n \in Nat
    BY PartsComeBefore
<1>2. Len(calls) = n /\ \A k \in 1..n : calls[k].part = k /\ calls[k].names = {}
    BY <1>1
<1>3. sigma \in Scopes(tree) /\ st.cache \in SUBSET Entries
    BY DEF States
<1>4. sigma \in G
    BY <1>3, ExtendsItself
<1>5. \A tau \in Scopes(tree), k \in 1..n : Entered(tau, calls[k]) = tau
    BY <1>2 DEF Entered, Scopes
<1>6. \A k \in 1..n : ScopingOf(os)[obj[k]].bound \subseteq B
    BY ScopingByKind
<1>7. \A k \in 1..n : Evaluator(os, obj[k], tree, parts[calls[k].part])
    BY <1>2
<1>8. ASSUME NEW k \in 1..n, NEW tau \in G
      PROVE  /\ Entered(tau, calls[k]) \in Scopes(tree)
             /\ \A upsilon \in Scopes(tree) :
                   Extends(ScopingOf(os)[obj[k]].bound, {}, Entered(tau, calls[k]), upsilon)
                   => upsilon \in G
    <2>1. Entered(tau, calls[k]) = tau
        BY <1>5
    <2>2. ASSUME NEW upsilon \in Scopes(tree),
                 Extends(ScopingOf(os)[obj[k]].bound, {}, tau, upsilon)
          PROVE  Extends(B, {}, sigma, upsilon)
        <3>1. Extends(B, {}, sigma, tau) /\ ScopingOf(os)[obj[k]].bound \subseteq B
            BY <1>6
        <3> HIDE DEF B, obj, sigma
        <3> QED
            BY <2>2, <3>1, ExtendsFurther
    <2> QED
        BY <2>1, <2>2
<1>9. done = Run(parts, calls, os[i].lazy, enough, st)
    BY DEF RunParts
<1>10. RanWell(os, tree, calls, obj, G, os[i].lazy, enough, done)
    <2> HIDE DEF calls, obj, G, n, done, sigma
    <2>1. st.scope \in G
        BY <1>4 DEF sigma
    <2> QED
        BY <1>1, <1>2, <1>3, <1>7, <1>8, <1>9, <2>1, RunsWell
<1> HIDE DEF done, calls
<1>11. ASSUME NEW k \in 1..Len(done.fits)
       PROVE  RightFor(os, i, tree, sigma, done.fits[k], Holds(os, tree)[obj[k]][sigma])
    <2>1. k \in 1..n
        BY <1>1, <1>2, <1>10 DEF RanWell
    <2>2. PICK tau \in G : Right(os, obj[k], tree, Entered(tau, calls[k]), done.fits[k])
        BY <1>10 DEF RanWell
    <2>3. Right(os, obj[k], tree, tau, done.fits[k])
        BY <1>5, <2>1, <2>2
    <2>4. tau \in Scopes(tree) /\ Extends(B, {}, sigma, tau)
        BY <2>2
    <2>5. Len(tree) \in Nat
        OBVIOUS
    <2> HIDE DEF sigma
    <2> QED
        BY <1>3, <2>1, <2>3, <2>4, <2>5, ConnectivePart
<1> QED
    BY <1>2, <1>10, <1>11 DEF RanWell, done

LEMMA ConjunctionRight ==
    ASSUME NEW os, Ordered(os), NEW i \in DOMAIN os, os[i].kind = "conjunction",
           NEW tree \in Seq(Data), NEW parts,
           \A k \in 1..Len(os[i].parts) : Evaluator(os, os[i].parts[k], tree, parts[k]),
           NEW st \in States(tree), Sound(os, st.cache)
    PROVE  Good(os, i, tree, st.scope, Computed(os[i], tree, parts, st))
<1> DEFINE c == os[i]
           n == Len(c.parts)
           sigma == st.scope
           H == Holds(os, tree)
           done == RunParts(c, parts, FALSE, st)
           means == [k \in 1..n |-> H[c.parts[k]][sigma]]
           fit == Conjunction(done.fits, Extra(c))
<1>1. os[i].kind \in Connective /\ sigma \in Scopes(tree)
    BY DEF Connective, States
<1>2. /\ done.fits \in Seq(Fits)
      /\ \/ Len(done.fits) = n
         \/ Len(done.fits) \in 1..n /\ done.fits[Len(done.fits)].success = FALSE
      /\ \A k \in 1..Len(done.fits) :
            RightFor(os, i, tree, sigma, done.fits[k], H[c.parts[k]][sigma])
      /\ done.scope \in Scopes(tree)
      /\ Extends(ScopingOf(os)[i].bound, {}, sigma, done.scope)
      /\ done.cache \in SUBSET Entries
      /\ Sound(os, done.cache)
    BY <1>1, RunPartsRight
<1>3. Len(c.parts) >= 1
    BY ObjectFacts
<1>4. n \in Nat
    BY PartsComeBefore
<1>5. Extra(c) \in {0, 1}
    BY DEF Extra
<1>6. H[i][sigma] <=> \A k \in 1..n : H[c.parts[k]][sigma]
    BY <1>1, HoldsByKind
<1>7. Computed(c, tree, parts, st) = Result(fit, done)
    BY DEF Computed
<1> HIDE DEF c, H, done, sigma
<1>8. RightFor(os, i, tree, sigma, fit, \A k \in 1..n : means[k])
    <2>1. \A k \in 1..Len(done.fits) : RightFor(os, i, tree, sigma, done.fits[k], means[k])
        BY <1>2, <1>4
    <2> HIDE DEF n, means
    <2> QED
        BY <1>2, <1>3, <1>4, <1>5, <2>1, AllRight DEF n
<1>9. Right(os, i, tree, sigma, fit)
    <2>1. (\A k \in 1..n : means[k]) <=> H[i][sigma]
        BY <1>6
    <2> HIDE DEF fit, means
    <2> QED
        BY <1>8, <2>1 DEF Right, RightFor, H
<1> HIDE DEF fit
<1> QED
    BY <1>2, <1>7, <1>9 DEF Good, Result, c, sigma

LEMMA DisjunctionRight ==
    ASSUME NEW os, Ordered(os), NEW i \in DOMAIN os, os[i].kind = "disjunction",
           NEW tree \in Seq(Data), NEW parts,
           \A k \in 1..Len(os[i].parts) : Evaluator(os, os[i].parts[k], tree, parts[k]),
           NEW st \in States(tree), Sound(os, st.cache)
    PROVE  Good(os, i, tree, st.scope, Computed(os[i], tree, parts, st))
<1> DEFINE c == os[i]
           n == Len(c.parts)
           sigma == st.scope
           H == Holds(os, tree)
           done == RunParts(c, parts, TRUE, st)
           means == [k \in 1..n |-> H[c.parts[k]][sigma]]
           fit == PerfectIf(AnySucceeds(done.fits), done.fits, Extra(c))
<1>1. os[i].kind \in Connective /\ sigma \in Scopes(tree)
    BY DEF Connective, States
<1>2. /\ done.fits \in Seq(Fits)
      /\ \/ Len(done.fits) = n
         \/ Len(done.fits) \in 1..n /\ done.fits[Len(done.fits)].success = TRUE
      /\ \A k \in 1..Len(done.fits) :
            RightFor(os, i, tree, sigma, done.fits[k], H[c.parts[k]][sigma])
      /\ done.scope \in Scopes(tree)
      /\ Extends(ScopingOf(os)[i].bound, {}, sigma, done.scope)
      /\ done.cache \in SUBSET Entries
      /\ Sound(os, done.cache)
    BY <1>1, RunPartsRight
<1>3. Len(c.parts) >= 1
    BY ObjectFacts
<1>4. n \in Nat
    BY PartsComeBefore
<1>5. Extra(c) \in {0, 1} /\ (Extra(c) = 0 => n = 1)
    <2>1. Extra(c) = IF n > 1 \/ c.kind \in Quantifier THEN 1 ELSE 0
        BY DEF Extra
    <2> HIDE DEF c
    <2>2. Extra(c) \in {0, 1} /\ (Extra(c) = 0 => ~(n > 1))
        BY <2>1
    <2> HIDE DEF n
    <2>3. n >= 1
        BY <1>3 DEF n
    <2> QED
        BY <1>4, <2>2, <2>3
<1>6. H[i][sigma] <=> \E k \in 1..n : H[c.parts[k]][sigma]
    BY <1>1, HoldsByKind
<1>7. Computed(c, tree, parts, st) = Result(fit, done)
    BY DEF Computed
<1> HIDE DEF c, H, done, sigma
<1>8. RightFor(os, i, tree, sigma, fit, \E k \in 1..n : means[k])
    <2>1. \A k \in 1..Len(done.fits) : RightFor(os, i, tree, sigma, done.fits[k], means[k])
        BY <1>2, <1>4
    <2>2. n >= 1
        BY <1>3
    <2> HIDE DEF n, means
    <2> QED
        BY <1>2, <1>4, <1>5, <2>1, <2>2, AnyRight, ZenonT(60)
<1>9. Right(os, i, tree, sigma, fit)
    <2>1. (\E k \in 1..n : means[k]) <=> H[i][sigma]
        BY <1>6
    <2> HIDE DEF fit, means
    <2> QED
        BY <1>8, <2>1 DEF Right, RightFor, H
<1> HIDE DEF fit
<1> QED
    BY <1>2, <1>7, <1>9 DEF Good, Result, c, sigma

LEMMA ImplicationRight ==
    ASSUME NEW os, Ordered(os), NEW i \in DOMAIN os, os[i].kind = "implication",
           NEW tree \in Seq(Data), NEW parts,
           \A k \in 1..Len(os[i].parts) : Evaluator(os, os[i].parts[k], tree, parts[k]),
           NEW st \in States(tree), Sound(os, st.cache)
    PROVE  Good(os, i, tree, st.scope, Computed(os[i], tree, parts, st))
<1> DEFINE c == os[i]
           p == c.parts[1]
           q == c.parts[2]
           sigma == st.scope
           H == Holds(os, tree)
           B == ScopingOf(os)[i].bound
           if == parts[1][st]
           between == [scope |-> if.scope, cache |-> if.cache]
           then == parts[2][between]
<1>0. c.kind \in Connective /\ sigma \in Scopes(tree) /\ Len(tree) \in Nat
    BY DEF Connective, States
<1>1. 1 \in 1..Len(c.parts) /\ 2 \in 1..Len(c.parts)
    <2>1. Len(c.parts) = 2
        BY ObjectFacts
    <2> QED
        BY <2>1
<1>2. ScopingOf(os)[p].bound \subseteq B /\ ScopingOf(os)[q].bound \subseteq B
    BY <1>0, <1>1, ScopingByKind
<1>3. Good(os, p, tree, sigma, if)
    BY <1>1 DEF Evaluator
<1>4. Computed(c, tree, parts, st) = IF if.fit.success THEN Result(Consequent(then.fit), then)
                                     ELSE Result(Plain(1, 1, TRUE, {}), if)
    BY DEF Computed
<1>5. H[i][sigma] <=> (H[p][sigma] => H[q][sigma])
    BY <1>0, HoldsByKind
<1>6. if.scope \in Scopes(tree) /\ Extends(B, {}, sigma, if.scope)
    <2>1. Extends(B, {}, sigma, sigma)
        BY <1>0, ExtendsItself
    <2>2. if.scope \in Scopes(tree) /\ Extends(ScopingOf(os)[p].bound, {}, sigma, if.scope)
        BY <1>3 DEF Good
    <2> HIDE DEF B, sigma, p, if
    <2> QED
        BY <1>2, <2>1, <2>2, ExtendsFurther
<1>7. RightFor(os, i, tree, sigma, if.fit, H[p][sigma])
    <2>1. Right(os, p, tree, sigma, if.fit)
        BY <1>3 DEF Good
    <2>2. Extends(ScopingOf(os)[i].bound, {}, sigma, sigma)
        BY <1>0, ExtendsItself
    <2> HIDE DEF if, sigma
    <2> QED
        BY <1>0, <1>1, <2>1, <2>2, ConnectivePart
<1>8. Good(os, q, tree, if.scope, then)
    <2>1. between \in States(tree) /\ Sound(os, between.cache) /\ between.scope = if.scope
        <3> HIDE DEF if
        <3> QED
            BY <1>3, <1>6 DEF Good, States
    <2>2. Evaluator(os, q, tree, parts[2])
        BY <1>1
    <2> HIDE DEF between, q
    <2> QED
        BY <2>1, <2>2 DEF Evaluator
<1>9. then.scope \in Scopes(tree) /\ Extends(B, {}, sigma, then.scope)
    <2>1. then.scope \in Scopes(tree) /\ Extends(ScopingOf(os)[q].bound, {}, if.scope, then.scope)
        BY <1>8 DEF Good
    <2> HIDE DEF B, sigma, p, q, if, then
    <2> QED
        BY <1>2, <1>6, <2>1, ExtendsFurther
<1>10. RightFor(os, i, tree, sigma, then.fit, H[q][sigma])
    <2>1. Right(os, q, tree, if.scope, then.fit)
        BY <1>8 DEF Good
    <2> HIDE DEF if, then, sigma
    <2> QED
        BY <1>0, <1>1, <1>6, <2>1, ConnectivePart
<1> HIDE DEF c, p, q, sigma, H, B, if, then
<1>11. CASE if.fit.success
    <2> DEFINE fit == Consequent(then.fit)
    <2>1. /\ fit \in Fits /\ WellCounted(fit)
          /\ NonEmpty(then.fit) => NonEmpty(fit)
          /\ fit.success = then.fit.success /\ fit.failing = then.fit.failing
        <3>1. then.fit \in Fits /\ WellCounted(then.fit)
            BY <1>10 DEF RightFor
        <3> QED
            BY <3>1, ConsequentCounts
    <2> HIDE DEF fit
    <2>2. Clean(os, i, sigma) => (fit.success <=> H[i][sigma])
        BY <1>5, <1>7, <1>10, <1>11, <2>1 DEF RightFor
    <2>3. Right(os, i, tree, sigma, fit)
        BY <1>10, <2>1, <2>2 DEF Right, RightFor, H
    <2>4. Computed(c, tree, parts, st) = Result(fit, then)
        BY <1>4, <1>11 DEF fit
    <2> QED
        BY <1>8, <1>9, <2>3, <2>4 DEF Good, Result, c, sigma, B
<1>12. CASE ~if.fit.success
    <2> DEFINE fit == Plain(1, 1, TRUE, {})
    <2>1. fit \in Fits /\ WellCounted(fit) /\ NonEmpty(fit) /\ fit.success
        BY DEF Plain, Fits, WellCounted, NonEmpty
    <2> HIDE DEF fit
    <2>2. Clean(os, i, sigma) => H[i][sigma]
        BY <1>5, <1>7, <1>12 DEF RightFor
    <2>3. Right(os, i, tree, sigma, fit)
        BY <2>1, <2>2 DEF Right, RightFor, H
    <2>4. Computed(c, tree, parts, st) = Result(fit, if)
        BY <1>4, <1>12 DEF fit
    <2> QED
        BY <1>3, <1>6, <2>3, <2>4 DEF Good, Result, c, sigma, B
<1> QED
    BY <1>11, <1>12

LEMMA FindFacts ==
    ASSUME NEW s \in Symbols, NEW tree \in Seq(Data), NEW sigma \in Scopes(tree)
    PROVE  LET found == Find(s, tree, sigma)
           IN /\ Len(found) \in Nat
              /\ DOMAIN found = 1..Len(found)
              /\ tree # <<>> => Len(found) >= 1
              /\ \A k \in 1..Len(found) : found[k] \in 1..Len(tree)
<1>1. s \in Names /\ Len(tree) \in Nat /\ (tree # <<>> => Len(tree) >= 1)
    BY DEF Names
<1>2. CASE sigma[s] # 0
    <2>1. Find(s, tree, sigma) = <<sigma[s]>>
        BY <1>2 DEF Find
    <2>2. sigma[s] \in 0..Len(tree)
        BY <1>1 DEF Scopes
    <2> QED
        BY <1>2, <2>1, <2>2
<1>3. CASE sigma[s] = 0
    <2>1. Find(s, tree, sigma) = [n \in 1..Len(tree) |-> n]
        BY <1>3 DEF Find
    <2> QED
        BY <1>1, <2>1
<1> QED
    BY <1>2, <1>3

LEMMA RunInstancesRight ==
    ASSUME NEW os, Ordered(os), NEW i \in DOMAIN os, os[i].kind \in Quantifier,
           NEW tree \in Seq(Data), NEW parts, Evaluator(os, os[i].parts[1], tree, parts[1]),
           NEW st \in States(tree), Sound(os, st.cache), NEW enough
    PROVE  LET found == Find(os[i].search, tree, st.scope)
               n == Len(found)
               done == RunInstances(os[i], tree, parts, enough, st)
           IN /\ done.fits \in Seq(Fits)
              /\ \/ Len(done.fits) = n
                 \/ Len(done.fits) \in 1..n /\ done.fits[Len(done.fits)].success = enough
              /\ \A k \in 1..Len(done.fits) :
                    RightFor(os, i, tree, st.scope, done.fits[k],
                             Holds(os, tree)[os[i].parts[1]]
                                            [With(st.scope, os[i].bound, found[k])])
              /\ done.scope \in Scopes(tree)
              /\ Extends(ScopingOf(os)[i].bound, {}, st.scope, done.scope)
              /\ done.cache \in SUBSET Entries
              /\ Sound(os, done.cache)
<1> DEFINE sigma == st.scope
           found == Find(os[i].search, tree, sigma)
           n == Len(found)
           p == os[i].parts[1]
           x == os[i].bound
           B == ScopingOf(os)[p].bound
           G == {tau \in Scopes(tree) : Extends(B, {x}, sigma, tau)}
           calls == [k \in 1..n |-> [part |-> 1, names |-> {x}, node |-> found[k]]]
           obj == [k \in 1..n |-> p]
           run == Run(parts, calls, os[i].lazy, enough, st)
           done == RunInstances(os[i], tree, parts, enough, st)
<1>0. x \in Names /\ os[i].search \in Symbols
    BY ObjectFacts
<1>3. sigma \in Scopes(tree) /\ st.cache \in SUBSET Entries
    BY DEF States
<1>1. n \in Nat /\ \A k \in 1..n : found[k] \in 1..Len(tree)
    BY <1>0, <1>3, FindFacts
<1> HIDE DEF found
<1>2. Len(calls) = n /\ \A k \in 1..n : /\ calls[k].part = 1 /\ calls[k].names = {x}
                                       /\ calls[k].node = found[k]
    BY <1>1
<1>4. sigma \in G
    BY <1>3, ExtendsItself
<1>5. ASSUME NEW tau \in Scopes(tree), NEW k \in 1..n
      PROVE  /\ Entered(tau, calls[k]) = With(tau, x, found[k])
             /\ With(tau, x, found[k]) \in Scopes(tree)
    <2>1. /\ calls[k].names = {x} /\ calls[k].node = found[k]
          /\ found[k] \in 0..Len(tree)
        BY <1>1, <1>2
    <2> HIDE DEF calls, x, n
    <2> QED
        BY <1>0, <2>1 DEF Entered, With, Scopes
<1>6. ScopingOf(os)[i].bound = B \cup {x}
    BY ScopingByKind
<1>7. \A k \in 1..n : Evaluator(os, obj[k], tree, parts[calls[k].part])
    BY <1>2
<1>8. ASSUME NEW k \in 1..n, NEW tau \in G
      PROVE  /\ Entered(tau, calls[k]) \in Scopes(tree)
             /\ \A upsilon \in Scopes(tree) :
                   Extends(ScopingOf(os)[obj[k]].bound, {}, Entered(tau, calls[k]), upsilon)
                   => upsilon \in G
    <2>1. Entered(tau, calls[k]) = With(tau, x, found[k])
          /\ With(tau, x, found[k]) \in Scopes(tree)
        BY <1>5
    <2>2. ASSUME NEW upsilon \in Scopes(tree),
                 Extends(B, {}, With(tau, x, found[k]), upsilon)
          PROVE  Extends(B, {x}, sigma, upsilon)
        <3>1. tau \in Scopes(tree) /\ Extends(B, {x}, sigma, tau) /\ found[k] \in 1..Len(tree)
            BY <1>1
        <3> HIDE DEF B, sigma, x
        <3> QED
            BY <1>0, <1>3, <2>2, <3>1, ExtendsAgain
    <2>3. obj[k] = p
        OBVIOUS
    <2> HIDE DEF calls, obj, x, p
    <2> QED
        BY <2>1, <2>2, <2>3
<1>10. RanWell(os, tree, calls, obj, G, os[i].lazy, enough, run)
    <2> HIDE DEF calls, obj, G, n, sigma
    <2>1. st.scope \in G
        BY <1>4 DEF sigma
    <2> QED
        BY <1>1, <1>2, <1>3, <1>7, <1>8, <2>1, RunsWell
<1>9. done = [run EXCEPT !.scope = [y \in Names |-> IF SameKind(y) \cap BoundIn(sigma) = {}
                                                    THEN 0 ELSE @[y]]]
    BY DEF RunInstances, found
<1> DEFINE left == [y \in Names |-> IF SameKind(y) \cap BoundIn(sigma) = {} THEN 0
                                   ELSE run.scope[y]]
<1> HIDE DEF done, calls, run
<1>11. done.fits = run.fits /\ done.scope = left /\ done.cache = run.cache
    <2>1. run = [fits |-> run.fits, scope |-> run.scope, cache |-> run.cache,
                 stop |-> run.stop]
        BY <1>10 DEF RanWell
    <2>2. done = [run EXCEPT !.scope = left]
        BY <1>9
    <2> HIDE DEF left
    <2> QED
        BY <2>1, <2>2
<1>12. run.scope \in Scopes(tree) /\ Extends(B, {x}, sigma, run.scope)
    BY <1>10 DEF RanWell
<1>13. left \in Scopes(tree)
    <2>1. \A y \in Names : run.scope[y] \in 0..Len(tree)
        BY <1>12 DEF Scopes
    <2>2. 0 \in 0..Len(tree)
        OBVIOUS
    <2> QED
        BY <2>1, <2>2 DEF Scopes
<1>14. Extends(ScopingOf(os)[i].bound, {}, sigma, left)
    <2> HIDE DEF B, x, sigma
    <2> QED
        BY <1>0, <1>6, <1>12, ExtendsAfter
<1>15. ASSUME NEW k \in 1..Len(run.fits)
       PROVE  RightFor(os, i, tree, sigma, run.fits[k],
                       Holds(os, tree)[p][With(sigma, x, found[k])])
    <2>1. k \in 1..n
        BY <1>1, <1>2, <1>10 DEF RanWell
    <2>2. PICK tau \in G : Right(os, obj[k], tree, Entered(tau, calls[k]), run.fits[k])
        BY <1>10 DEF RanWell
    <2>3. Right(os, p, tree, With(tau, x, found[k]), run.fits[k])
        BY <1>5, <2>1, <2>2
    <2>4. tau \in Scopes(tree) /\ Extends(B, {x}, sigma, tau)
        BY <2>2
    <2>5. Len(tree) \in Nat /\ found[k] \in 1..Len(tree)
        BY <1>1, <2>1
    <2> HIDE DEF sigma
    <2> QED
        BY <1>3, <2>3, <2>4, <2>5, QuantifierPart
<1> HIDE DEF left
<1>16. /\ run.fits \in Seq(Fits)
       /\ \/ Len(run.fits) = n
          \/ Len(run.fits) \in 1..n /\ run.fits[Len(run.fits)].success = enough
       /\ run.cache \in SUBSET Entries
       /\ Sound(os, run.cache)
    BY <1>2, <1>10 DEF RanWell
<1> QED
    BY <1>11, <1>13, <1>14, <1>15, <1>16 DEF done, found

LEMMA ExistsRight ==
    ASSUME NEW os, Ordered(os), NEW i \in DOMAIN os, os[i].kind = "exists",
           NEW tree \in Seq(Data), NEW parts, Evaluator(os, os[i].parts[1], tree, parts[1]),
           NEW st \in States(tree), Sound(os, st.cache)
    PROVE  Good(os, i, tree, st.scope, Computed(os[i], tree, parts, st))
<1> DEFINE c == os[i]
           sigma == st.scope
           found == Find(c.search, tree, sigma)
           n == Len(found)
           H == Holds(os, tree)
           done == RunInstances(c, tree, parts, TRUE, st)
           means == [k \in 1..n |-> H[c.parts[1]][With(sigma, c.bound, found[k])]]
           fit == PerfectIf(AnySucceeds(done.fits), done.fits, Extra(c))
<1>1. c.kind \in Quantifier /\ sigma \in Scopes(tree) /\ c.search \in Symbols
    BY ObjectFacts DEF Quantifier, States
<1>2. /\ done.fits \in Seq(Fits)
      /\ \/ Len(done.fits) = n
         \/ Len(done.fits) \in 1..n /\ done.fits[Len(done.fits)].success = TRUE
      /\ \A k \in 1..Len(done.fits) :
            RightFor(os, i, tree, sigma, done.fits[k],
                     H[c.parts[1]][With(sigma, c.bound, found[k])])
      /\ done.scope \in Scopes(tree)
      /\ Extends(ScopingOf(os)[i].bound, {}, sigma, done.scope)
      /\ done.cache \in SUBSET Entries
      /\ Sound(os, done.cache)
    BY <1>1, RunInstancesRight
<1>3. n \in Nat /\ DOMAIN found = 1..n /\ (tree # <<>> => n >= 1)
    BY <1>1, FindFacts
<1>5. Extra(c) = 1
    BY <1>1 DEF Extra
<1>6. H[i][sigma] <=> \E m \in ItemsOf(found) : H[c.parts[1]][With(sigma, c.bound, m)]
    <2> HIDE DEF sigma
    <2>1. c.kind = "exists" =>
             (H[i][sigma] <=> \E m \in ItemsOf(Find(c.search, tree, sigma)) :
                                 H[c.parts[1]][With(sigma, c.bound, m)])
        BY <1>1, HoldsByKind
    <2> QED
        BY <2>1
<1>7. Computed(c, tree, parts, st) = Result(fit, done)
    BY DEF Computed
<1> HIDE DEF c, H, done, sigma, found
<1>8. RightFor(os, i, tree, sigma, fit, \E k \in 1..n : means[k])
    <2>1. \A k \in 1..Len(done.fits) : RightFor(os, i, tree, sigma, done.fits[k], means[k])
        BY <1>2, <1>3
    <2>2. /\ Extra(c) \in {0, 1} /\ (Extra(c) = 0 => n = 1)
          /\ tree = <<>> \/ n >= 1
        BY <1>3, <1>5
    <2> HIDE DEF n, means
    <2> QED
        BY <1>2, <1>3, <2>1, <2>2, AnyRight, ZenonT(60)
<1>9. Right(os, i, tree, sigma, fit)
    <2>1. (\E k \in 1..n : means[k]) <=> H[i][sigma]
        BY <1>3, <1>6 DEF ItemsOf
    <2> HIDE DEF fit, means
    <2> QED
        BY <1>8, <2>1 DEF Right, RightFor, H
<1> HIDE DEF fit
<1> QED
    BY <1>2, <1>7, <1>9 DEF Good, Result, c, sigma

LEMMA ForallRight ==
    ASSUME NEW os, Ordered(os), NEW i \in DOMAIN os, os[i].kind = "forall",
           NEW tree \in Seq(Data), NEW parts, Evaluator(os, os[i].parts[1], tree, parts[1]),
           NEW st \in States(tree), Sound(os, st.cache)
    PROVE  Good(os, i, tree, st.scope, Computed(os[i], tree, parts, st))
<1> DEFINE c == os[i]
           sigma == st.scope
           found == Find(c.search, tree, sigma)
           n == Len(found)
           H == Holds(os, tree)
           done == RunInstances(c, tree, parts, FALSE, st)
           means == [k \in 1..n |-> H[c.parts[1]][With(sigma, c.bound, found[k])]]
           fit == PerfectIf(AllSucceed(done.fits), done.fits, Extra(c))
<1>1. c.kind \in Quantifier /\ sigma \in Scopes(tree) /\ c.search \in Symbols
    BY ObjectFacts DEF Quantifier, States
<1>2. /\ done.fits \in Seq(Fits)
      /\ \/ Len(done.fits) = n
         \/ Len(done.fits) \in 1..n /\ done.fits[Len(done.fits)].success = FALSE
      /\ \A k \in 1..Len(done.fits) :
            RightFor(os, i, tree, sigma, done.fits[k],
                     H[c.parts[1]][With(sigma, c.bound, found[k])])
      /\ done.scope \in Scopes(tree)
      /\ Extends(ScopingOf(os)[i].bound, {}, sigma, done.scope)
      /\ done.cache \in SUBSET Entries
      /\ Sound(os, done.cache)
    BY <1>1, RunInstancesRight
<1>3. n \in Nat /\ DOMAIN found = 1..n
    BY <1>1, FindFacts
<1>5. Extra(c) = 1
    BY <1>1 DEF Extra
<1>6. H[i][sigma] <=> \A m \in ItemsOf(found) : H[c.parts[1]][With(sigma, c.bound, m)]
    <2> HIDE DEF sigma
    <2>1. c.kind = "forall" =>
             (H[i][sigma] <=> \A m \in ItemsOf(Find(c.search, tree, sigma)) :
                                 H[c.parts[1]][With(sigma, c.bound, m)])
        BY <1>1, HoldsByKind
    <2> QED
        BY <2>1
<1>7. Computed(c, tree, parts, st) = Result(fit, done)
    BY DEF Computed
<1> HIDE DEF c, H, done, sigma, found
<1>8. RightFor(os, i, tree, sigma, fit, \A k \in 1..n : means[k])
    <2>1. \A k \in 1..Len(done.fits) : RightFor(os, i, tree, sigma, done.fits[k], means[k])
        BY <1>2, <1>3
    <2> HIDE DEF n, means
    <2> QED
        BY <1>2, <1>3, <1>5, <2>1, AllRight
<1>9. Right(os, i, tree, sigma, fit)
    <2>1. (\A k \in 1..n : means[k]) <=> H[i][sigma]
        BY <1>3, <1>6 DEF ItemsOf
    <2> HIDE DEF fit, means
    <2> QED
        BY <1>8, <2>1 DEF Right, RightFor, H
<1> HIDE DEF fit
<1> QED
    BY <1>2, <1>7, <1>9 DEF Good, Result, c, sigma

LEMMA AtomicRight ==
    ASSUME NEW os, Ordered(os), NEW i \in DOMAIN os, os[i].kind \in Atomic,
           NEW tree \in Seq(Data), NEW parts, NEW st \in States(tree), Sound(os, st.cache)
    PROVE  Good(os, i, tree, st.scope, Computed(os[i], tree, parts, st))
<1> DEFINE sigma == st.scope
           fit == IF os[i].kind = "comparison" THEN ComparisonFitness(os[i], tree, sigma)
                  ELSE ExpressionFitness(os[i], tree, sigma)
<1>1. sigma \in Scopes(tree) /\ st.cache \in SUBSET Entries
    BY DEF States
<1>2. Right(os, i, tree, sigma, fit)
    BY <1>1, ComparisonRight, ExpressionRight DEF Atomic
<1>3. Computed(os[i], tree, parts, st) = Result(fit, st)
    BY DEF Computed, Atomic
<1>4. Extends(ScopingOf(os)[i].bound, {}, sigma, sigma)
    BY <1>1, ExtendsItself
<1> HIDE DEF fit, sigma
<1> QED
    BY <1>1, <1>2, <1>3, <1>4 DEF Good, Result, sigma

LEMMA EvaluatorStep ==
    ASSUME NEW os, Ordered(os), NEW i \in DOMAIN os, NEW tree \in Seq(Data), NEW parts,
           \A k \in 1..Len(os[i].parts) : Evaluator(os, os[i].parts[k], tree, parts[k])
    PROVE  Evaluator(os, i, tree, Evaluation(i, os[i], tree, parts))
<1>1. ASSUME NEW st \in States(tree), Sound(os, st.cache)
      PROVE  Good(os, i, tree, st.scope, Computed(os[i], tree, parts, st))
    <2>1. os[i].kind \in Atomic \cup Connective \cup Quantifier
          /\ (os[i].kind \in Quantifier => Len(os[i].parts) = 1)
        BY ObjectFacts
    <2>2. os[i].kind \in Quantifier => Evaluator(os, os[i].parts[1], tree, parts[1])
        BY <2>1
    <2>3. CASE os[i].kind \in Atomic
        BY <1>1, <2>3, AtomicRight
    <2>4. CASE os[i].kind = "conjunction"
        BY <1>1, <2>4, ConjunctionRight
    <2>5. CASE os[i].kind = "disjunction"
        BY <1>1, <2>5, DisjunctionRight
    <2>6. CASE os[i].kind = "implication"
        BY <1>1, <2>6, ImplicationRight
    <2>7. CASE os[i].kind = "exists"
        BY <1>1, <2>2, <2>7, ExistsRight DEF Quantifier
    <2>8. CASE os[i].kind = "forall"
        BY <1>1, <2>2, <2>8, ForallRight DEF Quantifier
    <2> QED
        BY <2>1, <2>3, <2>4, <2>5, <2>6, <2>7, <2>8 DEF Connective, Quantifier
<1> QED
    BY <1>1, EvaluationRight

(* Every object evaluates as it should, with whatever is cached.           *)
LEMMA FitnessRight ==
    ASSUME NEW os, Ordered(os), NEW tree \in Seq(Data)
    PROVE  \A i \in DOMAIN os : Evaluator(os, i, tree, Fitness(os, tree)[i])
<1> DEFINE n == Len(os)
           F == Fitness(os, tree)
           T == {m \in 0..n : \A i \in 1..m : Evaluator(os, i, tree, F[i])}
<1>1. n \in Nat /\ DOMAIN os = 1..n
    BY DEF Ordered
<1>2. 0 \in T
    BY <1>1
<1>3. ASSUME NEW m \in 0..n, m \in T, m < n PROVE m + 1 \in T
    <2> DEFINE i == m + 1
               parts == PartsOf(F, os, i)
    <2>1. i \in DOMAIN os /\ m \in Nat /\ i - 1 = m
        BY <1>1, <1>3
    <2>2. \A k \in 1..Len(os[i].parts) : os[i].parts[k] \in 1..m
        <3>1. \A k \in 1..Len(os[i].parts) : os[i].parts[k] \in 1..(i - 1)
            BY <2>1, PartsComeBefore
        <3> QED
            BY <2>1, <3>1
    <2>3. \A k \in 1..Len(os[i].parts) : parts[k] = F[os[i].parts[k]]
        BY DEF PartsOf
    <2>4. \A k \in 1..Len(os[i].parts) : Evaluator(os, os[i].parts[k], tree, parts[k])
        BY <1>3, <2>2, <2>3
    <2>5. F[i] = Evaluation(i, os[i], tree, parts)
        BY <2>1, FitnessUnfolds
    <2>6. Evaluator(os, i, tree, F[i])
        <3> HIDE DEF i, parts, F
        <3> QED
            BY <2>1, <2>4, <2>5, EvaluatorStep
    <2>7. \A j \in 1..(m + 1) : j \in 1..m \/ j = m + 1
        BY <2>1
    <2> HIDE DEF F
    <2> QED
        BY <1>1, <1>3, <2>1, <2>6, <2>7
<1>4. \A m \in 0..n : m \in T /\ m < n => m + 1 \in T
    <2> HIDE DEF T
    <2> QED
        BY <1>3
<1>5. n \in T
    <2> HIDE DEF T, n
    <2>1. \A m \in 0..n : m \in T
        BY <1>1, <1>2, <1>4, Induction
    <2> QED
        BY <1>1, <2>1
<1> QED
    BY <1>1, <1>5

-----------------------------------------------------------------------------
(* The evaluator.                                                          *)

LEMMA HardRight ==
    ASSUME Ordered(objects), hard \in Seq(DOMAIN objects), NEW tree \in Seq(Data),
           cache \in SUBSET Entries, Sound(objects, cache)
    PROVE  LET done == Evaluated(tree)
           IN /\ Len(done.fits) = Len(hard)
              /\ \A k \in 1..Len(hard) :
                    Right(objects, hard[k], tree, Nothing, done.fits[k])
              /\ done.cache \in SUBSET Entries
              /\ Sound(objects, done.cache)
<1> DEFINE n == Len(hard)
           F == Fitness(objects, tree)
           st == [scope |-> Nothing, cache |-> cache]
           G == Scopes(tree)
           done == Evaluated(tree)
<1>1. n \in Nat /\ DOMAIN hard = 1..n /\ \A k \in 1..n : hard[k] \in DOMAIN objects
    OBVIOUS
<1>2. Nothing \in Scopes(tree)
    BY DEF Nothing, Scopes
<1>3. Len(HardCalls) = n
      /\ \A k \in 1..n : /\ HardCalls[k].part = hard[k] /\ HardCalls[k].names = Names
                         /\ HardCalls[k].node = 0
    BY <1>1 DEF HardCalls
<1>4. ASSUME NEW sigma, NEW k \in 1..n PROVE Entered(sigma, HardCalls[k]) = Nothing
    BY <1>3 DEF Entered, Nothing
<1>5. \A k \in 1..n : Evaluator(objects, hard[k], tree, F[HardCalls[k].part])
    BY <1>1, <1>3, FitnessRight
<1>6. st.scope = Nothing /\ st.cache = cache
    OBVIOUS
<1>7. done = Run(F, HardCalls, FALSE, FALSE, st)
    BY DEF Evaluated
<1> HIDE DEF F, st, G, n, done
<1>8. RanWell(objects, tree, HardCalls, hard, G, FALSE, FALSE, done)
    <2>1. st.scope \in G /\ st.cache \in SUBSET Entries /\ Sound(objects, st.cache)
        BY <1>2, <1>6 DEF G
    <2>2. \A k \in 1..n, sigma \in G :
             /\ Entered(sigma, HardCalls[k]) \in Scopes(tree)
             /\ \A tau \in Scopes(tree) :
                   Extends(ScopingOf(objects)[hard[k]].bound, {},
                           Entered(sigma, HardCalls[k]), tau)
                   => tau \in G
        BY <1>2, <1>4 DEF G
    <2> QED
        BY <1>1, <1>3, <1>5, <1>7, <2>1, <2>2, RunsWell
<1>9. Len(done.fits) = n
    BY <1>3, <1>8 DEF RanWell
<1>10. ASSUME NEW k \in 1..n PROVE Right(objects, hard[k], tree, Nothing, done.fits[k])
    <2>1. PICK tau \in G :
             Right(objects, hard[k], tree, Entered(tau, HardCalls[k]), done.fits[k])
        BY <1>8, <1>9 DEF RanWell
    <2> QED
        BY <1>4, <2>1
<1>11. done.cache \in SUBSET Entries /\ Sound(objects, done.cache)
    BY <1>8 DEF RanWell
<1> QED
    BY <1>9, <1>10, <1>11 DEF done, n

(* What holds of all states: everything that was ever cached is right.     *)
EvaluationInv ==
    /\ Ordered(objects)
    /\ hard \in Seq(DOMAIN objects)
    /\ cache \in SUBSET Entries
    /\ Sound(objects, cache)
    /\ last # None =>
          /\ last.tree \in Seq(Data)
          /\ Len(last.hard) = Len(hard)
          /\ \A k \in 1..Len(hard) :
                Right(objects, hard[k], last.tree, Nothing, last.hard[k])

(* The fitness of each hard constraint is right, whatever was evaluated    *)
(* before, and so is every entry of every cache.                           *)
THEOREM EvaluationIsRight == Spec => []EvaluationInv
<1>1. Init => EvaluationInv
    <2> SUFFICES ASSUME Init PROVE EvaluationInv
        OBVIOUS
    <2>1. PICK s \in Specifications : objects = s.objects /\ hard = s.hard
        BY DEF Init
    <2>2. Ordered(objects) /\ hard \in Seq(DOMAIN objects)
        BY <2>1, ScoringAssumption DEF Ordered
    <2> QED
        BY <2>2 DEF Init, EvaluationInv, Sound
<1>2. EvaluationInv /\ [Next]_vars => EvaluationInv'
    <2> SUFFICES ASSUME EvaluationInv, [Next]_vars PROVE EvaluationInv'
        OBVIOUS
    <2>1. CASE EvaluateIndividual
        <3>1. PICK tree \in Trees :
                 /\ cache' = Evaluated(tree).cache
                 /\ last' = [tree |-> tree, hard |-> Evaluated(tree).fits,
                             bounds |-> BoundsFits(tree, Evaluated(tree).fits)]
            BY <2>1 DEF EvaluateIndividual
        <3>2. tree \in Seq(Data)
            BY ScoringAssumption
        <3>3. UNCHANGED <<objects, hard>>
            BY <2>1 DEF EvaluateIndividual
        <3> DEFINE done == Evaluated(tree)
        <3>4. /\ Len(done.fits) = Len(hard)
              /\ \A k \in 1..Len(hard) :
                    Right(objects, hard[k], tree, Nothing, done.fits[k])
              /\ done.cache \in SUBSET Entries
              /\ Sound(objects, done.cache)
            BY <3>2, HardRight DEF EvaluationInv
        <3>5. last'.tree = tree /\ last'.hard = done.fits /\ cache' = done.cache
            BY <3>1
        <3> HIDE DEF done
        <3> QED
            BY <3>2, <3>3, <3>4, <3>5 DEF EvaluationInv
    <2>2. CASE UNCHANGED vars
        BY <2>2 DEF vars, EvaluationInv
    <2> QED
        BY <2>1, <2>2 DEF Next
<1> QED
    BY <1>1, <1>2, PTL DEF Spec

(* Without a scope and without local variables.                            *)
LEMMA OutsideClean ==
    ASSUME NEW k, ScopingOfHard(k).apart
    PROVE  Clean(objects, hard[k], Nothing)
    BY DEF ScopingOfHard, Clean, BoundIn, Nothing

LEMMA OutsideEvaluates ==
    ASSUME NEW k, NEW tree, Evaluable(ScopingOfHard(k), tree)
    PROVE  Evaluates(objects, hard[k], tree, Nothing)
    BY DEF ScopingOfHard, Evaluable, Evaluates

(* For all constraints: a hard constraint succeeds on a tree iff it holds  *)
(* there, lazy or not, with what earlier evaluations have left in the      *)
(* caches.                                                                 *)
THEOREM SuccessIsMeaning == Spec => []ChecksMeaning
<1>1. EvaluationInv => ChecksMeaning
    <2> SUFFICES ASSUME EvaluationInv, last # None, NEW k \in DOMAIN hard,
                        ScopingOfHard(k).apart
                 PROVE  last.hard[k].success = Holds(objects, last.tree)[hard[k]][Nothing]
        BY DEF ChecksMeaning
    <2>1. /\ Ordered(objects) /\ last.tree \in Seq(Data)
          /\ k \in 1..Len(hard) /\ hard[k] \in DOMAIN objects
          /\ Right(objects, hard[k], last.tree, Nothing, last.hard[k])
        BY DEF EvaluationInv
    <2>2. Nothing \in Scopes(last.tree)
        BY <2>1 DEF Nothing, Scopes
    <2>3. Holds(objects, last.tree)[hard[k]][Nothing] \in BOOLEAN
        BY <2>1, <2>2, HoldsByKind
    <2>4. last.hard[k].success \in BOOLEAN
        BY <2>1 DEF Right, RightFor, Fits
    <2>5. last.hard[k].success <=> Holds(objects, last.tree)[hard[k]][Nothing]
        BY <2>1, OutsideClean DEF Right, RightFor
    <2> QED
        BY <2>3, <2>4, <2>5
<1> QED
    BY <1>1, EvaluationIsRight, PTL

(* The number of a constraint, which is all that the evaluator looks at,   *)
(* is one only if it succeeds, and always then if it can be evaluated.     *)
THEOREM NumberIsVerdict == Spec => []PerfectMeansSatisfied
<1>1. EvaluationInv => PerfectMeansSatisfied
    <2> SUFFICES ASSUME EvaluationInv, last # None, NEW k \in DOMAIN hard
                 PROVE  LET perfect == Number(last.hard[k])[1] = Number(last.hard[k])[2]
                        IN /\ perfect => last.hard[k].success
                           /\ last.hard[k].success
                                 /\ Evaluable(ScopingOfHard(k), last.tree) => perfect
        BY DEF PerfectMeansSatisfied
    <2> DEFINE fit == last.hard[k]
               n == IF fit.values = None THEN <<fit.solved, fit.total>> ELSE fit.values
    <2>1. Right(objects, hard[k], last.tree, Nothing, fit)
        BY DEF EvaluationInv
    <2>2. fit \in Fits /\ WellCounted(fit)
        BY <2>1 DEF Right, RightFor
    <2>3. Evaluable(ScopingOfHard(k), last.tree) => NonEmpty(fit)
        BY <2>1, OutsideEvaluates DEF Right, RightFor
    <2>4. Number(fit) = IF n[2] = 0 THEN <<0, 1>> ELSE n
        BY DEF Number
    <2> HIDE DEF fit
    <2>5. n[1] \in Nat /\ n[2] \in Nat
        BY <2>2 DEF Fits
    <2>6. fit.success <=> n[1] = n[2]
        BY <2>2 DEF WellCounted
    <2>7. NonEmpty(fit) => n[2] # 0
        BY <2>2 DEF NonEmpty, Fits
    <2>8. Number(fit)[1] = Number(fit)[2] <=> n[2] # 0 /\ n[1] = n[2]
        <3> HIDE DEF n
        <3>1. CASE n[2] = 0
            BY <2>4, <3>1
        <3>2. CASE n[2] # 0
            BY <2>4, <3>2
        <3> QED
            BY <3>1, <3>2
    <2> QED
        BY <2>3, <2>6, <2>7, <2>8 DEF fit
<1> QED
    BY <1>1, EvaluationIsRight, PTL

(* A constraint that fails, and whose expressions can be evaluated and     *)
(* have a search each, names a node to mutate.                             *)
THEOREM FailuresAreBlamed == Spec => []FailureIsBlamed
<1>1. EvaluationInv => FailureIsBlamed
    <2> SUFFICES ASSUME EvaluationInv, last # None, last.tree # <<>>, NEW k \in DOMAIN hard,
                        ScopingOfHard(k).searches,
                        Evaluable(ScopingOfHard(k), last.tree),
                        ~last.hard[k].success
                 PROVE  last.hard[k].failing # {}
        BY DEF FailureIsBlamed
    <2>1. Right(objects, hard[k], last.tree, Nothing, last.hard[k])
        BY DEF EvaluationInv
    <2>2. Evaluates(objects, hard[k], last.tree, Nothing)
        BY OutsideEvaluates
    <2> QED
        BY <2>1, <2>2 DEF Right, RightFor, ScopingOfHard
<1> QED
    BY <1>1, EvaluationIsRight, PTL

-----------------------------------------------------------------------------
(* Inverses.                                                               *)

(* What d has to be for the inverse of c, in terms of its parts.            *)
IsInverse(c, d, n) ==
    /\ c.kind \in Atomic =>
          /\ d.kind = c.kind /\ d.op = Opposite[c.op]
          /\ d.left = c.left /\ d.right = c.right /\ d.parts = <<>> /\ c.parts = <<>>
    /\ c.kind = "implication" =>
          d.kind = "conjunction" /\ d.parts = <<c.parts[1], n + c.parts[2]>>
    /\ c.kind \in {"conjunction", "disjunction"} \cup Quantifier =>
          /\ d.kind = Dual(c.kind)
          /\ Len(d.parts) = Len(c.parts)
          /\ \A k \in 1..Len(c.parts) : d.parts[k] = n + c.parts[k]
    /\ c.kind \in Quantifier => d.bound = c.bound /\ d.search = c.search

LEMMA InvertedFacts ==
    ASSUME NEW os, Ordered(os), NEW i \in DOMAIN os, NEW n \in Nat
    PROVE  IsObject(Inverted(os[i], n)) /\ IsInverse(os[i], Inverted(os[i], n), n)
<1> DEFINE c == os[i]
           d == Inverted(c, n)
           parts == [k \in 1..Len(c.parts) |-> n + c.parts[k]]
<1>1. IsObject(c)
    BY DEF Ordered, AreObjects
<1>p. c.parts \in Seq(Nat) /\ Len(c.parts) \in Nat
    BY PartsComeBefore
<1>q. parts \in Seq(Nat) /\ Len(parts) = Len(c.parts)
      /\ \A k \in 1..Len(c.parts) : parts[k] = n + c.parts[k]
    <2>1. \A k \in 1..Len(c.parts) : n + c.parts[k] \in Nat
        <3> HIDE DEF c
        <3> QED
            BY <1>p
    <2> HIDE DEF c
    <2> QED
        BY <1>p, <2>1
<1> HIDE DEF c
<1>2. CASE c \in [kind : Atomic, op : Operators, left : Operands,
                  right : Operands, parts : {<<>>}]
    <2>a. c.op \in Operators
        BY <1>2
    <2>b. \A op \in Operators : Opposite[op] \in Operators
        BY DEF Operators, Opposite
    <2>1. c.op \in Operators /\ Opposite[c.op] \in Operators
        BY <2>a, <2>b
    <2>2. d = [c EXCEPT !.op = Opposite[c.op]]
        <3>1. c.kind \in Atomic
            BY <1>2
        <3> QED
            BY <3>1 DEF Inverted, Atomic
    <2>3. /\ d \in [kind : Atomic, op : Operators, left : Operands,
                    right : Operands, parts : {<<>>}]
          /\ d.kind = c.kind /\ d.op = Opposite[c.op]
          /\ d.left = c.left /\ d.right = c.right
        <3> HIDE DEF d
        <3> QED
            BY <1>2, <2>1, <2>2
    <2>4. c.kind \in Atomic /\ c.parts = <<>> /\ d.parts = <<>>
        BY <1>2, <2>3
    <2> HIDE DEF d
    <2> QED
        BY <2>3, <2>4 DEF IsObject, IsInverse, Atomic, Quantifier, c, d
<1>3. CASE c \in [kind : {"conjunction", "disjunction"}, lazy : BOOLEAN, parts : Seq(Nat)]
           /\ c.parts # <<>>
    <2>1. c.kind \in {"conjunction", "disjunction"}
        BY <1>3
    <2>2. Dual(c.kind) \in {"conjunction", "disjunction"}
        BY <2>1 DEF Dual
    <2>3. d = [c EXCEPT !.kind = Dual(c.kind), !.parts = parts]
        BY <2>1 DEF Inverted, Atomic
    <2>4. parts # <<>>
        BY <1>3, <1>p, <1>q
    <2> HIDE DEF parts, d
    <2>5. /\ d \in [kind : {"conjunction", "disjunction"}, lazy : BOOLEAN, parts : Seq(Nat)]
          /\ d.kind = Dual(c.kind) /\ d.parts = parts
        BY <1>3, <1>q, <2>2, <2>3
    <2> QED
        BY <1>q, <2>1, <2>4, <2>5 DEF IsObject, IsInverse, Atomic, Quantifier, c, d
<1>4. CASE c \in [kind : {"implication"}, parts : Seq(Nat)] /\ Len(c.parts) = 2
    <2>1. c.kind = "implication" /\ c.parts[1] \in Nat /\ n + c.parts[2] \in Nat
        BY <1>4
    <2>2. d = [kind |-> "conjunction", lazy |-> FALSE,
               parts |-> <<c.parts[1], n + c.parts[2]>>]
        BY <2>1 DEF Inverted, Atomic
    <2> HIDE DEF d
    <2>3. d \in [kind : {"conjunction", "disjunction"}, lazy : BOOLEAN, parts : Seq(Nat)]
          /\ d.parts # <<>>
        BY <2>1, <2>2
    <2>4. d.kind = "conjunction" /\ d.parts = <<c.parts[1], n + c.parts[2]>>
        BY <2>2
    <2> QED
        BY <2>1, <2>3, <2>4 DEF IsObject, IsInverse, Atomic, Quantifier, c, d
<1>5. CASE c \in [kind : Quantifier, lazy : BOOLEAN, bound : Names, search : Symbols,
                  parts : Seq(Nat)]
           /\ Len(c.parts) = 1
    <2>1. c.kind \in {"exists", "forall"}
        BY <1>5 DEF Quantifier
    <2>2. Dual(c.kind) \in Quantifier
        BY <2>1 DEF Dual, Quantifier
    <2>3. d = [c EXCEPT !.kind = Dual(c.kind), !.parts = parts]
        BY <2>1 DEF Inverted, Atomic
    <2> HIDE DEF parts, d
    <2>5. /\ d \in [kind : Quantifier, lazy : BOOLEAN, bound : Names, search : Symbols,
                    parts : Seq(Nat)]
          /\ d.kind = Dual(c.kind) /\ d.parts = parts
          /\ d.bound = c.bound /\ d.search = c.search
        BY <1>5, <1>q, <2>2, <2>3
    <2> QED
        BY <1>5, <1>q, <2>1, <2>5 DEF IsObject, IsInverse, Atomic, Quantifier, c, d
<1> QED
    BY <1>1, <1>2, <1>3, <1>4, <1>5 DEF IsObject

LEMMA InversesOrdered ==
    ASSUME NEW os, Ordered(os)
    PROVE  LET n == Len(os)
               W == WithInverses(os)
           IN /\ Ordered(W)
              /\ Len(W) = 2 * n
              /\ \A i \in 1..n : W[i] = os[i] /\ W[n + i] = Inverted(os[i], n)
<1> DEFINE n == Len(os)
           W == WithInverses(os)
<1>1. n \in Nat /\ DOMAIN os = 1..n
    BY DEF Ordered
<1>2. /\ DOMAIN W = 1..(2 * n)
      /\ \A i \in 1..(2 * n) : W[i] = IF i <= n THEN os[i] ELSE Inverted(os[i - n], n)
    BY DEF WithInverses
<1>3. Len(W) = 2 * n
    <2>1. W = [i \in 1..(2 * n) |-> W[i]]
        BY DEF WithInverses
    <2> HIDE DEF W, n
    <2> QED
        BY <1>1, <2>1
<1> HIDE DEF W, n
<1>4. ASSUME NEW i \in 1..n PROVE W[i] = os[i] /\ W[n + i] = Inverted(os[i], n)
    <2>1. i \in 1..(2 * n) /\ i <= n /\ n + i \in 1..(2 * n) /\ ~(n + i <= n) /\ (n + i) - n = i
        BY <1>1
    <2> QED
        BY <1>2, <2>1
<1>5. ASSUME NEW i \in 1..n
      PROVE  /\ IsObject(W[i]) /\ ItemsOf(W[i].parts) \subseteq 1..(i - 1)
             /\ IsObject(W[n + i]) /\ ItemsOf(W[n + i].parts) \subseteq 1..(n + i - 1)
    <2> DEFINE c == os[i]
               d == Inverted(c, n)
    <2>1. i \in DOMAIN os /\ W[i] = c /\ W[n + i] = d
        BY <1>1, <1>4
    <2>2. IsObject(c) /\ ItemsOf(c.parts) \subseteq 1..(i - 1)
        BY <2>1 DEF Ordered, AreObjects
    <2>3. \A k \in 1..Len(c.parts) : c.parts[k] \in 1..(i - 1)
        BY <2>1, PartsComeBefore
    <2>4. /\ IsObject(d)
          /\ c.kind \in Atomic => d.parts = <<>>
          /\ c.kind = "implication" => d.parts = <<c.parts[1], n + c.parts[2]>>
          /\ c.kind \in {"conjunction", "disjunction"} \cup Quantifier =>
                Len(d.parts) = Len(c.parts)
                /\ \A k \in 1..Len(c.parts) : d.parts[k] = n + c.parts[k]
        <3>1. IsObject(d) /\ IsInverse(c, d, n)
            BY <1>1, <2>1, InvertedFacts
        <3> HIDE DEF c, d
        <3> QED
            BY <3>1 DEF IsInverse
    <2>5. c.kind \in Atomic \cup Connective \cup Quantifier
          /\ (c.kind = "implication" => Len(c.parts) = 2)
        BY <2>1, ObjectFacts
    <2>6. d.parts \in Seq(Nat)
        <3> HIDE DEF d
        <3>1. <<>> \in Seq(Nat)
            OBVIOUS
        <3>2. CASE d \in [kind : Atomic, op : Operators, left : Operands,
                          right : Operands, parts : {<<>>}]
            <4>1. d.parts = <<>>
                BY <3>2
            <4> QED
                BY <3>1, <4>1
        <3> QED
            BY <2>4, <3>2 DEF IsObject
    <2> HIDE DEF c, d
    <2>7. ASSUME NEW k \in DOMAIN d.parts PROVE d.parts[k] \in 1..(n + i - 1)
        <3>1. CASE c.kind \in Atomic
            BY <2>4, <3>1
        <3>2. CASE c.kind = "implication"
            <4>1. c.parts[1] \in 1..(i - 1) /\ c.parts[2] \in 1..(i - 1)
                BY <2>3, <2>5, <3>2
            <4>2. d.parts = <<c.parts[1], n + c.parts[2]>>
                BY <2>4, <3>2
            <4>3. \/ k = 1 /\ d.parts[k] = c.parts[1]
                  \/ k = 2 /\ d.parts[k] = n + c.parts[2]
                BY <4>2
            <4> QED
                BY <1>1, <4>1, <4>3
        <3>3. CASE c.kind \in {"conjunction", "disjunction"} \cup Quantifier
            <4>1. k \in 1..Len(c.parts)
                BY <2>4, <2>6, <3>3
            <4>2. c.parts[k] \in 1..(i - 1) /\ d.parts[k] = n + c.parts[k]
                BY <2>3, <2>4, <3>3, <4>1
            <4> QED
                BY <1>1, <4>2
        <3> QED
            BY <2>5, <3>1, <3>2, <3>3 DEF Connective
    <2> QED
        BY <2>1, <2>2, <2>4, <2>7 DEF ItemsOf
<1>6. AreObjects(W)
    <2> SUFFICES ASSUME NEW i \in 1..(2 * n)
                 PROVE  IsObject(W[i]) /\ ItemsOf(W[i].parts) \subseteq 1..(i - 1)
        BY <1>2 DEF AreObjects
    <2>1. CASE i <= n
        BY <1>1, <1>5, <2>1
    <2>2. CASE i > n
        <3>1. \E j \in 1..n : i = n + j
            <4>1. i - n \in 1..n /\ i = n + (i - n)
                BY <1>1, <2>2
            <4> QED
                BY <4>1
        <3>2. PICK j \in 1..n : i = n + j
            BY <3>1
        <3>3. IsObject(W[n + j]) /\ ItemsOf(W[n + j].parts) \subseteq 1..(n + j - 1)
            BY <1>5
        <3>4. W[i] = W[n + j] /\ 1..(i - 1) = 1..(n + j - 1)
            BY <1>1, <3>2
        <3> QED
            BY <3>3, <3>4, Zenon
    <2> QED
        BY <1>1, <2>1, <2>2
<1> QED
    BY <1>1, <1>2, <1>3, <1>4, <1>6 DEF Ordered, W, n

(* The objects themselves are the same among their inverses.               *)
LEMMA SameAmongInverses ==
    ASSUME NEW os, Ordered(os), NEW tree
    PROVE  \A i \in DOMAIN os :
              /\ Holds(WithInverses(os), tree)[i] = Holds(os, tree)[i]
              /\ ScopingOf(WithInverses(os))[i] = ScopingOf(os)[i]
<1> DEFINE n == Len(os)
           W == WithInverses(os)
           Same(i) == /\ Holds(W, tree)[i] = Holds(os, tree)[i]
                      /\ ScopingOf(W)[i] = ScopingOf(os)[i]
           T == {m \in 0..n : \A i \in 1..m : Same(i)}
<1>1. n \in Nat /\ DOMAIN os = 1..n
    BY DEF Ordered
<1>2. Ordered(W) /\ Len(W) = 2 * n /\ \A i \in 1..n : W[i] = os[i]
    BY InversesOrdered
<1>3. 0 \in T
    BY <1>1
<1>4. ASSUME NEW m \in 0..n, m \in T, m < n PROVE m + 1 \in T
    <2> DEFINE i == m + 1
    <2>1. i \in DOMAIN os /\ m \in Nat /\ i - 1 = m /\ i \in 1..n
        BY <1>1, <1>4
    <2>2. i \in DOMAIN W /\ W[i] = os[i]
        <3>1. DOMAIN W = 1..Len(W)
            BY <1>2 DEF Ordered
        <3> HIDE DEF W, n
        <3>2. i \in 1..(2 * n)
            BY <1>1, <2>1
        <3> QED
            BY <1>2, <2>1, <3>1, <3>2
    <2>3. \A k \in 1..Len(os[i].parts) : os[i].parts[k] \in 1..m
        <3>1. \A k \in 1..Len(os[i].parts) : os[i].parts[k] \in 1..(i - 1)
            BY <2>1, PartsComeBefore
        <3> QED
            BY <2>1, <3>1
    <2>4. \A k \in 1..Len(os[i].parts) : Same(os[i].parts[k])
        BY <1>4, <2>3
    <2> HIDE DEF i, W
    <2>5. /\ PartsOf(Holds(W, tree), W, i) = PartsOf(Holds(os, tree), os, i)
          /\ PartsOf(ScopingOf(W), W, i) = PartsOf(ScopingOf(os), os, i)
        BY <2>2, <2>4 DEF PartsOf
    <2>6. Holds(W, tree)[i] = Holds(os, tree)[i]
        <3>1. Holds(W, tree)[i] = Meaning(W[i], tree, PartsOf(Holds(W, tree), W, i))
            BY <1>2, <2>2, HoldsUnfolds
        <3>2. Holds(os, tree)[i] = Meaning(os[i], tree, PartsOf(Holds(os, tree), os, i))
            BY <2>1, HoldsUnfolds
        <3> QED
            BY <2>2, <2>5, <3>1, <3>2
    <2>7. ScopingOf(W)[i] = ScopingOf(os)[i]
        <3>1. ScopingOf(W)[i] = Scoping(W[i], PartsOf(ScopingOf(W), W, i))
            BY <1>2, <2>2, ScopingUnfolds
        <3>2. ScopingOf(os)[i] = Scoping(os[i], PartsOf(ScopingOf(os), os, i))
            BY <2>1, ScopingUnfolds
        <3> QED
            BY <2>2, <2>5, <3>1, <3>2
    <2>8. \A j \in 1..(m + 1) : j \in 1..m \/ j = m + 1
        BY <2>1
    <2>9. Same(i)
        BY <2>6, <2>7
    <2> HIDE DEF Same
    <2> QED
        BY <1>1, <1>4, <2>1, <2>8, <2>9 DEF i
<1>5. \A m \in 0..n : m \in T /\ m < n => m + 1 \in T
    <2> HIDE DEF T
    <2> QED
        BY <1>4
<1>6. n \in T
    <2> HIDE DEF T, n
    <2>1. \A m \in 0..n : m \in T
        BY <1>1, <1>3, <1>5, Induction
    <2> QED
        BY <1>1, <2>1
<1> QED
    BY <1>1, <1>6

(* So a fitness, or a cache, that is right for them is right there.        *)
LEMMA SoundAmongInverses ==
    ASSUME NEW os, Ordered(os), NEW store, Sound(os, store)
    PROVE  Sound(WithInverses(os), store)
<1> DEFINE W == WithInverses(os)
<1>1. DOMAIN os \subseteq DOMAIN W
    <2>1. Ordered(W) /\ Len(W) = 2 * Len(os)
        BY InversesOrdered
    <2>2. Len(os) \in Nat /\ DOMAIN os = 1..Len(os) /\ DOMAIN W = 1..Len(W)
        BY <2>1 DEF Ordered
    <2> HIDE DEF W
    <2> QED
        BY <2>1, <2>2
<1>2. ASSUME NEW i \in DOMAIN os, NEW tree, NEW sigma, NEW fit,
             Right(os, i, tree, sigma, fit)
      PROVE  Right(W, i, tree, sigma, fit)
    <2>1. Holds(W, tree)[i] = Holds(os, tree)[i] /\ ScopingOf(W)[i] = ScopingOf(os)[i]
        BY SameAmongInverses
    <2> HIDE DEF W
    <2> QED
        BY <1>2, <2>1 DEF Right, RightFor, Clean, Evaluates
<1> HIDE DEF W
<1> QED
    BY <1>1, <1>2 DEF Sound, W

(* An inverse takes, and binds, the same names.                            *)
LEMMA SameKindScoping ==
    ASSUME NEW c, NEW d, NEW parts,
           \/ /\ c.kind \in Atomic /\ d.kind \in Atomic
              /\ d.left = c.left /\ d.right = c.right
           \/ c.kind \in Connective /\ d.kind \in Connective
           \/ /\ c.kind \in Quantifier /\ d.kind \in Quantifier
              /\ d.bound = c.bound /\ d.search = c.search
    PROVE  Scoping(d, parts) = Scoping(c, parts)
<1>1. CASE /\ c.kind \in Atomic /\ d.kind \in Atomic
           /\ d.left = c.left /\ d.right = c.right
    <2> DEFINE Taken(s, u) == [free |-> s \cup u, open |-> s, bound |-> {},
                               searches |-> s # {}, apart |-> TRUE]
    <2>1. \A e : e.kind \in Atomic => e.kind \notin Connective \cup Quantifier
        BY DEF Atomic, Connective, Quantifier
    <2>2. \A e : e.kind \in Atomic => Scoping(e, parts) = Taken(SearchedIn(e), UsedIn(e))
        BY <2>1 DEF Scoping
    <2>3. SearchedIn(d) = SearchedIn(c)
        BY <1>1 DEF SearchedIn
    <2>4. UsedIn(d) = UsedIn(c)
        BY <1>1 DEF UsedIn
    <2>5. /\ Scoping(d, parts) = Taken(SearchedIn(d), UsedIn(d))
          /\ Scoping(c, parts) = Taken(SearchedIn(c), UsedIn(c))
        BY <1>1, <2>2
    <2> HIDE DEF Taken
    <2> QED
        BY <2>3, <2>4, <2>5
<1>2. CASE c.kind \in Connective /\ d.kind \in Connective
    <2> DEFINE both == [free |-> UNION {parts[k].free : k \in DOMAIN parts},
                        open |-> UNION {parts[k].open : k \in DOMAIN parts},
                        bound |-> UNION {parts[k].bound : k \in DOMAIN parts},
                        searches |-> \A k \in DOMAIN parts : parts[k].searches,
                        apart |-> \A k \in DOMAIN parts : parts[k].apart]
    <2>1. \A e : e.kind \in Connective => e.kind \notin Atomic \cup Quantifier
        BY DEF Atomic, Connective, Quantifier
    <2>2. \A e : e.kind \in Connective => Scoping(e, parts) = both
        BY <2>1 DEF Scoping
    <2> HIDE DEF both
    <2> QED
        BY <1>2, <2>2
<1>3. CASE /\ c.kind \in Quantifier /\ d.kind \in Quantifier
           /\ d.bound = c.bound /\ d.search = c.search
    <2> DEFINE Taken(s, b) == [free |-> {s} \cup (parts[1].free \ {b}),
                               open |-> parts[1].open \ {b},
                               bound |-> parts[1].bound \cup {b},
                               searches |-> parts[1].searches,
                               apart |-> parts[1].apart
                                         /\ parts[1].bound \cap parts[1].free = {}]
    <2>1. \A e : e.kind \in Quantifier => e.kind \notin Atomic \cup Connective
        BY DEF Atomic, Connective, Quantifier
    <2>2. \A e : e.kind \in Quantifier => Scoping(e, parts) = Taken(e.search, e.bound)
        BY <2>1 DEF Scoping
    <2> HIDE DEF Taken
    <2> QED
        BY <1>3, <2>2
<1> QED
    BY <1>1, <1>2, <1>3

LEMMA InverseScoping ==
    ASSUME NEW os, Ordered(os)
    PROVE  \A i \in DOMAIN os :
              ScopingOf(WithInverses(os))[Len(os) + i] = ScopingOf(os)[i]
<1> DEFINE n == Len(os)
           W == WithInverses(os)
           SW == ScopingOf(W)
           S == ScopingOf(os)
           T == {m \in 0..n : \A i \in 1..m : SW[n + i] = S[i]}
<1>1. n \in Nat /\ DOMAIN os = 1..n
    BY DEF Ordered
<1>2. Ordered(W) /\ Len(W) = 2 * n /\ \A i \in 1..n : W[n + i] = Inverted(os[i], n)
    BY InversesOrdered
<1>s. \A i \in 1..n : SW[i] = S[i]
    BY <1>1, SameAmongInverses
<1>3. 0 \in T
    BY <1>1
<1>4. ASSUME NEW m \in 0..n, m \in T, m < n PROVE m + 1 \in T
    <2> DEFINE i == m + 1
               c == os[i]
               d == W[n + i]
               parts == PartsOf(S, os, i)
               others == PartsOf(SW, W, n + i)
    <2>1. i \in DOMAIN os /\ m \in Nat /\ i - 1 = m /\ i \in 1..n
        BY <1>1, <1>4
    <2>2. n + i \in DOMAIN W
        <3>1. DOMAIN W = 1..Len(W)
            BY <1>2 DEF Ordered
        <3> HIDE DEF W, n
        <3>2. n + i \in 1..(2 * n)
            BY <1>1, <2>1
        <3> QED
            BY <1>2, <3>1, <3>2
    <2>3. \A k \in 1..Len(c.parts) : c.parts[k] \in 1..m
        <3>1. \A k \in 1..Len(os[i].parts) : os[i].parts[k] \in 1..(i - 1)
            BY <2>1, PartsComeBefore
        <3> QED
            BY <2>1, <3>1
    <2>4. \A k \in 1..Len(c.parts) : SW[n + c.parts[k]] = S[c.parts[k]]
                                     /\ SW[c.parts[k]] = S[c.parts[k]]
        <3>1. \A j \in 1..m : j \in 1..n
            BY <1>1, <2>1
        <3> QED
            BY <1>4, <1>s, <2>3, <3>1
    <2>5. d = Inverted(c, n)
        BY <1>2, <2>1
    <2>6. SW[n + i] = Scoping(d, others) /\ S[i] = Scoping(c, parts)
        BY <1>2, <2>1, <2>2, ScopingUnfolds
    <2>7. /\ others = [k \in 1..Len(d.parts) |-> SW[d.parts[k]]]
          /\ parts = [k \in 1..Len(c.parts) |-> S[c.parts[k]]]
        BY DEF PartsOf
    <2>8. IsInverse(c, d, n)
        BY <1>1, <2>1, <2>5, InvertedFacts
    <2>9. /\ c.kind \in Atomic \cup Connective \cup Quantifier
          /\ c.kind = "implication" => Len(c.parts) = 2
          /\ c.kind \in Quantifier => Len(c.parts) = 1
        BY <2>1, ObjectFacts
    <2> HIDE DEF i, c, d, parts, others, n, W, SW, S
    <2>10. /\ c.kind \in Atomic => d.kind \in Atomic
           /\ c.kind \in Connective => d.kind \in Connective
           /\ c.kind \in Quantifier => d.kind \in Quantifier
        BY <2>8 DEF Atomic, Connective, Quantifier, Dual, IsInverse
    <2>11. others = parts
        <3>1. CASE c.kind \in Atomic
            <4>1. d.parts = <<>> /\ c.parts = <<>>
                BY <2>8, <3>1 DEF IsInverse
            <4> QED
                BY <2>7, <4>1
        <3>2. CASE c.kind = "implication"
            <4>1. d.parts = <<c.parts[1], n + c.parts[2]>> /\ Len(c.parts) = 2
                BY <2>8, <2>9, <3>2 DEF IsInverse
            <4>2. Len(d.parts) = 2 /\ d.parts[1] = c.parts[1]
                BY <4>1
            <4>3. d.parts[2] = n + c.parts[2]
                BY <4>1
            <4>4. 1 \in 1..Len(c.parts) /\ 2 \in 1..Len(c.parts)
                BY <4>1
            <4>5. SW[d.parts[1]] = S[c.parts[1]] /\ SW[d.parts[2]] = S[c.parts[2]]
                BY <2>4, <4>2, <4>3, <4>4
            <4>6. \A k \in 1..2 : k = 1 \/ k = 2
                OBVIOUS
            <4>7. \A k \in 1..2 : SW[d.parts[k]] = S[c.parts[k]]
                BY <4>5, <4>6
            <4> QED
                BY <2>7, <4>1, <4>2, <4>7
        <3>3. CASE c.kind \in {"conjunction", "disjunction"} \cup Quantifier
            <4>1. Len(d.parts) = Len(c.parts)
                  /\ \A k \in 1..Len(c.parts) : d.parts[k] = n + c.parts[k]
                BY <2>8, <3>3 DEF IsInverse
            <4>2. \A k \in 1..Len(c.parts) : SW[d.parts[k]] = S[c.parts[k]]
                BY <2>4, <4>1
            <4> QED
                BY <2>7, <4>1, <4>2
        <3> QED
            BY <2>9, <3>1, <3>2, <3>3 DEF Connective
    <2>12. Scoping(d, parts) = Scoping(c, parts)
        BY <2>8, <2>9, <2>10, SameKindScoping DEF IsInverse
    <2>13. SW[n + i] = S[i]
        BY <2>6, <2>11, <2>12
    <2>14. \A j \in 1..(m + 1) : j \in 1..m \/ j = m + 1
        BY <2>1
    <2> QED
        BY <1>1, <1>4, <2>1, <2>13, <2>14 DEF i
<1>5. \A m \in 0..n : m \in T /\ m < n => m + 1 \in T
    <2> HIDE DEF T
    <2> QED
        BY <1>4
<1>6. n \in T
    <2> HIDE DEF T, n
    <2>1. \A m \in 0..n : m \in T
        BY <1>1, <1>3, <1>5, Induction
    <2> QED
        BY <1>1, <2>1
<1> QED
    BY <1>1, <1>6

LEMMA InverseAt ==
    ASSUME NEW os, Ordered(os), NEW i \in DOMAIN os
    PROVE  /\ Len(os) + i \in DOMAIN WithInverses(os)
           /\ IsInverse(os[i], WithInverses(os)[Len(os) + i], Len(os))
<1> DEFINE W == WithInverses(os)
           n == Len(os)
<1>1. n \in Nat /\ i \in 1..n
    BY DEF Ordered
<1>2. Ordered(W) /\ Len(W) = 2 * n /\ W[n + i] = Inverted(os[i], n)
    BY <1>1, InversesOrdered
<1>3. IsInverse(os[i], Inverted(os[i], n), n)
    BY <1>1, InvertedFacts
<1>4. DOMAIN W = 1..Len(W)
    BY <1>2 DEF Ordered
<1> HIDE DEF W, n
<1>5. n + i \in 1..(2 * n)
    BY <1>1
<1> QED
    BY <1>2, <1>3, <1>4, <1>5 DEF W, n

(* Each expression of the object has one combination to evaluate.          *)
Single(os, i, tree, sigma) ==
    Len(tree) = 1 \/ \A x \in Names \cap ScopingOf(os)[i].open : sigma[x] # 0

LEMMA OperandFound ==
    ASSUME NEW o \in Operands, NEW tree \in Seq(Data), NEW sigma \in Scopes(tree),
           Bad \notin ItemsOf(tree), o.kind = "local" => sigma[o.of] # 0,
           Len(tree) = 1 \/ (o.kind = "search" => sigma[o.of] # 0)
    PROVE  \E n : /\ Found(o, tree, sigma) = {n}
                  /\ Value(o, n, tree, sigma) \in Data \ {Bad}
<1>1. \A n \in 1..Len(tree) : tree[n] \in Data \ {Bad}
    BY DEF ItemsOf
<1>2. CASE o.kind = "search"
    <2>1. o.of \in Names
        BY <1>2 DEF Operands, Names
    <2>2. sigma[o.of] \in 0..Len(tree) /\ Len(tree) \in Nat
        BY <2>1 DEF Scopes
    <2>3. \E n \in 1..Len(tree) : Found(o, tree, sigma) = {n}
        <3>1. CASE sigma[o.of] # 0
            <4>1. Found(o, tree, sigma) = {sigma[o.of]}
                BY <1>2, <3>1 DEF Found, Find, ItemsOf
            <4>2. sigma[o.of] \in 1..Len(tree)
                BY <2>2, <3>1
            <4> QED
                BY <4>1, <4>2
        <3>2. CASE sigma[o.of] = 0
            <4>1. Found(o, tree, sigma) = 1..Len(tree)
                BY <1>2, <3>2 DEF Found, Find, ItemsOf
            <4>2. Len(tree) = 1
                BY <1>2, <3>2
            <4>3. 1..1 = {1}
                OBVIOUS
            <4> QED
                BY <4>1, <4>2, <4>3
        <3> QED
            BY <3>1, <3>2
    <2>4. \A n : Value(o, n, tree, sigma) = tree[n]
        BY <1>2 DEF Value
    <2> QED
        BY <1>1, <2>3, <2>4
<1>3. CASE o.kind = "local"
    <2>1. o.of \in Names
        BY <1>3 DEF Operands, Names
    <2>2. sigma[o.of] \in 1..Len(tree)
        BY <1>3, <2>1 DEF Scopes
    <2>3. Found(o, tree, sigma) = {0}
        BY <1>3 DEF Found
    <2>4. Value(o, 0, tree, sigma) = tree[sigma[o.of]]
        BY <1>3 DEF Value
    <2> QED
        BY <1>1, <2>2, <2>3, <2>4
<1>4. CASE o.kind = "literal"
    <2>1. o.of \in Data \ {Bad}
        BY <1>4 DEF Operands
    <2>2. Found(o, tree, sigma) = {0}
        BY <1>4 DEF Found
    <2>3. Value(o, 0, tree, sigma) = o.of
        BY <1>4 DEF Value
    <2> QED
        BY <2>1, <2>2, <2>3
<1> QED
    BY <1>2, <1>3, <1>4 DEF Operands

(* With one combination, the opposite operator gives the opposite result.  *)
LEMMA CompareOpposite ==
    ASSUME NEW op \in Operators, NEW a \in Int, NEW b \in Int
    PROVE  Compare(Opposite[op], a, b) <=> ~Compare(op, a, b)
<1>1. /\ Opposite["=="] = "!=" /\ Opposite["!="] = "=="
      /\ Opposite["<"] = ">=" /\ Opposite[">="] = "<"
    BY DEF Opposite, Operators
<1>2. /\ Compare("==", a, b) <=> a = b
      /\ Compare("!=", a, b) <=> a # b
      /\ Compare("<", a, b) <=> a < b
      /\ Compare(">=", a, b) <=> a >= b
    BY DEF Compare
<1>3. a >= b <=> ~(a < b)
    OBVIOUS
<1>4. op = "==" \/ op = "!=" \/ op = "<" \/ op = ">="
    BY DEF Operators
<1> QED
    BY <1>1, <1>2, <1>3, <1>4

LEMMA AtomicOpposite ==
    ASSUME NEW c, c.op \in Operators, c.left \in Operands, c.right \in Operands,
           NEW d, d.op = Opposite[c.op], d.left = c.left, d.right = c.right,
           NEW tree \in Seq(Data), NEW sigma \in Scopes(tree), Bad \notin ItemsOf(tree),
           \A x \in UsedIn(c) : sigma[x] # 0,
           Len(tree) = 1 \/ \A x \in SearchedIn(c) : sigma[x] # 0
    PROVE  /\ Having(d, "false", tree, sigma) = {}
              <=> Having(c, "false", tree, sigma) # {}
           /\ Combinations(d, tree, sigma) = Having(d, "true", tree, sigma)
              <=> Combinations(c, tree, sigma) # Having(c, "true", tree, sigma)
<1>1. \A o \in {c.left, c.right} :
         /\ o.kind = "local" => sigma[o.of] # 0
         /\ Len(tree) = 1 \/ (o.kind = "search" => sigma[o.of] # 0)
    BY DEF SearchedIn, UsedIn
<1>2. PICK l : /\ Found(c.left, tree, sigma) = {l}
               /\ Value(c.left, l, tree, sigma) \in Data \ {Bad}
    BY <1>1, OperandFound
<1>3. PICK r : /\ Found(c.right, tree, sigma) = {r}
               /\ Value(c.right, r, tree, sigma) \in Data \ {Bad}
    BY <1>1, OperandFound
<1> DEFINE a == Value(c.left, l, tree, sigma)
           b == Value(c.right, r, tree, sigma)
           m == <<l, r>>
<1>4. a \in Int /\ b \in Int /\ a # Bad /\ b # Bad
    BY <1>2, <1>3, ConstraintsAssumption
<1>5. m[1] = l /\ m[2] = r
    OBVIOUS
<1>6. Combinations(c, tree, sigma) = {m} /\ Combinations(d, tree, sigma) = {m}
    <2>1. {l} \X {r} = {<<l, r>>}
        OBVIOUS
    <2> QED
        BY <1>2, <1>3, <2>1 DEF Combinations
<1> HIDE DEF m
<1>7. /\ Eval(c, m, tree, sigma) = IF Compare(c.op, a, b) THEN "true" ELSE "false"
      /\ Eval(d, m, tree, sigma) = IF Compare(d.op, a, b) THEN "true" ELSE "false"
    BY <1>4, <1>5 DEF Eval
<1> HIDE DEF a, b
<1>8. Compare(d.op, a, b) <=> ~Compare(c.op, a, b)
    BY <1>4, CompareOpposite
<1>9. Eval(d, m, tree, sigma) = "true" <=> Eval(c, m, tree, sigma) = "false"
    BY <1>7, <1>8
<1>10. Eval(d, m, tree, sigma) = "false" <=> Eval(c, m, tree, sigma) = "true"
    BY <1>7, <1>8
<1>11. /\ Eval(c, m, tree, sigma) = "true" <=> Eval(c, m, tree, sigma) # "false"
       /\ Eval(d, m, tree, sigma) = "true" <=> Eval(d, m, tree, sigma) # "false"
    BY <1>7
<1>12. \A e \in {c, d}, result \in {"true", "false"} :
          /\ Having(e, result, tree, sigma) = {} <=> Eval(e, m, tree, sigma) # result
          /\ Combinations(e, tree, sigma) = Having(e, result, tree, sigma)
             <=> Eval(e, m, tree, sigma) = result
    <2> SUFFICES ASSUME NEW e \in {c, d}, NEW result \in {"true", "false"}
                 PROVE  /\ Having(e, result, tree, sigma) = {}
                           <=> Eval(e, m, tree, sigma) # result
                        /\ Combinations(e, tree, sigma) = Having(e, result, tree, sigma)
                           <=> Eval(e, m, tree, sigma) = result
        OBVIOUS
    <2>1. Combinations(e, tree, sigma) = {m}
        BY <1>6
    <2>2. Having(e, result, tree, sigma)
             = {k \in {m} : Eval(e, k, tree, sigma) = result}
        BY <2>1 DEF Having
    <2>3. CASE Eval(e, m, tree, sigma) = result
        <3>1. Having(e, result, tree, sigma) = {m}
            BY <2>2, <2>3
        <3> QED
            BY <2>1, <2>3, <3>1
    <2>4. CASE Eval(e, m, tree, sigma) # result
        <3>1. Having(e, result, tree, sigma) = {}
            BY <2>2, <2>4
        <3> QED
            BY <2>1, <2>4, <3>1
    <2> QED
        BY <2>3, <2>4
<1> QED
    BY <1>9, <1>10, <1>11, <1>12


LEMMA OpenByKind ==
    ASSUME NEW os, Ordered(os), NEW i \in DOMAIN os
    PROVE  LET c == os[i]
               S == ScopingOf(os)
           IN /\ c.kind \in Atomic => S[i].open = SearchedIn(c)
              /\ c.kind \in Connective =>
                    \A k \in 1..Len(c.parts) : S[c.parts[k]].open \subseteq S[i].open
              /\ c.kind \in Quantifier => S[i].open = S[c.parts[1]].open \ {c.bound}
<1> DEFINE c == os[i]
           S == ScopingOf(os)
           parts == PartsOf(S, os, i)
<1>1. S[i] = Scoping(c, parts)
    BY ScopingUnfolds
<1>2. /\ DOMAIN parts = 1..Len(c.parts)
      /\ \A k \in 1..Len(c.parts) : parts[k] = S[c.parts[k]]
    BY DEF PartsOf
<1>3. c.kind \in Quantifier => Len(c.parts) = 1
    BY ObjectFacts
<1> HIDE DEF c, S, parts
<1>4. ASSUME c.kind \in Atomic PROVE S[i].open = SearchedIn(c)
    <2>1. c.kind \notin Connective \cup Quantifier
        BY <1>4 DEF Atomic, Connective, Quantifier
    <2>2. S[i] = [free |-> SearchedIn(c) \cup UsedIn(c), open |-> SearchedIn(c), bound |-> {},
                  searches |-> SearchedIn(c) # {}, apart |-> TRUE]
        BY <1>1, <1>4, <2>1 DEF Scoping
    <2> QED
        BY <2>2
<1>5. ASSUME c.kind \in Connective, NEW k \in 1..Len(c.parts)
      PROVE  S[c.parts[k]].open \subseteq S[i].open
    <2>1. c.kind \notin Atomic \cup Quantifier
        BY <1>5 DEF Atomic, Connective, Quantifier
    <2>2. S[i] = [free |-> UNION {parts[j].free : j \in DOMAIN parts},
                  open |-> UNION {parts[j].open : j \in DOMAIN parts},
                  bound |-> UNION {parts[j].bound : j \in DOMAIN parts},
                  searches |-> \A j \in DOMAIN parts : parts[j].searches,
                  apart |-> \A j \in DOMAIN parts : parts[j].apart]
        BY <1>1, <1>5, <2>1 DEF Scoping
    <2>3. S[i].open = UNION {parts[j].open : j \in DOMAIN parts}
        BY <2>2
    <2>4. k \in DOMAIN parts /\ parts[k] = S[c.parts[k]]
        BY <1>2, <1>5
    <2> QED
        BY <2>3, <2>4
<1>6. ASSUME c.kind \in Quantifier PROVE S[i].open = S[c.parts[1]].open \ {c.bound}
    <2>1. c.kind \notin Atomic \cup Connective
        BY <1>6 DEF Atomic, Connective, Quantifier
    <2>2. S[i].open = parts[1].open \ {c.bound}
        BY <1>1, <1>6, <2>1 DEF Scoping
    <2> QED
        BY <1>2, <1>3, <1>6, <2>2
<1> QED
    BY <1>4, <1>5, <1>6 DEF c, S

(* The inverse of an object means the opposite.                            *)
Opposed(os, i, tree) ==
    \A sigma \in Scopes(tree) :
        Evaluates(os, i, tree, sigma) /\ Single(os, i, tree, sigma)
        => (Holds(WithInverses(os), tree)[Len(os) + i][sigma] <=> ~Holds(os, tree)[i][sigma])

LEMMA OpposedStep ==
    ASSUME NEW os, Ordered(os), NEW i \in DOMAIN os, NEW tree \in Seq(Data),
           \A k \in 1..Len(os[i].parts) : Opposed(os, os[i].parts[k], tree)
    PROVE  Opposed(os, i, tree)
<1> DEFINE n == Len(os)
           W == WithInverses(os)
           c == os[i]
           d == W[n + i]
           H == Holds(os, tree)
           G == Holds(W, tree)
           S == ScopingOf(os)
<1> SUFFICES ASSUME NEW sigma \in Scopes(tree),
                    Evaluates(os, i, tree, sigma), Single(os, i, tree, sigma)
             PROVE  G[n + i][sigma] <=> ~H[i][sigma]
    BY DEF Opposed
<1>1. Ordered(W) /\ n + i \in DOMAIN W /\ IsInverse(c, d, n)
    BY InversesOrdered, InverseAt
<1>2. /\ c.kind \in Atomic \cup Connective \cup Quantifier
      /\ c.kind \in Atomic => c.op \in Operators /\ c.left \in Operands /\ c.right \in Operands
      /\ c.kind = "implication" => Len(c.parts) = 2
      /\ c.kind \in Quantifier =>
            c.bound \in Names /\ c.search \in Symbols /\ Len(c.parts) = 1
    BY ObjectFacts
<1>3. \A k \in 1..Len(c.parts) : c.parts[k] \in DOMAIN os /\ G[c.parts[k]] = H[c.parts[k]]
    <2>1. \A k \in 1..Len(c.parts) : c.parts[k] \in 1..(i - 1)
        BY PartsComeBefore
    <2>2. DOMAIN os = 1..n /\ n \in Nat
        BY DEF Ordered
    <2>3. \A k \in 1..Len(c.parts) : c.parts[k] \in DOMAIN os
        <3> HIDE DEF c, n
        <3> QED
            BY <2>1, <2>2
    <2> QED
        BY <2>3, SameAmongInverses
<1>4. Bad \notin ItemsOf(tree)
    BY DEF Evaluates
<1>5. CASE c.kind \in Atomic
    <2>1. S[i].free = SearchedIn(c) \cup UsedIn(c) /\ S[i].open = SearchedIn(c)
        BY <1>5, ScopingByKind, OpenByKind
    <2>2. d.kind = c.kind /\ d.op = Opposite[c.op] /\ d.left = c.left /\ d.right = c.right
        <3> HIDE DEF c, d, n
        <3> QED
            BY <1>1, <1>5 DEF IsInverse
    <2>3. c.op \in Operators /\ c.left \in Operands /\ c.right \in Operands
        BY <1>2, <1>5
    <2>4. UsedIn(c) \subseteq Locals /\ SearchedIn(c) \subseteq Names
        <3> HIDE DEF c
        <3> QED
            BY <2>3 DEF UsedIn, SearchedIn, Operands, Names
    <2>5. \A x \in UsedIn(c) : sigma[x] # 0
        <3> HIDE DEF c
        <3> QED
            BY <2>1, <2>4 DEF Evaluates
    <2>6. Len(tree) = 1 \/ \A x \in SearchedIn(c) : sigma[x] # 0
        <3> HIDE DEF c
        <3> QED
            BY <2>1, <2>4 DEF Single
    <2>7. /\ c.kind = "comparison" => (H[i][sigma] <=> Having(c, "false", tree, sigma) = {})
          /\ c.kind = "expression" =>
                (H[i][sigma] <=> Combinations(c, tree, sigma) = Having(c, "true", tree, sigma))
        BY HoldsByKind
    <2>8. /\ d.kind = "comparison" =>
                (G[n + i][sigma] <=> Having(d, "false", tree, sigma) = {})
          /\ d.kind = "expression" =>
                (G[n + i][sigma]
                 <=> Combinations(d, tree, sigma) = Having(d, "true", tree, sigma))
        <3> HIDE DEF n, W
        <3> QED
            BY <1>1, HoldsByKind
    <2> HIDE DEF c, d, G, H, n, W, S
    <2>9. /\ Having(d, "false", tree, sigma) = {}
             <=> Having(c, "false", tree, sigma) # {}
          /\ Combinations(d, tree, sigma) = Having(d, "true", tree, sigma)
             <=> Combinations(c, tree, sigma) # Having(c, "true", tree, sigma)
        BY <1>4, <2>2, <2>3, <2>5, <2>6, AtomicOpposite
    <2>10. c.kind = "comparison" \/ c.kind = "expression"
        BY <1>5 DEF Atomic
    <2> QED
        BY <2>2, <2>7, <2>8, <2>9, <2>10
<1>6. CASE c.kind \in Connective
    <2>1. \A k \in 1..Len(c.parts) :
             S[c.parts[k]].free \subseteq S[i].free /\ S[c.parts[k]].open \subseteq S[i].open
        BY <1>6, ScopingByKind, OpenByKind
    <2>2. ASSUME NEW k \in 1..Len(c.parts)
          PROVE  G[n + c.parts[k]][sigma] <=> ~H[c.parts[k]][sigma]
        <3>1. S[c.parts[k]].free \subseteq S[i].free /\ S[c.parts[k]].open \subseteq S[i].open
            BY <2>1
        <3>2. Evaluates(os, c.parts[k], tree, sigma)
            BY <3>1 DEF Evaluates
        <3>3. Single(os, c.parts[k], tree, sigma)
            BY <3>1 DEF Single
        <3>4. Opposed(os, c.parts[k], tree)
            OBVIOUS
        <3> QED
            BY <3>2, <3>3, <3>4 DEF Opposed
    <2>3. /\ H[i][sigma] \in BOOLEAN
          /\ c.kind = "conjunction" =>
                (H[i][sigma] <=> \A k \in 1..Len(c.parts) : H[c.parts[k]][sigma])
          /\ c.kind = "disjunction" =>
                (H[i][sigma] <=> \E k \in 1..Len(c.parts) : H[c.parts[k]][sigma])
          /\ c.kind = "implication" =>
                (H[i][sigma] <=> (H[c.parts[1]][sigma] => H[c.parts[2]][sigma]))
        BY HoldsByKind
    <2>4. /\ d.kind = "conjunction" =>
                (G[n + i][sigma] <=> \A k \in 1..Len(d.parts) : G[d.parts[k]][sigma])
          /\ d.kind = "disjunction" =>
                (G[n + i][sigma] <=> \E k \in 1..Len(d.parts) : G[d.parts[k]][sigma])
        <3> HIDE DEF n, W
        <3> QED
            BY <1>1, HoldsByKind
    <2> HIDE DEF c, d, G, H, n, W, S
    <2>5. CASE c.kind = "conjunction"
        <3>1. /\ d.kind = "disjunction" /\ Len(d.parts) = Len(c.parts)
              /\ \A k \in 1..Len(c.parts) : d.parts[k] = n + c.parts[k]
            BY <1>1, <2>5 DEF IsInverse, Dual
        <3>2. G[n + i][sigma] <=> \E k \in 1..Len(c.parts) : G[n + c.parts[k]][sigma]
            BY <2>4, <3>1
        <3> QED
            BY <2>2, <2>3, <2>5, <3>2
    <2>6. CASE c.kind = "disjunction"
        <3>1. /\ d.kind = "conjunction" /\ Len(d.parts) = Len(c.parts)
              /\ \A k \in 1..Len(c.parts) : d.parts[k] = n + c.parts[k]
            BY <1>1, <2>6 DEF IsInverse, Dual
        <3>2. G[n + i][sigma] <=> \A k \in 1..Len(c.parts) : G[n + c.parts[k]][sigma]
            BY <2>4, <3>1
        <3> QED
            BY <2>2, <2>3, <2>6, <3>2
    <2>7. CASE c.kind = "implication"
        <3>1. d.kind = "conjunction" /\ d.parts = <<c.parts[1], n + c.parts[2]>>
              /\ Len(c.parts) = 2
            BY <1>1, <1>2, <2>7 DEF IsInverse
        <3>2. Len(d.parts) = 2 /\ d.parts[1] = c.parts[1]
            BY <3>1
        <3>3. d.parts[2] = n + c.parts[2]
            BY <3>1
        <3>4. 1 \in 1..Len(c.parts) /\ 2 \in 1..Len(c.parts)
            BY <3>1
        <3>5. \A k \in 1..2 : k = 1 \/ k = 2
            OBVIOUS
        <3>6. G[n + i][sigma] <=> \A k \in 1..2 : G[d.parts[k]][sigma]
            BY <2>4, <3>1, <3>2
        <3>7. G[n + i][sigma] <=> G[d.parts[1]][sigma] /\ G[d.parts[2]][sigma]
            BY <3>1, <3>4, <3>5, <3>6
        <3>8. G[n + i][sigma] <=> H[c.parts[1]][sigma] /\ G[n + c.parts[2]][sigma]
            BY <1>3, <3>2, <3>3, <3>4, <3>7
        <3> QED
            BY <2>2, <2>3, <2>7, <3>4, <3>8
    <2> QED
        BY <1>6, <2>5, <2>6, <2>7 DEF Connective
<1>7. CASE c.kind \in Quantifier
    <2> DEFINE p == c.parts[1]
               x == c.bound
               found == ItemsOf(Find(c.search, tree, sigma))
    <2>1. c.bound \in Names /\ c.search \in Symbols /\ Len(c.parts) = 1 /\ 1 \in 1..Len(c.parts)
        <3>1. c.bound \in Names /\ c.search \in Symbols /\ Len(c.parts) = 1
            BY <1>2, <1>7
        <3> HIDE DEF c
        <3> QED
            BY <3>1
    <2>2. /\ S[i].free = {c.search} \cup (S[p].free \ {x})
          /\ S[i].open = S[p].open \ {x}
        BY <1>7, ScopingByKind, OpenByKind
    <2>3. \A m \in found : m \in 1..Len(tree)
        <3> DEFINE F == Find(c.search, tree, sigma)
        <3>1. DOMAIN F = 1..Len(F) /\ \A k \in 1..Len(F) : F[k] \in 1..Len(tree)
            BY <2>1, FindFacts
        <3> HIDE DEF F
        <3> QED
            BY <3>1 DEF ItemsOf, F
    <2>4. ASSUME NEW m \in found
          PROVE  G[n + p][With(sigma, x, m)] <=> ~H[p][With(sigma, x, m)]
        <3> DEFINE tau == With(sigma, x, m)
        <3> HIDE DEF found, x, p, S
        <3>1. m \in 1..Len(tree) /\ Len(tree) \in Nat
            BY <2>3
        <3>2. x \in Names
            BY <2>1 DEF x
        <3>3. tau \in Scopes(tree) /\ tau[x] = m /\ \A y \in Names \ {x} : tau[y] = sigma[y]
            BY <3>1, <3>2 DEF Scopes, With
        <3>4. m # 0
            BY <3>1
        <3> HIDE DEF tau
        <3>5. \A y \in S[p].free \cap Locals : tau[y] # 0
            <4>1. \A y \in S[p].free \cap Locals : y \in Names /\ (y # x => y \in S[i].free)
                BY <2>2 DEF Names
            <4>2. \A y \in S[i].free \cap Locals : sigma[y] # 0
                BY DEF Evaluates, S
            <4> QED
                BY <3>3, <3>4, <4>1, <4>2
        <3>6. Evaluates(os, p, tree, tau)
            BY <1>4, <3>5 DEF Evaluates, S
        <3>7. Single(os, p, tree, tau)
            <4>1. Len(tree) = 1 \/ \A y \in Names \cap S[i].open : sigma[y] # 0
                BY DEF Single, S
            <4>2. Len(tree) = 1 \/ \A y \in Names \cap S[p].open : tau[y] # 0
                BY <2>2, <3>3, <3>4, <4>1
            <4> QED
                BY <4>2 DEF Single, S
        <3>8. Opposed(os, p, tree)
            BY <2>1 DEF p
        <3> QED
            BY <3>3, <3>6, <3>7, <3>8 DEF Opposed, tau
    <2>5. /\ H[i][sigma] \in BOOLEAN
          /\ c.kind = "exists" =>
                (H[i][sigma] <=> \E m \in found : H[p][With(sigma, x, m)])
          /\ c.kind = "forall" =>
                (H[i][sigma] <=> \A m \in found : H[p][With(sigma, x, m)])
        BY HoldsByKind
    <2>6. /\ d.kind = "exists" =>
                (G[n + i][sigma] <=> \E m \in ItemsOf(Find(d.search, tree, sigma)) :
                                        G[d.parts[1]][With(sigma, d.bound, m)])
          /\ d.kind = "forall" =>
                (G[n + i][sigma] <=> \A m \in ItemsOf(Find(d.search, tree, sigma)) :
                                        G[d.parts[1]][With(sigma, d.bound, m)])
        <3> DEFINE j == n + i
                   N == ItemsOf(Find(W[j].search, tree, sigma))
        <3> HIDE DEF n, W, found, p, x, S, H, j
        <3>0. j \in DOMAIN W
            BY <1>1 DEF j
        <3>1. ASSUME W[j].kind = "exists"
              PROVE  G[j][sigma] <=> \E m \in N : G[W[j].parts[1]][With(sigma, W[j].bound, m)]
            BY <1>1, <3>0, <3>1, HoldsByKind
        <3>2. ASSUME W[j].kind = "forall"
              PROVE  G[j][sigma] <=> \A m \in N : G[W[j].parts[1]][With(sigma, W[j].bound, m)]
            BY <1>1, <3>0, <3>2, HoldsByKind
        <3> HIDE DEF G
        <3> QED
            BY <3>1, <3>2 DEF j
    <2> HIDE DEF c, d, G, H, n, W, S
    <2>7. /\ d.kind = Dual(c.kind) /\ d.bound = x /\ d.search = c.search
          /\ d.parts[1] = n + p
        BY <1>1, <1>7, <2>1 DEF IsInverse
    <2>8. /\ d.kind = "exists" =>
                (G[n + i][sigma] <=> \E m \in found : G[n + p][With(sigma, x, m)])
          /\ d.kind = "forall" =>
                (G[n + i][sigma] <=> \A m \in found : G[n + p][With(sigma, x, m)])
        BY <2>6, <2>7
    <2> HIDE DEF p, x, found
    <2>9. CASE c.kind = "exists"
        <3>1. d.kind = "forall"
            BY <2>7, <2>9 DEF Dual
        <3> QED
            BY <2>4, <2>5, <2>8, <2>9, <3>1
    <2>10. CASE c.kind = "forall"
        <3>1. d.kind = "exists"
            BY <2>7, <2>10 DEF Dual
        <3> QED
            BY <2>4, <2>5, <2>8, <2>10, <3>1
    <2> QED
        BY <1>7, <2>9, <2>10 DEF Quantifier
<1> QED
    BY <1>2, <1>5, <1>6, <1>7

LEMMA AllOpposed ==
    ASSUME NEW os, Ordered(os), NEW tree \in Seq(Data)
    PROVE  \A i \in DOMAIN os : Opposed(os, i, tree)
<1> DEFINE n == Len(os)
           T == {m \in 0..n : \A i \in 1..m : Opposed(os, i, tree)}
<1>1. n \in Nat /\ DOMAIN os = 1..n
    BY DEF Ordered
<1>2. 0 \in T
    BY <1>1
<1>3. ASSUME NEW m \in 0..n, m \in T, m < n PROVE m + 1 \in T
    <2>1. m + 1 \in DOMAIN os /\ m \in Nat /\ (m + 1) - 1 = m
        BY <1>1, <1>3
    <2>2. \A k \in 1..Len(os[m + 1].parts) : os[m + 1].parts[k] \in 1..m
        <3>1. \A k \in 1..Len(os[m + 1].parts) : os[m + 1].parts[k] \in 1..((m + 1) - 1)
            BY <2>1, PartsComeBefore
        <3> QED
            BY <2>1, <3>1
    <2>3. Opposed(os, m + 1, tree)
        BY <1>3, <2>1, <2>2, OpposedStep
    <2>4. \A i \in 1..(m + 1) : i \in 1..m \/ i = m + 1
        BY <2>1
    <2> QED
        BY <1>1, <1>3, <2>1, <2>3, <2>4
<1>4. \A m \in 0..n : m \in T /\ m < n => m + 1 \in T
    <2> HIDE DEF T
    <2> QED
        BY <1>3
<1>5. n \in T
    <2> HIDE DEF T, n
    <2>1. \A m \in 0..n : m \in T
        BY <1>1, <1>2, <1>4, Induction
    <2> QED
        BY <1>1, <2>1
<1> QED
    BY <1>1, <1>5


(* For all constraints, the inverse of a hard constraint succeeds on a     *)
(* tree iff the constraint fails there, each of their expressions having   *)
(* one combination to evaluate: with all that is cached, of the parts that *)
(* they share, too.                                                        *)
THEOREM InversesOppose == Spec => []InvertOpposes
<1>1. EvaluationInv => InvertOpposes
    <2> DEFINE W == WithInverses(objects)
               n == Len(objects)
               st == [scope |-> Nothing, cache |-> cache]
    <2> SUFFICES ASSUME EvaluationInv, last # None, NEW k \in DOMAIN hard,
                        ScopingOfHard(k).apart,
                        Evaluable(ScopingOfHard(k), last.tree),
                        OneCombination(ScopingOfHard(k), last.tree)
                 PROVE  Fitness(W, last.tree)[n + hard[k]][st].fit.success
                           = ~last.hard[k].success
        BY DEF InvertOpposes
    <2> DEFINE i == hard[k]
               tree == last.tree
               done == Fitness(W, tree)[n + i][st]
               G == Holds(W, tree)[n + i][Nothing]
               H == Holds(objects, tree)[i][Nothing]
    <2>1. /\ Ordered(objects) /\ tree \in Seq(Data) /\ i \in DOMAIN objects
          /\ cache \in SUBSET Entries /\ Sound(objects, cache)
          /\ Right(objects, i, tree, Nothing, last.hard[k])
        BY DEF EvaluationInv
    <2>2. Nothing \in Scopes(tree)
        BY <2>1 DEF Nothing, Scopes
    <2>3. Ordered(W) /\ n + i \in DOMAIN W /\ Sound(W, cache)
        BY <2>1, InversesOrdered, InverseAt, SoundAmongInverses
    <2>4. ScopingOf(W)[n + i] = ScopingOf(objects)[i]
        BY <2>1, InverseScoping
    <2>5. Clean(objects, i, Nothing) /\ Evaluates(objects, i, tree, Nothing)
        BY OutsideClean, OutsideEvaluates
    <2>6. Single(objects, i, tree, Nothing)
        BY DEF OneCombination, ScopingOfHard, Single
    <2>7. G <=> ~H
        BY <2>1, <2>2, <2>5, <2>6, AllOpposed DEF Opposed
    <2>8. last.hard[k].success \in BOOLEAN /\ (last.hard[k].success <=> H)
        <3>1. last.hard[k].success <=> H
            BY <2>1, <2>5 DEF Right, RightFor
        <3>2. last.hard[k].success \in BOOLEAN
            BY <2>1 DEF Right, RightFor, Fits
        <3> QED
            BY <3>1, <3>2
    <2> HIDE DEF W, n, i, tree
    <2>9. st \in States(tree) /\ st.scope = Nothing /\ st.cache = cache
        BY <2>1, <2>2 DEF States
    <2>10. Evaluator(W, n + i, tree, Fitness(W, tree)[n + i])
        BY <2>1, <2>3, FitnessRight
    <2> HIDE DEF st
    <2>11. Good(W, n + i, tree, Nothing, done)
        BY <2>3, <2>9, <2>10 DEF Evaluator
    <2> HIDE DEF done, G
    <2>12. Right(W, n + i, tree, Nothing, done.fit)
        BY <2>11 DEF Good
    <2>13. Clean(W, n + i, Nothing)
        BY <2>4, <2>5 DEF Clean
    <2>14. done.fit.success <=> G
        BY <2>12, <2>13 DEF Right, RightFor, G
    <2>15. done.fit.success \in BOOLEAN
        BY <2>12 DEF Right, RightFor, Fits
    <2>16. done.fit.success = ~last.hard[k].success
        BY <2>7, <2>8, <2>14, <2>15
    <2> QED
        BY <2>16 DEF done, i, tree
<1> QED
    BY <1>1, EvaluationIsRight, PTL


=============================================================================
