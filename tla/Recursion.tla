-------------------------------- MODULE Recursion --------------------------------
(***************************************************************************)
(* Induction and recursion for the theorems about text and conversations.  *)
(* Every lemma is about sets and functions and none about operators, so    *)
(* that it can be cited with a set of what has the property to be proved,  *)
(* and with the cases of a recursive function as functions of their own.   *)
(***************************************************************************)
EXTENDS Integers, WellFoundedInduction, TLAPS

(* Of some natural numbers one is the least.                               *)
LEMMA LeastNatural ==
    ASSUME NEW S \in SUBSET Nat, S # {}
    PROVE  \E n \in S : \A k \in S : n <= k
<1> DEFINE R == OpToRel(<, Nat)
<1>1. IsWellFoundedOn(R, Nat)
    BY NatLessThanWellFounded
<1>2. \A x, y \in Nat : x < y => <<x, y>> \in R
    BY DEF OpToRel
<1> HIDE DEF R
<1>3. PICK n \in S : \A k \in S : ~ (<<k, n>> \in R)
    BY <1>1, WFMin
<1>4. \A k \in S : n <= k
    <2> TAKE k \in S
    <2>1. n \in Nat /\ k \in Nat
        OBVIOUS
    <2>2. ~ (k < n)
        BY <1>2, <1>3, <2>1
    <2> QED
        BY <2>1, <2>2
<1> QED
    BY <1>4

(* What every element of D has if it is had by all smaller ones.           *)
LEMMA MeasureInduction ==
    ASSUME NEW D, NEW m \in [D -> Nat], NEW S,
           \A x \in D : (\A y \in D : m[y] < m[x] => y \in S) => x \in S
    PROVE  D \subseteq S
<1> SUFFICES ASSUME NEW z \in D, z \notin S
             PROVE  FALSE
    OBVIOUS
<1> DEFINE T == {m[x] : x \in D \ S}
<1>1. T \in SUBSET Nat /\ T # {}
    OBVIOUS
<1>2. PICK n \in T : \A k \in T : n <= k
    BY <1>1, LeastNatural, Zenon
<1>3. PICK x \in D \ S : n = m[x]
    BY <1>2
<1>4. \A y \in D : m[y] < m[x] => y \in S
    <2> SUFFICES ASSUME NEW y \in D, m[y] < m[x], y \notin S
                 PROVE  FALSE
        OBVIOUS
    <2>1. m[y] \in T
        OBVIOUS
    <2>2. m[x] <= m[y]
        BY <1>2, <1>3, <2>1
    <2> QED
        BY <2>2
<1> QED
    BY <1>3, <1>4

(* The same of the natural numbers, step by step.                          *)
LEMMA StepInduction ==
    ASSUME NEW S, 0 \in S, \A n \in Nat : n \in S => n + 1 \in S
    PROVE  Nat \subseteq S
<1> DEFINE m == [n \in Nat |-> n]
<1>1. m \in [Nat -> Nat]
    OBVIOUS
<1>2. ASSUME NEW n \in Nat, \A k \in Nat : m[k] < m[n] => k \in S
      PROVE  n \in S
    <2>1. CASE n = 0
        BY <2>1
    <2>2. CASE n # 0
        <3>1. n - 1 \in Nat /\ m[n - 1] < m[n] /\ n = (n - 1) + 1
            BY <2>2
        <3> QED
            BY <1>2, <3>1
    <2> QED
        BY <2>1, <2>2
<1> HIDE DEF m
<1> QED
    BY <1>1, <1>2, MeasureInduction

(* A function that asks for its value at one smaller argument, as long as  *)
(* it does not stop: its cases, each a function.                           *)
IsRecursion(D, V, m, stop, next, out, comb) ==
    /\ V # {}
    /\ m \in [D -> Nat] /\ stop \subseteq D
    /\ next \in [D -> D] /\ out \in [D -> V] /\ comb \in [D -> [V -> V]]
    /\ \A x \in D \ stop : m[next[x]] < m[x]

(* There is such a function.                                               *)
LEMMA RecursionIsDefined ==
    ASSUME NEW D, NEW V, NEW m, NEW stop, NEW next, NEW out, NEW comb,
           IsRecursion(D, V, m, stop, next, out, comb)
    PROVE  \E f \in [D -> V] :
              \A x \in D : f[x] = IF x \in stop THEN out[x] ELSE comb[x][f[next[x]]]
<1>a. /\ V # {}
      /\ m \in [D -> Nat] /\ stop \in SUBSET D
      /\ next \in [D -> D] /\ out \in [D -> V] /\ comb \in [D -> [V -> V]]
      /\ \A x \in D \ stop : m[next[x]] < m[x]
    BY DEF IsRecursion
<1> USE <1>a
<1> DEFINE Body(g, x) == IF x \in stop THEN out[x] ELSE comb[x][g[next[x]]]
           Good(g, n) == \A x \in D : m[x] < n => g[x] = Body(g, x)
<1>0. ASSUME NEW S, \A x \in D : (\A y \in D : m[y] < m[x] => y \in S) => x \in S
      PROVE  D \subseteq S
    BY ONLY <1>a, <1>0, MeasureInduction
<1>1. \A g \in [D -> V], x \in D : Body(g, x) \in V
    OBVIOUS
<1>2. \A n \in Nat : \E g \in [D -> V] : Good(g, n)
    <2> DEFINE S == {n \in Nat : \E g \in [D -> V] : Good(g, n)}
    <2>1. 0 \in S
        <3>1. PICK v \in V : TRUE
            OBVIOUS
        <3>2. [x \in D |-> v] \in [D -> V]
            OBVIOUS
        <3>3. Good([x \in D |-> v], 0)
            OBVIOUS
        <3> HIDE DEF Good
        <3> QED
            BY <3>2, <3>3
    <2>2. ASSUME NEW n \in Nat, n \in S
          PROVE  n + 1 \in S
        <3>1. PICK g \in [D -> V] : Good(g, n)
            BY <2>2
        <3> DEFINE h == [x \in D |-> Body(g, x)]
        <3>2. h \in [D -> V]
            BY <1>1
        <3>3. ASSUME NEW x \in D, m[x] < n + 1
              PROVE  h[x] = Body(h, x)
            <4>1. CASE x \in stop
                BY <4>1
            <4>2. CASE x \notin stop
                <5>1. next[x] \in D /\ m[next[x]] < m[x]
                    BY <4>2
                <5>2. m[next[x]] \in Nat /\ m[x] \in Nat
                    BY <5>1
                <5>3. m[next[x]] < n
                    BY <3>3, <5>1, <5>2
                <5>4. h[next[x]] = g[next[x]]
                    BY <3>1, <5>1, <5>3
                <5> QED
                    BY <4>2, <5>4
            <4> QED
                BY <4>1, <4>2
        <3>4. Good(h, n + 1)
            BY <3>3
        <3> HIDE DEF Good, h
        <3> QED
            BY <3>2, <3>4
    <2> HIDE DEF S
    <2>3. Nat \subseteq S
        BY <2>1, <2>2, StepInduction
    <2> QED
        BY <2>3 DEF S
<1>3. ASSUME NEW g \in [D -> V], NEW h \in [D -> V], NEW n \in Nat, NEW k \in Nat,
             Good(g, n), Good(h, k)
      PROVE  \A x \in D : m[x] < n /\ m[x] < k => g[x] = h[x]
    <2> DEFINE S == {x \in D : m[x] < n /\ m[x] < k => g[x] = h[x]}
    <2>1. ASSUME NEW x \in D, \A y \in D : m[y] < m[x] => y \in S
          PROVE  x \in S
        <3> SUFFICES ASSUME m[x] < n, m[x] < k
                     PROVE  g[x] = h[x]
            OBVIOUS
        <3>1. CASE x \in stop
            BY <1>3, <3>1
        <3>2. CASE x \notin stop
            <4>1. next[x] \in D /\ m[next[x]] < m[x]
                BY <3>2
            <4>2. m[next[x]] \in Nat /\ m[x] \in Nat
                BY <4>1
            <4>3. m[next[x]] < n /\ m[next[x]] < k
                BY <4>1, <4>2
            <4>4. g[next[x]] = h[next[x]]
                BY <2>1, <4>1, <4>3
            <4> QED
                BY <1>3, <3>2, <4>4
        <3> QED
            BY <3>1, <3>2
    <2> HIDE DEF S, Good
    <2>2. \A x \in D : (\A y \in D : m[y] < m[x] => y \in S) => x \in S
        BY <2>1
    <2>3. D \subseteq S
        BY <1>0, <2>2, Zenon
    <2> QED
        BY <2>3 DEF S
<1> DEFINE of(x) == CHOOSE g \in [D -> V] : Good(g, m[x] + 1)
           f == [x \in D |-> of(x)[x]]
<1>4. \A x \in D : of(x) \in [D -> V] /\ Good(of(x), m[x] + 1)
    <2> TAKE x \in D
    <2>1. m[x] + 1 \in Nat
        OBVIOUS
    <2> HIDE DEF Good
    <2>2. \E g \in [D -> V] : Good(g, m[x] + 1)
        BY <1>2, <2>1
    <2> QED
        BY <2>2
<1> HIDE DEF of
<1>5. f \in [D -> V]
    BY <1>4
<1>6. ASSUME NEW x \in D
      PROVE  f[x] = Body(f, x)
    <2>1. m[x] < m[x] + 1 /\ m[x] \in Nat
        OBVIOUS
    <2>2. f[x] = Body(of(x), x)
        BY <1>4, <2>1
    <2>3. CASE x \in stop
        BY <2>2, <2>3
    <2>4. CASE x \notin stop
        <3>1. next[x] \in D /\ m[next[x]] < m[x] /\ m[next[x]] \in Nat
            BY <2>4
        <3>2. m[next[x]] < m[x] + 1 /\ m[next[x]] < m[next[x]] + 1
            BY <2>1, <3>1
        <3>3. m[x] + 1 \in Nat /\ m[next[x]] + 1 \in Nat
            BY <2>1, <3>1
        <3>4. Good(of(x), m[x] + 1) /\ Good(of(next[x]), m[next[x]] + 1)
            BY <1>4, <3>1
        <3>5. of(x) \in [D -> V] /\ of(next[x]) \in [D -> V]
            BY <1>4, <3>1
        <3>6. of(x)[next[x]] = of(next[x])[next[x]]
            <4> HIDE DEF Good
            <4>1. \A g, h \in [D -> V], n, k \in Nat :
                     Good(g, n) /\ Good(h, k) => \A y \in D : m[y] < n /\ m[y] < k => g[y] = h[y]
                BY <1>3
            <4>2. \A y \in D : m[y] < m[x] + 1 /\ m[y] < m[next[x]] + 1 => of(x)[y] = of(next[x])[y]
                BY <3>3, <3>4, <3>5, <4>1
            <4> QED
                BY <3>1, <3>2, <4>2
        <3> QED
            BY <2>2, <2>4, <3>1, <3>6
    <2> QED
        BY <2>3, <2>4
<1> HIDE DEF f
<1> QED
    BY <1>5, <1>6
=============================================================================
