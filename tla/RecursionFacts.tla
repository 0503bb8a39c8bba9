----------------------------- MODULE RecursionFacts ----------------------------
(****************************************************************************)
(* Induction over the natural numbers for the recursive functions of the    *)
(* specifications, which go along a queue: from the value f[k - 1] after    *)
(* k - 1 elements to f[k].  The predicate of an induction is a set of       *)
(* numbers here, and the step of a recursion is a function, because no      *)
(* prover used instantiates an operator.                                    *)
(****************************************************************************)
EXTENDS Integers, WellFoundedInduction, TLAPS

\* Some number is the smallest.
LEMMA SmallestNumber ==
    ASSUME NEW T, T \subseteq Nat, T # {}
    PROVE  \E x \in T : \A y \in T : x =< y
<1> DEFINE Less == OpToRel(<, Nat)
<1>1. PICK x \in T : \A y \in T : ~(<<y, x>> \in Less)
  BY NatLessThanWellFounded, WFMin, Zenon
<1>2. \A y \in T : ~(y < x)
  BY <1>1 DEF OpToRel
<1> QED BY <1>2

\* A set with 0 and with the successors of its elements has every number up to n.
LEMMA UpTo ==
    ASSUME NEW n \in Nat, NEW T, 0 \in T, \A k \in 1..n : k - 1 \in T => k \in T
    PROVE  0..n \subseteq T
<1> DEFINE out == (0..n) \ T
<1>1. SUFFICES ASSUME out # {} PROVE FALSE
  OBVIOUS
<1>2. PICK x \in out : \A y \in out : x =< y
  <2>1. out \subseteq Nat
    OBVIOUS
  <2> HIDE DEF out
  <2> QED BY <1>1, <2>1, SmallestNumber
<1>3. x \in 1..n
  BY <1>2
<1>4. x - 1 \in 0..n /\ x - 1 \notin out
  BY <1>2, <1>3
<1> QED BY <1>2, <1>3, <1>4

\* The step h of a recursion of n steps stays within the values V.
Closed(h, V, n) == \A v \in V, k \in 1..n : h[<<v, k>>] \in V

\* g goes from c by the steps h.
Chain(g, V, c, h, n) ==
    g \in [0..n -> V] /\ g[0] = c /\ \A k \in 1..n : g[k] = h[<<g[k - 1], k>>]

\* There is such a function, for as many steps as one likes.
LEMMA ChainExists ==
    ASSUME NEW n \in Nat, NEW V, NEW c \in V, NEW h, Closed(h, V, n)
    PROVE  \E g : Chain(g, V, c, h, n)
<1> DEFINE T == {m \in 0..n : \E g : Chain(g, V, c, h, m)}
<1>1. 0 \in T
  <2> DEFINE g == [k \in 0..0 |-> c]
  <2>1. Chain(g, V, c, h, 0)
    BY DEF Chain
  <2> HIDE DEF g
  <2> QED BY <2>1
<1>2. ASSUME NEW m \in 1..n, m - 1 \in T PROVE m \in T
  <2>1. PICK g : Chain(g, V, c, h, m - 1)
    BY <1>2
  <2> DEFINE x == h[<<g[m - 1], m>>]
             e == [k \in 0..m |-> IF k = m THEN x ELSE g[k]]
  <2>2. g[m - 1] \in V /\ x \in V
    BY <2>1 DEF Chain, Closed
  <2> HIDE DEF x
  <2>3. e \in [0..m -> V] /\ e[0] = c /\ e[m] = x /\ \A k \in 0..m - 1 : e[k] = g[k]
    BY <2>1, <2>2 DEF Chain
  <2>4. \A k \in 1..m : e[k] = h[<<e[k - 1], k>>]
    <3> SUFFICES ASSUME NEW k \in 1..m PROVE e[k] = h[<<e[k - 1], k>>]
      OBVIOUS
    <3>1. e[k - 1] = g[k - 1]
      BY <2>3
    <3>2. CASE k = m
      BY <2>3, <3>1, <3>2 DEF x
    <3>3. CASE k # m
      BY <2>1, <2>3, <3>1, <3>3 DEF Chain
    <3> QED BY <3>2, <3>3
  <2> HIDE DEF e
  <2>5. Chain(e, V, c, h, m)
    BY <2>3, <2>4 DEF Chain
  <2> QED BY <2>5
<1> HIDE DEF T
<1>3. n \in T
  BY <1>1, <1>2, UpTo
<1> QED BY <1>3 DEF T

\* f and g start alike and each step keeps them alike.
Alike(f, g, n) == f[0] = g[0] /\ \A k \in 1..n : f[k - 1] = g[k - 1] => f[k] = g[k]

\* Then they agree throughout.
LEMMA AlikeAgree ==
    ASSUME NEW n \in Nat, NEW f, NEW g, Alike(f, g, n)
    PROVE  \A k \in 0..n : f[k] = g[k]
<1> DEFINE T == {k \in 0..n : f[k] = g[k]}
<1>1. 0 \in T /\ \A k \in 1..n : k - 1 \in T => k \in T
  BY DEF Alike
<1> HIDE DEF T
<1>2. 0..n \subseteq T
  BY <1>1, UpTo
<1> QED BY <1>2 DEF T
================================================================================
