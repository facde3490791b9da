------------------------------- MODULE Induction -------------------------------
(***************************************************************************)
(* Induction on natural numbers, with sets for predicates, and the         *)
(* functions that recursive definitions over them stand for.               *)
(***************************************************************************)
EXTENDS Integers, WellFoundedInduction, TLAPS

(* Every set of natural numbers that is not empty has a least member. *)
LEMMA LeastMember ==
  ASSUME NEW T, T \subseteq Nat, T # {}
  PROVE  \E m \in T : \A k \in T : m <= k
<1>1. PICK m \in T : \A k \in T : ~(<<k, m>> \in OpToRel(<, Nat))
  BY NatLessThanWellFounded, WFMin
<1>2. \A k \in T : ~(k < m)
  <2>1. ASSUME NEW k \in T, k < m PROVE <<k, m>> \in OpToRel(<, Nat)
    BY <2>1 DEF OpToRel
  <2> QED BY <1>1, <2>1
<1> QED BY <1>2

(* A set that holds a number, and with each number the next, up to a bound.*)
LEMMA UpTo ==
  ASSUME NEW T, NEW m \in Nat, NEW n \in Nat, m \in T,
         \A k \in m + 1 .. n : k - 1 \in T => k \in T
  PROVE  \A k \in m .. n : k \in T
<1> DEFINE U == {k \in m .. n : k \notin T}
<1>1. SUFFICES ASSUME U # {} PROVE FALSE
  OBVIOUS
<1>2. U \subseteq Nat
  OBVIOUS
<1>3. PICK k \in U : \A j \in U : k <= j
  <2> HIDE DEF U
  <2> QED BY <1>1, <1>2, LeastMember
<1>4. k \in m + 1 .. n /\ k - 1 \in m .. n /\ k \notin T
  OBVIOUS
<1>5. k - 1 \notin U
  <2> HIDE DEF U
  <2> QED BY <1>3, <1>4
<1> QED BY <1>4, <1>5

(* f begins at first and goes on by the function step, n times. *)
Iterates(S, first, step, n, f) ==
  /\ f = [k \in 0 .. n |-> IF k = 0 THEN first ELSE step[f[k - 1]]]
  /\ \A k \in 0 .. n : f[k] \in S

(* A function can be iterated any number of times. *)
LEMMA Iterated ==
  ASSUME NEW S, NEW first \in S, NEW step \in [S -> S], NEW n \in Nat
  PROVE  \E f : Iterates(S, first, step, n, f)
<1> DEFINE T == {m \in Nat : \E f : Iterates(S, first, step, m, f)}
<1>1. 0 \in T
  <2> DEFINE g == [k \in 0 .. 0 |-> first]
  <2>1. g = [k \in 0 .. 0 |-> IF k = 0 THEN first ELSE step[g[k - 1]]]
    OBVIOUS
  <2>2. Iterates(S, first, step, 0, g)
    BY <2>1 DEF Iterates
  <2> QED BY <2>2
<1>2. ASSUME NEW m \in 1 .. n, m - 1 \in T PROVE m \in T
  <2>1. PICK h : Iterates(S, first, step, m - 1, h)
    BY <1>2
  <2> DEFINE g == [k \in 0 .. m |-> IF k = m THEN step[h[m - 1]] ELSE h[k]]
  <2>2. h[m - 1] \in S /\ step[h[m - 1]] \in S
    <3>1. m - 1 \in 0 .. m - 1
      OBVIOUS
    <3> QED BY <2>1, <3>1 DEF Iterates
  <2>3. \A k \in 0 .. m - 1 : h[k] \in S /\ h[k] = IF k = 0 THEN first ELSE step[h[k - 1]]
    BY <2>1 DEF Iterates
  <2>4. ASSUME NEW k \in 0 .. m
        PROVE  g[k] \in S /\ g[k] = IF k = 0 THEN first ELSE step[g[k - 1]]
    <3>1. CASE k = m
      <4>1. k # 0 /\ k - 1 = m - 1 /\ m - 1 \in 0 .. m /\ m - 1 # m
        BY <3>1
      <4> QED BY <2>2, <3>1, <4>1
    <3>2. CASE k # m
      <4>1. k \in 0 .. m - 1 /\ (k # 0 => k - 1 \in 0 .. m /\ k - 1 # m)
        BY <3>2
      <4> QED BY <2>3, <3>2, <4>1
    <3> QED BY <3>1, <3>2
  <2>5. g = [k \in 0 .. m |-> IF k = 0 THEN first ELSE step[g[k - 1]]]
    BY <2>4
  <2>6. Iterates(S, first, step, m, g)
    <3> HIDE DEF g
    <3> QED BY <2>4, <2>5 DEF Iterates
  <2> QED BY <2>6
<1>3. \A m \in 0 + 1 .. n : m - 1 \in T => m \in T
  <2> HIDE DEF T
  <2> QED BY <1>2
<1>4. n \in 0 .. n
  OBVIOUS
<1>5. n \in T
  <2> HIDE DEF T
  <2> QED BY <1>1, <1>3, <1>4, UpTo
<1> QED BY <1>5
=============================================================================
