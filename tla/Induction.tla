------------------------------ MODULE Induction ------------------------------
(***************************************************************************)
(* Induction and recursion over natural numbers, stated with sets and      *)
(* functions where the library has operators: whoever cites them names the *)
(* set of numbers for which a formula holds, or the function of one step.  *)
(***************************************************************************)
EXTENDS Integers, WellFoundedInduction, TLAPS

\* A set of numbers that holds 0 and, with a number, the next one.
LEMMA Inductive ==
    ASSUME NEW S, 0 \in S, \A n \in Nat : n \in S => n + 1 \in S
    PROVE  Nat \subseteq S
<1> DEFINE less == OpToRel(<, Nat)
<1>. SUFFICES ASSUME Nat \ S # {} PROVE FALSE
  OBVIOUS
<1>1. \A i, j \in Nat : i < j => <<i, j>> \in less
  BY DEF OpToRel
<1>2. IsWellFoundedOn(less, Nat)
  BY NatLessThanWellFounded
<1>3. \E n \in Nat \ S : \A i \in Nat \ S : ~(<<i, n>> \in less)
  <2>. HIDE DEF less
  <2>. QED BY <1>2, WFMin
<1>4. PICK n \in Nat \ S : \A i \in Nat \ S : ~(i < n)
  BY <1>1, <1>3
<1>5. n # 0 /\ n - 1 \in Nat /\ (n - 1) + 1 = n
  BY <1>4
<1>6. n - 1 \in S
  BY <1>4, <1>5
<1>. QED BY <1>4, <1>5, <1>6

\* The same up to a bound.
LEMMA InductiveUpTo ==
    ASSUME NEW N \in Nat, NEW S, 0 \in S, \A n \in 0 .. N - 1 : n \in S => n + 1 \in S
    PROVE  0 .. N \subseteq S
<1> DEFINE T == {n \in Nat : n <= N => n \in S}
<1>1. 0 \in T
  OBVIOUS
<1>2. \A n \in Nat : n \in T => n + 1 \in T
  OBVIOUS
<1>3. Nat \subseteq T
  <2>. HIDE DEF T
  <2>. QED BY <1>1, <1>2, Inductive
<1>. QED BY <1>3

\* One step from a value of D to the next, for each number from 1 to N, and the
\* values that the steps lead to from a first one.
IsStep(step, N, D) == step \in [(1 .. N) \X D -> D]

IsRun(f, N, D, first, step) ==
    /\ f \in [0 .. N -> D]
    /\ f[0] = first /\ \A i \in 1 .. N : f[i] = step[<<i, f[i - 1]>>]

\* There is a function that holds them all.
LEMMA Iterates ==
    ASSUME NEW N \in Nat, NEW D, NEW first \in D, NEW step, IsStep(step, N, D)
    PROVE  \E f : IsRun(f, N, D, first, step)
<1>. USE DEF IsStep, IsRun
<1> DEFINE Run(f, n) ==
        f[0] = first /\ \A i \in 1 .. n : f[i] = step[<<i, f[i - 1]>>]
    S == {n \in 0 .. N : \E f \in [0 .. n -> D] : Run(f, n)}
<1>1. 0 \in S
  <2> DEFINE g == [i \in 0 .. 0 |-> first]
  <2>1. g \in [0 .. 0 -> D] /\ Run(g, 0)
    OBVIOUS
  <2>2. 0 \in 0 .. N
    OBVIOUS
  <2>. HIDE DEF g, Run
  <2>. QED BY <2>1, <2>2
<1>2. ASSUME NEW n \in 0 .. N - 1, n \in S PROVE n + 1 \in S
  <2>1. PICK f \in [0 .. n -> D] : Run(f, n)
    BY <1>2
  <2> DEFINE g == [i \in 0 .. n + 1 |-> IF i = n + 1 THEN step[<<n + 1, f[n]>>] ELSE f[i]]
  <2>2. n \in 0 .. n /\ f[n] \in D /\ <<n + 1, f[n]>> \in (1 .. N) \X D
    OBVIOUS
  <2>3. step[<<n + 1, f[n]>>] \in D
    BY <2>2
  <2>4. g \in [0 .. n + 1 -> D]
    BY <2>3
  <2>5. ASSUME NEW i \in 1 .. n + 1 PROVE g[i] = step[<<i, g[i - 1]>>]
    <3>1. CASE i = n + 1
      <4>1. g[n + 1] = step[<<n + 1, f[n]>>] /\ g[n] = f[n]
        OBVIOUS
      <4>2. i - 1 = n
        BY <3>1
      <4>. QED BY <3>1, <4>1, <4>2
    <3>2. CASE i # n + 1
      <4>1. i \in 1 .. n /\ g[i] = f[i] /\ g[i - 1] = f[i - 1]
        BY <3>2
      <4>. QED BY <2>1, <4>1
    <3>. QED BY <3>1, <3>2
  <2>6. g[0] = first
    BY <2>1
  <2>7. n + 1 \in 0 .. N
    OBVIOUS
  <2>. HIDE DEF g
  <2>8. Run(g, n + 1)
    BY <2>5, <2>6
  <2>. HIDE DEF Run
  <2>. QED BY <2>4, <2>7, <2>8
<1>3. 0 .. N \subseteq S
  <2>. HIDE DEF S
  <2>. QED BY <1>1, <1>2, InductiveUpTo
<1>. QED BY <1>3
==============================================================================
