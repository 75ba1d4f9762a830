----------------------------- MODULE Iteration -----------------------------
(***************************************************************************)
(* A C++ loop whose body transforms a value, as the sequence of values it  *)
(* goes through: Iterates(s)[k] is the value after k rounds from s.  Step  *)
(* is the body guarded by the loop condition, so that a finished loop      *)
(* stutters.  The lemmas say that the recursive function is well defined   *)
(* and that what every round preserves holds after any number of rounds.   *)
(* Induction is by least counterexample, from the library's theorem WFMin, *)
(* because the induction theorems that take a predicate as a parameter     *)
(* cannot be instantiated by the SMT and Zenon backends.                   *)
(***************************************************************************)
EXTENDS Integers, WellFoundedInduction, TLAPS

CONSTANT Step(_)

Iterates(s) ==
  LET it[i \in Nat] == IF i = 0 THEN s ELSE Step(it[i - 1]) IN it

\* g is the sequence of the first n + 1 values of the loop started in s
Trace(s, n, g) == g = [i \in 0 .. n |-> IF i = 0 THEN s ELSE Step(g[i - 1])]

-----------------------------------------------------------------------------
(* Every non-empty set of natural numbers has a least element. *)
LEMMA LeastNat ==
  ASSUME NEW T, T \subseteq Nat, T # {}
  PROVE  \E x \in T : \A y \in T : x <= y
<1> DEFINE R == {ss \in Nat \X Nat : ss[1] < ss[2]}
<1>1. IsWellFoundedOn(R, Nat)
  BY NatLessThanWellFounded DEF OpToRel
<1> HIDE DEF R
<1>2. \E x \in T : \A y \in T : ~ (<<y, x>> \in R)
  BY <1>1, WFMin
<1>3. PICK x \in T : \A y \in T : ~ (<<y, x>> \in R)
  BY <1>2
<1>4. ASSUME NEW y \in T PROVE x <= y
  <2>1. x \in Nat /\ y \in Nat /\ ~ (<<y, x>> \in R)
    BY <1>3
  <2>2. y < x => <<y, x>> \in R
    BY <2>1 DEF R
  <2>3. QED BY <2>1, <2>2
<1>5. QED BY <1>3, <1>4

(* Induction over the naturals, for a set in place of a predicate. *)
LEMMA SetInduction ==
  ASSUME NEW S, 0 \in S, \A n \in Nat : n \in S => n + 1 \in S
  PROVE  Nat \subseteq S
<1> DEFINE T == Nat \ S
<1>1. SUFFICES ASSUME T # {} PROVE FALSE
  OBVIOUS
<1>2. PICK x \in T : \A y \in T : x <= y
  BY <1>1, LeastNat
<1>3. x # 0 /\ x - 1 \in Nat
  BY <1>2
<1>4. x - 1 \in S
  BY <1>2, <1>3
<1>5. QED BY <1>2, <1>3, <1>4

(* The loop has a sequence of first values of every length. *)
LEMMA TraceExists == ASSUME NEW s, NEW n \in Nat PROVE \E g : Trace(s, n, g)
<1> DEFINE S == {m \in Nat : \E g : Trace(s, m, g)}
<1>1. 0 \in S
  <2> DEFINE g == [i \in 0..0 |-> s]
  <2>1. Trace(s, 0, g)
    BY DEF Trace
  <2>2. QED BY <2>1
<1>2. ASSUME NEW m \in Nat, m \in S PROVE m + 1 \in S
  <2>1. PICK g : Trace(s, m, g)
    BY <1>2
  <2> DEFINE h == [i \in 0..(m+1) |-> IF i = m + 1 THEN Step(g[m]) ELSE g[i]]
  <2>2. \A i \in 0..m : g[i] = IF i = 0 THEN s ELSE Step(g[i-1])
    BY <2>1 DEF Trace
  <2>3. ASSUME NEW i \in 0..(m+1) PROVE h[i] = IF i = 0 THEN s ELSE Step(h[i-1])
    BY <2>2
  <2>4. Trace(s, m+1, h)
    BY <2>3 DEF Trace
  <2>5. QED BY <2>4
<1> HIDE DEF S
<1>3. Nat \subseteq S
  BY <1>1, <1>2, SetInduction
<1>4. QED BY <1>3 DEF S

(* Two such sequences agree where both are defined. *)
LEMMA TraceUnique ==
  ASSUME NEW s, NEW n \in Nat, NEW g, NEW m \in Nat, NEW h, n <= m,
         Trace(s, n, g), Trace(s, m, h)
  PROVE  \A i \in 0..n : g[i] = h[i]
<1> DEFINE S == {i \in Nat : i <= n => g[i] = h[i]}
<1>0. /\ \A i \in 0..n : g[i] = IF i = 0 THEN s ELSE Step(g[i-1])
      /\ \A i \in 0..m : h[i] = IF i = 0 THEN s ELSE Step(h[i-1])
  BY DEF Trace
<1>1. 0 \in S
  BY <1>0
<1>2. ASSUME NEW i \in Nat, i \in S PROVE i + 1 \in S
  <2>1. CASE i + 1 <= n
    <3>1. i + 1 \in 0..n /\ i + 1 \in 0..m /\ g[i] = h[i] /\ i + 1 # 0 /\ (i + 1) - 1 = i
      BY <2>1, <1>2
    <3>2. g[i+1] = Step(g[i]) /\ h[i+1] = Step(h[i])
      BY <3>1, <1>0
    <3>3. QED BY <3>1, <3>2
  <2>2. QED BY <2>1
<1> HIDE DEF S
<1>3. Nat \subseteq S
  BY <1>1, <1>2, SetInduction
<1>4. QED BY <1>3 DEF S

(* The recursive function Iterates(s) satisfies its defining equations, so *)
(* one more index is one more round of the loop.                           *)
THEOREM IteratesDef ==
  ASSUME NEW s
  PROVE  /\ Iterates(s)[0] = s
         /\ \A n \in Nat : Iterates(s)[n+1] = Step(Iterates(s)[n])
<1> DEFINE f == [n \in Nat |-> (CHOOSE g : Trace(s, n, g))[n]]
           Fix(g) == g = [i \in Nat |-> IF i = 0 THEN s ELSE Step(g[i-1])]
<1>1. \A n \in Nat : Trace(s, n, CHOOSE g : Trace(s, n, g))
  BY TraceExists
<1>2. f[0] = s
  <2> DEFINE g == CHOOSE g : Trace(s, 0, g)
  <2>1. Trace(s, 0, g) /\ f[0] = g[0]
    BY <1>1
  <2> HIDE DEF g, f
  <2>2. g[0] = s
    BY <2>1 DEF Trace
  <2>3. QED BY <2>1, <2>2
<1>3. ASSUME NEW n \in Nat PROVE f[n+1] = Step(f[n])
  <2> DEFINE g == CHOOSE g : Trace(s, n, g)
             h == CHOOSE h : Trace(s, n+1, h)
  <2>1. Trace(s, n, g) /\ Trace(s, n+1, h)
    BY <1>1
  <2>3. f[n] = g[n] /\ f[n+1] = h[n+1]
    OBVIOUS
  <2> HIDE DEF g, h, f
  <2>2. g[n] = h[n]
    BY <2>1, TraceUnique
  <2>4. h[n+1] = Step(h[n])
    BY <2>1 DEF Trace
  <2>5. QED BY <2>2, <2>3, <2>4
<1>4. Fix(f)
  <2>1. ASSUME NEW i \in Nat PROVE f[i] = IF i = 0 THEN s ELSE Step(f[i-1])
    <3>1. CASE i = 0 BY <3>1, <1>2
    <3>2. CASE i # 0
      <4>1. i - 1 \in Nat /\ (i - 1) + 1 = i BY <3>2
      <4>2. f[(i-1)+1] = Step(f[i-1]) BY <4>1, <1>3
      <4>3. QED BY <4>1, <4>2, <3>2
    <3>3. QED BY <3>1, <3>2
  <2>2. f = [i \in Nat |-> f[i]]
    OBVIOUS
  <2> HIDE DEF f
  <2>3. QED BY <2>1, <2>2
<1> HIDE DEF f
<1>5. Fix(CHOOSE g : Fix(g))
  BY <1>4
<1>6. Iterates(s) = CHOOSE g : Fix(g)
  BY DEF Iterates
<1>7. Fix(Iterates(s))
  BY <1>5, <1>6
<1>8. ASSUME NEW n \in Nat PROVE Iterates(s)[n+1] = Step(Iterates(s)[n])
  BY <1>7
<1>9. Iterates(s)[0] = s
  BY <1>7
<1>10. QED BY <1>8, <1>9

(* What the loop body preserves, membership in S, holds after k rounds. *)
LEMMA IteratesInvariant ==
  ASSUME NEW s, NEW S, s \in S, \A x \in S : Step(x) \in S, NEW k \in Nat
  PROVE  Iterates(s)[k] \in S
<1> DEFINE T == {n \in Nat : Iterates(s)[n] \in S}
<1>1. 0 \in T
  BY IteratesDef
<1>2. ASSUME NEW n \in Nat, n \in T PROVE n + 1 \in T
  BY <1>2, IteratesDef
<1> HIDE DEF T
<1>3. Nat \subseteq T
  BY <1>1, <1>2, SetInduction
<1>4. QED BY <1>3 DEF T
=============================================================================
