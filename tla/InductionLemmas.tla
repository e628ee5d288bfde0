---------------------------- MODULE InductionLemmas ----------------------------
(***************************************************************************)
(* Induction over the natural numbers, said of a set of them, and the      *)
(* least element of one.  The proofs about recursive functions cite these. *)
(***************************************************************************)
EXTENDS Integers, WellFoundedInduction, TLAPS

(* Every set of natural numbers with an element has a least one.           *)
LEMMA LeastNatural ==
  ASSUME NEW S \in SUBSET Nat, S # {}
  PROVE  \E x \in S : \A y \in S : x <= y
<1> DEFINE Below == {p \in Nat \X Nat : p[1] < p[2]}
<1>1. IsWellFoundedOn(Below, Nat)
  BY NatLessThanWellFounded, Zenon DEF OpToRel
<1>2. \A x, y \in Nat : y < x => <<y, x>> \in Below
  OBVIOUS
<1>3. PICK x \in S : \A y \in S : <<y, x>> \notin Below
  <2> HIDE DEF Below
  <2> QED
    BY <1>1, WFMin
<1>4. ASSUME NEW y \in S
      PROVE  x <= y
  <2>1. x \in Nat /\ y \in Nat
    OBVIOUS
  <2>2. ~(y < x)
    BY <1>2, <1>3, <2>1
  <2> QED
    BY <2>1, <2>2
<1> QED
  BY <1>4

(* A set that begins at m and has with every number the next one up to n   *)
(* has all of them.                                                        *)
LEMMA Induction ==
  ASSUME NEW m \in Int, NEW n \in Int, NEW S,
         m <= n => m \in S,
         \A i \in m .. n - 1 : i \in S => i + 1 \in S
  PROVE  m .. n \subseteq S
<1> DEFINE Missing == {i \in Nat : m + i <= n /\ m + i \notin S}
<1>1. SUFFICES ASSUME Missing # {} PROVE FALSE
  <2>1. SUFFICES ASSUME NEW k \in m .. n, k \notin S PROVE FALSE
    OBVIOUS
  <2>2. k - m \in Missing
    BY <2>1
  <2> QED
    BY <1>1, <2>2
<1>2. Missing \in SUBSET Nat
  OBVIOUS
<1>3. PICK x \in Missing : \A y \in Missing : x <= y
  <2> HIDE DEF Missing
  <2> QED
    BY <1>1, <1>2, LeastNatural
<1>4. x \in Nat /\ m + x <= n /\ m + x \notin S
  OBVIOUS
<1>5. x # 0
  BY <1>4
<1>6. x - 1 \in Nat /\ x - 1 \notin Missing
  BY <1>3, <1>4, <1>5
<1>7. m + (x - 1) \in S /\ m + (x - 1) \in m .. n - 1
  BY <1>4, <1>6
<1>8. m + (x - 1) + 1 = m + x
  BY <1>4
<1> QED
  BY <1>4, <1>7, <1>8

(* The same downwards.                                                     *)
LEMMA DownwardInduction ==
  ASSUME NEW m \in Int, NEW n \in Int, NEW S,
         m <= n => n \in S,
         \A i \in m + 1 .. n : i \in S => i - 1 \in S
  PROVE  m .. n \subseteq S
<1> DEFINE Up == {i \in Int : n - i + m \in S}
<1>1. m <= n => m \in Up
  OBVIOUS
<1>2. ASSUME NEW i \in m .. n - 1, i \in Up
      PROVE  i + 1 \in Up
  <2>1. n - i + m \in m + 1 .. n /\ n - i + m \in S
    BY <1>2
  <2>2. n - i + m - 1 = n - (i + 1) + m
    OBVIOUS
  <2> QED
    BY <2>1, <2>2
<1>3. m .. n \subseteq Up
  <2> HIDE DEF Up
  <2> QED
    BY <1>1, <1>2, Induction
<1>4. ASSUME NEW k \in m .. n
      PROVE  k \in S
  <2>1. n - k + m \in m .. n
    OBVIOUS
  <2>2. n - (n - k + m) + m = k
    OBVIOUS
  <2> QED
    BY <1>3, <2>1, <2>2
<1> QED
  BY <1>4

(* The same from zero on.                                                  *)
LEMMA UpwardInduction ==
  ASSUME NEW n \in Nat, NEW S, 0 \in S,
         \A i \in 0 .. n - 1 : i \in S => i + 1 \in S
  PROVE  0 .. n \subseteq S /\ n \in S
<1>1. 0 \in Int /\ n \in Int /\ (0 <= n => 0 \in S)
  OBVIOUS
<1>2. 0 .. n \subseteq S
  BY <1>1, Induction
<1> QED
  BY <1>2

(* Values that follow from each other: a recursive function has a value    *)
(* everywhere.                                                             *)
Steps(T, N) == [0 .. N - 1 -> [T -> T]]

Iterates(T, base, N, step) ==
  {f \in [0 .. N -> T] : /\ f[0] = base
                         /\ \A i \in 0 .. N - 1 : f[i + 1] = step[i][f[i]]}

LEMMA Iteration ==
  ASSUME NEW T, NEW base \in T, NEW N \in Nat, NEW step \in Steps(T, N)
  PROVE  Iterates(T, base, N, step) # {}
<1> DEFINE Part(f, n) == /\ f \in [0 .. n -> T] /\ f[0] = base
                         /\ \A i \in 0 .. n - 1 : f[i + 1] = step[i][f[i]]
           S == {n \in 0 .. N : \E f : Part(f, n)}
<1>1. 0 \in S
  <2>1. Part([i \in 0 .. 0 |-> base], 0) /\ 0 \in 0 .. N
    OBVIOUS
  <2> HIDE DEF Part
  <2> QED
    BY <2>1
<1>2. ASSUME NEW n \in 0 .. N - 1, n \in S
      PROVE  n + 1 \in S
  <2>1. PICK f : Part(f, n)
    BY <1>2
  <2> DEFINE g == [i \in 0 .. n + 1 |-> IF i = n + 1 THEN step[n][f[n]] ELSE f[i]]
  <2>2. /\ g \in [0 .. n + 1 -> T] /\ g[0] = base
    <3>1. f[n] \in T
      BY <2>1
    <3>2. step[n][f[n]] \in T
      BY <3>1 DEF Steps
    <3> QED
      BY <2>1, <3>2
  <2>3. ASSUME NEW i \in 0 .. n
        PROVE  g[i + 1] = step[i][g[i]]
    <3>1. CASE i = n
      BY <3>1
    <3>2. CASE i # n
      <4>1. i \in 0 .. n - 1 /\ i + 1 \in 0 .. n + 1 /\ i + 1 # n + 1 /\ i \in 0 .. n + 1
            /\ i # n + 1
        BY <3>2
      <4>2. g[i + 1] = f[i + 1] /\ g[i] = f[i]
        BY <4>1
      <4> QED
        BY <2>1, <4>1, <4>2
    <3> QED
      BY <3>1, <3>2
  <2>4. Part(g, n + 1)
    <3> HIDE DEF g
    <3> QED
      BY <2>2, <2>3
  <2>5. n + 1 \in 0 .. N
    OBVIOUS
  <2> HIDE DEF Part, g
  <2> QED
    BY <2>4, <2>5
<1>3. N \in S
  <2> HIDE DEF S
  <2>1. \A i \in 0 .. N - 1 : i \in S => i + 1 \in S
    BY <1>2
  <2> QED
    BY <1>1, <2>1, UpwardInduction
<1> QED
  BY <1>3 DEF Iterates
===============================================================================
