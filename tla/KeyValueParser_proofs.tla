------------------------ MODULE KeyValueParser_proofs ------------------------
(***************************************************************************)
(* What holds of the parser for every text and every length of a string:   *)
(* ParserInv is inductive, and with it the texts that are accepted are     *)
(* known, the tree holds what the text does, and what is written or        *)
(* printed fits into what was counted.                                     *)
(***************************************************************************)
EXTENDS KeyValueParser, FiniteSetTheorems, SequenceTheorems, InductionLemmas, TLAPS

-------------------------------------------------------------------------------
(* The places of a row that lie in a set, counted up to one place more. *)
LEMMA CountStep ==
  ASSUME NEW k \in Nat, NEW E
  PROVE  /\ Cardinality({i \in 1..k : i \in E}) \in Nat
         /\ Cardinality({i \in 1..(k + 1) : i \in E})
              = Cardinality({i \in 1..k : i \in E}) + (IF k + 1 \in E THEN 1 ELSE 0)
         /\ Cardinality({i \in 1..0 : i \in E}) = 0
<1> DEFINE old == {i \in 1..k : i \in E}
           new == {i \in 1..(k + 1) : i \in E}
<1>1. IsFiniteSet(old)
  <2>1. IsFiniteSet(1..k)
    BY FS_Interval
  <2> QED
    BY <2>1, FS_Subset
<1>2. Cardinality(old) \in Nat
  <2> HIDE DEF old
  <2> QED
    BY <1>1, FS_CardinalityType
<1>3. k + 1 \in E => new = old \cup {k + 1} /\ k + 1 \notin old
  OBVIOUS
<1>4. k + 1 \notin E => new = old
  OBVIOUS
<1>5. {i \in 1..0 : i \in E} = {}
  OBVIOUS
<1>6. Cardinality(new) = Cardinality(old) + (IF k + 1 \in E THEN 1 ELSE 0)
  <2> HIDE DEF old, new
  <2> QED
    BY <1>1, <1>2, <1>3, <1>4, FS_AddElement
<1>7. Cardinality({i \in 1..0 : i \in E}) = 0
  BY <1>5, FS_EmptySet
<1> QED
  BY <1>2, <1>6, <1>7

LEMMA CountSteps ==
  \A E : \A k \in Nat :
    /\ Cardinality({i \in 1..k : i \in E}) \in Nat
    /\ Cardinality({i \in 1..(k + 1) : i \in E})
         = Cardinality({i \in 1..k : i \in E}) + (IF k + 1 \in E THEN 1 ELSE 0)
BY CountStep

-------------------------------------------------------------------------------
(* The sum of a row of numbers: what it is of a row and of the same row with one
   number more. *)
Sums(n, s) ==
  {f \in [0..n -> Nat] :
     /\ f[0] = 0
     /\ \A i \in 0..(n - 1) : f[i + 1] = f[i] + s[i + 1]}

LEMMA SumsExist ==
  ASSUME NEW n \in Nat, NEW s \in [1..n -> Nat]
  PROVE  Sums(n, s) # {}
<1> DEFINE zero == 0
           add == [i \in 0..(n - 1) |-> [t \in Nat |-> t + s[i + 1]]]
<1>1. ASSUME NEW i \in 0..(n - 1), NEW t \in Nat
      PROVE  t + s[i + 1] \in Nat
  <2>1. i + 1 \in 1..n
    OBVIOUS
  <2>2. s[i + 1] \in Nat
    BY <2>1
  <2> QED
    BY <2>2
<1>2. add \in Steps(Nat, n)
  BY <1>1 DEF Steps
<1>3. zero \in Nat
  OBVIOUS
<1>4. PICK f \in Iterates(Nat, zero, n, add) : TRUE
  <2> HIDE DEF zero, add
  <2> QED
    BY <1>2, <1>3, Iteration
<1>5. f \in [0..n -> Nat] /\ f[0] = 0
  BY DEF Iterates
<1>6. ASSUME NEW i \in 0..(n - 1)
      PROVE  f[i + 1] = f[i] + s[i + 1]
  <2>1. f[i + 1] = add[i][f[i]]
    <3> HIDE DEF zero, add
    <3> QED
      BY DEF Iterates
  <2>2. i \in 0..n
    OBVIOUS
  <2>3. f[i] \in Nat
    BY <1>5, <2>2
  <2> QED
    BY <2>1, <2>3
<1> QED
  BY <1>5, <1>6 DEF Sums

LEMMA TotalUnfolds ==
  ASSUME NEW n \in Nat, NEW s \in [1..n -> Nat], NEW f \in Sums(n, s)
  PROVE  Total(s) = f[n]
<1> DEFINE IsSum(g) == g = [i \in 0..Len(s) |-> IF i = 0 THEN 0 ELSE g[i - 1] + s[i]]
           g == CHOOSE g : IsSum(g)
<1>1. Len(s) = n
  OBVIOUS
<1>2. f \in [0..n -> Nat] /\ f[0] = 0 /\ \A i \in 0..(n - 1) : f[i + 1] = f[i] + s[i + 1]
  BY DEF Sums
<1>3. IsSum(f)
  <2>1. ASSUME NEW i \in 0..n, i # 0
        PROVE  f[i] = f[i - 1] + s[i]
    <3>1. i - 1 \in 0..(n - 1) /\ i - 1 + 1 = i
      BY <2>1
    <3> QED
      BY <1>2, <3>1
  <2>2. f = [i \in 0..n |-> f[i]]
    BY <1>2
  <2> QED
    BY <1>1, <1>2, <2>1, <2>2
<1>4. IsSum(g)
  <2> HIDE DEF IsSum
  <2> QED
    BY <1>3
<1>5. Total(s) = g[n]
  BY <1>1 DEF Total
<1>6. g = [i \in 0..n |-> IF i = 0 THEN 0 ELSE g[i - 1] + s[i]]
  BY <1>1, <1>4
<1> HIDE DEF g
<1> DEFINE S == {i \in 0..n : g[i] = f[i]}
<1>7. 0 \in S
  BY <1>2, <1>6
<1>8. \A i \in 0..(n - 1) : i \in S => i + 1 \in S
  <2> SUFFICES ASSUME NEW i \in 0..(n - 1), i \in S
               PROVE  i + 1 \in S
    OBVIOUS
  <2>1. i + 1 \in 0..n /\ i + 1 # 0 /\ i + 1 - 1 = i
    OBVIOUS
  <2>2. g[i + 1] = g[i] + s[i + 1]
    BY <1>6, <2>1
  <2>3. f[i + 1] = f[i] + s[i + 1]
    BY <1>2
  <2> QED
    BY <2>1, <2>2, <2>3
<1>9. n \in S
  <2> HIDE DEF S
  <2> QED
    BY <1>7, <1>8, UpwardInduction
<1> QED
  BY <1>5, <1>9

LEMMA TotalOfNone ==
  ASSUME NEW s \in [1..0 -> Nat]
  PROVE  Total(s) = 0
<1>1. PICK f \in Sums(0, s) : TRUE
  BY SumsExist
<1>2. Total(s) = f[0]
  BY TotalUnfolds
<1> QED
  BY <1>2 DEF Sums

LEMMA TotalStep ==
  ASSUME NEW n \in Nat, NEW t \in [1..(n + 1) -> Nat], NEW s \in [1..n -> Nat],
         \A i \in 1..n : s[i] = t[i]
  PROVE  /\ Total(s) \in Nat
         /\ Total(t) = Total(s) + t[n + 1]
<1>1. PICK f \in Sums(n + 1, t) : TRUE
  BY SumsExist
<1>2. /\ f \in [0..(n + 1) -> Nat] /\ f[0] = 0
      /\ \A i \in 0..n : f[i + 1] = f[i] + t[i + 1]
  BY DEF Sums
<1> DEFINE g == [i \in 0..n |-> f[i]]
<1>3. g \in Sums(n, s)
  <2>1. g \in [0..n -> Nat] /\ g[0] = 0
    BY <1>2
  <2>2. ASSUME NEW i \in 0..(n - 1)
        PROVE  g[i + 1] = g[i] + s[i + 1]
    <3>1. i \in 0..n /\ i + 1 \in 0..n /\ i + 1 \in 1..n
      OBVIOUS
    <3> QED
      BY <1>2, <3>1
  <2> QED
    BY <2>1, <2>2 DEF Sums
<1>4. Total(s) = g[n] /\ g[n] = f[n] /\ f[n] \in Nat
  <2>1. n \in 0..n /\ n \in 0..(n + 1)
    OBVIOUS
  <2>2. g[n] = f[n] /\ f[n] \in Nat
    BY <1>2, <2>1
  <2> HIDE DEF g
  <2> QED
    BY <1>3, <2>2, TotalUnfolds
<1>5. Total(t) = f[n + 1]
  <2>1. n + 1 \in Nat
    OBVIOUS
  <2> QED
    BY <2>1, TotalUnfolds
<1>6. f[n + 1] = f[n] + t[n + 1]
  BY <1>2
<1> QED
  BY <1>4, <1>5, <1>6

LEMMA TotalIsNatural ==
  ASSUME NEW n \in Nat, NEW s \in [1..n -> Nat]
  PROVE  Total(s) \in Nat
<1>1. PICK f \in Sums(n, s) : TRUE
  BY SumsExist
<1>2. Total(s) = f[n] /\ n \in 0..n
  BY TotalUnfolds
<1> QED
  BY <1>2 DEF Sums

(* Rows of which one has a number of places with one more than the other. *)
LEMMA TotalsCompare ==
  ASSUME NEW n \in Nat, NEW s \in [1..n -> Nat], NEW t \in [1..n -> Nat], NEW E,
         \A i \in 1..n : s[i] <= t[i] + (IF i \in E THEN 1 ELSE 0)
  PROVE  Total(s) <= Total(t) + Cardinality({i \in 1..n : i \in E})
<1> DEFINE C(k) == Cardinality({i \in 1..k : i \in E})
<1>1. PICK f \in Sums(n, s) : Total(s) = f[n]
  BY SumsExist, TotalUnfolds
<1>2. PICK g \in Sums(n, t) : Total(t) = g[n]
  BY SumsExist, TotalUnfolds
<1>3. /\ f \in [0..n -> Nat] /\ f[0] = 0 /\ \A i \in 0..(n - 1) : f[i + 1] = f[i] + s[i + 1]
      /\ g \in [0..n -> Nat] /\ g[0] = 0 /\ \A i \in 0..(n - 1) : g[i + 1] = g[i] + t[i + 1]
  BY DEF Sums
<1>4. /\ C(0) = 0
      /\ \A k \in Nat : C(k) \in Nat /\ C(k + 1) = C(k) + (IF k + 1 \in E THEN 1 ELSE 0)
  <2>1. C(0) = 0
    BY CountStep
  <2>2. \A k \in Nat : C(k) \in Nat /\ C(k + 1) = C(k) + (IF k + 1 \in E THEN 1 ELSE 0)
    BY CountSteps, Zenon
  <2> HIDE DEF C
  <2> QED
    BY <2>1, <2>2
<1> DEFINE S == {k \in 0..n : f[k] <= g[k] + C(k)}
<1>5. 0 \in S
  <2>1. C(0) = 0 /\ 0 \in 0..n
    BY <1>4
  <2> HIDE DEF C
  <2> QED
    BY <1>3, <2>1
<1>6. \A k \in 0..(n - 1) : k \in S => k + 1 \in S
  <2> SUFFICES ASSUME NEW k \in 0..(n - 1), k \in S
               PROVE  k + 1 \in S
    OBVIOUS
  <2>1. /\ k \in 0..n /\ k + 1 \in 0..n /\ k + 1 \in 1..n /\ k \in Nat
        /\ f[k] \in Nat /\ g[k] \in Nat
        /\ s[k + 1] \in Nat /\ t[k + 1] \in Nat
    BY <1>3
  <2>2. C(k + 1) = C(k) + (IF k + 1 \in E THEN 1 ELSE 0)
    BY <1>4, <2>1
  <2>3. C(k) \in Nat
    BY <1>4, <2>1
  <2> HIDE DEF C
  <2>4. f[k] <= g[k] + C(k)
    OBVIOUS
  <2>5. s[k + 1] <= t[k + 1] + (IF k + 1 \in E THEN 1 ELSE 0)
    BY <2>1
  <2>6. f[k + 1] = f[k] + s[k + 1] /\ g[k + 1] = g[k] + t[k + 1]
    BY <1>3
  <2>7. f[k + 1] <= g[k + 1] + C(k + 1)
    <3>1. CASE k + 1 \in E
      BY <2>1, <2>2, <2>3, <2>4, <2>5, <2>6, <3>1
    <3>2. CASE k + 1 \notin E
      BY <2>1, <2>2, <2>3, <2>4, <2>5, <2>6, <3>2
    <3> QED
      BY <3>1, <3>2
  <2> QED
    BY <2>1, <2>7
<1>7. n \in S
  <2> HIDE DEF S
  <2> QED
    BY <1>5, <1>6, UpwardInduction
<1> QED
  BY <1>1, <1>2, <1>7

-------------------------------------------------------------------------------
(* The same of a row of sequences. *)
Cat(a, b) == a \o b

Joins(X, n, s) ==
  {f \in [0..n -> Seq(X)] :
     /\ f[0] = <<>>
     /\ \A i \in 0..(n - 1) : f[i + 1] = Cat(f[i], s[i + 1])}

LEMMA JoinTypes ==
  ASSUME NEW X, NEW a \in Seq(X), NEW b \in Seq(X)
  PROVE  Cat(a, b) \in Seq(X)
BY DEF Cat

LEMMA JoinsExist ==
  ASSUME NEW X, NEW n \in Nat, NEW s \in [1..n -> Seq(X)]
  PROVE  Joins(X, n, s) # {}
<1> DEFINE T == Seq(X)
           none == <<>>
           add == [i \in 0..(n - 1) |-> [t \in T |-> Cat(t, s[i + 1])]]
<1>1. ASSUME NEW i \in 0..(n - 1), NEW t \in T
      PROVE  Cat(t, s[i + 1]) \in T
  <2>1. i + 1 \in 1..n
    OBVIOUS
  <2>2. s[i + 1] \in Seq(X)
    BY <2>1
  <2> QED
    BY <2>2, JoinTypes
<1>2. add \in Steps(T, n)
  BY <1>1 DEF Steps
<1>3. none \in T
  OBVIOUS
<1>4. PICK f \in Iterates(T, none, n, add) : TRUE
  <2> HIDE DEF T, none, add
  <2> QED
    BY <1>2, <1>3, Iteration
<1>5. f \in [0..n -> T] /\ f[0] = none
  <2> HIDE DEF T, none, add
  <2> QED
    BY DEF Iterates
<1>6. ASSUME NEW i \in 0..(n - 1)
      PROVE  f[i + 1] = Cat(f[i], s[i + 1])
  <2>1. f[i + 1] = add[i][f[i]]
    <3> HIDE DEF T, none, add
    <3> QED
      BY DEF Iterates
  <2>2. i \in 0..n
    OBVIOUS
  <2>3. f[i] \in T
    <3> HIDE DEF T
    <3> QED
      BY <1>5, <2>2
  <2> QED
    BY <2>1, <2>3
<1> QED
  BY <1>5, <1>6 DEF Joins

LEMMA JoinedUnfolds ==
  ASSUME NEW X, NEW n \in Nat, NEW s \in [1..n -> Seq(X)], NEW f \in Joins(X, n, s)
  PROVE  Joined(s) = f[n]
<1> DEFINE IsJoin(g) == g = [i \in 0..Len(s) |->
                               IF i = 0 THEN <<>> ELSE Cat(g[i - 1], s[i])]
           g == CHOOSE g : IsJoin(g)
<1>1. Len(s) = n
  OBVIOUS
<1>2. /\ f \in [0..n -> Seq(X)] /\ f[0] = <<>>
      /\ \A i \in 0..(n - 1) : f[i + 1] = Cat(f[i], s[i + 1])
  BY DEF Joins
<1>3. IsJoin(f)
  <2>1. ASSUME NEW i \in 0..n, i # 0
        PROVE  f[i] = Cat(f[i - 1], s[i])
    <3>1. i - 1 \in 0..(n - 1) /\ i - 1 + 1 = i
      BY <2>1
    <3> QED
      BY <1>2, <3>1
  <2>2. f = [i \in 0..n |-> f[i]]
    BY <1>2
  <2> QED
    BY <1>1, <1>2, <2>1, <2>2
<1>4. IsJoin(g)
  <2> HIDE DEF IsJoin
  <2> QED
    BY <1>3
<1>5. Joined(s) = g[n]
  BY <1>1 DEF Joined, Cat
<1>6. g = [i \in 0..n |-> IF i = 0 THEN <<>> ELSE Cat(g[i - 1], s[i])]
  BY <1>1, <1>4
<1> HIDE DEF g
<1> DEFINE S == {i \in 0..n : g[i] = f[i]}
<1>7. 0 \in S
  BY <1>2, <1>6
<1>8. \A i \in 0..(n - 1) : i \in S => i + 1 \in S
  <2> SUFFICES ASSUME NEW i \in 0..(n - 1), i \in S
               PROVE  i + 1 \in S
    OBVIOUS
  <2>1. i + 1 \in 0..n /\ i + 1 # 0 /\ i + 1 - 1 = i
    OBVIOUS
  <2>2. g[i + 1] = Cat(g[i], s[i + 1])
    BY <1>6, <2>1
  <2>3. f[i + 1] = Cat(f[i], s[i + 1])
    BY <1>2
  <2> QED
    BY <2>1, <2>2, <2>3
<1>9. n \in S
  <2> HIDE DEF S
  <2> QED
    BY <1>7, <1>8, UpwardInduction
<1> QED
  BY <1>5, <1>9

LEMMA JoinedOfNone ==
  ASSUME NEW X, NEW s \in [1..0 -> Seq(X)]
  PROVE  Joined(s) = <<>>
<1>1. PICK f \in Joins(X, 0, s) : TRUE
  BY JoinsExist
<1>2. Joined(s) = f[0]
  BY JoinedUnfolds
<1> QED
  BY <1>2 DEF Joins

LEMMA JoinedIsSequence ==
  ASSUME NEW X, NEW n \in Nat, NEW s \in [1..n -> Seq(X)]
  PROVE  Joined(s) \in Seq(X)
<1>1. PICK f \in Joins(X, n, s) : TRUE
  BY JoinsExist
<1>2. Joined(s) = f[n]
  BY JoinedUnfolds
<1>3. f \in [0..n -> Seq(X)]
  BY DEF Joins
<1>4. n \in 0..n
  OBVIOUS
<1> QED
  BY <1>2, <1>3, <1>4

LEMMA JoinedStep ==
  ASSUME NEW X, NEW n \in Nat, NEW t \in [1..(n + 1) -> Seq(X)], NEW s \in [1..n -> Seq(X)],
         \A i \in 1..n : s[i] = t[i]
  PROVE  /\ Joined(s) \in Seq(X)
         /\ Joined(t) = Cat(Joined(s), t[n + 1])
<1>1. PICK f \in Joins(X, n + 1, t) : TRUE
  BY JoinsExist
<1>2. /\ f \in [0..(n + 1) -> Seq(X)] /\ f[0] = <<>>
      /\ \A i \in 0..n : f[i + 1] = Cat(f[i], t[i + 1])
  BY DEF Joins
<1> DEFINE g == [i \in 0..n |-> f[i]]
<1>3. g \in Joins(X, n, s)
  <2>1. g \in [0..n -> Seq(X)] /\ g[0] = <<>>
    BY <1>2
  <2>2. ASSUME NEW i \in 0..(n - 1)
        PROVE  g[i + 1] = Cat(g[i], s[i + 1])
    <3>1. i \in 0..n /\ i + 1 \in 0..n /\ i + 1 \in 1..n
      OBVIOUS
    <3>2. f[i + 1] = Cat(f[i], t[i + 1]) /\ t[i + 1] = s[i + 1]
      BY <1>2, <3>1
    <3> QED
      BY <3>1, <3>2
  <2> QED
    BY <2>1, <2>2 DEF Joins
<1>4. Joined(s) = g[n] /\ g[n] = f[n] /\ f[n] \in Seq(X)
  <2>1. n \in 0..n /\ n \in 0..(n + 1)
    OBVIOUS
  <2>2. g[n] = f[n] /\ f[n] \in Seq(X)
    BY <1>2, <2>1
  <2> HIDE DEF g
  <2> QED
    BY <1>3, <2>2, JoinedUnfolds
<1>5. Joined(t) = f[n + 1]
  <2>1. n + 1 \in Nat
    OBVIOUS
  <2> QED
    BY <2>1, JoinedUnfolds
<1>6. f[n + 1] = Cat(f[n], t[n + 1])
  BY <1>2
<1> QED
  BY <1>4, <1>5, <1>6

-------------------------------------------------------------------------------
(* A tree in a row of nodes: a child is newer than its parent.  What is computed over
   its children for every node, once it has been found, is what the recursive function
   gives. *)
Grown(ns) ==
  \A m \in DOMAIN ns : \A i \in DOMAIN ns[m].kids : ns[m].kids[i] \in (m + 1)..Len(ns)

Layouts == [tab : Nat, key : Nat, value : Nat, brace : Nat]

LEMMA NodeFields ==
  ASSUME NEW ns \in Seq(Node), NEW m \in DOMAIN ns
  PROVE  /\ Len(ns) \in Nat /\ DOMAIN ns = 1..Len(ns) /\ m \in 1..Len(ns) /\ m \in Nat
         /\ ns[m] \in Node
         /\ ns[m].kids \in Seq(Nat) /\ Len(ns[m].kids) \in Nat
         /\ DOMAIN ns[m].kids = 1..Len(ns[m].kids)
<1>1. Len(ns) \in Nat /\ DOMAIN ns = 1..Len(ns) /\ ns[m] \in Node
  OBVIOUS
<1>2. ns[m].kids \in Seq(Nat)
  BY <1>1 DEF Node
<1> QED
  BY <1>1, <1>2

LEMMA LengthIsNatural == \A t, s : LengthOf(t, s) \in Nat
BY ParserAssumption DEF LengthOf

LEMMA NextIsNatural == \A a \in Nat : a + 1 \in Nat
OBVIOUS

LEMMA ProductIsNatural == \A a, b \in Nat : a * b \in Nat
OBVIOUS

LEMMA SumIsNatural == \A a, b \in Nat : a + b \in Nat
OBVIOUS

LEMMA KidSizeIsNatural ==
  ASSUME NEW t, NEW kid, NEW layout \in Layouts, NEW tabs \in Nat, NEW inside \in Nat
  PROVE  KidSize(t, kid, layout, tabs, inside) \in Nat
<1>1. /\ layout.tab \in Nat /\ layout.key \in Nat /\ layout.value \in Nat
      /\ layout.brace \in Nat
  BY DEF Layouts
<1> DEFINE w == layout.tab * tabs
<1>2. w \in Nat
  BY <1>1, ProductIsNatural
<1>3. LengthOf(t, kid.key) \in Nat /\ LengthOf(t, kid.value) \in Nat
  BY LengthIsNatural
<1> HIDE DEF w
<1>4. w + layout.key + LengthOf(t, kid.key)
        + (IF kid.block THEN 2 * (w + layout.brace) + inside
           ELSE layout.value + LengthOf(t, kid.value)) \in Nat
  <2>1. CASE kid.block
    BY <1>1, <1>2, <1>3, <2>1
  <2>2. CASE ~kid.block
    BY <1>1, <1>2, <1>3, <2>2
  <2> QED
    BY <2>1, <2>2
<1> QED
  BY <1>4 DEF KidSize, w

KidSizes(t, ns, layout, g, m, tabs) ==
  [i \in DOMAIN ns[m].kids |->
     KidSize(t, ns[ns[m].kids[i]], layout, tabs, g[ns[m].kids[i]][tabs + 1])]

SizeFunctions(t, ns, layout) ==
  {g \in [DOMAIN ns -> [Nat -> Nat]] :
     \A m \in DOMAIN ns : \A tabs \in Nat : g[m][tabs] = Total(KidSizes(t, ns, layout, g, m, tabs))}

LEMMA KidSizesType ==
  ASSUME NEW t, NEW ns \in Seq(Node), Grown(ns), NEW layout \in Layouts,
         NEW g \in [DOMAIN ns -> [Nat -> Nat]], NEW m \in DOMAIN ns, NEW tabs \in Nat
  PROVE  KidSizes(t, ns, layout, g, m, tabs) \in [1..Len(ns[m].kids) -> Nat]
<1>1. DOMAIN ns[m].kids = 1..Len(ns[m].kids)
  BY NodeFields
<1>2. ASSUME NEW i \in DOMAIN ns[m].kids
      PROVE  KidSize(t, ns[ns[m].kids[i]], layout, tabs, g[ns[m].kids[i]][tabs + 1]) \in Nat
  <2>1. ns[m].kids[i] \in DOMAIN ns
    BY NodeFields DEF Grown
  <2>2. g[ns[m].kids[i]] \in [Nat -> Nat] /\ tabs + 1 \in Nat
    <3>1. g[ns[m].kids[i]] \in [Nat -> Nat]
      BY <2>1, Zenon
    <3>2. tabs + 1 \in Nat
      BY NextIsNatural, Zenon
    <3> QED
      BY <3>1, <3>2, Zenon
  <2>3. g[ns[m].kids[i]][tabs + 1] \in Nat
    BY <2>2
  <2> QED
    BY <2>3, KidSizeIsNatural
<1> QED
  BY <1>1, <1>2 DEF KidSizes

LEMMA SizesFound ==
  ASSUME NEW t, NEW ns \in Seq(Node), Grown(ns), NEW layout \in Layouts,
         NEW g \in SizeFunctions(t, ns, layout)
  PROVE  Sizes(t, ns, layout) = g
<1> DEFINE IsSize(h) == h = [m \in DOMAIN ns |-> [tabs \in Nat |->
                                Total(KidSizes(t, ns, layout, h, m, tabs))]]
           h == CHOOSE h : IsSize(h)
           n == Len(ns)
<1>1. Sizes(t, ns, layout) = h
  BY DEF Sizes, KidSizes
<1>2. n \in Nat /\ DOMAIN ns = 1..n
  OBVIOUS
<1>3. /\ g \in [DOMAIN ns -> [Nat -> Nat]]
      /\ \A m \in DOMAIN ns : \A tabs \in Nat :
           g[m][tabs] = Total(KidSizes(t, ns, layout, g, m, tabs))
  BY DEF SizeFunctions
<1>4. \A m \in DOMAIN ns :
        g[m] = [tabs \in Nat |-> Total(KidSizes(t, ns, layout, g, m, tabs))]
  <2> SUFFICES ASSUME NEW m \in DOMAIN ns
               PROVE  g[m] = [tabs \in Nat |-> Total(KidSizes(t, ns, layout, g, m, tabs))]
    OBVIOUS
  <2>1. g[m] = [tabs \in Nat |-> g[m][tabs]]
    BY <1>3
  <2> QED
    BY <1>3, <2>1
<1>5. IsSize(g)
  <2>1. g = [m \in DOMAIN ns |-> g[m]]
    BY <1>3
  <2> QED
    BY <1>4, <2>1
<1>6. IsSize(h)
  <2> HIDE DEF IsSize
  <2> QED
    BY <1>5
<1>7. /\ h = [m \in DOMAIN ns |-> h[m]]
      /\ \A m \in DOMAIN ns :
           h[m] = [tabs \in Nat |-> Total(KidSizes(t, ns, layout, h, m, tabs))]
  <2> HIDE DEF h
  <2> QED
    BY <1>6
<1> HIDE DEF h, n
<1> DEFINE S == {m \in 1..(n + 1) : \A k \in m..n : h[k] = g[k]}
<1>8. n + 1 \in S
  BY <1>2
<1>9. \A m \in 2..(n + 1) : m \in S => m - 1 \in S
  <2> SUFFICES ASSUME NEW m \in 2..(n + 1), m \in S
               PROVE  m - 1 \in S
    OBVIOUS
  <2> DEFINE p == m - 1
  <2>1. p \in 1..n /\ p \in DOMAIN ns /\ p + 1 = m
    BY <1>2
  <2>2. \A i \in DOMAIN ns[p].kids : ns[p].kids[i] \in m..n
    BY <2>1 DEF Grown, n
  <2>3. \A i \in DOMAIN ns[p].kids : h[ns[p].kids[i]] = g[ns[p].kids[i]]
    BY <2>2
  <2>4. \A tabs \in Nat : KidSizes(t, ns, layout, h, p, tabs) = KidSizes(t, ns, layout, g, p, tabs)
    BY <2>3 DEF KidSizes
  <2> HIDE DEF p
  <2>5. h[p] = g[p]
    <3>1. \A tabs \in Nat : Total(KidSizes(t, ns, layout, h, p, tabs))
                             = Total(KidSizes(t, ns, layout, g, p, tabs))
      BY <2>4
    <3>2. [tabs \in Nat |-> Total(KidSizes(t, ns, layout, h, p, tabs))]
            = [tabs \in Nat |-> Total(KidSizes(t, ns, layout, g, p, tabs))]
      BY <3>1
    <3>3. h[p] = [tabs \in Nat |-> Total(KidSizes(t, ns, layout, h, p, tabs))]
      BY <1>7, <2>1
    <3>4. g[p] = [tabs \in Nat |-> Total(KidSizes(t, ns, layout, g, p, tabs))]
      BY <1>4, <2>1
    <3> QED
      BY <3>2, <3>3, <3>4
  <2>6. \A k \in p..n : k = p \/ k \in m..n
    BY <1>2, <2>1
  <2>7. \A k \in m..n : h[k] = g[k]
    OBVIOUS
  <2>8. p \in 1..(n + 1)
    BY <1>2, <2>1
  <2>9. p \in S
    BY <2>5, <2>6, <2>7, <2>8
  <2> QED
    BY <2>9 DEF p
<1>10. 1 \in S
  <2> HIDE DEF S
  <2>1. 1 \in Int /\ n + 1 \in Int /\ (1 <= n + 1 => n + 1 \in S) /\ 1 \in 1..(n + 1)
    BY <1>2, <1>8
  <2>2. \A m \in (1 + 1)..(n + 1) : m \in S => m - 1 \in S
    BY <1>9
  <2>3. 1..(n + 1) \subseteq S
    BY <2>1, <2>2, DownwardInduction
  <2> QED
    BY <2>1, <2>3
<1>11. \A m \in DOMAIN ns : h[m] = g[m]
  BY <1>2, <1>10
<1>12. h = g
  <2>1. g = [m \in DOMAIN ns |-> g[m]]
    BY <1>3
  <2> QED
    BY <1>7, <1>11, <2>1
<1> QED
  BY <1>1, <1>12

-------------------------------------------------------------------------------
(* How a tree changes: a node without children is added, a node that is no child is
   renamed, a child is linked to a node that is none. *)
NoKid(ns, c) == \A m \in DOMAIN ns : \A i \in DOMAIN ns[m].kids : ns[m].kids[i] # c

Renamed(ns, ns2, c) ==
  /\ ns2 \in Seq(Node) /\ Len(ns2) = Len(ns)
  /\ \A m \in DOMAIN ns : m # c => ns2[m] = ns[m]
  /\ ns2[c].kids = ns[c].kids

LEMMA LinkedNodes ==
  ASSUME NEW ns \in Seq(Node), NEW q \in DOMAIN ns, NEW k \in Nat
  PROVE  LET ns2 == Linked(ns, q, k)
             n   == Len(ns[q].kids)
         IN  /\ ns2 \in Seq(Node) /\ Len(ns2) = Len(ns) /\ DOMAIN ns2 = DOMAIN ns
             /\ \A m \in DOMAIN ns : m # q => ns2[m] = ns[m]
             /\ ns2[q].key = ns[q].key /\ ns2[q].value = ns[q].value
             /\ ns2[q].block = ns[q].block
             /\ n \in Nat
             /\ ns2[q].kids \in Seq(Nat) /\ Len(ns2[q].kids) = n + 1
             /\ DOMAIN ns2[q].kids = 1..(n + 1)
             /\ \A i \in 1..n : ns2[q].kids[i] = ns[q].kids[i]
             /\ ns2[q].kids[n + 1] = k
<1> DEFINE node == [ns[q] EXCEPT !.kids = Append(@, k)]
           ns2  == [ns EXCEPT ![q] = node]
           n    == Len(ns[q].kids)
<1>1. ns[q] \in Node /\ ns[q].kids \in Seq(Nat) /\ n \in Nat
  BY NodeFields
<1>2. Append(ns[q].kids, k) \in Seq(Nat)
  BY <1>1
<1>3. /\ node \in Node
      /\ node.key = ns[q].key /\ node.value = ns[q].value /\ node.block = ns[q].block
      /\ node.kids = Append(ns[q].kids, k)
  BY <1>1, <1>2 DEF Node
<1>4. /\ Len(node.kids) = n + 1 /\ DOMAIN node.kids = 1..(n + 1)
      /\ \A i \in 1..n : node.kids[i] = ns[q].kids[i]
      /\ node.kids[n + 1] = k
  BY <1>1, <1>3
<1>5. Linked(ns, q, k) = ns2
  BY DEF Linked
<1> HIDE DEF node, n
<1>6. /\ ns2 \in Seq(Node) /\ Len(ns2) = Len(ns) /\ DOMAIN ns2 = DOMAIN ns
      /\ \A m \in DOMAIN ns : m # q => ns2[m] = ns[m]
      /\ ns2[q] = node
  BY <1>3
<1> HIDE DEF ns2
<1> QED
  BY <1>1, <1>2, <1>3, <1>4, <1>5, <1>6 DEF n

LEMMA SameKidSizes ==
  ASSUME NEW t, NEW ns, NEW ns2, NEW layout, NEW g, NEW h, NEW m,
         ns2[m].kids = ns[m].kids,
         \A i \in DOMAIN ns[m].kids : /\ ns2[ns[m].kids[i]] = ns[ns[m].kids[i]]
                                      /\ h[ns[m].kids[i]] = g[ns[m].kids[i]]
  PROVE  \A tabs \in Nat :
           KidSizes(t, ns2, layout, h, m, tabs) = KidSizes(t, ns, layout, g, m, tabs)
BY DEF KidSizes

LEMMA NoneSize ==
  ASSUME NEW t, NEW ns, NEW layout, NEW h, NEW m, ns[m].kids = <<>>
  PROVE  \A tabs \in Nat : Total(KidSizes(t, ns, layout, h, m, tabs)) = 0
<1> SUFFICES ASSUME NEW tabs \in Nat
             PROVE  Total(KidSizes(t, ns, layout, h, m, tabs)) = 0
  OBVIOUS
<1>1. KidSizes(t, ns, layout, h, m, tabs) \in [1..0 -> Nat]
  BY DEF KidSizes
<1> QED
  BY <1>1, TotalOfNone

LEMMA AppendSizes ==
  ASSUME NEW t, NEW ns \in Seq(Node), Grown(ns), NEW layout,
         NEW g \in SizeFunctions(t, ns, layout), NEW kid \in Node, kid.kids = <<>>
  PROVE  [m \in DOMAIN Append(ns, kid) |->
            IF m = Len(ns) + 1 THEN [tabs \in Nat |-> 0] ELSE g[m]]
           \in SizeFunctions(t, Append(ns, kid), layout)
<1> DEFINE ns2  == Append(ns, kid)
           zero == [tabs \in Nat |-> 0]
           n    == Len(ns)
           h    == [m \in DOMAIN ns2 |-> IF m = n + 1 THEN zero ELSE g[m]]
<1>1. /\ ns2 \in Seq(Node) /\ n \in Nat /\ DOMAIN ns = 1..n /\ DOMAIN ns2 = 1..(n + 1)
      /\ \A m \in 1..n : ns2[m] = ns[m]
      /\ ns2[n + 1] = kid
  OBVIOUS
<1>2. /\ g \in [DOMAIN ns -> [Nat -> Nat]]
      /\ \A m \in DOMAIN ns : \A tabs \in Nat :
           g[m][tabs] = Total(KidSizes(t, ns, layout, g, m, tabs))
  BY DEF SizeFunctions
<1>3. zero \in [Nat -> Nat] /\ \A tabs \in Nat : zero[tabs] = 0
  OBVIOUS
<1> HIDE DEF ns2, zero, n
<1>4. \A m \in 1..n : h[m] = g[m] /\ m \in DOMAIN ns /\ g[m] \in [Nat -> Nat]
  <2>1. \A m \in DOMAIN ns : g[m] \in [Nat -> Nat]
    BY <1>2, Zenon
  <2>2. \A m \in 1..n : m \in DOMAIN ns /\ m \in DOMAIN ns2 /\ m # n + 1
    BY <1>1
  <2> QED
    BY <2>1, <2>2, Zenon
<1>5. h[n + 1] = zero
  BY <1>1
<1>6. \A m \in DOMAIN ns2 : m \in 1..n \/ m = n + 1
  BY <1>1
<1>7. h \in [DOMAIN ns2 -> [Nat -> Nat]]
  <2>1. \A m \in DOMAIN ns2 : h[m] \in [Nat -> Nat]
    BY <1>3, <1>4, <1>5, <1>6
  <2>2. h = [m \in DOMAIN ns2 |-> h[m]]
    OBVIOUS
  <2> HIDE DEF h
  <2> QED
    BY <2>1, <2>2
<1> HIDE DEF h
<1>8. ASSUME NEW m \in DOMAIN ns2, NEW tabs \in Nat
      PROVE  h[m][tabs] = Total(KidSizes(t, ns2, layout, h, m, tabs))
  <2>1. CASE m = n + 1
    <3>1. ns2[m].kids = <<>>
      BY <1>1, <2>1
    <3>2. Total(KidSizes(t, ns2, layout, h, m, tabs)) = 0
      BY <3>1, NoneSize
    <3> QED
      BY <1>3, <1>5, <2>1, <3>2
  <2>2. CASE m \in 1..n
    <3>1. ns2[m] = ns[m] /\ m \in DOMAIN ns /\ h[m] = g[m]
      BY <1>1, <1>4, <2>2
    <3>2. \A i \in DOMAIN ns[m].kids : ns[m].kids[i] \in 1..n
      BY <1>1, <3>1, NodeFields DEF Grown, n
    <3>3. ns2[m].kids = ns[m].kids
      BY <3>1, Zenon
    <3>4. \A i \in DOMAIN ns[m].kids : /\ ns2[ns[m].kids[i]] = ns[ns[m].kids[i]]
                                       /\ h[ns[m].kids[i]] = g[ns[m].kids[i]]
      BY <1>1, <1>4, <3>2, Zenon
    <3>5. KidSizes(t, ns2, layout, h, m, tabs) = KidSizes(t, ns, layout, g, m, tabs)
      BY <3>3, <3>4, Zenon DEF KidSizes
    <3> QED
      BY <1>2, <3>1, <3>5, Zenon
  <2> QED
    BY <1>6, <2>1, <2>2
<1>9. h \in SizeFunctions(t, ns2, layout)
  BY <1>7, <1>8 DEF SizeFunctions
<1> QED
  BY <1>9 DEF h, ns2, zero, n

LEMMA RenamedSizes ==
  ASSUME NEW t, NEW ns \in Seq(Node), Grown(ns), NEW ns2, NEW c,
         Renamed(ns, ns2, c), NoKid(ns, c),
         NEW layout, NEW g \in SizeFunctions(t, ns, layout)
  PROVE  g \in SizeFunctions(t, ns2, layout)
<1>1. ns2 \in Seq(Node) /\ DOMAIN ns2 = DOMAIN ns
  BY DEF Renamed
<1>2. /\ g \in [DOMAIN ns -> [Nat -> Nat]]
      /\ \A m \in DOMAIN ns : \A tabs \in Nat :
           g[m][tabs] = Total(KidSizes(t, ns, layout, g, m, tabs))
  BY DEF SizeFunctions
<1>3. ASSUME NEW m \in DOMAIN ns, NEW tabs \in Nat
      PROVE  KidSizes(t, ns2, layout, g, m, tabs) = KidSizes(t, ns, layout, g, m, tabs)
  <2>1. ns2[m].kids = ns[m].kids
    BY DEF Renamed
  <2>2. \A i \in DOMAIN ns[m].kids : ns[m].kids[i] # c /\ ns[m].kids[i] \in DOMAIN ns
    <3>1. \A i \in DOMAIN ns[m].kids : ns[m].kids[i] # c
      BY DEF NoKid
    <3>2. \A i \in DOMAIN ns[m].kids : ns[m].kids[i] \in DOMAIN ns
      BY NodeFields DEF Grown
    <3> QED
      BY <3>1, <3>2
  <2>3. \A i \in DOMAIN ns[m].kids : ns2[ns[m].kids[i]] = ns[ns[m].kids[i]]
    BY <2>2 DEF Renamed
  <2> QED
    BY <2>1, <2>3, SameKidSizes
<1> QED
  BY <1>1, <1>2, <1>3 DEF SizeFunctions

LEMMA LinkSizes ==
  ASSUME NEW t, NEW ns \in Seq(Node), Grown(ns), NEW q \in DOMAIN ns, NEW k \in DOMAIN ns,
         k # q, NoKid(ns, q),
         NEW layout \in Layouts, NEW g \in SizeFunctions(t, ns, layout)
  PROVE  [m \in DOMAIN ns |->
            IF m = q
            THEN [tabs \in Nat |-> g[q][tabs] + KidSize(t, ns[k], layout, tabs, g[k][tabs + 1])]
            ELSE g[m]]
           \in SizeFunctions(t, Linked(ns, q, k), layout)
<1> DEFINE ns2 == Linked(ns, q, k)
           n   == Len(ns[q].kids)
           more(tabs) == KidSize(t, ns[k], layout, tabs, g[k][tabs + 1])
           sum == [tabs \in Nat |-> g[q][tabs] + more(tabs)]
           h   == [m \in DOMAIN ns |-> IF m = q THEN sum ELSE g[m]]
<1>1. /\ g \in [DOMAIN ns -> [Nat -> Nat]]
      /\ \A m \in DOMAIN ns : \A tabs \in Nat :
           g[m][tabs] = Total(KidSizes(t, ns, layout, g, m, tabs))
  BY DEF SizeFunctions
<1>2. \A m \in DOMAIN ns : g[m] \in [Nat -> Nat]
  BY <1>1, Zenon
<1>3. \A tabs \in Nat : more(tabs) \in Nat /\ g[q][tabs] \in Nat
  <2> SUFFICES ASSUME NEW tabs \in Nat
               PROVE  more(tabs) \in Nat /\ g[q][tabs] \in Nat
    OBVIOUS
  <2>1. tabs + 1 \in Nat
    BY NextIsNatural, Zenon
  <2>2. g[q] \in [Nat -> Nat] /\ g[k] \in [Nat -> Nat]
    BY <1>2
  <2>3. g[k][tabs + 1] \in Nat /\ g[q][tabs] \in Nat
    BY <2>1, <2>2, Zenon
  <2> QED
    BY <2>3, KidSizeIsNatural
<1>4. k \in Nat
  BY NodeFields
<1>5. /\ ns2 \in Seq(Node) /\ DOMAIN ns2 = DOMAIN ns
      /\ \A m \in DOMAIN ns : m # q => ns2[m] = ns[m]
      /\ n \in Nat /\ DOMAIN ns2[q].kids = 1..(n + 1) /\ DOMAIN ns[q].kids = 1..n
      /\ \A i \in 1..n : ns2[q].kids[i] = ns[q].kids[i]
      /\ ns2[q].kids[n + 1] = k
  BY <1>4, LinkedNodes, NodeFields
<1> HIDE DEF ns2, n, more
<1>6. sum \in [Nat -> Nat] /\ \A tabs \in Nat : sum[tabs] = g[q][tabs] + more(tabs)
  <2>1. \A tabs \in Nat : g[q][tabs] + more(tabs) \in Nat
    BY <1>3, SumIsNatural, Zenon
  <2> QED
    BY <2>1, Zenon
<1> HIDE DEF sum
<1>7. h[q] = sum /\ \A m \in DOMAIN ns : m # q => h[m] = g[m]
  OBVIOUS
<1>8. h \in [DOMAIN ns2 -> [Nat -> Nat]]
  <2>1. \A m \in DOMAIN ns : h[m] \in [Nat -> Nat]
    BY <1>2, <1>6, <1>7
  <2>2. h = [m \in DOMAIN ns |-> h[m]]
    OBVIOUS
  <2> HIDE DEF h
  <2> QED
    BY <1>5, <2>1, <2>2
<1> HIDE DEF h
<1>9. \A m \in DOMAIN ns : \A i \in DOMAIN ns[m].kids :
        /\ ns[m].kids[i] \in DOMAIN ns /\ ns[m].kids[i] # q
        /\ ns2[ns[m].kids[i]] = ns[ns[m].kids[i]]
        /\ h[ns[m].kids[i]] = g[ns[m].kids[i]]
  <2> SUFFICES ASSUME NEW m \in DOMAIN ns, NEW i \in DOMAIN ns[m].kids
               PROVE  /\ ns[m].kids[i] \in DOMAIN ns /\ ns[m].kids[i] # q
                      /\ ns2[ns[m].kids[i]] = ns[ns[m].kids[i]]
                      /\ h[ns[m].kids[i]] = g[ns[m].kids[i]]
    OBVIOUS
  <2>1. ns[m].kids[i] \in DOMAIN ns
    BY NodeFields DEF Grown
  <2>2. ns[m].kids[i] # q
    BY DEF NoKid
  <2> QED
    BY <1>5, <1>7, <2>1, <2>2
<1>10. ASSUME NEW m \in DOMAIN ns2, NEW tabs \in Nat
       PROVE  h[m][tabs] = Total(KidSizes(t, ns2, layout, h, m, tabs))
  <2>1. CASE m # q
    <3>1. ns2[m] = ns[m] /\ m \in DOMAIN ns /\ h[m] = g[m]
      BY <1>5, <1>7, <2>1
    <3>2. KidSizes(t, ns2, layout, h, m, tabs) = KidSizes(t, ns, layout, g, m, tabs)
      BY <1>9, <3>1, SameKidSizes
    <3> QED
      BY <1>1, <3>1, <3>2
  <2>2. CASE m = q
    <3> DEFINE old == KidSizes(t, ns, layout, g, q, tabs)
               new == KidSizes(t, ns2, layout, h, q, tabs)
    <3>1. old \in [1..n -> Nat]
      <4> HIDE DEF old
      <4>1. KidSizes(t, ns, layout, g, q, tabs) \in [1..Len(ns[q].kids) -> Nat]
        BY <1>1, KidSizesType, Zenon
      <4> QED
        BY <4>1, Zenon DEF old, n
    <3>2. \A i \in 1..n : new[i] = old[i] /\ i \in 1..(n + 1)
      <4> SUFFICES ASSUME NEW i \in 1..n
                   PROVE  new[i] = old[i] /\ i \in 1..(n + 1)
        OBVIOUS
      <4>1. i \in DOMAIN ns[q].kids /\ i \in 1..(n + 1) /\ i \in DOMAIN ns2[q].kids
        BY <1>5
      <4>2. ns2[q].kids[i] = ns[q].kids[i]
        BY <1>5
      <4>3. /\ ns2[ns[q].kids[i]] = ns[ns[q].kids[i]]
            /\ h[ns[q].kids[i]] = g[ns[q].kids[i]]
        BY <1>9, <4>1
      <4>4. new[i] = KidSize(t, ns2[ns2[q].kids[i]], layout, tabs, h[ns2[q].kids[i]][tabs + 1])
        BY <4>1 DEF KidSizes
      <4>5. old[i] = KidSize(t, ns[ns[q].kids[i]], layout, tabs, g[ns[q].kids[i]][tabs + 1])
        BY <4>1 DEF KidSizes
      <4> QED
        BY <4>1, <4>2, <4>3, <4>4, <4>5
    <3>3. new[n + 1] = more(tabs)
      <4>1. n + 1 \in DOMAIN ns2[q].kids
        BY <1>5
      <4>2. new[n + 1] = KidSize(t, ns2[k], layout, tabs, h[k][tabs + 1])
        BY <1>5, <4>1 DEF KidSizes
      <4>3. ns2[k] = ns[k] /\ h[k] = g[k]
        BY <1>5, <1>7
      <4> QED
        BY <4>2, <4>3 DEF more
    <3>4. new \in [1..(n + 1) -> Nat]
      <4>1. new = [i \in 1..(n + 1) |-> new[i]]
        BY <1>5 DEF KidSizes
      <4>2. \A i \in 1..(n + 1) : new[i] \in Nat
        <5> SUFFICES ASSUME NEW i \in 1..(n + 1)
                     PROVE  new[i] \in Nat
          OBVIOUS
        <5>1. i \in 1..n \/ i = n + 1
          BY <1>5
        <5>2. \A j \in 1..n : old[j] \in Nat
          <6> HIDE DEF old
          <6> QED
            BY <3>1
        <5> QED
          BY <1>3, <3>2, <3>3, <5>1, <5>2
      <4> HIDE DEF new
      <4> QED
        BY <4>1, <4>2
    <3> HIDE DEF old, new
    <3>5. Total(new) = Total(old) + new[n + 1]
      BY <1>5, <3>1, <3>2, <3>4, TotalStep
    <3>6. g[q][tabs] = Total(old)
      BY <1>1 DEF old
    <3> QED
      BY <1>6, <1>7, <2>2, <3>3, <3>5, <3>6 DEF new
  <2> QED
    BY <2>1, <2>2
<1>11. h \in SizeFunctions(t, ns2, layout)
  BY <1>8, <1>10 DEF SizeFunctions
<1> QED
  BY <1>11 DEF h, ns2, sum, more
-------------------------------------------------------------------------------
(* The same of the tokens of a tree. *)
TokenSet(t) ==
  {StringToken(t, s) : s \in Nat} \cup {BraceToken(b) : b \in {"open", "close"}}

TokenRow(t, ns, g, m) ==
  [i \in DOMAIN ns[m].kids |-> KidTokens(t, ns[ns[m].kids[i]], g[ns[m].kids[i]])]

TokenFunctions(t, ns) ==
  {g \in [DOMAIN ns -> Seq(TokenSet(t))] :
     \A m \in DOMAIN ns : g[m] = Joined(TokenRow(t, ns, g, m))}

LEMMA TokensAreInTheSet ==
  /\ \A t : \A s \in Nat : StringToken(t, s) \in TokenSet(t)
  /\ \A t : BraceToken("open") \in TokenSet(t) /\ BraceToken("close") \in TokenSet(t)
BY DEF TokenSet

LEMMA Singleton == \A X : \A x \in X : <<x>> \in Seq(X)
OBVIOUS

LEMMA Pair == \A X : \A x, y \in X : <<x, y>> \in Seq(X)
OBVIOUS

LEMMA OpeningIsSequence ==
  ASSUME NEW t, NEW k \in Nat
  PROVE  Opening(t, k) \in Seq(TokenSet(t))
<1>1. StringToken(t, k) \in TokenSet(t) /\ BraceToken("open") \in TokenSet(t)
  BY TokensAreInTheSet
<1> QED
  BY <1>1, Pair, Zenon DEF Opening

LEMMA KidTokensAreSequence ==
  ASSUME NEW t, NEW kid \in Node, NEW inside \in Seq(TokenSet(t))
  PROVE  KidTokens(t, kid, inside) \in Seq(TokenSet(t))
<1>1. kid.key \in Nat /\ kid.value \in Nat
  BY DEF Node
<1>2. CASE kid.block
  <2> DEFINE a == Opening(t, kid.key)
             b == <<BraceToken("close")>>
  <2>1. a \in Seq(TokenSet(t))
    BY <1>1, OpeningIsSequence
  <2>2. b \in Seq(TokenSet(t))
    BY TokensAreInTheSet, Singleton, Zenon
  <2>3. KidTokens(t, kid, inside) = Cat(Cat(a, inside), b)
    BY <1>2 DEF KidTokens, Cat
  <2> HIDE DEF a, b
  <2> QED
    BY <2>1, <2>2, <2>3, JoinTypes
<1>3. CASE ~kid.block
  <2>1. StringToken(t, kid.key) \in TokenSet(t) /\ StringToken(t, kid.value) \in TokenSet(t)
    BY <1>1, TokensAreInTheSet
  <2>2. KidTokens(t, kid, inside) = <<StringToken(t, kid.key), StringToken(t, kid.value)>>
    BY <1>3 DEF KidTokens
  <2> QED
    BY <2>1, <2>2, Pair, Zenon
<1> QED
  BY <1>2, <1>3

LEMMA TokenRowType ==
  ASSUME NEW t, NEW ns \in Seq(Node), Grown(ns),
         NEW g \in [DOMAIN ns -> Seq(TokenSet(t))], NEW m \in DOMAIN ns
  PROVE  TokenRow(t, ns, g, m) \in [1..Len(ns[m].kids) -> Seq(TokenSet(t))]
<1>1. DOMAIN ns[m].kids = 1..Len(ns[m].kids)
  BY NodeFields
<1>2. ASSUME NEW i \in DOMAIN ns[m].kids
      PROVE  KidTokens(t, ns[ns[m].kids[i]], g[ns[m].kids[i]]) \in Seq(TokenSet(t))
  <2>1. ns[m].kids[i] \in DOMAIN ns
    BY NodeFields DEF Grown
  <2>2. g[ns[m].kids[i]] \in Seq(TokenSet(t))
    BY <2>1, Zenon
  <2>3. ns[ns[m].kids[i]] \in Node
    BY <2>1
  <2> QED
    BY <2>2, <2>3, KidTokensAreSequence
<1> QED
  BY <1>1, <1>2, Zenon DEF TokenRow

LEMMA TokensFound ==
  ASSUME NEW t, NEW ns \in Seq(Node), Grown(ns), NEW g \in TokenFunctions(t, ns)
  PROVE  TreeTokens(t, ns) = g
<1> DEFINE IsTokens(h) == h = [m \in DOMAIN ns |-> Joined(TokenRow(t, ns, h, m))]
           h == CHOOSE h : IsTokens(h)
           n == Len(ns)
<1>1. TreeTokens(t, ns) = h
  BY DEF TreeTokens, TokenRow
<1>2. n \in Nat /\ DOMAIN ns = 1..n
  OBVIOUS
<1>3. /\ g \in [DOMAIN ns -> Seq(TokenSet(t))]
      /\ \A m \in DOMAIN ns : g[m] = Joined(TokenRow(t, ns, g, m))
  BY DEF TokenFunctions
<1>4. g = [m \in DOMAIN ns |-> g[m]]
  BY <1>3, Zenon
<1>5. IsTokens(g)
  BY <1>3, <1>4
<1>6. IsTokens(h)
  <2> HIDE DEF IsTokens
  <2> QED
    BY <1>5
<1>7. /\ h = [m \in DOMAIN ns |-> h[m]]
      /\ \A m \in DOMAIN ns : h[m] = Joined(TokenRow(t, ns, h, m))
  <2> HIDE DEF h
  <2> QED
    BY <1>6
<1> HIDE DEF h, n
<1> DEFINE S == {m \in 1..(n + 1) : \A k \in m..n : h[k] = g[k]}
<1>8. n + 1 \in S
  BY <1>2
<1>9. \A m \in 2..(n + 1) : m \in S => m - 1 \in S
  <2> SUFFICES ASSUME NEW m \in 2..(n + 1), m \in S
               PROVE  m - 1 \in S
    OBVIOUS
  <2> DEFINE p == m - 1
  <2>1. p \in 1..n /\ p \in DOMAIN ns /\ p + 1 = m
    BY <1>2
  <2>2. \A i \in DOMAIN ns[p].kids : ns[p].kids[i] \in m..n
    BY <2>1 DEF Grown, n
  <2>3. \A i \in DOMAIN ns[p].kids : h[ns[p].kids[i]] = g[ns[p].kids[i]]
    BY <2>2
  <2>4. TokenRow(t, ns, h, p) = TokenRow(t, ns, g, p)
    BY <2>3 DEF TokenRow
  <2> HIDE DEF p
  <2>5. h[p] = g[p]
    BY <1>3, <1>7, <2>1, <2>4, Zenon
  <2>6. \A k \in p..n : k = p \/ k \in m..n
    BY <1>2, <2>1
  <2>7. \A k \in m..n : h[k] = g[k]
    OBVIOUS
  <2>8. p \in 1..(n + 1)
    BY <1>2, <2>1
  <2>9. p \in S
    BY <2>5, <2>6, <2>7, <2>8
  <2> QED
    BY <2>9 DEF p
<1>10. 1 \in S
  <2> HIDE DEF S
  <2>1. 1 \in Int /\ n + 1 \in Int /\ (1 <= n + 1 => n + 1 \in S) /\ 1 \in 1..(n + 1)
    BY <1>2, <1>8
  <2>2. \A m \in (1 + 1)..(n + 1) : m \in S => m - 1 \in S
    BY <1>9
  <2>3. 1..(n + 1) \subseteq S
    BY <2>1, <2>2, DownwardInduction
  <2> QED
    BY <2>1, <2>3
<1>11. \A m \in DOMAIN ns : h[m] = g[m]
  BY <1>2, <1>10
<1>12. h = g
  BY <1>4, <1>7, <1>11, Zenon
<1> QED
  BY <1>1, <1>12

LEMMA AppendTokens ==
  ASSUME NEW t, NEW ns \in Seq(Node), Grown(ns), NEW g \in TokenFunctions(t, ns),
         NEW kid \in Node, kid.kids = <<>>
  PROVE  [m \in DOMAIN Append(ns, kid) |-> IF m = Len(ns) + 1 THEN <<>> ELSE g[m]]
           \in TokenFunctions(t, Append(ns, kid))
<1> DEFINE ns2  == Append(ns, kid)
           none == <<>>
           n    == Len(ns)
           h    == [m \in DOMAIN ns2 |-> IF m = n + 1 THEN none ELSE g[m]]
<1>1. /\ ns2 \in Seq(Node) /\ n \in Nat /\ DOMAIN ns = 1..n /\ DOMAIN ns2 = 1..(n + 1)
      /\ \A m \in 1..n : ns2[m] = ns[m]
      /\ ns2[n + 1] = kid
  OBVIOUS
<1>2. /\ g \in [DOMAIN ns -> Seq(TokenSet(t))]
      /\ \A m \in DOMAIN ns : g[m] = Joined(TokenRow(t, ns, g, m))
  BY DEF TokenFunctions
<1>3. none \in Seq(TokenSet(t))
  OBVIOUS
<1> HIDE DEF ns2, n
<1>4. \A m \in 1..n : h[m] = g[m] /\ m \in DOMAIN ns /\ g[m] \in Seq(TokenSet(t))
  <2>1. \A m \in DOMAIN ns : g[m] \in Seq(TokenSet(t))
    BY <1>2, Zenon
  <2>2. \A m \in 1..n : m \in DOMAIN ns /\ m \in DOMAIN ns2 /\ m # n + 1
    BY <1>1
  <2> QED
    BY <2>1, <2>2, Zenon
<1>5. h[n + 1] = none
  BY <1>1
<1>6. \A m \in DOMAIN ns2 : m \in 1..n \/ m = n + 1
  BY <1>1
<1>7. h \in [DOMAIN ns2 -> Seq(TokenSet(t))]
  <2>1. \A m \in DOMAIN ns2 : h[m] \in Seq(TokenSet(t))
    BY <1>3, <1>4, <1>5, <1>6, Zenon
  <2>2. h = [m \in DOMAIN ns2 |-> h[m]]
    OBVIOUS
  <2> HIDE DEF h
  <2> QED
    BY <2>1, <2>2, Zenon
<1> HIDE DEF h
<1>8. ASSUME NEW m \in DOMAIN ns2
      PROVE  h[m] = Joined(TokenRow(t, ns2, h, m))
  <2>1. CASE m = n + 1
    <3>1. ns2[m].kids = <<>>
      BY <1>1, <2>1
    <3>2. TokenRow(t, ns2, h, m) \in [1..0 -> Seq(TokenSet(t))]
      BY <3>1 DEF TokenRow
    <3>3. Joined(TokenRow(t, ns2, h, m)) = <<>>
      BY <3>2, JoinedOfNone
    <3> QED
      BY <1>5, <2>1, <3>3
  <2>2. CASE m \in 1..n
    <3>1. ns2[m] = ns[m] /\ m \in DOMAIN ns /\ h[m] = g[m]
      BY <1>1, <1>4, <2>2, Zenon
    <3>2. \A i \in DOMAIN ns[m].kids : ns[m].kids[i] \in 1..n
      BY <1>1, <3>1, NodeFields DEF Grown, n
    <3>3. ns2[m].kids = ns[m].kids
      BY <3>1, Zenon
    <3>4. \A i \in DOMAIN ns[m].kids : /\ ns2[ns[m].kids[i]] = ns[ns[m].kids[i]]
                                       /\ h[ns[m].kids[i]] = g[ns[m].kids[i]]
      BY <1>1, <1>4, <3>2, Zenon
    <3>5. TokenRow(t, ns2, h, m) = TokenRow(t, ns, g, m)
      BY <3>3, <3>4, Zenon DEF TokenRow
    <3> QED
      BY <1>2, <3>1, <3>5, Zenon
  <2> QED
    BY <1>6, <2>1, <2>2
<1>9. h \in TokenFunctions(t, ns2)
  BY <1>7, <1>8, Zenon DEF TokenFunctions
<1> QED
  BY <1>9 DEF h, ns2, n

LEMMA RenamedTokens ==
  ASSUME NEW t, NEW ns \in Seq(Node), Grown(ns), NEW ns2, NEW c,
         Renamed(ns, ns2, c), NoKid(ns, c), NEW g \in TokenFunctions(t, ns)
  PROVE  g \in TokenFunctions(t, ns2)
<1>1. ns2 \in Seq(Node) /\ DOMAIN ns2 = DOMAIN ns
  BY DEF Renamed
<1>2. /\ g \in [DOMAIN ns -> Seq(TokenSet(t))]
      /\ \A m \in DOMAIN ns : g[m] = Joined(TokenRow(t, ns, g, m))
  BY DEF TokenFunctions
<1>3. ASSUME NEW m \in DOMAIN ns
      PROVE  TokenRow(t, ns2, g, m) = TokenRow(t, ns, g, m)
  <2>1. ns2[m].kids = ns[m].kids
    BY DEF Renamed
  <2>2. \A i \in DOMAIN ns[m].kids : ns[m].kids[i] # c /\ ns[m].kids[i] \in DOMAIN ns
    <3>1. \A i \in DOMAIN ns[m].kids : ns[m].kids[i] # c
      BY DEF NoKid
    <3>2. \A i \in DOMAIN ns[m].kids : ns[m].kids[i] \in DOMAIN ns
      BY NodeFields DEF Grown
    <3> QED
      BY <3>1, <3>2
  <2>3. \A i \in DOMAIN ns[m].kids : ns2[ns[m].kids[i]] = ns[ns[m].kids[i]]
    BY <2>2 DEF Renamed
  <2> QED
    BY <2>1, <2>3, Zenon DEF TokenRow
<1> QED
  BY <1>1, <1>2, <1>3, Zenon DEF TokenFunctions

LEMMA LinkTokens ==
  ASSUME NEW t, NEW ns \in Seq(Node), Grown(ns), NEW q \in DOMAIN ns, NEW k \in DOMAIN ns,
         k # q, NoKid(ns, q), NEW g \in TokenFunctions(t, ns)
  PROVE  [m \in DOMAIN ns |-> IF m = q THEN Cat(g[q], KidTokens(t, ns[k], g[k])) ELSE g[m]]
           \in TokenFunctions(t, Linked(ns, q, k))
<1> DEFINE ns2  == Linked(ns, q, k)
           n    == Len(ns[q].kids)
           more == KidTokens(t, ns[k], g[k])
           all  == Cat(g[q], more)
           h    == [m \in DOMAIN ns |-> IF m = q THEN all ELSE g[m]]
<1>1. /\ g \in [DOMAIN ns -> Seq(TokenSet(t))]
      /\ \A m \in DOMAIN ns : g[m] = Joined(TokenRow(t, ns, g, m))
  BY DEF TokenFunctions
<1>2. \A m \in DOMAIN ns : g[m] \in Seq(TokenSet(t))
  BY <1>1, Zenon
<1>3. more \in Seq(TokenSet(t))
  <2>1. ns[k] \in Node
    OBVIOUS
  <2> QED
    BY <1>2, <2>1, KidTokensAreSequence
<1>4. k \in Nat
  BY NodeFields
<1>5. /\ ns2 \in Seq(Node) /\ DOMAIN ns2 = DOMAIN ns
      /\ \A m \in DOMAIN ns : m # q => ns2[m] = ns[m]
      /\ n \in Nat /\ DOMAIN ns2[q].kids = 1..(n + 1) /\ DOMAIN ns[q].kids = 1..n
      /\ \A i \in 1..n : ns2[q].kids[i] = ns[q].kids[i]
      /\ ns2[q].kids[n + 1] = k
  BY <1>4, LinkedNodes, NodeFields
<1> HIDE DEF ns2, n, more
<1>6. all \in Seq(TokenSet(t))
  BY <1>2, <1>3, JoinTypes
<1> HIDE DEF all
<1>7. h[q] = all /\ \A m \in DOMAIN ns : m # q => h[m] = g[m]
  OBVIOUS
<1>8. h \in [DOMAIN ns2 -> Seq(TokenSet(t))]
  <2>1. \A m \in DOMAIN ns : h[m] \in Seq(TokenSet(t))
    BY <1>2, <1>6, <1>7, Zenon
  <2>2. h = [m \in DOMAIN ns |-> h[m]]
    OBVIOUS
  <2> HIDE DEF h
  <2> QED
    BY <1>5, <2>1, <2>2, Zenon
<1> HIDE DEF h
<1>9. \A m \in DOMAIN ns : \A i \in DOMAIN ns[m].kids :
        /\ ns[m].kids[i] \in DOMAIN ns /\ ns[m].kids[i] # q
        /\ ns2[ns[m].kids[i]] = ns[ns[m].kids[i]]
        /\ h[ns[m].kids[i]] = g[ns[m].kids[i]]
  <2> SUFFICES ASSUME NEW m \in DOMAIN ns, NEW i \in DOMAIN ns[m].kids
               PROVE  /\ ns[m].kids[i] \in DOMAIN ns /\ ns[m].kids[i] # q
                      /\ ns2[ns[m].kids[i]] = ns[ns[m].kids[i]]
                      /\ h[ns[m].kids[i]] = g[ns[m].kids[i]]
    OBVIOUS
  <2>1. ns[m].kids[i] \in DOMAIN ns
    BY NodeFields DEF Grown
  <2>2. ns[m].kids[i] # q
    BY DEF NoKid
  <2> QED
    BY <1>5, <1>7, <2>1, <2>2, Zenon
<1>10. ASSUME NEW m \in DOMAIN ns2
       PROVE  h[m] = Joined(TokenRow(t, ns2, h, m))
  <2>1. CASE m # q
    <3>1. ns2[m] = ns[m] /\ m \in DOMAIN ns /\ h[m] = g[m]
      BY <1>5, <1>7, <2>1, Zenon
    <3>2. ns2[m].kids = ns[m].kids
      BY <3>1, Zenon
    <3>3. TokenRow(t, ns2, h, m) = TokenRow(t, ns, g, m)
      BY <1>9, <3>1, <3>2, Zenon DEF TokenRow
    <3> QED
      BY <1>1, <3>1, <3>3, Zenon
  <2>2. CASE m = q
    <3> DEFINE old == TokenRow(t, ns, g, q)
               new == TokenRow(t, ns2, h, q)
    <3>1. old \in [1..n -> Seq(TokenSet(t))]
      <4> HIDE DEF old
      <4>1. TokenRow(t, ns, g, q) \in [1..Len(ns[q].kids) -> Seq(TokenSet(t))]
        BY <1>1, TokenRowType, Zenon
      <4> QED
        BY <4>1, Zenon DEF old, n
    <3>2. \A i \in 1..n : new[i] = old[i] /\ i \in 1..(n + 1)
      <4> SUFFICES ASSUME NEW i \in 1..n
                   PROVE  new[i] = old[i] /\ i \in 1..(n + 1)
        OBVIOUS
      <4>1. i \in DOMAIN ns[q].kids /\ i \in 1..(n + 1) /\ i \in DOMAIN ns2[q].kids
        BY <1>5
      <4>2. ns2[q].kids[i] = ns[q].kids[i]
        BY <1>5
      <4>3. /\ ns2[ns[q].kids[i]] = ns[ns[q].kids[i]]
            /\ h[ns[q].kids[i]] = g[ns[q].kids[i]]
        BY <1>9, <4>1
      <4>4. new[i] = KidTokens(t, ns2[ns2[q].kids[i]], h[ns2[q].kids[i]])
        BY <4>1 DEF TokenRow
      <4>5. old[i] = KidTokens(t, ns[ns[q].kids[i]], g[ns[q].kids[i]])
        BY <4>1 DEF TokenRow
      <4> QED
        BY <4>1, <4>2, <4>3, <4>4, <4>5, Zenon
    <3>3. new[n + 1] = more
      <4>1. n + 1 \in DOMAIN ns2[q].kids
        BY <1>5
      <4>2. new[n + 1] = KidTokens(t, ns2[k], h[k])
        BY <1>5, <4>1 DEF TokenRow
      <4>3. ns2[k] = ns[k] /\ h[k] = g[k]
        BY <1>5, <1>7
      <4> QED
        BY <4>2, <4>3 DEF more
    <3>4. new \in [1..(n + 1) -> Seq(TokenSet(t))]
      <4>1. new = [i \in 1..(n + 1) |-> new[i]]
        BY <1>5 DEF TokenRow
      <4>2. \A i \in 1..(n + 1) : new[i] \in Seq(TokenSet(t))
        <5> HIDE DEF old, new
        <5>1. \A i \in 1..(n + 1) : i \in 1..n \/ i = n + 1
          BY <1>5
        <5>2. \A j \in 1..n : old[j] \in Seq(TokenSet(t))
          BY <3>1, Zenon
        <5> QED
          BY <1>3, <3>2, <3>3, <5>1, <5>2, Zenon
      <4> HIDE DEF new
      <4> QED
        BY <4>1, <4>2, Zenon
    <3> HIDE DEF old, new
    <3>5. Joined(new) = Cat(Joined(old), new[n + 1])
      <4> HIDE DEF n
      <4>1. \A i \in 1..n : old[i] = new[i]
        BY <3>2
      <4>2. n \in Nat
        BY <1>5
      <4> QED
        BY <3>1, <3>4, <4>1, <4>2, JoinedStep
    <3>6. g[q] = Joined(old)
      BY <1>1 DEF old
    <3> QED
      BY <1>7, <2>2, <3>3, <3>5, <3>6 DEF new, all
  <2> QED
    BY <2>1, <2>2
<1>11. h \in TokenFunctions(t, ns2)
  BY <1>8, <1>10, Zenon DEF TokenFunctions
<1> QED
  BY <1>11 DEF h, ns2, all, more
-------------------------------------------------------------------------------
(* What is counted in a text, one token further. *)
LEMMA BracesStep ==
  ASSUME NEW t, NEW b, NEW i \in Nat
  PROVE  /\ Braces(t, b, i) \in Nat
         /\ Braces(t, b, i + 1) = Braces(t, b, i) + (IF t[i + 1] = b THEN 1 ELSE 0)
         /\ Braces(t, b, 0) = 0
<1> DEFINE E == {j \in Nat : t[j] = b}
<1>1. \A k \in Nat : {j \in 1..k : t[j] = b} = {j \in 1..k : j \in E}
  OBVIOUS
<1>2. i + 1 \in E <=> t[i + 1] = b
  OBVIOUS
<1>3. i + 1 \in Nat /\ 0 \in Nat
  OBVIOUS
<1>4. /\ Braces(t, b, i) = Cardinality({j \in 1..i : j \in E})
      /\ Braces(t, b, i + 1) = Cardinality({j \in 1..(i + 1) : j \in E})
      /\ Braces(t, b, 0) = Cardinality({j \in 1..0 : j \in E})
  <2> HIDE DEF E
  <2> QED
    BY <1>1, <1>3 DEF Braces
<1> HIDE DEF E
<1> QED
  BY <1>2, <1>4, CountStep

LEMMA DepthStep ==
  ASSUME NEW t, NEW i \in Nat
  PROVE  /\ Depth(t, i) \in Int
         /\ t[i + 1] = "open" => Depth(t, i + 1) = Depth(t, i) + 1
         /\ t[i + 1] = "close" => Depth(t, i + 1) = Depth(t, i) - 1
         /\ t[i + 1] \notin {"open", "close"} => Depth(t, i + 1) = Depth(t, i)
         /\ Depth(t, 0) = 0
<1>1. /\ Braces(t, "open", i) \in Nat
      /\ Braces(t, "open", i + 1) = Braces(t, "open", i) + (IF t[i + 1] = "open" THEN 1 ELSE 0)
      /\ Braces(t, "open", 0) = 0
  BY BracesStep
<1>2. /\ Braces(t, "close", i) \in Nat
      /\ Braces(t, "close", i + 1) = Braces(t, "close", i) + (IF t[i + 1] = "close" THEN 1 ELSE 0)
      /\ Braces(t, "close", 0) = 0
  BY BracesStep
<1>3. Depth(t, 0) = 0
  BY <1>1, <1>2 DEF Depth
<1>4. /\ t[i + 1] = "open" => t[i + 1] # "close"
      /\ Depth(t, i) = Braces(t, "open", i) - Braces(t, "close", i)
      /\ Depth(t, i + 1) = Braces(t, "open", i + 1) - Braces(t, "close", i + 1)
  BY DEF Depth
<1> QED
  BY <1>1, <1>2, <1>3, <1>4

LEMMA SinceStep ==
  ASSUME NEW i \in Nat \ {0}, NEW W, NEW B
  PROVE  LET S == {j \in 1..(i - 1) : j \in W /\ \A k \in j..(i - 1) : k \notin B}
             N == {j \in 1..i : j \in W /\ \A k \in j..i : k \notin B}
         IN  /\ IsFiniteSet(S)
             /\ i \in B => N = {}
             /\ i \in W /\ i \notin B => N = S \cup {i} /\ i \notin S
             /\ i \notin W /\ i \notin B => N = S
<1> DEFINE S == {j \in 1..(i - 1) : j \in W /\ \A k \in j..(i - 1) : k \notin B}
           N == {j \in 1..i : j \in W /\ \A k \in j..i : k \notin B}
<1>1. IsFiniteSet(S)
  <2>1. i - 1 \in Nat /\ IsFiniteSet(1..(i - 1))
    BY FS_Interval
  <2>2. S \subseteq 1..(i - 1)
    OBVIOUS
  <2> HIDE DEF S
  <2> QED
    BY <2>1, <2>2, FS_Subset
<1>2. ASSUME i \in B
      PROVE  N = {}
  <2>1. \A j \in 1..i : i \in j..i
    OBVIOUS
  <2> QED
    BY <1>2, <2>1
<1>3. ASSUME i \notin B, NEW j \in 1..(i - 1)
      PROVE  j \in N <=> j \in S
  <2>1. \A k \in j..i : k \in j..(i - 1) \/ k = i
    OBVIOUS
  <2>2. \A k \in j..(i - 1) : k \in j..i
    OBVIOUS
  <2>3. j \in 1..i
    OBVIOUS
  <2>4. (\A k \in j..i : k \notin B) <=> (\A k \in j..(i - 1) : k \notin B)
    BY <1>3, <2>1, <2>2
  <2> QED
    BY <2>3, <2>4
<1>4. \A j : j \in N => j \in 1..(i - 1) \/ j = i
  OBVIOUS
<1>5. \A j : j \in S => j \in 1..(i - 1)
  OBVIOUS
<1>6. i \notin B => (i \in N <=> i \in W)
  <2>1. \A k \in i..i : k = i
    OBVIOUS
  <2>2. i \in 1..i
    OBVIOUS
  <2> QED
    BY <2>1, <2>2
<1>7. i \notin 1..(i - 1)
  OBVIOUS
<1> HIDE DEF S, N
<1>8. i \in W /\ i \notin B => N = S \cup {i} /\ i \notin S
  BY <1>3, <1>4, <1>5, <1>6, <1>7
<1>9. i \notin W /\ i \notin B => N = S
  BY <1>3, <1>4, <1>5, <1>6, <1>7
<1> QED
  BY <1>1, <1>2, <1>8, <1>9 DEF S, N

LEMMA StringsStep ==
  ASSUME NEW t, NEW i \in Nat \ {0}
  PROVE  /\ StringsSinceBrace(t, i) \in Nat
         /\ t[i] \in {"open", "close"} => StringsSinceBrace(t, i + 1) = 0
         /\ t[i] \in {"word", "quoted"} =>
              StringsSinceBrace(t, i + 1) = StringsSinceBrace(t, i) + 1
         /\ t[i] \notin {"open", "close", "word", "quoted"} =>
              StringsSinceBrace(t, i + 1) = StringsSinceBrace(t, i)
         /\ StringsSinceBrace(t, 1) = 0
<1> DEFINE W == {j \in Nat : t[j] \in {"word", "quoted"}}
           B == {k \in Nat : t[k] \in {"open", "close"}}
           S == {j \in 1..(i - 1) : j \in W /\ \A k \in j..(i - 1) : k \notin B}
           N == {j \in 1..i : j \in W /\ \A k \in j..i : k \notin B}
<1>1. \A n \in Nat : StringsSinceBrace(t, n + 1)
                       = Cardinality({j \in 1..n : j \in W /\ \A k \in j..n : k \notin B})
  <2> SUFFICES ASSUME NEW n \in Nat
               PROVE  StringsSinceBrace(t, n + 1)
                        = Cardinality({j \in 1..n : j \in W /\ \A k \in j..n : k \notin B})
    OBVIOUS
  <2> DEFINE X == {j \in 1..n : j \in W /\ \A k \in j..n : k \notin B}
             Y == {j \in 1..(n + 1 - 1) : /\ t[j] \in {"word", "quoted"}
                                          /\ \A k \in j..(n + 1 - 1) : t[k] \notin {"open", "close"}}
  <2>1. n + 1 - 1 = n
    OBVIOUS
  <2>2. ASSUME NEW j \in 1..n
        PROVE  j \in X <=> j \in Y
    <3>1. \A k \in j..n : k \in Nat
      OBVIOUS
    <3>2. \A k \in j..n : k \notin B <=> t[k] \notin {"open", "close"}
      BY <3>1
    <3>3. j \in W <=> t[j] \in {"word", "quoted"}
      OBVIOUS
    <3> HIDE DEF W, B
    <3> QED
      BY <2>1, <3>2, <3>3
  <2>3. \A j : (j \in X => j \in 1..n) /\ (j \in Y => j \in 1..n)
    BY <2>1
  <2>4. StringsSinceBrace(t, n + 1) = Cardinality(Y)
    BY DEF StringsSinceBrace
  <2> HIDE DEF X, Y
  <2>5. X = Y
    BY <2>2, <2>3
  <2> QED
    BY <2>4, <2>5 DEF X
<1>2. StringsSinceBrace(t, i) = Cardinality(S)
  <2>1. i - 1 \in Nat /\ i - 1 + 1 = i
    OBVIOUS
  <2> HIDE DEF W, B
  <2> QED
    BY <1>1, <2>1
<1>3. StringsSinceBrace(t, i + 1) = Cardinality(N)
  <2> HIDE DEF W, B
  <2> QED
    BY <1>1
<1>4. StringsSinceBrace(t, 1) = 0
  <2> HIDE DEF W, B
  <2>1. {j \in 1..0 : j \in W /\ \A k \in j..0 : k \notin B} = {}
    OBVIOUS
  <2>2. 0 + 1 = 1 /\ 0 \in Nat
    OBVIOUS
  <2>3. StringsSinceBrace(t, 0 + 1)
          = Cardinality({j \in 1..0 : j \in W /\ \A k \in j..0 : k \notin B})
    BY <1>1, <2>2
  <2> QED
    BY <2>1, <2>2, <2>3, FS_EmptySet
<1>5. /\ IsFiniteSet(S)
      /\ i \in B => N = {}
      /\ i \in W /\ i \notin B => N = S \cup {i} /\ i \notin S
      /\ i \notin W /\ i \notin B => N = S
  <2> HIDE DEF W, B
  <2> QED
    BY SinceStep
<1>6. /\ t[i] \in {"open", "close"} <=> i \in B
      /\ t[i] \in {"word", "quoted"} <=> i \in W
  OBVIOUS
<1>7. ~(t[i] \in {"word", "quoted"} /\ t[i] \in {"open", "close"})
  OBVIOUS
<1> HIDE DEF S, N, W, B
<1>8. Cardinality(S) \in Nat
  BY <1>5, FS_CardinalityType
<1>9. i \in W /\ i \notin B => Cardinality(N) = Cardinality(S) + 1
  BY <1>5, FS_AddElement
<1>10. i \in B => Cardinality(N) = 0
  BY <1>5, FS_EmptySet
<1> QED
  BY <1>2, <1>3, <1>4, <1>5, <1>6, <1>7, <1>8, <1>9, <1>10

LEMMA TokenAtIsSequence ==
  ASSUME NEW t, NEW i \in Nat
  PROVE  TokenAt(t, i) \in Seq(TokenSet(t))
<1>1. CASE t[i] = "blank"
  <2>1. TokenAt(t, i) = <<>>
    BY <1>1 DEF TokenAt
  <2> QED
    BY <2>1
<1>2. CASE t[i] \in {"open", "close"}
  <2>1. TokenAt(t, i) = <<BraceToken(t[i])>>
    BY <1>2 DEF TokenAt
  <2>2. BraceToken(t[i]) \in TokenSet(t)
    BY <1>2 DEF TokenSet
  <2> QED
    BY <2>1, <2>2, Singleton, Zenon
<1>3. CASE t[i] \notin {"blank", "open", "close"}
  <2>1. TokenAt(t, i) = <<StringToken(t, i)>>
    BY <1>3 DEF TokenAt
  <2>2. StringToken(t, i) \in TokenSet(t)
    BY TokensAreInTheSet
  <2> QED
    BY <2>1, <2>2, Singleton, Zenon
<1> QED
  BY <1>1, <1>2, <1>3

LEMMA TokensStep ==
  ASSUME NEW t, NEW p \in Nat
  PROVE  /\ TokensUpTo(t, p) \in Seq(TokenSet(t))
         /\ TokensUpTo(t, p + 1) = Cat(TokensUpTo(t, p), TokenAt(t, p + 1))
         /\ TokensUpTo(t, 0) = <<>>
<1> DEFINE row(k) == [i \in 1..k |-> TokenAt(t, i)]
<1>1. \A k \in Nat : row(k) \in [1..k -> Seq(TokenSet(t))]
  <2> SUFFICES ASSUME NEW k \in Nat
               PROVE  row(k) \in [1..k -> Seq(TokenSet(t))]
    OBVIOUS
  <2>1. \A i \in 1..k : TokenAt(t, i) \in Seq(TokenSet(t))
    BY TokenAtIsSequence
  <2> QED
    BY <2>1, Zenon
<1>2. p + 1 \in Nat /\ 0 \in Nat /\ p + 1 \in 1..(p + 1) /\ \A i \in 1..p : i \in 1..(p + 1)
  OBVIOUS
<1>3. \A i \in 1..p : row(p)[i] = row(p + 1)[i]
  BY <1>2
<1>4. row(p + 1)[p + 1] = TokenAt(t, p + 1)
  BY <1>2
<1>5. \A k \in Nat : TokensUpTo(t, k) = Joined(row(k))
  BY DEF TokensUpTo
<1>6. row(p) \in [1..p -> Seq(TokenSet(t))] /\ row(p + 1) \in [1..(p + 1) -> Seq(TokenSet(t))]
      /\ row(0) \in [1..0 -> Seq(TokenSet(t))]
  BY <1>1, <1>2
<1> HIDE DEF row
<1>7. Joined(row(p)) \in Seq(TokenSet(t))
      /\ Joined(row(p + 1)) = Cat(Joined(row(p)), row(p + 1)[p + 1])
  BY <1>3, <1>6, JoinedStep
<1>8. Joined(row(0)) = <<>>
  BY <1>6, JoinedOfNone
<1> QED
  BY <1>2, <1>4, <1>5, <1>7, <1>8
-------------------------------------------------------------------------------
(* A tree whose sizes and tokens are what the recursion over it says, and that remains
   one when it changes. *)
Known(t, ns) ==
  /\ Grown(ns)
  /\ \A layout \in Layouts : Sizes(t, ns, layout) \in SizeFunctions(t, ns, layout)
  /\ TreeTokens(t, ns) \in TokenFunctions(t, ns)

LEMMA KnownTypes ==
  ASSUME NEW t, NEW ns, Known(t, ns), NEW m \in DOMAIN ns
  PROVE  /\ \A layout \in Layouts : \A tabs \in Nat : Sizes(t, ns, layout)[m][tabs] \in Nat
         /\ TreeTokens(t, ns)[m] \in Seq(TokenSet(t))
<1>1. ASSUME NEW layout \in Layouts, NEW tabs \in Nat
      PROVE  Sizes(t, ns, layout)[m][tabs] \in Nat
  <2>1. Sizes(t, ns, layout) \in [DOMAIN ns -> [Nat -> Nat]]
    BY Zenon DEF Known, SizeFunctions
  <2>2. Sizes(t, ns, layout)[m] \in [Nat -> Nat]
    BY <2>1, Zenon
  <2> QED
    BY <2>2, Zenon
<1>2. TreeTokens(t, ns) \in [DOMAIN ns -> Seq(TokenSet(t))]
  BY Zenon DEF Known, TokenFunctions
<1>3. TreeTokens(t, ns)[m] \in Seq(TokenSet(t))
  BY <1>2, Zenon
<1> QED
  BY <1>1, <1>3

LEMMA AppendKnown ==
  ASSUME NEW t, NEW ns \in Seq(Node), Known(t, ns), NEW kid \in Node, kid.kids = <<>>
  PROVE  LET ns2 == Append(ns, kid)
             n2  == Len(ns) + 1
         IN  /\ Known(t, ns2)
             /\ \A layout \in Layouts :
                  /\ \A m \in DOMAIN ns : Sizes(t, ns2, layout)[m] = Sizes(t, ns, layout)[m]
                  /\ \A tabs \in Nat : Sizes(t, ns2, layout)[n2][tabs] = 0
             /\ \A m \in DOMAIN ns : TreeTokens(t, ns2)[m] = TreeTokens(t, ns)[m]
             /\ TreeTokens(t, ns2)[n2] = <<>>
<1> DEFINE ns2 == Append(ns, kid)
           n2  == Len(ns) + 1
<1>1. /\ ns2 \in Seq(Node) /\ Len(ns2) = n2 /\ n2 \in DOMAIN ns2 /\ n2 \notin DOMAIN ns
      /\ \A m \in DOMAIN ns : m \in DOMAIN ns2 /\ m # n2 /\ ns2[m] = ns[m]
      /\ ns2[n2] = kid
      /\ \A m \in DOMAIN ns2 : m \in DOMAIN ns \/ m = n2
  OBVIOUS
<1>2. Grown(ns)
  BY DEF Known
<1>3. Grown(ns2)
  <2> SUFFICES ASSUME NEW m \in DOMAIN ns2, NEW i \in DOMAIN ns2[m].kids
               PROVE  ns2[m].kids[i] \in (m + 1)..Len(ns2)
    BY DEF Grown
  <2>1. CASE m = n2
    <3>1. ns2[m].kids = <<>>
      BY <1>1, <2>1
    <3> QED
      BY <3>1
  <2>2. CASE m \in DOMAIN ns
    <3>1. ns2[m].kids[i] = ns[m].kids[i] /\ i \in DOMAIN ns[m].kids
      BY <1>1, <2>2, Zenon
    <3>2. ns[m].kids[i] \in (m + 1)..Len(ns)
      BY <1>2, <2>2, <3>1 DEF Grown
    <3>3. Len(ns) \in Nat /\ Len(ns2) = Len(ns) + 1 /\ m \in Nat
      BY <1>1, <2>2
    <3> QED
      BY <3>1, <3>2, <3>3
  <2> QED
    BY <1>1, <2>1, <2>2
<1>4. ASSUME NEW layout \in Layouts
      PROVE  /\ Sizes(t, ns2, layout) \in SizeFunctions(t, ns2, layout)
             /\ \A m \in DOMAIN ns : Sizes(t, ns2, layout)[m] = Sizes(t, ns, layout)[m]
             /\ \A tabs \in Nat : Sizes(t, ns2, layout)[n2][tabs] = 0
  <2> DEFINE g == Sizes(t, ns, layout)
             h == [m \in DOMAIN ns2 |-> IF m = n2 THEN [tabs \in Nat |-> 0] ELSE g[m]]
  <2>1. g \in SizeFunctions(t, ns, layout)
    BY Zenon DEF Known
  <2> HIDE DEF g
  <2>2. h \in SizeFunctions(t, ns2, layout)
    BY <1>2, <2>1, AppendSizes, Zenon
  <2>3. Sizes(t, ns2, layout) = h
    <3> HIDE DEF ns2, h
    <3> QED
      BY <1>1, <1>3, <2>2, SizesFound
  <2>4. \A m \in DOMAIN ns : h[m] = g[m]
    BY <1>1, Zenon
  <2>5. \A tabs \in Nat : h[n2][tabs] = 0
    BY <1>1
  <2> HIDE DEF h, ns2
  <2> QED
    BY <2>2, <2>3, <2>4, <2>5, Zenon DEF g
<1>5. /\ TreeTokens(t, ns2) \in TokenFunctions(t, ns2)
      /\ \A m \in DOMAIN ns : TreeTokens(t, ns2)[m] = TreeTokens(t, ns)[m]
      /\ TreeTokens(t, ns2)[n2] = <<>>
  <2> DEFINE g == TreeTokens(t, ns)
             h == [m \in DOMAIN ns2 |-> IF m = n2 THEN <<>> ELSE g[m]]
  <2>1. g \in TokenFunctions(t, ns)
    BY Zenon DEF Known
  <2> HIDE DEF g
  <2>2. h \in TokenFunctions(t, ns2)
    BY <1>2, <2>1, AppendTokens, Zenon
  <2>3. TreeTokens(t, ns2) = h
    <3> HIDE DEF ns2, h
    <3> QED
      BY <1>1, <1>3, <2>2, TokensFound
  <2>4. \A m \in DOMAIN ns : h[m] = g[m]
    BY <1>1, Zenon
  <2>5. h[n2] = <<>>
    BY <1>1, Zenon
  <2> HIDE DEF h, ns2
  <2> QED
    BY <2>2, <2>3, <2>4, <2>5, Zenon DEF g
<1>6. Known(t, ns2)
  BY <1>3, <1>4, <1>5, Zenon DEF Known
<1> HIDE DEF ns2, n2
<1> QED
  BY <1>4, <1>5, <1>6, Zenon DEF ns2, n2

LEMMA RenamedKnown ==
  ASSUME NEW t, NEW ns \in Seq(Node), Known(t, ns), NEW ns2, NEW c,
         Renamed(ns, ns2, c), NoKid(ns, c)
  PROVE  /\ Known(t, ns2)
         /\ \A layout \in Layouts : Sizes(t, ns2, layout) = Sizes(t, ns, layout)
         /\ TreeTokens(t, ns2) = TreeTokens(t, ns)
<1>1. ns2 \in Seq(Node) /\ Len(ns2) = Len(ns) /\ DOMAIN ns2 = DOMAIN ns
      /\ \A m \in DOMAIN ns : ns2[m].kids = ns[m].kids
  BY DEF Renamed
<1>2. Grown(ns) /\ Grown(ns2)
  BY <1>1 DEF Known, Grown
<1>3. ASSUME NEW layout \in Layouts
      PROVE  /\ Sizes(t, ns2, layout) = Sizes(t, ns, layout)
             /\ Sizes(t, ns, layout) \in SizeFunctions(t, ns2, layout)
  <2>1. Sizes(t, ns, layout) \in SizeFunctions(t, ns, layout)
    BY Zenon DEF Known
  <2>2. Sizes(t, ns, layout) \in SizeFunctions(t, ns2, layout)
    BY <1>2, <2>1, RenamedSizes, Zenon
  <2>3. Sizes(t, ns2, layout) = Sizes(t, ns, layout)
    BY <1>1, <1>2, <2>2, SizesFound
  <2> QED
    BY <2>2, <2>3
<1>4. /\ TreeTokens(t, ns2) = TreeTokens(t, ns)
      /\ TreeTokens(t, ns) \in TokenFunctions(t, ns2)
  <2>1. TreeTokens(t, ns) \in TokenFunctions(t, ns)
    BY Zenon DEF Known
  <2>2. TreeTokens(t, ns) \in TokenFunctions(t, ns2)
    BY <1>2, <2>1, RenamedTokens, Zenon
  <2>3. TreeTokens(t, ns2) = TreeTokens(t, ns)
    BY <1>1, <1>2, <2>2, TokensFound
  <2> QED
    BY <2>2, <2>3
<1>5. Known(t, ns2)
  BY <1>2, <1>3, <1>4, Zenon DEF Known
<1> QED
  BY <1>3, <1>4, <1>5

LinkedSizes(t, ns, ns2, layout, q, k) ==
  /\ \A m \in DOMAIN ns : m # q => Sizes(t, ns2, layout)[m] = Sizes(t, ns, layout)[m]
  /\ \A tabs \in Nat :
       Sizes(t, ns2, layout)[q][tabs]
         = Sizes(t, ns, layout)[q][tabs]
             + KidSize(t, ns[k], layout, tabs, Sizes(t, ns, layout)[k][tabs + 1])

LinkedTokens(t, ns, ns2, q, k) ==
  /\ \A m \in DOMAIN ns : m # q => TreeTokens(t, ns2)[m] = TreeTokens(t, ns)[m]
  /\ TreeTokens(t, ns2)[q]
       = Cat(TreeTokens(t, ns)[q], KidTokens(t, ns[k], TreeTokens(t, ns)[k]))

LEMMA LinkedKnown ==
  ASSUME NEW t, NEW ns \in Seq(Node), Known(t, ns), NEW q \in DOMAIN ns, NEW k \in DOMAIN ns,
         q < k, NoKid(ns, q)
  PROVE  /\ Known(t, Linked(ns, q, k))
         /\ \A layout \in Layouts : LinkedSizes(t, ns, Linked(ns, q, k), layout, q, k)
         /\ LinkedTokens(t, ns, Linked(ns, q, k), q, k)
<1> DEFINE ns2 == Linked(ns, q, k)
           n   == Len(ns[q].kids)
<1>1. /\ ns2 \in Seq(Node) /\ Len(ns2) = Len(ns) /\ DOMAIN ns2 = DOMAIN ns
      /\ \A m \in DOMAIN ns : m # q => ns2[m] = ns[m]
      /\ n \in Nat /\ DOMAIN ns2[q].kids = 1..(n + 1) /\ DOMAIN ns[q].kids = 1..n
      /\ \A i \in 1..n : ns2[q].kids[i] = ns[q].kids[i]
      /\ ns2[q].kids[n + 1] = k
      /\ k \in Nat /\ q \in Nat /\ k <= Len(ns) /\ k # q
  <2>1. k \in Nat /\ q \in Nat /\ k <= Len(ns) /\ k # q
    OBVIOUS
  <2> QED
    BY <2>1, LinkedNodes, NodeFields
<1> HIDE DEF ns2, n
<1>2. Grown(ns)
  BY DEF Known
<1>3. Grown(ns2)
  <2> SUFFICES ASSUME NEW m \in DOMAIN ns2, NEW i \in DOMAIN ns2[m].kids
               PROVE  ns2[m].kids[i] \in (m + 1)..Len(ns2)
    BY DEF Grown
  <2>1. CASE m # q
    <3>1. ns2[m].kids[i] = ns[m].kids[i] /\ i \in DOMAIN ns[m].kids /\ m \in DOMAIN ns
      BY <1>1, <2>1, Zenon
    <3> QED
      BY <1>1, <1>2, <3>1 DEF Grown
  <2>2. CASE m = q /\ i \in 1..n
    <3>1. ns2[m].kids[i] = ns[m].kids[i] /\ i \in DOMAIN ns[m].kids /\ m \in DOMAIN ns
      BY <1>1, <2>2, Zenon
    <3> QED
      BY <1>1, <1>2, <3>1 DEF Grown
  <2>3. CASE m = q /\ i = n + 1
    <3>1. ns2[m].kids[i] = k /\ Len(ns2) \in Nat /\ k <= Len(ns2)
      BY <1>1, <2>3
    <3> QED
      BY <1>1, <2>3, <3>1
  <2>4. m = q => i \in 1..(n + 1)
    BY <1>1, Zenon
  <2>5. i \in 1..(n + 1) => i \in 1..n \/ i = n + 1
    BY <1>1
  <2> QED
    BY <2>1, <2>2, <2>3, <2>4, <2>5
<1>4. ASSUME NEW layout \in Layouts
      PROVE  /\ Sizes(t, ns2, layout) \in SizeFunctions(t, ns2, layout)
             /\ LinkedSizes(t, ns, ns2, layout, q, k)
  <2> DEFINE g == Sizes(t, ns, layout)
             more(tabs) == KidSize(t, ns[k], layout, tabs, g[k][tabs + 1])
             sum == [tabs \in Nat |-> g[q][tabs] + more(tabs)]
             h == [m \in DOMAIN ns |-> IF m = q THEN sum ELSE g[m]]
  <2>1. g \in SizeFunctions(t, ns, layout)
    BY Zenon DEF Known
  <2> HIDE DEF g
  <2>2. h \in SizeFunctions(t, ns2, layout)
    BY <1>1, <1>2, <2>1, LinkSizes, Zenon DEF ns2
  <2> HIDE DEF more
  <2>3. Sizes(t, ns2, layout) = h
    <3> HIDE DEF h
    <3> QED
      BY <1>1, <1>3, <2>2, SizesFound
  <2>4. \A m \in DOMAIN ns : m # q => h[m] = g[m]
    BY Zenon
  <2>5. h[q] = sum
    BY Zenon
  <2>6. \A tabs \in Nat : sum[tabs] = g[q][tabs] + more(tabs)
    BY Zenon
  <2> HIDE DEF h, sum
  <2> QED
    BY <2>2, <2>3, <2>4, <2>5, <2>6, Zenon DEF g, more, LinkedSizes
<1>5. /\ TreeTokens(t, ns2) \in TokenFunctions(t, ns2)
      /\ LinkedTokens(t, ns, ns2, q, k)
  <2> DEFINE g == TreeTokens(t, ns)
             all == Cat(g[q], KidTokens(t, ns[k], g[k]))
             h == [m \in DOMAIN ns |-> IF m = q THEN all ELSE g[m]]
  <2>1. g \in TokenFunctions(t, ns)
    BY Zenon DEF Known
  <2> HIDE DEF g
  <2>2. h \in TokenFunctions(t, ns2)
    BY <1>1, <1>2, <2>1, LinkTokens, Zenon DEF ns2
  <2> HIDE DEF all
  <2>3. TreeTokens(t, ns2) = h
    <3> HIDE DEF h
    <3> QED
      BY <1>1, <1>3, <2>2, TokensFound
  <2>4. \A m \in DOMAIN ns : m # q => h[m] = g[m]
    BY Zenon
  <2>5. h[q] = all
    BY Zenon
  <2> HIDE DEF h
  <2> QED
    BY <2>2, <2>3, <2>4, <2>5, Zenon DEF g, all, LinkedTokens
<1>6. Known(t, ns2)
  BY <1>3, <1>4, <1>5, Zenon DEF Known
<1> QED
  BY <1>4, <1>5, <1>6, Zenon DEF ns2
-------------------------------------------------------------------------------
(* A place in a text and the token at it. *)
LEMMA PlaceStep ==
  ASSUME NEW t, NEW p \in Nat \ {0}, NEW d \in Nat, NEW r \in {0, 1},
         \A i \in 1..(p - 1) : InPlace(t, i),
         Depth(t, p - 1) = d, StringsSinceBrace(t, p) % 2 = r
  PROVE  /\ t[p] \in {"word", "quoted"} =>
              /\ \A i \in 1..p : InPlace(t, i)
              /\ Depth(t, p) = d /\ StringsSinceBrace(t, p + 1) % 2 = 1 - r
         /\ t[p] = "blank" =>
              /\ \A i \in 1..p : InPlace(t, i)
              /\ Depth(t, p) = d /\ StringsSinceBrace(t, p + 1) % 2 = r
         /\ t[p] = "open" /\ r = 1 =>
              /\ \A i \in 1..p : InPlace(t, i)
              /\ Depth(t, p) = d + 1 /\ StringsSinceBrace(t, p + 1) % 2 = 0
         /\ t[p] = "close" /\ r = 0 /\ d > 0 =>
              /\ \A i \in 1..p : InPlace(t, i)
              /\ Depth(t, p) = d - 1 /\ StringsSinceBrace(t, p + 1) % 2 = 0
         /\ t[p] = "open" /\ r = 0 => ~InPlace(t, p)
         /\ t[p] = "close" /\ (r = 1 \/ d = 0) => ~InPlace(t, p)
         /\ t[p] \in {"unclosed", "slash"} => ~InPlace(t, p)
<1>1. p - 1 \in Nat /\ p - 1 + 1 = p /\ \A i \in 1..p : i \in 1..(p - 1) \/ i = p
  OBVIOUS
<1>2. /\ t[p] = "open" => Depth(t, p) = d + 1
      /\ t[p] = "close" => Depth(t, p) = d - 1
      /\ t[p] \notin {"open", "close"} => Depth(t, p) = d
  <2>1. /\ Depth(t, p - 1) \in Int
        /\ t[p - 1 + 1] = "open" => Depth(t, p - 1 + 1) = Depth(t, p - 1) + 1
        /\ t[p - 1 + 1] = "close" => Depth(t, p - 1 + 1) = Depth(t, p - 1) - 1
        /\ t[p - 1 + 1] \notin {"open", "close"} => Depth(t, p - 1 + 1) = Depth(t, p - 1)
    BY <1>1, DepthStep
  <2> QED
    BY <1>1, <2>1
<1> DEFINE n == StringsSinceBrace(t, p)
           m == StringsSinceBrace(t, p + 1)
<1>3. /\ n \in Nat /\ n % 2 = r
      /\ t[p] \in {"open", "close"} => m = 0
      /\ t[p] \in {"word", "quoted"} => m = n + 1
      /\ t[p] \notin {"open", "close", "word", "quoted"} => m = n
  BY StringsStep
<1> HIDE DEF n, m
<1>4. /\ t[p] \in {"open", "close"} => m % 2 = 0
      /\ t[p] \in {"word", "quoted"} => m % 2 = 1 - r
      /\ t[p] \notin {"open", "close", "word", "quoted"} => m % 2 = r
  BY <1>3
<1>5. /\ t[p] \in {"word", "quoted", "blank"} => InPlace(t, p)
      /\ t[p] = "open" /\ r = 1 => InPlace(t, p)
      /\ t[p] = "close" /\ r = 0 /\ d > 0 => InPlace(t, p)
      /\ t[p] = "open" /\ r = 0 => ~InPlace(t, p)
      /\ t[p] = "close" /\ (r = 1 \/ d = 0) => ~InPlace(t, p)
      /\ t[p] \in {"unclosed", "slash"} => ~InPlace(t, p)
  BY <1>2, <1>3 DEF InPlace, n
<1>6. InPlace(t, p) => \A i \in 1..p : InPlace(t, i)
  BY <1>1
<1> QED
  BY <1>2, <1>4, <1>5, <1>6 DEF m

LEMMA TextFacts ==
  ASSUME ParserTypeOK
  PROVE  /\ text \in Seq(Tokens) /\ Len(text) \in Nat /\ DOMAIN text = 1..Len(text)
         /\ \A i \in 1..Len(text) : text[i] \in Tokens
         /\ \A i \in 1..(Len(text) - 1) :
              text[i] # "unclosed" /\ (text[i] = "blank" => text[i + 1] # "blank")
<1>1. text \in Texts
  BY DEF ParserTypeOK
<1>2. text \in Seq(Tokens)
  BY <1>1, ParserAssumption
<1>3. \A i \in 1..(Len(text) - 1) :
        text[i] # "unclosed" /\ (text[i] = "blank" => text[i + 1] # "blank")
  BY <1>1, ParserAssumption
<1> HIDE DEF Tokens
<1> QED
  BY <1>2, <1>3

LEMMA SkipFacts ==
  ASSUME ParserTypeOK, NEW p, p = SkipWhitespace(str)
  PROVE  /\ p \in 1..(Len(text) + 1) /\ p \in Nat \ {0} /\ p - 1 \in Nat
         /\ p = str \/ (p = str + 1 /\ text[str] = "blank" /\ ~AtEnd(str))
         /\ AtEnd(p) => Char(p) = "end" /\ p - 1 = Len(text)
         /\ ~AtEnd(p) => /\ Char(p) = text[p] /\ p \in 1..Len(text) /\ text[p] # "blank"
                         /\ text[p] \in Tokens
<1>1. str \in 1..(Len(text) + 1) /\ Len(text) \in Nat
  BY TextFacts DEF ParserTypeOK
<1>2. \A q : q \in 1..(Len(text) + 1) =>
        /\ AtEnd(q) => Char(q) = "end" /\ q - 1 = Len(text)
        /\ ~AtEnd(q) => Char(q) = text[q] /\ q \in 1..Len(text) /\ text[q] \in Tokens
  <2> SUFFICES ASSUME NEW q \in 1..(Len(text) + 1)
               PROVE  /\ AtEnd(q) => Char(q) = "end" /\ q - 1 = Len(text)
                      /\ ~AtEnd(q) => Char(q) = text[q] /\ q \in 1..Len(text) /\ text[q] \in Tokens
    OBVIOUS
  <2>1. AtEnd(q) => q - 1 = Len(text)
    BY <1>1 DEF AtEnd
  <2>2. ~AtEnd(q) => q \in 1..Len(text)
    BY <1>1 DEF AtEnd
  <2>3. AtEnd(q) => Char(q) = "end"
    BY DEF Char
  <2>4. ~AtEnd(q) => Char(q) = text[q]
    BY DEF Char
  <2> QED
    BY <2>1, <2>2, <2>3, <2>4, TextFacts
<1>3. CASE Char(str) = "blank"
  <2>1. ~AtEnd(str) /\ text[str] = "blank" /\ str \in 1..Len(text)
    BY <1>1, <1>2, <1>3
  <2>2. p = str + 1
    BY <1>3 DEF SkipWhitespace
  <2>3. p \in 1..(Len(text) + 1) /\ p \in Nat \ {0} /\ p - 1 \in Nat
    BY <1>1, <2>1, <2>2
  <2>4. ~AtEnd(p) => str \in 1..(Len(text) - 1)
    BY <1>1, <1>2, <2>2, <2>3
  <2>5. ~AtEnd(p) => text[p] # "blank"
    BY <2>1, <2>2, <2>4, TextFacts
  <2> QED
    BY <1>2, <2>1, <2>2, <2>3, <2>5
<1>4. CASE Char(str) # "blank"
  <2>1. p = str
    BY <1>4 DEF SkipWhitespace
  <2>2. p \in 1..(Len(text) + 1) /\ p \in Nat \ {0} /\ p - 1 \in Nat
    BY <1>1, <2>1
  <2> QED
    BY <1>2, <1>4, <2>1, <2>2
<1> QED
  BY <1>3, <1>4

(* What is known of the place once the blanks before it are skipped. *)
Parity == IF pc = "key" THEN 0 ELSE 1

LEMMA SkipPlace ==
  ASSUME ParserTypeOK, PlaceKnown, Parsing, NEW p, p = SkipWhitespace(str)
  PROVE  /\ \A i \in 1..(p - 1) : InPlace(text, i)
         /\ Len(frames) - 1 \in Nat /\ Depth(text, p - 1) \in Int
         /\ Len(frames) - 1 <= Depth(text, p - 1)
         /\ ~AtEnd(str) => Depth(text, p - 1) = Len(frames) - 1
         /\ Char(p) = "slash" \/ StringsSinceBrace(text, p) % 2 = Parity
         /\ TokensUpTo(text, p - 1) = TokensUpTo(text, str - 1)
<1>1. /\ str \in Nat \ {0} /\ str - 1 \in Nat /\ str - 1 + 1 = str
      /\ Len(frames) - 1 \in Nat
  BY TextFacts DEF ParserTypeOK
<1>2. /\ \A i \in 1..(str - 1) : InPlace(text, i)
      /\ Len(frames) - 1 <= Depth(text, str - 1)
      /\ ~AtEnd(str) => Depth(text, str - 1) = Len(frames) - 1
      /\ Char(str) = "slash" \/ StringsSinceBrace(text, str) % 2 = Parity
  BY DEF PlaceKnown, Parity
<1>3. Depth(text, str - 1) \in Int
  BY <1>1, DepthStep
<1>4. CASE p = str
  BY <1>1, <1>2, <1>3, <1>4
<1>5. CASE p = str + 1 /\ text[str] = "blank" /\ ~AtEnd(str)
  <2>1. StringsSinceBrace(text, str) % 2 = Parity
    BY <1>2, <1>5 DEF Char
  <2>2. Parity \in {0, 1}
    BY DEF Parity
  <2>3. /\ \A i \in 1..str : InPlace(text, i)
        /\ Depth(text, str) = Len(frames) - 1
        /\ StringsSinceBrace(text, str + 1) % 2 = Parity
    <3> DEFINE d == Len(frames) - 1
    <3>1. d \in Nat /\ Depth(text, str - 1) = d
      BY <1>1, <1>2, <1>5
    <3> HIDE DEF d
    <3> QED
      BY <1>1, <1>2, <1>5, <2>1, <2>2, <3>1, PlaceStep DEF d
  <2>4. TokensUpTo(text, str) = TokensUpTo(text, str - 1)
    <3>1. TokenAt(text, str) = <<>>
      BY <1>5 DEF TokenAt
    <3>2. /\ TokensUpTo(text, str - 1) \in Seq(TokenSet(text))
          /\ TokensUpTo(text, str - 1 + 1)
               = Cat(TokensUpTo(text, str - 1), TokenAt(text, str - 1 + 1))
      BY <1>1, TokensStep
    <3>3. TokensUpTo(text, str) = Cat(TokensUpTo(text, str - 1), <<>>)
      BY <1>1, <3>1, <3>2
    <3> QED
      BY <3>2, <3>3 DEF Cat
  <2>5. p - 1 = str
    BY <1>1, <1>5
  <2> QED
    BY <1>1, <1>5, <2>3, <2>4, <2>5
<1> QED
  BY <1>4, <1>5, SkipFacts
-------------------------------------------------------------------------------
(* The calls that are open, and what the parser's steps do to the tree. *)
Frame == [node : 1..Len(nodes), key : 0..Len(text)]

LEMMA FrameFacts ==
  ASSUME ParserTypeOK
  PROVE  /\ Len(frames) \in Nat \ {0} /\ DOMAIN frames = 1..Len(frames)
         /\ frames \in Seq(Frame) /\ Current = frames[Len(frames)]
         /\ DOMAIN nodes = 1..Len(nodes) /\ Len(nodes) \in Nat /\ nodes \in Seq(Node)
         /\ \A f \in 1..Len(frames) :
              /\ frames[f] \in Frame
              /\ frames[f].node \in DOMAIN nodes /\ frames[f].node \in Nat
              /\ frames[f].key \in 0..Len(text) /\ frames[f].key \in Nat
<1>1. frames \in Seq(Frame) /\ frames # <<>>
  BY DEF ParserTypeOK, Frame
<1>2. nodes \in Seq(Node) /\ DOMAIN nodes = 1..Len(nodes) /\ Len(nodes) \in Nat
  BY DEF ParserTypeOK
<1>3. Len(text) \in Nat
  BY TextFacts
<1>4. /\ Len(frames) \in Nat \ {0} /\ DOMAIN frames = 1..Len(frames)
      /\ \A f \in 1..Len(frames) : frames[f] \in Frame
  <2> HIDE DEF Frame
  <2> QED
    BY <1>1
<1>5. \A x \in Frame : /\ x.node \in 1..Len(nodes) /\ x.node \in Nat
                       /\ x.key \in 0..Len(text) /\ x.key \in Nat
  BY <1>2, <1>3 DEF Frame
<1>6. Current = frames[Len(frames)]
  BY DEF Current, Last
<1> HIDE DEF Frame
<1> QED
  BY <1>1, <1>2, <1>4, <1>5, <1>6

ClosedNodes ==
  [nodes EXCEPT ![Current.node].key = Current.key, ![Current.node].block = TRUE]
Outer == frames[Len(frames) - 1].node

LEMMA ReturnCases ==
  ASSUME NEW p, ReturnsTo(p)
  PROVE  /\ str' = p /\ UNCHANGED <<text, bufferSize, written, code>>
         /\ \/ IsRoot /\ pc' = "build" /\ UNCHANGED <<frames, key, nodes>>
            \/ /\ ~IsRoot /\ pc' = "key" /\ key' = NoString /\ frames' = Front(frames)
               /\ nodes' = Linked(ClosedNodes, Outer, Current.node)
BY DEF ReturnsTo, ClosedNodes, Outer

LEMMA FrontFacts ==
  ASSUME ParserTypeOK, ~IsRoot
  PROVE  /\ Len(frames) - 1 \in Nat \ {0} /\ Front(frames) \in Seq(Frame)
         /\ Len(Front(frames)) = Len(frames) - 1
         /\ DOMAIN Front(frames) = 1..(Len(frames) - 1)
         /\ \A f \in 1..(Len(frames) - 1) : Front(frames)[f] = frames[f] /\ f \in 1..Len(frames)
<1> DEFINE n == Len(frames)
<1>1. n \in Nat /\ n > 1 /\ frames \in Seq(Frame)
  BY FrameFacts DEF IsRoot
<1>2. Front(frames) = SubSeq(frames, 1, n - 1)
  BY DEF Front
<1> HIDE DEF Frame
<1> QED
  BY <1>1, <1>2

LEMMA ClosedFacts ==
  ASSUME ParserTypeOK, TreeGrows, ~IsRoot
  PROVE  /\ Current.node \in DOMAIN nodes /\ Outer \in DOMAIN nodes /\ Outer < Current.node
         /\ Renamed(nodes, ClosedNodes, Current.node)
         /\ NoKid(nodes, Current.node) /\ NoKid(ClosedNodes, Outer)
         /\ ClosedNodes[Current.node].key = Current.key /\ ClosedNodes[Current.node].block
         /\ Current.key \in Nat
<1> DEFINE c == Current.node
           n == Len(frames)
<1>1. /\ n \in Nat \ {0} /\ n - 1 \in 1..n /\ n - 1 \in 1..(n - 1) /\ n \in 1..n
      /\ Current = frames[n]
  BY FrameFacts, FrontFacts
<1>2. c \in DOMAIN nodes /\ Outer \in DOMAIN nodes /\ Current.key \in Nat
  BY <1>1, FrameFacts DEF Outer
<1>3. Outer < c
  BY <1>1, FrameFacts DEF Outer, TreeGrows
<1>4. NoKid(nodes, c) /\ NoKid(nodes, Outer)
  BY <1>1, FrameFacts DEF NoKid, TreeGrows, Outer
<1> DEFINE node == [nodes[c] EXCEPT !.key = Current.key, !.block = TRUE]
<1>5. nodes \in Seq(Node) /\ nodes[c] \in Node
  BY <1>2, FrameFacts
<1>6. /\ node \in Node /\ node.key = Current.key /\ node.block
      /\ node.kids = nodes[c].kids
  BY <1>2, <1>5 DEF Node
<1>7. ClosedNodes = [nodes EXCEPT ![c] = node]
  <2>1. [nodes EXCEPT ![c].key = Current.key][c] = [nodes[c] EXCEPT !.key = Current.key]
    BY <1>2
  <2> QED
    BY <1>2, <1>5, <2>1 DEF ClosedNodes
<1> HIDE DEF node, c
<1>8. /\ ClosedNodes \in Seq(Node) /\ Len(ClosedNodes) = Len(nodes)
      /\ DOMAIN ClosedNodes = DOMAIN nodes
      /\ \A m \in DOMAIN nodes : m # c => ClosedNodes[m] = nodes[m]
      /\ ClosedNodes[c] = node
  BY <1>2, <1>5, <1>6, <1>7
<1>9. Renamed(nodes, ClosedNodes, c)
  BY <1>6, <1>8 DEF Renamed
<1>10. \A m \in DOMAIN nodes : ClosedNodes[m].kids = nodes[m].kids
  BY <1>6, <1>8
<1>11. NoKid(ClosedNodes, Outer)
  BY <1>4, <1>8, <1>10 DEF NoKid
<1> QED
  BY <1>2, <1>3, <1>4, <1>6, <1>8, <1>9, <1>11 DEF c

LEMMA CopyLayoutIsLayout == CopyLayout \in Layouts
BY DEF CopyLayout, Layouts

LEMMA ZeroProduct == \A a \in Nat : 0 * a = 0
OBVIOUS

LEMMA CopyKid ==
  ASSUME NEW kid, NEW tabs \in Nat, NEW inside \in Nat
  PROVE  KidSize(text, kid, CopyLayout, tabs, inside)
           = IF kid.block THEN SizeOf(kid.key) + inside ELSE SizeOf(kid.key) + SizeOf(kid.value)
<1>1. /\ CopyLayout.tab = 0 /\ CopyLayout.key = 1 /\ CopyLayout.value = 1
      /\ CopyLayout.brace = 0
  BY DEF CopyLayout
<1>2. CopyLayout.tab * tabs = 0
  BY <1>1, ZeroProduct
<1>3. LengthOf(text, kid.key) \in Nat /\ LengthOf(text, kid.value) \in Nat
  BY LengthIsNatural
<1>4. CASE kid.block
  BY <1>1, <1>2, <1>3, <1>4 DEF KidSize, SizeOf
<1>5. CASE ~kid.block
  BY <1>1, <1>2, <1>3, <1>5 DEF KidSize, SizeOf
<1> QED
  BY <1>4, <1>5

Copied(ns) == Sizes(text, ns, CopyLayout)
Held(ns) == TreeTokens(text, ns)

LEMMA CloseEffect ==
  ASSUME ParserTypeOK, TreeGrows, ~IsRoot, Known(text, nodes)
  PROVE  LET ns == Linked(ClosedNodes, Outer, Current.node)
         IN  /\ Known(text, ns) /\ ns \in Seq(Node) /\ Len(ns) = Len(nodes)
             /\ \A m \in DOMAIN nodes :
                  m # Outer => Copied(ns)[m] = Copied(nodes)[m] /\ Held(ns)[m] = Held(nodes)[m]
             /\ \A tabs \in Nat :
                  Copied(ns)[Outer][tabs]
                    = Copied(nodes)[Outer][tabs]
                        + (SizeOf(Current.key) + Copied(nodes)[Current.node][tabs + 1])
             /\ Held(ns)[Outer]
                  = Cat(Held(nodes)[Outer],
                        Cat(Cat(Opening(text, Current.key), Held(nodes)[Current.node]),
                            <<BraceToken("close")>>))
<1> DEFINE c  == Current.node
           q  == Outer
           mid == ClosedNodes
           ns == Linked(mid, q, c)
<1>1. /\ c \in DOMAIN nodes /\ q \in DOMAIN nodes /\ q < c
      /\ Renamed(nodes, mid, c) /\ NoKid(nodes, c) /\ NoKid(mid, q)
      /\ mid[c].key = Current.key /\ mid[c].block
  BY ClosedFacts
<1>2. nodes \in Seq(Node) /\ mid \in Seq(Node) /\ Len(mid) = Len(nodes)
      /\ DOMAIN mid = DOMAIN nodes /\ c \in Nat
  BY <1>1, FrameFacts DEF Renamed
<1> HIDE DEF c, q, mid
<1>3. /\ Known(text, mid)
      /\ Copied(mid) = Copied(nodes) /\ Held(mid) = Held(nodes)
  BY <1>1, <1>2, RenamedKnown, CopyLayoutIsLayout, Zenon DEF Copied, Held
<1>4. /\ Known(text, ns)
      /\ \A m \in DOMAIN mid :
           m # q => Copied(ns)[m] = Copied(mid)[m] /\ Held(ns)[m] = Held(mid)[m]
      /\ \A tabs \in Nat :
           Copied(ns)[q][tabs]
             = Copied(mid)[q][tabs]
                 + KidSize(text, mid[c], CopyLayout, tabs, Copied(mid)[c][tabs + 1])
      /\ Held(ns)[q] = Cat(Held(mid)[q], KidTokens(text, mid[c], Held(mid)[c]))
  <2>1. q \in DOMAIN mid /\ c \in DOMAIN mid
    BY <1>1, <1>2
  <2>2. /\ Known(text, ns)
        /\ \A layout \in Layouts : LinkedSizes(text, mid, ns, layout, q, c)
        /\ LinkedTokens(text, mid, ns, q, c)
    <3>1. /\ mid \in Seq(Node) /\ Known(text, mid) /\ q \in DOMAIN mid /\ c \in DOMAIN mid
          /\ q < c /\ NoKid(mid, q)
      BY <1>1, <1>2, <1>3, <2>1
    <3> QED
      BY <3>1, LinkedKnown, Zenon
  <2> HIDE DEF ns
  <2> QED
    BY <2>2, CopyLayoutIsLayout, Zenon DEF Copied, Held, LinkedSizes, LinkedTokens
<1>5. ASSUME NEW tabs \in Nat
      PROVE  KidSize(text, mid[c], CopyLayout, tabs, Copied(mid)[c][tabs + 1])
               = SizeOf(Current.key) + Copied(nodes)[c][tabs + 1]
  <2>1. tabs + 1 \in Nat
    OBVIOUS
  <2>2. Copied(nodes)[c][tabs + 1] \in Nat
    BY <1>1, <2>1, KnownTypes, CopyLayoutIsLayout, Zenon DEF Copied
  <2> QED
    BY <1>1, <1>3, <2>2, CopyKid
<1>6. KidTokens(text, mid[c], Held(mid)[c])
        = Cat(Cat(Opening(text, Current.key), Held(nodes)[c]), <<BraceToken("close")>>)
  BY <1>1, <1>3, Zenon DEF KidTokens, Cat
<1>7. ns \in Seq(Node) /\ Len(ns) = Len(nodes)
  BY <1>1, <1>2, LinkedNodes
<1> HIDE DEF ns
<1> QED
  BY <1>2, <1>3, <1>4, <1>5, <1>6, <1>7, Zenon DEF c, q, mid, ns

LEMMA PairEffect ==
  ASSUME ParserTypeOK, TreeGrows, Known(text, nodes), NEW value \in Nat
  PROVE  LET pair == [key |-> key, value |-> value, block |-> FALSE, kids |-> <<>>]
             q    == Current.node
             ns   == Linked(Append(nodes, pair), q, Len(nodes) + 1)
         IN  /\ Known(text, ns) /\ ns \in Seq(Node) /\ Len(ns) = Len(nodes) + 1
             /\ \A m \in DOMAIN nodes :
                  m # q => Copied(ns)[m] = Copied(nodes)[m] /\ Held(ns)[m] = Held(nodes)[m]
             /\ \A tabs \in Nat :
                  Copied(ns)[q][tabs] = Copied(nodes)[q][tabs] + (SizeOf(key) + SizeOf(value))
             /\ Held(ns)[q]
                  = Cat(Held(nodes)[q], <<StringToken(text, key), StringToken(text, value)>>)
<1> DEFINE pair == [key |-> key, value |-> value, block |-> FALSE, kids |-> <<>>]
           q    == Current.node
           mid  == Append(nodes, pair)
           k    == Len(nodes) + 1
           ns   == Linked(mid, q, k)
<1>1. key \in Nat
  BY TextFacts DEF ParserTypeOK
<1>2. pair \in Node /\ pair.kids = <<>> /\ pair.key = key /\ pair.value = value /\ ~pair.block
  BY <1>1 DEF Node
<1>3. nodes \in Seq(Node) /\ Len(nodes) \in Nat /\ DOMAIN nodes = 1..Len(nodes)
      /\ q \in DOMAIN nodes
  <2>1. Len(frames) \in 1..Len(frames)
    BY FrameFacts
  <2> QED
    BY <2>1, FrameFacts
<1>4. \A m \in DOMAIN nodes : \A i \in DOMAIN nodes[m].kids : nodes[m].kids[i] # q
  BY FrameFacts DEF TreeGrows
<1> HIDE DEF pair, q
<1>5. /\ mid \in Seq(Node) /\ Len(mid) = k /\ k \in DOMAIN mid /\ DOMAIN mid = 1..k
      /\ \A m \in DOMAIN nodes : m \in DOMAIN mid /\ m < k /\ mid[m] = nodes[m]
      /\ mid[k] = pair
      /\ \A m \in DOMAIN mid : m \in DOMAIN nodes \/ m = k
  BY <1>2, <1>3
<1>6. /\ Known(text, mid)
      /\ \A m \in DOMAIN nodes : Copied(mid)[m] = Copied(nodes)[m] /\ Held(mid)[m] = Held(nodes)[m]
      /\ \A tabs \in Nat : Copied(mid)[k][tabs] = 0
  <2>1. /\ Known(text, mid)
        /\ \A layout \in Layouts :
             /\ \A m \in DOMAIN nodes :
                  Sizes(text, mid, layout)[m] = Sizes(text, nodes, layout)[m]
             /\ \A tabs \in Nat : Sizes(text, mid, layout)[k][tabs] = 0
        /\ \A m \in DOMAIN nodes : TreeTokens(text, mid)[m] = TreeTokens(text, nodes)[m]
    BY <1>2, <1>3, AppendKnown
  <2> HIDE DEF mid, k
  <2> QED
    BY <2>1, CopyLayoutIsLayout, Zenon DEF Copied, Held
<1> HIDE DEF mid, k
<1>7. NoKid(mid, q)
  <2> SUFFICES ASSUME NEW m \in DOMAIN mid, NEW i \in DOMAIN mid[m].kids
               PROVE  mid[m].kids[i] # q
    BY DEF NoKid
  <2>1. CASE m \in DOMAIN nodes
    BY <1>4, <1>5, <2>1
  <2>2. CASE m = k
    <3>1. mid[m].kids = <<>>
      BY <1>2, <1>5, <2>2
    <3> QED
      BY <3>1
  <2> QED
    BY <1>5, <2>1, <2>2
<1>8. q \in DOMAIN mid /\ q < k
  BY <1>3, <1>5
<1>9. /\ Known(text, ns)
      /\ \A m \in DOMAIN mid :
           m # q => Copied(ns)[m] = Copied(mid)[m] /\ Held(ns)[m] = Held(mid)[m]
      /\ \A tabs \in Nat :
           Copied(ns)[q][tabs]
             = Copied(mid)[q][tabs]
                 + KidSize(text, mid[k], CopyLayout, tabs, Copied(mid)[k][tabs + 1])
      /\ Held(ns)[q] = Cat(Held(mid)[q], KidTokens(text, mid[k], Held(mid)[k]))
  <2>2. /\ Known(text, ns)
        /\ \A layout \in Layouts : LinkedSizes(text, mid, ns, layout, q, k)
        /\ LinkedTokens(text, mid, ns, q, k)
    <3>1. /\ mid \in Seq(Node) /\ Known(text, mid) /\ q \in DOMAIN mid /\ k \in DOMAIN mid
          /\ q < k /\ NoKid(mid, q)
      BY <1>5, <1>6, <1>7, <1>8
    <3> QED
      BY <3>1, LinkedKnown, Zenon
  <2> HIDE DEF ns
  <2> QED
    BY <2>2, CopyLayoutIsLayout, Zenon DEF Copied, Held, LinkedSizes, LinkedTokens
<1>10. ASSUME NEW tabs \in Nat
       PROVE  KidSize(text, mid[k], CopyLayout, tabs, Copied(mid)[k][tabs + 1])
                = SizeOf(key) + SizeOf(value)
  <2>1. tabs + 1 \in Nat
    OBVIOUS
  <2>2. Copied(mid)[k][tabs + 1] \in Nat
    BY <1>6, <2>1
  <2> QED
    BY <1>2, <1>5, <2>2, CopyKid
<1>11. KidTokens(text, mid[k], Held(mid)[k])
         = <<StringToken(text, key), StringToken(text, value)>>
  BY <1>2, <1>5, Zenon DEF KidTokens
<1>12. ns \in Seq(Node) /\ Len(ns) = k
  <2>1. k \in Nat
    BY <1>3 DEF k
  <2> QED
    BY <1>5, <1>8, <2>1, LinkedNodes
<1> HIDE DEF ns
<1> QED
  BY <1>3, <1>5, <1>6, <1>9, <1>10, <1>11, <1>12, Zenon DEF pair, q, mid, k, ns
LEMMA OpenEffect ==
  ASSUME ParserTypeOK, Known(text, nodes)
  PROVE  LET ns == Append(nodes, EmptyBlock)
             k  == Len(nodes) + 1
         IN  /\ Known(text, ns) /\ ns \in Seq(Node) /\ Len(ns) = k
             /\ \A m \in DOMAIN nodes :
                  Copied(ns)[m] = Copied(nodes)[m] /\ Held(ns)[m] = Held(nodes)[m]
             /\ \A tabs \in Nat : Copied(ns)[k][tabs] = 0
             /\ Held(ns)[k] = <<>>
<1> DEFINE ns == Append(nodes, EmptyBlock)
           k  == Len(nodes) + 1
<1>1. nodes \in Seq(Node) /\ EmptyBlock \in Node /\ EmptyBlock.kids = <<>>
  BY FrameFacts DEF EmptyBlock, Node, NoString
<1>2. ns \in Seq(Node) /\ Len(ns) = k
  BY <1>1
<1>3. /\ Known(text, ns)
      /\ \A layout \in Layouts :
           /\ \A m \in DOMAIN nodes : Sizes(text, ns, layout)[m] = Sizes(text, nodes, layout)[m]
           /\ \A tabs \in Nat : Sizes(text, ns, layout)[k][tabs] = 0
      /\ \A m \in DOMAIN nodes : TreeTokens(text, ns)[m] = TreeTokens(text, nodes)[m]
      /\ TreeTokens(text, ns)[k] = <<>>
  BY <1>1, AppendKnown
<1> HIDE DEF ns, k
<1> QED
  BY <1>2, <1>3, CopyLayoutIsLayout, Zenon DEF ns, k, Copied, Held

-------------------------------------------------------------------------------
(* The types are kept. *)
LEMMA WiderSequence ==
  ASSUME NEW A, NEW B, A \subseteq B, NEW s \in Seq(A)
  PROVE  s \in Seq(B)
OBVIOUS

LEMMA WiderFrames ==
  ASSUME NEW m \in Nat, NEW n \in Nat, m <= n, NEW K, NEW s \in Seq([node : 1..m, key : K])
  PROVE  s \in Seq([node : 1..n, key : K])
<1>1. 1..m \subseteq 1..n
  OBVIOUS
<1>2. [node : 1..m, key : K] \subseteq [node : 1..n, key : K]
  BY <1>1
<1> QED
  BY <1>2, WiderSequence, Zenon

LEMMA BehindFacts ==
  ASSUME ParserTypeOK, NEW p \in 1..(Len(text) + 1), IsString(p)
  PROVE  /\ Behind(p) \in 1..(Len(text) + 1) /\ StringAt(p) \in 0..Len(text)
         /\ SizeOf(StringAt(p)) \in Nat /\ ~AtEnd(p) /\ text[p] \in {"word", "quoted", "slash"}
         /\ text[p] = "slash" => Behind(p) = p
         /\ text[p] # "slash" => Behind(p) = p + 1 /\ StringAt(p) = p
<1>1. Len(text) \in Nat
  BY TextFacts
<1>2. Char(p) \in {"word", "quoted", "slash"}
  BY DEF IsString
<1>3. ~AtEnd(p) /\ Char(p) = text[p]
  BY <1>2 DEF Char
<1>4. p \in 1..Len(text)
  BY <1>1, <1>3 DEF AtEnd
<1>5. SizeOf(StringAt(p)) \in Nat
  BY LengthIsNatural DEF SizeOf
<1> QED
  BY <1>1, <1>2, <1>3, <1>4, <1>5 DEF Behind, StringAt, NoString

LEMMA TypeStart == ParserInit => ParserTypeOK
<1> SUFFICES ASSUME ParserInit
             PROVE  ParserTypeOK
  OBVIOUS
<1>1. text \in Texts /\ Len(text) \in Nat
  BY ParserAssumption DEF ParserInit
<1>2. nodes \in Seq(Node) /\ Len(nodes) = 1
  <2> DEFINE root == [EmptyBlock EXCEPT !.block = TRUE]
  <2>1. root \in Node
    <3>1. EmptyBlock \in Node
      BY DEF Node, EmptyBlock, NoString
    <3> QED
      BY <3>1 DEF Node
  <2>2. nodes = <<root>>
    BY DEF ParserInit
  <2> HIDE DEF root
  <2> QED
    BY <2>1, <2>2
<1>3. /\ frames \in Seq([node : 1..Len(nodes), key : 0..Len(text)])
      /\ frames # <<>>
  BY <1>1, <1>2 DEF ParserInit, Root, NoString
<1>4. MaxNodes \in Nat \ {0}
  BY ParserAssumption
<1> QED
  BY <1>1, <1>2, <1>3, <1>4 DEF ParserInit, ParserTypeOK, NoString

LEMMA TypeOfReturn ==
  ASSUME ParserTypeOK, TreeGrows, NEW p \in 1..(Len(text) + 1), ReturnsTo(p)
  PROVE  ParserTypeOK'
<1>1. str' = p /\ UNCHANGED <<text, bufferSize, written, code>>
  BY ReturnCases
<1>2. CASE IsRoot /\ pc' = "build" /\ UNCHANGED <<frames, key, nodes>>
  BY <1>1, <1>2 DEF ParserTypeOK
<1>3. CASE /\ ~IsRoot /\ pc' = "key" /\ key' = NoString /\ frames' = Front(frames)
           /\ nodes' = Linked(ClosedNodes, Outer, Current.node)
  <2>1. nodes' \in Seq(Node) /\ Len(nodes') = Len(nodes)
    <3>1. /\ ClosedNodes \in Seq(Node) /\ Len(ClosedNodes) = Len(nodes)
          /\ Outer \in DOMAIN ClosedNodes /\ Current.node \in Nat
      BY <1>3, ClosedFacts, FrameFacts DEF Renamed
    <3> QED
      BY <1>3, <3>1, LinkedNodes
  <2>2. frames' \in Seq(Frame) /\ frames' # <<>>
    <3> HIDE DEF Frame
    <3> QED
      BY <1>3, FrontFacts
  <2>3. key' \in 0..Len(text)
    BY <1>3, TextFacts DEF NoString
  <2> QED
    BY <1>1, <1>3, <2>1, <2>2, <2>3 DEF ParserTypeOK, Frame
<1> QED
  BY <1>2, <1>3, ReturnCases

LEMMA TypeStep ==
  ASSUME ParserTypeOK, TreeGrows, Known(text, nodes), [ParserNext]_vars
  PROVE  ParserTypeOK'
<1> DEFINE p == SkipWhitespace(str)
<1>1. /\ p \in 1..(Len(text) + 1) /\ Len(text) \in Nat /\ str \in 1..(Len(text) + 1)
      /\ ~AtEnd(p) => p \in 1..Len(text)
  BY SkipFacts, TextFacts DEF ParserTypeOK
<1> HIDE DEF p
<1>2. CASE TextEnds
  BY <1>1, <1>2, TypeOfReturn DEF TextEnds
<1>3. CASE BlockEnds(p)
  <2>1. p + 1 \in 1..(Len(text) + 1)
    BY <1>1, <1>3 DEF BlockEnds, Char
  <2> QED
    BY <1>3, <2>1, TypeOfReturn DEF BlockEnds
<1>4. CASE TextEndsInBlanks(p) \/ DropKey(p)
  BY <1>1, <1>4, TypeOfReturn DEF TextEndsInBlanks, DropKey
<1>5. CASE ReadKey(p)
  <2>1. /\ Behind(p) \in 1..(Len(text) + 1) /\ StringAt(p) \in 0..Len(text)
        /\ SizeOf(StringAt(p)) \in Nat
    BY <1>1, <1>5, BehindFacts DEF ReadKey
  <2>2. bufferSize' \in Nat
    BY <1>5, <2>1 DEF ReadKey, ParserTypeOK, SizeOf
  <2> QED
    BY <1>5, <2>1, <2>2 DEF ReadKey, ParserTypeOK
<1>6. CASE ReadValue(p)
  <2>1. /\ Behind(p) \in 1..(Len(text) + 1) /\ StringAt(p) \in 0..Len(text)
        /\ SizeOf(StringAt(p)) \in Nat
    BY <1>1, <1>6, BehindFacts DEF ReadValue
  <2> DEFINE pair == [key |-> key, value |-> StringAt(p), block |-> FALSE, kids |-> <<>>]
             mid  == Append(nodes, pair)
             q    == Current.node
  <2>2. pair \in Node /\ nodes \in Seq(Node) /\ Len(nodes) \in Nat
    BY <1>1, <2>1, FrameFacts DEF Node, ParserTypeOK
  <2>3. q \in DOMAIN nodes
    <3>1. Len(frames) \in 1..Len(frames)
      BY FrameFacts
    <3> QED
      BY <3>1, FrameFacts
  <2> HIDE DEF pair, q
  <2>4. mid \in Seq(Node) /\ Len(mid) = Len(nodes) + 1 /\ q \in DOMAIN mid
    BY <2>2, <2>3
  <2>5. nodes' = Linked(mid, q, Len(nodes) + 1)
    BY <1>6 DEF ReadValue, pair, q
  <2> HIDE DEF mid
  <2>6. nodes' \in Seq(Node) /\ Len(nodes') = Len(nodes) + 1
    <3>1. Len(nodes) + 1 \in Nat
      BY <2>2
    <3> QED
      BY <2>4, <2>5, <3>1, LinkedNodes
  <2>7. Len(nodes') \in 1..MaxNodes
    BY <1>6, <2>2, <2>6, ParserAssumption DEF ReadValue
  <2>8. frames' \in Seq([node : 1..Len(nodes'), key : 0..Len(text)]) /\ frames' # <<>>
    <3>1. frames \in Seq([node : 1..Len(nodes), key : 0..Len(text)]) /\ frames # <<>>
      BY DEF ParserTypeOK
    <3>2. Len(nodes) <= Len(nodes') /\ Len(nodes') \in Nat
      BY <2>2, <2>6
    <3>3. frames \in Seq([node : 1..Len(nodes'), key : 0..Len(text)])
      BY <2>2, <3>1, <3>2, WiderFrames
    <3> QED
      BY <1>6, <3>1, <3>3 DEF ReadValue
  <2>9. bufferSize' \in Nat /\ key' \in 0..Len(text)
    BY <1>1, <1>6, <2>1 DEF ReadValue, ParserTypeOK, NoString
  <2> QED
    BY <1>6, <2>1, <2>6, <2>7, <2>8, <2>9 DEF ReadValue, ParserTypeOK
<1>7. CASE OpenBlock(p)
  <2>1. p + 1 \in 1..(Len(text) + 1)
    BY <1>1, <1>7 DEF OpenBlock, Char
  <2>2. nodes \in Seq(Node) /\ Len(nodes) \in Nat /\ EmptyBlock \in Node
    BY FrameFacts DEF Node, EmptyBlock, NoString
  <2>3. nodes' \in Seq(Node) /\ Len(nodes') = Len(nodes) + 1
    BY <1>7, <2>2 DEF OpenBlock
  <2>4. Len(nodes') \in 1..MaxNodes
    BY <1>7, <2>2, <2>3, ParserAssumption DEF OpenBlock
  <2>5. frames' \in Seq([node : 1..Len(nodes'), key : 0..Len(text)]) /\ frames' # <<>>
    <3> DEFINE F == [node : 1..Len(nodes'), key : 0..Len(text)]
               x == [node |-> Len(nodes) + 1, key |-> key]
    <3>1. frames \in Seq([node : 1..Len(nodes), key : 0..Len(text)])
      BY DEF ParserTypeOK
    <3>2. Len(nodes) <= Len(nodes') /\ Len(nodes') \in Nat
      BY <2>2, <2>3
    <3>3. frames \in Seq(F)
      BY <2>2, <3>1, <3>2, WiderFrames
    <3>4. x \in F
      BY <2>2, <2>3 DEF ParserTypeOK
    <3>5. frames' = Append(frames, x)
      BY <1>7 DEF OpenBlock
    <3> HIDE DEF F, x
    <3>6. frames' \in Seq(F) /\ frames' # <<>>
      BY <3>3, <3>4, <3>5
    <3> QED
      BY <3>6 DEF F
  <2>6. key' \in 0..Len(text)
    BY <1>1, <1>7 DEF OpenBlock, NoString
  <2> QED
    BY <1>7, <2>1, <2>3, <2>4, <2>5, <2>6 DEF OpenBlock, ParserTypeOK
<1>8. CASE Fails(KeyError(Char(p))) \/ Fails(ValueError(Char(p)))
  <2>1. KeyError(Char(p)) \in Codes /\ ValueError(Char(p)) \in Codes
    BY DEF KeyError, ValueError, Codes, NoError
  <2> QED
    BY <1>8, <2>1 DEF Fails, ParserTypeOK
<1>9. CASE BuildData
  <2>1. written' \in Nat
    <3>1. Root \in DOMAIN nodes /\ 0 \in Nat
      BY FrameFacts DEF ParserTypeOK, Root
    <3>2. Sizes(text, nodes, CopyLayout)[Root][0] \in Nat
      BY <3>1, KnownTypes, CopyLayoutIsLayout, Zenon
    <3> QED
      BY <1>9, <3>2 DEF BuildData, BytesBelow
  <2> QED
    BY <1>9, <2>1 DEF BuildData, ParserTypeOK, Codes, NoError
<1>10. CASE UNCHANGED vars
  BY <1>10 DEF vars, ParserTypeOK
<1> QED
  BY <1>2, <1>3, <1>4, <1>5, <1>6, <1>7, <1>8, <1>9, <1>10
     DEF ParserNext, KeyStep, ValueStep, Ended, p
-------------------------------------------------------------------------------
(* The tree only grows. *)
LEMMA GrowsStart == ParserInit => TreeGrows
<1> SUFFICES ASSUME ParserInit
             PROVE  TreeGrows
  OBVIOUS
<1> DEFINE root == [EmptyBlock EXCEPT !.block = TRUE]
<1>1. nodes = <<root>> /\ root.kids = <<>>
  BY DEF ParserInit, EmptyBlock
<1> HIDE DEF root
<1>2. \A m \in DOMAIN nodes : \A i \in DOMAIN nodes[m].kids : FALSE
  BY <1>1
<1>3. frames[1].node = Root /\ \A f \in DOMAIN frames : \A g \in 1..(f - 1) : FALSE
  BY DEF ParserInit
<1> QED
  BY <1>2, <1>3 DEF TreeGrows

LEMMA ReturnGrows ==
  ASSUME ParserTypeOK, TreeGrows, NEW p, ReturnsTo(p)
  PROVE  TreeGrows'
<1>1. CASE UNCHANGED <<frames, nodes>>
  BY <1>1 DEF TreeGrows
<1>2. CASE /\ ~IsRoot /\ frames' = Front(frames)
           /\ nodes' = Linked(ClosedNodes, Outer, Current.node)
  <2> DEFINE c   == Current.node
             q   == Outer
             n   == Len(frames)
             mid == ClosedNodes
             h   == Len(nodes[q].kids)
  <2>1. /\ c \in DOMAIN nodes /\ q \in DOMAIN nodes /\ q < c
        /\ Renamed(nodes, mid, c)
    BY <1>2, ClosedFacts
  <2>2. /\ n \in Nat /\ n - 1 \in 1..n /\ c = frames[n].node
        /\ DOMAIN frames = 1..n /\ DOMAIN frames' = 1..(n - 1)
        /\ \A f \in 1..(n - 1) : frames'[f] = frames[f] /\ f \in 1..n /\ f \in DOMAIN frames
        /\ nodes \in Seq(Node) /\ DOMAIN nodes = 1..Len(nodes) /\ Len(nodes) \in Nat
        /\ \A f \in 1..n : frames[f].node \in Nat
    BY <1>2, FrontFacts, FrameFacts
  <2>3. /\ mid \in Seq(Node) /\ DOMAIN mid = DOMAIN nodes /\ Len(mid) = Len(nodes)
        /\ \A m \in DOMAIN nodes : mid[m].kids = nodes[m].kids
    <3>1. /\ mid \in Seq(Node) /\ Len(mid) = Len(nodes)
          /\ \A m \in DOMAIN nodes : m # c => mid[m] = nodes[m]
          /\ mid[c].kids = nodes[c].kids
      BY <2>1 DEF Renamed
    <3>2. DOMAIN mid = DOMAIN nodes
      BY <2>2, <3>1
    <3>3. \A m \in DOMAIN nodes : mid[m].kids = nodes[m].kids
      BY <3>1, Zenon
    <3> QED
      BY <3>1, <3>2, <3>3
  <2>4. /\ h \in Nat /\ DOMAIN nodes[q].kids = 1..h
    BY <2>1, <2>2, NodeFields
  <2> HIDE DEF c, q, n, mid, h
  <2>5. /\ DOMAIN nodes' = DOMAIN nodes /\ Len(nodes') = Len(nodes)
        /\ \A m \in DOMAIN nodes : m # q => nodes'[m].kids = nodes[m].kids
        /\ DOMAIN nodes'[q].kids = 1..(h + 1)
        /\ \A i \in 1..h : nodes'[q].kids[i] = nodes[q].kids[i]
        /\ nodes'[q].kids[h + 1] = c
    <3>1. nodes' = Linked(mid, q, c) /\ q \in DOMAIN mid /\ c \in Nat /\ h = Len(mid[q].kids)
      BY <1>2, <2>1, <2>2, <2>3 DEF c, q, mid, h
    <3>2. /\ DOMAIN nodes' = DOMAIN mid /\ Len(nodes') = Len(mid)
          /\ \A m \in DOMAIN mid : m # q => nodes'[m] = mid[m]
          /\ DOMAIN nodes'[q].kids = 1..(h + 1)
          /\ \A i \in 1..h : nodes'[q].kids[i] = mid[q].kids[i]
          /\ nodes'[q].kids[h + 1] = c
      <4>1. mid \in Seq(Node)
        BY <2>3
      <4> QED
        BY <3>1, <4>1, LinkedNodes
    <3>3. \A m \in DOMAIN nodes : m # q => nodes'[m].kids = nodes[m].kids
      BY <2>3, <3>2, Zenon
    <3>4. \A i \in 1..h : nodes'[q].kids[i] = nodes[q].kids[i]
      BY <2>1, <2>3, <3>2, Zenon
    <3> QED
      BY <2>3, <3>2, <3>3, <3>4
  <2>6. \A f \in 1..(n - 1) : c # frames[f].node
    <3>1. \A f \in 1..(n - 1) : frames[f].node < frames[n].node
      BY <2>2 DEF TreeGrows
    <3> QED
      BY <2>2, <3>1
  <2>7. ASSUME NEW m \in DOMAIN nodes, NEW i \in DOMAIN nodes[m].kids
        PROVE  /\ nodes[m].kids[i] \in (m + 1)..Len(nodes)
               /\ \A f \in 1..(n - 1) : nodes[m].kids[i] # frames[f].node
    BY <2>2 DEF TreeGrows
  <2>8. ASSUME NEW m \in DOMAIN nodes', NEW i \in DOMAIN nodes'[m].kids
        PROVE  /\ nodes'[m].kids[i] \in (m + 1)..Len(nodes')
               /\ \A f \in 1..(n - 1) : nodes'[m].kids[i] # frames[f].node
    <3>1. CASE m # q
      <4>1. m \in DOMAIN nodes /\ i \in DOMAIN nodes[m].kids /\ nodes'[m].kids[i] = nodes[m].kids[i]
        BY <2>5, <3>1, Zenon
      <4> QED
        BY <2>5, <2>7, <4>1
    <3>2. CASE m = q /\ i \in 1..h
      <4>1. m \in DOMAIN nodes /\ i \in DOMAIN nodes[m].kids /\ nodes'[m].kids[i] = nodes[m].kids[i]
        BY <2>1, <2>4, <2>5, <3>2, Zenon
      <4> QED
        BY <2>5, <2>7, <4>1
    <3>3. CASE m = q /\ i = h + 1
      <4>1. nodes'[m].kids[i] = c
        BY <2>5, <3>3
      <4>2. c \in (q + 1)..Len(nodes)
        BY <2>1, <2>2
      <4> QED
        BY <2>5, <2>6, <3>3, <4>1, <4>2
    <3>4. m = q => i \in 1..h \/ i = h + 1
      BY <2>4, <2>5
    <3> QED
      BY <3>1, <3>2, <3>3, <3>4
  <2>9. frames'[1].node = Root
    <3>1. 1 \in 1..(n - 1)
      BY <2>2
    <3> QED
      BY <2>2, <3>1 DEF TreeGrows
  <2>10. \A f \in 1..(n - 1) : \A g \in 1..(f - 1) : frames'[g].node < frames'[f].node
    <3>1. \A f \in 1..(n - 1) : \A g \in 1..(f - 1) : g \in 1..(n - 1)
      BY <2>2
    <3>2. \A f \in 1..(n - 1) : \A g \in 1..(f - 1) : frames[g].node < frames[f].node
      BY <2>2 DEF TreeGrows
    <3> QED
      BY <2>2, <3>1, <3>2
  <2> QED
    BY <2>2, <2>8, <2>9, <2>10 DEF TreeGrows
<1> QED
  BY <1>1, <1>2, ReturnCases

LEMMA GrowsStep ==
  ASSUME ParserTypeOK, TreeGrows, [ParserNext]_vars
  PROVE  TreeGrows'
<1> DEFINE p == SkipWhitespace(str)
           n == Len(frames)
           k == Len(nodes) + 1
<1>1. /\ n \in Nat \ {0} /\ n \in 1..n /\ Current = frames[n] /\ DOMAIN frames = 1..n
      /\ nodes \in Seq(Node) /\ DOMAIN nodes = 1..Len(nodes) /\ Len(nodes) \in Nat
      /\ \A f \in 1..n : frames[f].node \in DOMAIN nodes
  BY FrameFacts
<1>2. /\ frames[1].node = Root
      /\ \A f \in 1..n : \A g \in 1..(f - 1) : frames[g].node < frames[f].node
      /\ \A m \in DOMAIN nodes : \A i \in DOMAIN nodes[m].kids :
           /\ nodes[m].kids[i] \in (m + 1)..Len(nodes)
           /\ \A f \in 1..n : nodes[m].kids[i] # frames[f].node
  BY <1>1 DEF TreeGrows
<1> HIDE DEF p, n
<1>3. CASE TextEnds \/ BlockEnds(p) \/ TextEndsInBlanks(p) \/ DropKey(p)
  BY <1>3, ReturnGrows DEF TextEnds, BlockEnds, TextEndsInBlanks, DropKey
<1>4. CASE ReadKey(p) \/ Fails(KeyError(Char(p))) \/ Fails(ValueError(Char(p))) \/ BuildData
           \/ UNCHANGED vars
  BY <1>4 DEF ReadKey, Fails, BuildData, vars, TreeGrows
<1>5. CASE ReadValue(p)
  <2> DEFINE pair == [key |-> key, value |-> StringAt(p), block |-> FALSE, kids |-> <<>>]
             mid  == Append(nodes, pair)
             q    == Current.node
             h    == Len(nodes[q].kids)
  <2>1. pair \in Node /\ pair.kids = <<>>
    <3>1. StringAt(p) \in Nat
      BY <1>5, SkipFacts, BehindFacts, TextFacts DEF ReadValue, p
    <3> QED
      BY <3>1, TextFacts DEF Node, ParserTypeOK
  <2>2. q \in DOMAIN nodes
    BY <1>1
  <2>3. h \in Nat /\ DOMAIN nodes[q].kids = 1..h
    BY <1>1, <2>2, NodeFields
  <2>4. nodes' = Linked(mid, q, k)
    BY <1>5 DEF ReadValue
  <2> HIDE DEF pair, q, h
  <2>5. /\ mid \in Seq(Node) /\ Len(mid) = k /\ DOMAIN mid = 1..k /\ q \in DOMAIN mid
        /\ \A m \in DOMAIN nodes : mid[m] = nodes[m]
        /\ mid[k] = pair /\ k \in Nat /\ k # q
        /\ \A m \in 1..k : m \in DOMAIN nodes \/ m = k
    <3>1. /\ mid \in Seq(Node) /\ Len(mid) = k /\ DOMAIN mid = 1..k
          /\ \A m \in 1..Len(nodes) : mid[m] = nodes[m]
          /\ mid[k] = pair
      BY <1>1, <2>1
    <3>2. /\ k \in Nat /\ k # q /\ q \in 1..k
          /\ \A m \in 1..k : m \in 1..Len(nodes) \/ m = k
      BY <1>1, <2>2
    <3> QED
      BY <1>1, <3>1, <3>2
  <2> HIDE DEF mid
  <2>6. /\ DOMAIN nodes' = 1..k /\ Len(nodes') = k
        /\ \A m \in DOMAIN nodes : m # q => nodes'[m].kids = nodes[m].kids
        /\ nodes'[k].kids = <<>>
        /\ DOMAIN nodes'[q].kids = 1..(h + 1)
        /\ \A i \in 1..h : nodes'[q].kids[i] = nodes[q].kids[i]
        /\ nodes'[q].kids[h + 1] = k
    <3>1. h = Len(mid[q].kids)
      BY <2>2, <2>5 DEF h
    <3>2. /\ DOMAIN nodes' = DOMAIN mid /\ Len(nodes') = Len(mid)
          /\ \A m \in DOMAIN mid : m # q => nodes'[m] = mid[m]
          /\ DOMAIN nodes'[q].kids = 1..(h + 1)
          /\ \A i \in 1..h : nodes'[q].kids[i] = mid[q].kids[i]
          /\ nodes'[q].kids[h + 1] = k
      <4> HIDE DEF k
      <4> QED
        BY <2>4, <2>5, <3>1, LinkedNodes
    <3>3. k \in 1..k /\ \A m \in DOMAIN nodes : m \in 1..k
      BY <1>1, <2>5
    <3> QED
      BY <2>1, <2>2, <2>5, <3>2, <3>3
  <2>7. ASSUME NEW m \in DOMAIN nodes', NEW i \in DOMAIN nodes'[m].kids
        PROVE  /\ nodes'[m].kids[i] \in (m + 1)..Len(nodes')
               /\ \A f \in 1..n : nodes'[m].kids[i] # frames[f].node
    <3>1. CASE m \in DOMAIN nodes /\ (m # q \/ i \in 1..h)
      <4>1. i \in DOMAIN nodes[m].kids /\ nodes'[m].kids[i] = nodes[m].kids[i]
        BY <2>2, <2>3, <2>6, <3>1, Zenon
      <4>2. /\ nodes[m].kids[i] \in (m + 1)..Len(nodes)
            /\ \A f \in 1..n : nodes[m].kids[i] # frames[f].node
        BY <1>2, <3>1, <4>1
      <4>3. \A x \in (m + 1)..Len(nodes) : x \in (m + 1)..k
        BY <1>1, <3>1
      <4> QED
        BY <2>6, <4>1, <4>2, <4>3
    <3>2. CASE m = q /\ i = h + 1
      <4>1. nodes'[m].kids[i] = k
        BY <2>6, <3>2
      <4>2. k \in (q + 1)..k /\ \A f \in 1..n : k # frames[f].node
        BY <1>1, <2>2
      <4> QED
        BY <2>6, <3>2, <4>1, <4>2
    <3>3. CASE m = k
      BY <2>6, <3>3
    <3>4. m \in DOMAIN nodes \/ m = k
      BY <2>5, <2>6
    <3>5. m = q => i \in 1..h \/ i = h + 1
      BY <2>3, <2>6
    <3> QED
      BY <3>1, <3>2, <3>3, <3>4, <3>5
  <2>8. frames' = frames
    BY <1>5 DEF ReadValue
  <2> QED
    BY <1>1, <1>2, <2>7, <2>8 DEF TreeGrows
<1>6. CASE OpenBlock(p)
  <2> DEFINE x == [node |-> k, key |-> key]
  <2>1. nodes' = Append(nodes, EmptyBlock) /\ frames' = Append(frames, x)
    BY <1>6 DEF OpenBlock
  <2>2. EmptyBlock.kids = <<>> /\ x.node = k
    BY DEF EmptyBlock
  <2>3. frames \in Seq(Frame)
    BY FrameFacts
  <2> HIDE DEF x
  <2>4. /\ DOMAIN nodes' = 1..k /\ Len(nodes') = k
        /\ \A m \in DOMAIN nodes : nodes'[m] = nodes[m] /\ m < k
        /\ nodes'[k] = EmptyBlock
        /\ \A m \in 1..k : m \in DOMAIN nodes \/ m = k
    BY <1>1, <2>1
  <2>5. /\ DOMAIN frames' = 1..(n + 1)
        /\ \A f \in 1..n : frames'[f] = frames[f]
        /\ frames'[n + 1] = x
        /\ \A f \in 1..(n + 1) : f \in 1..n \/ f = n + 1
    <3> HIDE DEF Frame
    <3> QED
      BY <1>1, <2>1, <2>3 DEF n
  <2>6. ASSUME NEW m \in DOMAIN nodes', NEW i \in DOMAIN nodes'[m].kids
        PROVE  /\ nodes'[m].kids[i] \in (m + 1)..Len(nodes')
               /\ \A f \in 1..(n + 1) : nodes'[m].kids[i] # frames'[f].node
    <3>1. m \in DOMAIN nodes
      BY <2>2, <2>4
    <3>2. i \in DOMAIN nodes[m].kids /\ nodes'[m].kids[i] = nodes[m].kids[i]
      BY <2>4, <3>1
    <3>3. /\ nodes[m].kids[i] \in (m + 1)..Len(nodes)
          /\ \A f \in 1..n : nodes[m].kids[i] # frames[f].node
      BY <1>2, <3>1, <3>2
    <3>4. \A y \in (m + 1)..Len(nodes) : y \in (m + 1)..k /\ y # k
      BY <1>1, <3>1
    <3> QED
      BY <2>2, <2>4, <2>5, <3>2, <3>3, <3>4
  <2>7. \A f \in 1..(n + 1) : \A g \in 1..(f - 1) : frames'[g].node < frames'[f].node
    <3> SUFFICES ASSUME NEW f \in 1..(n + 1), NEW g \in 1..(f - 1)
                 PROVE  frames'[g].node < frames'[f].node
      OBVIOUS
    <3>1. g \in 1..n /\ frames'[g] = frames[g]
      BY <1>1, <2>5
    <3>2. CASE f \in 1..n
      BY <1>2, <2>5, <3>1, <3>2
    <3>3. CASE f = n + 1
      <4>1. frames[g].node \in DOMAIN nodes
        BY <1>1, <3>1
      <4> QED
        BY <2>2, <2>4, <2>5, <3>1, <3>3, <4>1
    <3> QED
      BY <2>5, <3>2, <3>3
  <2>8. frames'[1].node = Root
    BY <1>1, <1>2, <2>5
  <2> QED
    BY <2>5, <2>6, <2>7, <2>8 DEF TreeGrows
<1> QED
  BY <1>3, <1>4, <1>5, <1>6 DEF ParserNext, KeyStep, ValueStep, Ended, p
-------------------------------------------------------------------------------
(* The place in the text is kept known. *)
PlaceOf(t, s, n, r) ==
  /\ \A i \in 1..(s - 1) : InPlace(t, i)
  /\ n - 1 <= Depth(t, s - 1)
  /\ s <= Len(t) => n - 1 = Depth(t, s - 1)
  /\ EndsBlank(t) => s <= Len(t)
  /\ (s <= Len(t) /\ t[s] = "slash") \/ StringsSinceBrace(t, s) % 2 = r

LEMMA NotAtEnd ==
  ASSUME NEW s \in Nat, NEW n \in Nat
  PROVE  ~(s > n) <=> s <= n
OBVIOUS

LEMMA PlacePrimed ==
  ASSUME ParserTypeOK, text' = text, str' \in Nat, pc' \in {"key", "value"},
         PlaceOf(text, str', Len(frames'), IF pc' = "key" THEN 0 ELSE 1)
  PROVE  PlaceKnown'
<1>1. Len(text) \in Nat
  BY TextFacts
<1>2. AtEnd(str)' <=> ~(str' <= Len(text))
  BY <1>1, NotAtEnd DEF AtEnd
<1>3. Char(str)' = IF str' <= Len(text) THEN text[str'] ELSE "end"
  BY <1>1, NotAtEnd DEF AtEnd, Char
<1>4. /\ \A i \in 1..(str' - 1) : InPlace(text', i)
      /\ Len(frames') - 1 <= Depth(text', str' - 1)
      /\ ~AtEnd(str)' => Len(frames') - 1 = Depth(text', str' - 1)
      /\ EndsBlank(text') => ~AtEnd(str)'
      /\ \/ Char(str)' = "slash"
         \/ StringsSinceBrace(text', str') % 2 = (IF pc' = "key" THEN 0 ELSE 1)
  BY <1>2, <1>3 DEF PlaceOf
<1>5. pc' # "build" /\ pc' # "answered"
  OBVIOUS
<1> QED
  BY <1>4, <1>5 DEF PlaceKnown, Parsing, Accepted

LEMMA PastToken ==
  ASSUME ParserTypeOK, NEW p \in 1..Len(text), text[p] # "blank"
  PROVE  EndsBlank(text) => p + 1 <= Len(text)
<1> SUFFICES ASSUME EndsBlank(text)
             PROVE  p + 1 <= Len(text)
  OBVIOUS
<1>1. Len(text) \in Nat /\ text[Len(text)] = "blank"
  BY TextFacts DEF EndsBlank, Last
<1> QED
  BY <1>1

LEMMA WholeText ==
  ASSUME ParserTypeOK, \A i \in 1..Len(text) : InPlace(text, i), Depth(text, Len(text)) = 0
  PROVE  WellFormed(text)
BY TextFacts DEF WellFormed

LEMMA NotWhole ==
  ASSUME ParserTypeOK,
         (\E i \in 1..Len(text) : ~InPlace(text, i)) \/ Depth(text, Len(text)) # 0
  PROVE  ~WellFormed(text)
BY TextFacts DEF WellFormed

LEMMA PlaceStart ==
  ASSUME ParserInit
  PROVE  PlaceKnown
<1>1. ParserTypeOK
  BY TypeStart
<1>2. /\ str = 1 /\ pc = "key" /\ Len(frames) = 1
  BY DEF ParserInit
<1>3. Len(text) \in Nat
  BY <1>1, TextFacts
<1>4. Depth(text, 0) = 0
  <2>1. 0 \in Nat
    OBVIOUS
  <2> QED
    BY <2>1, DepthStep
<1>5. StringsSinceBrace(text, 1) % 2 = 0
  <2>1. StringsSinceBrace(text, 1) = 0
    BY StringsStep
  <2> QED
    BY <2>1
<1>6. EndsBlank(text) => ~AtEnd(1)
  BY <1>1, <1>3, TextFacts DEF EndsBlank, AtEnd
<1>7. str - 1 = 0 /\ Len(frames) - 1 = 0
  BY <1>2
<1> QED
  BY <1>2, <1>4, <1>5, <1>6, <1>7 DEF PlaceKnown, Parsing, Accepted

(* The facts that the steps share: with the blanks skipped, the place is known at p. *)
LEMMA PlaceNow ==
  ASSUME ParserTypeOK, PlaceKnown, Parsing, NEW p, p = SkipWhitespace(str)
  PROVE  /\ p \in Nat \ {0} /\ p - 1 \in Nat /\ p + 1 - 1 = p /\ Len(text) \in Nat
         /\ Len(frames) - 1 \in Nat
         /\ \A i \in 1..(p - 1) : InPlace(text, i)
         /\ AtEnd(p) => Char(p) = "end" /\ p - 1 = Len(text)
         /\ AtEnd(p) => Len(frames) - 1 <= Depth(text, Len(text))
         /\ ~AtEnd(str) => Depth(text, p - 1) = Len(frames) - 1
         /\ ~AtEnd(p) => /\ ~AtEnd(str) /\ Depth(text, p - 1) = Len(frames) - 1
                         /\ Char(p) = text[p] /\ p \in 1..Len(text) /\ text[p] \in Tokens
                         /\ EndsBlank(text) => p + 1 <= Len(text)
         /\ Char(p) = "slash" \/ StringsSinceBrace(text, p) % 2 = Parity
<1>1. ~AtEnd(p) => ~AtEnd(str)
  BY SkipFacts
<1>2. ~AtEnd(p) => (EndsBlank(text) => p + 1 <= Len(text))
  BY SkipFacts, PastToken
<1>3. Len(text) \in Nat /\ p \in Nat \ {0} /\ p - 1 \in Nat /\ p + 1 - 1 = p
  BY SkipFacts, TextFacts
<1>4. AtEnd(p) => p - 1 = Len(text) /\ Char(p) = "end"
  BY SkipFacts
<1>5. ~AtEnd(p) => Char(p) = text[p] /\ p \in 1..Len(text) /\ text[p] \in Tokens
  BY SkipFacts
<1>6. /\ \A i \in 1..(p - 1) : InPlace(text, i)
      /\ Len(frames) - 1 \in Nat
      /\ Len(frames) - 1 <= Depth(text, p - 1)
      /\ ~AtEnd(str) => Depth(text, p - 1) = Len(frames) - 1
      /\ Char(p) = "slash" \/ StringsSinceBrace(text, p) % 2 = Parity
  BY SkipPlace
<1> HIDE DEF Tokens
<1> QED
  BY <1>1, <1>2, <1>3, <1>4, <1>5, <1>6

LEMMA ReadPlace ==
  ASSUME ParserTypeOK, PlaceKnown, Parsing, NEW p, p = SkipWhitespace(str), IsString(p),
         text' = text, frames' = frames, str' = Behind(p),
         pc' = IF pc = "key" THEN "value" ELSE "key"
  PROVE  PlaceKnown'
<1> DEFINE d == Len(frames) - 1
           r == IF pc = "key" THEN 0 ELSE 1
<1>1. Char(p) \in {"word", "quoted", "slash"}
  BY DEF IsString
<1>2. ~AtEnd(p)
  BY <1>1 DEF Char
<1>3. /\ p \in Nat \ {0} /\ p - 1 \in Nat /\ p + 1 - 1 = p /\ p \in 1..Len(text)
      /\ Len(text) \in Nat /\ d \in Nat /\ Depth(text, p - 1) = d
      /\ \A i \in 1..(p - 1) : InPlace(text, i)
      /\ Char(p) = text[p] /\ (EndsBlank(text) => p + 1 <= Len(text))
      /\ text[p] = "slash" \/ StringsSinceBrace(text, p) % 2 = r
  BY <1>2, PlaceNow DEF Parity
<1>4. pc' \in {"key", "value"} /\ (IF pc' = "key" THEN 0 ELSE 1) = 1 - r /\ r \in {0, 1}
  BY DEF Parsing
<1> HIDE DEF d, r
<1>5. CASE text[p] = "slash"
  <2>1. str' = p
    BY <1>3, <1>5 DEF Behind
  <2>2. PlaceOf(text, p, Len(frames), 1 - r)
    BY <1>3, <1>5 DEF PlaceOf, d
  <2> QED
    BY <1>3, <1>4, <2>1, <2>2, PlacePrimed
<1>6. CASE text[p] \in {"word", "quoted"}
  <2>1. str' = p + 1
    BY <1>3, <1>6 DEF Behind
  <2>2. StringsSinceBrace(text, p) % 2 = r
    BY <1>3, <1>6
  <2>3. /\ \A i \in 1..p : InPlace(text, i)
        /\ Depth(text, p) = d /\ StringsSinceBrace(text, p + 1) % 2 = 1 - r
    BY <1>3, <1>4, <1>6, <2>2, PlaceStep
  <2>4. PlaceOf(text, p + 1, Len(frames), 1 - r)
    BY <1>3, <2>3 DEF PlaceOf, d
  <2> QED
    BY <1>3, <1>4, <2>1, <2>4, PlacePrimed
<1> QED
  BY <1>1, <1>3, <1>5, <1>6

LEMMA PlaceKeptStep ==
  ASSUME ParserTypeOK, PlaceKnown, [ParserNext]_vars
  PROVE  PlaceKnown'
<1> DEFINE p == SkipWhitespace(str)
           d == Len(frames) - 1
<1>1. Parsing =>
        /\ p \in Nat \ {0} /\ p - 1 \in Nat /\ p + 1 - 1 = p /\ Len(text) \in Nat /\ d \in Nat
        /\ \A i \in 1..(p - 1) : InPlace(text, i)
        /\ AtEnd(p) => Char(p) = "end" /\ p - 1 = Len(text)
        /\ AtEnd(p) => d <= Depth(text, Len(text))
        /\ ~AtEnd(str) => Depth(text, p - 1) = d
        /\ ~AtEnd(p) => /\ ~AtEnd(str) /\ Depth(text, p - 1) = d
                        /\ Char(p) = text[p] /\ p \in 1..Len(text) /\ text[p] \in Tokens
                        /\ EndsBlank(text) => p + 1 <= Len(text)
        /\ Char(p) = "slash" \/ StringsSinceBrace(text, p) % 2 = Parity
  <2> HIDE DEF Tokens
  <2> QED
    BY PlaceNow
<1>2. /\ pc = "key" => Parsing /\ Parity = 0
      /\ pc = "value" => Parsing /\ Parity = 1
  BY DEF Parsing, Parity
<1>3. IsRoot <=> d = 0
  BY FrameFacts DEF IsRoot
<1>4. Depth(text, Len(text)) \in Int
  BY TextFacts, DepthStep
<1> HIDE DEF p, d
<1>5. CASE TextEnds
  <2>1. pc = "key" /\ AtEnd(str) /\ ReturnsTo(str)
    BY <1>5 DEF TextEnds
  <2>2. CASE IsRoot /\ pc' = "build"
    <3>1. ~EndsBlank(text)
      BY <1>2, <2>1 DEF PlaceKnown
    <3>2. text' = text
      BY <2>1 DEF ReturnsTo
    <3> QED
      BY <2>2, <3>1, <3>2 DEF PlaceKnown, Parsing, Accepted
  <2>3. CASE ~IsRoot /\ pc' = "key" /\ frames' = Front(frames)
    <3>1. str' = str /\ text' = text
      BY <2>1 DEF ReturnsTo
    <3>2. Len(frames') = Len(frames) - 1 /\ Len(frames) \in Nat /\ str \in Nat
          /\ Len(text) \in Nat /\ str > Len(text)
      BY <2>1, <2>3, FrontFacts, FrameFacts, TextFacts DEF ParserTypeOK, AtEnd
    <3>3. /\ \A i \in 1..(str - 1) : InPlace(text, i)
          /\ Len(frames) - 1 <= Depth(text, str - 1)
          /\ EndsBlank(text) => ~AtEnd(str)
          /\ StringsSinceBrace(text, str) % 2 = 0
      BY <1>2, <2>1 DEF PlaceKnown, Char
    <3>4. Depth(text, str - 1) \in Int
      <4>1. str - 1 \in Nat
        BY <3>2
      <4> QED
        BY <4>1, DepthStep
    <3>5. PlaceOf(text, str, Len(frames) - 1, 0)
      BY <2>1, <3>2, <3>3, <3>4 DEF PlaceOf
    <3> QED
      BY <2>3, <3>1, <3>2, <3>5, PlacePrimed
  <2> QED
    BY <2>1, <2>2, <2>3, ReturnCases
<1>6. CASE pc = "key" /\ ReadKey(p)
  BY <1>2, <1>6, ReadPlace DEF ReadKey, p
<1>7. CASE pc = "value" /\ ReadValue(p)
  BY <1>2, <1>7, ReadPlace DEF ReadValue, p
<1>8. CASE pc = "key" /\ BlockEnds(p)
  <2>1. Char(p) = "close" /\ ~IsRoot /\ ReturnsTo(p + 1)
    BY <1>8 DEF BlockEnds
  <2>2. ~AtEnd(p)
    BY <2>1 DEF Char
  <2>3. pc' = "key" /\ frames' = Front(frames) /\ str' = p + 1 /\ text' = text
    BY <2>1 DEF ReturnsTo
  <2>4. Len(frames') - 1 = d - 1 /\ d > 0
    BY <1>1, <1>2, <1>3, <1>8, <2>1, <2>3, FrontFacts DEF d
  <2>5. /\ \A i \in 1..p : InPlace(text, i)
        /\ Depth(text, p) = d - 1 /\ StringsSinceBrace(text, p + 1) % 2 = 0
    <3>1. text[p] = "close" /\ StringsSinceBrace(text, p) % 2 = 0
      BY <1>1, <1>2, <1>8, <2>1, <2>2
    <3> QED
      BY <1>1, <1>2, <1>8, <2>2, <2>4, <3>1, PlaceStep
  <2>6. PlaceOf(text, p + 1, Len(frames'), 0)
    BY <1>1, <1>2, <1>8, <2>2, <2>4, <2>5 DEF PlaceOf
  <2>7. p + 1 \in Nat
    BY <1>1, <1>2, <1>8
  <2> QED
    BY <2>3, <2>6, <2>7, PlacePrimed
<1>9. CASE pc = "value" /\ OpenBlock(p)
  <2>1. Char(p) = "open" /\ pc' = "key" /\ str' = p + 1 /\ text' = text
    BY <1>9 DEF OpenBlock
  <2>2. ~AtEnd(p)
    BY <2>1 DEF Char
  <2>3. Len(frames') - 1 = d + 1
    <3> DEFINE x == [node |-> Len(nodes) + 1, key |-> key]
    <3>1. frames' = Append(frames, x)
      BY <1>9 DEF OpenBlock
    <3> HIDE DEF x, Frame
    <3>2. Len(frames') = Len(frames) + 1 /\ Len(frames) \in Nat
      BY <3>1, FrameFacts
    <3> QED
      BY <3>2 DEF d
  <2>4. /\ \A i \in 1..p : InPlace(text, i)
        /\ Depth(text, p) = d + 1 /\ StringsSinceBrace(text, p + 1) % 2 = 0
    <3>1. text[p] = "open" /\ StringsSinceBrace(text, p) % 2 = 1
      BY <1>1, <1>2, <1>9, <2>1, <2>2
    <3> QED
      BY <1>1, <1>2, <1>9, <2>2, <3>1, PlaceStep
  <2>5. PlaceOf(text, p + 1, Len(frames'), 0)
    BY <1>1, <1>2, <1>9, <2>2, <2>3, <2>4 DEF PlaceOf
  <2>6. p + 1 \in Nat
    BY <1>1, <1>2, <1>9
  <2> QED
    BY <2>1, <2>5, <2>6, PlacePrimed
<1>10. CASE pc \in {"key", "value"} /\ (TextEndsInBlanks(p) \/ DropKey(p))
  <2>1. Parsing /\ AtEnd(p) /\ IsRoot /\ ReturnsTo(p)
    BY <1>2, <1>10 DEF TextEndsInBlanks, DropKey, KeyError, NoError, IsRoot
  <2>2. EndsBlank(text) => WellFormed(text)
    <3>1. EndsBlank(text) => ~AtEnd(str)
      BY <2>1 DEF PlaceKnown
    <3>2. ~AtEnd(str) => Depth(text, Len(text)) = 0
      BY <1>1, <1>3, <2>1
    <3>3. \A i \in 1..Len(text) : InPlace(text, i)
      BY <1>1, <2>1
    <3> QED
      BY <3>1, <3>2, <3>3, WholeText
  <2>3. pc' = "build" /\ text' = text
    BY <2>1 DEF ReturnsTo
  <2> QED
    BY <2>2, <2>3 DEF PlaceKnown, Parsing, Accepted
<1>11. CASE pc = "key" /\ Fails(KeyError(Char(p)))
  <2>1. KeyError(Char(p)) # NoError /\ text' = text /\ pc' = "answered"
        /\ code' = KeyError(Char(p))
    BY <1>11 DEF Fails
  <2>2. \/ Char(p) \in {"open", "unclosed"}
        \/ Char(p) = "close" /\ IsRoot
        \/ Char(p) = "end" /\ ~IsRoot
    BY <2>1 DEF KeyError, IsRoot
  <2>3. ~WellFormed(text)
    <3>1. CASE AtEnd(p)
      BY <1>1, <1>2, <1>3, <1>4, <1>11, <2>2, <3>1, NotWhole
    <3>2. CASE ~AtEnd(p)
      <4>1. text[p] # "end"
        BY <1>1, <1>2, <1>11, <3>2 DEF Tokens
      <4>2. text[p] \in {"open", "unclosed"} \/ (text[p] = "close" /\ d = 0)
        BY <1>1, <1>2, <1>3, <1>11, <2>2, <3>2, <4>1
      <4>3. StringsSinceBrace(text, p) % 2 = 0
        BY <1>1, <1>2, <1>11, <3>2, <4>2
      <4>4. ~InPlace(text, p)
        BY <1>1, <1>2, <1>11, <3>2, <4>2, <4>3, PlaceStep
      <4> QED
        BY <1>1, <1>2, <1>11, <3>2, <4>4, NotWhole
    <3> QED
      BY <3>1, <3>2
  <2> QED
    BY <2>1, <2>3 DEF PlaceKnown, Parsing, Accepted
<1>12. CASE pc = "value" /\ Fails(ValueError(Char(p)))
  <2>1. ValueError(Char(p)) # NoError /\ text' = text /\ pc' = "answered"
        /\ code' = ValueError(Char(p))
    BY <1>12 DEF Fails
  <2>2. \/ Char(p) \in {"close", "unclosed"}
        \/ Char(p) = "end" /\ ~IsRoot
    BY <2>1 DEF ValueError, IsRoot
  <2>3. ~WellFormed(text)
    <3>1. CASE AtEnd(p)
      BY <1>1, <1>2, <1>3, <1>4, <1>12, <2>2, <3>1, NotWhole
    <3>2. CASE ~AtEnd(p)
      <4>1. text[p] # "end"
        BY <1>1, <1>2, <1>12, <3>2 DEF Tokens
      <4>2. text[p] \in {"close", "unclosed"}
        BY <1>1, <1>2, <1>12, <2>2, <3>2, <4>1
      <4>3. StringsSinceBrace(text, p) % 2 = 1
        BY <1>1, <1>2, <1>12, <3>2, <4>2
      <4>4. ~InPlace(text, p)
        BY <1>1, <1>2, <1>12, <3>2, <4>2, <4>3, PlaceStep
      <4> QED
        BY <1>1, <1>2, <1>12, <3>2, <4>4, NotWhole
    <3> QED
      BY <3>1, <3>2
  <2> QED
    BY <2>1, <2>3 DEF PlaceKnown, Parsing, Accepted
<1>13. CASE BuildData
  BY <1>13 DEF BuildData, PlaceKnown, Parsing, Accepted
<1>14. CASE UNCHANGED vars
  BY <1>14 DEF vars, PlaceKnown, Parsing, Accepted, AtEnd, Char
<1> QED
  BY <1>2, <1>5, <1>6, <1>7, <1>8, <1>9, <1>10, <1>11, <1>12, <1>13, <1>14
     DEF ParserNext, KeyStep, ValueStep, Ended, p
-------------------------------------------------------------------------------
(* The sizes and the tokens of the blocks that are still read, as rows: what a step
   does at the end of the row. *)
LEMMA CatAssociates ==
  ASSUME NEW X, NEW a \in Seq(X), NEW b \in Seq(X), NEW c \in Seq(X)
  PROVE  Cat(Cat(a, b), c) = Cat(a, Cat(b, c))
BY DEF Cat

LEMMA CatNone ==
  ASSUME NEW X, NEW a \in Seq(X)
  PROVE  Cat(a, <<>>) = a /\ Cat(<<>>, a) = a
BY DEF Cat

LEMMA TotalLast ==
  ASSUME NEW n \in Nat, NEW s \in [1..(n + 1) -> Nat], NEW t \in [1..(n + 1) -> Nat],
         \A i \in 1..n : t[i] = s[i], NEW x \in Nat, t[n + 1] = s[n + 1] + x
  PROVE  Total(t) = Total(s) + x
<1> DEFINE r == [i \in 1..n |-> s[i]]
<1>1. /\ r \in [1..n -> Nat] /\ \A i \in 1..n : r[i] = s[i]
      /\ n + 1 \in 1..(n + 1)
  OBVIOUS
<1> HIDE DEF r
<1>2. Total(r) \in Nat /\ Total(s) = Total(r) + s[n + 1]
  BY <1>1, TotalStep
<1>3. Total(t) = Total(r) + t[n + 1]
  <2>1. \A i \in 1..n : r[i] = t[i]
    BY <1>1
  <2> QED
    BY <1>1, <2>1, TotalStep
<1>4. s[n + 1] \in Nat
  BY <1>1
<1> QED
  BY <1>2, <1>3, <1>4

LEMMA TotalFold ==
  ASSUME NEW n \in Nat, NEW s \in [1..(n + 2) -> Nat], NEW t \in [1..(n + 1) -> Nat],
         \A i \in 1..n : t[i] = s[i], t[n + 1] = s[n + 1] + s[n + 2]
  PROVE  Total(t) = Total(s)
<1> DEFINE r == [i \in 1..(n + 1) |-> s[i]]
<1>1. /\ r \in [1..(n + 1) -> Nat] /\ \A i \in 1..(n + 1) : r[i] = s[i]
      /\ n + 1 \in Nat /\ n + 1 + 1 = n + 2 /\ n + 2 \in 1..(n + 2) /\ n + 1 \in 1..(n + 1)
      /\ \A i \in 1..n : i \in 1..(n + 1)
  OBVIOUS
<1> HIDE DEF r
<1>2. Total(r) \in Nat /\ Total(s) = Total(r) + s[n + 2]
  <2> DEFINE k == n + 1
  <2>1. s \in [1..(k + 1) -> Nat] /\ r \in [1..k -> Nat] /\ k \in Nat
        /\ \A i \in 1..k : r[i] = s[i]
    BY <1>1
  <2>2. Total(r) \in Nat /\ Total(s) = Total(r) + s[k + 1]
    <3> HIDE DEF k
    <3> QED
      BY <2>1, TotalStep
  <2> QED
    BY <1>1, <2>2
<1>3. s[n + 2] \in Nat
  BY <1>1
<1>4. Total(t) = Total(r) + s[n + 2]
  BY <1>1, <1>3, TotalLast
<1> QED
  BY <1>2, <1>4

LEMMA JoinedLast ==
  ASSUME NEW X, NEW n \in Nat, NEW s \in [1..(n + 1) -> Seq(X)],
         NEW t \in [1..(n + 1) -> Seq(X)], \A i \in 1..n : t[i] = s[i],
         NEW x \in Seq(X), t[n + 1] = Cat(s[n + 1], x)
  PROVE  Joined(t) = Cat(Joined(s), x)
<1> DEFINE r == [i \in 1..n |-> s[i]]
<1>1. n + 1 \in 1..(n + 1) /\ \A i \in 1..n : i \in 1..(n + 1) /\ r[i] = s[i]
  OBVIOUS
<1>2. r \in [1..n -> Seq(X)]
  <2>1. \A i \in 1..n : s[i] \in Seq(X)
    BY <1>1, Zenon
  <2> QED
    BY <2>1, Zenon
<1> HIDE DEF r
<1>3. Joined(r) \in Seq(X) /\ Joined(s) = Cat(Joined(r), s[n + 1])
  BY <1>1, <1>2, JoinedStep
<1>4. Joined(t) = Cat(Joined(r), t[n + 1])
  <2>1. \A i \in 1..n : r[i] = t[i]
    BY <1>1
  <2> QED
    BY <1>2, <2>1, JoinedStep
<1>5. s[n + 1] \in Seq(X)
  BY <1>1, Zenon
<1> QED
  BY <1>3, <1>4, <1>5, CatAssociates

LEMMA JoinedFold ==
  ASSUME NEW X, NEW n \in Nat, NEW s \in [1..(n + 2) -> Seq(X)],
         NEW t \in [1..(n + 1) -> Seq(X)], \A i \in 1..n : t[i] = s[i],
         NEW x \in Seq(X), t[n + 1] = Cat(s[n + 1], Cat(s[n + 2], x))
  PROVE  Joined(t) = Cat(Joined(s), x)
<1> DEFINE k == n + 1
           r == [i \in 1..k |-> s[i]]
<1>1. /\ k \in Nat /\ k + 1 = n + 2 /\ k \in 1..k /\ k + 1 \in 1..(k + 1)
      /\ \A i \in 1..k : i \in 1..(n + 2) /\ r[i] = s[i]
      /\ \A i \in 1..n : i \in 1..k
  OBVIOUS
<1>2. r \in [1..k -> Seq(X)]
  <2>1. \A i \in 1..k : s[i] \in Seq(X)
    BY <1>1, Zenon
  <2> QED
    BY <2>1, Zenon
<1>3. s \in [1..(k + 1) -> Seq(X)] /\ s[k + 1] = s[n + 2]
  BY <1>1
<1>4. s[k + 1] \in Seq(X)
  BY <1>1, <1>3, Zenon
<1>5. Cat(s[k + 1], x) \in Seq(X)
  BY <1>4, JoinTypes
<1>6. \A i \in 1..n : t[i] = r[i]
  BY <1>1
<1>7. t[n + 1] = Cat(r[n + 1], Cat(s[k + 1], x))
  BY <1>1, <1>3
<1>8. r \in [1..(n + 1) -> Seq(X)]
  BY <1>2
<1> HIDE DEF r
<1>9. Joined(t) = Cat(Joined(r), Cat(s[k + 1], x))
  <2> HIDE DEF k
  <2> QED
    BY <1>5, <1>6, <1>7, <1>8, JoinedLast
<1> HIDE DEF k
<1>10. Joined(r) \in Seq(X) /\ Joined(s) = Cat(Joined(r), s[k + 1])
  BY <1>1, <1>2, <1>3, JoinedStep
<1> QED
  BY <1>4, <1>9, <1>10, CatAssociates

KeyBytes(fs, f) == IF f = 1 THEN 0 ELSE SizeOf(fs[f].key)
KeyTokens(fs, f) == IF f = 1 THEN <<>> ELSE Opening(text, fs[f].key)

SizeRow(ns, fs) == [f \in DOMAIN fs |-> Copied(ns)[fs[f].node][f - 1] + KeyBytes(fs, f)]
HeldRow(ns, fs) == [f \in DOMAIN fs |-> Cat(KeyTokens(fs, f), Held(ns)[fs[f].node])]

LEMMA SizeAt ==
  ASSUME NEW ns, NEW fs, NEW n \in Nat, n + 1 \in DOMAIN fs
  PROVE  SizeRow(ns, fs)[n + 1] = Copied(ns)[fs[n + 1].node][n] + KeyBytes(fs, n + 1)
<1>1. PICK f \in DOMAIN fs : f = n + 1
  OBVIOUS
<1>2. f - 1 = n
  BY <1>1
<1>3. SizeRow(ns, fs)[f] = Copied(ns)[fs[f].node][f - 1] + KeyBytes(fs, f)
  BY Zenon DEF SizeRow
<1> QED
  BY <1>1, <1>2, <1>3

LEMMA HeldAt ==
  ASSUME NEW ns, NEW fs, NEW f \in DOMAIN fs
  PROVE  HeldRow(ns, fs)[f] = Cat(KeyTokens(fs, f), Held(ns)[fs[f].node])
BY Zenon DEF HeldRow

LEMMA KeyTypes ==
  ASSUME NEW fs, NEW f, fs[f].key \in Nat
  PROVE  KeyBytes(fs, f) \in Nat /\ KeyTokens(fs, f) \in Seq(TokenSet(text))
<1>1. SizeOf(fs[f].key) \in Nat
  BY LengthIsNatural DEF SizeOf
<1>2. Opening(text, fs[f].key) \in Seq(TokenSet(text))
  BY OpeningIsSequence
<1> QED
  BY <1>1, <1>2 DEF KeyBytes, KeyTokens

LEMMA RowTypes ==
  ASSUME NEW ns, Known(text, ns), NEW fs, NEW n \in Nat, DOMAIN fs = 1..n,
         \A f \in 1..n : fs[f].node \in DOMAIN ns /\ fs[f].key \in Nat
  PROVE  /\ SizeRow(ns, fs) \in [1..n -> Nat]
         /\ HeldRow(ns, fs) \in [1..n -> Seq(TokenSet(text))]
<1>1. ASSUME NEW f \in 1..n
      PROVE  /\ Copied(ns)[fs[f].node][f - 1] + KeyBytes(fs, f) \in Nat
             /\ Cat(KeyTokens(fs, f), Held(ns)[fs[f].node]) \in Seq(TokenSet(text))
  <2>1. f - 1 \in Nat
    OBVIOUS
  <2>2. /\ Copied(ns)[fs[f].node][f - 1] \in Nat
        /\ Held(ns)[fs[f].node] \in Seq(TokenSet(text))
    BY <2>1, KnownTypes, CopyLayoutIsLayout, Zenon DEF Copied, Held
  <2>3. KeyBytes(fs, f) \in Nat /\ KeyTokens(fs, f) \in Seq(TokenSet(text))
    BY KeyTypes
  <2>4. Cat(KeyTokens(fs, f), Held(ns)[fs[f].node]) \in Seq(TokenSet(text))
    BY <2>2, <2>3, JoinTypes
  <2>5. Copied(ns)[fs[f].node][f - 1] + KeyBytes(fs, f) \in Nat
    BY <2>2, <2>3
  <2> QED
    BY <2>4, <2>5
<1> QED
  BY <1>1, Zenon DEF SizeRow, HeldRow

LEMMA CurrentRows ==
  ASSUME ParserTypeOK, Known(text, nodes)
  PROVE  /\ SizeRow(nodes, frames) \in [1..Len(frames) -> Nat]
         /\ HeldRow(nodes, frames) \in [1..Len(frames) -> Seq(TokenSet(text))]
<1>1. /\ Len(frames) \in Nat /\ DOMAIN frames = 1..Len(frames)
      /\ \A f \in 1..Len(frames) : frames[f].node \in DOMAIN nodes /\ frames[f].key \in Nat
  BY FrameFacts
<1> QED
  BY <1>1, RowTypes

LEMMA CloseRows ==
  ASSUME ParserTypeOK, TreeGrows, ~IsRoot, Known(text, nodes),
         NEW ns, ns = Linked(ClosedNodes, Outer, Current.node),
         NEW fs, fs = Front(frames)
  PROVE  /\ Total(SizeRow(ns, fs)) = Total(SizeRow(nodes, frames))
         /\ Joined(HeldRow(ns, fs))
              = Cat(Joined(HeldRow(nodes, frames)), <<BraceToken("close")>>)
<1> DEFINE n == Len(frames) - 2
           c == Current.node
           q == Outer
           x == <<BraceToken("close")>>
           T == TokenSet(text)
<1>1. /\ Known(text, ns) /\ ns \in Seq(Node) /\ Len(ns) = Len(nodes)
      /\ \A m \in DOMAIN nodes :
           m # q => Copied(ns)[m] = Copied(nodes)[m] /\ Held(ns)[m] = Held(nodes)[m]
      /\ \A tabs \in Nat :
           Copied(ns)[q][tabs]
             = Copied(nodes)[q][tabs]
                 + (SizeOf(Current.key) + Copied(nodes)[c][tabs + 1])
      /\ Held(ns)[q]
           = Cat(Held(nodes)[q], Cat(Cat(Opening(text, Current.key), Held(nodes)[c]), x))
  BY CloseEffect
<1>2. /\ n \in Nat /\ Len(frames) = n + 2 /\ Len(frames) - 1 = n + 1
      /\ n + 1 \in 1..(n + 1) /\ n + 2 \in 1..(n + 2) /\ n + 1 \in 1..(n + 2) /\ n + 2 # 1
      /\ n + 1 - 1 = n /\ n + 2 - 1 = n + 1
      /\ \A f \in 1..n : f \in 1..(n + 1) /\ f \in 1..(n + 2)
      /\ \A f \in 1..(n + 1) : f \in 1..(n + 2)
  BY FrameFacts DEF IsRoot
<1>3. /\ DOMAIN fs = 1..(n + 1) /\ \A f \in 1..(n + 1) : fs[f] = frames[f]
      /\ DOMAIN frames = 1..(n + 2)
      /\ \A f \in 1..(n + 2) : /\ frames[f].node \in DOMAIN nodes /\ frames[f].node \in Nat
                               /\ frames[f].key \in Nat
      /\ Current = frames[n + 2] /\ q = frames[n + 1].node
      /\ c = frames[n + 2].node
      /\ DOMAIN ns = DOMAIN nodes
  BY <1>1, <1>2, FrontFacts, FrameFacts DEF Outer
<1>4. \A f \in 1..n : frames[f].node # q
  <2>1. \A f \in 1..n : frames[f].node < frames[n + 1].node
    <3>1. n + 1 \in DOMAIN frames /\ \A f \in 1..n : f \in 1..(n + 1 - 1)
      BY <1>2, <1>3
    <3> QED
      BY <3>1 DEF TreeGrows
  <2>2. \A f \in 1..n : frames[f].node \in Nat
    BY <1>2, <1>3
  <2> QED
    BY <1>2, <1>3, <2>1, <2>2
<1> DEFINE s == SizeRow(nodes, frames)
           t == SizeRow(ns, fs)
           u == HeldRow(nodes, frames)
           v == HeldRow(ns, fs)
<1> HIDE DEF n, c, q, x, T
<1>5. s \in [1..(n + 2) -> Nat] /\ u \in [1..(n + 2) -> Seq(T)]
  BY <1>2, CurrentRows DEF T
<1>6. t \in [1..(n + 1) -> Nat] /\ v \in [1..(n + 1) -> Seq(T)]
  <2>1. n + 1 \in Nat /\ \A f \in 1..(n + 1) : fs[f].node \in DOMAIN ns /\ fs[f].key \in Nat
    BY <1>2, <1>3
  <2> HIDE DEF t, v
  <2>2. SizeRow(ns, fs) \in [1..(n + 1) -> Nat]
        /\ HeldRow(ns, fs) \in [1..(n + 1) -> Seq(TokenSet(text))]
    BY <1>1, <1>3, <2>1, RowTypes
  <2> QED
    BY <2>2 DEF t, v, T
<1>7. ASSUME NEW f \in 1..n
      PROVE  t[f] = s[f] /\ v[f] = u[f]
  <2>1. /\ Copied(ns)[fs[f].node] = Copied(nodes)[frames[f].node]
        /\ Held(ns)[fs[f].node] = Held(nodes)[frames[f].node]
        /\ fs[f] = frames[f]
    BY <1>1, <1>2, <1>3, <1>4, Zenon
  <2>2. f \in DOMAIN fs /\ f \in DOMAIN frames
    BY <1>2, <1>3
  <2> QED
    BY <2>1, <2>2, Zenon DEF SizeRow, HeldRow, KeyBytes, KeyTokens
<1> DEFINE pre == KeyTokens(frames, n + 1)
           add == KeyBytes(frames, n + 1)
<1>8. /\ s[n + 1] = Copied(nodes)[q][n] + add
      /\ t[n + 1] = Copied(ns)[q][n] + add
      /\ s[n + 2] = Copied(nodes)[c][n + 1] + SizeOf(Current.key)
      /\ u[n + 1] = Cat(pre, Held(nodes)[q])
      /\ v[n + 1] = Cat(pre, Held(ns)[q])
      /\ u[n + 2] = Cat(Opening(text, Current.key), Held(nodes)[c])
  <2>1. n + 1 \in DOMAIN fs /\ n + 1 \in DOMAIN frames /\ n + 2 \in DOMAIN frames
        /\ fs[n + 1] = frames[n + 1]
    BY <1>2, <1>3
  <2>2. /\ s[n + 1] = Copied(nodes)[frames[n + 1].node][n] + add
        /\ t[n + 1] = Copied(ns)[fs[n + 1].node][n] + KeyBytes(fs, n + 1)
        /\ s[n + 2] = Copied(nodes)[frames[n + 2].node][n + 1] + KeyBytes(frames, n + 2)
    <3>1. n \in Nat /\ n + 1 \in Nat /\ n + 2 = n + 1 + 1
      BY <1>2
    <3>2. s[n + 1] = Copied(nodes)[frames[n + 1].node][n] + add
      BY <2>1, <3>1, SizeAt
    <3>3. t[n + 1] = Copied(ns)[fs[n + 1].node][n] + KeyBytes(fs, n + 1)
      BY <2>1, <3>1, SizeAt
    <3>4. s[n + 2] = Copied(nodes)[frames[n + 2].node][n + 1] + KeyBytes(frames, n + 2)
      BY <2>1, <3>1, SizeAt
    <3> QED
      BY <3>2, <3>3, <3>4
  <2>3. /\ u[n + 1] = Cat(pre, Held(nodes)[frames[n + 1].node])
        /\ u[n + 2] = Cat(KeyTokens(frames, n + 2), Held(nodes)[frames[n + 2].node])
    BY <2>1, HeldAt
  <2>4. v[n + 1] = Cat(KeyTokens(fs, n + 1), Held(ns)[fs[n + 1].node])
    BY <2>1, HeldAt
  <2>5. /\ KeyBytes(fs, n + 1) = add /\ KeyTokens(fs, n + 1) = pre
        /\ KeyBytes(frames, n + 2) = SizeOf(Current.key)
        /\ KeyTokens(frames, n + 2) = Opening(text, Current.key)
    BY <1>2, <1>3, <2>1, Zenon DEF KeyBytes, KeyTokens
  <2> HIDE DEF s, t, u, v, pre, add
  <2> QED
    BY <1>2, <1>3, <2>1, <2>2, <2>3, <2>4, <2>5, Zenon
<1>9. pre \in Seq(T) /\ add \in Nat
  BY <1>2, <1>3, KeyTypes DEF T
<1>10. /\ Copied(nodes)[q][n] \in Nat /\ Copied(nodes)[c][n + 1] \in Nat
       /\ Held(nodes)[q] \in Seq(T) /\ Held(nodes)[c] \in Seq(T)
  <2>1. q \in DOMAIN nodes /\ c \in DOMAIN nodes /\ n \in Nat /\ n + 1 \in Nat
    BY <1>2, <1>3
  <2> QED
    BY <2>1, KnownTypes, CopyLayoutIsLayout, Zenon DEF Copied, Held, T
<1>11. SizeOf(Current.key) \in Nat
  BY LengthIsNatural DEF SizeOf
<1>12. x \in Seq(T)
  BY TokensAreInTheSet, Singleton, Zenon DEF x, T
<1>13. Opening(text, Current.key) \in Seq(T)
  <2>1. Current.key \in Nat
    BY <1>2, <1>3
  <2> QED
    BY <2>1, OpeningIsSequence DEF T
<1> HIDE DEF s, t, u, v, pre, add
<1>14. t[n + 1] = s[n + 1] + s[n + 2]
  <2>1. Copied(ns)[q][n]
          = Copied(nodes)[q][n] + (SizeOf(Current.key) + Copied(nodes)[c][n + 1])
    BY <1>1, <1>2
  <2> QED
    BY <1>8, <1>9, <1>10, <1>11, <2>1
<1>15. v[n + 1] = Cat(u[n + 1], Cat(u[n + 2], x))
  <2>1. u[n + 2] \in Seq(T)
    BY <1>8, <1>10, <1>13, JoinTypes
  <2>2. Cat(u[n + 2], x) \in Seq(T)
    BY <1>12, <2>1, JoinTypes
  <2>3. v[n + 1] = Cat(pre, Cat(Held(nodes)[q], Cat(u[n + 2], x)))
    BY <1>1, <1>8
  <2> QED
    BY <1>8, <1>9, <1>10, <2>2, <2>3, CatAssociates
<1>16. Total(t) = Total(s)
  BY <1>2, <1>5, <1>6, <1>7, <1>14, TotalFold
<1>17. Joined(v) = Cat(Joined(u), x)
  BY <1>2, <1>5, <1>6, <1>7, <1>12, <1>15, JoinedFold
<1> QED
  BY <1>16, <1>17 DEF s, t, u, v, x
LEMMA PairRows ==
  ASSUME ParserTypeOK, TreeGrows, Known(text, nodes), NEW value \in Nat, NEW ns,
         ns = Linked(Append(nodes, [key |-> key, value |-> value, block |-> FALSE, kids |-> <<>>]),
                     Current.node, Len(nodes) + 1)
  PROVE  /\ Total(SizeRow(ns, frames))
              = Total(SizeRow(nodes, frames)) + (SizeOf(key) + SizeOf(value))
         /\ Joined(HeldRow(ns, frames))
              = Cat(Joined(HeldRow(nodes, frames)),
                    <<StringToken(text, key), StringToken(text, value)>>)
<1> DEFINE n == Len(frames) - 1
           q == Current.node
           x == <<StringToken(text, key), StringToken(text, value)>>
           T == TokenSet(text)
           y == SizeOf(key) + SizeOf(value)
<1>1. /\ Known(text, ns) /\ ns \in Seq(Node) /\ Len(ns) = Len(nodes) + 1
      /\ \A m \in DOMAIN nodes :
           m # q => Copied(ns)[m] = Copied(nodes)[m] /\ Held(ns)[m] = Held(nodes)[m]
      /\ \A tabs \in Nat : Copied(ns)[q][tabs] = Copied(nodes)[q][tabs] + y
      /\ Held(ns)[q] = Cat(Held(nodes)[q], x)
  BY PairEffect
<1>2. /\ n \in Nat /\ Len(frames) = n + 1 /\ n + 1 \in 1..(n + 1)
      /\ \A f \in 1..n : f \in 1..(n + 1) /\ f \in 1..(n + 1 - 1)
  BY FrameFacts
<1>3. /\ DOMAIN frames = 1..(n + 1)
      /\ \A f \in 1..(n + 1) : /\ frames[f].node \in DOMAIN nodes /\ frames[f].node \in Nat
                               /\ frames[f].key \in Nat /\ frames[f].node \in DOMAIN ns
      /\ q = frames[n + 1].node
  BY <1>1, <1>2, FrameFacts
<1>4. \A f \in 1..n : frames[f].node # q
  <2>1. \A f \in 1..n : frames[f].node < frames[n + 1].node
    BY <1>2, <1>3 DEF TreeGrows
  <2>2. /\ \A f \in 1..n : frames[f].node \in Nat
        /\ q \in Nat /\ q = frames[n + 1].node
    BY <1>2, <1>3
  <2> QED
    BY <2>1, <2>2
<1>5. key \in Nat /\ value \in Nat
  BY TextFacts DEF ParserTypeOK
<1>6. y \in Nat
  BY LengthIsNatural DEF SizeOf
<1>7. x \in Seq(T)
  BY <1>5, TokensAreInTheSet, Pair, Zenon
<1> DEFINE s == SizeRow(nodes, frames)
           t == SizeRow(ns, frames)
           u == HeldRow(nodes, frames)
           v == HeldRow(ns, frames)
<1> HIDE DEF n, q, x, y, T
<1>8. s \in [1..(n + 1) -> Nat] /\ u \in [1..(n + 1) -> Seq(T)]
  BY <1>2, CurrentRows DEF T
<1>9. t \in [1..(n + 1) -> Nat] /\ v \in [1..(n + 1) -> Seq(T)]
  <2>1. n + 1 \in Nat /\ \A f \in 1..(n + 1) : frames[f].node \in DOMAIN ns /\ frames[f].key \in Nat
    <3>1. n + 1 \in Nat
      BY <1>2
    <3> QED
      BY <1>3, <3>1, Zenon
  <2> HIDE DEF t, v
  <2>2. SizeRow(ns, frames) \in [1..(n + 1) -> Nat]
        /\ HeldRow(ns, frames) \in [1..(n + 1) -> Seq(TokenSet(text))]
    BY <1>1, <1>3, <2>1, RowTypes
  <2> QED
    BY <2>2 DEF t, v, T
<1>10. ASSUME NEW f \in 1..n
       PROVE  t[f] = s[f] /\ v[f] = u[f]
  <2>1. /\ Copied(ns)[frames[f].node] = Copied(nodes)[frames[f].node]
        /\ Held(ns)[frames[f].node] = Held(nodes)[frames[f].node]
    BY <1>1, <1>2, <1>3, <1>4, Zenon
  <2>2. f \in DOMAIN frames
    BY <1>2, <1>3
  <2> QED
    BY <2>1, <2>2, Zenon DEF SizeRow, HeldRow, KeyBytes, KeyTokens
<1>11. n + 1 \in DOMAIN frames
  BY <1>2, <1>3
<1>12. t[n + 1] = s[n + 1] + y
  <2>1. /\ s[n + 1] = Copied(nodes)[q][n] + KeyBytes(frames, n + 1)
        /\ t[n + 1] = Copied(ns)[q][n] + KeyBytes(frames, n + 1)
    BY <1>2, <1>3, <1>11, SizeAt
  <2>2. Copied(nodes)[q][n] \in Nat
    BY <1>2, <1>3, KnownTypes, CopyLayoutIsLayout, Zenon DEF Copied
  <2>3. KeyBytes(frames, n + 1) \in Nat
    BY <1>2, <1>3, KeyTypes
  <2>4. Copied(ns)[q][n] = Copied(nodes)[q][n] + y
    BY <1>1, <1>2
  <2> HIDE DEF s, t
  <2> QED
    BY <1>6, <2>1, <2>2, <2>3, <2>4
<1>13. v[n + 1] = Cat(u[n + 1], x)
  <2>1. u[n + 1] = Cat(KeyTokens(frames, n + 1), Held(nodes)[frames[n + 1].node])
    BY <1>11, HeldAt
  <2>2. v[n + 1] = Cat(KeyTokens(frames, n + 1), Held(ns)[frames[n + 1].node])
    BY <1>11, HeldAt
  <2>3. Held(nodes)[q] \in Seq(T)
    <3>1. q \in DOMAIN nodes
      BY <1>2, <1>3
    <3> QED
      BY <3>1, KnownTypes, Zenon DEF Held, T
  <2>4. KeyTokens(frames, n + 1) \in Seq(T)
    BY <1>2, <1>3, KeyTypes DEF T
  <2> HIDE DEF u, v
  <2>5. v[n + 1] = Cat(KeyTokens(frames, n + 1), Cat(Held(nodes)[q], x))
    BY <1>1, <1>3, <2>2, Zenon
  <2>6. Cat(Cat(KeyTokens(frames, n + 1), Held(nodes)[q]), x)
          = Cat(KeyTokens(frames, n + 1), Cat(Held(nodes)[q], x))
    BY <1>7, <2>3, <2>4, CatAssociates
  <2> QED
    BY <1>3, <2>1, <2>5, <2>6, Zenon
<1> HIDE DEF s, t, u, v
<1>14. Total(t) = Total(s) + y
  BY <1>2, <1>6, <1>8, <1>9, <1>10, <1>12, TotalLast
<1>15. Joined(v) = Cat(Joined(u), x)
  BY <1>2, <1>7, <1>8, <1>9, <1>10, <1>13, JoinedLast
<1> QED
  BY <1>14, <1>15 DEF s, t, u, v, x, y

LEMMA OpenRows ==
  ASSUME ParserTypeOK, TreeGrows, Known(text, nodes), NEW ns, ns = Append(nodes, EmptyBlock),
         NEW fs, fs = Append(frames, [node |-> Len(nodes) + 1, key |-> key])
  PROVE  /\ Total(SizeRow(ns, fs)) = Total(SizeRow(nodes, frames)) + SizeOf(key)
         /\ Joined(HeldRow(ns, fs))
              = Cat(Joined(HeldRow(nodes, frames)), Opening(text, key))
<1> DEFINE n == Len(frames)
           k == Len(nodes) + 1
           T == TokenSet(text)
           last == [node |-> k, key |-> key]
<1>1. /\ Known(text, ns) /\ ns \in Seq(Node) /\ Len(ns) = k
      /\ \A m \in DOMAIN nodes : Copied(ns)[m] = Copied(nodes)[m] /\ Held(ns)[m] = Held(nodes)[m]
      /\ \A tabs \in Nat : Copied(ns)[k][tabs] = 0
      /\ Held(ns)[k] = <<>>
  BY OpenEffect
<1>2. /\ n \in Nat \ {0} /\ n + 1 \in 1..(n + 1) /\ n + 1 # 1 /\ n \in Nat
      /\ \A f \in 1..n : f \in 1..(n + 1)
      /\ DOMAIN nodes = 1..Len(nodes) /\ Len(nodes) \in Nat
  BY FrameFacts
<1>3. key \in Nat
  BY TextFacts DEF ParserTypeOK
<1>4. /\ DOMAIN frames = 1..n
      /\ \A f \in 1..n : frames[f].node \in DOMAIN nodes /\ frames[f].key \in Nat
  BY FrameFacts
<1>5. /\ DOMAIN fs = 1..(n + 1) /\ \A f \in 1..n : fs[f] = frames[f]
      /\ fs[n + 1].node = k /\ fs[n + 1].key = key
  <2>1. frames \in Seq(Frame)
    BY FrameFacts
  <2>2. last.node = k /\ last.key = key
    OBVIOUS
  <2> HIDE DEF last
  <2>3. fs = Append(frames, last)
    BY DEF last
  <2>4. /\ DOMAIN fs = 1..(n + 1) /\ \A f \in 1..n : fs[f] = frames[f]
        /\ fs[n + 1] = last
    <3> HIDE DEF Frame
    <3> QED
      BY <1>2, <2>1, <2>3
  <2> QED
    BY <2>2, <2>4
<1>6. \A f \in 1..(n + 1) : fs[f].node \in DOMAIN ns /\ fs[f].key \in Nat
  <2>1. DOMAIN ns = 1..k /\ \A m \in DOMAIN nodes : m \in DOMAIN ns
    BY <1>1, <1>2
  <2>2. k \in 1..k
    BY <1>2
  <2> HIDE DEF n, k
  <2> QED
    BY <1>2, <1>3, <1>4, <1>5, <2>1, <2>2
<1> DEFINE s == SizeRow(nodes, frames)
           t == SizeRow(ns, fs)
           u == HeldRow(nodes, frames)
           v == HeldRow(ns, fs)
<1> HIDE DEF n, k, T
<1>7. s \in [1..n -> Nat] /\ u \in [1..n -> Seq(T)]
  BY <1>2, CurrentRows DEF n, T
<1>8. t \in [1..(n + 1) -> Nat] /\ v \in [1..(n + 1) -> Seq(T)]
  <2>1. n + 1 \in Nat
    BY <1>2
  <2> HIDE DEF t, v
  <2>2. SizeRow(ns, fs) \in [1..(n + 1) -> Nat]
        /\ HeldRow(ns, fs) \in [1..(n + 1) -> Seq(TokenSet(text))]
    BY <1>1, <1>5, <1>6, <2>1, RowTypes
  <2> QED
    BY <2>2 DEF t, v, T
<1>9. ASSUME NEW f \in 1..n
      PROVE  s[f] = t[f] /\ u[f] = v[f]
  <2>1. /\ Copied(ns)[fs[f].node] = Copied(nodes)[frames[f].node]
        /\ Held(ns)[fs[f].node] = Held(nodes)[frames[f].node]
    BY <1>1, <1>4, <1>5, Zenon
  <2>2. f \in DOMAIN frames /\ f \in DOMAIN fs /\ fs[f] = frames[f]
    BY <1>2, <1>4, <1>5
  <2> QED
    BY <2>1, <2>2, Zenon DEF SizeRow, HeldRow, KeyBytes, KeyTokens
<1>10. n + 1 \in DOMAIN fs
  BY <1>2, <1>5
<1>11. SizeOf(key) \in Nat
  BY LengthIsNatural DEF SizeOf
<1>12. KeyBytes(fs, n + 1) = SizeOf(key) /\ KeyTokens(fs, n + 1) = Opening(text, key)
  BY <1>2, <1>5 DEF KeyBytes, KeyTokens
<1>13. t[n + 1] = SizeOf(key)
  <2>1. t[n + 1] = Copied(ns)[fs[n + 1].node][n] + KeyBytes(fs, n + 1)
    BY <1>2, <1>10, SizeAt
  <2>2. Copied(ns)[fs[n + 1].node][n] = 0
    BY <1>1, <1>2, <1>5
  <2> HIDE DEF t
  <2> QED
    BY <1>11, <1>12, <2>1, <2>2
<1>14. v[n + 1] = Opening(text, key)
  <2>1. v[n + 1] = Cat(KeyTokens(fs, n + 1), Held(ns)[fs[n + 1].node])
    BY <1>10, HeldAt
  <2>2. Opening(text, key) \in Seq(T)
    BY <1>3, OpeningIsSequence DEF T
  <2> HIDE DEF v
  <2> QED
    BY <1>1, <1>5, <1>12, <2>1, <2>2, CatNone
<1> HIDE DEF s, t, u, v
<1>15. Total(s) \in Nat /\ Total(t) = Total(s) + t[n + 1]
  BY <1>2, <1>7, <1>8, <1>9, TotalStep
<1>16. Joined(v) = Cat(Joined(u), v[n + 1])
  <2>1. n \in Nat /\ u \in [1..n -> Seq(T)] /\ v \in [1..(n + 1) -> Seq(T)]
    BY <1>2, <1>7, <1>8
  <2>2. \A f \in 1..n : u[f] = v[f]
    BY <1>9
  <2> QED
    BY <2>1, <2>2, JoinedStep
<1> QED
  BY <1>13, <1>14, <1>15, <1>16 DEF s, t, u, v
LEMMA TotalOfOne ==
  ASSUME NEW s \in [1..1 -> Nat]
  PROVE  Total(s) = s[1]
<1> DEFINE r == [i \in 1..0 |-> 0]
<1>1. r \in [1..0 -> Nat] /\ \A i \in 1..0 : r[i] = s[i]
  OBVIOUS
<1> HIDE DEF r
<1>2. Total(r) = 0
  BY <1>1, TotalOfNone
<1>3. Total(s) = Total(r) + s[1]
  <2>1. 0 \in Nat /\ 0 + 1 = 1
    OBVIOUS
  <2>2. s \in [1..(0 + 1) -> Nat]
    BY <2>1
  <2>3. Total(s) = Total(r) + s[0 + 1]
    BY <1>1, <2>1, <2>2, TotalStep
  <2> QED
    BY <2>1, <2>3
<1>4. s[1] \in Nat
  OBVIOUS
<1> QED
  BY <1>2, <1>3, <1>4

LEMMA JoinedOfOne ==
  ASSUME NEW X, NEW s \in [1..1 -> Seq(X)]
  PROVE  Joined(s) = s[1]
<1> DEFINE none == <<>>
           r == [i \in 1..0 |-> none]
<1>1. r \in [1..0 -> Seq(X)] /\ \A i \in 1..0 : r[i] = s[i]
  OBVIOUS
<1> HIDE DEF r
<1>2. Joined(r) = <<>>
  BY <1>1, JoinedOfNone
<1>3. Joined(s) = Cat(Joined(r), s[1])
  <2>1. 0 \in Nat /\ 0 + 1 = 1
    OBVIOUS
  <2>2. s \in [1..(0 + 1) -> Seq(X)]
    BY <2>1
  <2>3. Joined(s) = Cat(Joined(r), s[0 + 1])
    BY <1>1, <2>1, <2>2, JoinedStep
  <2> QED
    BY <2>1, <2>3
<1>4. s[1] \in Seq(X)
  <2>1. 1 \in 1..1
    OBVIOUS
  <2> QED
    BY <2>1, Zenon
<1> QED
  BY <1>2, <1>3, <1>4, CatNone

(* The rows of the model's invariants, and what they are when only the root is read. *)
LEMMA RowsOfTheCalls ==
  /\ [f \in DOMAIN frames |-> OpenSize(f)] = SizeRow(nodes, frames)
  /\ [f \in DOMAIN frames |-> OpenTokens(f)] = HeldRow(nodes, frames)
<1>1. \A f \in DOMAIN frames :
        OpenSize(f) = Copied(nodes)[frames[f].node][f - 1] + KeyBytes(frames, f)
  BY DEF OpenSize, Copied, KeyBytes
<1>2. \A f \in DOMAIN frames :
        OpenTokens(f) = Cat(KeyTokens(frames, f), Held(nodes)[frames[f].node])
  BY Zenon DEF OpenTokens, Held, KeyTokens, Cat
<1> QED
  BY <1>1, <1>2, Zenon DEF SizeRow, HeldRow

LEMMA RowsPrimed ==
  ASSUME text' = text
  PROVE  /\ [f \in DOMAIN frames |-> OpenSize(f)]' = SizeRow(nodes', frames')
         /\ [f \in DOMAIN frames |-> OpenTokens(f)]' = HeldRow(nodes', frames')
<1>1. \A f \in DOMAIN frames' :
        OpenSize(f)' = Copied(nodes')[frames'[f].node][f - 1] + KeyBytes(frames', f)
  BY DEF OpenSize, Copied, KeyBytes, SizeOf
<1>2. \A f \in DOMAIN frames' :
        OpenTokens(f)' = Cat(KeyTokens(frames', f), Held(nodes')[frames'[f].node])
  BY Zenon DEF OpenTokens, Held, KeyTokens, Cat
<1> QED
  BY <1>1, <1>2, Zenon DEF SizeRow, HeldRow

LEMMA RootRows ==
  ASSUME ParserTypeOK, TreeGrows, Known(text, nodes), IsRoot
  PROVE  /\ Total(SizeRow(nodes, frames)) = Copied(nodes)[Root][0]
         /\ Joined(HeldRow(nodes, frames)) = Held(nodes)[Root]
<1>1. /\ Len(frames) = 1 /\ DOMAIN frames = 1..1 /\ frames[1].node = Root
      /\ Root \in DOMAIN nodes
  BY FrameFacts DEF IsRoot, TreeGrows
<1>2. SizeRow(nodes, frames) \in [1..1 -> Nat]
      /\ HeldRow(nodes, frames) \in [1..1 -> Seq(TokenSet(text))]
  BY <1>1, CurrentRows
<1>3. 1 \in DOMAIN frames /\ 0 \in Nat /\ 0 + 1 = 1
  BY <1>1
<1>4. SizeRow(nodes, frames)[1] = Copied(nodes)[Root][0]
  <2>1. SizeRow(nodes, frames)[1] = Copied(nodes)[frames[1].node][0] + KeyBytes(frames, 1)
    BY <1>3, SizeAt
  <2>2. KeyBytes(frames, 1) = 0
    BY DEF KeyBytes
  <2>3. Copied(nodes)[Root][0] \in Nat
    BY <1>1, <1>3, KnownTypes, CopyLayoutIsLayout, Zenon DEF Copied
  <2> QED
    BY <1>1, <2>1, <2>2, <2>3
<1>5. HeldRow(nodes, frames)[1] = Held(nodes)[Root]
  <2>1. HeldRow(nodes, frames)[1] = Cat(KeyTokens(frames, 1), Held(nodes)[frames[1].node])
    BY <1>3, HeldAt
  <2>2. KeyTokens(frames, 1) = <<>>
    BY DEF KeyTokens
  <2>3. Held(nodes)[Root] \in Seq(TokenSet(text))
    BY <1>1, KnownTypes, Zenon DEF Held
  <2> QED
    BY <1>1, <2>1, <2>2, <2>3, CatNone
<1> QED
  BY <1>2, <1>4, <1>5, TotalOfOne, JoinedOfOne

-------------------------------------------------------------------------------
(* The tree is known from the start, and every step keeps it known. *)
LEMMA TreeStart ==
  ASSUME ParserInit
  PROVE  /\ Known(text, nodes)
         /\ Copied(nodes)[Root][0] = 0 /\ Held(nodes)[Root] = <<>>
<1> DEFINE zero == [tabs \in Nat |-> 0]
           none == <<>>
           g == [m \in DOMAIN nodes |-> zero]
           h == [m \in DOMAIN nodes |-> none]
<1>1. nodes \in Seq(Node)
  BY TypeStart DEF ParserTypeOK
<1>2. DOMAIN nodes = {1} /\ nodes[1].kids = <<>>
  <2> DEFINE root == [EmptyBlock EXCEPT !.block = TRUE]
  <2>1. root.kids = <<>>
    BY DEF EmptyBlock
  <2>2. nodes = <<root>>
    BY DEF ParserInit
  <2> HIDE DEF root
  <2> QED
    BY <2>1, <2>2
<1>3. Grown(nodes)
  BY <1>2 DEF Grown
<1>4. zero \in [Nat -> Nat] /\ none \in Seq(TokenSet(text)) /\ \A tabs \in Nat : zero[tabs] = 0
  OBVIOUS
<1> HIDE DEF zero, none
<1>5. \A m \in DOMAIN nodes : g[m] = zero /\ h[m] = none /\ nodes[m].kids = <<>>
  BY <1>2
<1>6. g \in [DOMAIN nodes -> [Nat -> Nat]] /\ h \in [DOMAIN nodes -> Seq(TokenSet(text))]
  BY <1>4, Zenon
<1> HIDE DEF g, h
<1>7. ASSUME NEW layout \in Layouts
      PROVE  g \in SizeFunctions(text, nodes, layout)
  <2>1. ASSUME NEW m \in DOMAIN nodes, NEW tabs \in Nat
        PROVE  g[m][tabs] = Total(KidSizes(text, nodes, layout, g, m, tabs))
    <3>1. Total(KidSizes(text, nodes, layout, g, m, tabs)) = 0
      BY <1>5, NoneSize
    <3> QED
      BY <1>4, <1>5, <3>1
  <2> QED
    BY <1>6, <2>1, Zenon DEF SizeFunctions
<1>8. h \in TokenFunctions(text, nodes)
  <2>1. ASSUME NEW m \in DOMAIN nodes
        PROVE  h[m] = Joined(TokenRow(text, nodes, h, m))
    <3>1. TokenRow(text, nodes, h, m) \in [1..0 -> Seq(TokenSet(text))]
      BY <1>5 DEF TokenRow
    <3>2. Joined(TokenRow(text, nodes, h, m)) = <<>>
      BY <3>1, JoinedOfNone
    <3> QED
      BY <1>5, <3>2 DEF none
  <2> QED
    BY <1>6, <2>1, Zenon DEF TokenFunctions
<1>9. \A layout \in Layouts : Sizes(text, nodes, layout) = g
  BY <1>1, <1>3, <1>7, SizesFound
<1>10. TreeTokens(text, nodes) = h
  BY <1>1, <1>3, <1>8, TokensFound
<1>11. Known(text, nodes)
  BY <1>3, <1>7, <1>8, <1>9, <1>10, Zenon DEF Known
<1>12. Copied(nodes) = g
  BY <1>9, CopyLayoutIsLayout DEF Copied
<1>13. Root \in DOMAIN nodes /\ 0 \in Nat
  BY <1>2 DEF Root
<1> QED
  BY <1>4, <1>5, <1>10, <1>11, <1>12, <1>13 DEF Held, none

LEMMA KnownStep ==
  ASSUME ParserTypeOK, TreeGrows, Known(text, nodes), [ParserNext]_vars
  PROVE  Known(text, nodes)'
<1> DEFINE p == SkipWhitespace(str)
<1>1. p \in 1..(Len(text) + 1)
  BY SkipFacts
<1> HIDE DEF p
<1>2. ASSUME text' = text, nodes' = nodes
      PROVE  Known(text, nodes)'
  BY <1>2
<1>3. ASSUME NEW s, ReturnsTo(s)
      PROVE  Known(text, nodes)'
  <2>1. CASE IsRoot
    BY <1>2, <1>3, <2>1, ReturnCases
  <2>2. CASE ~IsRoot
    <3>1. text' = text /\ nodes' = Linked(ClosedNodes, Outer, Current.node)
      BY <1>3, <2>2, ReturnCases
    <3>2. Known(text, Linked(ClosedNodes, Outer, Current.node))
      BY <2>2, CloseEffect
    <3> QED
      BY <3>1, <3>2
  <2> QED
    BY <2>1, <2>2
<1>4. CASE TextEnds \/ BlockEnds(p) \/ TextEndsInBlanks(p) \/ DropKey(p)
  BY <1>3, <1>4 DEF TextEnds, BlockEnds, TextEndsInBlanks, DropKey
<1>5. CASE ReadValue(p)
  <2>1. StringAt(p) \in Nat
    <3>1. StringAt(p) \in 0..Len(text)
      BY <1>1, <1>5, BehindFacts DEF ReadValue
    <3> QED
      BY <3>1
  <2>2. /\ text' = text
        /\ nodes' = Linked(Append(nodes, [key |-> key, value |-> StringAt(p), block |-> FALSE,
                                          kids |-> <<>>]),
                           Current.node, Len(nodes) + 1)
    BY <1>5 DEF ReadValue
  <2>3. Known(text, nodes')
    BY <2>1, <2>2, PairEffect
  <2> QED
    BY <2>2, <2>3
<1>6. CASE OpenBlock(p)
  <2>1. text' = text /\ nodes' = Append(nodes, EmptyBlock)
    BY <1>6 DEF OpenBlock
  <2>2. Known(text, nodes')
    BY <2>1, OpenEffect
  <2> QED
    BY <2>1, <2>2
<1>7. CASE ReadKey(p) \/ (\E error : Fails(error)) \/ BuildData \/ UNCHANGED vars
  BY <1>2, <1>7 DEF ReadKey, Fails, BuildData, vars
<1> QED
  BY <1>4, <1>5, <1>6, <1>7 DEF ParserNext, KeyStep, ValueStep, Ended, p
-------------------------------------------------------------------------------
(* The size of the buffer. *)
Rest(c, k) == IF c = "value" THEN SizeOf(k) ELSE 0

LEMMA CountNow ==
  ASSUME ParserTypeOK, Known(text, nodes), BufferCounted, Parsing
  PROVE  /\ bufferSize = Total(SizeRow(nodes, frames)) + Rest(pc, key)
         /\ Total(SizeRow(nodes, frames)) \in Nat /\ SizeOf(key) \in Nat
         /\ written <= bufferSize /\ written \in Nat
<1>1. Total(SizeRow(nodes, frames)) \in Nat
  <2>1. SizeRow(nodes, frames) \in [1..Len(frames) -> Nat] /\ Len(frames) \in Nat
    BY CurrentRows, FrameFacts
  <2> QED
    BY <2>1, TotalIsNatural
<1>2. SizeOf(key) \in Nat
  BY LengthIsNatural DEF SizeOf
<1>3. Total([f \in DOMAIN frames |-> OpenSize(f)]) = Total(SizeRow(nodes, frames))
  BY RowsOfTheCalls
<1> QED
  BY <1>1, <1>2, <1>3 DEF BufferCounted, Rest, ParserTypeOK

LEMMA CountPrimed ==
  ASSUME text' = text, written' <= bufferSize', pc' \in {"key", "value"},
         bufferSize' = Total(SizeRow(nodes', frames')) + Rest(pc', key')
  PROVE  BufferCounted'
<1>1. Total([f \in DOMAIN frames |-> OpenSize(f)])' = Total(SizeRow(nodes', frames'))
  BY RowsPrimed
<1>2. SizeOf(key)' = SizeOf(key')
  BY DEF SizeOf
<1> QED
  BY <1>1, <1>2 DEF BufferCounted, Rest

LEMMA CountStart ==
  ASSUME ParserInit
  PROVE  BufferCounted
<1>1. ParserTypeOK /\ TreeGrows /\ Known(text, nodes) /\ Copied(nodes)[Root][0] = 0
  BY TypeStart, GrowsStart, TreeStart
<1>2. IsRoot /\ pc = "key" /\ bufferSize = 0 /\ written = 0
  BY DEF ParserInit, IsRoot
<1>3. Total([f \in DOMAIN frames |-> OpenSize(f)]) = 0
  BY <1>1, <1>2, RootRows, RowsOfTheCalls
<1> QED
  BY <1>2, <1>3 DEF BufferCounted

LEMMA CountOfReturn ==
  ASSUME ParserTypeOK, TreeGrows, Known(text, nodes), BufferCounted, Parsing,
         NEW s, ReturnsTo(s), pc = "key" \/ IsRoot
  PROVE  BufferCounted'
<1>1. /\ bufferSize = Total(SizeRow(nodes, frames)) + Rest(pc, key)
      /\ Total(SizeRow(nodes, frames)) \in Nat /\ SizeOf(key) \in Nat
      /\ written <= bufferSize /\ written \in Nat
  BY CountNow
<1>2. text' = text /\ bufferSize' = bufferSize /\ written' = written
  BY ReturnCases
<1>3. CASE IsRoot
  <2>1. pc' = "build" /\ nodes' = nodes
    BY <1>3, ReturnCases
  <2>2. Total(SizeRow(nodes, frames)) = BytesBelow(Root)
    BY <1>3, RootRows DEF Copied, BytesBelow
  <2>3. Total(SizeRow(nodes, frames)) <= bufferSize
    BY <1>1 DEF Rest
  <2>4. BytesBelow(Root)' = BytesBelow(Root)
    BY <1>2, <2>1 DEF BytesBelow
  <2> QED
    BY <1>1, <1>2, <2>1, <2>2, <2>3, <2>4 DEF BufferCounted, Parsing
<1>4. CASE ~IsRoot
  <2>1. /\ pc' = "key" /\ frames' = Front(frames)
        /\ nodes' = Linked(ClosedNodes, Outer, Current.node)
    BY <1>4, ReturnCases
  <2>2. Total(SizeRow(nodes', frames')) = Total(SizeRow(nodes, frames))
    BY <1>4, <2>1, CloseRows
  <2>3. bufferSize = Total(SizeRow(nodes, frames)) /\ Rest(pc', key') = 0
    BY <1>1, <1>4, <2>1 DEF Rest
  <2>4. bufferSize' = Total(SizeRow(nodes', frames')) + Rest(pc', key')
    BY <1>1, <1>2, <2>2, <2>3
  <2> QED
    BY <1>1, <1>2, <2>1, <2>4, CountPrimed
<1> QED
  BY <1>3, <1>4

LEMMA CountKept ==
  ASSUME ParserTypeOK, TreeGrows, Known(text, nodes), BufferCounted, [ParserNext]_vars
  PROVE  BufferCounted'
<1> DEFINE p == SkipWhitespace(str)
<1>1. p \in 1..(Len(text) + 1)
  BY SkipFacts
<1> HIDE DEF p
<1>2. CASE TextEnds \/ (pc = "key" /\ (BlockEnds(p) \/ TextEndsInBlanks(p)))
           \/ (pc = "value" /\ DropKey(p))
  BY <1>2, CountOfReturn DEF TextEnds, BlockEnds, TextEndsInBlanks, DropKey, Parsing
<1>3. CASE pc = "key" /\ ReadKey(p)
  <2>1. /\ key' = StringAt(p) /\ bufferSize' = bufferSize + SizeOf(key') /\ pc' = "value"
        /\ UNCHANGED <<text, frames, nodes, written>>
    BY <1>3 DEF ReadKey, SizeOf
  <2>2. /\ bufferSize = Total(SizeRow(nodes, frames)) + 0
        /\ Total(SizeRow(nodes, frames)) \in Nat /\ written <= bufferSize /\ written \in Nat
    BY <1>3, CountNow DEF Parsing, Rest
  <2>3. SizeOf(key') \in Nat
    BY LengthIsNatural DEF SizeOf
  <2>4. bufferSize' = Total(SizeRow(nodes', frames')) + Rest(pc', key')
    BY <2>1, <2>2, <2>3 DEF Rest
  <2>5. written' <= bufferSize'
    BY <2>1, <2>2, <2>3
  <2> QED
    BY <2>1, <2>4, <2>5, CountPrimed
<1>4. CASE pc = "value" /\ ReadValue(p)
  <2> DEFINE v == StringAt(p)
  <2>1. v \in Nat /\ SizeOf(v) \in Nat
    <3>1. v \in 0..Len(text)
      BY <1>1, <1>4, BehindFacts DEF ReadValue
    <3> QED
      BY <3>1, LengthIsNatural DEF SizeOf
  <2>2. /\ bufferSize' = bufferSize + SizeOf(v) /\ pc' = "key"
        /\ UNCHANGED <<text, frames, written>>
        /\ nodes' = Linked(Append(nodes, [key |-> key, value |-> v, block |-> FALSE,
                                          kids |-> <<>>]),
                           Current.node, Len(nodes) + 1)
    BY <1>4 DEF ReadValue
  <2> HIDE DEF v
  <2>3. /\ bufferSize = Total(SizeRow(nodes, frames)) + SizeOf(key)
        /\ Total(SizeRow(nodes, frames)) \in Nat /\ written <= bufferSize /\ written \in Nat
        /\ SizeOf(key) \in Nat
    BY <1>4, CountNow DEF Parsing, Rest
  <2>4. Total(SizeRow(nodes', frames)) = Total(SizeRow(nodes, frames)) + (SizeOf(key) + SizeOf(v))
    BY <2>1, <2>2, PairRows
  <2>5. bufferSize' = Total(SizeRow(nodes', frames')) + Rest(pc', key')
    BY <2>1, <2>2, <2>3, <2>4 DEF Rest
  <2>6. written' <= bufferSize'
    BY <2>1, <2>2, <2>3
  <2> QED
    BY <2>2, <2>5, <2>6, CountPrimed
<1>5. CASE pc = "value" /\ OpenBlock(p)
  <2>1. /\ nodes' = Append(nodes, EmptyBlock) /\ pc' = "key"
        /\ frames' = Append(frames, [node |-> Len(nodes) + 1, key |-> key])
        /\ UNCHANGED <<text, bufferSize, written>>
    BY <1>5 DEF OpenBlock
  <2>2. /\ bufferSize = Total(SizeRow(nodes, frames)) + SizeOf(key)
        /\ Total(SizeRow(nodes, frames)) \in Nat /\ written <= bufferSize /\ written \in Nat
        /\ SizeOf(key) \in Nat
    BY <1>5, CountNow DEF Parsing, Rest
  <2>3. Total(SizeRow(nodes', frames')) = Total(SizeRow(nodes, frames)) + SizeOf(key)
    BY <2>1, OpenRows
  <2>4. bufferSize' = Total(SizeRow(nodes', frames')) + Rest(pc', key')
    BY <2>1, <2>2, <2>3 DEF Rest
  <2> QED
    BY <2>1, <2>2, <2>4, CountPrimed
<1>6. CASE \E error : Fails(error)
  BY <1>6 DEF Fails, BufferCounted, Parsing
<1>7. CASE BuildData
  <2>1. /\ pc = "build" /\ pc' = "answered" /\ bufferSize' = bufferSize
        /\ written' = IF bufferSize > 0 THEN BytesBelow(Root) ELSE 0
    BY <1>7 DEF BuildData
  <2>2. bufferSize \in Nat /\ BytesBelow(Root) <= bufferSize
    BY <2>1 DEF BufferCounted, ParserTypeOK
  <2>3. written' <= bufferSize'
    BY <2>1, <2>2
  <2> QED
    BY <2>1, <2>3 DEF BufferCounted, Parsing
<1>8. CASE UNCHANGED vars
  <2>1. /\ text' = text /\ pc' = pc /\ frames' = frames /\ key' = key /\ nodes' = nodes
        /\ bufferSize' = bufferSize /\ written' = written
    BY <1>8 DEF vars
  <2>2. CASE Parsing
    <3>1. bufferSize = Total(SizeRow(nodes, frames)) + Rest(pc, key) /\ written <= bufferSize
      BY <2>2, CountNow
    <3> QED
      BY <2>1, <2>2, <3>1, CountPrimed DEF Parsing
  <2>3. CASE ~Parsing
    BY <2>1, <2>3 DEF BufferCounted, Parsing, BytesBelow
  <2> QED
    BY <2>2, <2>3
<1> QED
  BY <1>2, <1>3, <1>4, <1>5, <1>6, <1>7, <1>8 DEF ParserNext, KeyStep, ValueStep, Ended, p
-------------------------------------------------------------------------------
(* The tokens of the tree and of the text. *)
RestTokens(c, k) == IF c = "value" THEN <<StringToken(text, k)>> ELSE <<>>

LEMMA HeldNow ==
  ASSUME ParserTypeOK, Known(text, nodes), TokensKept, WellFormed(text), Parsing
  PROVE  /\ Cat(Joined(HeldRow(nodes, frames)), RestTokens(pc, key)) = TokensUpTo(text, str - 1)
         /\ Joined(HeldRow(nodes, frames)) \in Seq(TokenSet(text))
         /\ pc = "key" => Joined(HeldRow(nodes, frames)) = TokensUpTo(text, str - 1)
<1>1. Joined(HeldRow(nodes, frames)) \in Seq(TokenSet(text))
  <2>1. HeldRow(nodes, frames) \in [1..Len(frames) -> Seq(TokenSet(text))] /\ Len(frames) \in Nat
    BY CurrentRows, FrameFacts
  <2> QED
    BY <2>1, JoinedIsSequence
<1>2. Cat(Joined(HeldRow(nodes, frames)), RestTokens(pc, key)) = TokensUpTo(text, str - 1)
  <2>1. Joined([f \in DOMAIN frames |-> OpenTokens(f)]) = Joined(HeldRow(nodes, frames))
    BY RowsOfTheCalls
  <2> QED
    BY <2>1, Zenon DEF TokensKept, RestTokens, Cat
<1>3. pc = "key" => Joined(HeldRow(nodes, frames)) = TokensUpTo(text, str - 1)
  <2>1. pc = "key" => RestTokens(pc, key) = <<>>
    BY DEF RestTokens
  <2> QED
    BY <1>1, <1>2, <2>1, CatNone
<1> QED
  BY <1>1, <1>2, <1>3

LEMMA HeldPrimed ==
  ASSUME text' = text, pc' \in {"key", "value"},
         WellFormed(text) =>
           Cat(Joined(HeldRow(nodes', frames')), RestTokens(pc', key'))
             = TokensUpTo(text, str' - 1)
  PROVE  TokensKept'
<1>1. Joined([f \in DOMAIN frames |-> OpenTokens(f)])' = Joined(HeldRow(nodes', frames'))
  BY RowsPrimed
<1>2. pc' # "build" /\ pc' # "answered" /\ (pc' = "value" \/ pc' # "value")
  OBVIOUS
<1>3. WellFormed(text) =>
        Joined([f \in DOMAIN frames |-> OpenTokens(f)])'
          \o (IF pc' = "value" THEN <<StringToken(text, key')>> ELSE <<>>)
        = TokensUpTo(text, str' - 1)
  BY <1>1, Zenon DEF RestTokens, Cat
<1>4. WellFormed(text)' <=> WellFormed(text)
  OBVIOUS
<1> QED
  BY <1>2, <1>3, <1>4, Zenon DEF TokensKept, Accepted

LEMMA CatOfTwo ==
  ASSUME NEW a, NEW b
  PROVE  Cat(<<a>>, <<b>>) = <<a, b>>
<1> DEFINE X == {a, b}
           s == <<a>>
           t == <<b>>
           u == <<a, b>>
<1>1. s \in Seq(X) /\ Len(s) = 1 /\ s[1] = a /\ t \in Seq(X) /\ Len(t) = 1 /\ t[1] = b
  OBVIOUS
<1>2. u \in Seq(X) /\ Len(u) = 2 /\ u[1] = a /\ u[2] = b
  OBVIOUS
<1> HIDE DEF s, t, u, X
<1>3. s \o t \in Seq(X) /\ Len(s \o t) = 2 /\ (s \o t)[1] = a /\ (s \o t)[2] = b
  <2>1. s \o t \in Seq(X) /\ Len(s \o t) = 2
    <3>1. s \in Seq(X) /\ t \in Seq(X)
      BY <1>1
    <3>2. s \o t \in Seq(X) /\ Len(s \o t) = Len(s) + Len(t)
      BY <3>1, ConcatProperties, Zenon
    <3> QED
      BY <1>1, <3>2
  <2>2. \A i \in 1..(Len(s) + Len(t)) :
          (s \o t)[i] = IF i <= Len(s) THEN s[i] ELSE t[i - Len(s)]
    BY <1>1, ConcatProperties
  <2>3. 1 \in 1..(1 + 1) /\ 2 \in 1..(1 + 1) /\ 1 <= 1 /\ ~(2 <= 1) /\ 2 - 1 = 1
    OBVIOUS
  <2>4. (s \o t)[1] = s[1] /\ (s \o t)[2] = t[1]
    BY <1>1, <2>2, <2>3
  <2> QED
    BY <1>1, <2>1, <2>4
<1>4. \A i \in 1..Len(u) : u[i] = (s \o t)[i]
  BY <1>2, <1>3
<1>5. u = s \o t
  BY <1>2, <1>3, <1>4, SeqEqual
<1> QED
  BY <1>5 DEF Cat, s, t, u

LEMMA FrontOfOneMore ==
  ASSUME NEW X, NEW s \in Seq(X), NEW x \in X
  PROVE  Front(Cat(s, <<x>>)) = s
<1> DEFINE t == Append(s, x)
<1>1. Cat(s, <<x>>) = t
  BY DEF Cat
<1>2. t \in Seq(X) /\ Len(t) = Len(s) + 1 /\ Len(s) \in Nat /\ Len(t) - 1 = Len(s)
      /\ \A i \in 1..Len(s) : t[i] = s[i]
  OBVIOUS
<1> HIDE DEF t
<1>3. Front(t) = SubSeq(t, 1, Len(s))
  BY <1>2 DEF Front
<1>4. SubSeq(t, 1, Len(s)) = s
  BY <1>2
<1> QED
  BY <1>1, <1>3, <1>4

LEMMA HeldStart ==
  ASSUME ParserInit
  PROVE  TokensKept
<1>1. ParserTypeOK /\ TreeGrows /\ Known(text, nodes) /\ Held(nodes)[Root] = <<>>
  BY TypeStart, GrowsStart, TreeStart
<1>2. IsRoot /\ pc = "key" /\ str - 1 = 0
  BY DEF ParserInit, IsRoot
<1>3. Joined([f \in DOMAIN frames |-> OpenTokens(f)]) = <<>>
  BY <1>1, <1>2, RootRows, RowsOfTheCalls
<1>4. TokensUpTo(text, str - 1) = <<>>
  <2>1. 0 \in Nat
    OBVIOUS
  <2> QED
    BY <1>2, <2>1, TokensStep
<1>5. <<>> \o <<>> = <<>>
  OBVIOUS
<1> QED
  BY <1>2, <1>3, <1>4, <1>5 DEF TokensKept, Accepted, Parsing

(* The token at the place where the parser reads. *)
LEMMA TokenRead ==
  ASSUME ParserTypeOK, PlaceKnown, Parsing, NEW p, p = SkipWhitespace(str), ~AtEnd(p)
  PROVE  /\ TokensUpTo(text, p) = Cat(TokensUpTo(text, str - 1), TokenAt(text, p))
         /\ WellFormed(text) => Char(p) # "slash"
<1>1. p - 1 \in Nat /\ p - 1 + 1 = p /\ p \in 1..Len(text) /\ p \in DOMAIN text /\ Char(p) = text[p]
  BY PlaceNow, TextFacts
<1>2. TokensUpTo(text, p - 1 + 1) = Cat(TokensUpTo(text, p - 1), TokenAt(text, p - 1 + 1))
  BY <1>1, TokensStep
<1>3. TokensUpTo(text, p - 1) = TokensUpTo(text, str - 1)
  BY SkipPlace
<1>4. WellFormed(text) => text[p] # "slash"
  BY <1>1 DEF WellFormed, InPlace
<1> QED
  BY <1>1, <1>2, <1>3, <1>4

LEMMA StringRead ==
  ASSUME ParserTypeOK, PlaceKnown, Parsing, NEW p, p = SkipWhitespace(str), IsString(p),
         WellFormed(text)
  PROVE  /\ Behind(p) - 1 = p /\ StringAt(p) = p /\ p \in Nat
         /\ TokensUpTo(text, p) = Cat(TokensUpTo(text, str - 1), <<StringToken(text, p)>>)
<1>1. Char(p) \in {"word", "quoted", "slash"}
  BY DEF IsString
<1>2. ~AtEnd(p)
  BY <1>1 DEF Char
<1>3. Char(p) # "slash" /\ Char(p) = text[p]
  BY <1>2, TokenRead, PlaceNow
<1>4. TokenAt(text, p) = <<StringToken(text, p)>>
  BY <1>1, <1>3 DEF TokenAt
<1>5. p \in Nat
  BY SkipFacts
<1>6. Behind(p) = p + 1 /\ StringAt(p) = p
  BY <1>3 DEF Behind, StringAt
<1> QED
  BY <1>2, <1>4, <1>5, <1>6, TokenRead

LEMMA HeldOfReturn ==
  ASSUME ParserTypeOK, TreeGrows, PlaceKnown, Known(text, nodes), TokensKept, Parsing,
         NEW s, ReturnsTo(s), AtEnd(s), IsRoot, s \in {str, SkipWhitespace(str)}
  PROVE  TokensKept'
<1>1. text' = text /\ pc' = "build" /\ nodes' = nodes
  BY ReturnCases
<1> DEFINE all == TokensUpTo(text, Len(text))
           tree == TreeTokens(text, nodes)[Root]
<1>2. SUFFICES ASSUME WellFormed(text)
               PROVE  \/ tree = all
                      \/ StringsSinceBrace(text, Len(text) + 1) % 2 = 1 /\ tree = Front(all)
  BY <1>1 DEF TokensKept, Parsing, Accepted
<1> HIDE DEF all, tree
<1>3. /\ Len(text) \in Nat /\ str \in 1..(Len(text) + 1) /\ AtEnd(SkipWhitespace(str))
  BY SkipFacts, TextFacts DEF ParserTypeOK
<1>4. TokensUpTo(text, str - 1) = all
  <2> DEFINE p == SkipWhitespace(str)
  <2>1. p - 1 = Len(text)
    BY <1>3, SkipFacts
  <2>2. TokensUpTo(text, p - 1) = TokensUpTo(text, str - 1)
    BY SkipPlace
  <2> QED
    BY <2>1, <2>2 DEF all
<1>5. Joined(HeldRow(nodes, frames)) = tree
  BY RootRows DEF Held, tree
<1>6. Cat(tree, RestTokens(pc, key)) = all /\ tree \in Seq(TokenSet(text))
      /\ (pc = "key" => tree = all)
  BY <1>2, <1>4, <1>5, HeldNow
<1>7. CASE pc = "key"
  BY <1>6, <1>7
<1>8. CASE pc = "value"
  <2>1. RestTokens(pc, key) = <<StringToken(text, key)>>
    BY <1>8 DEF RestTokens
  <2>2. StringToken(text, key) \in TokenSet(text)
    <3>1. key \in Nat
      BY <1>3 DEF ParserTypeOK
    <3> QED
      BY <3>1, TokensAreInTheSet
  <2>3. Front(Cat(tree, <<StringToken(text, key)>>)) = tree
    BY <1>6, <2>2, FrontOfOneMore
  <2>4. StringsSinceBrace(text, Len(text) + 1) % 2 = 1
    <3> DEFINE p == SkipWhitespace(str)
    <3>1. p = Len(text) + 1 /\ Char(p) = "end"
      BY <1>3, SkipFacts
    <3>2. Char(p) = "slash" \/ StringsSinceBrace(text, p) % 2 = 1
      BY <1>8, SkipPlace DEF Parity
    <3> QED
      BY <3>1, <3>2
  <2> QED
    BY <1>6, <2>1, <2>3, <2>4
<1> QED
  BY <1>7, <1>8 DEF Parsing

LEMMA HeldKept ==
  ASSUME ParserTypeOK, TreeGrows, PlaceKnown, Known(text, nodes), TokensKept, [ParserNext]_vars
  PROVE  TokensKept'
<1> DEFINE p == SkipWhitespace(str)
           J == Joined(HeldRow(nodes, frames))
<1>1. p \in 1..(Len(text) + 1) /\ p \in Nat
  BY SkipFacts
<1> HIDE DEF p, J
<1>2. CASE TextEnds
  <2>1. Parsing /\ AtEnd(str) /\ ReturnsTo(str)
    BY <1>2 DEF TextEnds, Parsing
  <2>2. CASE IsRoot
    BY <2>1, <2>2, HeldOfReturn
  <2>3. CASE ~IsRoot
    <3>1. ~WellFormed(text)
      <4>1. /\ Len(text) \in Nat /\ str - 1 = Len(text) /\ Len(frames) \in Nat \ {0}
            /\ Len(frames) # 1
        BY <2>1, <2>3, TextFacts, FrameFacts DEF AtEnd, ParserTypeOK, IsRoot
      <4>2. Len(frames) - 1 <= Depth(text, Len(text))
        <5>1. Len(frames) - 1 <= Depth(text, str - 1)
          BY <2>1 DEF PlaceKnown
        <5> QED
          BY <4>1, <5>1
      <4>3. Depth(text, Len(text)) # 0
        <5> HIDE DEF Depth
        <5>1. \A n \in Nat \ {0} : n # 1 => ~(n - 1 <= 0)
          OBVIOUS
        <5> QED
          BY <4>1, <4>2, <5>1
      <4> QED
        BY <4>3 DEF WellFormed
    <3>2. text' = text /\ pc' = "key"
      BY <2>1, <2>3, ReturnCases
    <3> QED
      BY <3>1, <3>2, HeldPrimed
  <2> QED
    BY <2>2, <2>3
<1>3. CASE pc = "key" /\ BlockEnds(p)
  <2>1. /\ Parsing /\ Char(p) = "close" /\ ~IsRoot /\ ~AtEnd(p)
    BY <1>3 DEF BlockEnds, Parsing, Char
  <2>2. /\ text' = text /\ str' = p + 1 /\ pc' = "key" /\ frames' = Front(frames)
        /\ nodes' = Linked(ClosedNodes, Outer, Current.node)
    BY <1>3, <2>1, ReturnCases DEF BlockEnds
  <2>3. Joined(HeldRow(nodes', frames')) = Cat(J, <<BraceToken("close")>>)
    BY <2>1, <2>2, CloseRows DEF J
  <2>4. ASSUME WellFormed(text)
        PROVE  J = TokensUpTo(text, str - 1) /\ J \in Seq(TokenSet(text))
    BY <1>3, <2>1, <2>4, HeldNow DEF J
  <2>5. TokensUpTo(text, p) = Cat(TokensUpTo(text, str - 1), <<BraceToken("close")>>)
    <3>1. text[p] = "close"
      BY <2>1 DEF Char
    <3>2. TokenAt(text, p) = <<BraceToken("close")>>
      BY <3>1 DEF TokenAt
    <3> QED
      BY <2>1, <3>2, TokenRead DEF p
  <2>6. RestTokens(pc', key') = <<>> /\ str' - 1 = p
    BY <1>1, <2>2 DEF RestTokens
  <2>7. ASSUME WellFormed(text)
        PROVE  Cat(Joined(HeldRow(nodes', frames')), RestTokens(pc', key'))
                 = TokensUpTo(text, str' - 1)
    <3>1. <<BraceToken("close")>> \in Seq(TokenSet(text))
      BY TokensAreInTheSet, Singleton, Zenon
    <3>2. Cat(J, <<BraceToken("close")>>) \in Seq(TokenSet(text))
      BY <2>4, <2>7, <3>1, JoinTypes
    <3> QED
      BY <2>3, <2>4, <2>5, <2>6, <2>7, <3>2, CatNone
  <2> QED
    BY <2>2, <2>7, HeldPrimed
<1>4. CASE pc = "key" /\ TextEndsInBlanks(p)
  BY <1>4, HeldOfReturn DEF TextEndsInBlanks, KeyError, NoError, Char, Parsing, p
<1>5. CASE pc = "value" /\ DropKey(p)
  BY <1>5, HeldOfReturn DEF DropKey, Parsing, p
<1>6. CASE pc = "key" /\ ReadKey(p)
  <2>1. /\ IsString(p) /\ key' = StringAt(p) /\ str' = Behind(p) /\ pc' = "value"
        /\ UNCHANGED <<text, frames, nodes>> /\ Parsing
    BY <1>6 DEF ReadKey, Parsing
  <2>2. ASSUME WellFormed(text)
        PROVE  Cat(Joined(HeldRow(nodes', frames')), RestTokens(pc', key'))
                 = TokensUpTo(text, str' - 1)
    <3>1. J = TokensUpTo(text, str - 1)
      BY <1>6, <2>1, <2>2, HeldNow DEF J
    <3>2. /\ str' - 1 = p /\ key' = p
          /\ TokensUpTo(text, p) = Cat(TokensUpTo(text, str - 1), <<StringToken(text, p)>>)
      BY <2>1, <2>2, StringRead DEF p
    <3>3. RestTokens(pc', key') = <<StringToken(text, p)>>
      BY <2>1, <3>2 DEF RestTokens
    <3>4. Joined(HeldRow(nodes', frames')) = J
      BY <2>1 DEF J
    <3> QED
      BY <3>1, <3>2, <3>3, <3>4
  <2> QED
    BY <2>1, <2>2, HeldPrimed
<1>7. CASE pc = "value" /\ ReadValue(p)
  <2> DEFINE v == StringAt(p)
             k == <<StringToken(text, key)>>
  <2>1. /\ IsString(p) /\ str' = Behind(p) /\ pc' = "key" /\ UNCHANGED <<text, frames>> /\ Parsing
        /\ nodes' = Linked(Append(nodes, [key |-> key, value |-> v, block |-> FALSE,
                                          kids |-> <<>>]),
                           Current.node, Len(nodes) + 1)
    BY <1>7 DEF ReadValue, Parsing
  <2>2. ASSUME WellFormed(text)
        PROVE  Cat(Joined(HeldRow(nodes', frames')), RestTokens(pc', key'))
                 = TokensUpTo(text, str' - 1)
    <3>1. /\ Cat(J, k) = TokensUpTo(text, str - 1) /\ J \in Seq(TokenSet(text))
      BY <1>7, <2>1, <2>2, HeldNow DEF J, RestTokens
    <3>2. /\ str' - 1 = p /\ v = p /\ p \in Nat
          /\ TokensUpTo(text, p) = Cat(TokensUpTo(text, str - 1), <<StringToken(text, p)>>)
      BY <2>1, <2>2, StringRead DEF p
    <3>3. Joined(HeldRow(nodes', frames'))
            = Cat(J, <<StringToken(text, key), StringToken(text, p)>>)
      <4>1. nodes' = Linked(Append(nodes, [key |-> key, value |-> p, block |-> FALSE,
                                           kids |-> <<>>]),
                            Current.node, Len(nodes) + 1)
        BY <2>1, <3>2
      <4>2. Joined(HeldRow(nodes', frames))
              = Cat(J, <<StringToken(text, key), StringToken(text, p)>>)
        BY <3>2, <4>1, PairRows DEF J
      <4> QED
        BY <2>1, <4>2
    <3>4. key \in Nat
      BY TextFacts DEF ParserTypeOK
    <3>5. /\ k \in Seq(TokenSet(text)) /\ <<StringToken(text, p)>> \in Seq(TokenSet(text))
          /\ <<StringToken(text, key), StringToken(text, p)>> \in Seq(TokenSet(text))
      BY <3>2, <3>4, TokensAreInTheSet, Singleton, Pair, Zenon
    <3>6. Cat(k, <<StringToken(text, p)>>) = <<StringToken(text, key), StringToken(text, p)>>
      BY CatOfTwo
    <3>7. Cat(Cat(J, k), <<StringToken(text, p)>>)
            = Cat(J, <<StringToken(text, key), StringToken(text, p)>>)
      <4> HIDE DEF k
      <4> QED
        BY <3>1, <3>5, <3>6, CatAssociates
    <3>8. Cat(J, <<StringToken(text, key), StringToken(text, p)>>) \in Seq(TokenSet(text))
      BY <3>1, <3>5, JoinTypes
    <3>9. RestTokens(pc', key') = <<>>
      BY <2>1 DEF RestTokens
    <3> HIDE DEF k, v
    <3> QED
      BY <3>1, <3>2, <3>3, <3>7, <3>8, <3>9, CatNone
  <2> QED
    BY <2>1, <2>2, HeldPrimed
<1>8. CASE pc = "value" /\ OpenBlock(p)
  <2> DEFINE k == <<StringToken(text, key)>>
             o == <<BraceToken("open")>>
  <2>1. /\ Char(p) = "open" /\ str' = p + 1 /\ pc' = "key" /\ text' = text /\ Parsing
        /\ nodes' = Append(nodes, EmptyBlock) /\ ~AtEnd(p)
        /\ frames' = Append(frames, [node |-> Len(nodes) + 1, key |-> key])
    BY <1>8 DEF OpenBlock, Parsing, Char
  <2>2. ASSUME WellFormed(text)
        PROVE  Cat(Joined(HeldRow(nodes', frames')), RestTokens(pc', key'))
                 = TokensUpTo(text, str' - 1)
    <3>1. /\ Cat(J, k) = TokensUpTo(text, str - 1) /\ J \in Seq(TokenSet(text))
      BY <1>8, <2>1, <2>2, HeldNow DEF J, RestTokens
    <3>2. TokensUpTo(text, p) = Cat(TokensUpTo(text, str - 1), o)
      <4>1. text[p] = "open"
        BY <2>1 DEF Char
      <4>2. TokenAt(text, p) = o
        BY <4>1 DEF TokenAt
      <4> QED
        BY <2>1, <4>2, TokenRead DEF p
    <3>3. Joined(HeldRow(nodes', frames')) = Cat(J, Opening(text, key))
      BY <2>1, OpenRows DEF J
    <3>4. key \in Nat
      BY TextFacts DEF ParserTypeOK
    <3>5. /\ k \in Seq(TokenSet(text)) /\ o \in Seq(TokenSet(text))
          /\ Opening(text, key) \in Seq(TokenSet(text))
      BY <3>4, TokensAreInTheSet, Singleton, OpeningIsSequence, Zenon
    <3>6. Cat(k, o) = Opening(text, key)
      BY CatOfTwo DEF Opening
    <3> HIDE DEF k, o
    <3>7. Cat(Cat(J, k), o) = Cat(J, Opening(text, key))
      BY <3>1, <3>5, <3>6, CatAssociates
    <3>8. Cat(J, Opening(text, key)) \in Seq(TokenSet(text))
      BY <3>1, <3>5, JoinTypes
    <3>9. RestTokens(pc', key') = <<>> /\ str' - 1 = p
      BY <1>1, <2>1 DEF RestTokens
    <3> QED
      BY <3>1, <3>2, <3>3, <3>7, <3>8, <3>9, CatNone
  <2> QED
    BY <2>1, <2>2, HeldPrimed
<1>9. CASE \E error : Fails(error)
  BY <1>9 DEF Fails, TokensKept, Parsing, Accepted
<1>10. CASE BuildData
  BY <1>10 DEF BuildData, TokensKept, Parsing, Accepted
<1>11. CASE UNCHANGED vars
  <2>1. /\ text' = text /\ pc' = pc /\ frames' = frames /\ key' = key /\ nodes' = nodes
        /\ str' = str /\ code' = code
    BY <1>11 DEF vars
  <2>2. CASE Parsing
    <3>1. WellFormed(text) =>
            Cat(Joined(HeldRow(nodes, frames)), RestTokens(pc, key)) = TokensUpTo(text, str - 1)
      BY <2>2, HeldNow
    <3> QED
      BY <2>1, <2>2, <3>1, HeldPrimed DEF Parsing
  <2>3. CASE ~Parsing
    BY <2>1, <2>3 DEF TokensKept, Parsing, Accepted
  <2> QED
    BY <2>2, <2>3
<1> QED
  BY <1>2, <1>3, <1>4, <1>5, <1>6, <1>7, <1>8, <1>9, <1>10, <1>11
     DEF ParserNext, KeyStep, ValueStep, Ended, p
-------------------------------------------------------------------------------
(* What is printed and what is counted. *)
LEMMA TotalsApart ==
  ASSUME NEW n \in Nat, NEW s \in [1..n -> Nat], NEW t \in [1..n -> Nat],
         \A i \in 1..n : s[i] + 1 <= t[i]
  PROVE  Total(s) + n <= Total(t)
<1>1. PICK f \in Sums(n, s) : Total(s) = f[n]
  BY SumsExist, TotalUnfolds
<1>2. PICK g \in Sums(n, t) : Total(t) = g[n]
  BY SumsExist, TotalUnfolds
<1>3. /\ f \in [0..n -> Nat] /\ f[0] = 0 /\ \A i \in 0..(n - 1) : f[i + 1] = f[i] + s[i + 1]
      /\ g \in [0..n -> Nat] /\ g[0] = 0 /\ \A i \in 0..(n - 1) : g[i + 1] = g[i] + t[i + 1]
  BY DEF Sums
<1> DEFINE S == {k \in 0..n : f[k] + k <= g[k]}
<1>4. 0 \in S
  BY <1>3
<1>5. \A k \in 0..(n - 1) : k \in S => k + 1 \in S
  <2> SUFFICES ASSUME NEW k \in 0..(n - 1), k \in S
               PROVE  k + 1 \in S
    OBVIOUS
  <2>1. /\ k \in 0..n /\ k + 1 \in 0..n /\ k + 1 \in 1..n /\ k \in Nat
        /\ f[k] \in Nat /\ g[k] \in Nat
        /\ s[k + 1] \in Nat /\ t[k + 1] \in Nat
    BY <1>3
  <2>2. f[k] + k <= g[k] /\ s[k + 1] + 1 <= t[k + 1]
    BY <2>1
  <2>3. f[k + 1] = f[k] + s[k + 1] /\ g[k + 1] = g[k] + t[k + 1]
    BY <1>3
  <2>4. f[k + 1] + (k + 1) <= g[k + 1]
    BY <2>1, <2>2, <2>3
  <2> QED
    BY <2>1, <2>4
<1>6. n \in S
  <2> HIDE DEF S
  <2> QED
    BY <1>4, <1>5, UpwardInduction
<1> QED
  BY <1>1, <1>2, <1>6

LEMMA LayoutsApart ==
  /\ PrintLayout \in Layouts /\ CountLayout \in Layouts
  /\ PrintLayout.tab = 4 /\ PrintLayout.key = 3 /\ PrintLayout.value = 3 /\ PrintLayout.brace = 3
  /\ CountLayout.tab = 5 /\ CountLayout.key = 2 /\ CountLayout.value = 4 /\ CountLayout.brace = 3
BY DEF PrintLayout, CountLayout, Layouts, PrintedTab, CountedTab

LEMMA BlocksApart ==
  ASSUME NEW t, NEW kid, NEW tabs \in Nat, NEW ip \in Nat, NEW ic \in Nat, kid.block
  PROVE  KidSize(t, kid, CountLayout, tabs, ic) + (1 + ip)
           = KidSize(t, kid, PrintLayout, tabs, ip) + (3 * tabs + ic)
<1> DEFINE k == LengthOf(t, kid.key)
<1>1. k \in Nat
  BY LengthIsNatural
<1> HIDE DEF k
<1>2. KidSize(t, kid, CountLayout, tabs, ic) = 5 * tabs + 2 + k + (2 * (5 * tabs + 3) + ic)
  BY LayoutsApart DEF KidSize, k
<1>3. KidSize(t, kid, PrintLayout, tabs, ip) = 4 * tabs + 3 + k + (2 * (4 * tabs + 3) + ip)
  BY LayoutsApart DEF KidSize, k
<1> QED
  BY <1>1, <1>2, <1>3

LEMMA PairsApart ==
  ASSUME NEW t, NEW kid, NEW tabs \in Nat, NEW ip \in Nat, NEW ic \in Nat, ~kid.block
  PROVE  KidSize(t, kid, CountLayout, tabs, ic) = KidSize(t, kid, PrintLayout, tabs, ip) + tabs
<1> DEFINE k == LengthOf(t, kid.key)
           v == LengthOf(t, kid.value)
<1>1. k \in Nat /\ v \in Nat
  BY LengthIsNatural
<1> HIDE DEF k, v
<1>2. KidSize(t, kid, CountLayout, tabs, ic) = 5 * tabs + 2 + k + (4 + v)
  BY LayoutsApart DEF KidSize, k, v
<1>3. KidSize(t, kid, PrintLayout, tabs, ip) = 4 * tabs + 3 + k + (3 + v)
  BY LayoutsApart DEF KidSize, k, v
<1> QED
  BY <1>1, <1>2, <1>3

(* Below the root, the tabs that are counted too many make up for the spaces that are
   not counted, with one character left for every child. *)
Apart(t, ns, m, tabs) ==
  Sizes(t, ns, PrintLayout)[m][tabs] + Len(ns[m].kids) <= Sizes(t, ns, CountLayout)[m][tabs]

PrintFacts(t, ns, m, tabs) ==
  LET P == Sizes(t, ns, PrintLayout)
      C == Sizes(t, ns, CountLayout)
      p == KidSizes(t, ns, PrintLayout, P, m, tabs)
      c == KidSizes(t, ns, CountLayout, C, m, tabs)
  IN  /\ p \in [1..Len(ns[m].kids) -> Nat] /\ c \in [1..Len(ns[m].kids) -> Nat]
      /\ P[m][tabs] = Total(p) /\ C[m][tabs] = Total(c)
      /\ \A i \in 1..Len(ns[m].kids) :
           LET kid == ns[m].kids[i] IN
           /\ kid \in DOMAIN ns /\ kid \in (m + 1)..Len(ns)
           /\ P[kid][tabs + 1] \in Nat /\ C[kid][tabs + 1] \in Nat
           /\ p[i] = KidSize(t, ns[kid], PrintLayout, tabs, P[kid][tabs + 1])
           /\ c[i] = KidSize(t, ns[kid], CountLayout, tabs, C[kid][tabs + 1])

LEMMA PrintRows ==
  ASSUME NEW t, NEW ns \in Seq(Node), Known(t, ns), NEW m \in DOMAIN ns, NEW tabs \in Nat
  PROVE  PrintFacts(t, ns, m, tabs)
<1> DEFINE P == Sizes(t, ns, PrintLayout)
           C == Sizes(t, ns, CountLayout)
           p == KidSizes(t, ns, PrintLayout, P, m, tabs)
           c == KidSizes(t, ns, CountLayout, C, m, tabs)
           n == Len(ns[m].kids)
<1>1. Grown(ns) /\ PrintLayout \in Layouts /\ CountLayout \in Layouts
  BY LayoutsApart DEF Known
<1>2. P \in SizeFunctions(t, ns, PrintLayout) /\ C \in SizeFunctions(t, ns, CountLayout)
  BY <1>1, Zenon DEF Known
<1> HIDE DEF P, C
<1>3. P \in [DOMAIN ns -> [Nat -> Nat]] /\ C \in [DOMAIN ns -> [Nat -> Nat]]
      /\ P[m][tabs] = Total(p) /\ C[m][tabs] = Total(c)
  BY <1>2, Zenon DEF SizeFunctions
<1>4. p \in [1..n -> Nat] /\ c \in [1..n -> Nat]
  BY <1>1, <1>3, KidSizesType
<1>5. DOMAIN ns[m].kids = 1..n
  BY NodeFields
<1>6. ASSUME NEW i \in 1..n
      PROVE  LET kid == ns[m].kids[i] IN
             /\ kid \in DOMAIN ns /\ kid \in (m + 1)..Len(ns)
             /\ P[kid][tabs + 1] \in Nat /\ C[kid][tabs + 1] \in Nat
             /\ p[i] = KidSize(t, ns[kid], PrintLayout, tabs, P[kid][tabs + 1])
             /\ c[i] = KidSize(t, ns[kid], CountLayout, tabs, C[kid][tabs + 1])
  <2> DEFINE kid == ns[m].kids[i]
  <2>1. kid \in (m + 1)..Len(ns) /\ i \in DOMAIN ns[m].kids
    BY <1>1, <1>5 DEF Grown
  <2>2. kid \in DOMAIN ns
    BY <2>1, NodeFields
  <2>3. tabs + 1 \in Nat
    OBVIOUS
  <2>4. P[kid][tabs + 1] \in Nat /\ C[kid][tabs + 1] \in Nat
    <3>1. P[kid] \in [Nat -> Nat] /\ C[kid] \in [Nat -> Nat]
      BY <1>3, <2>2, Zenon
    <3> QED
      BY <2>3, <3>1, Zenon
  <2>5. /\ p[i] = KidSize(t, ns[kid], PrintLayout, tabs, P[kid][tabs + 1])
        /\ c[i] = KidSize(t, ns[kid], CountLayout, tabs, C[kid][tabs + 1])
    BY <2>1, Zenon DEF KidSizes
  <2> QED
    BY <2>1, <2>2, <2>4, <2>5
<1> QED
  BY <1>3, <1>4, <1>6, Zenon DEF P, C, PrintFacts

LEMMA BelowTheRoot ==
  ASSUME NEW t, NEW ns \in Seq(Node), Known(t, ns)
  PROVE  \A m \in DOMAIN ns : \A tabs \in Nat \ {0} : Apart(t, ns, m, tabs)
<1> DEFINE n == Len(ns)
           S == {m \in 1..(n + 1) : \A k \in m..n : \A tabs \in Nat \ {0} : Apart(t, ns, k, tabs)}
<1>1. n \in Nat /\ DOMAIN ns = 1..n
  OBVIOUS
<1>2. n + 1 \in S
  BY <1>1
<1>3. \A m \in 2..(n + 1) : m \in S => m - 1 \in S
  <2> SUFFICES ASSUME NEW m \in 2..(n + 1), m \in S
               PROVE  m - 1 \in S
    OBVIOUS
  <2> DEFINE q == m - 1
  <2>1. q \in 1..n /\ q \in DOMAIN ns /\ q + 1 = m /\ q \in 1..(n + 1)
    BY <1>1
  <2>2. \A k \in m..n : \A tabs \in Nat \ {0} : Apart(t, ns, k, tabs)
    OBVIOUS
  <2> HIDE DEF q, S, n
  <2>3. ASSUME NEW tabs \in Nat \ {0}
        PROVE  Apart(t, ns, q, tabs)
    <3> DEFINE P == Sizes(t, ns, PrintLayout)
               C == Sizes(t, ns, CountLayout)
               p == KidSizes(t, ns, PrintLayout, P, q, tabs)
               c == KidSizes(t, ns, CountLayout, C, q, tabs)
               l == Len(ns[q].kids)
    <3>1. tabs \in Nat /\ tabs + 1 \in Nat \ {0} /\ tabs >= 1
      OBVIOUS
    <3>2. /\ p \in [1..l -> Nat] /\ c \in [1..l -> Nat]
          /\ P[q][tabs] = Total(p) /\ C[q][tabs] = Total(c)
          /\ \A i \in 1..l :
               LET kid == ns[q].kids[i] IN
               /\ kid \in DOMAIN ns /\ kid \in (q + 1)..Len(ns)
               /\ P[kid][tabs + 1] \in Nat /\ C[kid][tabs + 1] \in Nat
               /\ p[i] = KidSize(t, ns[kid], PrintLayout, tabs, P[kid][tabs + 1])
               /\ c[i] = KidSize(t, ns[kid], CountLayout, tabs, C[kid][tabs + 1])
      <4>1. PrintFacts(t, ns, q, tabs)
        BY <2>1, <3>1, PrintRows
      <4> QED
        BY <4>1, Zenon DEF PrintFacts
    <3>3. l \in Nat
      BY <2>1, NodeFields
    <3> HIDE DEF P, C, p, c, l
    <3>4. ASSUME NEW i \in 1..l
          PROVE  p[i] + 1 <= c[i]
      <4> DEFINE kid == ns[q].kids[i]
                 ip == P[kid][tabs + 1]
                 ic == C[kid][tabs + 1]
      <4>1. /\ kid \in DOMAIN ns /\ kid \in m..n
            /\ ip \in Nat /\ ic \in Nat
            /\ p[i] = KidSize(t, ns[kid], PrintLayout, tabs, ip)
            /\ c[i] = KidSize(t, ns[kid], CountLayout, tabs, ic)
        BY <2>1, <3>2 DEF n
      <4>2. Apart(t, ns, kid, tabs + 1)
        BY <2>2, <3>1, <4>1, Zenon
      <4>3. ip <= ic
        <5>1. ip + Len(ns[kid].kids) <= ic
          BY <4>2 DEF Apart, P, C
        <5>2. Len(ns[kid].kids) \in Nat
          BY <4>1, NodeFields
        <5>3. ip \in Nat /\ ic \in Nat
          BY <4>1
        <5> HIDE DEF ip, ic
        <5> QED
          BY <5>1, <5>2, <5>3
      <4>4. p[i] \in Nat /\ c[i] \in Nat
        BY <3>2
      <4> HIDE DEF kid, ip, ic
      <4>5. CASE ns[kid].block
        <5>1. c[i] + (1 + ip) = p[i] + (3 * tabs + ic)
          BY <3>1, <4>1, <4>5, BlocksApart
        <5> QED
          BY <3>1, <4>1, <4>3, <4>4, <5>1
      <4>6. CASE ~ns[kid].block
        <5>1. c[i] = p[i] + tabs
          BY <3>1, <4>1, <4>6, PairsApart
        <5> QED
          BY <3>1, <4>4, <5>1
      <4> QED
        BY <4>5, <4>6
    <3>5. Total(p) + l <= Total(c)
      BY <3>2, <3>3, <3>4, TotalsApart
    <3> QED
      BY <3>2, <3>5 DEF Apart, P, C, l
  <2>4. \A k \in q..n : k = q \/ k \in m..n
    BY <1>1, <2>1
  <2>5. q \in S
    BY <2>1, <2>2, <2>3, <2>4 DEF S
  <2> QED
    BY <2>5 DEF q
<1>4. 1 \in S
  <2> HIDE DEF S
  <2>1. 1 \in Int /\ n + 1 \in Int /\ (1 <= n + 1 => n + 1 \in S) /\ 1 \in 1..(n + 1)
    BY <1>1, <1>2
  <2>2. \A m \in (1 + 1)..(n + 1) : m \in S => m - 1 \in S
    BY <1>3
  <2>3. 1..(n + 1) \subseteq S
    BY <2>1, <2>2, DownwardInduction
  <2> QED
    BY <2>1, <2>3
<1> QED
  BY <1>1, <1>4

(* Of what is printed, the count comes short by no more than a character for every empty
   block of the root: the space behind its key. *)
LEMMA PrintHolds ==
  ASSUME ParserTypeOK, Known(text, nodes)
  PROVE  /\ CountedBelow(Root) \in Nat
         /\ PrintedBelow(Root) <= CountedBelow(Root) + Cardinality(EmptyAtRoot)
<1> DEFINE P == Sizes(text, nodes, PrintLayout)
           C == Sizes(text, nodes, CountLayout)
           p == KidSizes(text, nodes, PrintLayout, P, Root, 0)
           c == KidSizes(text, nodes, CountLayout, C, Root, 0)
           l == Len(nodes[Root].kids)
           E == {i \in DOMAIN nodes[Root].kids :
                   nodes[nodes[Root].kids[i]].block /\ nodes[nodes[Root].kids[i]].kids = <<>>}
<1>1. Root \in DOMAIN nodes /\ nodes \in Seq(Node) /\ 0 \in Nat /\ 0 + 1 = 1 /\ 1 \in Nat \ {0}
  BY DEF ParserTypeOK, Root
<1>2. /\ p \in [1..l -> Nat] /\ c \in [1..l -> Nat]
      /\ P[Root][0] = Total(p) /\ C[Root][0] = Total(c)
      /\ \A i \in 1..l :
           LET kid == nodes[Root].kids[i] IN
           /\ kid \in DOMAIN nodes
           /\ P[kid][0 + 1] \in Nat /\ C[kid][0 + 1] \in Nat
           /\ p[i] = KidSize(text, nodes[kid], PrintLayout, 0, P[kid][0 + 1])
           /\ c[i] = KidSize(text, nodes[kid], CountLayout, 0, C[kid][0 + 1])
  <2>1. PrintFacts(text, nodes, Root, 0)
    BY <1>1, PrintRows
  <2> QED
    BY <2>1, Zenon DEF PrintFacts
<1>3. l \in Nat /\ DOMAIN nodes[Root].kids = 1..l
  BY <1>1, NodeFields
<1> HIDE DEF P, C, p, c, l
<1>4. ASSUME NEW i \in 1..l
      PROVE  p[i] <= c[i] + (IF i \in E THEN 1 ELSE 0)
  <2> DEFINE kid == nodes[Root].kids[i]
             ip == P[kid][1]
             ic == C[kid][1]
  <2>1. /\ kid \in DOMAIN nodes /\ ip \in Nat /\ ic \in Nat
        /\ p[i] = KidSize(text, nodes[kid], PrintLayout, 0, ip)
        /\ c[i] = KidSize(text, nodes[kid], CountLayout, 0, ic)
    BY <1>1, <1>2
  <2>2. ip + Len(nodes[kid].kids) <= ic
    BY <1>1, <2>1, BelowTheRoot DEF Apart, P, C
  <2>3. Len(nodes[kid].kids) \in Nat /\ nodes[kid].kids \in Seq(Nat)
    BY <1>1, <2>1, NodeFields
  <2>4. i \in E <=> nodes[kid].block /\ nodes[kid].kids = <<>>
    BY <1>3
  <2>5. p[i] \in Nat /\ c[i] \in Nat
    BY <1>2
  <2> HIDE DEF kid, ip, ic, E
  <2>6. CASE ~nodes[kid].block
    <3>1. c[i] = p[i] + 0
      BY <1>1, <2>1, <2>6, PairsApart
    <3> QED
      BY <2>5, <3>1
  <2>7. CASE nodes[kid].block
    <3>1. c[i] + (1 + ip) = p[i] + (3 * 0 + ic)
      BY <1>1, <2>1, <2>7, BlocksApart
    <3>2. CASE nodes[kid].kids = <<>>
      <4>1. i \in E
        BY <2>4, <2>7, <3>2
      <4> QED
        BY <2>1, <2>2, <2>3, <2>5, <3>1, <4>1
    <3>3. CASE nodes[kid].kids # <<>>
      <4>1. Len(nodes[kid].kids) >= 1
        BY <2>3, <3>3
      <4>2. p[i] <= c[i]
        BY <2>1, <2>2, <2>3, <2>5, <3>1, <4>1
      <4> QED
        BY <2>5, <4>2
    <3> QED
      BY <3>2, <3>3
  <2> QED
    BY <2>6, <2>7
<1>5. {i \in 1..l : i \in E} = E
  BY <1>3
<1>6. P[Root][0] <= C[Root][0] + Cardinality(E)
  <2> HIDE DEF E
  <2>1. Total(p) <= Total(c) + Cardinality({i \in 1..l : i \in E})
    BY <1>2, <1>3, <1>4, TotalsCompare
  <2> QED
    BY <1>2, <1>5, <2>1
<1>7. C[Root][0] \in Nat
  BY <1>2, <1>3, TotalIsNatural
<1> QED
  BY <1>6, <1>7 DEF EmptyAtRoot, PrintedBelow, CountedBelow, P, C

-------------------------------------------------------------------------------
(* The invariant: what the model states of every step, and that the sizes and tokens of
   the tree are what the recursion over it says. *)
KnownInv == ParserInv /\ Known(text, nodes)

LEMMA KnownAlways == ParserSpec => []KnownInv
<1>1. ParserInit => KnownInv
  BY TypeStart, GrowsStart, PlaceStart, CountStart, HeldStart, TreeStart
     DEF KnownInv, ParserInv
<1>2. KnownInv /\ [ParserNext]_vars => KnownInv'
  BY TypeStep, GrowsStep, PlaceKeptStep, CountKept, HeldKept, KnownStep
     DEF KnownInv, ParserInv
<1> QED
  BY <1>1, <1>2, PTL DEF ParserSpec

(* Every state of the parser is of its types, the tree grows in the order of its nodes,
   the place in the text is known, the buffer is counted as the tree grows and the open
   blocks hold what has been read (KeyValue::Parse, ReadString, BuildData). *)
THEOREM ParserInvariant == ParserSpec => []ParserInv
<1>1. KnownInv => ParserInv
  BY DEF KnownInv
<1> QED
  BY <1>1, KnownAlways, PTL

(* The variables of the parser keep their types: the position stays inside the text or
   at its end, and every call that is open has a node and a key (KeyValue::Parse). *)
THEOREM ParserTypeCorrect == ParserSpec => []ParserTypeOK
<1>1. ParserInv => ParserTypeOK
  BY DEF ParserInv
<1> QED
  BY <1>1, ParserInvariant, PTL

(* A well-formed text is accepted, and of the texts that end with a line end no other
   (the error answers of KeyValue::Parse and their way through the calls). *)
THEOREM ParserDecides == ParserSpec => []Decides
<1>1. ParserInv => Decides
  BY DEF ParserInv, PlaceKnown, Decides, Accepted, NoError
<1> QED
  BY <1>1, ParserInvariant, PTL

(* What BuildData copies fits into the buffer that was counted while parsing. *)
THEOREM ParserBufferFits == ParserSpec => []BufferFits
<1>1. ParserInv => BufferFits
  BY DEF ParserInv, BufferCounted, BufferFits
<1> QED
  BY <1>1, ParserInvariant, PTL

(* The tree of a well-formed text holds every string of it once, in its order and in its
   block, save a last key without a value (KeyValue::Parse, KeyValue::AddNode). *)
THEOREM ParserTreeIsText == ParserSpec => []TreeIsText
<1>1. ParserInv => TreeIsText
  BY Zenon DEF ParserInv, TokensKept, TreeIsText, Accepted
<1> QED
  BY <1>1, ParserInvariant, PTL

(* What ToString prints of a tree without an empty block of the root has room in what
   ToStringLength counts, for every such tree and every length of its strings. *)
THEOREM ParserPrintFits == ParserSpec => []PrintFits
<1>1. KnownInv => PrintFits
  <2> SUFFICES ASSUME KnownInv, EmptyAtRoot = {}
               PROVE  PrintedBelow(Root) <= CountedBelow(Root)
    BY DEF PrintFits
  <2>1. Cardinality(EmptyAtRoot) = 0
    BY FS_EmptySet
  <2>2. /\ CountedBelow(Root) \in Nat
        /\ PrintedBelow(Root) <= CountedBelow(Root) + Cardinality(EmptyAtRoot)
    BY PrintHolds DEF KnownInv, ParserInv
  <2> QED
    BY <2>1, <2>2
<1> QED
  BY <1>1, KnownAlways, PTL
==============================================================================
