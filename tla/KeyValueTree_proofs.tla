-------------------------- MODULE KeyValueTree_proofs --------------------------
(***************************************************************************)
(* What holds of the tree in memory for every number of nodes and every    *)
(* length by which the chunks of a pool grow: TreeInv is inductive, and    *)
(* with it both ways of reading agree, Solidify moves every node once, and *)
(* everything is freed once.                                               *)
(***************************************************************************)
EXTENDS KeyValueTree, FiniteSetTheorems, SequenceTheorems, InductionLemmas, TLAPS

-------------------------------------------------------------------------------
(* Sequences, and reading a list.                                          *)
LEMMA AppendCells ==
  ASSUME NEW S, NEW s \in Seq(S), NEW x \in S
  PROVE  /\ Append(s, x) \in Seq(S) /\ Len(Append(s, x)) = Len(s) + 1
         /\ DOMAIN Append(s, x) = 1 .. Len(s) + 1
         /\ DOMAIN s = 1 .. Len(s) /\ Len(s) \in Nat
         /\ \A i \in 1 .. Len(s) : Append(s, x)[i] = s[i]
         /\ Append(s, x)[Len(s) + 1] = x
OBVIOUS

(* A list of addresses that begins at a node's first child and goes on to  *)
(* the successor of each is what following next reads.                     *)
LEMMA WalkFollows ==
  ASSUME NEW h, NEW n, NEW k \in Nat, NEW f,
         f = [i \in 1 .. k |->
                IF i = 1 THEN h[n].children
                ELSE IF f[i - 1] \in DOMAIN h THEN h[f[i - 1]].next ELSE Null]
  PROVE  Walk(h, n, k) = f
<1> DEFINE Follows(g) ==
      g = [i \in 1 .. k |-> IF i = 1 THEN h[n].children
                            ELSE IF g[i - 1] \in DOMAIN h THEN h[g[i - 1]].next ELSE Null]
<1> DEFINE at == CHOOSE g : Follows(g)
<1>1. Follows(f)
  OBVIOUS
<1>2. Follows(at)
  <2> HIDE DEF Follows
  <2> QED
    BY <1>1
<1>3. Walk(h, n, k) = [i \in 1 .. k |-> at[i]]
  BY DEF Walk
<1> HIDE DEF at
<1>4. \A i \in 1 .. k : at[i] = f[i]
  <2> DEFINE Differ == {i \in 1 .. k : at[i] # f[i]}
  <2>1. SUFFICES ASSUME Differ # {} PROVE FALSE
    OBVIOUS
  <2>2. PICK i \in Differ : \A j \in Differ : i <= j
    <3>1. Differ \in SUBSET Nat
      OBVIOUS
    <3> HIDE DEF Differ
    <3> QED
      BY <2>1, <3>1, LeastNatural
  <2>3. i \in 1 .. k /\ at[i] # f[i]
    BY <2>2
  <2>4. i # 1 => i - 1 \in 1 .. k /\ at[i - 1] = f[i - 1]
    BY <2>2
  <2> QED
    BY <1>1, <1>2, <2>3, <2>4
<1>5. f = [i \in 1 .. k |-> f[i]]
  BY <1>1
<1> QED
  BY <1>3, <1>4, <1>5
-------------------------------------------------------------------------------
(* A pool gives out one cell more, a new one, and keeps its chunks.        *)
IsPool(p) ==
  /\ p \in [lengths : Seq(Nat), position : Nat]
  /\ p.lengths # <<>> /\ p.position <= Last(p.lengths)

LEMMA GotPool ==
  ASSUME NEW p, IsPool(p)
  PROVE  /\ IsPool(Got(p)) /\ Got(p).position > 0
         /\ \/ Len(Got(p).lengths) = Len(p.lengths) + 1 /\ Got(p).position = 1
               /\ p.position = Last(p.lengths)
               /\ Got(p).lengths = Append(p.lengths, Last(p.lengths) + Increment)
            \/ Got(p).lengths = p.lengths /\ Got(p).position = p.position + 1
<1>1. p.lengths \in Seq(Nat) /\ Len(p.lengths) \in Nat /\ Len(p.lengths) > 0 /\ p.position \in Nat
  BY EmptySeq DEF IsPool
<1>2. Last(p.lengths) \in Nat /\ Last(p.lengths) + Increment \in Nat /\ Last(p.lengths) + Increment >= 1
  BY <1>1, TreeAssumption DEF Last
<1>3. CASE p.position >= Last(p.lengths)
  <2> DEFINE q == Append(p.lengths, Last(p.lengths) + Increment)
  <2>1. Got(p) = [lengths |-> q, position |-> 1]
    BY <1>3 DEF Got, IsFull, NextChunk
  <2>2. q \in Seq(Nat) /\ Len(q) = Len(p.lengths) + 1 /\ Last(q) = Last(p.lengths) + Increment
    BY <1>1, <1>2, AppendCells DEF Last
  <2> HIDE DEF q
  <2>3. q # <<>>
    BY <1>1, <2>2
  <2> QED
    BY <1>1, <1>2, <1>3, <2>1, <2>2, <2>3 DEF IsPool, q
<1>4. CASE ~(p.position >= Last(p.lengths))
  <2>1. Got(p) = [p EXCEPT !.position = @ + 1]
    BY <1>4 DEF Got, IsFull
  <2> QED
    BY <1>1, <1>2, <1>4, <2>1 DEF IsPool
<1> QED
  BY <1>3, <1>4

LEMMA DeletedCell ==
  ASSUME NEW p, NEW c
  PROVE  c \in DeletedCells(p) <=>
           \/ \E i \in 1 .. (Len(p.lengths) - 1) : \E j \in 1 .. p.lengths[i] : c = <<"strings", i, j>>
           \/ \E j \in 1 .. p.position : c = <<"strings", Len(p.lengths), j>>
BY DEF DeletedCells

LEMMA GotCells ==
  ASSUME NEW p, IsPool(p)
  PROVE  /\ DeletedCells(Got(p)) = DeletedCells(p) \cup {Cell("strings", Got(p))}
         /\ Cell("strings", Got(p)) \notin DeletedCells(p)
         /\ \A name : Chunks(name, p) \subseteq Chunks(name, Got(p))
<1> DEFINE n == Len(p.lengths)
           q == Got(p)
<1>1. p.lengths \in Seq(Nat) /\ n \in Nat \ {0} /\ p.position \in Nat
  BY EmptySeq DEF IsPool
<1>2. q.lengths \in Seq(Nat) /\ Len(q.lengths) \in Nat
  BY GotPool DEF IsPool
<1> HIDE DEF q, n
<1>3. \A name : Chunks(name, p) \subseteq Chunks(name, q)
  <2>1. DOMAIN p.lengths \subseteq DOMAIN q.lengths
    BY <1>1, <1>2, GotPool DEF q, n
  <2> QED
    BY <2>1 DEF Chunks
<1>4. CASE /\ Len(q.lengths) = n + 1 /\ q.position = 1 /\ p.position = p.lengths[n]
           /\ \A i \in 1 .. n : q.lengths[i] = p.lengths[i]
  <2>1. \A c : c \in DeletedCells(p) <=>
                 \/ \E i \in 1 .. n - 1 : \E j \in 1 .. p.lengths[i] : c = <<"strings", i, j>>
                 \/ \E j \in 1 .. p.position : c = <<"strings", n, j>>
    BY DeletedCell, Zenon DEF n
  <2>2. \A c : c \in DeletedCells(q) <=>
                 \/ \E i \in 1 .. n : \E j \in 1 .. q.lengths[i] : c = <<"strings", i, j>>
                 \/ c = <<"strings", n + 1, 1>>
    <3>1. Len(q.lengths) - 1 = n
      BY <1>1, <1>4
    <3>2. \A j : j \in 1 .. q.position <=> j = 1
      BY <1>4
    <3> QED
      BY <1>4, <3>1, <3>2, DeletedCell, Zenon
  <2>3. \A c : c \in DeletedCells(p) <=>
                  \E i \in 1 .. n : \E j \in 1 .. p.lengths[i] : c = <<"strings", i, j>>
    BY <1>1, <1>4, <2>1
  <2>4. \A c : c \in DeletedCells(q) <=> c \in DeletedCells(p) \/ c = <<"strings", n + 1, 1>>
    BY <1>4, <2>2, <2>3
  <2>5. Cell("strings", q) = <<"strings", n + 1, 1>>
    BY <1>4 DEF Cell
  <2>6. <<"strings", n + 1, 1>> \notin DeletedCells(p)
    BY <1>1, <2>3
  <2> QED
    BY <2>4, <2>5, <2>6, <1>3 DEF q
<1>5. CASE q.lengths = p.lengths /\ q.position = p.position + 1
  <2>1. \A c : c \in DeletedCells(p) <=>
                 \/ \E i \in 1 .. n - 1 : \E j \in 1 .. p.lengths[i] : c = <<"strings", i, j>>
                 \/ \E j \in 1 .. p.position : c = <<"strings", n, j>>
    BY DeletedCell, Zenon DEF n
  <2>2. \A c : c \in DeletedCells(q) <=>
                 \/ \E i \in 1 .. n - 1 : \E j \in 1 .. p.lengths[i] : c = <<"strings", i, j>>
                 \/ \E j \in 1 .. p.position + 1 : c = <<"strings", n, j>>
    BY <1>5, DeletedCell DEF n
  <2>3. Cell("strings", q) = <<"strings", n, p.position + 1>>
    BY <1>5 DEF Cell, n
  <2>4. \A j : j \in 1 .. p.position + 1 <=> j \in 1 .. p.position \/ j = p.position + 1
    BY <1>1
  <2>5. <<"strings", n, p.position + 1>> \notin DeletedCells(p)
    BY <1>1, <2>1
  <2>6. \A c : c \in DeletedCells(q) <=> c \in DeletedCells(p) \/ c = <<"strings", n, p.position + 1>>
    BY <2>1, <2>2, <2>4, Zenon
  <2> QED
    BY <2>3, <2>5, <2>6, <1>3 DEF q
<1>6. \/ /\ Len(q.lengths) = n + 1 /\ q.position = 1 /\ p.position = p.lengths[n]
         /\ \A i \in 1 .. n : q.lengths[i] = p.lengths[i]
      \/ q.lengths = p.lengths /\ q.position = p.position + 1
  <2>1. Last(p.lengths) = p.lengths[n]
    BY DEF Last, n
  <2>2. p.lengths[n] \in Nat /\ Last(p.lengths) + Increment \in Nat
    BY <1>1, <2>1, TreeAssumption DEF n
  <2> QED
    BY <1>1, <2>1, <2>2, GotPool, AppendCells DEF q, n
<1> QED
  BY <1>4, <1>5, <1>6
-------------------------------------------------------------------------------
(* Addresses and labels. *)
LEMMA AddressFacts ==
  /\ \A p \in PoolNames \cup {"array", "root", "null", "junk"} :
       \A i, j \in 0 .. 2 * MaxLabels : <<p, i, j>> \in Address
  /\ RootAddress \in Address /\ Null \in Address /\ Junk \in Address
  /\ \A a \in Address : a = <<a[1], a[2], a[3]>> /\ a[2] \in Nat /\ a[3] \in Nat
<1>1. \A p \in PoolNames \cup {"array", "root", "null", "junk"} :
        \A i, j \in 0 .. 2 * MaxLabels : <<p, i, j>> \in Address
  BY DEF Address
<1>2. 0 \in 0 .. 2 * MaxLabels
  BY TreeAssumption
<1>3. RootAddress \in Address /\ Null \in Address /\ Junk \in Address
  BY <1>1, <1>2 DEF RootAddress, Null, Junk
<1>4. \A a \in Address : a = <<a[1], a[2], a[3]>> /\ a[2] \in Nat /\ a[3] \in Nat
  BY TreeAssumption DEF Address
<1> QED
  BY <1>1, <1>3, <1>4

LEMMA NewNodes ==
  \A l \in Labels : /\ NewBlock(l) \in Node /\ NewPair(l) \in Node
                    /\ NewBlock(l).label = l /\ NewPair(l).label = l
                    /\ NewBlock(l).block /\ ~NewPair(l).block
                    /\ NewBlock(l).count = 0 /\ NewPair(l).count = 0
                    /\ NewBlock(l).children = Null
                    /\ NewBlock(l).next = Null /\ NewPair(l).next = Null
BY AddressFacts DEF NewBlock, NewPair, Node

LEMMA FreshPoolFacts ==
  /\ IsPool(FreshPool) /\ FreshPool.position = 0 /\ Len(FreshPool.lengths) = 1
  /\ DeletedCells(FreshPool) = {}
<1>1. FreshPool.lengths = <<0>> /\ FreshPool.position = 0
  BY DEF FreshPool
<1>2. Last(FreshPool.lengths) = 0 /\ Len(FreshPool.lengths) = 1 /\ FreshPool.lengths # <<>>
  BY <1>1 DEF Last
<1>3. FreshPool \in [lengths : Seq(Nat), position : Nat]
  BY DEF FreshPool
<1>4. ASSUME NEW c PROVE c \notin DeletedCells(FreshPool)
  <2>1. 1 .. (Len(FreshPool.lengths) - 1) = {} /\ 1 .. FreshPool.position = {}
    BY <1>1, <1>2
  <2> QED
    BY <2>1, DeletedCell, Zenon
<1> QED
  BY <1>1, <1>2, <1>3, <1>4 DEF IsPool

(* The labels in use are numbered without a gap, so their number is the    *)
(* last one given out.                                                     *)
LEMMA CreatedLast ==
  ASSUME NEW m \in Nat, {heap[a].label : a \in DOMAIN heap} = 1 .. m
  PROVE  Created = m
<1>1. Cardinality(1 .. m) = m
  BY FS_Interval
<1> QED
  BY <1>1 DEF Created

LEMMA TreeInvInit == TreeInit => TreeInv
<1> SUFFICES ASSUME TreeInit PROVE TreeInv
  OBVIOUS
<1> USE DEF TreeInit
<1>1. DOMAIN heap = {RootAddress} /\ heap[RootAddress] = NewBlock(1) /\ 1 \in Labels
  BY TreeAssumption DEF Labels
<1>2. \A l \in Labels : kids[l] = <<>>
  OBVIOUS
<1>3. Created = 1 /\ {heap[a].label : a \in DOMAIN heap} = 1 .. 1
  <2>1. {heap[a].label : a \in DOMAIN heap} = 1 .. 1
    BY <1>1, NewNodes
  <2> QED
    BY <2>1, CreatedLast
<1>4. Originals = DOMAIN heap /\ \A l : ~Moved(l)
  BY <1>1 DEF Originals, Moved, RootAddress
<1>5. TreeTypeOK
  BY <1>1, AddressFacts, NewNodes, FreshPoolFacts, TreeAssumption
     DEF TreeTypeOK, IsPool, Labels
<1>6. NodesInv
  BY <1>1, <1>2, <1>3, <1>4, NewNodes DEF NodesInv
<1>7. KidsInv
  BY <1>2, <1>3 DEF KidsInv
<1>8. LinksInv
  BY <1>1, <1>2, <1>4, NewNodes DEF LinksInv
<1>9. SolidInv
  BY <1>4 DEF SolidInv
<1>10. PoolsInv
  <2>1. \A p \in PoolNames : pool[p] = FreshPool /\ pool[p].lengths # <<>>
    BY FreshPoolFacts DEF IsPool
  <2>2. "write" \in PoolNames /\ "strings" \in PoolNames
    BY DEF PoolNames
  <2>3. DOMAIN slots = DeletedCells(pool["strings"])
    BY <2>1, <2>2, FreshPoolFacts
  <2>4. \A a \in DOMAIN heap : a[1] # "write"
    BY <1>1 DEF RootAddress
  <2> HIDE DEF TreeInit
  <2>5. /\ Len(pool["write"].lengths) = 1
        /\ Len(pool["write"].lengths) + pool["write"].position <= Created + 1
    <3>1. pool["write"] = FreshPool
      BY <2>1, <2>2, Zenon
    <3> QED
      BY <1>3, <3>1, FreshPoolFacts
  <2>6. pool = [p \in PoolNames |-> FreshPool]
    BY DEF TreeInit
  <2>7. pc = "fresh"
    BY DEF TreeInit
  <2> QED
    BY <2>1, <2>2, <2>3, <2>4, <2>5, <2>6, <2>7 DEF PoolsInv
<1>11. AllocatedInv
  BY <1>4 DEF AllocatedInv, Strings
<1> QED
  BY <1>5, <1>6, <1>7, <1>8, <1>9, <1>10, <1>11 DEF TreeInv
-------------------------------------------------------------------------------
(* Steps that leave the nodes alone.                                       *)
LEMMA TreeKept ==
  ASSUME NodesInv, KidsInv, LinksInv, UNCHANGED <<heap, kids>>,
         Growing' => Growing, pc' = "solidifying" => Growing \/ pc = "solidifying"
  PROVE  NodesInv' /\ KidsInv' /\ LinksInv'
<1>1. /\ Originals' = Originals /\ Created' = Created
      /\ \A l : Moved(l)' = Moved(l) /\ IsKid(l)' = IsKid(l)
      /\ \A a, l : IsOriginal(a, l)' = IsOriginal(a, l)
  BY DEF Originals, Created, Moved, IsKid, IsOriginal
<1>2. NodesInv'
  BY <1>1 DEF NodesInv
<1>3. KidsInv'
  BY <1>1 DEF KidsInv
<1>4. LinksInv'
  BY <1>1 DEF LinksInv
<1> QED
  BY <1>2, <1>3, <1>4

LEMMA NoneMoved ==
  ASSUME SolidInv, Growing \/ pc = "refused"
  PROVE  \A l : ~Moved(l)
<1>1. SUFFICES ASSUME NEW l, Moved(l) PROVE FALSE
  OBVIOUS
<1>2. <<"array", l, 1>> \in Originals
  BY <1>1 DEF SolidInv, Moved
<1> QED
  BY <1>2 DEF Originals

LEMMA ParsedTreeCases ==
  ASSUME NEW t \in ParsedTrees
  PROVE  /\ t.strings \in BOOLEAN
         /\ \/ /\ t.pool = FreshPool /\ t.kids = <<>>
               /\ t.heap = [a \in {RootAddress} |-> NewBlock(1)]
            \/ /\ t.pool = Read1 /\ t.kids = <<2>>
               /\ t.heap = [a \in {RootAddress, Cell1} |->
                              IF a = RootAddress THEN Family(NewBlock(1), Cell1) ELSE NewPair(2)]
            \/ /\ t.pool = Read2 /\ t.kids = <<2, 3>>
               /\ t.heap = [a \in {RootAddress, Cell1, Cell2} |->
                              IF a = RootAddress THEN Family(NewBlock(1), Cell1)
                              ELSE IF a = Cell1 THEN Family(NewBlock(2), Cell2) ELSE NewPair(3)]
<1> DEFINE heap0 == [a \in {RootAddress} |-> NewBlock(1)]
           heap1 == [a \in {RootAddress, Cell1} |->
                       IF a = RootAddress THEN Family(NewBlock(1), Cell1) ELSE NewPair(2)]
           heap2 == [a \in {RootAddress, Cell1, Cell2} |->
                       IF a = RootAddress THEN Family(NewBlock(1), Cell1)
                       ELSE IF a = Cell1 THEN Family(NewBlock(2), Cell2) ELSE NewPair(3)]
<1>1. t \in { [pool |-> FreshPool, heap |-> heap0, kids |-> <<>>, strings |-> strings] :
                 strings \in BOOLEAN }
             \cup { [pool |-> Read1, heap |-> heap1, kids |-> <<2>>, strings |-> TRUE],
                    [pool |-> Read2, heap |-> heap2, kids |-> <<2, 3>>, strings |-> TRUE] }
  BY DEF ParsedTrees
<1> HIDE DEF heap0, heap1, heap2
<1>2. /\ t.strings \in BOOLEAN
      /\ \/ t.pool = FreshPool /\ t.kids = <<>> /\ t.heap = heap0
         \/ t.pool = Read1 /\ t.kids = <<2>> /\ t.heap = heap1
         \/ t.pool = Read2 /\ t.kids = <<2, 3>> /\ t.heap = heap2
  <2>1. \/ \E strings \in BOOLEAN :
             t = [pool |-> FreshPool, heap |-> heap0, kids |-> <<>>, strings |-> strings]
        \/ t = [pool |-> Read1, heap |-> heap1, kids |-> <<2>>, strings |-> TRUE]
        \/ t = [pool |-> Read2, heap |-> heap2, kids |-> <<2, 3>>, strings |-> TRUE]
    BY <1>1, Zenon
  <2>2. CASE \E strings \in BOOLEAN :
               t = [pool |-> FreshPool, heap |-> heap0, kids |-> <<>>, strings |-> strings]
    <3>1. PICK strings \in BOOLEAN :
            t = [pool |-> FreshPool, heap |-> heap0, kids |-> <<>>, strings |-> strings]
      BY <2>2
    <3> QED
      BY <3>1
  <2>3. CASE t = [pool |-> Read1, heap |-> heap1, kids |-> <<2>>, strings |-> TRUE]
    BY <2>3
  <2>4. CASE t = [pool |-> Read2, heap |-> heap2, kids |-> <<2, 3>>, strings |-> TRUE]
    BY <2>4
  <2> QED
    BY <2>1, <2>2, <2>3, <2>4
<1> QED
  BY <1>2 DEF heap0, heap1, heap2

LEMMA ParsedPool ==
  ASSUME NEW t \in ParsedTrees
  PROVE  IsPool(t.pool) /\ \A name : Chunks(name, FreshPool) \subseteq Chunks(name, t.pool)
<1>1. t.pool \in {FreshPool, Read1, Read2}
  BY ParsedTreeCases
<1>2. IsPool(Read1) /\ \A name : Chunks(name, FreshPool) \subseteq Chunks(name, Read1)
  BY FreshPoolFacts, GotPool, GotCells DEF Read1
<1>3. IsPool(Read2) /\ \A name : Chunks(name, Read1) \subseteq Chunks(name, Read2)
  BY <1>2, GotPool, GotCells DEF Read2
<1> QED
  BY <1>1, <1>2, <1>3, FreshPoolFacts

LEMMA ParsePool ==
  ASSUME TreeInv, pc = "fresh", NEW t \in ParsedTrees,
         pool' = [pool EXCEPT !["read"] = t.pool]
  PROVE  /\ pool' \in [PoolNames -> [lengths : Seq(Nat), position : Nat]]
         /\ \A p \in PoolNames : IsPool(pool'[p])
         /\ pool'["write"] = FreshPool /\ pool'["strings"] = FreshPool
         /\ pool["write"] = FreshPool /\ pool["strings"] = FreshPool
         /\ UNION {Chunks(p, pool'[p]) : p \in PoolNames}
              = (UNION {Chunks(p, pool[p]) : p \in PoolNames}) \cup Chunks("read", t.pool)
<1>1. pool = [p \in PoolNames |-> FreshPool]
  BY DEF TreeInv, PoolsInv
<1>2. pool' = [p \in PoolNames |-> IF p = "read" THEN t.pool ELSE FreshPool]
  BY <1>1
<1>3. "write" \in PoolNames /\ "strings" \in PoolNames /\ "read" \in PoolNames
  BY DEF PoolNames
<1>4. \A p \in PoolNames : IsPool(pool'[p])
  BY <1>2, ParsedPool, FreshPoolFacts
<1>5. pool' \in [PoolNames -> [lengths : Seq(Nat), position : Nat]]
  BY <1>2, <1>4 DEF IsPool
<1>6. UNION {Chunks(p, pool'[p]) : p \in PoolNames}
        = (UNION {Chunks(p, pool[p]) : p \in PoolNames}) \cup Chunks("read", t.pool)
  BY <1>1, <1>2, <1>3, ParsedPool
<1> QED
  BY <1>1, <1>2, <1>3, <1>4, <1>5, <1>6

LEMMA ParseFailsKeepsInv ==
  ASSUME TreeInv, NEW t \in ParsedTrees, ParseFails(t)
  PROVE  TreeInv'
<1> USE DEF ParseFails
<1>1. TreeTypeOK'
  <2>1. t.strings \in BOOLEAN
    BY ParsedTreeCases
  <2> QED
    BY <2>1, ParsePool DEF TreeInv, TreeTypeOK, IsPool
<1>2. NodesInv' /\ KidsInv' /\ LinksInv'
  BY TreeKept DEF TreeInv, Growing
<1>3. SolidInv'
  BY DEF TreeInv, SolidInv, Growing, Originals
<1>4. PoolsInv'
  BY ParsePool, FreshPoolFacts DEF TreeInv, PoolsInv, Growing, IsPool
<1>5. AllocatedInv'
  <2>1. Strings' = Strings /\ \A l : Moved(l)' = Moved(l)
    BY DEF Strings, Moved
  <2>2. ~buffer'.allocated /\ misfreed' = misfreed
    OBVIOUS
  <2>3. ~buffer.allocated
    BY DEF TreeInv, AllocatedInv
  <2> QED
    BY <2>1, <2>2, <2>3, ParsePool DEF TreeInv, AllocatedInv
<1> QED
  BY <1>1, <1>2, <1>3, <1>4, <1>5 DEF TreeInv
-------------------------------------------------------------------------------
(* The tree that Parse leaves is a chain of at most three nodes.           *)
IsChain(h, k, n, at) ==
  /\ DOMAIN h = {at[i] : i \in 1 .. n}
  /\ at[1] = RootAddress
  /\ \A i \in 2 .. n : at[i] \in Address /\ at[i][1] = "read"
  /\ \A i, j \in 1 .. n : at[i] = at[j] => i = j
  /\ \A i \in 1 .. n :
       /\ h[at[i]] \in Node /\ h[at[i]].label = i /\ h[at[i]].next = Null
       /\ i = 1 => h[at[i]].block
       /\ i < n => /\ h[at[i]].block /\ h[at[i]].count = 1
                   /\ h[at[i]].children = at[i + 1] /\ h[at[i]].last = at[i + 1]
       /\ i = n => h[at[i]].count = 0 /\ (h[at[i]].block => h[at[i]].children = Null)
  /\ k \in [Labels -> Seq(Labels)]
  /\ \A l \in Labels : k[l] = IF l < n THEN <<l + 1>> ELSE <<>>

LEMMA ReadCells ==
  /\ Cell1 = <<"read", 2, 1>>
  /\ Cell2 \in {<<"read", 3, 1>>, <<"read", 2, 2>>}
<1>1. Len(Read1.lengths) = 2 /\ Read1.position = 1 /\ IsPool(Read1)
  <2>1. Last(FreshPool.lengths) = 0 /\ FreshPool.lengths = <<0>> /\ FreshPool.position = 0
    BY DEF FreshPool, Last
  <2>2. Read1 = [lengths |-> NextChunk(FreshPool), position |-> 1]
    BY <2>1 DEF Read1, Got, IsFull
  <2>3. NextChunk(FreshPool) = Append(<<0>>, Increment)
    BY <2>1, TreeAssumption DEF NextChunk
  <2>4. Len(Append(<<0>>, Increment)) = 2
    BY TreeAssumption
  <2> QED
    BY <2>2, <2>3, <2>4, FreshPoolFacts, GotPool DEF Read1
<1>2. \/ Len(Read2.lengths) = 3 /\ Read2.position = 1
      \/ Len(Read2.lengths) = 2 /\ Read2.position = 2
  <2>1. \/ Len(Got(Read1).lengths) = Len(Read1.lengths) + 1 /\ Got(Read1).position = 1
        \/ Got(Read1).lengths = Read1.lengths /\ Got(Read1).position = Read1.position + 1
    BY <1>1, GotPool
  <2> QED
    BY <1>1, <2>1 DEF Read2
<1> QED
  BY <1>1, <1>2 DEF Cell1, Cell2, Cell

LEMMA FamilyFacts ==
  \A l \in Labels : \A a \in Address :
    LET node == Family(NewBlock(l), a) IN
    /\ node \in Node /\ node.label = l /\ node.block /\ node.count = 1
    /\ node.children = a /\ node.last = a /\ node.next = Null
BY AddressFacts DEF NewBlock, Family, Node

LEMMA ParsedChain ==
  ASSUME TreeInv, NEW t \in ParsedTrees, Parse(t)
  PROVE  \E n \in 1 .. 3 : \E at : IsChain(heap', kids', n, at)
<1>1. 1 \in Labels /\ 2 \in Labels /\ 3 \in Labels /\ \A l \in Labels : l \in Nat /\ l >= 1
  BY TreeAssumption DEF Labels
<1>2. /\ Cell1 \in Address /\ Cell2 \in Address /\ Cell1 # Cell2
      /\ Cell1[1] = "read" /\ Cell2[1] = "read"
      /\ Cell1 # RootAddress /\ Cell2 # RootAddress
  <2>1. \A i, j \in 1 .. 3 : <<"read", i, j>> \in Address
    <3>1. 1 .. 3 \subseteq 0 .. 2 * MaxLabels
      BY TreeAssumption
    <3>2. "read" \in PoolNames
      BY DEF PoolNames
    <3> QED
      BY <3>1, <3>2, AddressFacts
  <2> QED
    BY <2>1, ReadCells DEF RootAddress
<1>3. heap' = t.heap
      /\ kids' = [l \in Labels |-> IF l <= Len(t.kids) THEN <<t.kids[l]>> ELSE <<>>]
  BY DEF Parse
<1>4. CASE t.kids = <<>> /\ t.heap = [a \in {RootAddress} |-> NewBlock(1)]
  <2> DEFINE at == <<RootAddress>>
  <2>1. IsChain(heap', kids', 1, at)
    <3>1. DOMAIN heap' = {at[i] : i \in 1 .. 1} /\ at[1] = RootAddress
      BY <1>3, <1>4
    <3>2. heap'[at[1]] = NewBlock(1)
      BY <1>3, <1>4
    <3>3. \A l \in Labels : kids'[l] = IF l < 1 THEN <<l + 1>> ELSE <<>>
      BY <1>1, <1>3, <1>4
    <3>4. kids' \in [Labels -> Seq(Labels)]
      BY <1>1, <1>3, <1>4
    <3> HIDE DEF at
    <3> QED
      BY <1>1, <3>1, <3>2, <3>3, <3>4, NewNodes DEF IsChain
  <2> QED
    BY <2>1
<1>5. CASE /\ t.kids = <<2>>
           /\ t.heap = [a \in {RootAddress, Cell1} |->
                          IF a = RootAddress THEN Family(NewBlock(1), Cell1) ELSE NewPair(2)]
  <2> DEFINE at == <<RootAddress, Cell1>>
  <2>1. IsChain(heap', kids', 2, at)
    <3>1. DOMAIN heap' = {at[i] : i \in 1 .. 2} /\ at[1] = RootAddress /\ at[2] = Cell1
      BY <1>3, <1>5
    <3>2. heap'[at[1]] = Family(NewBlock(1), Cell1) /\ heap'[at[2]] = NewPair(2)
      BY <1>2, <1>3, <1>5
    <3>3. \A l \in Labels : kids'[l] = IF l < 2 THEN <<l + 1>> ELSE <<>>
      BY <1>1, <1>3, <1>5
    <3>4. kids' \in [Labels -> Seq(Labels)]
      BY <1>1, <1>3, <1>5
    <3> HIDE DEF at
    <3> QED
      BY <1>1, <1>2, <3>1, <3>2, <3>3, <3>4, NewNodes, FamilyFacts DEF IsChain
  <2> QED
    BY <2>1
<1>6. CASE /\ t.kids = <<2, 3>>
           /\ t.heap = [a \in {RootAddress, Cell1, Cell2} |->
                          IF a = RootAddress THEN Family(NewBlock(1), Cell1)
                          ELSE IF a = Cell1 THEN Family(NewBlock(2), Cell2) ELSE NewPair(3)]
  <2> DEFINE at == <<RootAddress, Cell1, Cell2>>
  <2>1. IsChain(heap', kids', 3, at)
    <3>1. DOMAIN heap' = {at[i] : i \in 1 .. 3}
          /\ at[1] = RootAddress /\ at[2] = Cell1 /\ at[3] = Cell2
      BY <1>3, <1>6
    <3>2. /\ heap'[at[1]] = Family(NewBlock(1), Cell1)
          /\ heap'[at[2]] = Family(NewBlock(2), Cell2) /\ heap'[at[3]] = NewPair(3)
      BY <1>2, <1>3, <1>6
    <3>3. \A l \in Labels : kids'[l] = IF l < 3 THEN <<l + 1>> ELSE <<>>
      BY <1>1, <1>3, <1>6
    <3>4. kids' \in [Labels -> Seq(Labels)]
      BY <1>1, <1>3, <1>6
    <3> HIDE DEF at
    <3>5. /\ \A i \in 2 .. 3 : at[i] \in Address /\ at[i][1] = "read"
          /\ \A i, j \in 1 .. 3 : at[i] = at[j] => i = j
      BY <1>2, <3>1
    <3>6. /\ heap'[at[1]] \in Node /\ heap'[at[1]].label = 1 /\ heap'[at[1]].next = Null
          /\ heap'[at[1]].block /\ heap'[at[1]].count = 1
          /\ heap'[at[1]].children = at[2] /\ heap'[at[1]].last = at[2]
      BY <1>1, <1>2, <3>1, <3>2, FamilyFacts
    <3>7. /\ heap'[at[2]] \in Node /\ heap'[at[2]].label = 2 /\ heap'[at[2]].next = Null
          /\ heap'[at[2]].block /\ heap'[at[2]].count = 1
          /\ heap'[at[2]].children = at[3] /\ heap'[at[2]].last = at[3]
      BY <1>1, <1>2, <3>1, <3>2, FamilyFacts
    <3>8. /\ heap'[at[3]] \in Node /\ heap'[at[3]].label = 3 /\ heap'[at[3]].next = Null
          /\ ~heap'[at[3]].block /\ heap'[at[3]].count = 0
      BY <1>1, <3>2, NewNodes
    <3> QED
      BY <3>1, <3>3, <3>4, <3>5, <3>6, <3>7, <3>8 DEF IsChain
  <2> QED
    BY <2>1
<1> QED
  BY <1>4, <1>5, <1>6, ParsedTreeCases

LEMMA ChainInv ==
  ASSUME NEW n \in 1 .. 3, NEW at, IsChain(heap', kids', n, at), pc' = "building"
  PROVE  /\ NodesInv' /\ KidsInv' /\ LinksInv' /\ (todo' = {} => SolidInv')
         /\ \A a \in DOMAIN heap' : a[1] # "write" /\ a \in Address /\ heap'[a] \in Node
         /\ Created' = n /\ \A l : ~Moved(l)'
<1> USE DEF IsChain
<1>1. /\ \A i \in 1 .. n : at[i] \in Address /\ at[i] # Null
                           /\ at[i][1] # "write" /\ at[i][1] # "array"
                           /\ (at[i] = RootAddress \/ at[i][1] = "read")
      /\ 1 .. n \subseteq Labels /\ \A l \in Labels : l \in Nat /\ l >= 1
  <2>1. 1 .. n \subseteq Labels /\ \A l \in Labels : l \in Nat /\ l >= 1
    BY TreeAssumption DEF Labels
  <2>2. RootAddress[1] = "root" /\ Null[1] = "null" /\ RootAddress \in Address
    BY AddressFacts DEF RootAddress, Null
  <2>3. ASSUME NEW i \in 1 .. n
        PROVE  at[i] = RootAddress \/ (at[i] \in Address /\ at[i][1] = "read")
    <3>1. i = 1 \/ i \in 2 .. n
      OBVIOUS
    <3> QED
      BY <3>1
  <2> QED
    BY <2>1, <2>2, <2>3
<1>2. Originals' = DOMAIN heap' /\ \A l : ~Moved(l)'
  BY <1>1 DEF Originals, Moved
<1>3. {heap'[a].label : a \in DOMAIN heap'} = 1 .. n
  OBVIOUS
<1>4. Created' = n
  <2>1. Cardinality(1 .. n) = n
    <3>1. n \in Int /\ ~(1 > n)
      OBVIOUS
    <3> QED
      BY <3>1, FS_Interval
  <2> QED
    BY <1>3, <2>1 DEF Created
<1>5. /\ \A l \in Labels : \A i \in DOMAIN kids'[l] : i = 1 /\ l < n /\ kids'[l][i] = l + 1
      /\ \A l \in Labels : l < n => /\ Len(kids'[l]) = 1 /\ 1 \in DOMAIN kids'[l]
                                    /\ kids'[l][1] = l + 1 /\ kids'[l] # <<>>
      /\ \A l \in Labels : ~(l < n) => kids'[l] = <<>> /\ Len(kids'[l]) = 0
  <2>1. \A l \in Labels : l < n => kids'[l] = <<l + 1>>
    OBVIOUS
  <2>2. \A l \in Labels : ~(l < n) => kids'[l] = <<>>
    OBVIOUS
  <2> HIDE DEF IsChain
  <2>3. \A l \in Labels : l < n => /\ Len(kids'[l]) = 1 /\ DOMAIN kids'[l] = {1}
                                  /\ kids'[l][1] = l + 1 /\ kids'[l] # <<>>
    <3>1. \A x : Len(<<x>>) = 1 /\ DOMAIN <<x>> = {1} /\ <<x>>[1] = x
      OBVIOUS
    <3>2. \A x : <<x>> # <<>>
      OBVIOUS
    <3> QED
      BY <2>1, <3>1, <3>2, Zenon
  <2>4. \A l \in Labels : ~(l < n) => Len(kids'[l]) = 0 /\ DOMAIN kids'[l] = {}
    BY <2>2
  <2> QED
    BY <2>2, <2>3, <2>4
<1>6. NodesInv'
  <2>1. RootAddress \in DOMAIN heap' /\ heap'[RootAddress].label = 1 /\ heap'[RootAddress].block
    OBVIOUS
  <2>2. \A a \in DOMAIN heap' : a = RootAddress \/ InPool(a)
    BY <1>1 DEF InPool
  <2>3. \A a, b \in DOMAIN heap' : heap'[a].label = heap'[b].label => a = b
    OBVIOUS
  <2> HIDE DEF IsChain
  <2> QED
    BY <1>2, <1>3, <1>4, <2>1, <2>2, <2>3 DEF NodesInv
<1>7. KidsInv'
  <2> HIDE DEF IsChain
  <2>1. \A l \in 2 .. n : IsKid(l)'
    <3>1. SUFFICES ASSUME NEW l \in 2 .. n PROVE IsKid(l)'
      OBVIOUS
    <3>2. l - 1 \in 1 .. n /\ l - 1 < n /\ (l - 1) + 1 = l
      OBVIOUS
    <3>3. l - 1 \in Labels
      BY <1>1, <3>2
    <3>4. 1 \in DOMAIN kids'[l - 1] /\ kids'[l - 1][1] = l
      BY <1>5, <3>2, <3>3
    <3> QED
      BY <3>3, <3>4 DEF IsKid
  <2>2. \A l \in Labels \ {1} : kids'[l] # <<>> => IsKid(l)'
    <3>1. \A l \in Labels \ {1} : l < n => l \in 2 .. n
      BY <1>1
    <3> QED
      BY <1>5, <2>1, <3>1
  <2>3. ASSUME NEW l \in Labels, NEW i \in DOMAIN kids'[l]
        PROVE  \E a \in Originals' : IsOriginal(a, kids[l][i])'
    <3>1. l + 1 \in 1 .. n /\ kids'[l][i] = l + 1
      BY <1>1, <1>5
    <3>2. at[l + 1] \in Originals' /\ heap'[at[l + 1]].label = l + 1
      BY <1>2, <3>1 DEF IsChain
    <3> QED
      BY <3>1, <3>2 DEF IsOriginal
  <2>4. \A l \in Labels : \A i \in DOMAIN kids'[l] : l < kids'[l][i]
    BY <1>1, <1>5
  <2>5. \A l, m \in Labels : \A i \in DOMAIN kids'[l], j \in DOMAIN kids'[m] :
          kids'[l][i] = kids'[m][j] => l = m /\ i = j
    BY <1>1, <1>5
  <2> QED
    BY <1>4, <2>1, <2>2, <2>3, <2>4, <2>5 DEF KidsInv
<1>8. LinksInv'
  <2>1. ASSUME NEW i \in 1 .. n, i < n
        PROVE  IsOriginal(at[i + 1], kids[i][1])' /\ Last(kids[i])' = kids'[i][1]
    <3>1. i + 1 \in 1 .. n /\ i \in Labels
      BY <1>1, <2>1
    <3>2. at[i + 1] \in DOMAIN heap' /\ heap'[at[i + 1]].label = i + 1
      BY <3>1
    <3>3. Len(kids'[i]) = 1 /\ kids'[i][1] = i + 1
      BY <1>5, <2>1, <3>1
    <3> QED
      BY <1>2, <3>2, <3>3 DEF IsOriginal, Last
  <2>2. ASSUME NEW a \in DOMAIN heap'
        PROVE  LET children == kids'[heap'[a].label] IN
               /\ heap'[a].count = Len(children) /\ heap'[a].next = Null
               /\ ~heap'[a].block => children = <<>>
               /\ heap'[a].block /\ children = <<>> => heap'[a].children = Null
               /\ children # <<>> => /\ IsOriginal(heap[a].children, kids[heap[a].label][1])'
                                     /\ IsOriginal(heap[a].last, Last(kids[heap[a].label]))'
    <3>1. PICK i \in 1 .. n : a = at[i]
      OBVIOUS
    <3>2. heap'[a].label = i /\ i \in Labels /\ heap'[a].next = Null
      BY <1>1, <3>1
    <3>3. CASE i < n
      <4>1. heap'[a].block /\ heap'[a].count = 1 /\ heap'[a].children = at[i + 1]
            /\ heap'[a].last = at[i + 1]
        BY <3>1, <3>3
      <4>2. Len(kids'[i]) = 1 /\ kids'[i] # <<>>
        BY <1>5, <3>2, <3>3
      <4> HIDE DEF IsChain
      <4> QED
        BY <2>1, <3>2, <3>3, <4>1, <4>2
    <3>4. CASE i = n
      <4>1. heap'[a].count = 0 /\ (heap'[a].block => heap'[a].children = Null)
        BY <3>1, <3>4
      <4>2. kids'[i] = <<>>
        BY <1>5, <3>2, <3>4
      <4> HIDE DEF IsChain
      <4> QED
        BY <3>2, <4>1, <4>2
    <3> QED
      BY <3>3, <3>4
  <2> HIDE DEF IsChain
  <2>3. ASSUME NEW l \in Labels, NEW i \in DOMAIN kids'[l]
        PROVE  i = Len(kids'[l])
    BY <1>5
  <2>4. \A a \in Originals' : heap'[a].next = Null
    BY <1>2, <2>2
  <2>5. \A l \in Labels : \A i \in DOMAIN kids'[l] :
          <<"array", l, i>> \notin DOMAIN heap'
    BY <1>1, <1>5, <1>2 DEF Moved
  <2> QED
    BY <1>2, <2>2, <2>3, <2>4, <2>5 DEF LinksInv
<1>9. todo' = {} => SolidInv'
  BY <1>2 DEF SolidInv
<1>10. \A a \in DOMAIN heap' : a[1] # "write" /\ a \in Address /\ heap'[a] \in Node
  BY <1>1
<1> QED
  BY <1>2, <1>4, <1>6, <1>7, <1>8, <1>9, <1>10

LEMMA ParseKeepsInv ==
  ASSUME TreeInv, NEW t \in ParsedTrees, Parse(t)
  PROVE  TreeInv'
<1>1. PICK n \in 1 .. 3 : \E at : IsChain(heap', kids', n, at)
  BY ParsedChain
<1>2. PICK at : IsChain(heap', kids', n, at)
  BY <1>1
<1>3. pc' = "building" /\ pc = "fresh" /\ todo' = {} /\ todo = {} /\ misfreed' = misfreed
      /\ slots' = slots /\ pool' = [pool EXCEPT !["read"] = t.pool]
      /\ buffer' = [sized |-> t.strings, allocated |-> t.strings] /\ t.strings \in BOOLEAN
      /\ live' = live \cup Chunks("read", t.pool)
                      \cup IF t.strings THEN {<<"buffer">>} ELSE {}
  BY ParsedTreeCases DEF Parse, TreeInv, SolidInv
<1>4. /\ NodesInv' /\ KidsInv' /\ LinksInv' /\ SolidInv'
      /\ \A a \in DOMAIN heap' : a[1] # "write" /\ a \in Address /\ heap'[a] \in Node
      /\ Created' = n /\ \A l : ~Moved(l)'
  BY <1>2, <1>3, ChainInv
<1>5. TreeTypeOK'
  <2>1. kids' \in [Labels -> Seq(Labels)]
    BY <1>2 DEF IsChain
  <2> QED
    BY <1>3, <1>4, <2>1, ParsePool DEF TreeTypeOK, IsPool
<1>6. PoolsInv'
  <2>1. DOMAIN slots' = DeletedCells(pool'["strings"])
    BY <1>3, ParsePool DEF TreeInv, PoolsInv
  <2>2. \A p \in PoolNames : pool'[p].lengths # <<>>
    BY <1>3, ParsePool DEF IsPool
  <2>3. "strings" \in PoolNames
    BY DEF PoolNames
  <2>4. /\ Len(pool'["write"].lengths) = 1
        /\ Len(pool'["write"].lengths) + pool'["write"].position <= Created' + 1
    <3>1. pool'["write"] = FreshPool
      BY <1>3, ParsePool
    <3>2. Created' = n
      BY <1>4
    <3> QED
      BY <3>1, <3>2, FreshPoolFacts
  <2> QED
    BY <1>3, <1>4, <2>1, <2>2, <2>3, <2>4 DEF PoolsInv
<1>7. AllocatedInv'
  <2>1. Strings' = Strings /\ ~buffer.allocated /\ \A l : ~Moved(l)
    BY <1>3, NoneMoved DEF TreeInv, AllocatedInv, Strings, Growing
  <2> QED
    BY <1>3, <1>4, <2>1, ParsePool DEF TreeInv, AllocatedInv
<1> QED
  BY <1>4, <1>5, <1>6, <1>7 DEF TreeInv
-------------------------------------------------------------------------------
(* The end of a tree. *)
LEMMA GetFromDrainedKeepsInv ==
  ASSUME TreeInv, GetFromDrained, pc \in {"fresh", "building", "solid"}
  PROVE  TreeInv'
<1> USE DEF GetFromDrained
<1>1. TreeTypeOK'
  BY DEF TreeInv, TreeTypeOK
<1>2. NodesInv' /\ KidsInv' /\ LinksInv'
  BY TreeKept DEF TreeInv, Growing
<1>3. SolidInv'
  BY DEF TreeInv, SolidInv, Growing
<1>4. PoolsInv'
  BY DEF TreeInv, PoolsInv, Growing
<1>5. AllocatedInv'
  BY DEF TreeInv, AllocatedInv, Strings, Moved
<1> QED
  BY <1>1, <1>2, <1>3, <1>4, <1>5 DEF TreeInv

LEMMA LengthZero ==
  ASSUME NEW S, NEW s \in Seq(S)
  PROVE  /\ Len(s) \in Nat /\ DOMAIN s = 1 .. Len(s)
         /\ s # <<>> <=> Len(s) > 0
         /\ s # <<>> <=> 1 \in DOMAIN s
<1>1. Len(s) \in Nat /\ DOMAIN s = 1 .. Len(s)
  OBVIOUS
<1>2. s # <<>> <=> Len(s) > 0
  BY EmptySeq
<1> QED
  BY <1>1, <1>2

LEMMA FamilyHasKids ==
  ASSUME TreeInv, NEW n \in DOMAIN heap
  PROVE  HasFamily(heap[n]) <=> kids[heap[n].label] # <<>>
<1>1. heap[n].label \in Labels /\ kids[heap[n].label] \in Seq(Labels)
  BY DEF TreeInv, TreeTypeOK, Node
<1>2. kids[heap[n].label] # <<>> <=> Len(kids[heap[n].label]) > 0
  BY <1>1, LengthZero
<1>3. heap[n].count = Len(kids[heap[n].label]) /\ (~heap[n].block => kids[heap[n].label] = <<>>)
  BY DEF TreeInv, LinksInv
<1>4. heap[n].block \in BOOLEAN
  BY DEF TreeInv, TreeTypeOK, Node
<1> QED
  BY <1>2, <1>3, <1>4 DEF HasFamily

LEMMA StartSolidifyKeepsInv == TreeInv /\ StartSolidify => TreeInv'
<1> SUFFICES ASSUME TreeInv, StartSolidify PROVE TreeInv'
  OBVIOUS
<1> USE DEF StartSolidify
<1>1. NodesInv' /\ KidsInv' /\ LinksInv'
  BY TreeKept DEF TreeInv, Growing
<1>2. RootAddress \in DOMAIN heap
  BY DEF TreeInv, NodesInv
<1>3. TreeTypeOK'
  BY <1>2 DEF TreeInv, TreeTypeOK
<1>4. SolidInv'
  <2>1. \A n \in DOMAIN heap : ~InPool(n) <=> n = RootAddress
    BY DEF TreeInv, SolidInv, NodesInv, Growing, InPool, RootAddress
  <2>2. \A n \in DOMAIN heap : ~Moved(heap[n].label)
    BY NoneMoved DEF TreeInv, Growing
  <2>3. todo' = {n \in DOMAIN heap : ~InPool(n) /\ ~Moved(heap[n].label)
                                      /\ kids[heap[n].label] # <<>>}
    BY <1>2, <2>1, <2>2, FamilyHasKids
  <2> QED
    BY <2>3 DEF SolidInv, Growing, Moved
<1>5. PoolsInv'
  BY DEF TreeInv, PoolsInv, Growing
<1>6. AllocatedInv'
  BY DEF TreeInv, AllocatedInv, Strings, Moved
<1> QED
  BY <1>1, <1>3, <1>4, <1>5, <1>6 DEF TreeInv

(* An element of an array is a child of the node the array belongs to.     *)
LEMMA ElementNode ==
  ASSUME NodesInv, NEW l, NEW i, <<"array", l, i>> \in DOMAIN heap
  PROVE  /\ l \in Labels /\ i \in DOMAIN kids[l]
         /\ heap[<<"array", l, i>>].label = kids[l][i]
         /\ <<"array", l, i>> \notin Originals /\ ~InPool(<<"array", l, i>>)
<1> DEFINE a == <<"array", l, i>>
<1>1. a[1] = "array" /\ a[2] = l /\ a[3] = i
  OBVIOUS
<1> HIDE DEF a
<1>2. a \in DOMAIN heap \ Originals
  BY <1>1 DEF a, Originals
<1> QED
  BY <1>1, <1>2 DEF NodesInv, InPool, a

LEMMA SolidArrays ==
  ASSUME TreeInv, pc = "solid"
  PROVE  Arrays(heap) = {<<"array", l>> : l \in {m \in Labels : Moved(m)}}
<1> DEFINE Holders == {b \in DOMAIN heap : heap[b].block /\ heap[b].count > 0}
<1>1. \A n \in DOMAIN heap : n \in Holders <=> kids[heap[n].label] # <<>>
  BY FamilyHasKids DEF HasFamily
<1>2. ASSUME NEW n \in Holders
      PROVE  /\ heap[n].children[2] = heap[n].label
             /\ heap[n].label \in Labels /\ Moved(heap[n].label)
  <2>1. kids[heap[n].label] # <<>> /\ heap[n].label \in Labels
    BY <1>1 DEF TreeInv, TreeTypeOK, Node
  <2>2. Moved(heap[n].label) /\ ~InPool(n)
    BY <2>1 DEF TreeInv, SolidInv
  <2>3. heap[n].children = <<"array", heap[n].label, 1>>
    BY <2>1, <2>2 DEF TreeInv, LinksInv
  <2> QED
    BY <2>1, <2>2, <2>3
<1>3. ASSUME NEW l \in Labels, Moved(l)
      PROVE  \E n \in Holders : heap[n].label = l
  <2>1. 1 \in DOMAIN kids[l] /\ kids[l] # <<>>
    <3>1. 1 \in DOMAIN kids[l]
      BY <1>3, ElementNode DEF TreeInv, Moved
    <3> QED
      BY <3>1
  <2>2. CASE l = 1
    <3>1. RootAddress \in DOMAIN heap /\ heap[RootAddress].label = 1
      BY DEF TreeInv, NodesInv
    <3> QED
      BY <1>1, <2>1, <2>2, <3>1
  <2>3. CASE l # 1
    <3>1. PICK m \in Labels : \E i \in DOMAIN kids[m] : kids[m][i] = l
      BY <2>1, <2>3 DEF TreeInv, KidsInv, IsKid
    <3>2. PICK i \in DOMAIN kids[m] : kids[m][i] = l
      BY <3>1
    <3>3. kids[m] # <<>>
      BY <3>2
    <3>4. <<"array", m, i>> \in DOMAIN heap
      BY <3>2, <3>3 DEF TreeInv, SolidInv, LinksInv
    <3>5. heap[<<"array", m, i>>].label = l
      BY <3>2, <3>4, ElementNode DEF TreeInv
    <3> QED
      BY <1>1, <2>1, <3>4, <3>5
  <2> QED
    BY <2>2, <2>3
<1>4. Arrays(heap) = {<<"array", heap[a].children[2]>> : a \in Holders}
  BY DEF Arrays
<1> HIDE DEF Holders
<1> QED
  BY <1>2, <1>3, <1>4

LEMMA DestroyKeepsInv == TreeInv /\ Destroy => TreeInv'
<1> SUFFICES ASSUME TreeInv, Destroy PROVE TreeInv'
  OBVIOUS
<1>1. /\ pc' = "destroyed" /\ pc \in {"fresh", "refused", "building", "solid"}
      /\ UNCHANGED <<pool, heap, slots, buffer, todo, kids>>
  BY DEF Destroy
<1>2. TreeTypeOK'
  BY <1>1 DEF TreeInv, TreeTypeOK
<1>3. NodesInv' /\ KidsInv' /\ LinksInv'
  BY <1>1, TreeKept DEF TreeInv, Growing
<1>4. SolidInv'
  BY <1>1 DEF TreeInv, SolidInv, Growing
<1>5. PoolsInv'
  BY <1>1 DEF TreeInv, PoolsInv, Growing
<1>6. AllocatedInv'
  <2>1. FreedBuffer = IF buffer.allocated THEN {<<"buffer">>} ELSE {}
    BY DEF FreedBuffer, TreeInv, AllocatedInv, TreeTypeOK
  <2>2. {<<"string", StringAt(c)>> : c \in DeletedCells(pool["strings"])} = Strings
    BY DEF TreeInv, PoolsInv, Strings, StringAt
  <2>3. (IF pc = "solid" THEN Arrays(heap) ELSE {})
          = {<<"array", l>> : l \in {m \in Labels : Moved(m)}}
    BY <1>1, SolidArrays, NoneMoved DEF TreeInv, Growing
  <2> DEFINE S == FreedBuffer
                    \cup {<<"string", StringAt(c)>> : c \in DeletedCells(pool["strings"])}
                    \cup (UNION {Chunks(p, pool[p]) : p \in PoolNames})
                    \cup IF pc = "solid" THEN Arrays(heap) ELSE {}
  <2>4. S = live
    BY <1>1, <2>1, <2>2, <2>3 DEF TreeInv, AllocatedInv
  <2>5. Free(S)
    BY DEF Destroy
  <2> HIDE DEF S
  <2>6. live' = {} /\ misfreed' = {}
    BY <2>4, <2>5 DEF Free, TreeInv, AllocatedInv
  <2> QED
    BY <1>1, <2>6 DEF TreeInv, AllocatedInv
<1> QED
  BY <1>2, <1>3, <1>4, <1>5, <1>6 DEF TreeInv
-------------------------------------------------------------------------------
(* Nothing is left to move once every node that Solidify has met is moved, *)
(* since a node that was not would have an ancestor that was met.          *)
LEMMA AllMoved ==
  ASSUME TreeInv, pc = "solidifying", todo = {}
  PROVE  \A l \in Labels : kids[l] # <<>> => Moved(l)
<1> DEFINE Left == {l \in Labels : kids[l] # <<>> /\ ~Moved(l)}
<1>1. SUFFICES ASSUME Left # {} PROVE FALSE
  OBVIOUS
<1>2. PICK l \in Left : \A m \in Left : l <= m
  <2>1. Left \in SUBSET Nat
    BY DEF Labels
  <2> HIDE DEF Left
  <2> QED
    BY <1>1, <2>1, LeastNatural
<1>3. l \in Labels /\ kids[l] # <<>> /\ ~Moved(l)
  BY <1>2
<1>4. \A n \in DOMAIN heap : InPool(n) \/ heap[n].label # l
  BY <1>3 DEF TreeInv, SolidInv
<1>5. l # 1
  BY <1>4 DEF TreeInv, NodesInv, InPool, RootAddress
<1>6. PICK m \in Labels : \E i \in DOMAIN kids[m] : kids[m][i] = l
  BY <1>3, <1>5 DEF TreeInv, KidsInv, IsKid
<1>7. PICK i \in DOMAIN kids[m] : kids[m][i] = l
  BY <1>6
<1>8. m < l /\ kids[m] # <<>>
  BY <1>7 DEF TreeInv, KidsInv
<1>9. m \notin Left
  BY <1>2, <1>3, <1>8 DEF Labels
<1>10. Moved(m)
  BY <1>8, <1>9
<1>11. <<"array", m, i>> \in DOMAIN heap
  BY <1>10 DEF TreeInv, LinksInv
<1> QED
  BY <1>4, <1>7, <1>11, ElementNode DEF TreeInv

LEMMA EndSolidifyKeepsInv == TreeInv /\ EndSolidify => TreeInv'
<1> SUFFICES ASSUME TreeInv, EndSolidify PROVE TreeInv'
  OBVIOUS
<1>1. /\ pc = "solidifying" /\ pc' = "solid" /\ todo = {} /\ todo' = {}
      /\ UNCHANGED <<slots, buffer, kids>>
      /\ pool' = [p \in PoolNames |->
                    IF p \in Drained THEN [lengths |-> <<>>, position |-> 0] ELSE pool[p]]
      /\ Free(UNION {Chunks(p, pool[p]) : p \in Drained})
  BY DEF EndSolidify
<1>2. /\ DOMAIN heap' = {b \in DOMAIN heap : ~InPool(b)}
      /\ \A a \in DOMAIN heap' : heap'[a] = heap[a]
  BY DEF EndSolidify
<1>3. \A l \in Labels : kids[l] # <<>> => Moved(l)
  BY <1>1, AllMoved
<1>4. Originals' = {RootAddress} /\ \A l : Moved(l)' <=> Moved(l)
  <2>1. \A a \in DOMAIN heap : a \in Originals /\ ~InPool(a) <=> a = RootAddress
    BY DEF TreeInv, NodesInv, Originals, InPool, RootAddress
  <2>2. RootAddress \in DOMAIN heap
    BY DEF TreeInv, NodesInv
  <2>3. Originals' = {RootAddress}
    BY <1>2, <2>1, <2>2 DEF Originals
  <2>4. \A l : <<"array", l, 1>> \in DOMAIN heap => ~InPool(<<"array", l, 1>>)
    BY ElementNode DEF TreeInv
  <2> QED
    BY <1>2, <2>3, <2>4 DEF Moved
<1>5. TreeTypeOK'
  <2>1. [lengths |-> <<>>, position |-> 0] \in [lengths : Seq(Nat), position : Nat]
    OBVIOUS
  <2>2. pool' \in [PoolNames -> [lengths : Seq(Nat), position : Nat]]
    BY <1>1, <2>1 DEF TreeInv, TreeTypeOK
  <2>3. ASSUME NEW p \in PoolNames, pool'[p].lengths # <<>>
        PROVE  pool'[p].position <= Last(pool'[p].lengths)
    <3>1. p \notin Drained
      BY <1>1, <2>3
    <3>2. pool'[p] = pool[p]
      BY <1>1, <3>1
    <3> QED
      BY <2>3, <3>2 DEF TreeInv, TreeTypeOK
  <2> QED
    BY <1>1, <1>2, <2>2, <2>3 DEF TreeInv, TreeTypeOK
<1>6. NodesInv'
  <2>1. \A a \in DOMAIN heap' \ Originals' : a \in DOMAIN heap \ Originals
    BY <1>2, <1>4 DEF TreeInv, NodesInv, InPool
  <2>2. RootAddress \in DOMAIN heap'
    BY <1>2 DEF TreeInv, NodesInv, InPool, RootAddress
  <2> QED
    BY <1>1, <1>2, <1>4, <2>1, <2>2 DEF TreeInv, NodesInv, Growing
<1>7. KidsInv'
  BY <1>1 DEF TreeInv, KidsInv, IsKid, Growing
<1>8. LinksInv'
  <2>1. ASSUME NEW n \in DOMAIN heap'
        PROVE  LET children == kids'[heap'[n].label] IN
               /\ heap'[n].count = Len(children)
               /\ ~heap'[n].block => children = <<>>
               /\ heap'[n].block /\ children = <<>> => heap'[n].children = Null
               /\ children # <<>> => /\ Moved(heap[n].label)' /\ ~InPool(n)
                                     /\ heap'[n].children = <<"array", heap'[n].label, 1>>
    <3>1. n \in DOMAIN heap /\ ~InPool(n) /\ heap'[n] = heap[n] /\ heap[n].label \in Labels
      BY <1>2 DEF TreeInv, TreeTypeOK, Node
    <3>2. kids[heap[n].label] # <<>> => Moved(heap[n].label)
      BY <1>3, <3>1
    <3> QED
      BY <1>1, <1>4, <3>1, <3>2 DEF TreeInv, LinksInv
  <2>2. ASSUME NEW a \in Originals', NEW l \in Labels, NEW i \in DOMAIN kids'[l]
        PROVE  heap'[a].label # kids'[l][i]
    <3>1. heap'[a].label = 1
      BY <1>2, <1>4 DEF TreeInv, NodesInv, InPool, RootAddress
    <3>2. l < kids'[l][i] /\ l \in Nat /\ l >= 1
      BY <1>1 DEF TreeInv, KidsInv, Labels
    <3> QED
      BY <3>1, <3>2
  <2>3. ASSUME NEW l \in Labels, NEW i \in DOMAIN kids'[l]
        PROVE  /\ Moved(l)' =>
                    /\ <<"array", l, i>> \in DOMAIN heap'
                    /\ heap'[<<"array", l, i>>].next =
                         IF i = Len(kids'[l]) THEN Null ELSE <<"array", l, i + 1>>
               /\ <<"array", l, i>> \in DOMAIN heap' \/ Moved(kids[l][i])' => Moved(l)'
    <3>1. <<"array", l, i>> \in DOMAIN heap => <<"array", l, i>> \in DOMAIN heap'
      BY <1>2, ElementNode DEF TreeInv
    <3> QED
      BY <1>1, <1>2, <1>4, <3>1 DEF TreeInv, LinksInv
  <2>4. ~Growing'
    BY <1>1 DEF Growing
  <2> QED
    BY <2>1, <2>2, <2>3, <2>4 DEF LinksInv
<1>9. SolidInv'
  BY <1>1, <1>2, <1>3, <1>4 DEF TreeInv, SolidInv, Growing
<1>10. PoolsInv'
  <2>1. "strings" \in PoolNames \ Drained /\ Drained \subseteq PoolNames
    BY DEF PoolNames, Drained
  <2>2. pool'["strings"] = pool["strings"]
    BY <1>1, <2>1
  <2> QED
    BY <1>1, <2>1, <2>2 DEF TreeInv, PoolsInv, Growing
<1>11. AllocatedInv'
  <2> DEFINE Freed == UNION {Chunks(p, pool[p]) : p \in Drained}
             Others == Strings \cup (IF buffer.allocated THEN {<<"buffer">>} ELSE {})
                       \cup {<<"array", l>> : l \in {m \in Labels : Moved(m)}}
  <2>1. live = (UNION {Chunks(p, pool[p]) : p \in PoolNames}) \cup Others
    BY <1>1 DEF TreeInv, AllocatedInv
  <2>2. PoolNames = Drained \cup {"strings"}
    BY DEF PoolNames, Drained
  <2>3. UNION {Chunks(p, pool[p]) : p \in PoolNames} = Freed \cup Chunks("strings", pool["strings"])
    BY <2>2
  <2>4. UNION {Chunks(p, pool'[p]) : p \in PoolNames} = Chunks("strings", pool["strings"])
    <3>1. \A p \in Drained : Chunks(p, pool'[p]) = {}
      BY <1>1, <2>2 DEF Chunks
    <3>2. pool'["strings"] = pool["strings"]
      BY <1>1, <2>2 DEF Drained
    <3> QED
      BY <2>2, <3>1, <3>2
  <2>5. Freed \cap Chunks("strings", pool["strings"]) = {}
    BY DEF Chunks, Drained
  <2>6. Freed \cap Others = {}
    <3>1. \A x \in Freed : x[1] = "chunk"
      BY DEF Chunks
    <3>2. \A x \in Others : x[1] # "chunk"
      BY DEF Strings
    <3> QED
      BY <3>1, <3>2
  <2>7. Others' = Others
    BY <1>1, <1>4 DEF Strings
  <2>8. Free(Freed)
    BY <1>1
  <2> HIDE DEF Freed, Others
  <2>9. misfreed' = {} /\ live' = Chunks("strings", pool["strings"]) \cup Others
    BY <2>1, <2>3, <2>5, <2>6, <2>8 DEF Free, TreeInv, AllocatedInv
  <2> QED
    BY <1>1, <2>4, <2>7, <2>9 DEF TreeInv, AllocatedInv, Others
<1> QED
  BY <1>5, <1>6, <1>7, <1>8, <1>9, <1>10, <1>11 DEF TreeInv
-------------------------------------------------------------------------------
(* Adding a node. *)
LEMMA FirstChild ==
  ASSUME TreeInv, NEW n \in DOMAIN heap, heap[n].block
  PROVE  /\ heap[n].count = 0 <=> kids[heap[n].label] = <<>>
         /\ Growing => (heap[n].children = Null <=> kids[heap[n].label] = <<>>)
         /\ Null \notin DOMAIN heap
<1>1. heap[n].label \in Labels /\ kids[heap[n].label] \in Seq(Labels)
  BY DEF TreeInv, TreeTypeOK, Node
<1>2. heap[n].count = 0 <=> kids[heap[n].label] = <<>>
  <2>1. heap[n].count = Len(kids[heap[n].label])
    BY DEF TreeInv, LinksInv
  <2> QED
    BY <1>1, <2>1, LengthZero
<1>3. Null \notin DOMAIN heap
  BY DEF TreeInv, NodesInv, Originals, InPool, Null, RootAddress
<1>4. ASSUME Growing, kids[heap[n].label] # <<>>
      PROVE  heap[n].children \in DOMAIN heap
  BY <1>4, NoneMoved DEF TreeInv, LinksInv, IsOriginal, Originals
<1> QED
  BY <1>2, <1>3, <1>4 DEF TreeInv, LinksInv

LEMMA WriteCell ==
  ASSUME TreeInv, Growing, Created < MaxLabels
  PROVE  LET cell == Cell("write", Got(pool["write"])) IN
         /\ cell \notin DOMAIN heap /\ cell \in Address /\ cell[1] = "write"
         /\ cell[2] = Len(Got(pool["write"]).lengths) /\ cell[3] = Got(pool["write"]).position
         /\ \A a \in DOMAIN heap : a[1] = "write" =>
              a[2] < cell[2] \/ (a[2] = cell[2] /\ a[3] <= cell[3])
         /\ IsPool(Got(pool["write"])) /\ Got(pool["write"]).position > 0
         /\ Created \in Nat
         /\ Len(Got(pool["write"]).lengths) + Got(pool["write"]).position <= Created + 2
<1> DEFINE p == pool["write"]
           q == Got(p)
<1>1. IsPool(p)
  BY DEF TreeInv, TreeTypeOK, PoolsInv, Growing, PoolNames, IsPool
<1>2. /\ IsPool(q) /\ q.position > 0
      /\ \/ Len(q.lengths) = Len(p.lengths) + 1 /\ q.position = 1
         \/ q.lengths = p.lengths /\ q.position = p.position + 1
  BY <1>1, GotPool
<1>3. /\ p.position > 0 \/ Len(p.lengths) = 1
      /\ Len(p.lengths) + p.position <= Created + 1
      /\ \A a \in DOMAIN heap : a[1] = "write" =>
           a[2] < Len(p.lengths) \/ (a[2] = Len(p.lengths) /\ a[3] <= p.position)
  BY DEF TreeInv, PoolsInv
<1> HIDE DEF p, q
<1>4. /\ Len(p.lengths) \in Nat /\ Len(p.lengths) > 0 /\ p.position \in Nat
      /\ Len(q.lengths) \in Nat /\ q.position \in Nat
  BY <1>1, <1>2, LengthZero DEF IsPool
<1>5. Created \in Nat /\ Created > 0
  <2>1. heap[RootAddress].label = 1 /\ RootAddress \in DOMAIN heap
    BY DEF TreeInv, NodesInv
  <2>2. IsFiniteSet({heap[a].label : a \in DOMAIN heap})
    <3>1. {heap[a].label : a \in DOMAIN heap} \subseteq 1 .. MaxLabels
      BY DEF TreeInv, TreeTypeOK, Node, Labels
    <3>2. IsFiniteSet(1 .. MaxLabels)
      BY FS_Interval, TreeAssumption
    <3> QED
      BY <3>1, <3>2, FS_Subset
  <2>3. {heap[a].label : a \in DOMAIN heap} # {}
    BY <2>1
  <2> QED
    BY <2>2, <2>3, FS_CardinalityType, FS_EmptySet DEF Created
<1>6. Len(q.lengths) + q.position <= Created + 2
  <2>1. CASE Len(q.lengths) = Len(p.lengths) + 1 /\ q.position = 1
    <3>1. Len(p.lengths) <= Created
      <4>1. p.position > 0 \/ Len(p.lengths) = 1
        BY <1>3
      <4>2. Len(p.lengths) + p.position <= Created + 1
        BY <1>3
      <4>3. \A x, y, c \in Nat : (y > 0 \/ x = 1) /\ x + y <= c + 1 /\ c > 0 => x <= c
        OBVIOUS
      <4> QED
        BY <1>4, <1>5, <4>1, <4>2, <4>3, Zenon
    <3> QED
      BY <1>4, <1>5, <2>1, <3>1
  <2>2. CASE q.lengths = p.lengths /\ q.position = p.position + 1
    <3>1. Len(q.lengths) = Len(p.lengths)
      BY <2>2
    <3> QED
      BY <1>3, <1>4, <1>5, <2>2, <3>1
  <2> QED
    BY <1>2, <2>1, <2>2
<1>7. ASSUME NEW a \in DOMAIN heap, a[1] = "write"
      PROVE  a[2] \in Nat /\ a[3] \in Nat
  BY AddressFacts DEF TreeInv, TreeTypeOK
<1> DEFINE cell == Cell("write", q)
<1>8. cell = <<"write", Len(q.lengths), q.position>>
  BY DEF Cell
<1>9. \A a \in DOMAIN heap : a[1] = "write" =>
        /\ a[2] < Len(q.lengths) \/ (a[2] = Len(q.lengths) /\ a[3] < q.position)
  BY <1>2, <1>3, <1>4, <1>7
<1>10. cell \notin DOMAIN heap
  <2>1. SUFFICES ASSUME cell \in DOMAIN heap PROVE FALSE
    OBVIOUS
  <2>2. cell[1] = "write" /\ cell[2] = Len(q.lengths) /\ cell[3] = q.position
    BY <1>8
  <2> HIDE DEF cell
  <2> QED
    BY <1>4, <1>9, <2>1, <2>2
<1>11. cell \in Address
  <2>1. Len(q.lengths) \in 0 .. 2 * MaxLabels /\ q.position \in 0 .. 2 * MaxLabels
    BY <1>4, <1>5, <1>6, TreeAssumption
  <2>2. "write" \in PoolNames
    BY DEF PoolNames
  <2> QED
    BY <1>8, <2>1, <2>2, AddressFacts
<1>12. cell[1] = "write" /\ cell[2] = Len(q.lengths) /\ cell[3] = q.position
  BY <1>8
<1> HIDE DEF cell
<1>13. \A a \in DOMAIN heap : a[1] = "write" =>
         a[2] < cell[2] \/ (a[2] = cell[2] /\ a[3] <= cell[3])
  BY <1>4, <1>7, <1>9, <1>12
<1> QED
  BY <1>2, <1>5, <1>6, <1>10, <1>11, <1>12, <1>13 DEF cell, q, p

(* What one insertion changes: a new cell behind the last child of n.      *)
Inserted(n, node, cell, first) ==
  /\ cell \notin DOMAIN heap /\ cell \in Address /\ cell[1] = "write"
  /\ DOMAIN heap' = DOMAIN heap \cup {cell}
  /\ heap'[cell] = node
  /\ \A a \in DOMAIN heap :
       /\ heap'[a] \in Node
       /\ heap'[a].label = heap[a].label /\ heap'[a].block = heap[a].block
       /\ heap'[a].children = IF a = n /\ first THEN cell ELSE heap[a].children
       /\ heap'[a].last = IF a = n THEN cell ELSE heap[a].last
       /\ heap'[a].count = IF a = n THEN heap[a].count + 1 ELSE heap[a].count
       /\ heap'[a].next = IF ~first /\ a = heap[n].last THEN cell ELSE heap[a].next
  /\ kids' = [kids EXCEPT ![heap[n].label] = Append(@, node.label)]

LEMMA LinkedNode ==
  ASSUME NEW h, NEW n \in DOMAIN h, \A a \in DOMAIN h : h[a] \in Node,
         NEW cell \in Address, NEW first \in BOOLEAN, ~first => h[n].last \in DOMAIN h,
         NEW g, g = LinkedBehind(h, n, cell, first)
  PROVE  /\ DOMAIN g = DOMAIN h
         /\ \A a \in DOMAIN h :
              /\ g[a] \in Node
              /\ g[a].label = h[a].label /\ g[a].block = h[a].block
              /\ g[a].children = IF a = n /\ first THEN cell ELSE h[a].children
              /\ g[a].last = IF a = n THEN cell ELSE h[a].last
              /\ g[a].count = IF a = n THEN h[a].count + 1 ELSE h[a].count
              /\ g[a].next = IF ~first /\ a = h[n].last THEN cell ELSE h[a].next
              /\ a # n /\ (~first => a # h[n].last) => g[a] = h[a]
<1> DEFINE older == IF first THEN h ELSE [h EXCEPT ![h[n].last].next = cell]
<1>1. g = [older EXCEPT ![n].children = IF first THEN cell ELSE @,
                        ![n].last = cell, ![n].count = @ + 1]
  BY DEF LinkedBehind
<1>2. /\ DOMAIN older = DOMAIN h
      /\ \A a \in DOMAIN h :
           /\ older[a] \in Node
           /\ older[a].label = h[a].label /\ older[a].block = h[a].block
           /\ older[a].children = h[a].children /\ older[a].last = h[a].last
           /\ older[a].count = h[a].count
           /\ older[a].next = IF ~first /\ a = h[n].last THEN cell ELSE h[a].next
           /\ (~first => a # h[n].last) => older[a] = h[a]
  <2>1. CASE first
    BY <2>1
  <2>2. CASE ~first
    <3>1. older = [h EXCEPT ![h[n].last].next = cell]
      BY <2>2
    <3> HIDE DEF older
    <3> QED
      BY <2>2, <3>1 DEF Node
  <2> QED
    BY <2>1, <2>2
<1> HIDE DEF older
<1>3. /\ DOMAIN g = DOMAIN older /\ \A a \in DOMAIN older : a # n => g[a] = older[a]
      /\ g[n] \in Node
      /\ g[n].label = older[n].label /\ g[n].block = older[n].block
      /\ g[n].children = (IF first THEN cell ELSE older[n].children)
      /\ g[n].last = cell /\ g[n].count = older[n].count + 1 /\ g[n].next = older[n].next
  <2> DEFINE child == IF first THEN cell ELSE older[n].children
  <2>1. n \in DOMAIN older /\ older[n] \in Node
    BY <1>2
  <2>2. child \in Address
    BY <2>1 DEF Node
  <2>3. g = [older EXCEPT ![n].children = child, ![n].last = cell, ![n].count = @ + 1]
    BY <1>1
  <2> HIDE DEF child
  <2>4. DOMAIN g = DOMAIN older /\ \A a \in DOMAIN older : a # n => g[a] = older[a]
    BY <2>1, <2>3
  <2>5. g[n].label = older[n].label
    BY <2>1, <2>3 DEF Node
  <2>6. g[n].block = older[n].block
    BY <2>1, <2>3 DEF Node
  <2>7. g[n].children = child /\ g[n].last = cell
    BY <2>1, <2>3 DEF Node
  <2>8. g[n].count = older[n].count + 1
    BY <2>1, <2>3 DEF Node
  <2>9. g[n].next = older[n].next
    BY <2>1, <2>3 DEF Node
  <2>10. g[n] \in Node
    BY <2>1, <2>2, <2>3 DEF Node
  <2> QED
    BY <2>4, <2>5, <2>6, <2>7, <2>8, <2>9, <2>10 DEF child
<1> QED
  BY <1>2, <1>3

LEMMA LinkedNodes ==
  ASSUME TreeInv, Growing, NEW n \in DOMAIN heap, heap[n].block,
         NEW node \in Node, NEW cell \in Address, cell \notin DOMAIN heap, cell[1] = "write",
         NEW first \in BOOLEAN, first <=> kids[heap[n].label] = <<>>,
         heap' = LinkedBehind([a \in DOMAIN heap \cup {cell} |->
                                 IF a = cell THEN node ELSE heap[a]], n, cell, first),
         kids' = [kids EXCEPT ![heap[n].label] = Append(@, node.label)]
  PROVE  Inserted(n, node, cell, first)
<1> DEFINE wide == [a \in DOMAIN heap \cup {cell} |-> IF a = cell THEN node ELSE heap[a]]
<1>1. /\ DOMAIN wide = DOMAIN heap \cup {cell} /\ wide[cell] = node
      /\ \A a \in DOMAIN heap : wide[a] = heap[a] /\ heap[a] \in Node
  BY DEF TreeInv, TreeTypeOK
<1>2. ~first => heap[n].last \in DOMAIN heap
  BY DEF TreeInv, LinksInv, IsOriginal, Originals
<1>3. heap' = LinkedBehind(wide, n, cell, first)
  OBVIOUS
<1> HIDE DEF wide
<1>4. \A a \in DOMAIN wide : wide[a] \in Node
  BY <1>1
<1>5. /\ DOMAIN heap' = DOMAIN wide
      /\ \A a \in DOMAIN wide :
           /\ heap'[a] \in Node
           /\ heap'[a].label = wide[a].label /\ heap'[a].block = wide[a].block
           /\ heap'[a].children = IF a = n /\ first THEN cell ELSE wide[a].children
           /\ heap'[a].last = IF a = n THEN cell ELSE wide[a].last
           /\ heap'[a].count = IF a = n THEN wide[a].count + 1 ELSE wide[a].count
           /\ heap'[a].next = IF ~first /\ a = wide[n].last THEN cell ELSE wide[a].next
           /\ a # n /\ (~first => a # wide[n].last) => heap'[a] = wide[a]
  BY <1>1, <1>2, <1>3, <1>4, LinkedNode
<1>6. wide[n] = heap[n]
  BY <1>1
<1>7. heap'[cell] = node
  <2>1. cell # n /\ (~first => cell # wide[n].last)
    BY <1>2, <1>6
  <2>2. cell \in DOMAIN wide
    BY <1>1
  <2>3. heap'[cell] = wide[cell]
    BY <1>5, <2>1, <2>2
  <2> QED
    BY <1>1, <2>3
<1>8. ASSUME NEW a \in DOMAIN heap
      PROVE  /\ heap'[a] \in Node
             /\ heap'[a].label = heap[a].label /\ heap'[a].block = heap[a].block
             /\ heap'[a].children = IF a = n /\ first THEN cell ELSE heap[a].children
             /\ heap'[a].last = IF a = n THEN cell ELSE heap[a].last
             /\ heap'[a].count = IF a = n THEN heap[a].count + 1 ELSE heap[a].count
             /\ heap'[a].next = IF ~first /\ a = heap[n].last THEN cell ELSE heap[a].next
  <2>1. a \in DOMAIN wide /\ wide[a] = heap[a] /\ wide[n].last = heap[n].last
    BY <1>1, <1>6
  <2>2. /\ heap'[a] \in Node
        /\ heap'[a].label = wide[a].label /\ heap'[a].block = wide[a].block
        /\ heap'[a].children = IF a = n /\ first THEN cell ELSE wide[a].children
        /\ heap'[a].last = IF a = n THEN cell ELSE wide[a].last
        /\ heap'[a].count = IF a = n THEN wide[a].count + 1 ELSE wide[a].count
        /\ heap'[a].next = IF ~first /\ a = wide[n].last THEN cell ELSE wide[a].next
    BY <1>5, <2>1, Zenon
  <2> QED
    BY <2>1, <2>2, Zenon
<1> QED
  BY <1>1, <1>5, <1>7, <1>8 DEF Inserted

(* The facts of an insertion that all the parts of the invariant need.     *)
LEMMA InsertedKids ==
  ASSUME TreeInv, Growing, Created < MaxLabels, NEW n \in DOMAIN heap, heap[n].block,
         NEW node \in Node, node.label = NextLabel, NEW cell,
         Inserted(n, node, cell, kids[heap[n].label] = <<>>), Growing'
  PROVE  /\ Created \in Nat /\ NextLabel = Created + 1 /\ NextLabel \in Labels
         /\ Created' = NextLabel
         /\ {heap'[a].label : a \in DOMAIN heap'} = 1 .. NextLabel
         /\ \A a \in DOMAIN heap : heap[a].label \in Labels /\ heap[a].label <= Created
         /\ Originals = DOMAIN heap /\ Originals' = DOMAIN heap'
         /\ \A l : ~Moved(l) /\ ~Moved(l)'
<1>1. Created \in Nat
  BY WriteCell
<1>2. NextLabel = Created + 1 /\ NextLabel \in Labels
  BY <1>1, TreeAssumption DEF NextLabel, Labels
<1>3. {heap[a].label : a \in DOMAIN heap} = 1 .. Created
  BY DEF TreeInv, NodesInv
<1>4. {heap'[a].label : a \in DOMAIN heap'} = 1 .. NextLabel
  <2>1. {heap'[a].label : a \in DOMAIN heap'} = {heap[a].label : a \in DOMAIN heap} \cup {NextLabel}
    BY DEF Inserted
  <2>2. 1 .. (Created + 1) = (1 .. Created) \cup {Created + 1}
    BY <1>1
  <2> QED
    BY <1>2, <1>3, <2>1, <2>2
<1>5. Created' = NextLabel
  <2>1. Cardinality(1 .. NextLabel) = NextLabel
    BY <1>1, <1>2, FS_Interval
  <2> QED
    BY <1>4, <2>1 DEF Created
<1>6. \A a \in DOMAIN heap : heap[a].label \in Labels /\ heap[a].label <= Created
  <2>1. \A a \in DOMAIN heap : heap[a].label \in 1 .. Created
    BY <1>3
  <2> QED
    BY <2>1 DEF TreeInv, TreeTypeOK, Node
<1>7. Originals = DOMAIN heap /\ Originals' = DOMAIN heap'
  BY DEF TreeInv, SolidInv, Originals, Inserted
<1>8. \A l : ~Moved(l)
  BY NoneMoved DEF TreeInv
<1>9. \A l : ~Moved(l)'
  <2>1. SUFFICES ASSUME NEW l PROVE ~Moved(l)'
    OBVIOUS
  <2>2. <<"array", l, 1>> # cell
    BY DEF Inserted
  <2> QED
    BY <1>8, <2>2 DEF Inserted, Moved
<1> QED
  BY <1>1, <1>2, <1>4, <1>5, <1>6, <1>7, <1>8, <1>9

(* The children after an insertion: those before it, and the new label     *)
(* behind them, which is larger than every label in use.                   *)
ChildrenAfter(n) ==
  LET parent == heap[n].label
      older == Len(kids[parent])
  IN
  /\ parent \in Labels /\ parent < NextLabel /\ older \in Nat
  /\ kids[parent] \in Seq(Labels)
  /\ kids' \in [Labels -> Seq(Labels)]
  /\ \A l \in Labels : l # parent => kids'[l] = kids[l]
  /\ Len(kids'[parent]) = older + 1 /\ kids'[parent] # <<>>
  /\ kids'[parent][older + 1] = NextLabel
  /\ \A i \in 1 .. older : kids'[parent][i] = kids[parent][i]
  /\ Last(kids'[parent]) = NextLabel
  /\ \A l \in Labels : \A i \in DOMAIN kids[l] :
       /\ i \in DOMAIN kids'[l] /\ kids'[l][i] = kids[l][i]
       /\ kids[l][i] <= Created /\ kids[l][i] # NextLabel
  /\ \A l \in Labels : \A i \in DOMAIN kids'[l] :
       \/ i \in DOMAIN kids[l] /\ kids'[l][i] = kids[l][i]
       \/ l = parent /\ i = older + 1 /\ kids'[l][i] = NextLabel
  /\ \A l \in Labels : kids[l] \in Seq(Labels) /\ DOMAIN kids[l] = 1 .. Len(kids[l])
  /\ kids'[NextLabel] = <<>> /\ older + 1 \in DOMAIN kids'[parent]

LEMMA InsertedChildren ==
  ASSUME TreeInv, Growing, Created < MaxLabels, NEW n \in DOMAIN heap, heap[n].block,
         NEW node \in Node, node.label = NextLabel, NEW cell,
         Inserted(n, node, cell, kids[heap[n].label] = <<>>), Growing'
  PROVE  ChildrenAfter(n)
<1> DEFINE parent == heap[n].label
           older == Len(kids[parent])
<1>1. /\ Created \in Nat /\ NextLabel = Created + 1 /\ NextLabel \in Labels
      /\ \A a \in DOMAIN heap : heap[a].label \in Labels /\ heap[a].label <= Created
      /\ Originals = DOMAIN heap
  BY InsertedKids
<1>2. /\ kids \in [Labels -> Seq(Labels)] /\ Labels \subseteq Nat
      /\ \A l \in Labels : kids[l] \in Seq(Labels) /\ DOMAIN kids[l] = 1 .. Len(kids[l])
                           /\ Len(kids[l]) \in Nat
  BY DEF TreeInv, TreeTypeOK, Labels
<1>3. parent \in Labels /\ parent < NextLabel /\ parent \in Nat
  BY <1>1, <1>2 DEF Labels
<1>4. kids' = [kids EXCEPT ![parent] = Append(@, NextLabel)]
  BY DEF Inserted
<1> HIDE DEF parent
<1>5. kids'[parent] = Append(kids[parent], NextLabel) /\ \A l \in Labels : l # parent => kids'[l] = kids[l]
  BY <1>2, <1>3, <1>4
<1>6. /\ kids'[parent] \in Seq(Labels) /\ Len(kids'[parent]) = older + 1
      /\ DOMAIN kids'[parent] = 1 .. older + 1 /\ DOMAIN kids[parent] = 1 .. older
      /\ older \in Nat /\ \A i \in 1 .. older : kids'[parent][i] = kids[parent][i]
      /\ kids'[parent][older + 1] = NextLabel
  BY <1>1, <1>2, <1>3, <1>5, AppendCells
<1>7. kids' \in [Labels -> Seq(Labels)]
  BY <1>2, <1>3, <1>4, <1>5, <1>6
<1>8. Last(kids'[parent]) = NextLabel /\ kids'[parent] # <<>>
  BY <1>6, LengthZero DEF Last
<1>9. ASSUME NEW l \in Labels, NEW i \in DOMAIN kids[l]
      PROVE  kids[l][i] <= Created /\ kids[l][i] # NextLabel /\ l < kids[l][i]
  <2>1. PICK a \in Originals : IsOriginal(a, kids[l][i])
    BY DEF TreeInv, KidsInv
  <2>2. kids[l][i] <= Created /\ kids[l][i] \in Nat
    BY <1>1, <1>2, <2>1 DEF IsOriginal
  <2>3. l < kids[l][i]
    BY DEF TreeInv, KidsInv
  <2> QED
    BY <1>1, <2>2, <2>3
<1>10. kids'[NextLabel] = <<>>
  <2>1. kids[NextLabel] = <<>>
    <3>1. SUFFICES ASSUME kids[NextLabel] # <<>> PROVE FALSE
      OBVIOUS
    <3>2. 1 \in DOMAIN kids[NextLabel]
      BY <1>1, <1>2, <3>1, LengthZero
    <3>3. kids[NextLabel][1] <= Created /\ NextLabel < kids[NextLabel][1]
      BY <1>1, <1>9, <3>2
    <3>4. kids[NextLabel][1] \in Nat
      BY <1>1, <1>2, <3>2
    <3> QED
      BY <1>1, <3>3, <3>4
  <2> QED
    BY <1>1, <1>3, <1>5, <2>1
<1>11. ASSUME NEW l \in Labels, NEW i \in DOMAIN kids[l]
       PROVE  i \in DOMAIN kids'[l] /\ kids'[l][i] = kids[l][i]
  BY <1>5, <1>6
<1>12. ASSUME NEW l \in Labels, NEW i \in DOMAIN kids'[l]
       PROVE  \/ i \in DOMAIN kids[l] /\ kids'[l][i] = kids[l][i]
              \/ l = parent /\ i = older + 1 /\ kids'[l][i] = NextLabel
  BY <1>5, <1>6
<1> QED
  BY <1>2, <1>3, <1>5, <1>6, <1>7, <1>8, <1>9, <1>10, <1>11, <1>12 DEF parent, ChildrenAfter

LEMMA InsertedNodesInv ==
  ASSUME TreeInv, Growing, Created < MaxLabels, NEW n \in DOMAIN heap, heap[n].block,
         NEW node \in Node, node.label = NextLabel, NEW cell,
         Inserted(n, node, cell, kids[heap[n].label] = <<>>), Growing'
  PROVE  NodesInv' /\ \A a, b \in DOMAIN heap' : heap'[a].label = heap'[b].label => a = b
<1>1. /\ Created \in Nat /\ NextLabel = Created + 1 /\ Created' = NextLabel
      /\ {heap'[a].label : a \in DOMAIN heap'} = 1 .. NextLabel
      /\ \A a \in DOMAIN heap : heap[a].label \in Labels /\ heap[a].label <= Created
      /\ Originals = DOMAIN heap /\ Originals' = DOMAIN heap'
  BY InsertedKids
<1>2. /\ cell[1] = "write" /\ DOMAIN heap' = DOMAIN heap \cup {cell}
      /\ heap'[cell].label = NextLabel
      /\ \A a \in DOMAIN heap : heap'[a].label = heap[a].label /\ heap'[a].block = heap[a].block
  BY DEF Inserted
<1>3. /\ RootAddress \in DOMAIN heap /\ heap[RootAddress].label = 1 /\ heap[RootAddress].block
      /\ \A a \in DOMAIN heap : a = RootAddress \/ InPool(a)
      /\ \A a, b \in DOMAIN heap : heap[a].label = heap[b].label => a = b
  BY <1>1 DEF TreeInv, NodesInv
<1>4. \A a \in DOMAIN heap : heap'[a].label # heap'[cell].label
  BY <1>1, <1>2 DEF Labels
<1>5. \A a, b \in DOMAIN heap' : heap'[a].label = heap'[b].label => a = b
  BY <1>2, <1>3, <1>4
<1>6. \A a \in DOMAIN heap' : a = RootAddress \/ InPool(a)
  BY <1>2, <1>3 DEF InPool
<1> QED
  BY <1>1, <1>2, <1>3, <1>5, <1>6 DEF NodesInv

LEMMA InsertedKidsInv ==
  ASSUME TreeInv, Growing, Created < MaxLabels, NEW n \in DOMAIN heap, heap[n].block,
         NEW node \in Node, node.label = NextLabel, NEW cell,
         Inserted(n, node, cell, kids[heap[n].label] = <<>>), Growing'
  PROVE  KidsInv'
<1> DEFINE parent == heap[n].label
           older == Len(kids[parent])
<1>0. ChildrenAfter(n)
  BY InsertedChildren
<1>1. /\ parent \in Labels /\ parent < NextLabel /\ older \in Nat
      /\ older + 1 \in DOMAIN kids'[parent] /\ kids'[parent][older + 1] = NextLabel
      /\ \A l \in Labels : DOMAIN kids[l] = 1 .. Len(kids[l])
      /\ kids'[NextLabel] = <<>>
  BY <1>0 DEF ChildrenAfter
<1>2. \A l \in Labels : \A i \in DOMAIN kids[l] :
        i \in DOMAIN kids'[l] /\ kids'[l][i] = kids[l][i]
        /\ kids[l][i] <= Created /\ kids[l][i] # NextLabel
  BY <1>0 DEF ChildrenAfter
<1>3. \A l \in Labels : \A i \in DOMAIN kids'[l] :
             \/ i \in DOMAIN kids[l] /\ kids'[l][i] = kids[l][i]
             \/ l = parent /\ i = older + 1 /\ kids'[l][i] = NextLabel
  BY <1>0 DEF ChildrenAfter
<1>4. \A l \in Labels : l # parent => kids'[l] = kids[l]
  BY <1>0 DEF ChildrenAfter
<1>5. /\ Created \in Nat /\ NextLabel = Created + 1 /\ Created' = NextLabel /\ NextLabel \in Labels
      /\ \A a \in DOMAIN heap : heap[a].label <= Created
      /\ Originals = DOMAIN heap /\ Originals' = DOMAIN heap'
  BY InsertedKids
<1>6. /\ cell \in DOMAIN heap' /\ heap'[cell].label = NextLabel
      /\ \A a \in DOMAIN heap : a \in DOMAIN heap' /\ heap'[a].label = heap[a].label
  BY DEF Inserted
<1>7. /\ \A l \in Labels : \A i \in DOMAIN kids[l] : l < kids[l][i]
      /\ \A l, m \in Labels : \A i \in DOMAIN kids[l], j \in DOMAIN kids[m] :
           kids[l][i] = kids[m][j] => l = m /\ i = j
      /\ \A l \in Labels \ {1} : kids[l] # <<>> => IsKid(l)
      /\ \A l \in 2 .. Created : IsKid(l)
      /\ \A l \in Labels : \A i \in DOMAIN kids[l] : \E a \in Originals : IsOriginal(a, kids[l][i])
  BY DEF TreeInv, KidsInv
<1> HIDE DEF parent, older
<1>8. \A l \in Labels : \A i \in DOMAIN kids'[l] : l < kids'[l][i]
  BY <1>1, <1>3, <1>7
<1>9. \A l, m \in Labels : \A i \in DOMAIN kids'[l], j \in DOMAIN kids'[m] :
        kids'[l][i] = kids'[m][j] => l = m /\ i = j
  BY <1>2, <1>3, <1>7
<1>10. \A l : IsKid(l) => IsKid(l)'
  BY <1>2 DEF IsKid
<1>11. \A l \in 2 .. NextLabel : IsKid(l)'
  <2>1. \A c : c = NextLabel => IsKid(c)'
    BY <1>1 DEF IsKid
  <2>2. \A l \in 2 .. NextLabel : l \in 2 .. Created \/ l = NextLabel
    BY <1>5
  <2> QED
    BY <1>7, <1>10, <2>1, <2>2
<1>12. \A l \in Labels \ {1} : kids'[l] # <<>> => IsKid(l)'
  <2>1. parent \in Nat /\ parent >= 1 /\ parent <= Created
    BY <1>1, <1>5 DEF Labels, parent
  <2>2. parent # 1 => parent \in 2 .. NextLabel
    BY <1>5, <2>1
  <2> QED
    BY <1>4, <1>7, <1>10, <1>11, <2>2
<1>13. ASSUME NEW l \in Labels, NEW i \in DOMAIN kids'[l]
       PROVE  \E a \in Originals' : IsOriginal(a, kids[l][i])'
  <2>1. CASE i \in DOMAIN kids[l] /\ kids'[l][i] = kids[l][i]
    <3>1. PICK a \in Originals : IsOriginal(a, kids[l][i])
      BY <1>7, <2>1
    <3>2. a \in Originals' /\ heap'[a].label = kids'[l][i]
      BY <1>5, <1>6, <2>1, <3>1 DEF IsOriginal
    <3> QED
      BY <3>2 DEF IsOriginal
  <2>2. CASE kids'[l][i] = NextLabel
    BY <1>5, <1>6, <2>2 DEF IsOriginal
  <2> QED
    BY <1>3, <2>1, <2>2
<1> QED
  BY <1>5, <1>8, <1>9, <1>11, <1>12, <1>13 DEF KidsInv

LEMMA InsertedLinks ==
  ASSUME TreeInv, Growing, Created < MaxLabels, NEW n \in DOMAIN heap, heap[n].block,
         NEW node \in Node, node.label = NextLabel, node.count = 0, node.next = Null,
         node.block => node.children = Null, NEW cell,
         Inserted(n, node, cell, kids[heap[n].label] = <<>>), Growing'
  PROVE  LinksInv'
<1> DEFINE parent == heap[n].label
           older == Len(kids[parent])
<1>0. ChildrenAfter(n)
  BY InsertedChildren
<1>1. /\ parent \in Labels /\ older \in Nat /\ kids[parent] \in Seq(Labels)
      /\ \A l \in Labels : l # parent => kids'[l] = kids[l]
      /\ Len(kids'[parent]) = older + 1 /\ kids'[parent] # <<>>
      /\ kids'[parent][older + 1] = NextLabel /\ Last(kids'[parent]) = NextLabel
      /\ \A i \in 1 .. older : kids'[parent][i] = kids[parent][i]
      /\ \A l \in Labels : kids[l] \in Seq(Labels) /\ DOMAIN kids[l] = 1 .. Len(kids[l])
      /\ kids'[NextLabel] = <<>>
  BY <1>0 DEF ChildrenAfter
<1>2. \A l \in Labels : \A i \in DOMAIN kids[l] :
        i \in DOMAIN kids'[l] /\ kids'[l][i] = kids[l][i] /\ kids[l][i] # NextLabel
  BY <1>0 DEF ChildrenAfter
<1>3. \A l \in Labels : \A i \in DOMAIN kids'[l] :
             \/ i \in DOMAIN kids[l] /\ kids'[l][i] = kids[l][i]
             \/ l = parent /\ i = older + 1 /\ kids'[l][i] = NextLabel
  BY <1>0 DEF ChildrenAfter
<1>4. /\ Created \in Nat /\ NextLabel = Created + 1 /\ NextLabel \in Labels
      /\ \A a \in DOMAIN heap : heap[a].label \in Labels /\ heap[a].label <= Created
      /\ Originals = DOMAIN heap /\ Originals' = DOMAIN heap'
      /\ \A l : ~Moved(l) /\ ~Moved(l)'
  BY InsertedKids
<1> DEFINE first == kids[parent] = <<>>
<1>5. /\ DOMAIN heap' = DOMAIN heap \cup {cell} /\ heap'[cell] = node
      /\ \A a \in DOMAIN heap :
           /\ heap'[a].label = heap[a].label /\ heap'[a].block = heap[a].block
           /\ heap'[a].children = IF a = n /\ first THEN cell ELSE heap[a].children
           /\ heap'[a].last = IF a = n THEN cell ELSE heap[a].last
           /\ heap'[a].count = IF a = n THEN heap[a].count + 1 ELSE heap[a].count
           /\ heap'[a].next = IF ~first /\ a = heap[n].last THEN cell ELSE heap[a].next
  BY DEF Inserted
<1>6. \A a, b \in DOMAIN heap : heap[a].label = heap[b].label => a = b
  BY <1>4 DEF TreeInv, NodesInv
<1>7. ASSUME NEW a \in DOMAIN heap
      PROVE  /\ heap[a].count = Len(kids[heap[a].label])
             /\ ~heap[a].block => kids[heap[a].label] = <<>>
             /\ heap[a].block /\ kids[heap[a].label] = <<>> => heap[a].children = Null
             /\ kids[heap[a].label] # <<>> =>
                  /\ IsOriginal(heap[a].children, kids[heap[a].label][1])
                  /\ IsOriginal(heap[a].last, Last(kids[heap[a].label]))
  BY <1>4 DEF TreeInv, LinksInv
<1>8. ASSUME NEW a \in DOMAIN heap, NEW l \in Labels, NEW i \in DOMAIN kids[l],
             heap[a].label = kids[l][i]
      PROVE  IF i = Len(kids[l]) THEN heap[a].next = Null
             ELSE IsOriginal(heap[a].next, kids[l][i + 1])
  BY <1>4, <1>8 DEF TreeInv, LinksInv
<1>9. /\ \A a, l : IsOriginal(a, l) => IsOriginal(a, l)'
      /\ \A c : c = NextLabel => IsOriginal(cell, c)'
  BY <1>4, <1>5 DEF IsOriginal
<1>10. \A l, m \in Labels : \A i \in DOMAIN kids[l], j \in DOMAIN kids[m] :
         kids[l][i] = kids[m][j] => l = m /\ i = j
  BY DEF TreeInv, KidsInv
<1>11. first <=> older = 0
  BY <1>1, LengthZero
<1> HIDE DEF first, older, parent
<1>12. ASSUME NEW a \in DOMAIN heap'
       PROVE  LET children == kids'[heap'[a].label] IN
              /\ heap'[a].count = Len(children)
              /\ ~heap'[a].block => children = <<>>
              /\ heap'[a].block /\ children = <<>> => heap'[a].children = Null
              /\ children # <<>> => /\ IsOriginal(heap[a].children, kids[heap[a].label][1])'
                                    /\ IsOriginal(heap[a].last, Last(kids[heap[a].label]))'
  <2>1. CASE a = cell
    <3>1. heap'[a] = node /\ kids'[heap'[a].label] = <<>>
      BY <1>1, <1>5, <2>1
    <3> QED
      BY <3>1
  <2>2. CASE a \in DOMAIN heap /\ a # n
    <3>1. heap[a].label \in Labels /\ heap[a].label # parent
      BY <1>4, <1>6, <2>2 DEF parent
    <3>2. kids'[heap'[a].label] = kids[heap[a].label] /\ heap'[a].label = heap[a].label
      BY <1>1, <1>5, <2>2, <3>1
    <3>3. /\ heap'[a].count = heap[a].count /\ heap'[a].block = heap[a].block
          /\ heap'[a].children = heap[a].children /\ heap'[a].last = heap[a].last
      BY <1>5, <2>2
    <3> QED
      BY <1>7, <1>9, <2>2, <3>2, <3>3
  <2>3. CASE a = n
    <3>1. /\ heap'[n].label = parent /\ heap'[n].block /\ heap'[n].count = heap[n].count + 1
          /\ heap'[n].last = cell
          /\ heap'[n].children = IF first THEN cell ELSE heap[n].children
      BY <1>5 DEF parent
    <3>2. heap[n].count = older
      BY <1>7 DEF parent, older
    <3>3. IsOriginal(heap[n].last, Last(kids[heap[n].label]))'
      BY <1>1, <1>9, <3>1
    <3>4. IsOriginal(heap[n].children, kids[heap[n].label][1])'
      <4>1. CASE first
        BY <1>1, <1>9, <1>11, <3>1, <4>1
      <4>2. CASE ~first
        <5>1. kids'[parent][1] = kids[parent][1]
          BY <1>1, <1>11, <4>2
        <5>2. IsOriginal(heap[n].children, kids[parent][1])
          BY <1>7, <4>2 DEF parent, first
        <5> QED
          BY <1>9, <3>1, <4>2, <5>1, <5>2
      <4> QED
        BY <4>1, <4>2
    <3> QED
      BY <1>1, <2>3, <3>1, <3>2, <3>3, <3>4
  <2> QED
    BY <1>5, <2>1, <2>2, <2>3
<1>13. ASSUME NEW a \in DOMAIN heap', NEW l \in Labels, NEW i \in DOMAIN kids'[l],
              heap'[a].label = kids'[l][i]
       PROVE  IF i = Len(kids'[l]) THEN heap'[a].next = Null
              ELSE IsOriginal(heap[a].next, kids[l][i + 1])'
  <2>1. CASE a = cell
    <3>1. kids'[l][i] = NextLabel /\ heap'[a].next = Null
      BY <1>5, <1>13, <2>1
    <3>2. l = parent /\ i = older + 1
      BY <1>2, <1>3, <3>1
    <3> QED
      BY <1>1, <3>1, <3>2
  <2>2. CASE a \in DOMAIN heap
    <3>0. heap[a].label # NextLabel
      BY <1>4, <2>2 DEF Labels
    <3>1. heap[a].label = kids[l][i] /\ i \in DOMAIN kids[l] /\ kids'[l][i] = kids[l][i]
      BY <1>3, <1>5, <1>13, <2>2, <3>0
    <3>2. CASE ~first /\ a = heap[n].last
      <4>1. IsOriginal(a, Last(kids[parent]))
        BY <1>7, <3>2 DEF parent, first
      <4>2. Last(kids[parent]) = kids[parent][older] /\ older \in DOMAIN kids[parent]
        BY <1>1, <1>11, <3>2 DEF Last, older
      <4>3. l = parent /\ i = older
        <5>1. kids[l][i] = kids[parent][older]
          BY <3>1, <4>1, <4>2 DEF IsOriginal
        <5> QED
          BY <1>1, <1>10, <3>1, <4>2, <5>1
      <4>4. heap'[a].next = cell
        BY <1>5, <2>2, <3>2
      <4> QED
        BY <1>1, <1>9, <4>3, <4>4
    <3>3. CASE ~(~first /\ a = heap[n].last)
      <4>1. heap'[a].next = heap[a].next
        BY <1>5, <2>2, <3>3
      <4>2. CASE l # parent
        <5>1. kids'[l] = kids[l]
          BY <1>1, <4>2
        <5> QED
          BY <1>8, <1>9, <2>2, <3>1, <4>1, <5>1
      <4>3. CASE l = parent
        <5>1. i \in 1 .. older /\ ~first
          BY <1>1, <1>11, <3>1, <4>3 DEF older
        <5>2. i # older
          <6>1. SUFFICES ASSUME i = older PROVE FALSE
            OBVIOUS
          <6>2. IsOriginal(heap[n].last, kids[parent][older])
            BY <1>7, <5>1 DEF parent, first, Last, older
          <6> QED
            BY <1>6, <2>2, <3>1, <3>3, <4>3, <5>1, <6>1, <6>2 DEF IsOriginal, Originals
        <5>3. i # Len(kids[l]) /\ i # Len(kids'[l]) /\ i + 1 \in 1 .. older
          BY <1>1, <4>3, <5>1, <5>2 DEF older
        <5>4. kids'[l][i + 1] = kids[l][i + 1]
          BY <1>1, <4>3, <5>3
        <5>5. IsOriginal(heap[a].next, kids[l][i + 1])
          BY <1>8, <2>2, <3>1, <5>3
        <5> QED
          BY <1>9, <4>1, <5>3, <5>4, <5>5
      <4> QED
        BY <4>2, <4>3
    <3> QED
      BY <3>2, <3>3
  <2> QED
    BY <1>5, <2>1, <2>2
<1>14. \A l, i : <<"array", l, i>> \notin DOMAIN heap'
  <2>1. SUFFICES ASSUME NEW l, NEW i, <<"array", l, i>> \in DOMAIN heap' PROVE FALSE
    OBVIOUS
  <2>2. <<"array", l, i>> \in Originals'
    BY <1>4, <2>1
  <2> QED
    BY <2>2 DEF Originals
<1> QED
  BY <1>4, <1>12, <1>13, <1>14 DEF LinksInv

LEMMA InsertKeepsInv ==
  ASSUME TreeInv, Growing, Created < MaxLabels, NEW n \in DOMAIN heap, heap[n].block,
         NEW node \in {NewPair(NextLabel), NewBlock(NextLabel)},
         NEW first \in BOOLEAN, first <=> kids[heap[n].label] = <<>>,
         NEW stringsPool, IsPool(stringsPool),
         NEW cells, DeletedCells(stringsPool) = DeletedCells(pool["strings"]) \cup cells,
         cells \cap DeletedCells(pool["strings"]) = {},
         \A name : Chunks(name, pool["strings"]) \subseteq Chunks(name, stringsPool),
         Insert(n, node, first, stringsPool, cells)
  PROVE  TreeInv'
<1> DEFINE nodesPool == Got(pool["write"])
           cell == Cell("write", nodesPool)
           added == {<<"string", <<node.label, c>>>> : c \in cells}
<1>1. /\ pool' = [pool EXCEPT !["write"] = nodesPool, !["strings"] = stringsPool]
      /\ heap' = LinkedBehind([a \in DOMAIN heap \cup {cell} |->
                                 IF a = cell THEN node ELSE heap[a]], n, cell, first)
      /\ slots' = [c \in DOMAIN slots \cup cells |->
                     IF c \in cells THEN <<node.label, c>> ELSE slots[c]]
      /\ live' = live \cup added \cup Chunks("write", nodesPool) \cup Chunks("strings", stringsPool)
      /\ kids' = [kids EXCEPT ![heap[n].label] = Append(@, node.label)]
      /\ pc' = "building" /\ UNCHANGED <<buffer, misfreed, todo>>
  BY DEF Insert, Growing
<1>2. Growing'
  BY <1>1 DEF Growing
<1>3. /\ cell \notin DOMAIN heap /\ cell \in Address /\ cell[1] = "write"
      /\ cell[2] = Len(nodesPool.lengths) /\ cell[3] = nodesPool.position
      /\ \A a \in DOMAIN heap : a[1] = "write" =>
           a[2] < cell[2] \/ (a[2] = cell[2] /\ a[3] <= cell[3])
      /\ IsPool(nodesPool) /\ nodesPool.position > 0 /\ Created \in Nat
      /\ Len(nodesPool.lengths) + nodesPool.position <= Created + 2
  BY WriteCell
<1>4. NextLabel \in Labels
  BY <1>3, TreeAssumption DEF NextLabel, Labels
<1>5. /\ node \in Node /\ node.label = NextLabel /\ node.count = 0 /\ node.next = Null
      /\ node.block => node.children = Null
  BY <1>4, NewNodes
<1>6. IsPool(pool["write"]) /\ IsPool(pool["strings"])
  BY DEF TreeInv, TreeTypeOK, PoolsInv, Growing, PoolNames, IsPool
<1>7. \A name : Chunks(name, pool["write"]) \subseteq Chunks(name, nodesPool)
  BY <1>6, GotCells
<1> HIDE DEF nodesPool, cell, added
<1>8. Inserted(n, node, cell, first)
  BY <1>1, <1>3, <1>5, LinkedNodes
<1>9. Inserted(n, node, cell, kids[heap[n].label] = <<>>)
  <2>1. first = (kids[heap[n].label] = <<>>)
    OBVIOUS
  <2> QED
    BY <1>8, <2>1, Zenon
<1>10. /\ Originals' = DOMAIN heap' /\ Created' = Created + 1
       /\ \A l : ~Moved(l) /\ ~Moved(l)'
  BY <1>2, <1>5, <1>9, InsertedKids DEF NextLabel
<1>11. NodesInv' /\ KidsInv' /\ LinksInv' /\ kids' \in [Labels -> Seq(Labels)]
  <2>1. NodesInv'
    BY <1>2, <1>5, <1>9, InsertedNodesInv
  <2>2. KidsInv'
    BY <1>2, <1>5, <1>9, InsertedKidsInv
  <2>3. LinksInv'
    BY <1>2, <1>5, <1>9, InsertedLinks
  <2>4. kids' \in [Labels -> Seq(Labels)]
    BY <1>2, <1>5, <1>9, InsertedChildren DEF ChildrenAfter
  <2> QED
    BY <2>1, <2>2, <2>3, <2>4
<1>12. /\ pool' \in [PoolNames -> [lengths : Seq(Nat), position : Nat]]
       /\ \A p \in PoolNames : pool'[p] = IF p = "write" THEN nodesPool
                                          ELSE IF p = "strings" THEN stringsPool ELSE pool[p]
       /\ \A p \in PoolNames : IsPool(pool'[p])
  <2>1. pool \in [PoolNames -> [lengths : Seq(Nat), position : Nat]]
        /\ \A p \in PoolNames : IsPool(pool[p])
    BY DEF TreeInv, TreeTypeOK, PoolsInv, Growing, IsPool
  <2>2. \A p \in PoolNames : pool'[p] = IF p = "write" THEN nodesPool
                                        ELSE IF p = "strings" THEN stringsPool ELSE pool[p]
    BY <1>1, <2>1
  <2>3. DOMAIN pool' = PoolNames /\ pool' = [p \in PoolNames |-> pool'[p]]
    BY <1>1, <2>1
  <2>4. \A p \in PoolNames : IsPool(pool'[p])
    BY <1>3, <2>1, <2>2
  <2>5. pool' \in [PoolNames -> [lengths : Seq(Nat), position : Nat]]
    BY <2>3, <2>4 DEF IsPool
  <2> QED
    BY <2>2, <2>4, <2>5
<1>13. "write" \in PoolNames /\ "strings" \in PoolNames
  BY DEF PoolNames
<1>14. TreeTypeOK'
  <2>1. \A a \in DOMAIN heap' : a \in Address /\ heap'[a] \in Node
    BY <1>3, <1>5, <1>8 DEF Inserted, TreeInv, TreeTypeOK
  <2>2. todo' \subseteq DOMAIN heap' /\ buffer' \in [sized : BOOLEAN, allocated : BOOLEAN]
    BY <1>1, <1>8 DEF Inserted, TreeInv, TreeTypeOK
  <2>3. \A p \in PoolNames : pool'[p].position <= Last(pool'[p].lengths)
    BY <1>12 DEF IsPool
  <2> QED
    BY <1>1, <1>11, <1>12, <2>1, <2>2, <2>3 DEF TreeTypeOK
<1>15. SolidInv'
  <2>1. todo' = {}
    BY <1>1 DEF TreeInv, SolidInv, Growing
  <2> QED
    BY <1>1, <1>10, <2>1 DEF SolidInv
<1>16. PoolsInv'
  <2>1. pool'["write"] = nodesPool /\ pool'["strings"] = stringsPool
    BY <1>12, <1>13
  <2>2. DOMAIN slots' = DeletedCells(pool'["strings"])
    BY <1>1, <2>1 DEF TreeInv, PoolsInv
  <2>3. \A a \in DOMAIN heap' : a[1] = "write" =>
          a[2] < cell[2] \/ (a[2] = cell[2] /\ a[3] <= cell[3])
    <3>1. cell[2] \in Nat /\ cell[3] \in Nat
      BY <1>3, AddressFacts
    <3> QED
      BY <1>3, <1>8, <3>1 DEF Inserted
  <2>4. \A p \in PoolNames : pool'[p].lengths # <<>>
    BY <1>12 DEF IsPool
  <2>5. Len(nodesPool.lengths) + nodesPool.position <= Created' + 1
    <3>1. Len(nodesPool.lengths) \in Nat /\ nodesPool.position \in Nat
      BY <1>3 DEF IsPool
    <3> QED
      BY <1>3, <1>10, <3>1
  <2> QED
    BY <1>1, <1>3, <1>13, <2>1, <2>2, <2>3, <2>4, <2>5 DEF PoolsInv
<1>17. AllocatedInv'
  <2>1. UNION {Chunks(p, pool'[p]) : p \in PoolNames}
          = (UNION {Chunks(p, pool[p]) : p \in PoolNames})
            \cup Chunks("write", nodesPool) \cup Chunks("strings", stringsPool)
    <3>1. PoolNames = {"read", "write", "strings"}
      BY DEF PoolNames
    <3>2. /\ pool'["write"] = nodesPool /\ pool'["strings"] = stringsPool
          /\ pool'["read"] = pool["read"]
      BY <1>12, <3>1
    <3>3. \A f : UNION {Chunks(p, f[p]) : p \in PoolNames}
                   = Chunks("read", f["read"]) \cup Chunks("write", f["write"])
                     \cup Chunks("strings", f["strings"])
      BY <3>1
    <3> QED
      BY <1>7, <3>2, <3>3
  <2>2. Strings' = Strings \cup added
    <3>1. DOMAIN slots \cap cells = {}
      BY DEF TreeInv, PoolsInv
    <3> QED
      BY <1>1, <3>1 DEF Strings, added
  <2>3. buffer.allocated => buffer.sized /\ pc \notin {"fresh", "refused"}
    BY DEF TreeInv, AllocatedInv
  <2>4. live = (UNION {Chunks(p, pool[p]) : p \in PoolNames}) \cup Strings
               \cup (IF buffer.allocated THEN {<<"buffer">>} ELSE {})
    BY <1>10 DEF TreeInv, AllocatedInv, Growing
  <2>5. live' = (UNION {Chunks(p, pool'[p]) : p \in PoolNames}) \cup Strings'
                \cup (IF buffer.allocated THEN {<<"buffer">>} ELSE {})
    BY <1>1, <2>1, <2>2, <2>4
  <2>6. misfreed' = {}
    BY <1>1 DEF TreeInv, AllocatedInv
  <2> QED
    BY <1>1, <1>10, <2>3, <2>5, <2>6 DEF AllocatedInv
<1> QED
  BY <1>11, <1>14, <1>15, <1>16, <1>17 DEF TreeInv

LEMMA GrowsFacts ==
  ASSUME TreeInv, NEW n \in DOMAIN heap, NEW insertion, Grows(n, insertion)
  PROVE  /\ heap[n].block
         /\ \/ GetFromDrained /\ pc \in {"fresh", "building", "solid"}
            \/ Growing /\ Created < MaxLabels /\ insertion
<1>1. pc = "solid" => pool["write"].lengths = <<>>
  BY DEF TreeInv, PoolsInv, Drained
<1>2. Growing => pool["write"].lengths # <<>>
  BY DEF TreeInv, PoolsInv, Growing, PoolNames
<1> QED
  BY <1>1, <1>2 DEF Grows, Growing

LEMMA AddKeepsInv ==
  ASSUME TreeInv, NEW n \in DOMAIN heap, Add(n)
  PROVE  TreeInv'
<1> DEFINE keyPool == Got(pool["strings"])
           valuePool == Got(keyPool)
           cells == {Cell("strings", keyPool), Cell("strings", valuePool)}
           insertion == Insert(n, NewPair(NextLabel), heap[n].children = Null, valuePool, cells)
<1>1. Grows(n, insertion)
  BY DEF Add
<1>2. CASE GetFromDrained /\ pc \in {"fresh", "building", "solid"}
  BY <1>2, GetFromDrainedKeepsInv
<1>3. CASE Growing /\ Created < MaxLabels /\ insertion /\ heap[n].block
  <2>1. IsPool(pool["strings"])
    BY <1>3 DEF TreeInv, TreeTypeOK, PoolsInv, Growing, PoolNames, IsPool
  <2>2. /\ IsPool(keyPool)
        /\ DeletedCells(keyPool) = DeletedCells(pool["strings"]) \cup {Cell("strings", keyPool)}
        /\ Cell("strings", keyPool) \notin DeletedCells(pool["strings"])
        /\ \A name : Chunks(name, pool["strings"]) \subseteq Chunks(name, keyPool)
    BY <2>1, GotPool, GotCells
  <2> HIDE DEF keyPool
  <2>3. /\ IsPool(valuePool)
        /\ DeletedCells(valuePool) = DeletedCells(keyPool) \cup {Cell("strings", valuePool)}
        /\ Cell("strings", valuePool) \notin DeletedCells(keyPool)
        /\ \A name : Chunks(name, keyPool) \subseteq Chunks(name, valuePool)
    BY <2>2, GotPool, GotCells
  <2> HIDE DEF valuePool
  <2>4. /\ DeletedCells(valuePool) = DeletedCells(pool["strings"]) \cup cells
        /\ cells \cap DeletedCells(pool["strings"]) = {}
        /\ \A name : Chunks(name, pool["strings"]) \subseteq Chunks(name, valuePool)
    BY <2>2, <2>3
  <2>5. (heap[n].children = Null) \in BOOLEAN
        /\ ((heap[n].children = Null) <=> kids[heap[n].label] = <<>>)
    BY <1>3, FirstChild
  <2>6. insertion
    BY <1>3
  <2> DEFINE first == heap[n].children = Null
  <2>7. Insert(n, NewPair(NextLabel), first, valuePool, cells)
    BY <2>6
  <2>8. first \in BOOLEAN /\ (first <=> kids[heap[n].label] = <<>>)
    BY <2>5
  <2> HIDE DEF cells, first
  <2> QED
    BY <1>3, <2>3, <2>4, <2>7, <2>8, InsertKeepsInv
<1> QED
  BY <1>1, <1>2, <1>3, GrowsFacts

LEMMA AddNodeKeepsInv ==
  ASSUME TreeInv, NEW n \in DOMAIN heap, AddNode(n)
  PROVE  TreeInv'
<1> DEFINE keyPool == Got(pool["strings"])
           cells == {Cell("strings", keyPool)}
           insertion == Insert(n, NewBlock(NextLabel), heap[n].count = 0, keyPool, cells)
<1>1. Grows(n, insertion)
  BY DEF AddNode
<1>2. CASE GetFromDrained /\ pc \in {"fresh", "building", "solid"}
  BY <1>2, GetFromDrainedKeepsInv
<1>3. CASE Growing /\ Created < MaxLabels /\ insertion /\ heap[n].block
  <2>1. IsPool(pool["strings"])
    BY <1>3 DEF TreeInv, TreeTypeOK, PoolsInv, Growing, PoolNames, IsPool
  <2>2. /\ IsPool(keyPool)
        /\ DeletedCells(keyPool) = DeletedCells(pool["strings"]) \cup cells
        /\ Cell("strings", keyPool) \notin DeletedCells(pool["strings"])
        /\ \A name : Chunks(name, pool["strings"]) \subseteq Chunks(name, keyPool)
    BY <2>1, GotPool, GotCells
  <2>3. cells \cap DeletedCells(pool["strings"]) = {}
    BY <2>2
  <2> DEFINE first == heap[n].count = 0
  <2>4. Insert(n, NewBlock(NextLabel), first, keyPool, cells)
    BY <1>3
  <2>5. first \in BOOLEAN /\ (first <=> kids[heap[n].label] = <<>>)
    BY <1>3, FirstChild
  <2> HIDE DEF keyPool, cells, first
  <2> QED
    BY <1>3, <2>2, <2>3, <2>4, <2>5, InsertKeepsInv
<1> QED
  BY <1>1, <1>2, <1>3, GrowsFacts

-------------------------------------------------------------------------------
(* Reading and moving the children of a node.  What counts to the last     *)
(* child, and what follows next until null, reads the list, whatever its   *)
(* addresses are.                                                          *)
IsList(h, n, len, at) ==
  /\ h[n].children = at[1] /\ at[len + 1] = Null
  /\ \A i \in 1 .. len : at[i] \in DOMAIN h /\ h[at[i]].next = at[i + 1]

LEMMA ListWalk ==
  ASSUME NEW h, NEW n, NEW len \in Nat, NEW k \in 0 .. len + 1, NEW at, IsList(h, n, len, at)
  PROVE  \A i \in 1 .. k : Walk(h, n, k)[i] = at[i]
<1> USE DEF IsList
<1> DEFINE f == [i \in 1 .. k |-> at[i]]
<1>1. k \in Nat
  OBVIOUS
<1>2. ASSUME NEW i \in 1 .. k
      PROVE  f[i] = IF i = 1 THEN h[n].children
                    ELSE IF f[i - 1] \in DOMAIN h THEN h[f[i - 1]].next ELSE Null
  <2>1. CASE i = 1
    BY <2>1
  <2>2. CASE i # 1
    <3>1. i - 1 \in 1 .. k /\ i - 1 \in 1 .. len /\ (i - 1) + 1 = i
      BY <2>2
    <3>2. at[i - 1] \in DOMAIN h /\ h[at[i - 1]].next = at[i]
      BY <3>1
    <3>3. f[i - 1] = at[i - 1] /\ f[i] = at[i]
      BY <3>1
    <3> HIDE DEF f
    <3> QED
      BY <2>2, <3>2, <3>3
  <2> QED
    BY <2>1, <2>2
<1>3. f = [i \in 1 .. k |-> IF i = 1 THEN h[n].children
                            ELSE IF f[i - 1] \in DOMAIN h THEN h[f[i - 1]].next ELSE Null]
  <2>1. f = [i \in 1 .. k |-> f[i]]
    OBVIOUS
  <2> HIDE DEF f
  <2> QED
    BY <1>2, <2>1
<1> HIDE DEF f
<1>4. Walk(h, n, k) = f
  BY <1>1, <1>3, WalkFollows
<1> QED
  BY <1>4 DEF f

(* The children of a node that is not moved lie in the pools.              *)
LEMMA PoolWalk ==
  ASSUME TreeInv, Growing \/ pc = "solidifying", NEW n \in DOMAIN heap,
         kids[heap[n].label] # <<>>, ~Moved(heap[n].label),
         NEW k \in 0 .. Len(kids[heap[n].label]) + 1
  PROVE  LET children == kids[heap[n].label] IN
         \A i \in 1 .. k : IF i = Len(children) + 1 THEN Walk(heap, n, k)[i] = Null
                           ELSE IsOriginal(Walk(heap, n, k)[i], children[i])
<1> DEFINE l == heap[n].label
           len == Len(kids[l])
           node(i) == CHOOSE a \in Originals : IsOriginal(a, kids[l][i])
           at == [i \in 1 .. len + 1 |-> IF i = len + 1 THEN Null ELSE node(i)]
<1>1. l \in Labels /\ len \in Nat /\ DOMAIN kids[l] = 1 .. len /\ len > 0
  BY LengthZero DEF TreeInv, TreeTypeOK, Node
<1>2. \A i \in 1 .. len : \E a \in Originals : IsOriginal(a, kids[l][i])
  BY <1>1 DEF TreeInv, KidsInv
<1>3. \A i \in 1 .. len : node(i) \in Originals /\ IsOriginal(node(i), kids[l][i])
  BY <1>2
<1>4. \A a, b, m : IsOriginal(a, m) /\ IsOriginal(b, m) => a = b
  BY DEF TreeInv, NodesInv, IsOriginal
<1> HIDE DEF node
<1>5. IsOriginal(heap[n].children, kids[l][1])
  BY DEF TreeInv, LinksInv
<1>6. \A i \in 1 .. len : IF i = len THEN heap[node(i)].next = Null
                          ELSE IsOriginal(heap[node(i)].next, kids[l][i + 1])
  BY <1>1, <1>3 DEF TreeInv, LinksInv, IsOriginal
<1> HIDE DEF l, len
<1>7. heap[n].children = at[1]
  BY <1>1, <1>3, <1>4, <1>5
<1>8. ASSUME NEW i \in 1 .. len
      PROVE  at[i] \in DOMAIN heap /\ heap[at[i]].next = at[i + 1]
  <2>1. at[i] = node(i) /\ node(i) \in DOMAIN heap
    BY <1>1, <1>3 DEF Originals
  <2>2. heap[node(i)].next = at[i + 1]
    <3>1. CASE i = len
      BY <1>1, <1>6, <3>1
    <3>2. CASE i # len
      <4>1. i + 1 \in 1 .. len
        BY <1>1, <3>2
      <4>2. at[i + 1] = node(i + 1)
        BY <1>1, <4>1
      <4> QED
        BY <1>3, <1>4, <1>6, <3>2, <4>1, <4>2
    <3> QED
      BY <3>1, <3>2
  <2> QED
    BY <2>1, <2>2
<1>9. at[len + 1] = Null /\ \A i \in 1 .. len : at[i] = node(i)
  BY <1>1
<1>10. k \in 0 .. len + 1
  BY DEF l, len
<1> HIDE DEF at
<1>11. \A i \in 1 .. k : Walk(heap, n, k)[i] = at[i]
  <2>1. \A i \in 1 .. len : at[i] \in DOMAIN heap /\ heap[at[i]].next = at[i + 1]
    BY <1>8
  <2>2. IsList(heap, n, len, at)
    BY <1>7, <1>9, <2>1 DEF IsList
  <2> QED
    BY <1>1, <1>10, <2>2, ListWalk
<1>12. ASSUME NEW i \in 1 .. k
       PROVE  IF i = len + 1 THEN Walk(heap, n, k)[i] = Null
              ELSE IsOriginal(Walk(heap, n, k)[i], kids[l][i])
  <2>1. i # len + 1 => i \in 1 .. len
    BY <1>1, <1>10
  <2> QED
    BY <1>3, <1>9, <1>11, <2>1
<1> QED
  BY <1>12 DEF l, len

(* Outside the pools a label is given once: to the root, and to the        *)
(* elements of the arrays.                                                 *)
LEMMA OutsidePools ==
  ASSUME TreeInv
  PROVE  /\ \A a, b \in DOMAIN heap :
              ~InPool(a) /\ ~InPool(b) /\ heap[a].label = heap[b].label => a = b
         /\ \A a \in DOMAIN heap : ~InPool(a) =>
              \/ a = RootAddress
              \/ /\ a[2] \in Labels /\ a[3] \in DOMAIN kids[a[2]]
                 /\ a = <<"array", a[2], a[3]>> /\ heap[a].label = kids[a[2]][a[3]]
                 /\ heap[a].label # 1
<1>1. ASSUME NEW a \in DOMAIN heap, ~InPool(a)
      PROVE  \/ a = RootAddress
             \/ /\ a[2] \in Labels /\ a[3] \in DOMAIN kids[a[2]]
                /\ a = <<"array", a[2], a[3]>> /\ heap[a].label = kids[a[2]][a[3]]
                /\ heap[a].label # 1
  <2>1. CASE a \in Originals
    BY <1>1, <2>1 DEF TreeInv, NodesInv
  <2>2. CASE a \notin Originals
    <3>1. /\ a[2] \in Labels /\ a[3] \in DOMAIN kids[a[2]]
          /\ a = <<"array", a[2], a[3]>> /\ heap[a].label = kids[a[2]][a[3]]
      BY <2>2 DEF TreeInv, NodesInv
    <3>2. a[2] < kids[a[2]][a[3]]
      BY <3>1 DEF TreeInv, KidsInv
    <3>3. a[2] \in Nat /\ a[2] >= 1
      BY <3>1 DEF Labels
    <3>4. heap[a].label # 1
      BY <3>1, <3>2, <3>3
    <3> QED
      BY <3>1, <3>4
  <2> QED
    BY <2>1, <2>2
<1>2. heap[RootAddress].label = 1
  BY DEF TreeInv, NodesInv
<1>3. \A l, m \in Labels : \A i \in DOMAIN kids[l], j \in DOMAIN kids[m] :
        kids[l][i] = kids[m][j] => l = m /\ i = j
  BY DEF TreeInv, KidsInv
<1>4. ASSUME NEW a \in DOMAIN heap, NEW b \in DOMAIN heap, ~InPool(a), ~InPool(b),
             heap[a].label = heap[b].label
      PROVE  a = b
  <2>1. CASE heap[a].label = 1
    BY <1>1, <1>4, <2>1
  <2>2. CASE heap[a].label # 1
    <3>1. /\ a[2] \in Labels /\ a[3] \in DOMAIN kids[a[2]]
          /\ a = <<"array", a[2], a[3]>> /\ heap[a].label = kids[a[2]][a[3]]
      BY <1>1, <1>2, <1>4, <2>2
    <3>2. /\ b[2] \in Labels /\ b[3] \in DOMAIN kids[b[2]]
          /\ b = <<"array", b[2], b[3]>> /\ heap[b].label = kids[b[2]][b[3]]
      BY <1>1, <1>2, <1>4, <2>2
    <3>3. a[2] = b[2] /\ a[3] = b[3]
      <4>1. kids[a[2]][a[3]] = kids[b[2]][b[3]]
        BY <1>4, <3>1, <3>2, Zenon
      <4>2. a[2] \in Labels /\ b[2] \in Labels /\ a[3] \in DOMAIN kids[a[2]] /\ b[3] \in DOMAIN kids[b[2]]
        BY <3>1, <3>2, Zenon
      <4> QED
        BY <1>3, <4>1, <4>2
    <3> QED
      BY <3>1, <3>2, <3>3, Zenon
  <2> QED
    BY <2>1, <2>2
<1> QED
  BY <1>1, <1>4

(* A node has no more children than there are labels, so the elements of   *)
(* its array have addresses.                                               *)
LEMMA KidsBounded ==
  ASSUME TreeInv, NEW l \in Labels
  PROVE  /\ Len(kids[l]) \in Nat /\ Len(kids[l]) <= MaxLabels
         /\ \A i \in 1 .. Len(kids[l]) + 1 : <<"array", l, i>> \in Address
<1>1. kids[l] \in Seq(Labels) /\ Len(kids[l]) \in Nat /\ DOMAIN kids[l] = 1 .. Len(kids[l])
  BY LengthZero DEF TreeInv, TreeTypeOK
<1>2. Len(kids[l]) <= MaxLabels
  <2>1. kids[l] \in [1 .. Len(kids[l]) -> Labels]
    BY <1>1
  <2>2. \A i, j \in 1 .. Len(kids[l]) : kids[l][i] = kids[l][j] => i = j
    BY <1>1 DEF TreeInv, KidsInv
  <2>3. IsFiniteSet(1 .. Len(kids[l])) /\ Cardinality(1 .. Len(kids[l])) = Len(kids[l])
    BY <1>1, FS_Interval
  <2>4. IsFiniteSet(Labels) /\ Cardinality(Labels) = MaxLabels
    BY FS_Interval, TreeAssumption DEF Labels
  <2>5. ~(Cardinality(Labels) < Cardinality(1 .. Len(kids[l])))
    BY <2>1, <2>2, <2>3, <2>4, FS_PigeonHole
  <2> QED
    BY <1>1, <2>3, <2>4, <2>5, TreeAssumption
<1>3. \A i \in 1 .. Len(kids[l]) + 1 : i \in 0 .. 2 * MaxLabels
  BY <1>1, <1>2, TreeAssumption
<1>4. l \in 0 .. 2 * MaxLabels
  BY TreeAssumption DEF Labels
<1> QED
  BY <1>1, <1>2, <1>3, <1>4, AddressFacts

(* What the move of the children of n does: a copy of every child in the   *)
(* array, each linked to the next, and the array linked to n.              *)
Element(l, i) == <<"array", l, i>>

Copied(n, l) ==
  /\ DOMAIN heap' = DOMAIN heap \cup {Element(l, i) : i \in DOMAIN kids[l]}
  /\ \A a \in DOMAIN heap :
       /\ heap'[a] \in Node
       /\ heap'[a].label = heap[a].label /\ heap'[a].block = heap[a].block
       /\ heap'[a].count = heap[a].count /\ heap'[a].next = heap[a].next
       /\ heap'[a].children = IF a = n THEN Element(l, 1) ELSE heap[a].children
  /\ \A i \in DOMAIN kids[l] :
       /\ Element(l, i) \notin DOMAIN heap /\ Element(l, i) \in Address
       /\ heap'[Element(l, i)] \in Node
       /\ heap'[Element(l, i)].next = IF i = Len(kids[l]) THEN Null ELSE Element(l, i + 1)
       /\ \E a \in Originals :
            /\ IsOriginal(a, kids[l][i])
            /\ heap'[Element(l, i)].label = kids[l][i]
            /\ heap'[Element(l, i)].block = heap[a].block
            /\ heap'[Element(l, i)].count = heap[a].count
            /\ heap'[Element(l, i)].children = heap[a].children

LEMMA NextNode ==
  ASSUME NEW node \in Node, NEW a \in Address
  PROVE  LET other == [node EXCEPT !.next = a] IN
         /\ other \in Node /\ other.label = node.label /\ other.block = node.block
         /\ other.count = node.count /\ other.children = node.children /\ other.next = a
BY DEF Node

LEMMA ChildrenNode ==
  ASSUME NEW node \in Node, NEW a \in Address
  PROVE  LET other == [node EXCEPT !.children = a] IN
         /\ other \in Node /\ other.label = node.label /\ other.block = node.block
         /\ other.count = node.count /\ other.children = a /\ other.next = node.next
BY DEF Node

LEMMA SolidifyCopies ==
  ASSUME TreeInv, NEW n \in DOMAIN heap, SolidifyNode(n)
  PROVE  LET l == heap[n].label IN
         /\ Copied(n, l)
         /\ live' = live \cup {<<"array", l>>}
         /\ todo' = (todo \ {n}) \cup {Element(l, i) : i \in {j \in DOMAIN kids[l] :
                                                              HasFamily(heap'[Element(l, j)])}}
         /\ l \in Labels /\ kids[l] # <<>> /\ ~InPool(n) /\ ~Moved(l) /\ n \in todo
         /\ pc = "solidifying" /\ UNCHANGED <<pool, slots, buffer, misfreed, pc, kids>>
<1> DEFINE l == heap[n].label
           len == Len(kids[l])
           list == Walk(heap, n, len)
           element(i) == IF i > len THEN Null ELSE <<"array", l, i>>
           elements == {element(i) : i \in 1 .. len}
<1>1. /\ pc = "solidifying" /\ n \in todo /\ UNCHANGED <<pool, slots, buffer, misfreed, pc, kids>>
  BY DEF SolidifyNode
<1>2. ~InPool(n) /\ ~Moved(l) /\ kids[l] # <<>> /\ l \in Labels
  BY <1>1 DEF TreeInv, SolidInv, TreeTypeOK, Node
<1>3. heap[n].count = len
  BY DEF TreeInv, LinksInv
<1>4. /\ heap' = [a \in DOMAIN heap \cup elements |->
                    IF a \in elements THEN [heap[list[a[3]]] EXCEPT !.next = element(a[3] + 1)]
                    ELSE IF a = n THEN [heap[a] EXCEPT !.children = element(1)]
                    ELSE heap[a]]
      /\ live' = live \cup {<<"array", l>>}
      /\ todo' = (todo \ {n}) \cup {a \in elements : HasFamily(heap'[a])}
  BY <1>3 DEF SolidifyNode, StillToMove
<1>5. len \in Nat /\ len > 0 /\ DOMAIN kids[l] = 1 .. len
  BY <1>2, LengthZero DEF TreeInv, TreeTypeOK
<1>6. \A i \in 1 .. len : IsOriginal(list[i], kids[l][i])
  <2>1. len \in 0 .. len + 1 /\ \A i \in 1 .. len : i # len + 1
    BY <1>5
  <2> QED
    BY <1>1, <1>2, <2>1, PoolWalk
<1>7. \A i \in 1 .. len : Element(l, i) \in Address
  BY <1>2, <1>5, KidsBounded DEF Element
<1>8. \A i \in 1 .. len : Element(l, i) \notin DOMAIN heap
  BY <1>2, <1>5 DEF TreeInv, LinksInv, Element
<1>9. /\ \A i \in 1 .. len : element(i) = Element(l, i)
      /\ \A i \in 1 .. len : element(i + 1) = IF i = len THEN Null ELSE Element(l, i + 1)
      /\ \A i : Element(l, i)[3] = i
      /\ element(1) = Element(l, 1)
  BY <1>5 DEF Element
<1>10. elements = {Element(l, i) : i \in 1 .. len}
  BY <1>9
<1>11. \A a \in DOMAIN heap : a \notin elements /\ heap[a] \in Node
  BY <1>8, <1>10 DEF TreeInv, TreeTypeOK
<1> HIDE DEF element, elements, list, len, l
<1>12. DOMAIN heap' = DOMAIN heap \cup {Element(l, i) : i \in DOMAIN kids[l]}
  BY <1>4, <1>5, <1>10
<1>13. ASSUME NEW a \in DOMAIN heap
       PROVE  /\ heap'[a] \in Node
              /\ heap'[a].label = heap[a].label /\ heap'[a].block = heap[a].block
              /\ heap'[a].count = heap[a].count /\ heap'[a].next = heap[a].next
              /\ heap'[a].children = IF a = n THEN Element(l, 1) ELSE heap[a].children
  <2>1. CASE a = n
    <3>1. heap'[a] = [heap[a] EXCEPT !.children = Element(l, 1)]
      BY <1>4, <1>9, <1>11, <2>1
    <3>2. heap[a] \in Node /\ Element(l, 1) \in Address
      BY <1>5, <1>7, <1>11
    <3> QED
      BY <2>1, <3>1, <3>2, ChildrenNode
  <2>2. CASE a # n
    BY <1>4, <1>11, <2>2
  <2> QED
    BY <2>1, <2>2
<1>14. ASSUME NEW i \in 1 .. len
       PROVE  /\ heap'[Element(l, i)] \in Node
              /\ heap'[Element(l, i)].next = IF i = len THEN Null ELSE Element(l, i + 1)
              /\ \E a \in Originals :
                   /\ IsOriginal(a, kids[l][i])
                   /\ heap'[Element(l, i)].label = kids[l][i]
                   /\ heap'[Element(l, i)].block = heap[a].block
                   /\ heap'[Element(l, i)].count = heap[a].count
                   /\ heap'[Element(l, i)].children = heap[a].children
  <2> DEFINE e == Element(l, i)
             next == IF i = len THEN Null ELSE Element(l, i + 1)
  <2>1. e \in elements /\ e[3] = i /\ element(i + 1) = next
    BY <1>9, <1>10
  <2> HIDE DEF e, next
  <2>2. heap'[e] = [heap[list[i]] EXCEPT !.next = next]
    BY <1>4, <2>1
  <2>3. list[i] \in Originals /\ IsOriginal(list[i], kids[l][i])
        /\ heap[list[i]].label = kids[l][i] /\ heap[list[i]] \in Node
    BY <1>6, <1>11 DEF IsOriginal, Originals
  <2>4. next \in Address
    <3>1. i # len => i + 1 \in 1 .. len
      BY <1>5
    <3> QED
      BY <1>7, <3>1, AddressFacts DEF next
  <2>5. /\ heap'[e] \in Node /\ heap'[e].label = heap[list[i]].label
        /\ heap'[e].block = heap[list[i]].block /\ heap'[e].count = heap[list[i]].count
        /\ heap'[e].children = heap[list[i]].children /\ heap'[e].next = next
    BY <2>2, <2>3, <2>4, NextNode
  <2>6. /\ heap'[e] \in Node /\ heap'[e].next = next
        /\ \E a \in Originals :
             /\ IsOriginal(a, kids[l][i]) /\ heap'[e].label = kids[l][i]
             /\ heap'[e].block = heap[a].block /\ heap'[e].count = heap[a].count
             /\ heap'[e].children = heap[a].children
    BY <2>3, <2>5
  <2> QED
    BY <2>6 DEF e, next
<1>15. Copied(n, l)
  BY <1>5, <1>7, <1>8, <1>12, <1>13, <1>14 DEF Copied, len
<1>16. todo' = (todo \ {n}) \cup {Element(l, i) : i \in {j \in DOMAIN kids[l] :
                                                         HasFamily(heap'[Element(l, j)])}}
  BY <1>4, <1>5, <1>10
<1> QED
  BY <1>1, <1>2, <1>4, <1>15, <1>16 DEF l

LEMMA CopiedFacts ==
  ASSUME TreeInv, pc = "solidifying", UNCHANGED <<pc, kids>>, NEW n \in DOMAIN heap, NEW l,
         l = heap[n].label, l \in Labels, kids[l] # <<>>, ~Moved(l), ~InPool(n), Copied(n, l)
  PROVE  /\ Originals' = Originals /\ \A a, m : IsOriginal(a, m)' <=> IsOriginal(a, m)
         /\ \A m \in Labels : Moved(m)' <=> Moved(m) \/ m = l
         /\ \A i \in DOMAIN kids[l] : /\ kids[l][i] # l /\ ~Moved(kids[l][i])
                                      /\ kids[l][i] \in Labels
         /\ ~Growing /\ ~Growing'
         /\ \A m, i : Element(m, i)[1] = "array" /\ Element(m, i)[2] = m /\ Element(m, i)[3] = i
<1>1. \A m, i : Element(m, i)[1] = "array" /\ Element(m, i)[2] = m /\ Element(m, i)[3] = i
  BY DEF Element
<1>2. Originals' = Originals
  BY <1>1 DEF Originals, Copied
<1>3. \A a, m : IsOriginal(a, m)' <=> IsOriginal(a, m)
  BY <1>2 DEF IsOriginal, Copied, Originals
<1>4. 1 \in DOMAIN kids[l]
  BY LengthZero DEF TreeInv, TreeTypeOK
<1>5. ASSUME NEW m \in Labels
      PROVE  Moved(m)' <=> Moved(m) \/ m = l
  <2>1. Moved(m)' <=> Element(m, 1) \in DOMAIN heap'
    BY DEF Moved, Element
  <2>2. Moved(m) <=> Element(m, 1) \in DOMAIN heap
    BY DEF Moved, Element
  <2>3. (\E i \in DOMAIN kids[l] : Element(m, 1) = Element(l, i)) <=> m = l
    BY <1>1, <1>4
  <2> QED
    BY <2>1, <2>2, <2>3 DEF Copied
<1>6. \A i \in DOMAIN kids[l] : kids[l][i] # l /\ ~Moved(kids[l][i]) /\ kids[l][i] \in Labels
  <2>1. \A i \in DOMAIN kids[l] : l < kids[l][i] /\ kids[l][i] \in Labels
    BY DEF TreeInv, KidsInv, TreeTypeOK
  <2>2. \A i \in DOMAIN kids[l] : ~Moved(kids[l][i])
    BY DEF TreeInv, LinksInv
  <2>3. \A m \in Labels : ~(m < m)
    BY DEF Labels
  <2> QED
    BY <2>1, <2>2, <2>3
<1> QED
  BY <1>1, <1>2, <1>3, <1>5, <1>6 DEF Growing

LEMMA CopiedNodesInv ==
  ASSUME TreeInv, pc = "solidifying", UNCHANGED <<pc, kids>>, NEW n \in DOMAIN heap, NEW l,
         l = heap[n].label, l \in Labels, kids[l] # <<>>, ~Moved(l), ~InPool(n), Copied(n, l)
  PROVE  NodesInv' /\ KidsInv'
<1>1. /\ Originals' = Originals /\ \A a, m : IsOriginal(a, m)' <=> IsOriginal(a, m)
      /\ ~Growing /\ ~Growing'
      /\ \A m, i : Element(m, i)[1] = "array" /\ Element(m, i)[2] = m /\ Element(m, i)[3] = i
  BY CopiedFacts
<1>2. ASSUME NEW a \in DOMAIN heap' \ Originals'
      PROVE  /\ a[2] \in Labels /\ a[3] \in DOMAIN kids[a[2]]
             /\ a = <<"array", a[2], a[3]>> /\ heap'[a].label = kids[a[2]][a[3]]
  <2>1. CASE a \in DOMAIN heap
    <3>1. a \in DOMAIN heap \ Originals /\ heap'[a].label = heap[a].label
      BY <1>1, <1>2, <2>1 DEF Copied
    <3> QED
      BY <3>1 DEF TreeInv, NodesInv
  <2>2. CASE a \notin DOMAIN heap
    <3>1. PICK i \in DOMAIN kids[l] : a = Element(l, i)
      BY <1>2, <2>2 DEF Copied
    <3>2. heap'[a].label = kids[l][i]
      BY <3>1 DEF Copied
    <3>3. a[2] = l /\ a[3] = i
      BY <1>1, <3>1
    <3> QED
      BY <3>1, <3>2, <3>3 DEF Element
  <2> QED
    BY <2>1, <2>2
<1>3. NodesInv'
  <2>1. RootAddress \in DOMAIN heap' /\ heap'[RootAddress].label = 1 /\ heap'[RootAddress].block
    BY DEF TreeInv, NodesInv, Copied
  <2>2. \A a \in Originals : a = RootAddress \/ InPool(a)
    BY DEF TreeInv, NodesInv
  <2>3. \A a, b \in Originals : heap'[a].label = heap'[b].label => a = b
    BY DEF TreeInv, NodesInv, Copied, Originals
  <2> QED
    BY <1>1, <1>2, <2>1, <2>2, <2>3 DEF NodesInv
<1>4. KidsInv'
  BY <1>1 DEF TreeInv, KidsInv, IsKid
<1> QED
  BY <1>3, <1>4

LEMMA CopiedLinksInv ==
  ASSUME TreeInv, pc = "solidifying", UNCHANGED <<pc, kids>>, NEW n \in DOMAIN heap, NEW l,
         l = heap[n].label, l \in Labels, kids[l] # <<>>, ~Moved(l), ~InPool(n), Copied(n, l)
  PROVE  LinksInv'
<1>1. /\ Originals' = Originals /\ \A a, m : IsOriginal(a, m)' <=> IsOriginal(a, m)
      /\ \A m \in Labels : Moved(m)' <=> Moved(m) \/ m = l
      /\ \A i \in DOMAIN kids[l] : /\ kids[l][i] # l /\ ~Moved(kids[l][i])
                                   /\ kids[l][i] \in Labels
      /\ ~Growing /\ ~Growing'
      /\ \A m, i : Element(m, i)[1] = "array" /\ Element(m, i)[2] = m /\ Element(m, i)[3] = i
  BY CopiedFacts
<1>2. \A a \in DOMAIN heap :
        /\ heap'[a].label = heap[a].label /\ heap'[a].block = heap[a].block
        /\ heap'[a].count = heap[a].count /\ heap'[a].next = heap[a].next
        /\ heap'[a].children = IF a = n THEN Element(l, 1) ELSE heap[a].children
  BY DEF Copied
<1>3. ASSUME NEW a \in DOMAIN heap
      PROVE  LET children == kids[heap[a].label] IN
             /\ heap[a].label \in Labels
             /\ heap[a].count = Len(children)
             /\ ~heap[a].block => children = <<>>
             /\ heap[a].block /\ children = <<>> => heap[a].children = Null
             /\ children # <<>> =>
                  IF Moved(heap[a].label) /\ ~InPool(a)
                  THEN heap[a].children = Element(heap[a].label, 1)
                  ELSE IsOriginal(heap[a].children, children[1])
  BY DEF TreeInv, LinksInv, TreeTypeOK, Node, Element
<1>4. ASSUME NEW a \in DOMAIN heap'
      PROVE  LET children == kids[heap'[a].label] IN
             /\ heap'[a].count = Len(children)
             /\ ~heap'[a].block => children = <<>>
             /\ heap'[a].block /\ children = <<>> => heap'[a].children = Null
             /\ children # <<>> =>
                  IF Moved(heap[a].label)' /\ ~InPool(a)
                  THEN heap'[a].children = Element(heap'[a].label, 1)
                  ELSE IsOriginal(heap[a].children, kids[heap[a].label][1])'
  <2>1. CASE a = n
    <3>1. heap'[n].label = l /\ heap'[n].children = Element(l, 1) /\ Moved(heap[n].label)'
      BY <1>1, <1>2
    <3> QED
      BY <1>2, <1>3, <2>1, <3>1
  <2>2. CASE a \in DOMAIN heap /\ a # n
    <3>1. heap'[a].label = heap[a].label /\ heap'[a].children = heap[a].children
      BY <1>2, <2>2
    <3>2. heap[a].label = l => InPool(a)
      BY <2>2, OutsidePools
    <3>3. ~InPool(a) => (Moved(heap[a].label)' <=> Moved(heap[a].label))
      BY <1>1, <1>3, <2>2, <3>1, <3>2
    <3> QED
      BY <1>1, <1>2, <1>3, <2>2, <3>1, <3>3
  <2>3. CASE a \notin DOMAIN heap
    <3>1. PICK i \in DOMAIN kids[l] : a = Element(l, i)
      BY <1>4, <2>3 DEF Copied
    <3>2. PICK b \in Originals :
            /\ IsOriginal(b, kids[l][i]) /\ heap'[a].label = kids[l][i]
            /\ heap'[a].block = heap[b].block /\ heap'[a].count = heap[b].count
            /\ heap'[a].children = heap[b].children
      BY <3>1 DEF Copied
    <3>3. heap'[a].label = heap[b].label /\ b \in DOMAIN heap
      BY <3>2 DEF IsOriginal, Originals
    <3>4. ~Moved(heap[b].label) /\ ~Moved(heap[a].label)'
      BY <1>1, <3>2, <3>3
    <3> QED
      BY <1>1, <1>3, <3>2, <3>3, <3>4
  <2> QED
    BY <2>1, <2>2, <2>3
<1>5. ASSUME NEW a \in Originals, NEW m \in Labels, NEW i \in DOMAIN kids[m],
             heap'[a].label = kids[m][i]
      PROVE  IF i = Len(kids[m]) THEN heap'[a].next = Null
             ELSE IsOriginal(heap[a].next, kids[m][i + 1])'
  <2>1. a \in DOMAIN heap /\ heap'[a].label = heap[a].label /\ heap'[a].next = heap[a].next
    BY <1>2 DEF Originals
  <2>2. IF i = Len(kids[m]) THEN heap[a].next = Null
        ELSE IsOriginal(heap[a].next, kids[m][i + 1])
    BY <1>5, <2>1 DEF TreeInv, LinksInv
  <2> QED
    BY <1>1, <2>1, <2>2
<1>6. ASSUME NEW m \in Labels, NEW i \in DOMAIN kids[m]
      PROVE  /\ Moved(m)' =>
                  /\ Element(m, i) \in DOMAIN heap'
                  /\ heap'[Element(m, i)].next =
                       IF i = Len(kids[m]) THEN Null ELSE Element(m, i + 1)
             /\ Element(m, i) \in DOMAIN heap' \/ Moved(kids[m][i])' => Moved(m)'
  <2>1. CASE m = l
    BY <1>1, <2>1 DEF Copied
  <2>2. CASE m # l
    <3>1. Moved(m)' <=> Moved(m)
      BY <1>1, <2>2
    <3>2. /\ Moved(m) =>
               /\ Element(m, i) \in DOMAIN heap
               /\ heap[Element(m, i)].next =
                    IF i = Len(kids[m]) THEN Null ELSE Element(m, i + 1)
          /\ Element(m, i) \in DOMAIN heap \/ Moved(kids[m][i]) => Moved(m)
      BY DEF TreeInv, LinksInv, Element
    <3>3. Element(m, i) \in DOMAIN heap' <=> Element(m, i) \in DOMAIN heap
      <4>1. \A j \in DOMAIN kids[l] : Element(m, i) # Element(l, j)
        BY <1>1, <2>2
      <4> QED
        BY <4>1 DEF Copied
    <3>4. Moved(kids[m][i])' => Moved(m)
      <4>1. SUFFICES ASSUME kids[m][i] = l PROVE Moved(m)
        <5>1. kids[m][i] \in Labels
          BY DEF TreeInv, TreeTypeOK
        <5> QED
          BY <1>1, <3>2, <5>1
      <4>2. m < kids[m][i] /\ m \in Nat /\ m >= 1
        BY DEF TreeInv, KidsInv, Labels
      <4>3. n # RootAddress
        BY <4>1, <4>2 DEF TreeInv, NodesInv
      <4>4. /\ n[2] \in Labels /\ n[3] \in DOMAIN kids[n[2]]
            /\ n = <<"array", n[2], n[3]>> /\ l = kids[n[2]][n[3]]
        BY <4>3, OutsidePools
      <4>5. n[2] = m /\ n[3] = i
        BY <4>1, <4>4 DEF TreeInv, KidsInv
      <4>6. Element(m, i) \in DOMAIN heap
        BY <4>4, <4>5 DEF Element
      <4> QED
        BY <3>2, <4>6
    <3> QED
      BY <1>2, <3>1, <3>2, <3>3, <3>4
  <2> QED
    BY <2>1, <2>2
<1> QED
  BY <1>1, <1>4, <1>5, <1>6 DEF LinksInv, Element

LEMMA SolidifyNodeKeepsInv ==
  ASSUME TreeInv, NEW n \in DOMAIN heap, SolidifyNode(n)
  PROVE  TreeInv'
<1>2. PICK l : l = heap[n].label
  OBVIOUS
<1>1. /\ Copied(n, l) /\ live' = live \cup {<<"array", l>>}
      /\ todo' = (todo \ {n}) \cup {Element(l, i) : i \in {j \in DOMAIN kids[l] :
                                                           HasFamily(heap'[Element(l, j)])}}
      /\ l \in Labels /\ kids[l] # <<>> /\ ~InPool(n) /\ ~Moved(l) /\ n \in todo
      /\ pc = "solidifying" /\ UNCHANGED <<pool, slots, buffer, misfreed, pc, kids>>
  BY <1>2, SolidifyCopies
<1>3. /\ Originals' = Originals /\ \A a, m : IsOriginal(a, m)' <=> IsOriginal(a, m)
      /\ \A m \in Labels : Moved(m)' <=> Moved(m) \/ m = l
      /\ \A i \in DOMAIN kids[l] : /\ kids[l][i] # l /\ ~Moved(kids[l][i])
                                   /\ kids[l][i] \in Labels
      /\ ~Growing /\ ~Growing'
      /\ \A m, i : Element(m, i)[1] = "array" /\ Element(m, i)[2] = m /\ Element(m, i)[3] = i
  BY <1>1, <1>2, CopiedFacts
<1>4. NodesInv' /\ KidsInv'
  BY <1>1, <1>2, CopiedNodesInv
<1>5. LinksInv'
  BY <1>1, <1>2, CopiedLinksInv
<1>6. TreeTypeOK'
  <2>1. \A a \in DOMAIN heap' : a \in Address /\ heap'[a] \in Node
    BY <1>1 DEF Copied, TreeInv, TreeTypeOK
  <2>2. todo' \subseteq DOMAIN heap'
    BY <1>1 DEF Copied, TreeInv, TreeTypeOK
  <2> QED
    BY <1>1, <2>1, <2>2 DEF TreeInv, TreeTypeOK
<1>7. SolidInv'
  <2>1. ASSUME NEW b \in DOMAIN heap
        PROVE  b \in todo' <=> /\ ~InPool(b) /\ ~Moved(heap[b].label)'
                               /\ kids[heap'[b].label] # <<>>
    <3>1. heap'[b].label = heap[b].label /\ heap[b].label \in Labels
      BY <1>1 DEF Copied, TreeInv, TreeTypeOK, Node
    <3>2. b \in todo <=> ~InPool(b) /\ ~Moved(heap[b].label) /\ kids[heap[b].label] # <<>>
      BY <1>1 DEF TreeInv, SolidInv
    <3>3. \A i \in DOMAIN kids[l] : b # Element(l, i)
      BY <1>1 DEF Copied
    <3>4. b \in todo' <=> b \in todo /\ b # n
      BY <1>1, <3>3
    <3>5. Moved(heap[b].label)' <=> Moved(heap[b].label) \/ heap[b].label = l
      BY <1>3, <3>1
    <3>6. ~InPool(b) /\ heap[b].label = l => b = n
      BY <1>1, <1>2, OutsidePools
    <3> QED
      BY <1>2, <3>1, <3>2, <3>4, <3>5, <3>6
  <2>2. ASSUME NEW i \in DOMAIN kids[l]
        PROVE  LET e == Element(l, i) IN
               e \in todo' <=> /\ ~InPool(e) /\ ~Moved(heap[e].label)'
                               /\ kids[heap'[e].label] # <<>>
    <3> DEFINE e == Element(l, i)
    <3>1. PICK b \in Originals :
            /\ IsOriginal(b, kids[l][i]) /\ heap'[e].label = kids[l][i]
            /\ heap'[e].block = heap[b].block /\ heap'[e].count = heap[b].count
      BY <1>1 DEF Copied
    <3>2. HasFamily(heap'[e]) <=> HasFamily(heap[b])
      BY <3>1 DEF HasFamily
    <3>3. HasFamily(heap[b]) <=> kids[heap[b].label] # <<>>
      BY <3>1, FamilyHasKids DEF Originals
    <3>4. heap[b].label = kids[l][i]
      BY <3>1 DEF IsOriginal
    <3>5. ~InPool(e) /\ e \notin DOMAIN heap
      BY <1>1, <1>3 DEF InPool, Copied
    <3>6. e \notin todo
      BY <3>5 DEF TreeInv, TreeTypeOK
    <3>7. \A j \in DOMAIN kids[l] : e = Element(l, j) => i = j
      BY <1>3
    <3>8. ~Moved(heap[e].label)'
      BY <1>3, <3>1
    <3> HIDE DEF e
    <3>9. e \in todo' <=> HasFamily(heap'[e])
      BY <1>1, <3>6, <3>7 DEF e
    <3> QED
      BY <3>1, <3>2, <3>3, <3>4, <3>5, <3>8, <3>9 DEF e
  <2>3. DOMAIN heap' = DOMAIN heap \cup {Element(l, i) : i \in DOMAIN kids[l]}
    BY <1>1 DEF Copied
  <2>4. \A b \in DOMAIN heap' : b \in todo' <=> /\ ~InPool(b) /\ ~Moved(heap[b].label)'
                                                /\ kids[heap'[b].label] # <<>>
    <3>1. SUFFICES ASSUME NEW b \in DOMAIN heap'
                   PROVE  b \in todo' <=> /\ ~InPool(b) /\ ~Moved(heap[b].label)'
                                          /\ kids[heap'[b].label] # <<>>
      OBVIOUS
    <3>2. CASE b \in DOMAIN heap
      BY <2>1, <3>2
    <3>3. CASE \E i \in DOMAIN kids[l] : b = Element(l, i)
      BY <2>2, <3>3
    <3> QED
      BY <2>3, <3>2, <3>3
  <2>5. todo' \subseteq DOMAIN heap'
    BY <1>6 DEF TreeTypeOK
  <2>6. todo' = {b \in DOMAIN heap' : /\ pc' = "solidifying" /\ ~InPool(b) /\ ~Moved(heap[b].label)'
                                      /\ kids'[heap'[b].label] # <<>>}
    BY <1>1, <2>4, <2>5
  <2> QED
    BY <1>1, <1>3, <2>6 DEF SolidInv
<1>8. PoolsInv'
  BY <1>1, <1>3 DEF TreeInv, PoolsInv
<1>9. AllocatedInv'
  <2>1. {<<"array", m>> : m \in {k \in Labels : Moved(k)'}}
          = {<<"array", m>> : m \in {k \in Labels : Moved(k)}} \cup {<<"array", l>>}
    BY <1>1, <1>3
  <2>2. Strings' = Strings
    BY <1>1 DEF Strings
  <2> QED
    BY <1>1, <2>1, <2>2 DEF TreeInv, AllocatedInv
<1> QED
  BY <1>4, <1>5, <1>6, <1>7, <1>8, <1>9 DEF TreeInv

-------------------------------------------------------------------------------
LEMMA TreeStep == TreeInv /\ [TreeNext]_vars => TreeInv'
<1> SUFFICES ASSUME TreeInv, [TreeNext]_vars PROVE TreeInv'
  OBVIOUS
<1>1. CASE UNCHANGED vars
  <2>1. /\ Originals' = Originals /\ Created' = Created
        /\ \A l : Moved(l)' = Moved(l) /\ IsKid(l)' = IsKid(l)
        /\ \A a, l : IsOriginal(a, l)' = IsOriginal(a, l)
        /\ Strings' = Strings /\ Growing' = Growing
    BY <1>1 DEF vars, Originals, Created, Moved, IsKid, IsOriginal, Strings, Growing
  <2>2. NodesInv' /\ KidsInv' /\ LinksInv'
    BY <1>1, <2>1, TreeKept DEF TreeInv, vars, Growing
  <2>3. TreeTypeOK'
    BY <1>1 DEF TreeInv, TreeTypeOK, vars
  <2>4. SolidInv'
    BY <1>1, <2>1 DEF TreeInv, SolidInv, vars
  <2>5. PoolsInv'
    BY <1>1, <2>1 DEF TreeInv, PoolsInv, vars
  <2>6. AllocatedInv'
    BY <1>1, <2>1 DEF TreeInv, AllocatedInv, vars
  <2> QED
    BY <2>2, <2>3, <2>4, <2>5, <2>6 DEF TreeInv
<1>2. ASSUME NEW t \in ParsedTrees, Parse(t) \/ ParseFails(t) PROVE TreeInv'
  BY <1>2, ParseKeepsInv, ParseFailsKeepsInv
<1>3. ASSUME NEW n \in DOMAIN heap, Add(n) PROVE TreeInv'
  BY <1>3, AddKeepsInv
<1>4. ASSUME NEW n \in DOMAIN heap, AddNode(n) PROVE TreeInv'
  BY <1>4, AddNodeKeepsInv
<1>5. ASSUME NEW n \in DOMAIN heap, SolidifyNode(n) PROVE TreeInv'
  BY <1>5, SolidifyNodeKeepsInv
<1>6. CASE StartSolidify \/ EndSolidify \/ Destroy
  BY <1>6, StartSolidifyKeepsInv, EndSolidifyKeepsInv, DestroyKeepsInv
<1>7. CASE Ended
  BY <1>1, <1>7 DEF Ended
<1> QED
  BY <1>1, <1>2, <1>3, <1>4, <1>5, <1>6, <1>7 DEF TreeNext

(* Whatever is parsed and added before the tree is moved into arrays, and  *)
(* whenever it is destroyed: the nodes are labelled as a tree, linked in   *)
(* the pools and in the arrays as the code of Add, AddNode and Solidify    *)
(* links them, and exactly what the pools, the strings, the buffer and the *)
(* arrays need is allocated (144-301, 376-447).                            *)
THEOREM TreeInvariant == TreeSpec => []TreeInv
<1>1. TreeInit => TreeInv
  BY TreeInvInit
<1>2. TreeInv /\ [TreeNext]_vars => TreeInv'
  BY TreeStep
<1> QED
  BY <1>1, <1>2, PTL DEF TreeSpec

(* The nodes, the pools and the children are always of their types, the    *)
(* addresses within the chunks and arrays a tree of MaxLabels nodes takes. *)
THEOREM TreeTypeCorrect == TreeSpec => []TreeTypeOK
<1>1. TreeInv => TreeTypeOK
  BY DEF TreeInv
<1> QED
  BY <1>1, TreeInvariant, PTL

(* The destructor frees the buffer, every chunk, string and array, after a *)
(* refused parse and after Solidify, too, and nothing twice (206-228).     *)
THEOREM TreeFreedOnce == TreeSpec => []FreedOnce
<1>1. TreeInv => FreedOnce
  BY DEF TreeInv, AllocatedInv, FreedOnce
<1> QED
  BY <1>1, TreeInvariant, PTL

(* Solidify copies every node of the tree, and none twice, before it       *)
(* drains the pools (230-301).                                             *)
THEOREM TreeMovedOnce == TreeSpec => []MovedOnce
<1>1. TreeInv => MovedOnce
  <2> SUFFICES ASSUME TreeInv, pc = "solid" PROVE MovedOnce
    BY DEF MovedOnce
  <2>1. \A a, b \in DOMAIN heap : heap[a].label = heap[b].label => a = b
    BY OutsidePools DEF TreeInv, SolidInv
  <2>2. ASSUME NEW l \in Labels, NEW i \in DOMAIN kids[l]
        PROVE  \E a \in DOMAIN heap : heap[a].label = kids[l][i]
    <3>1. Moved(l)
      BY DEF TreeInv, SolidInv
    <3>2. <<"array", l, i>> \in DOMAIN heap
      BY <3>1 DEF TreeInv, LinksInv
    <3>3. heap[<<"array", l, i>>].label = kids[l][i]
      BY <3>2, ElementNode DEF TreeInv
    <3> QED
      BY <3>2, <3>3
  <2> QED
    BY <2>1, <2>2 DEF MovedOnce
<1> QED
  BY <1>1, TreeInvariant, PTL

(* Before Solidify the list of a block's children lies in the pools, after *)
(* it in the array of the block.                                           *)
LEMMA ChildrenRead ==
  ASSUME TreeInv, pc \in {"fresh", "building", "solid"}, NEW n \in DOMAIN heap, heap[n].block
  PROVE  LET children == kids[heap[n].label]
             len == Len(children)
             list == Walk(heap, n, len + 1)
         IN
         /\ list[len + 1] = Null
         /\ \A i \in 1 .. len : /\ list[i] \in DOMAIN heap /\ heap[list[i]].label = children[i]
                                /\ pc = "solid" => list[i] = <<"array", heap[n].label, i>>
<1> DEFINE l == heap[n].label
           len == Len(kids[l])
           list == Walk(heap, n, len + 1)
<1>1. l \in Labels /\ len \in Nat /\ DOMAIN kids[l] = 1 .. len /\ (kids[l] # <<>> <=> len > 0)
  BY LengthZero DEF TreeInv, TreeTypeOK, Node
<1> SUFFICES /\ list[len + 1] = Null
             /\ \A i \in 1 .. len : /\ list[i] \in DOMAIN heap /\ heap[list[i]].label = kids[l][i]
                                    /\ pc = "solid" => list[i] = <<"array", l, i>>
  OBVIOUS
<1>2. CASE kids[l] = <<>>
  <2> DEFINE at == [i \in 1 .. len + 1 |-> Null]
  <2>0. len = 0 /\ 1 .. len = {}
    BY <1>1, <1>2
  <2>1. heap[n].children = at[1] /\ at[len + 1] = Null
    BY <1>2, <2>0 DEF TreeInv, LinksInv
  <2>2. \A i \in 1 .. len : at[i] \in DOMAIN heap /\ heap[at[i]].next = at[i + 1]
    BY <2>0
  <2>3. len + 1 \in 0 .. len + 1
    BY <1>1
  <2> HIDE DEF at, list, len, l
  <2>4. \A i \in 1 .. len + 1 : Walk(heap, n, len + 1)[i] = at[i]
    <3>1. IsList(heap, n, len, at)
      BY <2>1, <2>2 DEF IsList
    <3>2. \A k \in 0 .. len + 1 : \A i \in 1 .. k : Walk(heap, n, k)[i] = at[i]
      <4>1. SUFFICES ASSUME NEW k \in 0 .. len + 1
                     PROVE  \A i \in 1 .. k : Walk(heap, n, k)[i] = at[i]
        OBVIOUS
      <4>2. len \in Nat
        BY <1>1
      <4> QED
        BY <3>1, <4>2, ListWalk
    <3> QED
      BY <2>3, <3>2
  <2>5. \A i \in 1 .. len + 1 : list[i] = at[i]
    BY <2>4 DEF list
  <2> QED
    BY <1>1, <2>0, <2>1, <2>5
<1>3. CASE kids[l] # <<>> /\ pc # "solid"
  <2>1. Growing /\ ~Moved(l)
    BY <1>3, NoneMoved DEF TreeInv, Growing
  <2>2. len + 1 \in 0 .. len + 1
    BY <1>1
  <2>3. \A i \in 1 .. len + 1 : IF i = len + 1 THEN list[i] = Null
                                ELSE IsOriginal(list[i], kids[l][i])
    BY <1>3, <2>1, <2>2, PoolWalk
  <2> HIDE DEF list, len, l
  <2>4. list[len + 1] = Null
    BY <1>1, <2>3
  <2>5. \A i \in 1 .. len : IsOriginal(list[i], kids[l][i])
    BY <1>1, <2>3
  <2> QED
    BY <1>3, <2>4, <2>5 DEF IsOriginal, Originals
<1>4. CASE kids[l] # <<>> /\ pc = "solid"
  <2> DEFINE at == [i \in 1 .. len + 1 |-> IF i = len + 1 THEN Null ELSE <<"array", l, i>>]
  <2>1. Moved(l) /\ ~InPool(n)
    BY <1>1, <1>4 DEF TreeInv, SolidInv
  <2>2. heap[n].children = <<"array", l, 1>>
    BY <1>4, <2>1 DEF TreeInv, LinksInv
  <2>3. \A i \in 1 .. len : /\ <<"array", l, i>> \in DOMAIN heap
                            /\ heap[<<"array", l, i>>].label = kids[l][i]
                            /\ heap[<<"array", l, i>>].next =
                                 IF i = len THEN Null ELSE <<"array", l, i + 1>>
    <3>1. \A i \in DOMAIN kids[l] : /\ <<"array", l, i>> \in DOMAIN heap
                                    /\ heap[<<"array", l, i>>].next =
                                         IF i = len THEN Null ELSE <<"array", l, i + 1>>
      BY <1>1, <2>1 DEF TreeInv, LinksInv
    <3>2. \A i \in DOMAIN kids[l] : heap[<<"array", l, i>>].label = kids[l][i]
      BY <3>1, ElementNode DEF TreeInv
    <3> QED
      BY <1>1, <3>1, <3>2
  <2> HIDE DEF list, len, l
  <2>4. /\ heap[n].children = at[1] /\ at[len + 1] = Null
        /\ \A i \in 1 .. len : at[i] = <<"array", l, i>>
    BY <1>1, <1>4, <2>2
  <2>5. \A i \in 1 .. len : at[i] \in DOMAIN heap /\ heap[at[i]].next = at[i + 1]
    <3>1. SUFFICES ASSUME NEW i \in 1 .. len
                   PROVE  at[i] \in DOMAIN heap /\ heap[at[i]].next = at[i + 1]
      OBVIOUS
    <3>2. at[i + 1] = IF i = len THEN Null ELSE <<"array", l, i + 1>>
      BY <1>1
    <3> HIDE DEF at
    <3> QED
      BY <2>3, <2>4, <3>2
  <2>6. len + 1 \in 0 .. len + 1
    BY <1>1
  <2> HIDE DEF at
  <2>7. \A i \in 1 .. len + 1 : Walk(heap, n, len + 1)[i] = at[i]
    <3>1. IsList(heap, n, len, at)
      BY <2>4, <2>5 DEF IsList
    <3>2. \A k \in 0 .. len + 1 : \A i \in 1 .. k : Walk(heap, n, k)[i] = at[i]
      <4>1. SUFFICES ASSUME NEW k \in 0 .. len + 1
                     PROVE  \A i \in 1 .. k : Walk(heap, n, k)[i] = at[i]
        OBVIOUS
      <4>2. len \in Nat
        BY <1>1
      <4> QED
        BY <3>1, <4>2, ListWalk
    <3> QED
      BY <2>6, <3>2
  <2>8. \A i \in 1 .. len + 1 : list[i] = at[i]
    BY <2>7 DEF list
  <2>9. list[len + 1] = Null
    BY <1>1, <2>4, <2>8
  <2>10. \A i \in 1 .. len : list[i] = <<"array", l, i>>
    BY <1>1, <2>4, <2>8
  <2> QED
    BY <2>3, <2>9, <2>10
<1> QED
  BY <1>2, <1>3, <1>4

(* Following next until null, as ToString does, and counting to            *)
(* childCount, as Get and the iterator do, read the same children, those   *)
(* that were added and in that order, before Solidify and after it         *)
(* (283-301, 355-447, 705-742).                                            *)
THEOREM TreeReadsAgree == TreeSpec => []ReadsAgree
<1>1. TreeInv => ReadsAgree
  <2> SUFFICES ASSUME TreeInv, pc \in {"fresh", "building", "solid"},
                      NEW n \in DOMAIN heap, heap[n].block
               PROVE  LET count == heap[n].count
                          list == Walk(heap, n, count + 1)
                      IN /\ count = Len(kids[heap[n].label])
                         /\ list[count + 1] = Null
                         /\ \A i \in 1..count :
                              /\ list[i] \in DOMAIN heap
                              /\ heap[list[i]].label = kids[heap[n].label][i]
                              /\ pc = "solid" => list[i] = <<"array", heap[n].label, i>>
    BY DEF ReadsAgree
  <2> DEFINE len == Len(kids[heap[n].label])
             list == Walk(heap, n, len + 1)
  <2>1. heap[n].count = len
    BY DEF TreeInv, LinksInv
  <2>2. /\ list[len + 1] = Null
        /\ \A i \in 1 .. len : /\ list[i] \in DOMAIN heap
                               /\ heap[list[i]].label = kids[heap[n].label][i]
                               /\ pc = "solid" => list[i] = <<"array", heap[n].label, i>>
    BY ChildrenRead
  <2>3. Walk(heap, n, heap[n].count + 1) = list
    BY <2>1
  <2> HIDE DEF list
  <2> QED
    BY <2>1, <2>2, <2>3
<1> QED
  BY <1>1, TreeInvariant, PTL

(* No call changes a solid tree: Add and AddNode have no check for it, but *)
(* the pool of nodes they take from is drained then (144-161, 230-245,     *)
(* 376-447).                                                               *)
THEOREM TreeSolidIsReadOnly == TreeSpec => SolidIsReadOnly
<1>1. TreeInv /\ [TreeNext]_vars => [pc = "solid" => UNCHANGED <<heap, kids>>]_vars
  <2> SUFFICES ASSUME TreeInv, TreeNext, pc = "solid" PROVE UNCHANGED <<heap, kids>>
    BY DEF vars
  <2>1. ASSUME NEW n \in DOMAIN heap, NEW insertion, Grows(n, insertion)
        PROVE  UNCHANGED <<heap, kids>>
    <3>1. GetFromDrained
      BY <2>1, GrowsFacts DEF Growing
    <3> QED
      BY <3>1 DEF GetFromDrained
  <2>2. ASSUME NEW n \in DOMAIN heap, Add(n) \/ AddNode(n) PROVE UNCHANGED <<heap, kids>>
    BY <2>1, <2>2 DEF Add, AddNode
  <2>3. ~(\E t \in ParsedTrees : Parse(t) \/ ParseFails(t))
    BY DEF Parse, ParseFails
  <2>4. ~(\E n \in DOMAIN heap : SolidifyNode(n)) /\ ~StartSolidify /\ ~EndSolidify
    BY DEF SolidifyNode, StartSolidify, EndSolidify
  <2>5. Destroy \/ Ended => UNCHANGED <<heap, kids>>
    BY DEF Destroy, Ended, vars
  <2> QED
    BY <2>2, <2>3, <2>4, <2>5 DEF TreeNext
<1> QED
  BY <1>1, TreeInvariant, PTL DEF TreeSpec, SolidIsReadOnly
===============================================================================
