----------------------------- MODULE KeyValueTree -----------------------------
(***************************************************************************)
(* The tree of a KeyValueRoot as it lies in memory: its nodes in pools of  *)
(* growing chunks and linked as lists, the parsed strings in a buffer, the *)
(* strings of added nodes in a third pool, Solidify, which moves the nodes *)
(* into arrays, and the destructor.  A root parses one text at most; the   *)
(* tree then grows through Add and AddNode, which "only work for classes   *)
(* with children".  Line numbers are those of kv/KeyValue.cpp.             *)
(***************************************************************************)
EXTENDS Naturals, Sequences, FiniteSets, SequencesExt

CONSTANTS
  Increment,  \* POOL_INCREMENT_LENGTH
  MaxLabels   \* a bound on the nodes of a tree, the root included

ASSUME TreeAssumption == Increment \in Nat \ {0} /\ MaxLabels \in Nat \ {0, 1, 2}

(* A node is labelled by the order of its creation, the root first.  Its   *)
(* address is a cell of a pool's chunk or an element of an array.          *)
Labels == 1..MaxLabels
PoolNames == {"read", "write", "strings"}
RootAddress == <<"root", 0, 0>>
Null == <<"null", 0, 0>>
Junk == <<"junk", 0, 0>>

VARIABLES
  pool,     \* the lengths of each pool's chunks and the position in the last
  heap,     \* the nodes by address
  slots,    \* the string in each cell of writePoolStrings that was written
  buffer,   \* whether bufferSize is positive and stringBuffer allocated
  live,     \* the allocations that are not freed
  misfreed, \* what was freed without being allocated
  todo,     \* the nodes whose children Solidify has still to move
  pc,       \* what the root is doing
  kids      \* the labels of every node's children, in order

vars == <<pool, heap, slots, buffer, live, misfreed, todo, pc, kids>>

Address == {<<p, i, j>> : p \in PoolNames \cup {"array", "root", "null", "junk"},
                          i, j \in 0..(2 * MaxLabels)}

Node == [label : Labels, block : BOOLEAN, children : Address, count : Nat,
         last : Address, next : Address]

NewBlock(l) ==
  [label |-> l, block |-> TRUE, children |-> Null, count |-> 0, last |-> Null, next |-> Null]
NewPair(l) ==
  [label |-> l, block |-> FALSE, children |-> Junk, count |-> 0, last |-> Junk, next |-> Null]

-------------------------------------------------------------------------------
(* KeyValuePool::Get.  As a fault: a chunk counts as full one cell late.   *)
FreshPool == [lengths |-> <<0>>, position |-> 0]

IsFullLate(p) == p.position > Last(p.lengths)
IsFull(p) == p.position >= Last(p.lengths)
NextChunk(p) == Append(p.lengths, Last(p.lengths) + Increment)

Got(p) ==
  IF IsFull(p) THEN [lengths |-> NextChunk(p), position |-> 1]
  ELSE [p EXCEPT !.position = @ + 1]

Cell(name, p) == <<name, Len(p.lengths), p.position>>

Chunks(name, p) == {<<"chunk", name, i>> : i \in DOMAIN p.lengths}
Arrays(h) == {<<"array", h[a].children[2]>> : a \in {b \in DOMAIN h : h[b].block /\ h[b].count > 0}}

(* The trees that Parse may leave: an empty one, which may still have read *)
(* a key without a value, a pair, and a block with a pair.                 *)
Read1 == Got(FreshPool)
Read2 == Got(Read1)
Cell1 == Cell("read", Read1)
Cell2 == Cell("read", Read2)

Family(n, a) == [n EXCEPT !.children = a, !.last = a, !.count = 1]

ParsedTrees ==
  { [pool |-> FreshPool, heap |-> [a \in {RootAddress} |-> NewBlock(1)],
     kids |-> <<>>, strings |-> strings] : strings \in BOOLEAN }
  \cup
  { [pool |-> Read1,
     heap |-> [a \in {RootAddress, Cell1} |->
                 IF a = RootAddress THEN Family(NewBlock(1), Cell1) ELSE NewPair(2)],
     kids |-> <<2>>, strings |-> TRUE],
    [pool |-> Read2,
     heap |-> [a \in {RootAddress, Cell1, Cell2} |->
                 IF a = RootAddress THEN Family(NewBlock(1), Cell1)
                 ELSE IF a = Cell1 THEN Family(NewBlock(2), Cell2) ELSE NewPair(3)],
     kids |-> <<2, 3>>, strings |-> TRUE] }

TreeInit ==
  /\ pool = [p \in PoolNames |-> FreshPool]
  /\ heap = [a \in {RootAddress} |-> NewBlock(1)]
  /\ kids = [l \in Labels |-> <<>>]
  /\ slots = [c \in {} |-> 0]
  /\ buffer = [sized |-> FALSE, allocated |-> FALSE]
  /\ live = UNION {Chunks(p, FreshPool) : p \in PoolNames}
  /\ misfreed = {}
  /\ todo = {}
  /\ pc = "fresh"

-------------------------------------------------------------------------------
Created == Cardinality({heap[a].label : a \in DOMAIN heap})
NextLabel == Created + 1

(* Parse of a text whose tree is t: nodes come from readPool, and BuildData *)
(* copies the strings into the buffer.  A text that is refused has taken   *)
(* nodes and added up a size by then, but the buffer is not allocated; its *)
(* tree is not read.                                                       *)
Parse(t) ==
  /\ pc = "fresh"
  /\ pool' = [pool EXCEPT !["read"] = t.pool]
  /\ live' = live \cup Chunks("read", t.pool)
                   \cup IF t.strings THEN {<<"buffer">>} ELSE {}
  /\ heap' = t.heap
  /\ kids' = [l \in Labels |-> IF l <= Len(t.kids) THEN <<t.kids[l]>> ELSE <<>>]
  /\ buffer' = [sized |-> t.strings, allocated |-> t.strings]
  /\ pc' = "building"
  /\ UNCHANGED <<slots, misfreed, todo>>

ParseFails(t) ==
  /\ pc = "fresh"
  /\ pool' = [pool EXCEPT !["read"] = t.pool]
  /\ live' = live \cup Chunks("read", t.pool)
  /\ buffer' = [sized |-> t.strings, allocated |-> FALSE]
  /\ pc' = "refused"
  /\ UNCHANGED <<heap, slots, misfreed, todo, kids>>

(* A node is linked behind the last child, unless it is the first.  As a   *)
(* fault: lastChild is not moved on.                                       *)
LinkedBehindOldLast(h, n, cell, first) ==
  LET older == IF first THEN h ELSE [h EXCEPT ![h[n].last].next = cell]
  IN [older EXCEPT ![n].children = IF first THEN cell ELSE @,
                   ![n].last = IF first THEN cell ELSE @, ![n].count = @ + 1]

LinkedBehind(h, n, cell, first) ==
  LET older == IF first THEN h ELSE [h EXCEPT ![h[n].last].next = cell]
  IN [older EXCEPT ![n].children = IF first THEN cell ELSE @,
                   ![n].last = cell, ![n].count = @ + 1]

(* What the two adding functions share: a node from writePool, its strings *)
(* in cells of writePoolStrings, each an allocation of its own.  Whether   *)
(* the node is the first is told by children in one and by childCount in   *)
(* the other.                                                              *)
Insert(n, node, first, stringsPool, cells) ==
  LET nodesPool == Got(pool["write"])
      cell == Cell("write", nodesPool)
      pools == [pool EXCEPT !["write"] = nodesPool, !["strings"] = stringsPool]
  IN
  /\ pool' = pools
  /\ heap' = LinkedBehind([a \in DOMAIN heap \cup {cell} |->
                             IF a = cell THEN node ELSE heap[a]], n, cell, first)
  /\ slots' = [c \in DOMAIN slots \cup cells |->
                 IF c \in cells THEN <<node.label, c>> ELSE slots[c]]
  /\ live' = live \cup {<<"string", <<node.label, c>>>> : c \in cells}
                  \cup Chunks("write", nodesPool) \cup Chunks("strings", stringsPool)
  /\ kids' = [kids EXCEPT ![heap[n].label] = Append(@, node.label)]
  /\ pc' = IF pc = "fresh" THEN "building" ELSE pc
  /\ UNCHANGED <<buffer, misfreed, todo>>

(* A drained pool has no chunk to look into. *)
GetFromDrained ==
  /\ pc' = "crashed"
  /\ UNCHANGED <<pool, heap, slots, buffer, live, misfreed, todo, kids>>

Grows(n, insertion) ==
  /\ pc \in {"fresh", "building", "solid"}
  /\ heap[n].block
  /\ IF pool["write"].lengths = <<>> THEN GetFromDrained
     ELSE Created < MaxLabels /\ insertion

Add(n) ==
  Grows(n, LET keyPool == Got(pool["strings"])
               valuePool == Got(keyPool)
           IN Insert(n, NewPair(NextLabel), heap[n].children = Null, valuePool,
                     {Cell("strings", keyPool), Cell("strings", valuePool)}))

AddNode(n) ==
  Grows(n, LET keyPool == Got(pool["strings"])
           IN Insert(n, NewBlock(NextLabel), heap[n].count = 0, keyPool,
                     {Cell("strings", keyPool)}))

-------------------------------------------------------------------------------
(* The first k nodes of a list.  An address that holds no node has no      *)
(* successor.                                                              *)
Walk(h, n, k) ==
  LET at[i \in 1..k] ==
        IF i = 1 THEN h[n].children
        ELSE IF at[i - 1] \in DOMAIN h THEN h[at[i - 1]].next ELSE Null
  IN [i \in 1..k |-> at[i]]

HasFamily(node) == node.block /\ node.count > 0

StartSolidify ==
  /\ pc \in {"fresh", "building"}
  /\ pc' = "solidifying"
  /\ todo' = {a \in {RootAddress} : HasFamily(heap[a])}
  /\ UNCHANGED <<pool, heap, slots, buffer, live, misfreed, kids>>

(* KeyValue::Solidify of one node: its children are copied in order into   *)
(* an array and linked there; those that have children are next.  As a     *)
(* fault: only the children of the root are moved.                         *)
StopsAtRoot(h, elements) == {}
StillToMove(h, elements) == {a \in elements : HasFamily(h[a])}

SolidifyNode(n) ==
  /\ pc = "solidifying"
  /\ n \in todo
  /\ LET count == heap[n].count
         list == Walk(heap, n, count)
         element(i) == IF i > count THEN Null ELSE <<"array", heap[n].label, i>>
         elements == {element(i) : i \in 1..count}
     IN /\ heap' = [a \in DOMAIN heap \cup elements |->
                      IF a \in elements THEN [heap[list[a[3]]] EXCEPT !.next = element(a[3] + 1)]
                      ELSE IF a = n THEN [heap[a] EXCEPT !.children = element(1)]
                      ELSE heap[a]]
        /\ live' = live \cup {<<"array", heap[n].label>>}
        /\ todo' = (todo \ {n}) \cup StillToMove(heap', elements)
  /\ UNCHANGED <<pool, slots, buffer, misfreed, pc, kids>>

(* Freeing allocations; one that is not allocated is remembered. *)
Free(S) ==
  /\ live' = live \ S
  /\ misfreed' = misfreed \cup (S \ live)

InPool(a) == a[1] \in {"read", "write"}

(* Both node pools are drained once everything is copied.  As faults: the  *)
(* pool of strings, too, and only the pool that Parse fills.               *)
DrainedAll == PoolNames
DrainedRead == {"read"}
Drained == {"read", "write"}

EndSolidify ==
  /\ pc = "solidifying"
  /\ todo = {}
  /\ pc' = "solid"
  /\ pool' = [p \in PoolNames |->
                IF p \in Drained THEN [lengths |-> <<>>, position |-> 0] ELSE pool[p]]
  /\ Free(UNION {Chunks(p, pool[p]) : p \in Drained})
  /\ heap' = [a \in {b \in DOMAIN heap : ~InPool(b)} |-> heap[a]]
  /\ UNCHANGED <<slots, buffer, todo, kids>>

-------------------------------------------------------------------------------
(* ~KeyValueRoot frees the buffer if it has a size, and deletes the        *)
(* strings of all chunks before the current one, and those before the      *)
(* position in the current one; the destructors of the pools drain what is *)
(* not drained, that of the root deletes the arrays.                       *)
DeletedCells(p) ==
  LET n == Len(p.lengths) IN
  (UNION {{<<"strings", i, j>> : j \in 1..p.lengths[i]} : i \in 1..(n - 1)})
    \cup {<<"strings", n, j>> : j \in 1..p.position}

StringAt(cell) == IF cell \in DOMAIN slots THEN slots[cell] ELSE <<0, cell>>

(* Freeing the null pointer of a refused text does nothing.                *)
FreedBuffer == IF buffer.sized /\ buffer.allocated THEN {<<"buffer">>} ELSE {}

Destroy ==
  /\ pc \in {"fresh", "refused", "building", "solid"}
  /\ pc' = "destroyed"
  /\ Free(FreedBuffer
            \cup {<<"string", StringAt(c)>> : c \in DeletedCells(pool["strings"])}
            \cup (UNION {Chunks(p, pool[p]) : p \in PoolNames})
            \cup IF pc = "solid" THEN Arrays(heap) ELSE {})
  /\ UNCHANGED <<pool, heap, slots, buffer, todo, kids>>

Ended == pc \in {"destroyed", "crashed"} /\ UNCHANGED vars

TreeNext ==
  \/ \E t \in ParsedTrees : Parse(t) \/ ParseFails(t)
  \/ \E n \in DOMAIN heap : Add(n) \/ AddNode(n) \/ SolidifyNode(n)
  \/ StartSolidify \/ EndSolidify
  \/ Destroy
  \/ Ended

TreeSpec == TreeInit /\ [][TreeNext]_vars

-------------------------------------------------------------------------------
(* The type invariant. *)
TreeTypeOK ==
  /\ pool \in [PoolNames -> [lengths : Seq(Nat), position : Nat]]
  /\ \A p \in PoolNames :
       pool[p].lengths # <<>> => pool[p].position <= Last(pool[p].lengths)
  /\ \A a \in DOMAIN heap : a \in Address /\ heap[a] \in Node
  /\ todo \subseteq DOMAIN heap
  /\ buffer \in [sized : BOOLEAN, allocated : BOOLEAN]
  /\ pc \in {"fresh", "refused", "building", "solidifying", "solid", "destroyed", "crashed"}
  /\ kids \in [Labels -> Seq(Labels)]

(* However the tree was built, and before and after Solidify, the children *)
(* of every block are read in the order in which they were added, in both  *)
(* of the ways the code reads them: by following next until null, as       *)
(* ToString does, and by counting to childCount, as Get and the iterator   *)
(* do; in a solid tree the count indexes the array.                        *)
ReadsAgree ==
  pc \in {"fresh", "building", "solid"} =>
    \A n \in DOMAIN heap :
      LET count == heap[n].count
          list == Walk(heap, n, count + 1)
      IN heap[n].block =>
           /\ count = Len(kids[heap[n].label])
           /\ list[count + 1] = Null
           /\ \A i \in 1..count :
                /\ list[i] \in DOMAIN heap
                /\ heap[list[i]].label = kids[heap[n].label][i]
                /\ pc = "solid" => list[i] = <<"array", heap[n].label, i>>

(* The buffer and every chunk, string and array are freed once, of a       *)
(* refused text, too: Solidify drains the pools of nodes and the           *)
(* destructor must neither drain them again nor miss a string in a chunk   *)
(* that is only partly used (206-228, 243).                                *)
FreedOnce == misfreed = {} /\ (pc = "destroyed" => live = {})

(* Solidify never loses a node: while it moves them, what is linked from   *)
(* the root is copied before the pools are drained, and no node is copied  *)
(* twice.                                                                  *)
MovedOnce ==
  pc = "solid" =>
    /\ \A a, b \in DOMAIN heap : heap[a].label = heap[b].label => a = b
    /\ \A l \in Labels : \A i \in DOMAIN kids[l] :
         \E a \in DOMAIN heap : heap[a].label = kids[l][i]

(* "Warning: It will make the kv read-only!" (KeyValue.h:15): no call      *)
(* changes a solid tree.  The code has no check of its own for a block; it *)
(* is the drained pool that ends the process before a node is linked.      *)
SolidIsReadOnly == [][pc = "solid" => UNCHANGED <<heap, kids>>]_vars

-------------------------------------------------------------------------------
(* What every step keeps, and what the properties above follow from: where *)
(* nodes are and how they are labelled, ...                                *)
Growing == pc \in {"fresh", "building"}

Originals == {a \in DOMAIN heap : a[1] # "array"}

Moved(l) == <<"array", l, 1>> \in DOMAIN heap

NodesInv ==
  /\ RootAddress \in DOMAIN heap /\ heap[RootAddress].label = 1
  /\ heap[RootAddress].block
  /\ \A a \in Originals : a = RootAddress \/ InPool(a)
  /\ \A a, b \in Originals : heap[a].label = heap[b].label => a = b
  /\ \A a \in DOMAIN heap \ Originals :
       /\ a[2] \in Labels /\ a[3] \in DOMAIN kids[a[2]]
       /\ a = <<"array", a[2], a[3]>> /\ heap[a].label = kids[a[2]][a[3]]
  /\ Growing => {heap[a].label : a \in DOMAIN heap} = 1 .. Created

IsOriginal(a, l) == a \in Originals /\ heap[a].label = l

IsKid(c) == \E l \in Labels : \E i \in DOMAIN kids[l] : kids[l][i] = c

(* ... that the labels form a tree, ...                                    *)
KidsInv ==
  /\ \A l \in Labels : \A i \in DOMAIN kids[l] : l < kids[l][i]
  /\ \A l, m \in Labels : \A i \in DOMAIN kids[l], j \in DOMAIN kids[m] :
       kids[l][i] = kids[m][j] => l = m /\ i = j
  /\ \A l \in Labels \ {1} : kids[l] # <<>> => IsKid(l)
  /\ Growing => \A l \in 2 .. Created : IsKid(l)
  /\ Growing \/ pc = "solidifying" =>
       \A l \in Labels : \A i \in DOMAIN kids[l] : \E a \in Originals : IsOriginal(a, kids[l][i])

(* ... how nodes are linked in the pools and in the arrays, ...            *)
LinksInv ==
  /\ \A n \in DOMAIN heap :
       LET children == kids[heap[n].label] IN
       /\ heap[n].count = Len(children)
       /\ ~heap[n].block => children = <<>>
       /\ heap[n].block /\ children = <<>> => heap[n].children = Null
       /\ children # <<>> =>
            IF Moved(heap[n].label) /\ ~InPool(n)
            THEN heap[n].children = <<"array", heap[n].label, 1>>
            ELSE IsOriginal(heap[n].children, children[1])
       /\ Growing /\ children # <<>> => IsOriginal(heap[n].last, Last(children))
  /\ \A a \in Originals : \A l \in Labels : \A i \in DOMAIN kids[l] :
       heap[a].label = kids[l][i] =>
         IF i = Len(kids[l]) THEN heap[a].next = Null
         ELSE IsOriginal(heap[a].next, kids[l][i + 1])
  /\ \A l \in Labels : \A i \in DOMAIN kids[l] :
       /\ Moved(l) =>
            /\ <<"array", l, i>> \in DOMAIN heap
            /\ heap[<<"array", l, i>>].next =
                 IF i = Len(kids[l]) THEN Null ELSE <<"array", l, i + 1>>
       /\ <<"array", l, i>> \in DOMAIN heap \/ Moved(kids[l][i]) => Moved(l)

(* ... how far Solidify has come, ...                                      *)
SolidInv ==
  /\ todo = {n \in DOMAIN heap : /\ pc = "solidifying"
                                 /\ ~InPool(n) /\ ~Moved(heap[n].label)
                                 /\ kids[heap[n].label] # <<>>}
  /\ pc = "solid" =>
       /\ \A a \in DOMAIN heap : ~InPool(a)
       /\ \A l \in Labels : kids[l] # <<>> => Moved(l)
  /\ Growing \/ pc = "refused" => Originals = DOMAIN heap

(* ... which cells the pools have given out, ...                           *)
PoolsInv ==
  LET written == pool["write"] IN
  /\ pc \in {"fresh", "refused", "building", "solidifying"} =>
       \A p \in PoolNames : pool[p].lengths # <<>>
  /\ pool["strings"].lengths # <<>>
  /\ pc = "fresh" => pool = [p \in PoolNames |-> FreshPool]
  /\ pc = "solid" => \A p \in Drained : pool[p] = [lengths |-> <<>>, position |-> 0]
  /\ DOMAIN slots = DeletedCells(pool["strings"])
  /\ Growing =>
       /\ written.position > 0 \/ Len(written.lengths) = 1
       /\ Len(written.lengths) + written.position <= Created + 1
       /\ \A a \in DOMAIN heap : a[1] = "write" =>
            a[2] < Len(written.lengths) \/ (a[2] = Len(written.lengths) /\ a[3] <= written.position)

(* ... and what is allocated.                                              *)
Strings == {<<"string", slots[c]>> : c \in DOMAIN slots}

AllocatedInv ==
  /\ misfreed = {}
  /\ buffer.allocated => buffer.sized /\ pc \notin {"fresh", "refused"}
  /\ live = IF pc = "destroyed" THEN {}
            ELSE (UNION {Chunks(p, pool[p]) : p \in PoolNames}) \cup Strings
                 \cup (IF buffer.allocated THEN {<<"buffer">>} ELSE {})
                 \cup {<<"array", l>> : l \in {m \in Labels : Moved(m)}}

(* Every step of a tree's life keeps all of it, whatever its increment of  *)
(* the pools (KeyValue.cpp 144-301, 376-447).                              *)
TreeInv ==
  /\ TreeTypeOK
  /\ NodesInv
  /\ KidsInv
  /\ LinksInv
  /\ SolidInv
  /\ PoolsInv
  /\ AllocatedInv
===============================================================================
